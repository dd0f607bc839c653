--------------------------- MODULE MCFeedScheduler ---------------------------
(* An instance of FeedScheduler for TLC. *)
EXTENDS OneFeed
=============================================================================
