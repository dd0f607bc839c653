------------------------------ MODULE PublicApi ------------------------------
(***************************************************************************)
(* The requests to the public API: those for stops (StopRequests) and the  *)
(* others (PublicRequests), each with tables of its own, for requests only *)
(* read.                                                                   *)
(***************************************************************************)
EXTENDS StopRequests

CONSTANTS AllTables,   \* the other requests: what may be committed,
          LeftOut,     \* what a request for routes may leave out,
          LastMoment   \* and the last moment

VARIABLES tables, deleted, now, asked, during

Public == INSTANCE PublicRequests WITH
  Databases <- AllTables, Skips <- LeftOut, MaxTime <- LastMoment,
  db <- tables, gone <- deleted, request <- asked

\* Whatever commits between the queries of a request, every part of the answer was
\* true at some moment since it began ...
AnswersWereTrue == Public!AnswersWereTrue

\* ... and endpoints that tell of the same thing at the same moment agree.
EndpointsAgree == Public!EndpointsAgree
=============================================================================
