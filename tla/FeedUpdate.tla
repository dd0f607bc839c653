----------------------------- MODULE FeedUpdate ------------------------------
(***************************************************************************)
(* Updates of one feed (Update and run in internal/update/update.go):      *)
(* read the feed's row, download, compare the content's hash with that of  *)
(* the last successful update, and otherwise store the parsed content and  *)
(* the new hash in one transaction.                                        *)
(*                                                                         *)
(* The scheduler runs one update of a feed at a time, but the admin API    *)
(* and an install call the same function without asking the scheduler, so  *)
(* there are several updaters.  Transactions run at READ COMMITTED: every  *)
(* statement sees what has been committed when it starts.  Storing is what *)
(* realtime.updateTrips does: insert the rows that are missing, then       *)
(* delete the feed's rows that are not in the content.                     *)
(*                                                                         *)
(* A content stands for its hash: two contents have the same hash only if  *)
(* they are the same.                                                      *)
(***************************************************************************)
EXTENDS Naturals

CONSTANTS Updaters,  \* goroutines that update the feed
          Contents,  \* what the feed's URL may serve
          Configs,   \* feed configurations
          Keys,      \* IDs of the rows an update stores
          Rows,      \* what a content is parsed to under a configuration
          None,      \* no feed, no content, not parsed yet
          MaxPk      \* bound: how often the feed is inserted

ASSUME RowsAssumption == Rows \in [Configs -> [Contents -> SUBSET Keys]]
ASSUME MaxPkAssumption == MaxPk \in Nat

VARIABLES
  upstream,  \* what the feed's URL serves; None: an error or an empty answer
  feed,      \* the feed's row: primary key, configuration, last_content_hash
  pks,       \* number of primary keys used
  data,      \* the committed rows of the feed
  applied,   \* history: the configuration of the last successful update
  u          \* per updater: where it is, its locals and its transaction

vars == <<upstream, feed, pks, data, applied, u>>
stored == <<feed, pks, data, applied>>

TxPcs == {"insert", "delete", "mark", "commit"}
Pcs == {"idle", "fetch", "skip", "fail"} \cup TxPcs

FeedRows == [pk : 1..MaxPk, config : Configs, hash : Contents \cup {None}]

ASSUME NoneAssumption == None \notin Contents \cup Configs \cup FeedRows

Idle == [pc |-> "idle", feed |-> None, force |-> FALSE, content |-> None,
         inserted |-> {}, deleted |-> {}, marked |-> FALSE, alone |-> TRUE]

Init ==
  /\ upstream = None
  /\ feed = None /\ pks = 0
  /\ data = {} /\ applied = None
  /\ u = [x \in Updaters |-> Idle]

InTx(x) == u[x].pc \in TxPcs \ {"insert"}
Others(x) == Updaters \ {x}

\* The row that updater x has read is still there.
StillThere(x) == feed # None /\ feed.pk = u[x].feed.pk
Wanted(x) == Rows[u[x].feed.config][u[x].content]
-----------------------------------------------------------------------------
(* The environment: the transit agency, and upsertSystemMetadata and       *)
(* DeleteSystem of the admin service.  Changing or deleting the row waits  *)
(* for the transactions that have locked it.                               *)

Publish(c) ==
  /\ upstream' = c
  /\ UNCHANGED <<stored, u>>

InsertFeed(config) ==
  /\ feed = None
  /\ pks < MaxPk
  /\ pks' = pks + 1
  /\ feed' = [pk |-> pks + 1, config |-> config, hash |-> None]
  /\ UNCHANGED <<upstream, data, applied, u>>

EditFeed(config) ==
  /\ feed # None
  /\ \A x \in Updaters : ~u[x].marked
  /\ feed' = [feed EXCEPT !.config = config]
  /\ UNCHANGED <<upstream, pks, data, applied, u>>

\* The feed's rows go with it.  A row inserted for the feed locks it too.
DeleteFeed ==
  /\ feed # None
  /\ \A x \in Updaters : ~u[x].marked /\ u[x].inserted = {}
  /\ feed' = None
  /\ data' = {}
  /\ applied' = None
  /\ UNCHANGED <<upstream, pks, u>>

\* The server process ends, and the database rolls back.
Crash ==
  /\ u' = [x \in Updaters |-> Idle]
  /\ UNCHANGED <<upstream, stored>>
-----------------------------------------------------------------------------
\* GetFeed.  Without the row the update ends with a not found error.
Begin(x, force) ==
  /\ u[x].pc = "idle"
  /\ feed # None
  /\ u' = [u EXCEPT ![x] = [Idle EXCEPT !.pc = "fetch", !.feed = feed,
                                        !.force = force]]
  /\ UNCHANGED <<upstream, stored>>

\* Mutant of Fetch: a feed that has been updated is never updated again.
FetchOnce(x) ==
  /\ u[x].pc = "fetch"
  /\ upstream # None
  /\ u' = [u EXCEPT ![x].content = upstream,
                    ![x].pc = IF u[x].feed.hash # None /\ ~u[x].force
                              THEN "skip" ELSE "insert"]
  /\ UNCHANGED <<upstream, stored>>

\* getFeedContent, the comparison of the hashes, and the parser.
Fetch(x) ==
  /\ u[x].pc = "fetch"
  /\ upstream # None
  /\ u' = [u EXCEPT ![x].content = upstream,
                    ![x].pc = IF u[x].feed.hash = upstream /\ ~u[x].force
                              THEN "skip" ELSE "insert"]
  /\ UNCHANGED <<upstream, stored>>

\* An unreadable configuration, an unknown feed type, a failed or empty
\* download, or content that cannot be parsed.
FetchFails(x) ==
  /\ u[x].pc = "fetch"
  /\ u' = [u EXCEPT ![x].pc = "fail"]
  /\ UNCHANGED <<upstream, stored>>

\* The first statements of the transaction.  The key of a row is unique: the
\* insertion waits for other transactions that have inserted it, and fails if
\* they commit (TxFails).  It fails as well if the feed is gone.
Insert(x) ==
  /\ u[x].pc = "insert"
  /\ LET missing == Wanted(x) \ data
     IN /\ missing # {} => StillThere(x)
        /\ \A y \in Others(x) : u[y].inserted \cap missing = {}
        /\ u' = [y \in Updaters |->
                   IF y = x
                   THEN [u[x] EXCEPT !.pc = "delete", !.inserted = missing,
                                     !.alone = \A z \in Others(x) : ~InTx(z)]
                   ELSE [u[y] EXCEPT !.alone = @ /\ ~InTx(y)]]
  /\ UNCHANGED <<upstream, stored>>

\* Mutants of DeleteStale: nothing is deleted, or the rows that were there
\* already are stale as well.
DeleteNothing(x) ==
  /\ u[x].pc = "delete"
  /\ u' = [u EXCEPT ![x].pc = "mark"]
  /\ UNCHANGED <<upstream, stored>>

DeleteUnchanged(x) ==
  /\ u[x].pc = "delete"
  /\ LET stale == IF StillThere(x) THEN data \ u[x].inserted ELSE {}
     IN /\ \A y \in Others(x) : u[y].deleted \cap stale = {}
        /\ u' = [u EXCEPT ![x].pc = "mark", ![x].deleted = stale]
  /\ UNCHANGED <<upstream, stored>>

\* Deletion of the stale rows; it waits for who has deleted the same row.
DeleteStale(x) ==
  /\ u[x].pc = "delete"
  /\ LET stale == IF StillThere(x) THEN data \ Wanted(x) ELSE {}
     IN /\ \A y \in Others(x) : u[y].deleted \cap stale = {}
        /\ u' = [u EXCEPT ![x].pc = "mark", ![x].deleted = stale]
  /\ UNCHANGED <<upstream, stored>>

\* Mutant of MarkSuccessful: it is not part of the transaction.
MarkOutside(x) ==
  /\ u[x].pc = "mark"
  /\ StillThere(x)
  /\ feed' = [feed EXCEPT !.hash = u[x].content]
  /\ applied' = u[x].feed.config
  /\ u' = [u EXCEPT ![x].pc = "commit", ![x].marked = TRUE]
  /\ UNCHANGED <<upstream, pks, data>>

\* MarkSuccessfulUpdate.
MarkSuccessful(x) ==
  /\ u[x].pc = "mark"
  /\ StillThere(x) => \A y \in Others(x) : ~u[y].marked
  /\ u' = [u EXCEPT ![x].pc = "commit", ![x].marked = StillThere(x)]
  /\ UNCHANGED <<upstream, stored>>

Commit(x) ==
  /\ u[x].pc = "commit"
  /\ data' = (data \cup u[x].inserted) \ u[x].deleted
  /\ IF u[x].marked
     THEN /\ feed' = [feed EXCEPT !.hash = u[x].content]
          /\ applied' = u[x].feed.config
     ELSE UNCHANGED <<feed, applied>>
  /\ u' = [u EXCEPT ![x] = Idle]
  /\ UNCHANGED <<upstream, pks>>

\* A statement fails, the connection is lost, the caller's context is
\* cancelled, or the database breaks a deadlock.
TxFails(x) ==
  /\ u[x].pc \in TxPcs
  /\ u' = [u EXCEPT ![x] = [Idle EXCEPT !.pc = "fail", !.feed = u[x].feed]]
  /\ UNCHANGED <<upstream, stored>>

\* MarkSkippedUpdate or MarkFailedUpdate, outside of any transaction; they
\* set timestamps only, wait for the row's lock, and may fail themselves.
Finish(x) ==
  /\ u[x].pc \in {"skip", "fail"}
  /\ StillThere(x) => \A y \in Others(x) : ~u[y].marked
  /\ u' = [u EXCEPT ![x] = Idle]
  /\ UNCHANGED <<upstream, stored>>
-----------------------------------------------------------------------------
\* The steps of an update that has begun.
Proceed(x) ==
  \/ Fetch(x) \/ FetchFails(x) \/ Insert(x) \/ DeleteStale(x)
  \/ MarkSuccessful(x) \/ Commit(x) \/ TxFails(x) \/ Finish(x)

Next ==
  \/ \E c \in Contents \cup {None} : Publish(c)
  \/ \E config \in Configs : InsertFeed(config) \/ EditFeed(config)
  \/ DeleteFeed \/ Crash
  \/ \E x \in Updaters :
       \/ \E force \in BOOLEAN : Begin(x, force)
       \/ Proceed(x)

Spec == Init /\ [][Next]_vars

\* The scheduler updates the feed again and again (ScheduledFeedIsUpdated of
\* Scheduler), an update goes on until it ends, and no error is for ever: what
\* can succeed again and again succeeds eventually.
FairSpec ==
  /\ Spec
  /\ \A x \in Updaters :
       /\ WF_vars(Begin(x, FALSE)) /\ WF_vars(Proceed(x))
       /\ SF_vars(Fetch(x)) /\ SF_vars(Insert(x)) /\ SF_vars(DeleteStale(x))
       /\ SF_vars(MarkSuccessful(x)) /\ SF_vars(Commit(x))
-----------------------------------------------------------------------------
(* Properties.                                                             *)

\* The variables have their types.
TypeOK ==
  /\ upstream \in Contents \cup {None}
  /\ feed \in FeedRows \cup {None}
  /\ pks \in 0..MaxPk
  /\ data \in SUBSET Keys
  /\ applied \in Configs \cup {None}
  /\ u \in [Updaters -> [pc : Pcs, feed : FeedRows \cup {None}, force : BOOLEAN,
                         content : Contents \cup {None},
                         inserted : SUBSET Keys, deleted : SUBSET Keys,
                         marked : BOOLEAN, alone : BOOLEAN]]

\* With one updater: what is stored is always the whole of one content, the
\* one whose hash is in the feed's row, parsed under one configuration, after
\* any failures, crashes, edits and deletions of the feed.
StoredDataIsWhole ==
  /\ feed = None \/ feed.hash = None => data = {}
  /\ feed # None /\ feed.hash # None => data = Rows[applied][feed.hash]

\* "skipped (the transit agency returned the same data as the last update, so
\* there is nothing to do)" (api/public.proto, Feed.last_update_ms): what is
\* stored is what the update would store, if it has read the configuration under
\* which the last successful one has parsed its content.
SkippedIsCurrent ==
  \A x \in Updaters :
    u[x].pc = "skip" /\ StillThere(x) /\ applied = u[x].feed.config
      => data = Wanted(x)

\* An update whose transaction overlaps no other one stores the whole content,
\* whatever overlapping updates have left behind before.
UndisturbedUpdateIsWhole ==
  [][\A x \in Updaters :
       u[x].pc = "commit" /\ u'[x] = Idle /\ feed' # feed /\ u[x].alone
         => data' = Wanted(x)]_vars

\* If the feed's URL keeps serving the same content, and the feed stays and
\* does not hold the result of an older configuration, its data becomes that
\* content and stays it.
Converges ==
  \A c \in Contents :
    <>[](upstream = c /\ feed # None /\ applied \in {None, feed.config}) =>
      <>[](feed # None /\ data = Rows[feed.config][c])
=============================================================================
