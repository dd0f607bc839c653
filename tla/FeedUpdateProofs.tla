-------------------------- MODULE FeedUpdateProofs ---------------------------
(***************************************************************************)
(* Theorems about the module FeedUpdate, for every set of updaters,        *)
(* contents and configurations, and every parser.                          *)
(***************************************************************************)
EXTENDS FeedUpdate, TLAPS

\* Primary keys are used once.
PkInv == feed # None => feed.pk <= pks

\* What an updater has read.
ReadInv(x) ==
  /\ u[x].pc # "idle" => u[x].feed \in FeedRows /\ u[x].feed.pk <= pks
  /\ u[x].pc \in {"skip"} \cup TxPcs => u[x].content \in Contents
  /\ u[x].pc = "skip" => u[x].feed.hash = u[x].content

\* The locks of its transaction: the feed's row stays while the transaction
\* has inserted rows for it or has marked it.
LockInv(x) ==
  /\ ~InTx(x) => u[x].inserted = {} /\ u[x].deleted = {}
  /\ u[x].pc # "commit" => ~u[x].marked
  /\ u[x].pc = "commit" => (u[x].marked <=> StillThere(x))
  /\ InTx(x) /\ ~StillThere(x) => u[x].inserted = {}

\* What a transaction that has been alone so far is going to leave behind.
AloneInv(x) ==
  u[x].alone /\ InTx(x) =>
    /\ \A y \in Others(x) : ~InTx(y)
    /\ u[x].inserted \subseteq Wanted(x)
    /\ StillThere(x) =>
         /\ u[x].pc = "delete" => Wanted(x) \subseteq data \cup u[x].inserted
                                  /\ u[x].deleted = {}
         /\ u[x].pc \in {"mark", "commit"} =>
              (data \cup u[x].inserted) \ u[x].deleted = Wanted(x)

IInv ==
  /\ TypeOK
  /\ PkInv
  /\ \A x \in Updaters : ReadInv(x) /\ LockInv(x) /\ AloneInv(x)

\* With one updater: its transactions are alone, and the hash in the feed's
\* row is the one it has read, unless the row is gone or new.
OneUpdater == \A x, y \in Updaters : x = y
SingleInv ==
  /\ StoredDataIsWhole
  /\ feed # None /\ feed.hash # None => applied \in Configs
  /\ \A x \in Updaters :
       /\ u[x].alone
       /\ u[x].pc # "idle" /\ feed # None =>
            IF StillThere(x) THEN feed.hash = u[x].feed.hash
                             ELSE feed.hash = None
-----------------------------------------------------------------------------
URecords == [pc : Pcs, feed : FeedRows \cup {None}, force : BOOLEAN,
             content : Contents \cup {None}, inserted : SUBSET Keys,
             deleted : SUBSET Keys, marked : BOOLEAN, alone : BOOLEAN]

LEMMA IdleType == Idle \in URecords
BY DEF Idle, URecords, Pcs, TxPcs

LEMMA WantedType ==
  ASSUME TypeOK, NEW x \in Updaters, u[x].feed \in FeedRows,
         u[x].content \in Contents
  PROVE  Wanted(x) \in SUBSET Keys
<1>1. u[x].feed.config \in Configs
  BY DEF FeedRows
<1>2. QED
  BY <1>1, RowsAssumption DEF Wanted

LEMMA InitIInv == Init => IInv /\ SingleInv
<1> SUFFICES ASSUME Init PROVE IInv /\ SingleInv
  OBVIOUS
<1> USE DEF Init
<1>1. TypeOK
  BY IdleType, MaxPkAssumption DEF TypeOK, URecords
<1>2. PkInv
  BY DEF PkInv
<1>3. ASSUME NEW x \in Updaters PROVE ReadInv(x) /\ LockInv(x) /\ AloneInv(x)
  BY DEF ReadInv, LockInv, AloneInv, Idle, InTx, TxPcs
<1>4. SingleInv
  BY DEF SingleInv, StoredDataIsWhole, Idle
<1>5. QED
  BY <1>1, <1>2, <1>3, <1>4 DEF IInv

\* Type correctness.
LEMMA TypeStep == IInv /\ Next => TypeOK'
<1> SUFFICES ASSUME IInv, Next PROVE TypeOK'
  OBVIOUS
<1> USE DEF stored, IInv
<1>p. {"fetch", "skip", "fail", "insert", "delete", "mark", "commit"} \subseteq Pcs
  BY DEF Pcs, TxPcs
<1>t. /\ upstream \in Contents \cup {None} /\ feed \in FeedRows \cup {None}
      /\ pks \in 0..MaxPk /\ data \in SUBSET Keys /\ applied \in Configs \cup {None}
      /\ u \in [Updaters -> URecords]
  BY DEF TypeOK, URecords
<1>q. ASSUME upstream' \in Contents \cup {None}, feed' \in FeedRows \cup {None},
             pks' \in 0..MaxPk, data' \in SUBSET Keys,
             applied' \in Configs \cup {None}, u' \in [Updaters -> URecords]
      PROVE  TypeOK'
  BY <1>q DEF TypeOK, URecords
<1>1. ASSUME NEW c \in Contents \cup {None}, Publish(c) PROVE TypeOK'
  BY <1>1, <1>t, <1>q DEF Publish
<1>2. ASSUME NEW config \in Configs, InsertFeed(config) PROVE TypeOK'
  <2>1. pks' \in 0..MaxPk /\ pks' \in 1..MaxPk
    BY <1>2, <1>t, MaxPkAssumption DEF InsertFeed
  <2>2. feed' \in FeedRows
    BY <1>2, <2>1 DEF InsertFeed, FeedRows
  <2>3. QED
    BY <1>2, <1>t, <1>q, <2>1, <2>2 DEF InsertFeed
<1>3. ASSUME NEW config \in Configs, EditFeed(config) PROVE TypeOK'
  <2>1. feed' \in FeedRows
    BY <1>3, <1>t DEF EditFeed, FeedRows
  <2>2. QED
    BY <1>3, <1>t, <1>q, <2>1 DEF EditFeed
<1>4. ASSUME DeleteFeed PROVE TypeOK'
  BY <1>4, <1>t, <1>q DEF DeleteFeed
<1>5. ASSUME Crash PROVE TypeOK'
  BY <1>5, <1>t, <1>q, IdleType DEF Crash
<1>6. ASSUME NEW x \in Updaters, NEW force \in BOOLEAN, Begin(x, force)
      PROVE  TypeOK'
  <2>1. [Idle EXCEPT !.pc = "fetch", !.feed = feed, !.force = force] \in URecords
    BY <1>t, <1>p, IdleType DEF URecords
  <2>2. QED
    BY <1>6, <1>t, <1>q, <2>1 DEF Begin
<1>7. ASSUME NEW x \in Updaters, Fetch(x) PROVE TypeOK'
  <2>1. u' \in [Updaters -> URecords]
    BY <1>7, <1>t, <1>p DEF Fetch, URecords
  <2>2. QED
    BY <1>7, <1>t, <1>q, <2>1 DEF Fetch
<1>8. ASSUME NEW x \in Updaters, FetchFails(x) PROVE TypeOK'
  <2>1. u' \in [Updaters -> URecords]
    BY <1>8, <1>t, <1>p DEF FetchFails, URecords
  <2>2. QED
    BY <1>8, <1>t, <1>q, <2>1 DEF FetchFails
<1>9. ASSUME NEW x \in Updaters, Insert(x) PROVE TypeOK'
  <2> DEFINE missing == Wanted(x) \ data
             alone == \A z \in Others(x) : ~InTx(z)
             mine == [u[x] EXCEPT !.pc = "delete", !.inserted = missing,
                                  !.alone = alone]
             other(y) == [u[y] EXCEPT !.alone = @ /\ ~InTx(y)]
  <2>1. missing \in SUBSET Keys
    BY <1>9, WantedType DEF Insert, ReadInv, TxPcs
  <2>2. mine \in URecords
    <3>1. alone \in BOOLEAN
      OBVIOUS
    <3>2. QED
      BY <1>t, <1>p, <2>1, <3>1 DEF URecords
  <2>3. \A y \in Updaters : other(y) \in URecords
    <3> TAKE y \in Updaters
    <3>1. (u[y].alone /\ ~InTx(y)) \in BOOLEAN
      OBVIOUS
    <3>2. QED
      BY <1>t, <3>1 DEF URecords
  <2>4. u' = [y \in Updaters |-> IF y = x THEN mine ELSE other(y)]
    BY <1>9 DEF Insert
  <2>5. u' \in [Updaters -> URecords]
    BY <2>2, <2>3, <2>4
  <2>6. QED
    BY <1>9, <1>t, <1>q, <2>5 DEF Insert
<1>10. ASSUME NEW x \in Updaters, DeleteStale(x) PROVE TypeOK'
  <2>1. u' \in [Updaters -> URecords]
    <3> DEFINE stale == IF StillThere(x) THEN data \ Wanted(x) ELSE {}
    <3>1. stale \in SUBSET Keys
      BY <1>t
    <3>2. [u[x] EXCEPT !.pc = "mark", !.deleted = stale] \in URecords
      BY <1>t, <1>p, <3>1 DEF URecords
    <3>3. u' = [u EXCEPT ![x] = [u[x] EXCEPT !.pc = "mark", !.deleted = stale]]
      BY <1>10, <1>t DEF DeleteStale
    <3>4. QED
      BY <1>t, <3>2, <3>3
  <2>2. QED
    BY <1>10, <1>t, <1>q, <2>1 DEF DeleteStale
<1>11. ASSUME NEW x \in Updaters, MarkSuccessful(x) PROVE TypeOK'
  <2>1. u' \in [Updaters -> URecords]
    <3>1. StillThere(x) \in BOOLEAN
      BY DEF StillThere
    <3>2. [u[x] EXCEPT !.pc = "commit", !.marked = StillThere(x)] \in URecords
      BY <1>t, <1>p, <3>1 DEF URecords
    <3>3. u' = [u EXCEPT ![x] = [u[x] EXCEPT !.pc = "commit",
                                             !.marked = StillThere(x)]]
      BY <1>11, <1>t DEF MarkSuccessful
    <3>4. QED
      BY <1>t, <3>2, <3>3
  <2>2. QED
    BY <1>11, <1>t, <1>q, <2>1 DEF MarkSuccessful
<1>12. ASSUME NEW x \in Updaters, Commit(x) PROVE TypeOK'
  <2>1. data' \in SUBSET Keys
    BY <1>12, <1>t DEF Commit, URecords
  <2>2. feed' \in FeedRows \cup {None} /\ applied' \in Configs \cup {None}
    <3>1. CASE ~u[x].marked
      BY <1>12, <1>t, <3>1 DEF Commit
    <3>2. CASE u[x].marked
      <4>1. feed \in FeedRows /\ u[x].feed \in FeedRows /\ u[x].content \in Contents
        BY <1>12, <1>t, <3>2 DEF Commit, LockInv, ReadInv, StillThere, TxPcs
      <4>2. feed' = [feed EXCEPT !.hash = u[x].content]
            /\ applied' = u[x].feed.config
        BY <1>12, <3>2 DEF Commit
      <4>3. QED
        BY <4>1, <4>2 DEF FeedRows
    <3>3. QED
      BY <3>1, <3>2
  <2>3. u' \in [Updaters -> URecords]
    BY <1>12, <1>t, IdleType DEF Commit
  <2>4. QED
    BY <1>12, <1>t, <1>q, <2>1, <2>2, <2>3 DEF Commit
<1>13. ASSUME NEW x \in Updaters, TxFails(x) PROVE TypeOK'
  <2>1. [Idle EXCEPT !.pc = "fail", !.feed = u[x].feed] \in URecords
    BY <1>t, <1>p, IdleType DEF URecords
  <2>2. QED
    BY <1>13, <1>t, <1>q, <2>1 DEF TxFails
<1>14. ASSUME NEW x \in Updaters, Finish(x) PROVE TypeOK'
  BY <1>14, <1>t, <1>q, IdleType DEF Finish
<1>15. QED
  BY <1>1, <1>2, <1>3, <1>4, <1>5, <1>6, <1>7, <1>8, <1>9, <1>10, <1>11, <1>12,
     <1>13, <1>14 DEF Next, Proceed
-----------------------------------------------------------------------------
Parts == PkInv /\ \A x \in Updaters : ReadInv(x) /\ LockInv(x) /\ AloneInv(x)

LEMMA TypeFacts ==
  ASSUME TypeOK
  PROVE  /\ u \in [Updaters -> URecords]
         /\ feed # None => feed \in FeedRows
         /\ \A row \in FeedRows : row.pk \in Nat
         /\ pks \in Nat
BY MaxPkAssumption DEF TypeOK, URecords, FeedRows

\* A step of one updater that writes nothing, and enters no transaction,
\* disturbs nobody else.
LEMMA OwnStep ==
  ASSUME IInv, NEW x \in Updaters, UNCHANGED stored,
         u' = [u EXCEPT ![x] = u'[x]], InTx(x)' => InTx(x),
         ReadInv(x)', LockInv(x)', AloneInv(x)'
  PROVE  Parts'
<1> USE DEF IInv, stored
<1>1. PkInv'
  BY DEF PkInv
<1>2. ASSUME NEW y \in Updaters, y # x
      PROVE  ReadInv(y)' /\ LockInv(y)' /\ AloneInv(y)'
  <2>1. u'[y] = u[y] /\ \A z \in Others(y) : InTx(z)' => InTx(z)
    BY <1>2, TypeFacts DEF InTx, Others
  <2>2. /\ InTx(y)' <=> InTx(y)
        /\ StillThere(y)' <=> StillThere(y)
        /\ Wanted(y)' = Wanted(y)
        /\ Others(y)' = Others(y)
    BY <2>1 DEF InTx, StillThere, Wanted, Others
  <2>3. ReadInv(y)' /\ LockInv(y)'
    BY <2>1, <2>2 DEF ReadInv, LockInv
  <2>4. AloneInv(y)'
    BY <2>1, <2>2 DEF AloneInv
  <2>5. QED
    BY <2>3, <2>4
<1>3. QED
  BY <1>1, <1>2 DEF Parts

\* The environment.
LEMMA EnvironmentParts ==
  ASSUME IInv, TypeOK',
         \/ \E c \in Contents \cup {None} : Publish(c)
         \/ \E config \in Configs : InsertFeed(config) \/ EditFeed(config)
         \/ DeleteFeed \/ Crash
  PROVE  Parts'
<1> USE DEF IInv, stored
<1>1. CASE \E c \in Contents \cup {None} : Publish(c)
  BY <1>1 DEF Publish, Parts, PkInv, ReadInv, LockInv, AloneInv, InTx, Others,
              StillThere, Wanted
<1>2. CASE Crash
  <2>1. UNCHANGED stored /\ \A x \in Updaters : u'[x] = Idle
    BY <1>2 DEF Crash
  <2>2. QED
    BY <2>1 DEF Parts, PkInv, ReadInv, LockInv, AloneInv, InTx, Idle, TxPcs
<1>3. CASE \E config \in Configs : EditFeed(config)
  <2>1. /\ feed # None /\ feed' # None /\ feed'.pk = feed.pk
        /\ UNCHANGED <<pks, data, u>>
    BY <1>3, TypeFacts, NoneAssumption DEF EditFeed, TypeOK, FeedRows
  <2>2. \A x \in Updaters : StillThere(x)' <=> StillThere(x)
    BY <2>1 DEF StillThere
  <2>3. QED
    BY <2>1, <2>2 DEF Parts, PkInv, ReadInv, LockInv, AloneInv, InTx, Others,
                      Wanted
<1>4. CASE DeleteFeed
  <2>1. /\ feed' = None /\ UNCHANGED <<pks, u>>
        /\ \A x \in Updaters : ~u[x].marked /\ u[x].inserted = {}
    BY <1>4 DEF DeleteFeed
  <2>2. \A x \in Updaters : ~StillThere(x)'
    BY <2>1 DEF StillThere
  <2>3. QED
    BY <2>1, <2>2 DEF Parts, PkInv, ReadInv, LockInv, AloneInv, InTx, Others,
                      Wanted
<1>5. CASE \E config \in Configs : InsertFeed(config)
  <2>1. /\ feed = None /\ feed'.pk = pks + 1 /\ pks' = pks + 1
        /\ UNCHANGED <<data, u>>
    BY <1>5 DEF InsertFeed
  <2>2. \A x \in Updaters : u[x].pc # "idle" => ~StillThere(x)'
    BY <2>1, TypeFacts DEF StillThere, ReadInv
  <2>3. \A x \in Updaters : ~StillThere(x)
    BY <2>1 DEF StillThere
  <2>4. PkInv'
    BY <2>1, TypeFacts DEF PkInv
  <2>5. ASSUME NEW x \in Updaters
        PROVE  ReadInv(x)' /\ LockInv(x)' /\ AloneInv(x)'
    <3>1. ReadInv(x)'
      BY <2>1, TypeFacts DEF ReadInv
    <3>2. LockInv(x)'
      BY <2>1, <2>2, <2>3 DEF LockInv, InTx, TxPcs
    <3>3. AloneInv(x)'
      BY <2>1, <2>2 DEF AloneInv, InTx, TxPcs, Others, Wanted
    <3>4. QED
      BY <3>1, <3>2, <3>3
  <2>6. QED
    BY <2>4, <2>5 DEF Parts
<1>6. QED
  BY <1>1, <1>2, <1>3, <1>4, <1>5

\* Insert: the only step with which an updater enters the part of its
\* transaction that others can notice.
LEMMA InsertParts ==
  ASSUME IInv, NEW x \in Updaters, Insert(x)
  PROVE  Parts'
<1> USE DEF IInv, stored
<1> DEFINE missing == Wanted(x) \ data
<1>1. /\ u[x].pc = "insert" /\ UNCHANGED stored
      /\ missing # {} => StillThere(x)
  BY DEF Insert
<1>2. /\ u'[x].pc = "delete" /\ u'[x].inserted = missing
      /\ u'[x].alone = (\A z \in Others(x) : ~InTx(z))
      /\ u'[x].feed = u[x].feed /\ u'[x].content = u[x].content
      /\ u'[x].deleted = u[x].deleted /\ u'[x].marked = u[x].marked
  BY TypeFacts DEF Insert, URecords
<1>3. \A y \in Others(x) :
        /\ u'[y].pc = u[y].pc /\ u'[y].alone = (u[y].alone /\ ~InTx(y))
        /\ u'[y].feed = u[y].feed /\ u'[y].content = u[y].content
        /\ u'[y].inserted = u[y].inserted /\ u'[y].deleted = u[y].deleted
        /\ u'[y].marked = u[y].marked
  <2> SUFFICES ASSUME NEW y \in Others(x)
               PROVE  LET r == u'[y] IN
                      /\ r.pc = u[y].pc /\ r.alone = (u[y].alone /\ ~InTx(y))
                      /\ r.feed = u[y].feed /\ r.content = u[y].content
                      /\ r.inserted = u[y].inserted /\ r.deleted = u[y].deleted
                      /\ r.marked = u[y].marked
    OBVIOUS
  <2>1. u'[y] = [u[y] EXCEPT !.alone = @ /\ ~InTx(y)]
    BY DEF Insert, Others
  <2>2. u[y] \in URecords
    BY TypeFacts DEF Others
  <2>3. QED
    BY <2>1, <2>2 DEF URecords
<1>4. ~InTx(x) /\ InTx(x)' /\ \A y \in Others(x) : InTx(y)' <=> InTx(y)
  BY <1>1, <1>2, <1>3 DEF InTx, TxPcs
<1>5. \A y \in Updaters : /\ StillThere(y)' <=> StillThere(y)
                          /\ Wanted(y)' = Wanted(y)
  BY <1>1, <1>2, <1>3 DEF StillThere, Wanted, Others
<1>6. PkInv'
  BY <1>1 DEF PkInv
<1>7. ReadInv(x)' /\ LockInv(x)' /\ AloneInv(x)'
  <2>1. ReadInv(x)'
    BY <1>1, <1>2 DEF ReadInv, TxPcs
  <2>2. LockInv(x)'
    BY <1>1, <1>2, <1>4, <1>5 DEF LockInv
  <2>3. u'[x].deleted = {} /\ u'[x].inserted = Wanted(x) \ data
    BY <1>2, <1>4 DEF LockInv
  <2>4. AloneInv(x)'
    <3>1. u'[x].alone => \A y \in Others(x)' : ~InTx(y)'
      BY <1>2, <1>4 DEF Others
    <3>2. u'[x].inserted \subseteq Wanted(x)'
          /\ Wanted(x)' \subseteq data' \cup u'[x].inserted
      BY <2>3, <1>1, <1>5
    <3>3. QED
      BY <1>2, <2>3, <3>1, <3>2 DEF AloneInv
  <2>5. QED
    BY <2>1, <2>2, <2>4
<1>8. ASSUME NEW y \in Others(x)
      PROVE  ReadInv(y)' /\ LockInv(y)' /\ AloneInv(y)'
  <2>1. y \in Updaters
    BY DEF Others
  <2>2. ReadInv(y)' /\ LockInv(y)'
    BY <1>1, <1>3, <1>4, <1>5, <2>1 DEF ReadInv, LockInv
  <2>3. AloneInv(y)'
    BY <1>3, <1>4 DEF AloneInv
  <2>4. QED
    BY <2>2, <2>3
<1>9. QED
  BY <1>6, <1>7, <1>8 DEF Parts, Others

\* Commit: whoever else is in a transaction is not alone.
LEMMA CommitParts ==
  ASSUME IInv, NEW x \in Updaters, Commit(x)
  PROVE  Parts'
<1> USE DEF IInv
<1>1. /\ u[x].pc = "commit" /\ u' = [u EXCEPT ![x] = Idle]
      /\ UNCHANGED pks
  BY DEF Commit
<1>2. /\ feed' = None <=> feed = None
      /\ feed # None => feed'.pk = feed.pk
  <2>1. CASE ~u[x].marked
    BY <2>1 DEF Commit
  <2>2. CASE u[x].marked
    <3>1. feed \in FeedRows /\ u[x].content \in Contents
      BY <1>1, <2>2, TypeFacts DEF LockInv, ReadInv, StillThere, TxPcs
    <3>2. feed' = [feed EXCEPT !.hash = u[x].content]
      BY <2>2 DEF Commit
    <3>3. feed' \in FeedRows
      BY <3>1, <3>2 DEF FeedRows
    <3>4. QED
      BY <3>1, <3>2, <3>3, NoneAssumption DEF FeedRows
  <2>3. QED
    BY <2>1, <2>2
<1>3. PkInv'
  BY <1>1, <1>2 DEF PkInv
<1>4. ReadInv(x)' /\ LockInv(x)' /\ AloneInv(x)'
  <2>1. u'[x] = Idle
    BY <1>1, TypeFacts
  <2>2. QED
    BY <2>1 DEF ReadInv, LockInv, AloneInv, InTx, Idle, TxPcs
<1>5. ASSUME NEW y \in Others(x)
      PROVE  ReadInv(y)' /\ LockInv(y)' /\ AloneInv(y)'
  <2>1. y \in Updaters /\ x \in Others(y) /\ InTx(x) /\ u'[y] = u[y]
    BY <1>1, TypeFacts DEF Others, InTx, TxPcs
  <2>2. StillThere(y)' <=> StillThere(y)
    BY <1>2, <2>1 DEF StillThere
  <2>3. ReadInv(y)' /\ LockInv(y)'
    BY <1>1, <2>1, <2>2 DEF ReadInv, LockInv, InTx
  <2>4. ~(u[y].alone /\ InTx(y))
    BY <2>1 DEF AloneInv
  <2>5. AloneInv(y)'
    BY <2>1, <2>4 DEF AloneInv, InTx
  <2>6. QED
    BY <2>3, <2>5
<1>6. QED
  BY <1>3, <1>4, <1>5 DEF Parts, Others

\* The steps that stay outside of what others can notice, or go on in it.
LEMMA QuietParts ==
  ASSUME IInv, NEW x \in Updaters,
         \/ \E force \in BOOLEAN : Begin(x, force)
         \/ Fetch(x) \/ FetchFails(x) \/ DeleteStale(x) \/ MarkSuccessful(x)
         \/ TxFails(x) \/ Finish(x)
  PROVE  Parts'
<1> USE DEF IInv, stored
<1>1. CASE \E force \in BOOLEAN : Begin(x, force)
  <2>1. feed # None /\ UNCHANGED stored
    BY <1>1 DEF Begin
  <2>2. /\ u' = [u EXCEPT ![x] = u'[x]]
        /\ u'[x].pc = "fetch" /\ u'[x].feed = feed
        /\ u'[x].inserted = {} /\ u'[x].deleted = {} /\ ~u'[x].marked
    <3>1. PICK force \in BOOLEAN :
            u' = [u EXCEPT ![x] = [Idle EXCEPT !.pc = "fetch", !.feed = feed, !.force = force]]
      BY <1>1 DEF Begin
    <3>2. u'[x] = [Idle EXCEPT !.pc = "fetch", !.feed = feed, !.force = force]
      BY <3>1, TypeFacts
    <3>3. u' = [u EXCEPT ![x] = u'[x]]
      BY <3>1, <3>2
    <3>4. QED
      BY <3>2, <3>3 DEF Idle
  <2> feed \in FeedRows /\ feed.pk <= pks /\ UNCHANGED pks
    BY <2>1, TypeFacts DEF PkInv
  <2> ~InTx(x)'
    BY <2>2 DEF InTx, TxPcs
  <2>3. ReadInv(x)' /\ LockInv(x)' /\ AloneInv(x)' /\ ~InTx(x)'
    <3>1. ReadInv(x)'
      BY <2>2 DEF ReadInv, TxPcs
    <3>2. LockInv(x)' /\ AloneInv(x)'
      BY <2>2 DEF LockInv, AloneInv
    <3>3. QED
      BY <3>1, <3>2
  <2>4. QED
    BY <2>1, <2>2, <2>3, OwnStep
<1>2. CASE Fetch(x)
  <2>1. u[x].pc = "fetch" /\ upstream \in Contents /\ UNCHANGED stored
    BY <1>2 DEF Fetch, TypeOK
  <2>2. /\ u' = [u EXCEPT ![x] = u'[x]]
        /\ u'[x].pc = IF u[x].feed.hash = upstream /\ ~u[x].force
                      THEN "skip" ELSE "insert"
        /\ u'[x].content = upstream /\ u'[x].feed = u[x].feed
        /\ u'[x].inserted = u[x].inserted /\ u'[x].deleted = u[x].deleted
        /\ u'[x].marked = u[x].marked
    BY <1>2, TypeFacts DEF Fetch, URecords
  <2>3. ReadInv(x)' /\ LockInv(x)' /\ AloneInv(x)' /\ ~InTx(x)'
    BY <2>1, <2>2 DEF ReadInv, LockInv, AloneInv, InTx, TxPcs
  <2>4. QED
    BY <2>1, <2>2, <2>3, OwnStep
<1>3. CASE FetchFails(x)
  <2>1. u[x].pc = "fetch" /\ UNCHANGED stored
    BY <1>3 DEF FetchFails
  <2>2. /\ u' = [u EXCEPT ![x] = u'[x]]
        /\ u'[x].pc = "fail" /\ u'[x].feed = u[x].feed
        /\ u'[x].inserted = u[x].inserted /\ u'[x].deleted = u[x].deleted
        /\ u'[x].marked = u[x].marked
    BY <1>3, TypeFacts DEF FetchFails, URecords
  <2>3. ReadInv(x)' /\ LockInv(x)' /\ AloneInv(x)' /\ ~InTx(x)'
    BY <2>1, <2>2 DEF ReadInv, LockInv, AloneInv, InTx, TxPcs
  <2>4. QED
    BY <2>1, <2>2, <2>3, OwnStep
<1>4. CASE DeleteStale(x)
  <2> DEFINE stale == IF StillThere(x) THEN data \ Wanted(x) ELSE {}
  <2>1. u[x].pc = "delete" /\ UNCHANGED stored
    BY <1>4 DEF DeleteStale
  <2>2. /\ u' = [u EXCEPT ![x] = u'[x]]
        /\ u'[x].pc = "mark" /\ u'[x].feed = u[x].feed
        /\ u'[x].content = u[x].content /\ u'[x].alone = u[x].alone
        /\ u'[x].inserted = u[x].inserted /\ u'[x].deleted = stale
        /\ u'[x].marked = u[x].marked
    BY <1>4, TypeFacts DEF DeleteStale, URecords
  <2>3. InTx(x) /\ InTx(x)'
    BY <2>1, <2>2 DEF InTx, TxPcs
  <2>4. (StillThere(x)' <=> StillThere(x)) /\ Wanted(x)' = Wanted(x)
    BY <2>1, <2>2 DEF StillThere, Wanted
  <2>5. ReadInv(x)' /\ LockInv(x)'
    BY <2>1, <2>2, <2>3, <2>4 DEF ReadInv, LockInv, TxPcs
  <2>6. AloneInv(x)'
    <3>1. SUFFICES ASSUME u[x].alone PROVE AloneInv(x)'
      BY <2>2 DEF AloneInv
    <3>2. /\ \A y \in Others(x) : ~InTx(y)
          /\ u[x].inserted \subseteq Wanted(x)
          /\ StillThere(x) => Wanted(x) \subseteq data \cup u[x].inserted
      BY <2>1, <2>3, <3>1 DEF AloneInv
    <3>3. \A y \in Others(x)' : ~InTx(y)'
      BY <2>2, <3>2, TypeFacts DEF Others, InTx
    <3>4. StillThere(x) => (data \cup u[x].inserted) \ stale = Wanted(x)
      BY <3>2
    <3>5. QED
      BY <2>1, <2>2, <2>4, <3>2, <3>3, <3>4 DEF AloneInv
  <2>7. QED
    BY <2>1, <2>2, <2>3, <2>5, <2>6, OwnStep
<1>5. CASE MarkSuccessful(x)
  <2>1. u[x].pc = "mark" /\ UNCHANGED stored
    BY <1>5 DEF MarkSuccessful
  <2>2. /\ u' = [u EXCEPT ![x] = u'[x]]
        /\ u'[x].pc = "commit" /\ u'[x].feed = u[x].feed
        /\ u'[x].content = u[x].content /\ u'[x].alone = u[x].alone
        /\ u'[x].inserted = u[x].inserted /\ u'[x].deleted = u[x].deleted
        /\ u'[x].marked = StillThere(x)
    BY <1>5, TypeFacts DEF MarkSuccessful, URecords
  <2>3. InTx(x) /\ InTx(x)'
    BY <2>1, <2>2 DEF InTx, TxPcs
  <2>4. (StillThere(x)' <=> StillThere(x)) /\ Wanted(x)' = Wanted(x)
    BY <2>1, <2>2 DEF StillThere, Wanted
  <2>5. ReadInv(x)' /\ LockInv(x)'
    BY <2>1, <2>2, <2>3, <2>4 DEF ReadInv, LockInv, TxPcs
  <2>6. \A y \in Others(x)' : InTx(y)' <=> InTx(y)
    BY <2>2, TypeFacts DEF Others, InTx
  <2>7. AloneInv(x)'
    <3>1. SUFFICES ASSUME u[x].alone PROVE AloneInv(x)'
      BY <2>2 DEF AloneInv
    <3>2. /\ \A y \in Others(x) : ~InTx(y)
          /\ u[x].inserted \subseteq Wanted(x)
          /\ StillThere(x) => (data \cup u[x].inserted) \ u[x].deleted = Wanted(x)
      BY <2>1, <2>3, <3>1 DEF AloneInv
    <3>3. \A y \in Others(x)' : ~InTx(y)'
      BY <2>6, <3>2 DEF Others
    <3>4. QED
      BY <2>1, <2>2, <2>4, <3>2, <3>3 DEF AloneInv
  <2>8. QED
    BY <2>1, <2>2, <2>3, <2>5, <2>7, OwnStep
<1>6. CASE TxFails(x)
  <2>1. u[x].pc \in TxPcs /\ UNCHANGED stored
    BY <1>6 DEF TxFails
  <2>2. /\ u' = [u EXCEPT ![x] = u'[x]]
        /\ u'[x].pc = "fail" /\ u'[x].feed = u[x].feed
        /\ u'[x].inserted = {} /\ u'[x].deleted = {} /\ ~u'[x].marked
    BY <1>6, TypeFacts DEF TxFails, Idle
  <2>3. ReadInv(x)' /\ LockInv(x)' /\ AloneInv(x)' /\ ~InTx(x)'
    BY <2>1, <2>2 DEF ReadInv, LockInv, AloneInv, InTx, TxPcs
  <2>4. QED
    BY <2>1, <2>2, <2>3, OwnStep
<1>7. CASE Finish(x)
  <2>1. UNCHANGED stored
    BY <1>7 DEF Finish
  <2>2. u' = [u EXCEPT ![x] = u'[x]] /\ u'[x] = Idle
    BY <1>7, TypeFacts DEF Finish
  <2>3. ReadInv(x)' /\ LockInv(x)' /\ AloneInv(x)' /\ ~InTx(x)'
    BY <2>2 DEF ReadInv, LockInv, AloneInv, InTx, Idle, TxPcs
  <2>4. QED
    BY <2>1, <2>2, <2>3, OwnStep
<1>8. QED
  BY <1>1, <1>2, <1>3, <1>4, <1>5, <1>6, <1>7

LEMMA StepIInv == IInv /\ [Next]_vars => IInv'
<1> SUFFICES ASSUME IInv, [Next]_vars PROVE IInv'
  OBVIOUS
<1>1. CASE UNCHANGED vars
  BY <1>1 DEF vars, IInv, TypeOK, PkInv, ReadInv, LockInv, AloneInv, InTx, Others,
              StillThere, Wanted
<1>2. CASE Next
  <2>1. TypeOK'
    BY <1>2, TypeStep
  <2>2. Parts'
    BY <1>2, <2>1, EnvironmentParts, InsertParts, CommitParts, QuietParts
       DEF Next, Proceed
  <2>3. QED
    BY <2>1, <2>2 DEF IInv, Parts
<1>3. QED
  BY <1>1, <1>2

\* The inductive invariant: what updates have read, which rows they have
\* locked, and what a transaction that is alone leaves behind.
THEOREM UpdateInvariant == Spec => []IInv
<1>1. Init => IInv
  BY InitIInv
<1>2. IInv /\ [Next]_vars => IInv'
  BY StepIInv
<1>3. QED
  BY <1>1, <1>2, PTL DEF Spec

\* The variables have their types.
THEOREM UpdateTypeCorrect == Spec => []TypeOK
<1>1. IInv => TypeOK
  BY DEF IInv
<1>2. QED
  BY <1>1, UpdateInvariant, PTL
-----------------------------------------------------------------------------
(* What an update that overlaps no other one stores.                       *)

\* Only a commit that has marked the feed ends a transaction and changes the
\* feed's row.
LEMMA WholeStep ==
  ASSUME IInv, [Next]_vars, NEW x \in Updaters,
         u[x].pc = "commit", u'[x] = Idle, feed' # feed, u[x].alone
  PROVE  data' = Wanted(x)
<1> USE DEF IInv, stored
<1>1. u'[x] # u[x]
  BY DEF Idle
<1>2. Commit(x)
  <2>1. ~UNCHANGED vars
    BY DEF vars
  <2>2. ~(\E c \in Contents \cup {None} : Publish(c)) /\ ~Crash
    BY DEF Publish, Crash
  <2>3. ~(\E config \in Configs : InsertFeed(config) \/ EditFeed(config))
        /\ ~DeleteFeed
    BY <1>1 DEF InsertFeed, EditFeed, DeleteFeed
  <2>4. PICK y \in Updaters : (\E force \in BOOLEAN : Begin(y, force)) \/ Proceed(y)
    BY <2>1, <2>2, <2>3 DEF Next
  <2>5. Commit(y)
    BY <2>4 DEF Proceed, Begin, Fetch, FetchFails, Insert, DeleteStale,
                MarkSuccessful, TxFails, Finish
  <2>6. y = x
    BY <1>1, <2>5, TypeFacts DEF Commit
  <2>7. QED
    BY <2>5, <2>6
<1>3. u[x].marked
  BY <1>2 DEF Commit
<1>4. (data \cup u[x].inserted) \ u[x].deleted = Wanted(x)
  BY <1>3 DEF LockInv, AloneInv, InTx, TxPcs
<1>5. QED
  BY <1>2, <1>4 DEF Commit

\* An update whose transaction overlaps no other one stores the whole content.
THEOREM WholeUpdates == Spec => UndisturbedUpdateIsWhole
<1>1. IInv /\ [Next]_vars =>
        [\A x \in Updaters :
           u[x].pc = "commit" /\ u'[x] = Idle /\ feed' # feed /\ u[x].alone
             => data' = Wanted(x)]_vars
  BY WholeStep
<1>2. QED
  BY <1>1, UpdateInvariant, PTL DEF Spec, UndisturbedUpdateIsWhole
-----------------------------------------------------------------------------
(* One updater at a time, as when the scheduler alone updates the feed.    *)

LEMMA SingleFacts ==
  ASSUME OneUpdater, NEW x \in Updaters
  PROVE  Others(x) = {}
BY DEF OneUpdater, Others

\* A step of the updater that changes nothing that is stored keeps the
\* invariant if it keeps the row it has read.
LEMMA SingleOwnStep ==
  ASSUME IInv, SingleInv, OneUpdater, NEW x \in Updaters, UNCHANGED stored,
         u'[x].alone,
         \/ u'[x].pc = "idle"
         \/ u[x].pc # "idle" /\ u'[x].feed = u[x].feed
         \/ u'[x].feed = feed
  PROVE  SingleInv'
<1> USE DEF stored
<1>1. StoredDataIsWhole' /\ (feed # None /\ feed.hash # None => applied \in Configs)'
  BY DEF SingleInv, StoredDataIsWhole
<1>2. ASSUME NEW y \in Updaters
      PROVE  /\ u'[y].alone
             /\ u'[y].pc # "idle" /\ feed # None =>
                  IF feed.pk = u'[y].feed.pk THEN feed.hash = u'[y].feed.hash
                                             ELSE feed.hash = None
  <2>1. y = x
    BY DEF OneUpdater
  <2>2. QED
    BY <2>1 DEF SingleInv, StillThere
<1>3. QED
  BY <1>1, <1>2 DEF SingleInv, StillThere

LEMMA SingleStep ==
  ASSUME OneUpdater, IInv, SingleInv, [Next]_vars
  PROVE  SingleInv'
<1> USE DEF IInv, stored
<1>1. CASE UNCHANGED vars
  BY <1>1 DEF vars, SingleInv, StoredDataIsWhole, StillThere
<1>2. CASE \E c \in Contents \cup {None} : Publish(c)
  BY <1>2 DEF Publish, SingleInv, StoredDataIsWhole, StillThere
<1>3. CASE \E config \in Configs : InsertFeed(config)
  <2>1. /\ feed = None /\ feed' # None /\ feed'.hash = None /\ feed'.pk = pks + 1
        /\ UNCHANGED <<data, applied, u>>
    <3>1. PICK config \in Configs : InsertFeed(config)
      BY <1>3
    <3>2. feed' \in FeedRows
      <4>1. pks + 1 \in 1..MaxPk
        BY <3>1, MaxPkAssumption DEF InsertFeed, TypeOK
      <4>2. QED
        BY <3>1, <4>1 DEF InsertFeed, FeedRows
    <3>3. QED
      BY <3>1, <3>2, NoneAssumption DEF InsertFeed
  <2>2. \A x \in Updaters : u[x].pc # "idle" => ~StillThere(x)'
    BY <2>1, TypeFacts DEF StillThere, ReadInv
  <2>3. QED
    BY <2>1, <2>2 DEF SingleInv, StoredDataIsWhole
<1>4. CASE \E config \in Configs : EditFeed(config)
  <2>1. /\ feed # None /\ feed' # None /\ feed'.pk = feed.pk
        /\ feed'.hash = feed.hash /\ UNCHANGED <<data, applied, u>>
    BY <1>4, TypeFacts, NoneAssumption DEF EditFeed, TypeOK, FeedRows
  <2>2. QED
    BY <2>1 DEF SingleInv, StoredDataIsWhole, StillThere
<1>5. CASE DeleteFeed
  BY <1>5 DEF DeleteFeed, SingleInv, StoredDataIsWhole, StillThere
<1>6. CASE Crash
  BY <1>6 DEF Crash, SingleInv, StoredDataIsWhole, StillThere, Idle
<1>7. ASSUME NEW x \in Updaters, NEW force \in BOOLEAN, Begin(x, force)
      PROVE  SingleInv'
  <2>1. u'[x].feed = feed /\ u'[x].alone /\ UNCHANGED stored
    BY <1>7, TypeFacts DEF Begin, Idle
  <2>2. QED
    BY <2>1, SingleOwnStep
<1>8. ASSUME NEW x \in Updaters,
             Fetch(x) \/ FetchFails(x) \/ DeleteStale(x) \/ MarkSuccessful(x)
      PROVE  SingleInv'
  <2>1. /\ u[x].pc # "idle" /\ u'[x].feed = u[x].feed
        /\ u'[x].alone = u[x].alone /\ UNCHANGED stored
    BY <1>8, TypeFacts DEF Fetch, FetchFails, DeleteStale, MarkSuccessful, URecords
  <2>2. QED
    BY <2>1, SingleOwnStep DEF SingleInv
<1>9. ASSUME NEW x \in Updaters, Insert(x) PROVE SingleInv'
  <2>1. /\ u[x].pc # "idle" /\ u'[x].feed = u[x].feed
        /\ u'[x].alone = (\A z \in Others(x) : ~InTx(z)) /\ UNCHANGED stored
    BY <1>9, TypeFacts DEF Insert, URecords
  <2>2. QED
    BY <2>1, SingleFacts, SingleOwnStep
<1>10. ASSUME NEW x \in Updaters, TxFails(x) PROVE SingleInv'
  <2>1. /\ u[x].pc # "idle" /\ u'[x].feed = u[x].feed /\ u'[x].alone
        /\ UNCHANGED stored
    BY <1>10, TypeFacts DEF TxFails, Idle, TxPcs
  <2>2. QED
    BY <2>1, SingleOwnStep
<1>11. ASSUME NEW x \in Updaters, Finish(x) PROVE SingleInv'
  <2>1. u'[x].pc = "idle" /\ u'[x].alone /\ UNCHANGED stored
    BY <1>11, TypeFacts DEF Finish, Idle
  <2>2. QED
    BY <2>1, SingleOwnStep
<1>12. ASSUME NEW x \in Updaters, Commit(x) PROVE SingleInv'
  <2>1. /\ u[x].pc = "commit" /\ u'[x].pc = "idle" /\ u'[x].alone
        /\ data' = (data \cup u[x].inserted) \ u[x].deleted
    BY <1>12, TypeFacts DEF Commit, Idle
  <2>2. \A y \in Updaters : y = x
    BY DEF OneUpdater
  <2>3. CASE u[x].marked
    <3>1. StillThere(x) /\ u[x].content \in Contents /\ feed \in FeedRows
          /\ u[x].feed \in FeedRows
      BY <2>1, <2>3, TypeFacts DEF LockInv, ReadInv, TxPcs, StillThere
    <3>2. feed' = [feed EXCEPT !.hash = u[x].content]
          /\ applied' = u[x].feed.config
      BY <1>12, <2>3 DEF Commit
    <3>3. feed' \in FeedRows /\ feed'.hash = u[x].content /\ feed'.hash # None
          /\ feed' # None /\ applied' \in Configs
      BY <3>1, <3>2, NoneAssumption DEF FeedRows
    <3>4. data' = Wanted(x)
      BY <2>1, <3>1 DEF SingleInv, AloneInv, InTx, TxPcs
    <3>5. data' = Rows[applied'][feed'.hash]
      BY <3>2, <3>3, <3>4 DEF Wanted
    <3>6. QED
      BY <2>1, <2>2, <3>3, <3>5 DEF SingleInv, StoredDataIsWhole
  <2>4. CASE ~u[x].marked
    <3>1. UNCHANGED <<feed, applied>> /\ ~StillThere(x) /\ u[x].inserted = {}
      BY <1>12, <2>1, <2>4 DEF Commit, LockInv, InTx, TxPcs
    <3>2. feed = None \/ feed.hash = None
      BY <2>1, <3>1 DEF SingleInv
    <3>3. data' = {}
      BY <2>1, <3>1, <3>2 DEF SingleInv, StoredDataIsWhole
    <3>4. QED
      BY <2>1, <2>2, <3>1, <3>2, <3>3 DEF SingleInv, StoredDataIsWhole
  <2>5. QED
    BY <2>3, <2>4
<1>13. QED
  BY <1>1, <1>2, <1>3, <1>4, <1>5, <1>6, <1>7, <1>8, <1>9, <1>10, <1>11, <1>12
     DEF Next, Proceed

\* With one updater, what is stored is always the whole of the content whose
\* hash is in the feed's row.
THEOREM StoredWhole ==
  ASSUME OneUpdater
  PROVE  Spec => []StoredDataIsWhole
<1>1. Init => IInv /\ SingleInv
  BY InitIInv
<1>2. IInv /\ SingleInv /\ [Next]_vars => SingleInv'
  BY SingleStep
<1>3. SingleInv => StoredDataIsWhole
  BY DEF SingleInv
<1>4. QED
  BY <1>1, <1>2, <1>3, UpdateInvariant, PTL DEF Spec

\* With one updater, an update that is skipped would store what is stored,
\* unless the feed's configuration has changed since the last successful one.
THEOREM SkipsAreRight ==
  ASSUME OneUpdater
  PROVE  Spec => []SkippedIsCurrent
<1>1. Init => IInv /\ SingleInv
  BY InitIInv
<1>2. IInv /\ SingleInv /\ [Next]_vars => SingleInv'
  BY SingleStep
<1>3. ASSUME IInv, SingleInv, NEW x \in Updaters, u[x].pc = "skip",
             StillThere(x), applied = u[x].feed.config
      PROVE  data = Wanted(x)
  <2>1. u[x].feed \in FeedRows /\ u[x].content \in Contents
        /\ u[x].feed.hash = u[x].content
    BY <1>3 DEF IInv, ReadInv
  <2>2. feed # None /\ feed.hash = u[x].content
    BY <1>3, <2>1 DEF SingleInv, StillThere
  <2>3. feed.hash # None
    BY <2>1, <2>2, NoneAssumption
  <2>4. data = Rows[applied][feed.hash]
    BY <1>3, <2>2, <2>3 DEF SingleInv, StoredDataIsWhole
  <2>5. QED
    BY <1>3, <2>2, <2>4 DEF Wanted
<1>4. IInv /\ SingleInv => SkippedIsCurrent
  BY <1>3 DEF SkippedIsCurrent
<1>5. QED
  BY <1>1, <1>2, <1>4, UpdateInvariant, PTL DEF Spec
=============================================================================
