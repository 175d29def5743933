------------------------- MODULE ChannelSyncProofs -------------------------
(***************************************************************************)
(* Proofs about ChannelSync, and about the table that ChannelTable puts on *)
(* top of it, for every set of documents, every assignment of names and of *)
(* activities, and every bound.                                            *)
(***************************************************************************)
EXTENDS ChannelTable, FiniteSetTheorems, TLAPS

-----------------------------------------------------------------------------
(* The invariant holds initially.                                          *)

LEMMA InitIInv == Init => IInv
  <1> SUFFICES ASSUME Init PROVE IInv
    OBVIOUS
  <1>1. TypeOK
    BY DEF Init, TypeOK
  <1>2. KnownIds
    BY DEF Init, KnownIds
  <1>3. LoopState /\ InsertsHaveSaves
    BY DEF Init, LoopState, InsertsHaveSaves
  <1>4. ExactSoFar /\ PartSoFar
    BY DEF Init, ExactSoFar, PartSoFar
  <1> QED
    BY <1>1, <1>2, <1>3, <1>4 DEF IInv

-----------------------------------------------------------------------------
(* Steps of Firestore and of the user's writes: the queue of snapshots and *)
(* the collection change, the cache does not.                              *)

LEMMA PublishTypes ==
  ASSUME IInv, NEW new \in SUBSET Ids, Publish(new)
  PROVE  /\ server' \subseteq Ids /\ gone' \subseteq Ids
         /\ snapshots' \in Seq(SUBSET Ids)
  BY DEF IInv, TypeOK, Publish

\* A change of the collection keeps every id known, the queue's included.
LEMMA PublishKnownIds ==
  ASSUME IInv, NEW new \in SUBSET Ids, new \cap gone = {}, Publish(new)
  PROVE  /\ server \cup gone \subseteq server' \cup gone'
         /\ server' \cap gone' = {}
         /\ \A i \in 1..Len(snapshots') : snapshots'[i] \subseteq server' \cup gone'
  <1>1. /\ server \cup gone \subseteq server' \cup gone'
        /\ server' \cap gone' = {}
        /\ new \subseteq server' \cup gone'
    BY DEF IInv, KnownIds, Publish
  <1>2. CASE snapshots' = snapshots
    BY <1>1, <1>2 DEF IInv, KnownIds
  <1>3. CASE snapshots' = Append(snapshots, new)
    <2> SUFFICES ASSUME NEW i \in 1..Len(snapshots')
                 PROVE  snapshots'[i] \subseteq server' \cup gone'
      BY <1>1
    <2>1. snapshots \in Seq(SUBSET Ids)
      BY DEF IInv, TypeOK
    <2>2. CASE i \in 1..Len(snapshots)
      BY <1>1, <1>3, <2>1, <2>2 DEF IInv, KnownIds
    <2>3. CASE i = Len(snapshots) + 1
      BY <1>1, <1>3, <2>1, <2>3
    <2> QED
      BY <1>3, <2>1, <2>2, <2>3
  <1> QED
    BY <1>2, <1>3 DEF Publish

\* The parts of the invariant about the cache follow from an unchanged cache.
LEMMA CacheUnchanged ==
  ASSUME IInv, UNCHANGED <<mainLoop, cur, bg, saves, store, unmerged, verdict>>
  PROVE  LoopState' /\ InsertsHaveSaves' /\ ExactSoFar' /\ PartSoFar'
  BY DEF IInv, mainLoop, LoopState, InsertsHaveSaves, ExactSoFar, PartSoFar, Clash, Covers

LEMMA GetChannelsFromFirebaseStep ==
  ASSUME IInv, GetChannelsFromFirebase
  PROVE  IInv'
  <1>1. TypeOK'
    BY DEF IInv, TypeOK, GetChannelsFromFirebase, mainLoop
  <1>2. KnownIds'
    <2>1. snapshots \in Seq(SUBSET Ids) /\ server \in SUBSET Ids
      BY DEF IInv, TypeOK
    <2>2. snapshots' = Append(snapshots, server)
      BY DEF GetChannelsFromFirebase
    <2>3. \A i \in 1..Len(snapshots') : snapshots'[i] \subseteq server \cup gone
      BY <2>1, <2>2 DEF IInv, KnownIds
    <2> QED
      BY <2>3 DEF IInv, KnownIds, GetChannelsFromFirebase, mainLoop
  <1> QED
    BY <1>1, <1>2, CacheUnchanged DEF IInv, GetChannelsFromFirebase

\* RemoteChange and NewChannelAlert differ only in who writes.
LEMMA PublishStep ==
  ASSUME IInv, NEW new \in SUBSET Ids, new \subseteq server \cup Fresh, Publish(new),
         UNCHANGED <<listener, mainLoop, cur, bg, saves, store, unmerged, verdict>>
  PROVE  IInv'
  <1>1. new \cap gone = {}
    BY DEF IInv, KnownIds, Fresh
  <1>2. TypeOK'
    BY PublishTypes DEF IInv, TypeOK, mainLoop
  <1>3. KnownIds'
    BY <1>1, PublishKnownIds DEF IInv, KnownIds, mainLoop
  <1> QED
    BY <1>2, <1>3, CacheUnchanged DEF IInv

LEMMA RemoteChangeStep ==
  ASSUME IInv, NEW new \in SUBSET Ids, RemoteChange(new)
  PROVE  IInv'
  BY PublishStep DEF RemoteChange

LEMMA AddChannelStep ==
  ASSUME IInv, NEW c \in Ids, NewChannelAlert(c)
  PROVE  IInv'
  <1>1. server \cup {c} \in SUBSET Ids /\ server \cup {c} \subseteq server \cup Fresh
    BY DEF IInv, TypeOK, NewChannelAlert, AddChannelToFirebase
  <1> QED
    BY <1>1, PublishStep DEF NewChannelAlert, AddChannelToFirebase

LEMMA ListenerErrorStep ==
  ASSUME IInv, ListenerError
  PROVE  IInv'
  <1>1. TypeOK' /\ KnownIds'
    BY DEF IInv, TypeOK, KnownIds, ListenerError, mainLoop
  <1> QED
    BY <1>1, CacheUnchanged DEF IInv, ListenerError

-----------------------------------------------------------------------------
(* Steps of the main thread.                                               *)

LEMMA HandleSnapshotStep ==
  ASSUME IInv, HandleSnapshot
  PROVE  IInv'
  <1> DEFINE snap == Head(snapshots)
  <1>1. /\ snapshots \in Seq(SUBSET Ids) /\ snapshots # <<>>
        /\ snapshots' = Tail(snapshots)
    BY DEF IInv, TypeOK, HandleSnapshot
  <1>2. snap \subseteq Ids /\ snap \subseteq server \cup gone
    BY <1>1 DEF IInv, KnownIds
  <1>3. snapshots' \in Seq(SUBSET Ids)
    BY <1>1
  <1>4. \A i \in 1..Len(snapshots') : snapshots'[i] \subseteq server \cup gone
    BY <1>1 DEF IInv, KnownIds
  <1>5. /\ actual' = snap
        /\ pc = "idle" /\ todo = {} /\ cur = {}
        /\ UNCHANGED <<server, gone, listener, cur, bg, saves, store, unmerged>>
    BY DEF HandleSnapshot, firebase, IInv, LoopState
  <1>6. \/ todo' = Stale(snap) /\ pc' = LoopOr(todo', "prune")
        \/ todo' = snap /\ pc' = "insert"
        \/ todo' = {} /\ pc' = "idle"
    BY <1>5 DEF HandleSnapshot, CheckingTheRelevanceOfChannels
  <1>7. TypeOK'
    BY <1>2, <1>3, <1>5, <1>6 DEF IInv, TypeOK, HandleSnapshot, Promise, Stale, LoopOr
  <1>8. KnownIds'
    BY <1>2, <1>4, <1>5, <1>6 DEF IInv, KnownIds, Stale
  <1>9. LoopState' /\ InsertsHaveSaves'
    BY <1>5, <1>6 DEF IInv, LoopState, InsertsHaveSaves, Stale, LoopOr
  <1> DEFINE n == Cardinality(snap)
             m == Cardinality(fetchedObjects)
  <1>10. n \in Nat /\ m \in Nat
    <2>1. IsFiniteSet(snap) /\ IsFiniteSet(fetchedObjects)
      BY <1>2, ConstantsAssumption, FS_Subset DEF fetchedObjects, IInv, TypeOK
    <2> QED
      BY <2>1, FS_CardinalityType
  <1>11. verdict' = Promise(snap)
    BY DEF HandleSnapshot
  <1> HIDE DEF n, m
  <1>12. ExactSoFar'
    <2> SUFFICES ASSUME WillBeExact(snap)
                 PROVE  ExactSoFar'
      BY <1>11 DEF Promise, ExactSoFar
    <2>1. CASE n < m
      <3>1. snap \subseteq store /\ bg \subseteq snap
        BY <1>10, <2>1 DEF WillBeExact, n, m
      <3>2. todo' = store \ snap /\ pc' = LoopOr(todo', "prune")
        BY <1>10, <2>1 DEF HandleSnapshot, CheckingTheRelevanceOfChannels, Stale, n, m
      <3> QED
        BY <3>1, <3>2, <1>5 DEF ExactSoFar, LoopOr, Covers, Clash
    <2>2. CASE n > m
      <3>1. store \cup bg \subseteq snap
        BY <1>10, <2>2 DEF WillBeExact, n, m
      <3>2. todo' = snap /\ pc' = "insert"
        BY <1>10, <2>2 DEF HandleSnapshot, CheckingTheRelevanceOfChannels, n, m
      <3> QED
        BY <3>1, <3>2, <1>5 DEF ExactSoFar, Covers
    <2>3. CASE n = m
      <3>1. store \cup bg = snap
        BY <1>10, <2>3 DEF WillBeExact, n, m
      <3>2. todo' = {} /\ pc' = "idle"
        BY <1>10, <2>3, <1>5 DEF HandleSnapshot, CheckingTheRelevanceOfChannels, n, m
      <3> QED
        BY <3>1, <3>2, <1>5 DEF ExactSoFar, Covers, Clash
    <2> QED
      BY <1>10, <2>1, <2>2, <2>3
  <1>13. PartSoFar'
    <2>1. CASE verdict' = "covers"
      <3>1. n > m
        BY <1>10, <1>11, <2>1 DEF Promise, n, m
      <3>2. todo' = snap /\ pc' = "insert"
        BY <1>10, <3>1 DEF HandleSnapshot, CheckingTheRelevanceOfChannels, n, m
      <3> QED
        BY <1>5, <2>1, <3>2 DEF PartSoFar, Covers
    <2>2. CASE verdict' = "within"
      <3>1. n < m /\ bg \subseteq snap
        BY <1>10, <1>11, <2>2 DEF Promise, n, m
      <3>2. todo' = store \ snap /\ pc' = LoopOr(todo', "prune")
        BY <1>10, <3>1 DEF HandleSnapshot, CheckingTheRelevanceOfChannels, Stale, n, m
      <3> QED
        BY <1>5, <2>2, <3>1, <3>2 DEF PartSoFar, LoopOr
    <2> QED
      BY <2>1, <2>2 DEF PartSoFar
  <1> QED
    BY <1>7, <1>8, <1>9, <1>12, <1>13 DEF IInv

LEMMA InsertChannelStep ==
  ASSUME IInv, NEW c \in Ids, InsertChannel(c)
  PROVE  IInv'
  <1> USE DEF InsertChannel, firebase
  <1>1. TypeOK'
    BY DEF IInv, TypeOK
  <1>2. KnownIds'
    BY DEF IInv, KnownIds
  <1>3. LoopState' /\ InsertsHaveSaves'
    BY DEF IInv, LoopState, InsertsHaveSaves
  <1>4. ExactSoFar'
    BY DEF IInv, ExactSoFar, LoopState, Covers, Clash
  <1>5. PartSoFar'
    BY DEF IInv, PartSoFar, LoopState, Covers, Clash, LoopOr
  <1> QED
    BY <1>1, <1>2, <1>3, <1>4, <1>5 DEF IInv

LEMMA FillChannelStep ==
  ASSUME IInv, FillChannel
  PROVE  IInv'
  <1> USE DEF FillChannel, firebase
  <1>1. TypeOK'
    BY DEF IInv, TypeOK, LoopOr
  <1>2. KnownIds'
    BY DEF IInv, KnownIds
  <1>3. LoopState' /\ InsertsHaveSaves'
    BY DEF IInv, TypeOK, LoopState, InsertsHaveSaves, LoopOr
  <1>4. ExactSoFar'
    BY DEF IInv, ExactSoFar, Covers, Clash, LoopOr
  <1>5. PartSoFar'
    BY DEF IInv, PartSoFar, LoopState, Covers, Clash, LoopOr
  <1> QED
    BY <1>1, <1>2, <1>3, <1>4, <1>5 DEF IInv

LEMMA DeleteStaleChannelStep ==
  ASSUME IInv, NEW c \in Ids, DeleteStaleChannel(c)
  PROVE  IInv'
  <1> USE DEF DeleteStaleChannel, DeleteRow, firebase
  <1>1. TypeOK'
    BY DEF IInv, TypeOK, LoopOr
  <1>2. KnownIds'
    BY DEF IInv, KnownIds
  <1>3. LoopState' /\ InsertsHaveSaves'
    BY DEF IInv, LoopState, InsertsHaveSaves, LoopOr
  <1>4. ExactSoFar'
    BY DEF IInv, ExactSoFar, LoopState, Covers, Clash, LoopOr
  <1>5. PartSoFar'
    BY DEF IInv, PartSoFar, LoopState, Covers, Clash, LoopOr
  <1> QED
    BY <1>1, <1>2, <1>3, <1>4, <1>5 DEF IInv

LEMMA ContextualDeleteStep ==
  ASSUME IInv, NEW c \in Ids, ContextualDeleteAction(c)
  PROVE  IInv'
  <1> DEFINE new == server \ {c}
  <1>1. new \in SUBSET Ids /\ new \cap gone = {} /\ Publish(new)
    BY DEF IInv, TypeOK, KnownIds, ContextualDeleteAction, DeleteDocument
  <1> HIDE DEF new
  <1>2. TypeOK'
    BY <1>1, PublishTypes DEF IInv, TypeOK, ContextualDeleteAction, DeleteDocument, DeleteRow, mainLoop
  <1>3. KnownIds'
    BY <1>1, PublishKnownIds DEF IInv, KnownIds, ContextualDeleteAction, DeleteDocument, DeleteRow, mainLoop
  <1>4. LoopState' /\ InsertsHaveSaves'
    BY DEF IInv, LoopState, InsertsHaveSaves, ContextualDeleteAction, DeleteDocument, DeleteRow, mainLoop
  <1>5. ExactSoFar' /\ PartSoFar'
    BY DEF ExactSoFar, PartSoFar, ContextualDeleteAction, DeleteDocument
  <1> QED
    BY <1>2, <1>3, <1>4, <1>5 DEF IInv

-----------------------------------------------------------------------------
(* Steps of the private queue, the merge and the restart.                  *)

LEMMA SaveUnchangedStep ==
  ASSUME IInv, SaveUnchanged
  PROVE  IInv'
  <1> USE DEF SaveUnchanged, firebase, mainLoop
  <1>1. TypeOK' /\ KnownIds'
    BY DEF IInv, TypeOK, KnownIds
  <1>2. LoopState' /\ InsertsHaveSaves' /\ ExactSoFar' /\ PartSoFar'
    BY DEF IInv, LoopState, InsertsHaveSaves, ExactSoFar, PartSoFar, Clash, Covers
  <1> QED
    BY <1>1, <1>2 DEF IInv

\* The heart of the matter: whatever the constraints make of the inserts, a
\* channel that was covered by a row or by an insert is covered by a row.
LEMMA SaveCommitsStep ==
  ASSUME IInv, SaveCommits
  PROVE  IInv'
  <1> USE DEF SaveCommits, firebase, mainLoop
  <1>1. PICK w \in SUBSET (bg \ store) :
          /\ DistinctNames(store \cup w)
          /\ Covers(store \cup w, bg)
          /\ store' = store \cup w
          /\ unmerged' = unmerged \cup w
    BY DEF Survivors
  <1>2. TypeOK'
    BY <1>1 DEF IInv, TypeOK
  <1>3. KnownIds'
    BY <1>1 DEF IInv, KnownIds
  <1>4. LoopState' /\ InsertsHaveSaves'
    BY <1>1 DEF IInv, LoopState, InsertsHaveSaves
  <1>5. ASSUME NEW S, Covers(store \cup bg \cup cur, S)
        PROVE  Covers(store' \cup bg' \cup cur', S)
    <2>1. ASSUME NEW c \in S
          PROVE  \E d \in store \cup w \cup cur : Clash(c, d)
      <3>1. PICK d \in store \cup bg \cup cur : Clash(c, d)
        BY <1>5 DEF Covers
      <3>2. CASE d \in bg
        <4>1. PICK e \in store \cup w : Clash(d, e)
          BY <3>2, <1>1 DEF Covers
        <4> QED
          BY <3>1, <4>1 DEF Clash
      <3> QED
        BY <3>1, <3>2
    <2> QED
      BY <1>1, <2>1 DEF Covers
  <1>6. ExactSoFar'
    <2>1. CASE pc # "prune"
      BY <1>1, <1>5, <2>1 DEF IInv, ExactSoFar
    <2>2. CASE pc = "prune"
      BY <1>1, <2>2 DEF IInv, ExactSoFar, LoopState
    <2> QED
      BY <2>1, <2>2
  <1>7. PartSoFar'
    BY <1>1, <1>5 DEF IInv, PartSoFar
  <1> QED
    BY <1>2, <1>3, <1>4, <1>6, <1>7 DEF IInv

LEMMA SaveRollsBackStep ==
  ASSUME IInv, SaveRollsBack
  PROVE  IInv'
  <1> USE DEF SaveRollsBack, firebase, mainLoop
  <1>1. TypeOK' /\ KnownIds'
    BY DEF IInv, TypeOK, KnownIds
  <1>2. LoopState' /\ InsertsHaveSaves' /\ ExactSoFar' /\ PartSoFar'
    BY DEF IInv, LoopState, InsertsHaveSaves, ExactSoFar, PartSoFar, Clash
  <1> QED
    BY <1>1, <1>2 DEF IInv

LEMMA MergeStep ==
  ASSUME IInv, NEW s \in SUBSET unmerged, MergeChangesFromParent(s)
  PROVE  IInv'
  <1> USE DEF MergeChangesFromParent, firebase, mainLoop
  <1>1. TypeOK' /\ KnownIds'
    BY DEF IInv, TypeOK, KnownIds
  <1>2. LoopState' /\ InsertsHaveSaves' /\ ExactSoFar' /\ PartSoFar'
    BY DEF IInv, LoopState, InsertsHaveSaves, ExactSoFar, PartSoFar, Clash, Covers
  <1> QED
    BY <1>1, <1>2 DEF IInv

LEMMA RestartStep ==
  ASSUME IInv, Restart
  PROVE  IInv'
  <1>1. TypeOK' /\ KnownIds'
    BY DEF Restart, IInv, TypeOK, KnownIds
  <1>2. LoopState' /\ InsertsHaveSaves' /\ ExactSoFar' /\ PartSoFar'
    BY DEF Restart, IInv, LoopState, InsertsHaveSaves, ExactSoFar, PartSoFar, Clash
  <1> QED
    BY <1>1, <1>2 DEF IInv

LEMMA StutterStep ==
  ASSUME IInv, UNCHANGED vars
  PROVE  IInv'
  <1>1. TypeOK' /\ KnownIds'
    BY DEF vars, IInv, TypeOK, KnownIds
  <1> QED
    BY <1>1, CacheUnchanged DEF IInv, vars, mainLoop

LEMMA NextIInv == IInv /\ [Next]_vars => IInv'
  <1> SUFFICES ASSUME IInv, [Next]_vars
               PROVE  IInv'
    OBVIOUS
  <1>1. CASE GetChannelsFromFirebase
    BY <1>1, GetChannelsFromFirebaseStep
  <1>2. CASE \E new \in SUBSET Ids : RemoteChange(new)
    BY <1>2, RemoteChangeStep
  <1>3. CASE \E c \in Ids : NewChannelAlert(c)
    BY <1>3, AddChannelStep
  <1>4. CASE ListenerError
    BY <1>4, ListenerErrorStep
  <1>5. CASE HandleSnapshot
    BY <1>5, HandleSnapshotStep
  <1>6. CASE Pass
    BY <1>6, InsertChannelStep, FillChannelStep, DeleteStaleChannelStep DEF Pass
  <1>7. CASE \E c \in Ids : ContextualDeleteAction(c)
    BY <1>7, ContextualDeleteStep
  <1>8. CASE SaveBackgroundContex
    BY <1>8, SaveUnchangedStep, SaveCommitsStep, SaveRollsBackStep DEF SaveBackgroundContex
  <1>9. CASE \E s \in SUBSET unmerged : MergeChangesFromParent(s)
    BY <1>9, MergeStep
  <1>10. CASE Restart
    BY <1>10, RestartStep
  <1>11. CASE UNCHANGED vars
    BY <1>11, StutterStep
  <1> QED
    BY <1>1, <1>2, <1>3, <1>4, <1>5, <1>6, <1>7, <1>8, <1>9, <1>10, <1>11 DEF Next

-----------------------------------------------------------------------------
(* The theorems.                                                           *)

\* The inductive invariant holds in every reachable state of the channel list.
THEOREM Invariance == Spec => []IInv
  BY InitIInv, NextIInv, PTL DEF Spec

\* An insert in backgroundContex always has a save block queued behind it,
\* however saves, rollbacks and the inserting loop interleave.
THEOREM InsertsAreNeverStranded == Spec => []NoInsertStranded
  <1>1. IInv => NoInsertStranded
    BY DEF IInv, NoInsertStranded
  <1> QED
    BY <1>1, Invariance, PTL

\* A pass of checkingTheRelevanceOfChannels that starts from sets ordered by
\* inclusion ends with the cache mirroring the snapshot.
THEOREM ExactPassesMirror == Spec => []ExactPassMirrors
  <1>1. IInv => ExactPassMirrors
    <2> SUFFICES ASSUME IInv, verdict = "exact", pc = "idle", saves = 0
                 PROVE  Mirrors(store, actual)
      BY DEF ExactPassMirrors
    <2>1. todo = {} /\ cur = {} /\ bg = {}
      BY DEF IInv, LoopState, InsertsHaveSaves
    <2> QED
      BY <2>1 DEF IInv, ExactSoFar, Mirrors
  <1> QED
    BY <1>1, Invariance, PTL

\* An undisturbed pass over sets that are not ordered does its own part: one
\* that inserts covers the snapshot, one that prunes leaves nothing stale.
THEOREM PassesDoTheirPart == Spec => []PassDoesItsPart
  <1>1. IInv => PassDoesItsPart
    <2> SUFFICES ASSUME IInv, pc = "idle"
                 PROVE  PassDoesItsPart
      BY DEF PassDoesItsPart
    <2>1. todo = {} /\ cur = {}
      BY DEF IInv, LoopState
    <2>2. saves = 0 => bg = {}
      BY DEF IInv, InsertsHaveSaves
    <2> QED
      BY <2>1, <2>2 DEF IInv, PartSoFar, PassDoesItsPart, Covers
  <1> QED
    BY <1>1, Invariance, PTL

-----------------------------------------------------------------------------
(* The detailed channel list implements ChannelCache.                      *)

LEMMA PublishImplementsChange ==
  ASSUME IInv, NEW new \in SUBSET Ids, new \cap gone = {}, Publish(new)
  PROVE  Cache!Change(new)
  BY DEF Publish, Cache!Change

\* A change of the collection that leaves the cache alone is an Evolve step.
LEMMA PublishImplementsEvolve ==
  ASSUME IInv, NEW new \in SUBSET Ids, new \cap gone = {}, Publish(new),
         UNCHANGED <<actual, store>>
  PROVE  Cache!CacheNext
  BY PublishImplementsChange DEF Cache!CacheNext, Cache!Evolve

LEMMA SaveCommitsImplementsLearn ==
  ASSUME IInv, SaveCommits
  PROVE  Cache!CacheNext
  <1>1. PICK w \in SUBSET (bg \ store) :
          DistinctNames(store \cup w) /\ store' = store \cup w
    BY DEF SaveCommits, Survivors
  <1>2. w \in SUBSET (server \cup gone)
    BY DEF IInv, KnownIds
  <1>3. Cache!OneNameEach(store')
    BY <1>1 DEF DistinctNames, Clash, Cache!OneNameEach
  <1> QED
    BY <1>1, <1>2, <1>3
    DEF SaveCommits, firebase, mainLoop, Cache!CacheNext, Cache!Learn

LEMMA ContextualDeleteImplementsRemove ==
  ASSUME IInv, NEW c \in Ids, ContextualDeleteAction(c)
  PROVE  Cache!CacheNext
  <1> DEFINE new == server \ {c}
  <1>1. new \in SUBSET Ids /\ new \cap gone = {} /\ Publish(new)
    BY DEF IInv, TypeOK, KnownIds, ContextualDeleteAction, DeleteDocument
  <1>2. c \in store /\ UNCHANGED actual
    BY DEF ContextualDeleteAction, DeleteDocument, fetchedObjects, mainLoop
  <1>3. CASE store' = store \ {c}
    BY <1>1, <1>2, <1>3, PublishImplementsChange DEF Cache!CacheNext, Cache!Remove
  <1>4. CASE store' = store
    BY <1>1, <1>2, <1>4, PublishImplementsEvolve
  <1> QED
    BY <1>3, <1>4 DEF ContextualDeleteAction, DeleteDocument, DeleteRow

LEMMA PassImplementsForget ==
  ASSUME IInv, Pass
  PROVE  [Cache!CacheNext]_<<server, gone, actual, store>>
  <1>1. CASE \E c \in Ids : InsertChannel(c)
    BY <1>1 DEF InsertChannel, firebase
  <1>2. CASE FillChannel
    BY <1>2 DEF FillChannel, firebase
  <1>3. CASE \E c \in Ids : DeleteStaleChannel(c)
    <2>1. PICK c \in Ids : DeleteStaleChannel(c)
      BY <1>3
    <2>2. c \in store \ actual
      BY <2>1 DEF DeleteStaleChannel, IInv, LoopState
    <2>3. CASE store' = store \ {c}
      BY <2>1, <2>2, <2>3 DEF DeleteStaleChannel, firebase, Cache!CacheNext, Cache!Forget
    <2>4. CASE store' = store
      BY <2>1, <2>4 DEF DeleteStaleChannel, firebase
    <2> QED
      BY <2>1, <2>3, <2>4 DEF DeleteStaleChannel, DeleteRow
  <1> QED
    BY <1>1, <1>2, <1>3 DEF Pass

LEMMA HearingImplementsHear ==
  ASSUME IInv, HandleSnapshot \/ Restart
  PROVE  Cache!CacheNext
  <1>1. actual' \in SUBSET (server \cup gone)
    <2>1. CASE HandleSnapshot
      <3>1. snapshots \in Seq(SUBSET Ids) /\ snapshots # <<>>
        BY <2>1 DEF IInv, TypeOK, HandleSnapshot
      <3> QED
        BY <2>1, <3>1 DEF HandleSnapshot, IInv, KnownIds
    <2>2. CASE Restart
      BY <2>2 DEF Restart
    <2> QED
      BY <2>1, <2>2
  <1>2. UNCHANGED <<server, gone, store>>
    BY DEF HandleSnapshot, Restart, firebase
  <1> QED
    BY <1>1, <1>2 DEF Cache!CacheNext, Cache!Hear

LEMMA StepImplements ==
  ASSUME IInv, [Next]_vars
  PROVE  [Cache!CacheNext]_<<server, gone, actual, store>>
  <1>1. CASE \/ GetChannelsFromFirebase \/ ListenerError \/ SaveUnchanged
             \/ SaveRollsBack \/ UNCHANGED vars
             \/ \E s \in SUBSET unmerged : MergeChangesFromParent(s)
    BY <1>1 DEF GetChannelsFromFirebase, ListenerError, SaveUnchanged,
                SaveRollsBack, MergeChangesFromParent, vars, firebase, mainLoop
  <1>2. CASE \E new \in SUBSET Ids : RemoteChange(new)
    <2>1. PICK new \in SUBSET Ids : RemoteChange(new)
      BY <1>2
    <2>2. new \cap gone = {} /\ Publish(new) /\ UNCHANGED <<actual, store>>
      BY <2>1 DEF RemoteChange, mainLoop, Fresh, IInv, KnownIds
    <2> QED
      BY <2>2, PublishImplementsEvolve
  <1>3. CASE \E c \in Ids : NewChannelAlert(c)
    <2>1. PICK c \in Ids : NewChannelAlert(c)
      BY <1>3
    <2> DEFINE new == server \cup {c}
    <2>2. /\ new \in SUBSET Ids /\ new \cap gone = {}
          /\ Publish(new) /\ UNCHANGED <<actual, store>>
      BY <2>1 DEF NewChannelAlert, AddChannelToFirebase, mainLoop, Fresh, IInv, TypeOK, KnownIds
    <2> HIDE DEF new
    <2> QED
      BY <2>2, PublishImplementsEvolve
  <1>4. CASE HandleSnapshot \/ Restart
    BY <1>4, HearingImplementsHear
  <1>5. CASE Pass
    BY <1>5, PassImplementsForget
  <1>6. CASE \E c \in Ids : ContextualDeleteAction(c)
    BY <1>6, ContextualDeleteImplementsRemove
  <1>7. CASE SaveCommits
    BY <1>7, SaveCommitsImplementsLearn
  <1> QED
    BY <1>1, <1>2, <1>3, <1>4, <1>5, <1>6, <1>7 DEF Next, SaveBackgroundContex

\* Every behaviour of the channel list, with its threads, contexts and save
\* blocks, is a behaviour of ChannelCache: the refinement the run checks.
THEOREM Refinement == Spec => ImplementsChannelCache
  <1>1. Init => Cache!CacheInit
    BY DEF Init, Cache!CacheInit
  <1>2. IInv /\ [Next]_vars => [Cache!CacheNext]_(Cache!cacheVars)
    BY StepImplements DEF Cache!cacheVars
  <1> QED
    BY <1>1, <1>2, Invariance, PTL DEF Spec, ImplementsChannelCache, Cache!CacheSpec

\* A row leaves the store only if the last snapshot lacks its channel or its
\* document is being deleted: no save, rollback, merge or restart loses one.
THEOREM RowsLeaveOnlyWhenStale == Spec => OnlyStaleRowsLeave
  <1> DEFINE A == \A c \in store : c \notin store' => c \notin actual \/ c \notin server'
  <1>1. ASSUME IInv, Cache!CacheNext
        PROVE  A
    BY <1>1 DEF Cache!CacheNext, Cache!Evolve, Cache!Hear, Cache!Learn,
                Cache!Forget, Cache!Remove, Cache!Change
  <1>2. ASSUME UNCHANGED <<server, gone, actual, store>>
        PROVE  A
    BY <1>2
  <1>3. IInv /\ [Next]_vars => [A]_vars
    BY <1>1, <1>2, StepImplements
  <1> QED
    BY <1>3, Invariance, PTL DEF Spec, OnlyStaleRowsLeave

-----------------------------------------------------------------------------
(* The table shows what ChannelSync does: every one of its steps is one of *)
(* the channel list or leaves the list alone.                              *)

LEMMA TableStepIsListStep ==
  ASSUME TypeOK, TableNext
  PROVE  [Next]_vars
  <1>1. CASE \/ GetChannelsFromFirebase \/ SaveBackgroundContex \/ Pass
             \/ ListenerError \/ HandleSnapshot \/ Restart
             \/ \E new \in SUBSET Ids : RemoteChange(new)
             \/ \E s \in SUBSET unmerged : MergeChangesFromParent(s)
    BY <1>1 DEF Next
  <1>2. CASE \E c \in Ids : NewChannel(c)
    BY <1>2 DEF NewChannel, Next
  <1>3. CASE Reload \/ Back \/ \E i \in DOMAIN cells : CellForRowAt(i) \/ DidSelectRowAt(i)
    BY <1>3 DEF Reload, Back, CellForRowAt, DidSelectRowAt
  <1>4. CASE \E i \in DOMAIN cells : Swipe(i)
    BY <1>4 DEF Swipe, ContextualDeleteAction, fetchedObjects, TypeOK, Next
  <1>5. CASE \E i \in DOMAIN cells : CellForRowAtTraps(i) \/ IndexTraps(i)
    BY <1>5 DEF CellForRowAtTraps, IndexTraps, TableRestart, Next
  <1> QED
    BY <1>1, <1>2, <1>3, <1>4, <1>5 DEF TableNext, Main, TableRestart

\* The table changes nothing of the list's behaviour, so that all that is
\* proved of the list holds with its table.
THEOREM TableKeepsList == TableSpec => Spec /\ []IInv
  <1>1. TableInit => Init
    BY DEF TableInit
  <1>2. IInv /\ [TableNext]_tableVars => [Next]_vars
    BY TableStepIsListStep DEF IInv, tableVars
  <1> QED
    BY <1>1, <1>2, InitIInv, NextIInv, PTL DEF TableSpec, Spec

-----------------------------------------------------------------------------
(* The rows of a fetch, sorted by lastActivity, have indexes 1, 2, ...     *)

UpTo(S, c) == {d \in S : Activity[d] <= Activity[c]}

LEMMA RowAtExists ==
  ASSUME NEW S \in SUBSET Ids, NEW i \in 1..Cardinality(S)
  PROVE  RowAt(S, i) \in S
  <1> DEFINE n == Cardinality(S)
             rank == [c \in S |-> Cardinality(UpTo(S, c))]
  <1>1. IsFiniteSet(S) /\ n \in Nat
    BY ConstantsAssumption, FS_Subset, FS_CardinalityType
  <1>2. ASSUME NEW c \in S
        PROVE  rank[c] \in 1..n
    <2>1. UpTo(S, c) \in SUBSET S /\ c \in UpTo(S, c)
      BY <1>2, TableAssumption DEF UpTo
    <2>2. /\ IsFiniteSet(UpTo(S, c)) /\ Cardinality(UpTo(S, c)) <= n
          /\ Cardinality(UpTo(S, c)) \in Nat /\ Cardinality(UpTo(S, c)) # 0
      BY <1>1, <2>1, FS_Subset, FS_CardinalityType, FS_EmptySet
    <2> QED
      BY <1>1, <2>2
  <1>3. ASSUME NEW a \in S, NEW b \in S, Activity[a] < Activity[b]
        PROVE  rank[a] # rank[b]
    <2>1. UpTo(S, a) \in SUBSET UpTo(S, b) /\ b \in UpTo(S, b) \ UpTo(S, a)
      BY <1>3, TableAssumption DEF UpTo
    <2>2. IsFiniteSet(UpTo(S, b))
      BY <1>1, FS_Subset DEF UpTo
    <2> QED
      BY <2>1, <2>2, FS_Subset
  <1>4. ASSUME NEW a \in S, NEW b \in S, a # b
        PROVE  rank[a] # rank[b]
    <2>1. Activity[a] < Activity[b] \/ Activity[b] < Activity[a]
      BY <1>4, TableAssumption
    <2> QED
      BY <1>3, <2>1
  <1>5. rank \in [S -> 1..n]
    BY <1>2
  <1>6. rank \in Injection(S, 1..n)
    BY <1>4, <1>5 DEF Injection, IsInjective
  <1>7. IsFiniteSet(1..n) /\ Cardinality(1..n) = n
    BY <1>1, FS_Interval
  <1>8. rank \in Surjection(S, 1..n)
    BY <1>6, <1>7, FS_Injection
  <1>9. \E c \in S : Cardinality(UpTo(S, c)) = i
    BY <1>8 DEF Surjection
  <1> QED
    BY <1>9 DEF RowAt, UpTo

LEMMA CountTypes ==
  ASSUME NEW S \in SUBSET Ids
  PROVE  Cardinality(S) \in Nat
  BY ConstantsAssumption, FS_Subset, FS_CardinalityType

-----------------------------------------------------------------------------
(* The invariant of the table.                                             *)

LEMMA InitTableIInv == TableInit => TableIInv
  <1> SUFFICES ASSUME TableInit PROVE TableIInv
    OBVIOUS
  <1>1. TableTypeOK
    BY TableAssumption DEF TableInit, TableTypeOK
  <1>2. Len(cells) = Cardinality(store)
    BY FS_EmptySet DEF TableInit, Init
  <1> QED
    BY <1>1, <1>2 DEF TableIInv, FreshTableIsExact, RoomForReload, TableInit, Init

\* reloadData leaves a table that is exact, and empty until cells are read.
LEMMA ReloadDataStep ==
  ASSUME TableIInv, TypeOK', ReloadData, reloads' \in 0..MaxReloads,
         opened' \in Ids \cup {None}, RoomForReload'
  PROVE  TableIInv'
  <1> DEFINE n == Cardinality(store')
  <1>1. n \in Nat
    BY CountTypes DEF TypeOK
  <1>2. cells' = [i \in 1..n |-> None] /\ fresh' = "yes"
    BY DEF ReloadData
  <1> HIDE DEF n
  <1>3. cells' \in Seq(Ids \cup {None}) /\ Len(cells') = n
    BY <1>1, <1>2
  <1>4. \A i \in DOMAIN cells' : cells'[i] = None
    BY <1>2
  <1> QED
    BY <1>2, <1>3, <1>4 DEF n, TableIInv, FreshTableIsExact, TableTypeOK

\* A step that leaves the cells alone: exact no longer than the store stays.
LEMMA KeepsFreshStep ==
  ASSUME TableIInv, UNCHANGED <<cells, opened>>, fresh' = KeepsFresh,
         reloads' \in 0..MaxReloads, RoomForReload'
  PROVE  TableIInv'
  BY DEF TableIInv, FreshTableIsExact, TableTypeOK, KeepsFresh

LEMMA CallbackStep ==
  ASSUME TableIInv, TypeOK', Callback, reloads < MaxReloads
  PROVE  TableIInv'
  <1>1. reloads' \in 0..MaxReloads /\ RoomForReload'
    BY TableAssumption
    DEF Callback, QueueReload, RoomForReload, TableIInv, FreshTableIsExact, TableTypeOK
  <1> QED
    BY <1>1, KeepsFreshStep DEF Callback, QueueReload

LEMMA BackgroundStep ==
  ASSUME TableIInv, Background, pc' = pc
  PROVE  TableIInv'
  BY KeepsFreshStep
  DEF Background, RoomForReload, TableIInv, FreshTableIsExact, TableTypeOK

LEMMA CellForRowAtStep ==
  ASSUME IInv, TableIInv, NEW i \in DOMAIN cells, CellForRowAt(i)
  PROVE  TableIInv'
  <1>1. /\ cells' = [cells EXCEPT ![i] = RowAt(store, i)]
        /\ UNCHANGED <<vars, reloads, opened, fresh>>
        /\ i <= Cardinality(store)
    BY DEF CellForRowAt, ShownAt
  <1>2. cells \in Seq(Ids \cup {None}) /\ store \in SUBSET Ids
    BY DEF TableIInv, FreshTableIsExact, TableTypeOK, IInv, TypeOK
  <1>3. RowAt(store, i) \in store
    BY <1>1, <1>2, CountTypes, RowAtExists
  <1>4. /\ cells' \in Seq(Ids \cup {None}) /\ Len(cells') = Len(cells)
        /\ \A k \in DOMAIN cells' : k \in DOMAIN cells /\
             cells'[k] = IF k = i THEN RowAt(store, i) ELSE cells[k]
    BY <1>1, <1>2, <1>3
  <1>5. store' = store /\ pc' = pc
    BY <1>1 DEF vars
  <1> QED
    BY <1>1, <1>4, <1>5 DEF TableIInv, FreshTableIsExact, TableTypeOK, RoomForReload

\* Opening a conversation or coming back from it.
LEMMA DidSelectRowAtStep ==
  ASSUME IInv, TableIInv, Back \/ \E i \in DOMAIN cells : DidSelectRowAt(i)
  PROVE  TableIInv'
  <1>1. UNCHANGED <<vars, cells, reloads, fresh>>
    BY DEF Back, DidSelectRowAt
  <1>2. opened' \in Ids \cup {None}
    <2>1. CASE Back
      BY <2>1 DEF Back
    <2>2. ASSUME NEW i \in DOMAIN cells, DidSelectRowAt(i)
          PROVE  opened' \in Ids
      <3>1. fetchedObjects \in SUBSET Ids
        BY DEF IInv, TypeOK, fetchedObjects
      <3>2. i \in 1..Cardinality(fetchedObjects)
        BY <2>2, <3>1, CountTypes DEF DidSelectRowAt, TableIInv, FreshTableIsExact, TableTypeOK
      <3> QED
        BY <2>2, <3>1, <3>2, RowAtExists DEF DidSelectRowAt, ResolvedAt
    <2> QED
      BY <2>1, <2>2
  <1> QED
    BY <1>1, <1>2 DEF vars, TableIInv, FreshTableIsExact, TableTypeOK, RoomForReload

LEMMA ReloadingSteps ==
  ASSUME TableIInv, TypeOK',
         \/ \E c \in Ids : NewChannel(c)
         \/ Reload
         \/ \E i \in DOMAIN cells : Swipe(i) \/ CellForRowAtTraps(i) \/ IndexTraps(i)
         \/ TableRestart
  PROVE  TableIInv'
  <1>1. ReloadData
    BY DEF NewChannel, Reload, Swipe, CellForRowAtTraps, IndexTraps, TableRestart
  <1>2. reloads' \in 0..MaxReloads /\ opened' \in Ids \cup {None}
    BY TableAssumption
    DEF NewChannel, Reload, Swipe, CellForRowAtTraps, IndexTraps, TableRestart,
        TableIInv, FreshTableIsExact, TableTypeOK
  <1>3. pc' = "idle"
    BY DEF NewChannel, NewChannelAlert, Reload, ListInFront, Swipe, ContextualDeleteAction,
           CellForRowAtTraps, IndexTraps, TableRestart, Restart, mainLoop, vars
  <1> QED
    BY <1>1, <1>2, <1>3, ReloadDataStep DEF RoomForReload

LEMMA TableNextIInv ==
  ASSUME IInv, TypeOK', TableIInv, [TableNext]_tableVars
  PROVE  TableIInv'
  <1>1. CASE \/ GetChannelsFromFirebase /\ Background
             \/ \E new \in SUBSET Ids : RemoteChange(new) /\ Background
             \/ SaveBackgroundContex /\ Background
             \/ \E s \in SUBSET unmerged : MergeChangesFromParent(s) /\ Background
    <2>1. Background /\ pc' = pc
      BY <1>1 DEF GetChannelsFromFirebase, RemoteChange, SaveBackgroundContex, SaveUnchanged,
                  SaveCommits, SaveRollsBack, MergeChangesFromParent, mainLoop
    <2> QED
      BY <2>1, BackgroundStep
  <1>2. CASE reloads < MaxReloads /\ (ListenerError \/ HandleSnapshot) /\ Callback
    BY <1>2, CallbackStep
  <1>3. CASE Main
    <2>1. pc # "idle" /\ Callback
      BY <1>3 DEF Main, Pass, InsertChannel, FillChannel, DeleteStaleChannel
    <2> QED
      BY <2>1, CallbackStep DEF TableIInv, RoomForReload
  <1>4. CASE \/ \E c \in Ids : NewChannel(c)
             \/ Reload
             \/ \E i \in DOMAIN cells : Swipe(i) \/ CellForRowAtTraps(i) \/ IndexTraps(i)
             \/ TableRestart
    BY <1>4, ReloadingSteps
  <1>5. CASE \E i \in DOMAIN cells : CellForRowAt(i)
    BY <1>5, CellForRowAtStep
  <1>6. CASE Back \/ \E i \in DOMAIN cells : DidSelectRowAt(i)
    BY <1>6, DidSelectRowAtStep
  <1>7. CASE UNCHANGED tableVars
    BY <1>7 DEF tableVars, vars, table, TableIInv, FreshTableIsExact, TableTypeOK, RoomForReload
  <1> QED
    BY <1>1, <1>2, <1>3, <1>4, <1>5, <1>6, <1>7 DEF TableNext

\* Table and list together keep both inductive invariants: the list is where it
\* is without a table, and a callback under way has room for its reload.
THEOREM TableInvariance == TableSpec => [](IInv /\ TableIInv)
  <1>1. IInv /\ IInv' /\ TableIInv /\ [TableNext]_tableVars => TableIInv'
    BY TableNextIInv DEF IInv
  <1> QED
    BY <1>1, InitTableIInv, TableKeepsList, PTL DEF TableSpec

\* As long as the store is as at the last reload, every row of the table is
\* the channel at its index, and scrolling meets no index without a row.
THEOREM FreshTablesAreExact == TableSpec => []FreshTableIsExact
  <1>1. TableIInv => FreshTableIsExact
    BY DEF TableIInv
  <1> QED
    BY <1>1, TableInvariance, PTL

\* Once the view context has merged every commit, a tap opens and a swipe
\* deletes the channel on display, and neither traps.
THEOREM TapsHitWhatIsShown == TableSpec => HitsWhatIsShown
  <1> DEFINE Hit(i) == /\ DidSelectRowAt(i) => opened' = cells[i]
                       /\ Swipe(i) => server \ server' \subseteq {cells[i]}
                       /\ ~ IndexTraps(i)
             A == \A i \in DOMAIN cells :
                    fresh = "yes" /\ unmerged = {} /\ cells[i] # None => Hit(i)
  <1>1. ASSUME IInv, TableIInv, NEW i \in DOMAIN cells,
               fresh = "yes", unmerged = {}, cells[i] # None
        PROVE  Hit(i)
    <2>1. /\ fetchedObjects = store /\ cells[i] = RowAt(store, i)
          /\ Len(cells) = Cardinality(store) /\ cells \in Seq(Ids \cup {None})
      BY <1>1 DEF fetchedObjects, TableIInv, FreshTableIsExact, TableTypeOK
    <2>2. DidSelectRowAt(i) => opened' = cells[i]
      BY <2>1 DEF DidSelectRowAt, ResolvedAt
    <2>3. Swipe(i) => server \ server' \subseteq {cells[i]}
      BY <2>1 DEF Swipe, ContextualDeleteAction, DeleteDocument, Publish, ResolvedAt
    <2>4. i \in 1..Cardinality(store) /\ Cardinality(store) \in Nat
      BY <1>1, <2>1, CountTypes DEF IInv, TypeOK
    <2>5. ~ IndexTraps(i)
      BY <2>1, <2>4 DEF IndexTraps
    <2> QED
      BY <2>2, <2>3, <2>5
  <1>2. IInv /\ TableIInv => A
    BY <1>1
  <1>3. IInv /\ TableIInv /\ [TableNext]_tableVars => [A]_tableVars
    BY <1>2
  <1> QED
    BY <1>3, TableInvariance, PTL DEF TableSpec, HitsWhatIsShown

=============================================================================
