---------------------------- MODULE ChannelSync ----------------------------
(***************************************************************************)
(* The channel list: ChannelsManager listens to the Firestore collection   *)
(* "channels" and reconciles each snapshot with the Core Data cache by     *)
(* comparing COUNTS; CoreDataManager inserts into a background context     *)
(* whose save blocks run on a private queue, while the inserting loop runs *)
(* on the main thread without any hand-over between the two.               *)
(*                                                                         *)
(* Threads.  "main" runs the listener callback, the user's taps and the    *)
(* merges into the view context; the private queue of backgroundContex     *)
(* runs save blocks in parallel with all of them.  The two contexts and    *)
(* Firestore are external: they are modelled by what the code asks of them.*)
(***************************************************************************)
EXTENDS Naturals, Sequences, FiniteSets

CONSTANTS
  Ids,        \* document identifiers Firestore can hand out
  Names,      \* channel names
  NameOf,     \* the name a document is created with; the app never renames
  MaxQueue,   \* bound: snapshots waiting for the main queue
  MaxSaves    \* bound: save blocks waiting for the private queue

ASSUME ConstantsAssumption ==
  /\ IsFiniteSet(Ids)
  /\ NameOf \in [Ids -> Names]
  /\ MaxQueue \in Nat \ {0}
  /\ MaxSaves \in Nat

VARIABLES
  server,     \* documents of the collection, as Firestore shows them here
  gone,       \* documents that were deleted; Firestore never reuses an id
  listener,   \* the snapshot listener: "off", "on", or "failed" for good
  snapshots,  \* callbacks queued on the main queue, oldest first
  actual,     \* actualChannels: the last snapshot handled
  pc,         \* main thread: "idle", or inside a loop of the reconciliation
  todo,       \* channels that loop has not visited yet
  cur,        \* the DBChannel being built: {} or one id whose fields are nil
  bg,         \* complete inserts in backgroundContex, not saved yet
  saves,      \* save blocks queued by perform on the private queue
  store,      \* DBChannel rows in the persistent store
  unmerged,   \* rows committed but not yet merged into the view context
  verdict     \* auxiliary: what the latest pass is to achieve, see Promise

vars == <<server, gone, listener, snapshots, actual, pc, todo, cur, bg,
          saves, store, unmerged, verdict>>

firebase == <<server, gone, listener>>
mainLoop == <<pc, todo, actual>>

\* fetchedResultsController.fetchedObjects: the rows the view context knows.
fetchedObjects == store \ unmerged

\* Core Data sees a constraint conflict when two rows share the identifier or
\* the name (Chat.xcdatamodel); equal identifiers imply equal names here.
Clash(a, b) == NameOf[a] = NameOf[b]

\* r has, for every channel of S, a row of the same identifier or name.
Covers(r, S) == \A c \in S : \E d \in r : Clash(c, d)

\* r is what a cache under the uniqueness constraints can hold of S.
Mirrors(r, S) == r \subseteq S /\ Covers(r, S)

DistinctNames(r) == \A a, b \in r : Clash(a, b) => a = b

TypeOK ==
  /\ server \subseteq Ids /\ gone \subseteq Ids
  /\ listener \in {"off", "on", "failed"}
  /\ snapshots \in Seq(SUBSET Ids)
  /\ actual \subseteq Ids
  /\ pc \in {"idle", "insert", "fill", "prune"}
  /\ todo \subseteq Ids /\ cur \subseteq Ids /\ bg \subseteq Ids
  /\ saves \in Nat
  /\ store \subseteq Ids /\ unmerged \subseteq Ids
  /\ verdict \in {"exact", "covers", "within", "unsure"}

\* A fresh install: the collection may hold anything, the cache is empty.
Init ==
  /\ server \in SUBSET Ids
  /\ gone = {}
  /\ listener = "off"
  /\ snapshots = <<>>
  /\ actual = {}
  /\ pc = "idle" /\ todo = {} /\ cur = {}
  /\ bg = {} /\ saves = 0
  /\ store = {} /\ unmerged = {}
  /\ verdict = "unsure"

-----------------------------------------------------------------------------
(* Firestore and the user's writes to it.                                  *)

\* A change of the collection queues one snapshot on the main queue, for a
\* local write (latency compensation) and for a remote one alike.
Publish(new) ==
  /\ Len(snapshots) < MaxQueue
  /\ server' = new
  /\ gone' = gone \cup (server \ new)
  /\ snapshots' = IF listener = "on" /\ new # server
                  THEN Append(snapshots, new) ELSE snapshots

Fresh == Ids \ (server \cup gone)

\* getChannelsFromFirebase: the first callback carries the whole collection.
GetChannelsFromFirebase ==
  /\ pc = "idle"
  /\ listener = "off"
  /\ listener' = "on"
  /\ snapshots' = Append(snapshots, server)
  /\ UNCHANGED <<server, gone, mainLoop, cur, bg, saves, store, unmerged, verdict>>

\* Other clients create and delete channels; what happened while this device
\* was offline arrives as one coalesced snapshot.
RemoteChange(new) ==
  /\ new # server
  /\ new \subseteq server \cup Fresh
  /\ Publish(new)
  /\ UNCHANGED <<listener, mainLoop, cur, bg, saves, store, unmerged, verdict>>

\* addDocument under an identifier chosen by Firestore.
AddChannelToFirebase(c) ==
  /\ c \in Fresh
  /\ Publish(server \cup {c})

\* deleteChannel(identifier:): the document is deleted if it still exists.
DeleteDocument(c) == Publish(server \ {c})

\* The action of newChannelAlert, which needs a name; the dialog itself and
\* the reload of the table keep no state of the cache.
NewChannelAlert(c) ==
  /\ pc = "idle"
  /\ AddChannelToFirebase(c)
  /\ UNCHANGED <<listener, mainLoop, cur, bg, saves, store, unmerged, verdict>>

\* The callback with an error only prints; Firestore sends nothing after it.
ListenerError ==
  /\ pc = "idle"
  /\ listener = "on"
  /\ listener' = "failed"
  /\ UNCHANGED <<server, gone, snapshots, mainLoop, cur, bg, saves, store, unmerged, verdict>>

-----------------------------------------------------------------------------
(* The reconciliation, on the main thread.                                 *)

LoopOr(rest, p) == IF rest = {} THEN "idle" ELSE p

\* Variants of the fetch below: without the NOT, without the predicate, and
\* over the objects the view context already knows.
StaleInverted(snap) == store \cap snap
StaleUnfiltered(snap) == store
StaleInView(snap) == fetchedObjects \ snap

\* The fetch of rows the snapshot lacks reads the store, unmerged rows too.
Stale(snap) == store \ snap

\* Auxiliary, no code behind it: does the pass that starts now, if nothing
\* disturbs it, leave the cache mirroring the snapshot?  The count comparison
\* only ever adds or only ever removes, so it does when the rows (saved or
\* about to be) and the snapshot are ordered by inclusion the right way.
WillBeExact(snap) ==
  LET n == Cardinality(snap) m == Cardinality(fetchedObjects) IN
  \/ n > m /\ store \cup bg \subseteq snap
  \/ n < m /\ snap \subseteq store /\ bg \subseteq snap
  \/ n = m /\ store \cup bg = snap

\* Auxiliary, alike: where the sets are not ordered, a pass that adds still
\* leaves a row for every channel, and one that removes no row that is stale.
Promise(snap) ==
  LET n == Cardinality(snap) m == Cardinality(fetchedObjects) IN
  IF WillBeExact(snap) THEN "exact"
  ELSE IF n > m THEN "covers"
  ELSE IF n < m /\ bg \subseteq snap THEN "within"
  ELSE "unsure"

\* CheckingTheRelevanceOfChannels that inserts only as many channels as the cache
\* is short of, as if the others were those it has.
CheckingTheShortfall(snap) ==
  LET n == Cardinality(snap) m == Cardinality(fetchedObjects) IN
  \/ /\ n < m
     /\ todo' = Stale(snap)
     /\ pc' = LoopOr(todo', "prune")
  \/ /\ n > m
     /\ \E T \in SUBSET snap : Cardinality(T) = n - m /\ todo' = T
     /\ pc' = "insert"
  \/ /\ n = m
     /\ UNCHANGED <<pc, todo>>

\* checkingTheRelevanceOfChannels: fewer channels than rows prunes the rows
\* the snapshot lacks, more channels than rows inserts ALL of them again, and
\* equal counts do nothing.
CheckingTheRelevanceOfChannels(snap) ==
  LET n == Cardinality(snap) m == Cardinality(fetchedObjects) IN
  \/ /\ n < m
     /\ todo' = Stale(snap)
     /\ pc' = LoopOr(todo', "prune")
  \/ /\ n > m
     /\ todo' = snap
     /\ pc' = "insert"
  \/ /\ n = m
     /\ UNCHANGED <<pc, todo>>

\* The listener's callback: rebuild actualChannels, then reconcile.
HandleSnapshot ==
  /\ pc = "idle"
  /\ snapshots # <<>>
  /\ saves + Cardinality(Head(snapshots)) <= MaxSaves
  /\ snapshots' = Tail(snapshots)
  /\ actual' = Head(snapshots)
  /\ verdict' = Promise(Head(snapshots))
  /\ CheckingTheRelevanceOfChannels(Head(snapshots))
  /\ UNCHANGED <<firebase, cur, bg, saves, store, unmerged>>

\* saveChannelsWithCoreData, first half: the object enters backgroundContex
\* from the main thread with all its fields nil.
InsertChannel(c) ==
  /\ pc = "insert"
  /\ c \in todo
  /\ todo' = todo \ {c}
  /\ cur' = {c}
  /\ pc' = "fill"
  /\ UNCHANGED <<firebase, snapshots, actual, bg, saves, store, unmerged, verdict>>

\* FillChannel with the call of saveBackgroundContex forgotten.
FillChannelWithoutSave ==
  /\ pc = "fill"
  /\ bg' = bg \cup cur
  /\ cur' = {}
  /\ pc' = LoopOr(todo, "insert")
  /\ UNCHANGED <<firebase, snapshots, actual, todo, saves, store, unmerged, verdict>>

\* saveChannelsWithCoreData, second half: the four fields and the save block.
\* An object that a rollback threw out of the context meanwhile (cur = {}) is
\* filled in vain.
FillChannel ==
  /\ pc = "fill"
  /\ bg' = bg \cup cur
  /\ cur' = {}
  /\ saves' = saves + 1
  /\ pc' = LoopOr(todo, "insert")
  /\ UNCHANGED <<firebase, snapshots, actual, todo, store, unmerged, verdict>>

DeleteRow(c) ==
  /\ store' = store \ {c}
  /\ unmerged' = unmerged \ {c}

\* CoreDataManager.deleteChannel on the next row of the prune loop: deleted
\* and saved in the view context, or rolled back when that save throws.
DeleteStaleChannel(c) ==
  /\ pc = "prune"
  /\ c \in todo
  /\ todo' = todo \ {c}
  /\ pc' = LoopOr(todo', "prune")
  /\ \/ DeleteRow(c) /\ UNCHANGED verdict
     \/ verdict' = "unsure" /\ UNCHANGED <<store, unmerged>>
  /\ UNCHANGED <<firebase, snapshots, actual, cur, bg, saves>>

\* contextualDeleteAction: the document is deleted first, then the row; the
\* save of the row's deletion may fail after the document is already gone.
ContextualDeleteAction(c) ==
  /\ pc = "idle"
  /\ c \in fetchedObjects
  /\ DeleteDocument(c)
  /\ DeleteRow(c) \/ UNCHANGED <<store, unmerged>>
  /\ verdict' = "unsure"
  /\ UNCHANGED <<listener, mainLoop, cur, bg, saves>>

-----------------------------------------------------------------------------
(* The private queue of backgroundContex and the merge into the view.      *)

\* The inserts that survive the uniqueness constraints under
\* NSMergeByPropertyStoreTrumpMergePolicy: a stored row beats an insert, and
\* of two inserts with one name either may win.
Survivors == {w \in SUBSET (bg \ store) :
                DistinctNames(store \cup w) /\ Covers(store \cup w, bg)}

\* hasChanges is false.
SaveUnchanged ==
  /\ saves > 0
  /\ bg = {} /\ cur = {}
  /\ saves' = saves - 1
  /\ UNCHANGED <<firebase, snapshots, mainLoop, cur, bg, store, unmerged, verdict>>

\* The save commits every complete insert.  A half-built object can be in the
\* context at the same time: the race lets the save miss it.
SaveCommits ==
  /\ saves > 0
  /\ bg # {} \/ cur # {}
  /\ saves' = saves - 1
  /\ \E w \in Survivors :
       /\ store' = store \cup w
       /\ unmerged' = unmerged \cup w
  /\ bg' = {}
  /\ UNCHANGED <<firebase, snapshots, mainLoop, cur, verdict>>

\* The save throws, because it met a half-built object (identifier and name
\* are mandatory) or for want of disk, and the rollback empties the context.
SaveRollsBack ==
  /\ saves > 0
  /\ bg # {} \/ cur # {}
  /\ saves' = saves - 1
  /\ bg' = {}
  /\ cur' = {}
  /\ verdict' = "unsure"
  /\ UNCHANGED <<firebase, snapshots, mainLoop, store, unmerged>>

SaveBackgroundContex == SaveUnchanged \/ SaveCommits \/ SaveRollsBack

\* automaticallyMergesChangesFromParent: committed rows reach the view
\* context, and so fetchedObjects, on the main queue and some time later.
MergeChangesFromParent(s) ==
  /\ pc = "idle"
  /\ s # {}
  /\ unmerged' = unmerged \ s
  /\ UNCHANGED <<firebase, snapshots, mainLoop, cur, bg, saves, store, verdict>>

\* The process ends at any point and is started again: the store remains.
Restart ==
  /\ listener' = "off"
  /\ snapshots' = <<>>
  /\ actual' = {}
  /\ pc' = "idle" /\ todo' = {} /\ cur' = {}
  /\ bg' = {} /\ saves' = 0
  /\ unmerged' = {}
  /\ verdict' = "unsure"
  /\ UNCHANGED <<server, gone, store>>

-----------------------------------------------------------------------------
Pass == \/ \E c \in Ids : InsertChannel(c)
        \/ FillChannel
        \/ \E c \in Ids : DeleteStaleChannel(c)

Next ==
  \/ GetChannelsFromFirebase
  \/ \E new \in SUBSET Ids : RemoteChange(new)
  \/ \E c \in Ids : NewChannelAlert(c)
  \/ ListenerError
  \/ HandleSnapshot
  \/ Pass
  \/ \E c \in Ids : ContextualDeleteAction(c)
  \/ SaveBackgroundContex
  \/ \E s \in SUBSET unmerged : MergeChangesFromParent(s)
  \/ Restart

Spec == Init /\ [][Next]_vars

-----------------------------------------------------------------------------
(* Properties.                                                             *)

InsertsHaveSaves == bg # {} => saves > 0

\* An insert that is complete in backgroundContex always has a save block
\* behind it: no channel is left in the context for good, whatever saves and
\* rollbacks ran in between; and every variable keeps its type.
NoInsertStranded == TypeOK /\ InsertsHaveSaves

\* A pass that started from ordered sets ends with the cache mirroring the
\* snapshot, unless a rollback, a failed deletion, a swipe or a restart came
\* in between: comparing counts is enough under exactly this condition.
ExactPassMirrors ==
  verdict = "exact" /\ pc = "idle" /\ saves = 0 => Mirrors(store, actual)

\* Every other pass does its own part, as long as nothing disturbs it.  One that
\* inserts leaves a row of the name of every channel, although the snapshot may
\* also have lost some, or two of its channels share a name and one never gets
\* a row; one that prunes leaves no row the snapshot lacks, although the view
\* context had not merged all of them, or the snapshot has new channels too.
PassDoesItsPart ==
  /\ verdict = "covers" /\ pc = "idle" /\ saves = 0 => Covers(store, actual)
  /\ verdict = "within" /\ pc = "idle" => store \subseteq actual

\* A row leaves the cache only if the last snapshot lacks its channel or its
\* document has just been deleted by this user: saves, rollbacks, merges and
\* restarts never lose a committed row.
OnlyStaleRowsLeave ==
  [][\A c \in store : c \notin store' => c \notin actual \/ c \notin server']_vars

\* The threads, contexts and loops below the cache keep its promise: every
\* behaviour is one of ChannelCache, whose steps are learning, forgetting and
\* removing channels under the uniqueness constraint.
Cache == INSTANCE ChannelCache WITH live <- server, dead <- gone,
                                    heard <- actual, cache <- store
ImplementsChannelCache == Cache!CacheSpec

\* Every pass that started from ordered sets does get there.
ExactPassSettles == verdict = "exact" ~> (verdict # "exact" \/ Mirrors(store, actual))

-----------------------------------------------------------------------------
(* The inductive invariant behind the theorems of ChannelSyncProofs.       *)

\* Every id the app handles was handed out by Firestore.
KnownIds ==
  /\ store \cup bg \cup cur \cup todo \cup actual \subseteq server \cup gone
  /\ \A i \in 1..Len(snapshots) : snapshots[i] \subseteq server \cup gone
  /\ server \cap gone = {}

LoopState ==
  /\ pc = "idle" => todo = {}
  /\ pc # "fill" => cur = {}
  /\ pc = "prune" => todo \subseteq store \ actual

\* What an undisturbed exact pass has achieved so far.
ExactSoFar ==
  /\ verdict = "exact" /\ pc # "prune" =>
       /\ store \cup bg \cup cur \subseteq actual
       /\ Covers(store \cup bg \cup cur, actual \ todo)
  /\ verdict = "exact" /\ pc = "prune" =>
       /\ bg \subseteq actual
       /\ actual \subseteq store
       /\ store \ actual \subseteq todo
  /\ verdict = "exact" /\ pc \in {"insert", "fill"} => todo \subseteq actual

\* What an undisturbed pass has achieved of its part so far.
PartSoFar ==
  /\ verdict = "covers" =>
       /\ pc # "prune"
       /\ Covers(store \cup bg \cup cur, actual \ todo)
  /\ verdict = "within" =>
       /\ pc \in {"idle", "prune"}
       /\ bg \subseteq actual
       /\ store \ actual \subseteq todo

IInv ==
  /\ TypeOK
  /\ KnownIds
  /\ LoopState
  /\ InsertsHaveSaves
  /\ ExactSoFar
  /\ PartSoFar

=============================================================================
