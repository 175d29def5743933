---------------------------- MODULE ChannelTable ----------------------------
(***************************************************************************)
(* The table of channels over ChannelSync.  The rows on display are those  *)
(* of the last reloadData: ConversationTableView counts and reads them     *)
(* with a NEW ChannelsManager for each question, that is with a fetch of   *)
(* the store, and reads a row only when it scrolls into view.  A tap or a  *)
(* swipe carries an index path, which the list resolves against ITS OWN    *)
(* fetchedResultsController, that is against the view context of now.      *)
(* Nothing reloads the table when a commit or a merge changes the rows:    *)
(* FRCDelegate drives a table of its own that is on no screen.             *)
(*                                                                         *)
(* object(at:) with an index that has no row raises, which ends the        *)
(* process (the actions named ...Traps).                                   *)
(***************************************************************************)
EXTENDS ChannelSync

CONSTANTS
  Activity,   \* lastActivity of a channel; a cached row is never updated
  MaxReloads, \* bound: reload blocks waiting when a callback starts
  None        \* no channel

ASSUME TableAssumption ==
  /\ Activity \in [Ids -> Nat]
  /\ \A a, b \in Ids : Activity[a] = Activity[b] => a = b
  /\ MaxReloads \in Nat \ {0}
  /\ None \notin Ids

VARIABLES
  cells,      \* one per row counted at the last reload: its channel, or None
  reloads,    \* reload blocks queued by the listener's callback
  opened,     \* the channel of the conversation on top of the list, or None
  fresh       \* auxiliary: "yes" while the store is as at the last reload

table == <<cells, reloads, opened, fresh>>
tableVars == <<vars, table>>

\* The row at index i of a fetch that found S, sorted by lastActivity.
RowAt(S, i) ==
  CHOOSE c \in S : Cardinality({d \in S : Activity[d] <= Activity[c]}) = i

\* RowAt with the sort descriptor turned around.
RowAtDescending(S, i) ==
  CHOOSE c \in S : Cardinality({d \in S : Activity[d] >= Activity[c]}) = i

\* object(at:) of the data source and of the list.
ShownAt(S, i) == RowAt(S, i)
ResolvedAt(S, i) == RowAt(S, i)

TableTypeOK ==
  /\ cells \in Seq(Ids \cup {None})
  /\ reloads \in 0..MaxReloads
  /\ opened \in Ids \cup {None}
  /\ fresh \in {"yes", "no"}

TableInit ==
  /\ Init
  /\ cells = <<>> /\ reloads = 0 /\ opened = None /\ fresh = "yes"

-----------------------------------------------------------------------------
(* What the steps of ChannelSync do to the table.                          *)

\* fresh is lost with every change of the store.
KeepsFresh == IF store' = store THEN fresh ELSE "no"

\* ReloadData that counts the rows of the list's own controller.
ReloadDataOfView ==
  /\ cells' = [i \in 1..Cardinality(store' \ unmerged') |-> None]
  /\ fresh' = "yes"

\* reloadData: numberOfRowsInSection is asked at once, cells when needed.
ReloadData ==
  /\ cells' = [i \in 1..Cardinality(store') |-> None]
  /\ fresh' = "yes"

\* QueueReload forgotten.
QueueNoReload == fresh' = KeepsFresh /\ UNCHANGED <<cells, reloads, opened>>

\* The end of the listener's callback: DispatchQueue.main.async { reloadData }.
QueueReload ==
  /\ reloads' = reloads + 1
  /\ fresh' = KeepsFresh
  /\ UNCHANGED <<cells, opened>>

\* A step of the callback queues the reload if it is the last one.
Callback ==
  \/ pc' = "idle" /\ QueueReload
  \/ pc' # "idle" /\ fresh' = KeepsFresh /\ UNCHANGED <<cells, reloads, opened>>

\* The private queue and Firestore touch the table's rows behind its back.
Background == fresh' = KeepsFresh /\ UNCHANGED <<cells, reloads, opened>>

ListInFront == pc = "idle" /\ opened = None

\* The alert of a new channel reloads the table, before the channel is there.
NewChannel(c) ==
  /\ ListInFront
  /\ NewChannelAlert(c)
  /\ ReloadData
  /\ UNCHANGED <<reloads, opened>>

\* The reload block.
Reload ==
  /\ pc = "idle"
  /\ reloads > 0
  /\ reloads' = reloads - 1
  /\ UNCHANGED <<vars, opened>>
  /\ ReloadData

\* tableView(_:cellForRowAt:) when row i comes into view.
CellForRowAt(i) ==
  /\ ListInFront
  /\ cells[i] = None
  /\ i <= Cardinality(store)
  /\ cells' = [cells EXCEPT ![i] = ShownAt(store, i)]
  /\ UNCHANGED <<vars, reloads, opened, fresh>>

\* tableView(_:didSelectRowAt:) pushes the conversation of the channel.
DidSelectRowAt(i) ==
  /\ ListInFront
  /\ i <= Cardinality(fetchedObjects)
  /\ opened' = ResolvedAt(fetchedObjects, i)
  /\ UNCHANGED <<vars, cells, reloads, fresh>>

Back ==
  /\ pc = "idle"
  /\ opened # None
  /\ opened' = None
  /\ UNCHANGED <<vars, cells, reloads, fresh>>

\* The delete action of a swiped row, reload included.
Swipe(i) ==
  /\ ListInFront
  /\ i <= Cardinality(fetchedObjects)
  /\ ContextualDeleteAction(ResolvedAt(fetchedObjects, i))
  /\ ReloadData
  /\ UNCHANGED <<reloads, opened>>

\* A new process lays out a new list.
TableRestart ==
  /\ Restart
  /\ ReloadData
  /\ reloads' = 0 /\ opened' = None

\* The row was deleted since the table was counted.
CellForRowAtTraps(i) ==
  /\ ListInFront
  /\ cells[i] = None
  /\ i > Cardinality(store)
  /\ TableRestart

\* The list's controller has fewer rows than the table.
IndexTraps(i) ==
  /\ ListInFront
  /\ i > Cardinality(fetchedObjects)
  /\ TableRestart

-----------------------------------------------------------------------------
Main == Pass /\ Callback

TableNext ==
  \/ GetChannelsFromFirebase /\ Background
  \/ \E new \in SUBSET Ids : RemoteChange(new) /\ Background
  \/ \E c \in Ids : NewChannel(c)
  \/ reloads < MaxReloads /\ (ListenerError \/ HandleSnapshot) /\ Callback
  \/ Main
  \/ Reload \/ Back
  \/ \E i \in DOMAIN cells :
       CellForRowAt(i) \/ DidSelectRowAt(i) \/ Swipe(i)
         \/ CellForRowAtTraps(i) \/ IndexTraps(i)
  \/ SaveBackgroundContex /\ Background
  \/ \E s \in SUBSET unmerged : MergeChangesFromParent(s) /\ Background
  \/ TableRestart

TableSpec == TableInit /\ [][TableNext]_tableVars

\* The main thread ends the callback it is in and runs the blocks queued on it,
\* and so does the private queue of backgroundContex.
TableFairSpec ==
  /\ TableSpec
  /\ WF_tableVars(Main)
  /\ WF_tableVars(Reload)
  /\ WF_tableVars(SaveBackgroundContex /\ Background)

-----------------------------------------------------------------------------
(* Properties.                                                             *)

\* As long as nothing was committed or deleted since the last reload, every
\* row of the table shows the channel at its index, also a row that was read
\* long after the others, and scrolling never meets an index without a row.
FreshTableIsExact ==
  /\ TableTypeOK
  /\ fresh = "yes" =>
       /\ Len(cells) = Cardinality(store)
       /\ \A i \in DOMAIN cells : cells[i] \in {None, RowAt(store, i)}

\* Then, once the view context has merged every commit, a tap opens and a swipe
\* deletes the channel that the user sees, and neither traps, although the
\* index is resolved by another controller than the one that filled the row.
HitsWhatIsShown ==
  [][\A i \in DOMAIN cells :
       fresh = "yes" /\ unmerged = {} /\ cells[i] # None =>
         /\ DidSelectRowAt(i) => opened' = cells[i]
         /\ Swipe(i) => server \ server' \subseteq {cells[i]}
         /\ ~ IndexTraps(i)]_tableVars

\* A channel whose row was removed leaves the table too.  (One that was added
\* need not enter it: the reload may run before the commit.)
RemovedChannelsLeave ==
  \A c \in Ids :
    (c \notin store /\ \E i \in DOMAIN cells : cells[i] = c)
      ~> (c \in store \/ \A i \in DOMAIN cells : cells[i] # c)

-----------------------------------------------------------------------------
(* The inductive invariant behind the theorems of ChannelSyncProofs.       *)

\* A callback that is under way can queue its reload.
RoomForReload == pc # "idle" => reloads < MaxReloads

TableIInv ==
  /\ FreshTableIsExact
  /\ RoomForReload

=============================================================================
