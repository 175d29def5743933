---------------------------- MODULE MessageSync ----------------------------
(***************************************************************************)
(* The messages of a conversation: every opened screen makes a             *)
(* MessagesManager whose Firestore listener lives on after the screen,     *)
(* and each of its snapshots re-inserts all messages whenever the snapshot *)
(* has more of them than the channel has rows.  A message becomes a row in *)
(* three steps of the main thread (insert, fill, link to its channel)      *)
(* while the private queue of the same context may save or roll back       *)
(* between any two of them.                                                *)
(*                                                                         *)
(* backgroundContex is shared with the channel list: inserts of channels   *)
(* are committed and rolled back together with inserts of messages.  The   *)
(* channel list itself appears here by its effect on that context and on   *)
(* the DBChannel rows; ChannelSync has its details.                        *)
(***************************************************************************)
EXTENDS Naturals, Sequences, FiniteSets

CONSTANTS
  Docs,        \* message documents, over all channels
  Channels,    \* channel identifiers
  Contents,    \* message texts
  None,        \* the nil channel of a DBMessage
  ChannelOf,   \* the channel a document is sent to
  ContentOf,   \* its text
  Listeners,   \* bound: listeners that screens may add
  MaxQueue,    \* bound: snapshots waiting per listener
  MaxSaves     \* bound: save blocks waiting for the private queue

ASSUME MessageAssumption ==
  /\ IsFiniteSet(Docs)
  /\ None \notin Channels
  /\ ChannelOf \in [Docs -> Channels]
  /\ ContentOf \in [Docs -> Contents]
  /\ MaxQueue \in Nat \ {0}
  /\ MaxSaves \in Nat

VARIABLES
  docs,       \* documents in Firestore; nothing in the app deletes a message
  watch,      \* the channel each listener was added for, or None
  inbox,      \* its callbacks queued on the main queue, oldest first
  channels,   \* DBChannel rows in the store
  pending,    \* DBChannel inserts waiting in backgroundContex
  pc,         \* main thread: "idle", or inside saveMessagesWithCoreData's loop
  chan,       \* channelIdentifier of the running pass
  heard,      \* channelMessages of the running or last pass
  todo,       \* messages that pass has not visited yet
  cur,        \* the DBMessage being built: {}, or one message while it lives
  bg,         \* complete DBMessage inserts waiting in backgroundContex
  relinks,    \* links set on an object after a save had committed it
  saves,      \* save blocks queued by perform on the private queue
  rows,       \* DBMessage rows in the store
  verdict     \* auxiliary: "whole" while nothing disturbed the inserting pass

vars == <<docs, watch, inbox, channels, pending, pc, chan, heard, todo, cur,
          bg, relinks, saves, rows, verdict>>

firestore == <<docs, watch, inbox>>
pass == <<chan, heard>>
context == <<pending, bg, relinks>>

Links == Channels \cup {None}
Row == [doc : Docs, link : Links]

DocsOf(c) == {d \in docs : ChannelOf[d] = c}

\* fetchedResult(channelIdentifier:): a fetch of the rows linked to c.
FetchedResult(c) == {r \in rows : r.link = c}

\* Chat.xcdatamodel: the content of a DBMessage is unique over ALL channels.
SameContent(r, s) == ContentOf[r.doc] = ContentOf[s.doc]

DistinctContents(R) == \A r, s \in R : SameContent(r, s) => r = s

TypeOK ==
  /\ docs \subseteq Docs
  /\ watch \in [Listeners -> Links]
  /\ inbox \in [Listeners -> Seq(SUBSET Docs)]
  /\ channels \subseteq Channels /\ pending \subseteq Channels
  /\ pc \in {"idle", "insert", "fill", "link", "relink"}
  /\ chan \in Links
  /\ heard \subseteq Docs /\ todo \subseteq Docs /\ cur \subseteq Docs
  /\ bg \subseteq Row /\ relinks \subseteq Row /\ rows \subseteq Row
  /\ saves \in Nat
  /\ verdict \in {"whole", "unsure"}

\* A cache of channels that an earlier use of the app has left, no messages.
Init ==
  /\ docs \in SUBSET Docs
  /\ watch = [l \in Listeners |-> None]
  /\ inbox = [l \in Listeners |-> <<>>]
  /\ channels \in SUBSET Channels
  /\ pending = {}
  /\ pc = "idle" /\ chan = None /\ heard = {} /\ todo = {} /\ cur = {}
  /\ bg = {} /\ relinks = {} /\ saves = 0
  /\ rows = {}
  /\ verdict = "unsure"

-----------------------------------------------------------------------------
(* Screens and Firestore.                                                  *)

\* The first callback has all messages.  No code ever removes the listener.
GetChannelMessages(l, c) ==
  /\ watch[l] = None
  /\ watch' = [watch EXCEPT ![l] = c]
  /\ inbox' = [inbox EXCEPT ![l] = <<DocsOf(c)>>]

\* didSelectRowAt of the channel list pushes a conversation, whose viewDidLoad
\* makes a new manager and with it a new listener.
ViewDidLoad(l, c) ==
  /\ pc = "idle"
  /\ c \in channels
  /\ GetChannelMessages(l, c)
  /\ UNCHANGED <<docs, channels, pc, pass, todo, cur, context, saves, rows, verdict>>

\* A new document reaches every listener of its channel.
AddDocument(d) ==
  /\ d \notin docs
  /\ \A l \in Listeners : Len(inbox[l]) < MaxQueue
  /\ docs' = docs \cup {d}
  /\ inbox' = [l \in Listeners |-> IF watch[l] = ChannelOf[d]
                                   THEN Append(inbox[l], DocsOf(ChannelOf[d]) \cup {d})
                                   ELSE inbox[l]]
  /\ UNCHANGED <<watch, channels, pc, pass, todo, cur, context, saves, rows, verdict>>

\* sendMessage, from the alert or with the URL of a chosen image, on a screen
\* that viewDidLoad gave a listener; the channel may be deleted by now.
SendMessage(d) ==
  /\ pc = "idle"
  /\ \E l \in Listeners : watch[l] = ChannelOf[d]
  /\ AddDocument(d)

RemoteMessage(d) == AddDocument(d)

\* The callback with an error only prints, and it is the listener's last one.
ListenerError(l) ==
  /\ pc = "idle"
  /\ watch[l] # None
  /\ inbox[l] = <<>>
  /\ watch' = [watch EXCEPT ![l] = None]
  /\ UNCHANGED <<docs, inbox, channels, pc, pass, todo, cur, context, saves, rows, verdict>>

-----------------------------------------------------------------------------
(* The pass of checkingTheMessages, on the main thread.                    *)

LoopOr(rest) == IF rest = {} THEN "idle" ELSE "insert"

\* checkingTheMessages: insert ALL messages of the snapshot if they are more
\* than the rows linked to the channel.
CheckingTheMessages(snap, c) ==
  LET grew == Cardinality(snap) > Cardinality(FetchedResult(c)) IN
  /\ todo' = IF grew THEN snap ELSE {}
  /\ pc' = LoopOr(todo')
  /\ verdict' = IF grew THEN "whole" ELSE "unsure"

\* The listener's callback: rebuild channelMessages, then compare.
HandleSnapshot(l) ==
  /\ pc = "idle"
  /\ inbox[l] # <<>>
  /\ saves + Cardinality(Head(inbox[l])) <= MaxSaves
  /\ inbox' = [inbox EXCEPT ![l] = Tail(inbox[l])]
  /\ chan' = watch[l]
  /\ heard' = Head(inbox[l])
  /\ CheckingTheMessages(Head(inbox[l]), watch[l])
  /\ UNCHANGED <<docs, watch, channels, cur, context, saves, rows>>

\* saveMessagesWithCoreData: the object enters the context, all fields nil.
InsertMessage(d) ==
  /\ pc = "insert"
  /\ d \in todo
  /\ todo' = todo \ {d}
  /\ cur' = {d}
  /\ pc' = "fill"
  /\ UNCHANGED <<firestore, channels, pass, context, saves, rows, verdict>>

\* The four mandatory fields are set: from here on a save takes the object,
\* still without its channel.
FillMessage ==
  /\ pc = "fill"
  /\ pc' = "link"
  /\ UNCHANGED <<firestore, channels, pass, todo, cur, context, saves, rows, verdict>>

\* The fetch below with its predicate forgotten.
ChannelFetchedAny == IF channels = {} THEN None ELSE CHOOSE c \in channels : TRUE

\* channelData.first: the channel of the pass, if backgroundContex finds it
\* in the store or among its own inserts.
ChannelFetched == IF chan \in channels \cup pending THEN chan ELSE None

\* LinkMessage with the call of saveBackgroundContex forgotten.
LinkMessageWithoutSave ==
  /\ pc \in {"link", "relink"}
  /\ LET linked == {[doc |-> d, link |-> ChannelFetched] : d \in cur} IN
     IF pc = "link" THEN bg' = bg \cup linked /\ UNCHANGED relinks
                    ELSE relinks' = relinks \cup linked /\ UNCHANGED bg
  /\ cur' = {}
  /\ pc' = LoopOr(todo)
  /\ UNCHANGED <<firestore, channels, pending, pass, todo, saves, rows, verdict>>

\* The channel is fetched, addToMessage links the object, and a save block is
\* queued.  An object that a save has committed meanwhile is updated, one that
\* a conflict or a rollback has thrown out is linked in vain.
LinkMessage ==
  /\ pc \in {"link", "relink"}
  /\ LET linked == {[doc |-> d, link |-> ChannelFetched] : d \in cur} IN
     IF pc = "link" THEN bg' = bg \cup linked /\ UNCHANGED relinks
                    ELSE relinks' = relinks \cup linked /\ UNCHANGED bg
  /\ cur' = {}
  /\ saves' = saves + 1
  /\ pc' = LoopOr(todo)
  /\ UNCHANGED <<firestore, channels, pending, pass, todo, rows, verdict>>

-----------------------------------------------------------------------------
(* The channel list, by its effect on the shared context and the rows.     *)

\* saveChannelsWithCoreData for a channel the list has heard of.
InsertChannel(c) ==
  /\ pc = "idle"
  /\ saves < MaxSaves
  /\ pending' = pending \cup {c}
  /\ saves' = saves + 1
  /\ UNCHANGED <<firestore, channels, pc, pass, todo, cur, bg, relinks, rows, verdict>>

\* The deletion rules No Action and Cascade.
NullifyNothing(R, c) == R
NullifyCascading(R, c) == {r \in R : r.link # c}

\* The deletion rule Nullify: messages lose the channel, they are not deleted.
Nullify(R, c) == {[r EXCEPT !.link = IF @ = c THEN None ELSE @] : r \in R}

\* CoreDataManager.deleteChannel, by a swipe or by the list's pruning.  A link
\* to a second insert of the channel outlives the row.
DeleteChannel(c) ==
  /\ pc = "idle"
  /\ c \in channels
  /\ channels' = channels \ {c}
  /\ rows' = Nullify(rows, c)
  /\ \/ bg' = Nullify(bg, c) /\ relinks' = Nullify(relinks, c)
     \/ c \in pending /\ UNCHANGED <<bg, relinks>>
  /\ UNCHANGED <<firestore, pending, pc, pass, todo, cur, saves, verdict>>

-----------------------------------------------------------------------------
(* The private queue of backgroundContex.                                  *)

Unlinked(D) == {[doc |-> d, link |-> None] : d \in D}

\* The objects a save can take: a message is complete before it has a channel.
Complete == bg \cup (IF pc = "link" THEN Unlinked(cur) ELSE {})

\* A commit turns a link to a channel without a row into nil, and may do so to
\* a link to the loser of two inserts of one channel.
Committed(R, known) ==
  {r \in R : r.link \in known \cup {None}}
    \cup Unlinked({r.doc : r \in {q \in R : q.link \notin known \ pending}})

\* Winners of a data model without the uniqueness constraint.
WinnersUnconstrained(R) == {R}

\* NSMergeByPropertyStoreTrumpMergePolicy: a stored row beats an insert of the
\* same content, and of several such inserts one wins.
Winners(R) ==
  LET new == {r \in R : \A q \in rows : ~SameContent(q, r)} IN
  {w \in SUBSET new : /\ DistinctContents(w)
                      /\ \A r \in new : \E q \in w : SameContent(q, r)}

\* Links that were set on rows already committed.
Relinked(R, U) ==
  {r \in R : \A u \in U : u.doc # r.doc}
    \cup {u \in U : \E r \in R : u.doc = r.doc}

HasChanges ==
  \/ Complete \cup relinks # {} \/ pending # {}
  \/ pc = "fill" /\ cur # {}

\* hasChanges is false.
SaveUnchanged ==
  /\ saves > 0
  /\ ~HasChanges
  /\ saves' = saves - 1
  /\ UNCHANGED <<firestore, channels, pc, pass, todo, cur, context, rows, verdict>>

\* Everything complete is committed in one transaction: channels (those that
\* the constraint on names lets through), links and messages.  The object the
\* main thread is about to link stays alive only if it won its row.
SaveCommits ==
  /\ saves > 0
  /\ HasChanges
  /\ saves' = saves - 1
  /\ \E k \in SUBSET pending : channels' = channels \cup k
  /\ \E w \in Winners(Committed(Complete, channels')),
        u \in SUBSET {r \in relinks : r.link \in channels'} :
       /\ {r \in relinks : r.link \in channels' \ pending} \subseteq u
       /\ rows' = Relinked(rows, u) \cup w
       /\ IF pc = "link"
          THEN \/ cur # {} /\ Unlinked(cur) \subseteq w /\ pc' = "relink" /\ UNCHANGED cur
               \/ ~(Unlinked(cur) \subseteq w) /\ cur' = {} /\ UNCHANGED pc
               \/ cur = {} /\ UNCHANGED <<pc, cur>>
          ELSE UNCHANGED <<pc, cur>>
  /\ pending' = {} /\ bg' = {} /\ relinks' = {}
  /\ UNCHANGED <<firestore, pass, todo, verdict>>

\* The save throws, because it met a half-built object or for want of disk;
\* the rollback empties the context of messages and channels alike.
SaveRollsBack ==
  /\ saves > 0
  /\ HasChanges
  /\ saves' = saves - 1
  /\ pending' = {} /\ bg' = {} /\ relinks' = {}
  /\ cur' = IF pc = "relink" THEN cur ELSE {}
  /\ verdict' = "unsure"
  /\ UNCHANGED <<firestore, channels, pc, pass, todo, rows>>

SaveBackgroundContex == SaveUnchanged \/ SaveCommits \/ SaveRollsBack

\* The process ends at any point and is started again: the store remains.
Restart ==
  /\ watch' = [l \in Listeners |-> None]
  /\ inbox' = [l \in Listeners |-> <<>>]
  /\ pc' = "idle" /\ chan' = None /\ heard' = {} /\ todo' = {} /\ cur' = {}
  /\ pending' = {} /\ bg' = {} /\ relinks' = {} /\ saves' = 0
  /\ verdict' = "unsure"
  /\ UNCHANGED <<docs, channels, rows>>

-----------------------------------------------------------------------------
Pass == (\E d \in Docs : InsertMessage(d)) \/ FillMessage \/ LinkMessage

Next ==
  \/ \E l \in Listeners, c \in Channels : ViewDidLoad(l, c)
  \/ \E d \in Docs : SendMessage(d)
  \/ \E d \in Docs : RemoteMessage(d)
  \/ \E l \in Listeners : ListenerError(l)
  \/ \E l \in Listeners : HandleSnapshot(l)
  \/ Pass
  \/ \E c \in Channels : InsertChannel(c)
  \/ \E c \in Channels : DeleteChannel(c)
  \/ SaveBackgroundContex
  \/ Restart

\* The main thread finishes a loop it is in, and GCD runs queued blocks.
Fairness == WF_vars(Pass) /\ WF_vars(SaveBackgroundContex)

Spec == Init /\ [][Next]_vars
FairSpec == Spec /\ Fairness

-----------------------------------------------------------------------------
(* Properties.                                                             *)

\* Referential integrity and uniqueness: a message row never points to a
\* channel row that is gone, although channels are deleted in the view context
\* while links are made in backgroundContex, and no content has two rows,
\* although every listener of every screen ever opened inserts it again.
UniqueAndLinked ==
  /\ DistinctContents(rows)
  /\ \A r \in rows : r.link \in channels \cup {None}

\* The cache stays in this order, and every variable keeps its type.
CacheIsSound == TypeOK /\ UniqueAndLinked

\* A message is only ever shown in the channel it was sent to: leaked
\* listeners of other screens, late links and merges never mix channels.
ShownWhereSent == \A r \in rows : r.link \in {ChannelOf[r.doc], None}

\* checkingTheMessages skips a snapshot that is not longer than the cache.
\* That is right for the newest state of a channel: as many rows as documents
\* means that every document has its row, none is missing behind a count.
EqualCountsMeanComplete ==
  \A c \in Channels :
    Cardinality(FetchedResult(c)) >= Cardinality(DocsOf(c))
      => DocsOf(c) = {r.doc : r \in FetchedResult(c)}

\* A pass that inserts, and that no rollback or restart disturbs, leaves a row
\* for the content of every message it heard (linked or not).
WholePassStoresAll ==
  verdict = "whole" /\ pc = "idle" /\ saves = 0
    => \A d \in heard : \E r \in rows : ContentOf[r.doc] = ContentOf[d]

\* No step takes a row away, moves one from a channel to another, or unlinks
\* one whose channel still has its row: the store trumps every later insert.
MessagesStayPut ==
  [][\A r \in rows : \E q \in rows' :
       /\ q.doc = r.doc
       /\ \/ q.link = r.link
          \/ r.link = None
          \/ q.link = None /\ r.link \notin channels']_vars

\* Screens, listeners, the shared context and its save blocks keep the promise
\* of the cache: every behaviour is one of MessageCache, where rows are stored
\* in one step, never lost, and lose their channel only with the channel's row.
Cache == INSTANCE MessageCache WITH sent <- docs, known <- channels, kept <- rows
ImplementsMessageCache == Cache!CacheSpec

\* Every inserting pass does get there, or is disturbed.
WholePassSettles ==
  verdict = "whole" ~>
    (verdict = "unsure" \/ \A d \in heard : \E r \in rows : ContentOf[r.doc] = ContentOf[d])

-----------------------------------------------------------------------------
(* The inductive invariant behind the theorems of MessageSyncProofs.       *)

Objects == rows \cup bg \cup relinks

\* Every object stands for a document, linked to its own channel or to none.
ObjectsKnown ==
  \A r \in Objects : r.doc \in docs /\ r.link \in {ChannelOf[r.doc], None}

\* Snapshots and the running pass stay within one channel.
PassKnown ==
  /\ heard \subseteq docs
  /\ cur \cup todo \subseteq DocsOf(chan)
  /\ \A l \in Listeners : \A i \in 1..Len(inbox[l]) : inbox[l][i] \subseteq DocsOf(watch[l])

\* The stages of the loop, and the save block behind every finished object.
LoopState ==
  /\ pc = "idle" => todo = {}
  /\ pc \in {"idle", "insert"} => cur = {}
  /\ pc = "relink" => \A d \in cur : \E r \in rows : r.doc = d
  /\ bg # {} => saves > 0

Stored(d, R) == \E r \in R : ContentOf[r.doc] = ContentOf[d]

\* What an undisturbed inserting pass has achieved so far.
WholeSoFar ==
  verdict = "whole" =>
    \A d \in heard \ todo : Stored(d, rows \cup bg \cup Unlinked(cur))

IInv ==
  /\ TypeOK
  /\ ObjectsKnown
  /\ PassKnown
  /\ LoopState
  /\ UniqueAndLinked
  /\ WholeSoFar

=============================================================================
