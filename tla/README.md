# Verification of the chat application

TLA+ modules, TLC configurations and TLAPS proofs for the iOS application in
`ChatApp/ChatApp` (Swift).  The application lists channels, shows and sends the
messages of a channel, caches both with Core Data, edits a user profile that is
kept in files, and offers pictures from a web service.  Firestore is the source
of truth for channels and messages.  Of the vendored code under `ChatApp/Pods`
two parts of the Firestore client are modelled, because what the application
sees and loses is decided there: the connection behind its listeners and the
way of its writes to the server.  The rest appears only as external actions.

## 1. Inventory

| Component | State | Operations | Hard parts |
|---|---|---|---|
| Channel list (`ChannelsManager`, `ConversationsListViewController`) | `actualChannels`, a fetched results controller, one Firestore listener | listen, reconcile a snapshot, create, swipe to delete | reconciliation compares counts only, against a view context that lags behind the store; a swipe is two writes of which one can fail |
| Core Data stack (`CoreDataManager`, `Chat.xcdatamodel`) | persistent store, view context (main queue), background context (private queue) | insert a channel, insert a message, save block, delete a channel | objects are inserted and filled from the main thread while save blocks of the same context run on its private queue; a failed save rolls back everybody's inserts; uniqueness of channel names and message contents |
| Conversation (`MessagesManager`, `ConversationViewController`) | one manager and one listener per visit | listen, compare, insert all messages again, send | listeners are never removed; a message is complete before it is linked to its channel |
| Message cells (`MessageTableViewCell`, `checingImageInMessage`) | label, picture, name, side of a reused cell; fetches of pictures | configure, fetch, deliver | no `prepareForReuse`: old attributes stay, and a late picture or error arrives in a cell that shows another message |
| Channel table (`ConversationTableView`) | the rows counted at the last reload | count, read, tap, swipe, reload | rows are counted, read and resolved by three different controllers at three different times |
| Profile screen (`ProfileViewController`, `GCDManager`, `UserProfileManagerProtocol`) | text fields, toggled visibility and enabling of buttons, two change markers, `ProfileSettings.json` | edit, change, save, cancel, retry, close | saves on a concurrent queue write one file without atomicity; the mode is kept in attributes that handlers toggle; results arrive on a screen that has moved on |
| Profile picture (`UserProfileImageManagerProtocol`, the profile button) | the file `userProfileImage`, the picture on the screen, the button | choose, save (remove, then write), load for screen and button | removal and write are two steps; loads race saves |
| Pictures from the network (`NetworkImageService`, `ImageCollection…`) | `imageURLs`, cells, loads in flight | request the list, show, choose | the list is copied by a block that does not wait for the answer; the index is read later than it was chosen; cells are reused |
| Request layer (`RequestSender`, `ImageParcer`) | none | send, parse | which error is reported |
| Initials (`UserProfileModel`) | none | `userNameToInitials` | the placeholder is tested inside the loop |
| Firestore watch connection (`RemoteStore`, `Stream`, `OnlineStateTracker`) | listen targets, the watch stream with credentials, backoff and idle timer, the online state | listen, stop, network on, off and changed, open, fail, time out | callbacks of closed attempts; targets that change while the stream reconnects; timers that must be cancelled on every path |
| Firestore write pipeline (`RemoteStore`, `Stream`, `WriteStream`, `SyncEngine`, mutation queue) | mutation queues on disk, write pipeline, write stream, callbacks of callers | write, wait, handshake, answer, refuse, retry, change of user, restart | an answer names no write; answers are lost; batch ids are used again |
| Themes, animations, delegates, `FRCDelegate`, `UserProfileImageManager` | — | — | not modelled, see section 8 |

How they interact.  The channel list and every conversation insert into the ONE
background context; both delete or read through the view context, which follows
the store by merges on the main queue.  A conversation is opened from a row of
the channel list, and the messages of a channel are linked to its row.  The
profile screen reports a saved picture to the channel list with a closure, and
the collection of pictures reports a choice to the profile screen (the picture)
or to the conversation (its URL, sent as a message).  `sendMessage` reads the
profile file for the sender's name.  Listeners and writes of the application
are Firestore's targets and mutation batches; the client keeps one watch stream
and one write stream for all of them, both built on `Stream`, and runs every
handler on one worker queue.

The properties that make each part correct are those of section 4; the places
where the code is exposed are listed, line by line, under `hazards` in
`PROJECT.json`.

## 2. Modules

| Module | Models | State |
|---|---|---|
| `ChannelSync` | channel list with both contexts | the collection (`server`, `gone`), the listener and its queued snapshots, `actual` (= `actualChannels`), the main thread's place in the loops (`pc`, `todo`, `cur`), the background context (`bg`), queued save blocks (`saves`), the `store`, rows not yet merged into the view (`unmerged`) |
| `ChannelCache` | abstract specification of the cache of channels | the collection, the last snapshot, the cache |
| `ChannelTable` | the table, composed with `ChannelSync` (EXTENDS) | `ChannelSync`'s, and `cells` (the rows on display), queued `reloads`, the conversation `opened` |
| `MessageSync` | conversations with the shared context | documents, listeners with their queues, channel rows and pending channel inserts, the loop (`pc`, `chan`, `heard`, `todo`, `cur`), message inserts (`bg`), links set after a commit (`relinks`), `saves`, `rows` |
| `MessageCache` | abstract specification of the cache of messages | documents, channels with a row, messages with a row |
| `MessageCells` | reused cells of a conversation and their pictures | per cell its row (`displayed`), label, picture, name and side; `fetches` in flight |
| `ProfileEditor` | profile screen and `ProfileSettings.json` | the file, the screen's mode as a set of `flags`, the presented alert or picker, the texts, saves in flight |
| `ProfilePicture` | the picture's file, screen and button | the file, picture and marker of the screen, the button, loads and saves in flight |
| `NetworkImages` | URL list, collection, cells, request layer | the request, the captured array, the service's array, cells, loads |
| `Initials` | `userNameToInitials` | the words, the loop's variables |
| `ClientStream` | `Stream`, the base of both Firestore streams, as operators on one record | state, credentials under way, backoff and idle timer |
| `WatchConnection` | `RemoteStore`'s listening half and `OnlineStateTracker`, over `ClientStream` | targets, the stream, what the server was asked for, the aggregator, the tracker |
| `WritePipeline` | `RemoteStore`'s writing half, `WriteStream`, the mutation queue and the callbacks of `SyncEngine`, over `ClientStream` | queues per user, ids, callbacks, pipeline, stream, handshake, requests without an answer |
| `WriteQueue` | abstract specification of writing: one queue per user that the server works off in order | pending, carried out, declined |
| `MCChannelSync`, `MCChannelTable`, `MCMessageSync`, `MCMessageCells`, `MCProfilePicture`, `MCNetworkImages`, `MCWritePipeline` | values of the constants for TLC | |
| `ChannelSyncProofs` (with `ChannelTable`), `MessageSyncProofs`, `ProfileEditorProofs`, `ProfilePictureProofs` (with `Initials`), `PictureCellsProofs` (both tables of reused cells, `MessageCells` and `NetworkImages`), `WatchConnectionProofs`, `WritePipelineProofs` | theorems and proofs | |
| `ClientStreamProofs` | lemmas about the operators of `ClientStream`, used by both connections | |

Each action is one handler, callback, queued block, or one loop iteration where
another thread can come in between.  A handler of the main thread is one step
when nothing it does is visible to another thread before it ends; the inserting
loops are split at every point where a save block of the private queue can run
(after the insert, after the fields, after the link).  `Restart` ends the
process at any point and keeps what is in the store or in the files.  Every
module keeps a few auxiliary variables, marked as such, that no action of the
code reads.  They say what the latest pass or save still owes: `verdict` whether
a pass is to end with the exact mirror, to cover the snapshot, to stay within it
or is past saying; `asked` what a file is to hold once all is quiet, or that this
cannot be said, and `prior` what it was before the save in flight, to which a
failure or a restart goes back; `untimed` that a call has cancelled the tracker's
timer.

Data is abstracted to what the properties tell apart.  A channel is its
identifier with a fixed name (the application has no renaming), a message its
document with a fixed text and channel, the two profile texts are one, a name is
the sequence of the first characters of its words.

Modelling decisions a reader may want to question:

* **Core Data.**  A save block commits all complete inserts in one transaction
  or, if it throws, `rollback` discards all of them.  A half-built object in the
  context may make the save throw or be missed by it: the access is a data race,
  so both happen.  Under `NSMergeByPropertyStoreTrumpMergePolicy` a stored row
  beats an insert with an equal unique value, and of two such inserts either
  wins.  A fetch reads the store, also rows the view has not merged yet.
* **Firestore.**  Snapshots of one listener arrive in order, a local write shows
  up at once, identifiers are never reused, and a listener that reports an error
  reports nothing else.  Messages are only ever added: no code deletes one.
* `getActualChannels`, which starts the channel listener, has no caller at this
  commit; `GetChannelsFromFirebase` models it as reachable, since the rest of
  the class exists for it.
* **Files.**  `write(to:)` without options truncates, then writes.  A file that
  is half written, or was written by two at once, cannot be decoded (`Torn`).  Of
  overlapping writes either may end as the content of the file; a write whose
  picture file was removed meanwhile leaves the file of that name as it is.
* The array `url` in `getImageURL` is appended to and copied without
  synchronisation; the copy is modelled as some prefix.  A trap would end the
  process, of which this module keeps no persistent state.
* **Firestore's worker queue** runs every handler to its end, so a handler is
  one step with all it calls: closing a stream calls back into `RemoteStore`,
  which may start it again in the same step.  Between steps anything may come:
  credentials of an attempt that was closed meanwhile (kept apart by the close
  count), timers, answers, failures.
* Answers of the server that were received are handled before the end of the
  stream; the server does not end a stream with OK.  A refusal comes after the
  answers to the writes before it.
* Stream tokens are left out, the handshake of this version ignores them
  (`write_stream.cc:73`); so are transactions, and `Shutdown`, which the
  application never reaches.
* An iOS process that ends closes its streams; the mutation queues, which are on
  disk, are what the next process starts with.  The online state starts anew,
  which is `Init` of `WatchConnection`.
* In `ProfilePicture` the handlers are available whenever the screen is open.
  The modes of `ProfileEditor` restrict them further, so the module has more
  behaviours than the screen.

## 3. Runs and bounds

| Run | Instance | Why the bounds are enough |
|---|---|---|
| `channels` | 3 documents of which 2 share a name, 2 queued snapshots, 5 queued save blocks | replacing one channel by another at equal count needs 2 documents, growing past a name conflict 3; an old snapshot behind a new one needs a queue of 2; 5 blocks let a pass start while the previous one is still being saved |
| `table` | 2 documents, 1 queued snapshot, 3 save blocks, 2 queued reloads; with fairness | two rows are what it takes to hit the wrong one; a reload may be queued behind another; one full pass for the liveness of the synchronisation |
| `messages` | 3 messages with 2 texts in 2 channels, 2 listeners, 2 save blocks; with fairness | an equal text in the other channel, a second listener for the same or for the other channel |
| `cells` | 2 cells, 4 messages (own text, own picture, foreign picture, broken URL), 2 fetches | two fetches in flight for one cell, or one for each |
| `profile` | 2 texts, 2 saves in flight, 1 download; with fairness | two saves are what it takes to overlap |
| `profile_load` | as `profile` | expected violation, section 6 |
| `picture` | 2 pictures, 2 saves, 1 load per reading | old and new picture, overlapping saves |
| `images` | 2 pictures, 2 cells, 3 loads | a reuse with a load in flight, and a choice besides |
| `network_error` | as `images` | expected violation, section 6 |
| `initials` | names of up to 4 words over 3 letters, a non-letter and the empty word | two initials, one word before and one after |
| `watch` | 2 queries, 2 limbo targets, `MaxFailures` 1 as in the code; with fairness | the last target may go while another kind stays, and come back during a failed attempt |
| `writes` | 3 writes, 2 users, a pipeline of 2 (10 in the code) | one write more than the pipeline holds; ids that are used again by the other user |

All bounds are constants of the modules (`MaxQueue`, `MaxSaves`, `MaxLoads`,
`MaxWords`, `MaxReloads`, `MaxFailures`, `MaxPending`, and the sets `Ids`,
`Docs`, `Listeners`, `Jobs`, `Cells`, `Loads`, `Queries`, `Limbo`, `Writes`,
`Users`).  `Calls` names the calls of an application that a run considers.

## 4. What is checked

*Channels.*  `NoInsertStranded`: a complete insert always has a save block
behind it.  `ExactPassMirrors`: comparing counts is enough exactly when the
rows and the snapshot are ordered by inclusion in the right direction
(`WillBeExact`); then an undisturbed pass leaves the cache mirroring the
snapshot.  `PassDoesItsPart`: where it is not enough, an undisturbed inserting
pass still leaves a row of the name of every channel heard, and an undisturbed
pruning pass no row the snapshot lacks, although the view context it counted may
lag behind and two channels may share a name.  `OnlyStaleRowsLeave`: saves, rollbacks, merges and restarts never
lose a committed row.  `ImplementsChannelCache`: all of the above refines the
small specification of a cache that learns, forgets and removes channels.
`ExactPassSettles` (in `table`, which contains the synchronisation): such passes
do end and the save blocks behind them run.

*Messages.*  `CacheIsSound`: unique contents and no dangling link.
`ShownWhereSent`: no listener puts a message into another channel.
`EqualCountsMeanComplete`: the comparison `count > count` never hides a missing
message of a channel that has as many rows as documents.  `WholePassStoresAll`,
`WholePassSettles`: an undisturbed inserting pass leaves a row for every
content.  `MessagesStayPut`: no step loses, moves or needlessly unlinks a row.
`ImplementsMessageCache`: listeners, screens, contexts and save blocks refine a
cache that stores rows and drops channels in single steps.

*Channel table.*  `FreshTableIsExact`: as long as nothing was committed or
deleted since the last reload, every row is the channel at its index, and
scrolling meets no index without a row.  `HitsWhatIsShown`: then, and with every
commit merged, a tap or a swipe reaches the channel the user sees.
`RemovedChannelsLeave`: a channel whose row is gone leaves the table.

*Message cells.*  `CellsKeepSender`: name, side and an own message's hidden name
survive any reuse (`SenderIsRight`).  `CellsGetContent`: only a fetch that was in
flight at the reuse can spoil a row's text (`TextRowsKeepText`) or picture
(`PictureRowsSettle`).

*Profile.*  `LoneSaveLands`: when all is quiet the file holds the latest save, or
the older one if the latest failed, or the process ended, before its write; a
closed screen, a late completion, a failure or a restart at any other moment
costs nothing.  Overlapping saves and a write that is cut off do tear the file
and are left out.  `SpinnerCoversSave`, for a lone save.  `SavesFinish`: every
completion runs; that its alert is shown is not claimed.  `ModeIsConsistent`:
`EditingMeansFields` and `SaveNeedsChange`, until a fail alert is answered.
*Picture.*  `LonePictureLands` likewise, except for a failure or an end of the
process between the removal and the end of the write, where the code loses both
pictures; `ButtonFollowsFile`, the button then shows what the file holds, after
failures and restarts too; and `ScreenKeepsPicture`: only a load in
flight replaces a picture just chosen (`ChosenPictureStays`), and Save traps only
after a picker without a picture (`TrapNeedsEmptyPick`).  *Network.*  `IndexStaysValid`, `CellsShowTheirRow`.
*Initials.*  `InitialsOfWordsSeen`, against a reference definition.

*Watch connection.*  `NeededIsStarted`: something to listen to always has a
stream behind it that is open, opening or about to retry.  `AskedForTargets`: on
an open stream the server watches exactly the targets listened to.
`AssertionsHold`: the hard assertions of the code over every order of timers,
credentials and failures (`IdleOnlyUnused`, `CallbacksFindTheirState`,
`TrackerConsistent`).  `OnlineStateDecided`: Unknown does not last while no call
has cancelled its timer.  `StallEndsWithAttempt`: where one has, a listener waits
for no more than the attempt under way; its end decides the tracker, starts the
timer or counts one more of the failures allowed.

*Write pipeline.*  `PipelineIsHeadOfQueue`: the pipeline is the head of the queue
on disk, and a stream is started for it.  `StreamFitsPipeline`: the requests
without an answer are the pipeline, which is why an answer may be given to its
first write (`WireIsPipeline`), and `StreamAssertions`.  `CallersInformed`: a
caller is told what the server did with this very write (`ToldTheTruth`), and
batch ids that are used again do not mix up callers (`CallersRegistered`).
`NothingLost`: over crashes, changes of the user and lost answers.
`WaitersSeeAllDone`: `waitForPendingWrites` does not call back early.
`ImplementsWriteQueue`: all of it is a plain queue per user that the server works
off in order; a write that is sent twice does not change its place.

The type invariant of a module is a conjunct of one of its properties: of
`NoInsertStranded`, `CacheIsSound`, `FreshTableIsExact`, `CellsKeepSender`,
`ModeIsConsistent`, `ScreenKeepsPicture`, `IndexStaysValid`,
`InitialsOfWordsSeen`, `AssertionsHold` and `StreamFitsPipeline`.

Every property has a mutant in `PROJECT.json`: an operator that changes one
mapped definition the way a plausible bug would, and that makes TLC refute the
property.

Fairness.  `ChannelTable`, for `ChannelSync`, and `MessageSync` assume weak fairness of the loop the
main thread is in (it does not stop half way) and of the save blocks (GCD runs
what is queued); `ProfileEditor` that every queued save makes progress and its
completion runs; `ChannelTable` adds the reload blocks on the main queue;
`WatchConnection` only that the tracker's timer fires unless it is
cancelled.  Nothing is assumed of users, of the network or of the server, and no
property relies on them.  `WritePipeline` states no fairness: that a write is
answered in the end depends on credentials and server alone; what the client
owes, a started stream while there are writes to send, is in
`PipelineIsHeadOfQueue`.

What the runs show about limits of the code, beyond the findings:

* Equal counts hide a replaced channel, and two channels of one name make every
  snapshot re-insert all channels; this is the complement of `WillBeExact`.
* A message whose text exists in another channel, or in a row that lost its
  channel, never gets a row of its own; `WholePassStoresAll` therefore speaks of
  contents.
* A deleted channel leaves its messages behind without a channel.
* A rollback loses the inserts of others that were waiting in the context; they
  come back only with a snapshot that is longer than the cache.
* Two saves of the profile at once, or an end of the process during a write, leave
  a torn file; between the removal and the write of a picture there is no file.
* Two pictures in a row disable Save; answering a fail alert inverts the mode of
  the screen; a picture that is downloaded late toggles Save in whatever mode the
  screen is; a save of a picture alone leaves the text marker set; an alert that
  comes while something else is presented is dropped, and with it Retry.
* A load that is delivered late replaces a picture just chosen.
* A channel that was added may stay off the table: the reload is queued at the
  end of the pass and may run before the commit.  A swipe after a commit without
  a reload may delete another channel than the one shown.
* A name that an own message has hidden in a cell stays hidden for the messages
  of others; a failed picture overwrites the text of the row that has the cell.
* Stopping the last listener during a connection attempt cancels the timer of
  the online state (`remote_store.cc:187`), and so does enabling an enabled
  network; a listener that follows finds the stream started, no timer is set,
  and Unknown lasts as long as the attempt hangs.  `OnlineStateDecided` excludes
  this with the auxiliary `untimed`, `StallEndsWithAttempt` says that the attempt
  is all there is to wait for.  The application never stops a listener.
* The list of pictures is empty for the whole process unless the answer arrives
  before the next turn of the main queue.

## 5. What is proved

Every invariant and action property of the passing runs, and all three
refinements, are theorems: they hold for
every set of documents, messages, writes, users, jobs, cells and so on, and
every bound, not just for the instances of section 3.  The theorems are about
the specifications without fairness, hence also about those with it.

| Module | Theorems |
|---|---|
| `ChannelSyncProofs` | `InsertsAreNeverStranded`, `ExactPassesMirror`, `PassesDoTheirPart`, `RowsLeaveOnlyWhenStale`, `Refinement` (of `ChannelCache`); of the table `TableKeepsList`, `FreshTablesAreExact`, `TapsHitWhatIsShown` |
| `MessageSyncProofs` | `CacheStaysSound`, `MessagesShownWhereSent`, `CountsAreSound`, `WholePassesStoreAll`, `RowsStayPut`, `Refinement` (of `MessageCache`) |
| `WatchConnectionProofs` | `NeverStranded`, `ServerIsAsked`, `NoAssertionFails`, `StallsEnd` |
| `WritePipelineProofs` | `PipelineFollowsQueue`, `AnswersFitPipeline`, `CallersAreInformed`, `NoWriteIsLost`, `WaitersAreRight`, `PipelineImplementsQueue` (of `WriteQueue`) |
| `ProfileEditorProofs` | `ModeStaysConsistent`, `LoneSavesLand`, `SpinnerStays` |
| `ProfilePictureProofs` | `LonePicturesLand`, `ButtonsFollowFile`, `ScreensKeepPicture`; of the initials `InitialsAreRight` |
| `PictureCellsProofs` | `SendersStay`, `ContentArrives`, `IndexesStayValid`, `CellsShowRows` |

Assumptions on the constants, which TLC evaluates in the runs:
`ConstantsAssumption` (finitely many identifiers, each with one name),
`TableAssumption` (no two channels with the same activity, so the order of the
table is total), `MessageAssumption` (finitely many messages, each with one
channel and text), `CellsAssumption`, `ImagesAssumption`, `ProfileAssumption`,
`PictureAssumption` and `InitialsAssumption` (markers such as "torn file", "not
read yet" or "no character" are no texts, pictures or letters; the first clauses say what kind of thing the
constants are), `WatchAssumption` and `WriteAssumption` (a pipeline or a number
of failures of at least one; the handshake is no write), and that bounds are
numbers.  Finiteness is needed for comparisons of cardinalities only.

Each proof has one lemma per action, and under it one step per conjunct the
action can disturb; `Invariance` combines them.  The inductive invariant of
every module is called `IInv` (`TableIInv`, `CellIInv`,
`InitialsIInv` where two modules are read together) and stands at the end of the module, after the properties; it
was checked by TLC in the module's run before it was proved.

*Channels.*  `IInv` of `ChannelSync`:

* `KnownIds`: whatever the application handles was once a document, which the
  refinement needs for `Learn`;
* `LoopState`: what `pc` says about `todo` and `cur`; the rows a prune loop has
  still to delete are in the store and not in the snapshot, which gives
  `OnlyStaleRowsLeave`;
* `TypeOK` and `InsertsHaveSaves`, the two parts of `NoInsertStranded`;
* `ExactSoFar`: what an undisturbed exact pass has achieved, in terms of the
  rows, the context and the object being built; at the end of the pass it
  becomes `ExactPassMirrors`.  The delicate case is the start of a pass by
  counts, where `n < m`, `n = m` and `n > m` are related to inclusion.
* `PartSoFar`: the same for a pass that only covers the snapshot or only stays
  within it.  The delicate step is the commit: of two inserts with one name, or
  of an insert and a row, one stays, so the names are kept although rows are not.

*Channel table.*  `TableKeepsList` shows that every step of the composed module
is a step of `ChannelSync` or leaves it alone, so all theorems above carry over.
`TableIInv` adds to `FreshTableIsExact` only `RoomForReload`, that the callback
under way can queue its reload.  The proof needs `RowAtExists`, that every index
up to the number of rows has its channel: ranking the rows by activity is
injective, and an injection between finite sets of equal size is onto.  `TapsHitWhatIsShown` then compares
the view's rows with the store's, which are equal when all commits are merged.

*Messages.*  `IInv` of `MessageSync`: `ObjectsKnown` (every row, insert and
pending link stands for a document and is linked to its own channel or to none),
`PassKnown` (snapshots and the running pass stay within one channel),
`LoopState`, `CacheIsSound` and `WholeSoFar`.  `EqualCountsMeanComplete` follows
from `ObjectsKnown` and `CacheIsSound`: the rows of a channel inject into its
documents, so equal cardinality means equality.  In the refinement a document
that arrives is `Arrive`, a deleted channel `Drop`, a commit `Store`,
and everything else a stutter.

*Watch connection.*  The three properties are inductive together, not one by one:
the idle timer stops the stream, and `NeededIsStarted` survives that only because
`IdleOnlyUnused` lets the timer run while there are no targets; the tracker's
part of `AssertionsHold` in turn needs to know that the stream is started.
`StalledIsUntimed` (a stalled listener has no timer and an attempt under way) is
what `StallsEnd` needs besides.  What the base class does is stated once, in `ClientStreamProofs`: every operator
keeps a stream `Sound` and says whether the result is open or started.

*Write pipeline.*  The four invariants are inductive together with

* `QueuesInOrder`: ids grow along a queue and stay below the next one; the batch
  that `NextBatches` finds by its id is then the next one of the queue, and the
  refilled pipeline again its head;
* `WritesQueuedOnce`: a write is in one queue, once.  Without it an answer could
  remove another occurrence, and the refinement would remove too little;
* `WaitersKnowLast`: nothing a waiter waits for is queued behind its batch,
  which gives `WaitersSeeAllDone`;
* `AnswersAreTrue`: what the server has answered it has carried out, and the
  wire of a closed stream is empty; with `WireIsPipeline` this identifies the
  write an answer is for.

The lemmas about `Take` and `WritesOf` (prefixes, tails, concatenation, and the
least element that a refill starts from) carry the sequences.  In the
refinement the pipeline vanishes: a write is `Issue`, the server's application
is `CarryOut` of the first pending write not carried out yet, and its answer
`Confirm`; a repeated request after a reconnection is a stutter.

*Profile.*  `ScreenHolds` (alerts, pickers and saves that report need the screen)
keeps late completions away from a closed screen; `SaveSoFar` says that a save
that counts is alone in flight and how far the file is, and becomes
`LoneSaveLands` when nothing is in flight; `PriorHolds` that the file is what it
was until that save touches it, which is what a failure or a restart goes back
to.  *Picture.*  `SaveSoFar` likewise,
with the removal before the write as a phase of its own; `OneLoad` and
`ButtonSoFar` say that the button waits for at most one load, which has read the
saved file or will; `PriorHolds` says this of the older file; `ChosenAlone` says that no load is under way once a picture
was chosen without one.  *Cells.*  `FetchesOfURLs` and `FetchesOfRow`: a cell
that is not late has no fetch but its own.  *Network.*  `ListState` (the array is
empty before its one assignment), `IndexesInArray` and `LoadsForRow`.

*Initials.*  `MarkersCount`: the "Found" markers tell none, one and more leading
letters apart.  The reference definition speaks of the places of the leading
letters, not of the sequence of them: what a recursive selection gives for every
name would need an induction over data.

Only model-checked: `ExactPassSettles`, `WholePassSettles`, `SavesFinish`,
`RemovedChannelsLeave` and `OnlineStateDecided`; liveness under fairness is out
of the prover's reach.

## 6. Findings

* `profile_load`: `loadUserProfile` never calls its completion when the file
  cannot be read (`UserProfileManagerProtocol.swift:29`), while the unit test
  expects the call (`ChatAppTests.swift:37`).  It fails on a fresh installation
  and after a torn write.
* `network_error`: an answer with neither error nor data is reported as
  `.decode` (`ImageNetworkManager.swift:24`), although `.format` is described as
  exactly that (`RequestConfig.swift:26`) and is produced nowhere.

## 7. Plan

Done: the channel list with its table, the messages with their cells, the
abstract specification of both caches, the profile screen, the picture, the
network pictures, the initials; Firestore's watch connection and write pipeline;
proofs of every safety property and of the three refinements.

Next, in this order:

1. Firestore's snapshot listeners (`EventManager`, `QueryListener`, `View`): when
   the first snapshot is raised, what it says of pending writes and the cache,
   and that no event follows the removal of a listener.
2. A composition of `ProfileEditor` and `ProfilePicture` that shares the screen,
   with `sendMessage` reading the profile.

## 8. Not modelled

Layout, gestures, keyboard handling, animations and segues; `FRCDelegate`, whose
table is never on screen; `UserProfileImageManager`, an unused copy;
`AppDelegate` and `SceneDelegate`, which configure Firebase and the theme once;
the themes, one value in `UserDefaults` written and applied on the main thread;
the sender's identity, a constant of the device; drawing of initials; the
content of requests, and the configuration that `RequsetFactory` reads or stops
without.

The vendored libraries, with the exception of the parts of the Firestore client
above: gRPC, BoringSSL, leveldb, abseil, protobuf, nanopb and Google's utilities,
some 650,000 lines that the application reaches only through Firestore and that
are projects of their own.
Of the Firestore client, local storage and queries, transactions, the accounting of
target changes in the aggregator, and serialisation are not modelled.
