--------------------------- MODULE WritePipeline ---------------------------
(***************************************************************************)
(* How the Firestore client gets the writes of this application to the     *)
(* server: SyncEngine puts each into the mutation queue of the user, which *)
(* is on disk, RemoteStore keeps the first few in its write pipeline and   *)
(* sends them over the write stream, and an answer is attributed to a      *)
(* write by its position only.                                             *)
(*                                                                         *)
(* Every handler runs to its end on the client's worker queue, so it is    *)
(* one action with all it calls.  The server, credentials and the network  *)
(* are external.  Stream tokens are left out: the handshake ignores them.  *)
(***************************************************************************)
EXTENDS Naturals, Sequences, SequencesExt, FiniteSets, ClientStream

CONSTANTS
  Writes,      \* the writes of the application: batches of mutations
  Users,       \* each has a mutation queue of its own
  MaxPending,  \* kMaxPendingWrites
  Calls        \* what happens besides writing, see Next

ASSUME WriteAssumption ==
  /\ MaxPending \in Nat \ {0}
  /\ Calls \subseteq {"disable", "user", "crash", "wait"}
  /\ "handshake" \notin Writes

VARIABLES
  enabled,     \* is_network_enabled_
  user,        \* current_user_
  queue,       \* on disk: user -> mutation batches, by batch id
  nextId,      \* next_batch_id_
  callbacks,   \* mutation_callbacks_: user -> {batch}
  waiters,     \* pending_writes_callbacks_: the batch id each waits for, and
               \* (auxiliary) the writes that were pending when it began
  pipeline,    \* write_pipeline_
  stream,      \* the write stream
  handshake,   \* handshake_complete_: "yes" or "no"
  wire,        \* requests on this stream that have not been answered
  acks,        \* how many of them the server has carried out
  applied,     \* writes the server has carried out
  refused,     \* writes the server has refused for good
  issued,      \* auxiliary: user -> writes in the order they were made
  told,        \* auxiliary: what the callback of a write was called with
  waiting      \* auxiliary: writes of this process that were not told

local == <<user, queue, nextId, callbacks, waiters, issued, told, waiting>>
server == <<applied, refused>>
vars == <<enabled, local, pipeline, stream, handshake, wire, acks, server>>

Batch == [id : Nat, write : Writes]

TypeOK ==
  /\ enabled \in {"yes", "no"}
  /\ user \in Users
  /\ queue \in [Users -> Seq(Batch)]
  /\ nextId \in Nat
  /\ callbacks \in [Users -> SUBSET Batch]
  /\ waiters \subseteq [id : Nat, writes : SUBSET Writes]
  /\ pipeline \in Seq(Batch) /\ Len(pipeline) <= MaxPending
  /\ stream \in StreamState
  /\ handshake \in {"yes", "no"}
  /\ wire \in Seq(Writes \cup {"handshake"})
  /\ acks \in 0..Len(wire)
  /\ applied \subseteq Writes /\ refused \subseteq Writes
  /\ issued \in [Users -> Seq(Writes)]
  /\ told \in [Writes -> {"nothing", "ok", "error"}]
  /\ waiting \subseteq Writes

Init ==
  /\ enabled = "yes"
  /\ user \in Users
  /\ queue = [u \in Users |-> <<>>]
  /\ nextId = 1
  /\ callbacks = [u \in Users |-> {}]
  /\ waiters = {}
  /\ pipeline = <<>>
  /\ stream = NewStream
  /\ handshake = "no"
  /\ wire = <<>> /\ acks = 0
  /\ applied = {} /\ refused = {}
  /\ issued = [u \in Users |-> <<>>]
  /\ told = [w \in Writes |-> "nothing"]
  /\ waiting = {}

WritesOf(batches) == [i \in 1..Len(batches) |-> batches[i].write]
Without(batches, b) == RemoveAt(batches, SelectInSeq(batches, LAMBDA c : c.id = b.id))
Take(s, n) == SubSeq(s, 1, IF n < Len(s) THEN n ELSE Len(s))

-----------------------------------------------------------------------------
(* RemoteStore: the pipeline.                                              *)

\* FillWritePipeline that does not limit the pipeline: the batches of Q after the
\* last of P, by their ids.
NextBatchesUnlimited(P, Q) ==
  LET known == IF P = <<>> THEN 0 ELSE SelectLastInSeq(Q, LAMBDA b : b.id <= Last(P).id)
  IN SubSeq(Q, known + 1, Len(Q))

\* The batches FillWritePipeline adds to P: those of Q after the last of P, as
\* long as there is room.
NextBatches(P, Q) ==
  LET known == IF P = <<>> THEN 0 ELSE SelectLastInSeq(Q, LAMBDA b : b.id <= Last(P).id)
  IN Take(SubSeq(Q, known + 1, Len(Q)), MaxPending - Len(P))

\* Fill that sends on any open stream.
FillBeforeHandshake(P, Q, s, W) ==
  LET new == NextBatches(P, Q)
      full == P \o new
      sends == IsOpen(s) /\ new # <<>>
      marked == IF sends THEN Write(s)
                ELSE IF full = <<>> THEN MarkIdle(s) ELSE s
  IN /\ pipeline' = full
     /\ wire' = IF sends THEN W \o WritesOf(new) ELSE W
     /\ stream' = IF ~IsStarted(marked) /\ full # <<>> THEN Start(marked) ELSE marked

\* FillWritePipeline on an enabled network, with pipeline P, queue Q, stream s
\* and wire W: the new batches are sent if the handshake is over, an empty
\* pipeline marks the stream idle, and a stream that is needed is started.
Fill(P, Q, s, W) ==
  LET new == NextBatches(P, Q)
      full == P \o new
      sends == IsOpen(s) /\ handshake = "yes" /\ new # <<>>
      marked == IF sends THEN Write(s)
                ELSE IF full = <<>> THEN MarkIdle(s) ELSE s
  IN /\ pipeline' = full
     /\ wire' = IF sends THEN W \o WritesOf(new) ELSE W
     /\ stream' = IF ~IsStarted(marked) /\ full # <<>> THEN Start(marked) ELSE marked

\* EnableNetwork with an empty pipeline or a running stream.
EnableNetwork ==
  /\ enabled' = "yes"
  /\ Fill(pipeline, queue[user], stream, wire)
  /\ UNCHANGED <<local, handshake, acks, server>>

\* The stream is stopped and the pipeline cleared: the queue has it all.
DisableNetwork ==
  /\ enabled' = "no"
  /\ stream' = Stop(stream)
  /\ pipeline' = <<>>
  /\ handshake' = "no" /\ wire' = <<>> /\ acks' = 0
  /\ UNCHANGED <<local, server>>

\* RestartNetwork for the mutation queue Q.
RestartNetwork(Q) ==
  /\ Fill(<<>>, Q, InhibitBackoff(Stop(stream)), <<>>)
  /\ handshake' = "no" /\ acks' = 0
  /\ UNCHANGED <<enabled, server>>

\* The reachable network has changed.
ConnectivityChanged ==
  /\ enabled = "yes"
  /\ RestartNetwork(queue[user])
  /\ UNCHANGED local

-----------------------------------------------------------------------------
(* SyncEngine.                                                             *)

\* WriteMutations: on disk first, then to the server.
WriteMutations(w) ==
  LET batch == [id |-> nextId, write |-> w]
  IN /\ \A u \in Users : \A i \in 1..Len(issued[u]) : issued[u][i] # w
     /\ queue' = [queue EXCEPT ![user] = Append(@, batch)]
     /\ nextId' = nextId + 1
     /\ callbacks' = [callbacks EXCEPT ![user] =
                        IF \E c \in @ : c.id = nextId THEN @ ELSE @ \cup {batch}]
     /\ issued' = [issued EXCEPT ![user] = Append(@, w)]
     /\ waiting' = waiting \cup {w}
     /\ \/ enabled = "yes" /\ Fill(pipeline, queue'[user], stream, wire)
        \/ enabled = "no" /\ UNCHANGED <<pipeline, stream, wire>>
     /\ UNCHANGED <<enabled, user, waiters, told, handshake, acks, server>>

\* RegisterPendingWritesCallback that waits for the first pending batch.
WaitForFirst ==
  LET Q == queue[user]
  IN /\ Q # <<>> /\ waiters = {}
     /\ waiters' = {[id |-> Head(Q).id, writes |-> ToSet(WritesOf(Q))]}
     /\ UNCHANGED <<enabled, user, queue, nextId, callbacks, issued, told, waiting,
                    pipeline, stream, handshake, wire, acks, server>>

\* RegisterPendingWritesCallback; without pending writes it calls back at once.
WaitForPendingWrites ==
  LET Q == queue[user]
  IN /\ Q # <<>> /\ waiters = {}
     /\ waiters' = {[id |-> Last(Q).id, writes |-> ToSet(WritesOf(Q))]}
     /\ UNCHANGED <<enabled, user, queue, nextId, callbacks, issued, told, waiting,
                    pipeline, stream, handshake, wire, acks, server>>

\* The batch b of the pipeline is done: its callback is called with status, the
\* callbacks waiting for it are, and it leaves the queue.
BatchDone(b, status) ==
  LET called == {c \in callbacks[user] : c.id = b.id}
  IN /\ told' = [w \in Writes |-> IF \E c \in called : c.write = w THEN status ELSE told[w]]
     /\ waiting' = waiting \ {c.write : c \in called}
     /\ callbacks' = [callbacks EXCEPT ![user] = @ \ called]
     /\ waiters' = {x \in waiters : x.id # b.id}
     /\ queue' = [queue EXCEPT ![user] = Without(@, b)]
     /\ UNCHANGED <<user, nextId, issued>>

\* LoadNextBatchIdFromDb: one more than the highest id of any user's queue.
LoadNextBatchIdFromDb ==
  1 + Max({0} \cup UNION {{queue[u][i].id : i \in 1..Len(queue[u])} : u \in Users})

\* HandleCredentialChange that discards the queue of the user who leaves.
CredentialChangeClearing(u) ==
  /\ u # user
  /\ user' = u
  /\ waiters' = {}
  /\ nextId' = LoadNextBatchIdFromDb
  /\ queue' = [queue EXCEPT ![user] = <<>>]
  /\ UNCHANGED <<callbacks, issued, told, waiting>>
  /\ \/ enabled = "yes" /\ RestartNetwork(queue[u])
     \/ enabled = "no" /\ UNCHANGED <<enabled, pipeline, stream, handshake, wire, acks, server>>

\* HandleCredentialChange to another user: waiting callbacks fail, the mutation
\* queue is exchanged, and the streams are restarted.
HandleCredentialChange(u) ==
  /\ u # user
  /\ user' = u
  /\ waiters' = {}
  /\ nextId' = LoadNextBatchIdFromDb
  /\ UNCHANGED <<queue, callbacks, issued, told, waiting>>
  /\ \/ enabled = "yes" /\ RestartNetwork(queue[u])
     \/ enabled = "no" /\ UNCHANGED <<enabled, pipeline, stream, handshake, wire, acks, server>>

\* A restart that reads the batches in the order of the wrong key.
CrashReordering ==
  /\ enabled' = "yes"
  /\ nextId' = LoadNextBatchIdFromDb
  /\ callbacks' = [u \in Users |-> {}] /\ waiters' = {} /\ waiting' = {}
  /\ queue' = [u \in Users |-> Reverse(queue[u])]
  /\ Fill(<<>>, queue'[user], NewStream, <<>>)
  /\ handshake' = "no" /\ acks' = 0
  /\ UNCHANGED <<user, issued, told, server>>

\* The process ends at any point and starts again with the queues on disk.
Crash ==
  /\ enabled' = "yes"
  /\ nextId' = LoadNextBatchIdFromDb
  /\ callbacks' = [u \in Users |-> {}] /\ waiters' = {} /\ waiting' = {}
  /\ Fill(<<>>, queue[user], NewStream, <<>>)
  /\ handshake' = "no" /\ acks' = 0
  /\ UNCHANGED <<user, queue, issued, told, server>>

-----------------------------------------------------------------------------
(* Callbacks of credentials, timers and the server.                        *)

\* OnWriteStreamOpen: the handshake is the first request.
ResumeStartWithCredentials ==
  /\ "current" \in stream.tokens
  /\ stream' = Write(Opened(stream))
  /\ wire' = <<"handshake">>
  /\ UNCHANGED <<enabled, local, pipeline, handshake, acks, server>>

CredentialsLate ==
  /\ "stale" \in stream.tokens
  /\ stream' = TokenIgnored(stream)
  /\ UNCHANGED <<enabled, local, pipeline, handshake, wire, acks, server>>

BackoffElapsed ==
  /\ stream.backoff = "scheduled"
  /\ stream' = Restarted(stream)
  /\ UNCHANGED <<enabled, local, pipeline, handshake, wire, acks, server>>

\* The server carries out the next request; its answer is on the way.
ServerApplies ==
  /\ acks < Len(wire)
  /\ acks' = acks + 1
  /\ applied' = applied \cup ({wire[acks + 1]} \ {"handshake"})
  /\ UNCHANGED <<enabled, local, pipeline, stream, handshake, wire, refused>>

\* OnWriteStreamHandshakeComplete: the whole pipeline is sent.
HandshakeComplete ==
  /\ acks > 0 /\ handshake = "no"
  /\ handshake' = "yes"
  /\ wire' = Tail(wire) \o WritesOf(pipeline)
  /\ stream' = IF pipeline = <<>> THEN stream ELSE Write(stream)
  /\ acks' = acks - 1
  /\ UNCHANGED <<enabled, local, pipeline, server>>

\* OnWriteStreamMutationResult: the answer belongs to the front of the pipeline.
MutationResult ==
  /\ acks > 0 /\ handshake = "yes"
  /\ acks' = acks - 1
  /\ BatchDone(Head(pipeline), "ok")
  /\ Fill(Tail(pipeline), queue'[user], stream, Tail(wire))
  /\ UNCHANGED <<enabled, handshake, server>>

\* OnWriteStreamClose after a transient error, or any error that came before the
\* handshake was over: everything in the pipeline is sent again.
Retry(s) ==
  /\ stream' = IF pipeline # <<>> THEN Start(s) ELSE s
  /\ handshake' = "no" /\ wire' = <<>> /\ acks' = 0
  /\ UNCHANGED <<enabled, local, pipeline, server>>

CredentialsFail ==
  /\ "current" \in stream.tokens
  /\ Retry(Close(TokenTaken(stream), FALSE))

\* Answers on the way are lost with the stream.
OnStreamFinish == IsOpen(stream) /\ Retry(Close(stream, FALSE))

\* An idle stream is stopped.
IdleTimeout ==
  /\ stream.idle = "scheduled"
  /\ stream' = Close(stream, TRUE)
  /\ handshake' = "no" /\ wire' = <<>> /\ acks' = 0
  /\ UNCHANGED <<enabled, local, pipeline, server>>

\* HandleWriteError without the handshake's case, which HandleHandshakeError is.
RefusedDuringHandshake ==
  /\ IsOpen(stream) /\ pipeline # <<>> /\ acks = 0
  /\ refused' = refused \cup ({Head(wire)} \ {"handshake"})
  /\ BatchDone(Head(pipeline), "error")
  /\ Fill(Tail(pipeline), queue'[user], InhibitBackoff(Close(stream, FALSE)), <<>>)
  /\ handshake' = "no" /\ acks' = 0
  /\ UNCHANGED <<enabled, applied>>

\* The server refuses the next write for good and ends the stream with the
\* error, after the answers to the writes before it: HandleWriteError.
ServerRefuses ==
  /\ IsOpen(stream) /\ handshake = "yes" /\ pipeline # <<>>
  /\ acks = 0
  /\ refused' = refused \cup {Head(wire)}
  /\ BatchDone(Head(pipeline), "error")
  /\ Fill(Tail(pipeline), queue'[user], InhibitBackoff(Close(stream, FALSE)), <<>>)
  /\ handshake' = "no" /\ acks' = 0
  /\ UNCHANGED <<enabled, applied>>

-----------------------------------------------------------------------------
Next ==
  \/ \E w \in Writes : WriteMutations(w)
  \/ "wait" \in Calls /\ WaitForPendingWrites
  \/ "disable" \in Calls /\ (EnableNetwork \/ DisableNetwork)
  \/ "user" \in Calls /\ \E u \in Users : HandleCredentialChange(u)
  \/ "crash" \in Calls /\ Crash
  \/ ConnectivityChanged
  \/ ResumeStartWithCredentials \/ CredentialsFail \/ CredentialsLate
  \/ BackoffElapsed \/ IdleTimeout
  \/ ServerApplies \/ HandshakeComplete \/ MutationResult
  \/ OnStreamFinish \/ ServerRefuses

Spec == Init /\ [][Next]_vars

-----------------------------------------------------------------------------
(* Properties.                                                             *)

\* The pipeline is the head of the user's queue, as long as it may be, and while
\* it is not empty the stream is started: no write is left behind by a failure,
\* a restart, a refusal or a change of the user.
PipelineIsHeadOfQueue ==
  IF enabled = "yes"
  THEN /\ pipeline = Take(queue[user], MaxPending)
       /\ pipeline # <<>> => IsStarted(stream)
  ELSE pipeline = <<>> /\ ~IsStarted(stream)

\* Once the handshake is over, the requests without an answer are exactly the
\* pipeline, in its order: that is what makes "the first in the pipeline" the
\* right write for an answer or an error, and never an empty pipeline.
WireIsPipeline ==
  IsOpen(stream) =>
    wire = IF handshake = "yes" THEN WritesOf(pipeline) ELSE <<"handshake">>

\* The idle timer and the credentials find the stream in the state they assert,
\* and the idle timer never stops a stream that still has writes to send.
StreamAssertions ==
  /\ CallbacksFindState(stream)
  /\ stream.idle = "scheduled" => pipeline = <<>>
  /\ handshake = "yes" => IsOpen(stream)

\* Stream, handshake and pipeline fit together, and the assertions of Stream and
\* WriteStream hold, when answers, errors, timers and credentials call back.
StreamFitsPipeline == TypeOK /\ WireIsPipeline /\ StreamAssertions

\* What a caller is told is what the server did with this very write.
ToldTheTruth ==
  \A w \in Writes : /\ told[w] = "ok" => w \in applied
                    /\ told[w] = "error" => w \in refused

\* No write is lost, by crashes and changes of the user neither: it stays in the
\* queue of its user until the server has carried it out or refused it.
NothingLost ==
  \A u \in Users : \A i \in 1..Len(issued[u]) :
    \/ issued[u][i] \in applied \cup refused
    \/ \E k \in 1..Len(queue[u]) : queue[u][k].write = issued[u][i]

\* Every caller of this process that has not been told is registered under the
\* id its write has in the queue: batch ids that are used again after a change
\* of the user do not mix up callers.
CallersRegistered ==
  /\ waiting = UNION {{c.write : c \in callbacks[u]} : u \in Users}
  /\ \A u \in Users : callbacks[u] \subseteq ToSet(queue[u])

\* A callback in mutation_callbacks_ is called for its own write, with what became
\* of it.
CallersInformed == ToldTheTruth /\ CallersRegistered

\* waitForPendingWrites calls back when none of the writes that were pending at
\* its call is left in the queue.
WaitersSeeAllDone ==
  [][MutationResult \/ ServerRefuses =>
       \A x \in waiters \ waiters' : x.writes \cap ToSet(WritesOf(queue'[user])) = {}]_vars

\* The pipeline with its retries and the queue on disk with its crashes are, to
\* a user, a plain queue that the server works off in order (WriteQueue).
Promise == INSTANCE WriteQueue
  WITH pending <- [u \in Users |-> WritesOf(queue[u])], carried <- applied,
       declined <- refused

ImplementsWriteQueue == Promise!Spec

-----------------------------------------------------------------------------
(* The inductive invariant behind the theorems of WritePipelineProofs.      *)

\* A queue is in the order of its batch ids, which the next one exceeds.
QueuesInOrder ==
  \A u \in Users :
    /\ \A i \in 1..Len(queue[u]) : queue[u][i].id < nextId
    /\ \A i, j \in 1..Len(queue[u]) : i < j => queue[u][i].id < queue[u][j].id

\* A write is made once, and queued once and for its user, if at all.
WritesQueuedOnce ==
  /\ \A u, v \in Users : \A i \in 1..Len(issued[u]), j \in 1..Len(issued[v]) :
       issued[u][i] = issued[v][j] => u = v /\ i = j
  /\ \A u \in Users : \A i \in 1..Len(queue[u]) :
       queue[u][i].write \in ToSet(issued[u])
  /\ \A u \in Users : \A i, j \in 1..Len(queue[u]) :
       queue[u][i].write = queue[u][j].write => i = j

\* Of what a waiter waits for nothing is queued behind its batch.
WaitersKnowLast ==
  \A x \in waiters :
    /\ x.writes \subseteq ToSet(issued[user])
    /\ \A i \in 1..Len(queue[user]) :
         queue[user][i].write \in x.writes => queue[user][i].id <= x.id

\* What the server has answered it has carried out, nothing is on the way on a
\* stream that is not open, and a stream is started for a write: without one it
\* can only have become idle.
AnswersAreTrue ==
  /\ \A i \in 1..acks : wire[i] \in applied \cup {"handshake"}
  /\ ~IsOpen(stream) => wire = <<>>
  /\ IsStarted(stream) /\ handshake = "no" => pipeline # <<>>

IInv ==
  /\ PipelineIsHeadOfQueue /\ StreamFitsPipeline /\ CallersInformed /\ NothingLost
  /\ QueuesInOrder /\ WritesQueuedOnce /\ WaitersKnowLast /\ AnswersAreTrue

=============================================================================
