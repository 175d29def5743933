--------------------------- MODULE WatchConnection ---------------------------
(***************************************************************************)
(* How the Firestore client keeps the connection behind the listeners of   *)
(* this application: RemoteStore's set of listen targets, the watch stream *)
(* with its credentials, backoff and idle timer, and the tracker that      *)
(* tells listeners whether the client is online.                           *)
(*                                                                         *)
(* Every handler runs to its end on the client's worker queue, so it is    *)
(* one action, with the handlers it calls: closing the stream calls back   *)
(* into RemoteStore, which may start it again.  Credentials, the server    *)
(* and the network are external.  The write stream is WritePipeline's.     *)
(***************************************************************************)
EXTENDS Naturals, ClientStream

CONSTANTS
  Queries,      \* targets of the application's queries
  Limbo,        \* targets the sync engine listens to on its own account
  MaxFailures,  \* kMaxWatchStreamFailures
  Calls         \* what the application does beyond listening, see Next

Targets == Queries \cup Limbo

ASSUME WatchAssumption ==
  /\ MaxFailures \in Nat \ {0}
  /\ Calls \subseteq {"stop", "enable", "disable"}

VARIABLES
  enabled,      \* is_network_enabled_
  targets,      \* listen_targets_
  stream,       \* the watch stream
  asked,        \* what the server watches on it, while it is open
  aggregator,   \* watch_change_aggregator_: "none" or "live"
  tracker,      \* the online state tracker, see TrackerState
  untimed       \* auxiliary: has a call of the application, made during an
                \* attempt, cancelled the tracker's timer?

vars == <<enabled, targets, stream, asked, aggregator, tracker, untimed>>

TrackerState ==
  [state : {"Unknown", "Online", "Offline"},
   failures : 0..MaxFailures,             \* counts on beyond, to no effect
   timer : {"none", "scheduled"}]

TypeOK ==
  /\ enabled \in {"yes", "no"}
  /\ targets \subseteq Targets
  /\ stream \in StreamState
  /\ asked \subseteq Targets
  /\ aggregator \in {"none", "live"}
  /\ tracker \in TrackerState
  /\ untimed \in {"yes", "no"}

-----------------------------------------------------------------------------
(* The tracker of the online state.                                        *)

UpdateState(s) == [state |-> s, failures |-> 0, timer |-> "none"]

\* HandleWatchStreamStart without the timer.
StartWithoutTimer(t) == IF t.failures # 0 THEN t ELSE [t EXCEPT !.state = "Unknown"]

HandleWatchStreamStart(t) ==
  IF t.failures # 0 THEN t
  ELSE [t EXCEPT !.state = "Unknown", !.timer = "scheduled"]

\* HandleWatchStreamFailure that bears one failure more than it should.
FailureBeyondLimit(t) ==
  IF t.state = "Online" THEN [t EXCEPT !.state = "Unknown"]
  ELSE IF t.failures + 1 > MaxFailures
  THEN [state |-> "Offline", failures |-> MaxFailures, timer |-> "none"]
  ELSE [t EXCEPT !.failures = @ + 1]

HandleWatchStreamFailure(t) ==
  IF t.state = "Online" THEN [t EXCEPT !.state = "Unknown"]
  ELSE IF t.failures + 1 >= MaxFailures
  THEN [state |-> "Offline", failures |-> MaxFailures, timer |-> "none"]
  ELSE [t EXCEPT !.failures = @ + 1]

-----------------------------------------------------------------------------
(* RemoteStore.                                                            *)

ShouldStartWatchStream(s, T) == enabled = "yes" /\ ~IsStarted(s) /\ T # {}

\* Watch and unwatch requests on an open stream, after which the server is asked
\* for the targets T; the last unwatch marks the stream idle.
Requests(T) ==
  /\ stream' = IF T = {} THEN MarkIdle(Write(stream)) ELSE Write(stream)
  /\ asked' = T

\* Starts s, whose stream has failed or never ran.
StartWatchStream(s, t) ==
  /\ stream' = Start(s)
  /\ tracker' = HandleWatchStreamStart(t)
  /\ aggregator' = "live"

\* RemoteStore::Start enables the network; no target is listened to yet.
Init ==
  /\ enabled = "yes"
  /\ targets = {}
  /\ stream = NewStream
  /\ asked = {}
  /\ aggregator = "none"
  /\ tracker = UpdateState("Unknown")
  /\ untimed = "no"

\* Listen that relies on the stream to send what is listened to.
ListenUnsent(q) ==
  /\ q \notin targets
  /\ targets' = targets \cup {q}
  /\ \/ ShouldStartWatchStream(stream, targets') /\ StartWatchStream(stream, tracker)
     \/ ~ShouldStartWatchStream(stream, targets')
        /\ UNCHANGED <<stream, tracker, aggregator>>
  /\ UNCHANGED <<enabled, asked>>

Listen(q) ==
  /\ q \notin targets
  /\ targets' = targets \cup {q}
  /\ \/ ShouldStartWatchStream(stream, targets') /\ StartWatchStream(stream, tracker)
        /\ UNCHANGED asked
     \/ IsOpen(stream) /\ Requests(targets')
        /\ UNCHANGED <<tracker, aggregator>>
     \/ ~IsOpen(stream) /\ ~ShouldStartWatchStream(stream, targets')
        /\ UNCHANGED <<stream, asked, tracker, aggregator>>
  /\ UNCHANGED enabled

\* The sync engine stops query q, and the limbo targets only q needed.
StopListening(q) ==
  /\ q \in targets
  /\ \E L \in SUBSET (targets \cap Limbo) : targets' = targets \ ({q} \cup L)
  /\ \/ IsOpen(stream) /\ Requests(targets') /\ UNCHANGED tracker
     \/ ~IsOpen(stream) /\ targets' = {} /\ enabled = "yes"
        /\ tracker' = UpdateState("Unknown") /\ UNCHANGED <<stream, asked>>
     \/ ~IsOpen(stream) /\ (targets' # {} \/ enabled = "no")
        /\ UNCHANGED <<tracker, stream, asked>>
  /\ UNCHANGED <<enabled, aggregator>>

\* OnWatchStreamClose that leaves the restart to the next Listen.
CloseForGood(s) ==
  /\ stream' = s
  /\ tracker' = HandleWatchStreamFailure(tracker)
  /\ aggregator' = "none"

\* OnWatchStreamClose of the stream s just closed: start it again if needed.
OnWatchStreamClose(s) ==
  \/ /\ ShouldStartWatchStream(s, targets)
     /\ StartWatchStream(s, HandleWatchStreamFailure(tracker))
  \/ /\ ~ShouldStartWatchStream(s, targets)
     /\ stream' = s
     /\ tracker' = UpdateState("Unknown")
     /\ aggregator' = "none"

\* EnableNetwork with s, t and a for the stream, the tracker and the aggregator.
EnableNetworkWith(s, t, a) ==
  /\ enabled' = "yes"
  /\ \/ ~IsStarted(s) /\ targets # {} /\ StartWatchStream(s, t)
     \/ (IsStarted(s) \/ targets = {})
        /\ stream' = s /\ tracker' = UpdateState("Unknown") /\ aggregator' = a
  /\ UNCHANGED <<targets, asked>>

\* enableNetwork, also when the network is enabled already.
EnableNetwork == EnableNetworkWith(stream, tracker, aggregator)

DisableNetwork ==
  /\ enabled' = "no"
  /\ stream' = Stop(stream)
  /\ aggregator' = "none"
  /\ tracker' = UpdateState("Offline")
  /\ UNCHANGED <<targets, asked>>

\* RestartNetwork: the reachable network has changed, or the user.
RestartNetwork ==
  /\ enabled = "yes"
  /\ EnableNetworkWith(InhibitBackoff(Stop(stream)), UpdateState("Unknown"), "none")

-----------------------------------------------------------------------------
(* Callbacks of credentials, timers and the server.                        *)

\* The stream opens, and OnWatchStreamOpen asks for every target.
ResumeStartWithCredentials ==
  /\ "current" \in stream.tokens
  /\ stream' = Write(Opened(stream))
  /\ asked' = targets
  /\ UNCHANGED <<enabled, targets, aggregator, tracker>>

CredentialsFail ==
  /\ "current" \in stream.tokens
  /\ OnWatchStreamClose(Close(TokenTaken(stream), FALSE))
  /\ UNCHANGED <<enabled, targets, asked>>

\* Credentials of a start that was closed meanwhile.
CredentialsLate ==
  /\ "stale" \in stream.tokens
  /\ stream' = TokenIgnored(stream)
  /\ UNCHANGED <<enabled, targets, asked, aggregator, tracker>>

BackoffElapsed ==
  /\ stream.backoff = "scheduled"
  /\ stream' = Restarted(stream)
  /\ UNCHANGED <<enabled, targets, asked, aggregator, tracker>>

IdleTimeout ==
  /\ stream.idle = "scheduled"
  /\ OnWatchStreamClose(Close(stream, TRUE))
  /\ UNCHANGED <<enabled, targets, asked>>

OnlineStateTimeout ==
  /\ tracker.timer = "scheduled"
  /\ tracker' = [tracker EXCEPT !.timer = "none", !.state = "Offline"]
  /\ UNCHANGED <<enabled, targets, stream, asked, aggregator>>

\* The server, the network or an unreadable message ends the stream.  (The
\* server never ends it with OK: OnWatchStreamClose asserts so.)
OnStreamFinish ==
  /\ IsOpen(stream)
  /\ OnWatchStreamClose(Close(stream, FALSE))
  /\ UNCHANGED <<enabled, targets, asked>>

\* A message has been applied to the targets T that are still listened to, and
\* the sync engine has started and stopped limbo targets in return.
Applied(T) ==
  /\ \E new \in SUBSET (Limbo \ T), old \in SUBSET (Limbo \cap T) :
       targets' = (T \ old) \cup new
  /\ \/ targets' = T /\ asked' = T /\ UNCHANGED stream
     \/ targets' # T /\ Requests(targets')
  /\ tracker' = UpdateState("Online")
  /\ UNCHANGED <<enabled, aggregator>>

OnWatchStreamChange == IsOpen(stream) /\ Applied(targets)

\* The server has removed target q with an error: HandleRejectedListen.
ProcessTargetError(q) ==
  /\ IsOpen(stream) /\ q \in targets
  /\ Applied(targets \ {q})

-----------------------------------------------------------------------------
Timers == BackoffElapsed \/ IdleTimeout \/ OnlineStateTimeout

Call ==
  \/ "stop" \in Calls /\ \E q \in Targets : StopListening(q)
  \/ "enable" \in Calls /\ EnableNetwork

Step ==
  \/ \E q \in Targets : Listen(q) \/ ProcessTargetError(q)
  \/ "disable" \in Calls /\ DisableNetwork
  \/ RestartNetwork
  \/ ResumeStartWithCredentials \/ CredentialsFail \/ CredentialsLate
  \/ Timers
  \/ OnStreamFinish \/ OnWatchStreamChange

\* The tracker is decided, or will be when its timer fires.
Timed == tracker.state # "Unknown" \/ tracker.timer = "scheduled" \/ ~IsStarted(stream)

Next ==
  \/ Step /\ untimed' = IF Timed' THEN "no" ELSE untimed
  \/ Call /\ untimed' = IF Timed' THEN "no" ELSE "yes"

Spec == Init /\ [][Next]_vars

\* The worker queue runs the tracker's timer unless it is cancelled.  Nothing is
\* assumed of the credentials, the network, the server or the application.
FairSpec ==
  Spec /\ WF_vars(OnlineStateTimeout /\ untimed' = IF Timed' THEN "no" ELSE untimed)

-----------------------------------------------------------------------------
(* Properties.                                                             *)

\* No listener is stranded: with the network enabled and something to listen
\* to, the stream is open, about to open or waiting to retry, and its messages
\* find an aggregator, whatever failed, was stopped or was restarted before.
NeededIsStarted ==
  /\ enabled = "yes" /\ targets # {} => IsStarted(stream)
  /\ IsStarted(stream) => aggregator = "live" /\ enabled = "yes"

\* On an open stream the server is asked for exactly the targets listened to,
\* those that came and went during the reconnection included.
AskedForTargets == IsOpen(stream) => asked = targets

\* The idle timer never stops a stream that is needed (the assertion in
\* OnWatchStreamClose): it runs only while nothing is listened to.
IdleOnlyUnused == stream.idle = "scheduled" => IsOpen(stream) /\ targets = {}

\* Credentials and timers find the stream in the state they assert.
CallbacksFindTheirState == CallbacksFindState(stream)

\* The assertions of the tracker: its timer runs only in Unknown and during an
\* attempt, Online has forgotten all failures, a failure count means Offline or
\* an attempt that still goes on.
TrackerConsistent ==
  /\ tracker.timer = "scheduled" => tracker.state = "Unknown" /\ IsStarted(stream)
  /\ tracker.state = "Online" => tracker.failures = 0
  /\ tracker.failures = MaxFailures => tracker.state = "Offline"

\* No assertion of RemoteStore, Stream or OnlineStateTracker fails, whichever of
\* their callbacks come late.
AssertionsHold ==
  TypeOK /\ IdleOnlyUnused /\ CallbacksFindTheirState /\ TrackerConsistent

\* What kOnlineStateTimeout promises: a listener does not wait indefinitely in
\* Unknown, which is when get() and first snapshots are held back.  That holds
\* unless the application stops its last listener, or enables an enabled network,
\* during an attempt: both cancel the timer, and nothing starts it again.
OnlineStateDecided ==
  tracker.state = "Unknown" /\ targets # {} /\ enabled = "yes" /\ untimed = "no"
    ~> tracker.state # "Unknown" \/ targets = {} \/ enabled = "no" \/ untimed = "yes"

\* What ends an attempt, one way or the other.
AttemptEnds ==
  \/ OnStreamFinish \/ CredentialsFail \/ IdleTimeout
  \/ DisableNetwork \/ RestartNetwork
  \/ OnWatchStreamChange \/ \E q \in Targets : ProcessTargetError(q)

\* A listener whose timer was cancelled like this waits for no more than the
\* attempt under way: its end, by an error of the credentials or of the stream,
\* by a change of the network or by a first message, decides the tracker, starts
\* its timer, or counts one more of the failures that are allowed.
StallEndsWithAttempt ==
  [][untimed = "yes" /\ AttemptEnds =>
       \/ untimed' = "no"
       \/ tracker.failures < tracker'.failures /\ tracker'.failures < MaxFailures]_vars

-----------------------------------------------------------------------------
(* The inductive invariants behind the theorems of WatchConnectionProofs.   *)

IInv == NeededIsStarted /\ AskedForTargets /\ AssertionsHold

\* The auxiliary variable says what it is for.
StalledIsUntimed == untimed = "yes" => ~Timed

=============================================================================
