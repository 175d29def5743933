----------------------- MODULE WatchConnectionProofs -----------------------
(***************************************************************************)
(* Proofs about WatchConnection for every set of queries and limbo         *)
(* targets, every limit of failures and every use of the client.           *)
(***************************************************************************)
EXTENDS WatchConnection, ClientStreamProofs

-----------------------------------------------------------------------------
(* The tracker: what its state and its timer may be while the stream is     *)
(* started, or is about to be.                                             *)

TrackerSound(t) ==
  /\ t \in TrackerState
  /\ t.timer = "scheduled" => t.state = "Unknown"
  /\ t.state = "Online" => t.failures = 0
  /\ t.failures = MaxFailures => t.state = "Offline"

LEMMA UpdateStateSound ==
  ASSUME NEW s \in {"Unknown", "Online", "Offline"}
  PROVE  TrackerSound(UpdateState(s)) /\ UpdateState(s).timer = "none"
  BY WatchAssumption DEF TrackerSound, TrackerState, UpdateState

LEMMA WatchStreamStartSound ==
  ASSUME NEW t, TrackerSound(t)
  PROVE  TrackerSound(HandleWatchStreamStart(t))
  BY WatchAssumption DEF TrackerSound, TrackerState, HandleWatchStreamStart

LEMMA WatchStreamFailureSound ==
  ASSUME NEW t, TrackerSound(t)
  PROVE  TrackerSound(HandleWatchStreamFailure(t))
  BY WatchAssumption DEF TrackerSound, TrackerState, HandleWatchStreamFailure

-----------------------------------------------------------------------------
(* The invariant in terms of the two.                                      *)

LEMMA IInvParts ==
  IInv <=>
    /\ enabled \in {"yes", "no"} /\ targets \subseteq Targets /\ asked \subseteq Targets
    /\ aggregator \in {"none", "live"} /\ untimed \in {"yes", "no"}
    /\ Sound(stream) /\ TrackerSound(tracker)
    /\ tracker.timer = "scheduled" => IsStarted(stream)
    /\ NeededIsStarted /\ AskedForTargets /\ IdleOnlyUnused
  BY DEF IInv, AssertionsHold, TypeOK, CallbacksFindTheirState, TrackerConsistent,
         Sound, TrackerSound

LEMMA IInvPartsNext ==
  IInv' <=>
    /\ enabled' \in {"yes", "no"} /\ targets' \subseteq Targets /\ asked' \subseteq Targets
    /\ aggregator' \in {"none", "live"} /\ untimed' \in {"yes", "no"}
    /\ Sound(stream') /\ TrackerSound(tracker')
    /\ tracker'.timer = "scheduled" => IsStarted(stream')
    /\ NeededIsStarted' /\ AskedForTargets' /\ IdleOnlyUnused'
  BY DEF IInv, AssertionsHold, TypeOK, CallbacksFindTheirState, TrackerConsistent,
         Sound, TrackerSound

-----------------------------------------------------------------------------
(* What a handler may leave behind: a stream that was just started, one     *)
(* that stays closed, or an open one that was sent its requests.           *)

LEMMA InitIInv == Init => IInv
  <1> SUFFICES ASSUME Init PROVE IInv
    OBVIOUS
  <1>1. Sound(stream) /\ ~IsStarted(stream) /\ ~IsOpen(stream) /\ stream.idle = "none"
    BY DEF Init, NewStream, Sound, StreamState, CallbacksFindState, IsStarted, IsOpen
  <1>2. TrackerSound(tracker) /\ tracker.timer = "none"
    BY UpdateStateSound DEF Init
  <1> QED
    BY <1>1, <1>2, IInvParts DEF Init, NeededIsStarted, AskedForTargets, IdleOnlyUnused

\* A started stream needs the network, and finds the aggregator it is given.
LEMMA AfterStart ==
  ASSUME NEW s, NEW t, Sound(s), ~IsStarted(s), TrackerSound(t),
         StartWatchStream(s, t), enabled' = "yes",
         targets' \subseteq Targets, asked' \subseteq Targets, untimed' \in {"yes", "no"}
  PROVE  IInv'
  <1>1. Sound(stream') /\ IsStarted(stream') /\ ~IsOpen(stream') /\ stream'.idle = "none"
    BY StartSound DEF StartWatchStream
  <1>2. TrackerSound(tracker') /\ aggregator' = "live"
    BY WatchStreamStartSound DEF StartWatchStream
  <1> QED
    BY <1>1, <1>2, IInvPartsNext DEF NeededIsStarted, AskedForTargets, IdleOnlyUnused

\* A closed stream is in order while nothing needs it.
LEMMA AfterClose ==
  ASSUME Sound(stream'), ~IsStarted(stream'), stream'.idle = "none",
         TrackerSound(tracker'), tracker'.timer = "none", aggregator' = "none",
         enabled' \in {"yes", "no"}, targets' = {} \/ enabled' = "no",
         targets' \subseteq Targets, asked' \subseteq Targets, untimed' \in {"yes", "no"}
  PROVE  IInv'
  <1>1. ~IsOpen(stream')
    BY DEF IsOpen, IsStarted
  <1> QED
    BY <1>1, IInvPartsNext DEF NeededIsStarted, AskedForTargets, IdleOnlyUnused

\* Requests mark the stream idle exactly when nothing is listened to any more.
LEMMA AfterRequests ==
  ASSUME IInv, IsOpen(stream), NEW T, Requests(T), T \subseteq Targets, targets' = T,
         TrackerSound(tracker'), UNCHANGED <<enabled, aggregator>>,
         untimed' \in {"yes", "no"}
  PROVE  IInv'
  <1>1. Sound(Write(stream)) /\ IsOpen(Write(stream)) /\ Write(stream).idle = "none"
    BY WriteSound, IInvParts DEF IsOpen
  <1>2. Sound(stream') /\ IsOpen(stream') /\ (stream'.idle = "none" \/ T = {})
    BY <1>1, MarkIdleSound DEF Requests
  <1>3. IsStarted(stream') /\ enabled' = "yes" /\ aggregator' = "live"
    BY <1>2, IInvParts DEF NeededIsStarted, IsStarted, IsOpen
  <1> QED
    BY <1>2, <1>3, IInvParts, IInvPartsNext DEF Requests, NeededIsStarted, AskedForTargets, IdleOnlyUnused

-----------------------------------------------------------------------------
(* Every handler preserves the invariant.                                  *)

LEMMA ListenStep ==
  ASSUME IInv, NEW q \in Targets, Listen(q), untimed' \in {"yes", "no"}
  PROVE  IInv'
  <1>1. targets' = targets \cup {q} /\ targets' \subseteq Targets /\ UNCHANGED enabled
    BY IInvParts DEF Listen
  <1>2. CASE ShouldStartWatchStream(stream, targets') /\ StartWatchStream(stream, tracker) /\ UNCHANGED asked
    BY <1>1, <1>2, IInvParts, AfterStart DEF ShouldStartWatchStream
  <1>3. CASE IsOpen(stream) /\ Requests(targets') /\ UNCHANGED <<tracker, aggregator>>
    BY <1>1, <1>3, IInvParts, AfterRequests
  <1>4. CASE /\ ~IsOpen(stream) /\ ~ShouldStartWatchStream(stream, targets')
             /\ UNCHANGED <<stream, asked, tracker, aggregator>>
    BY <1>1, <1>4, IInvParts, IInvPartsNext
       DEF ShouldStartWatchStream, NeededIsStarted, AskedForTargets, IdleOnlyUnused, Sound, CallbacksFindState, IsOpen
  <1> QED
    BY <1>2, <1>3, <1>4 DEF Listen

LEMMA StopListeningStep ==
  ASSUME IInv, NEW q \in Targets, StopListening(q), untimed' \in {"yes", "no"}
  PROVE  IInv'
  <1>1. targets' \subseteq targets /\ targets' \subseteq Targets /\ UNCHANGED <<enabled, aggregator>>
    BY IInvParts DEF StopListening
  <1>2. CASE IsOpen(stream) /\ Requests(targets') /\ UNCHANGED tracker
    BY <1>1, <1>2, IInvParts, AfterRequests
  <1>3. CASE ~IsOpen(stream) /\ UNCHANGED <<stream, asked>>
             /\ (tracker' = UpdateState("Unknown") \/ UNCHANGED tracker)
    <2>1. TrackerSound(tracker') /\ (tracker'.timer = "scheduled" => IsStarted(stream'))
      BY <1>3, IInvParts, UpdateStateSound
    <2> QED
      BY <1>1, <1>3, <2>1, IInvParts, IInvPartsNext
         DEF NeededIsStarted, AskedForTargets, IdleOnlyUnused
  <1> QED
    BY <1>2, <1>3 DEF StopListening

\* The stream that closes was started, so that the network is enabled.
LEMMA OnWatchStreamCloseStep ==
  ASSUME IInv, IsStarted(stream), NEW s, Sound(s), ~IsStarted(s), s.idle = "none",
         OnWatchStreamClose(s), UNCHANGED <<enabled, targets, asked>>,
         untimed' \in {"yes", "no"}
  PROVE  IInv'
  <1>1. enabled' = "yes" /\ targets' \subseteq Targets /\ asked' \subseteq Targets
    BY IInvParts DEF NeededIsStarted
  <1>2. CASE StartWatchStream(s, HandleWatchStreamFailure(tracker))
    BY <1>1, <1>2, IInvParts, WatchStreamFailureSound, AfterStart
  <1>3. CASE /\ ~ShouldStartWatchStream(s, targets) /\ stream' = s
             /\ tracker' = UpdateState("Unknown") /\ aggregator' = "none"
    <2>1. targets' = {}
      BY <1>1, <1>3 DEF ShouldStartWatchStream
    <2> QED
      BY <1>1, <1>3, <2>1, UpdateStateSound, AfterClose
  <1> QED
    BY <1>2, <1>3 DEF OnWatchStreamClose

LEMMA EnableNetworkStep ==
  ASSUME IInv, EnableNetwork, untimed' \in {"yes", "no"}
  PROVE  IInv'
  <1>1. enabled' = "yes" /\ UNCHANGED <<targets, asked>>
    BY DEF EnableNetwork, EnableNetworkWith
  <1>2. CASE ~IsStarted(stream) /\ StartWatchStream(stream, tracker)
    BY <1>1, <1>2, IInvParts, AfterStart
  <1>3. CASE /\ IsStarted(stream) \/ targets = {}
             /\ stream' = stream /\ tracker' = UpdateState("Unknown") /\ aggregator' = aggregator
    BY <1>1, <1>3, IInvParts, IInvPartsNext, UpdateStateSound
       DEF NeededIsStarted, AskedForTargets, IdleOnlyUnused
  <1> QED
    BY <1>2, <1>3 DEF EnableNetwork, EnableNetworkWith

LEMMA DisableNetworkStep ==
  ASSUME IInv, DisableNetwork, untimed' \in {"yes", "no"}
  PROVE  IInv'
  BY IInvParts, StopSound, UpdateStateSound, AfterClose DEF DisableNetwork

LEMMA RestartNetworkStep ==
  ASSUME IInv, RestartNetwork, untimed' \in {"yes", "no"}
  PROVE  IInv'
  <1> DEFINE s == InhibitBackoff(Stop(stream))
  <1>1. Sound(s) /\ ~IsStarted(s) /\ s.idle = "none"
    BY IInvParts, StopSound, InhibitBackoffSound
  <1>2. EnableNetworkWith(s, UpdateState("Unknown"), "none")
    BY DEF RestartNetwork
  <1> HIDE DEF s
  <1>3. enabled' = "yes" /\ UNCHANGED <<targets, asked>>
    BY <1>2 DEF EnableNetworkWith
  <1>4. CASE StartWatchStream(s, UpdateState("Unknown"))
    BY <1>1, <1>3, <1>4, IInvParts, UpdateStateSound, AfterStart
  <1>5. CASE targets = {} /\ stream' = s /\ tracker' = UpdateState("Unknown") /\ aggregator' = "none"
    BY <1>1, <1>3, <1>5, IInvParts, UpdateStateSound, AfterClose
  <1> QED
    BY <1>1, <1>2, <1>4, <1>5 DEF EnableNetworkWith

LEMMA ResumeStartWithCredentialsStep ==
  ASSUME IInv, ResumeStartWithCredentials, untimed' \in {"yes", "no"}
  PROVE  IInv'
  <1>1. Sound(Opened(stream)) /\ IsStarted(stream) /\ IsOpen(Opened(stream))
    BY IInvParts, OpenedSound DEF ResumeStartWithCredentials
  <1>2. Sound(stream') /\ IsOpen(stream') /\ IsStarted(stream') /\ stream'.idle = "none"
    BY <1>1, WriteSound DEF ResumeStartWithCredentials, IsOpen, IsStarted
  <1> QED
    BY <1>1, <1>2, IInvParts, IInvPartsNext
       DEF ResumeStartWithCredentials, NeededIsStarted, AskedForTargets, IdleOnlyUnused

LEMMA CredentialsFailStep ==
  ASSUME IInv, CredentialsFail, untimed' \in {"yes", "no"}
  PROVE  IInv'
  <1>1. stream \in StreamState /\ IsStarted(stream)
    BY IInvParts DEF CredentialsFail, Sound, CallbacksFindState, IsStarted
  <1> QED
    BY <1>1, TokenTakenSound, OnWatchStreamCloseStep DEF CredentialsFail

LEMMA CredentialsLateStep ==
  ASSUME IInv, CredentialsLate, untimed' \in {"yes", "no"}
  PROVE  IInv'
  BY IInvParts, IInvPartsNext, TokenIgnoredSound
     DEF CredentialsLate, NeededIsStarted, AskedForTargets, IdleOnlyUnused, IsStarted, IsOpen

LEMMA BackoffElapsedStep ==
  ASSUME IInv, BackoffElapsed, untimed' \in {"yes", "no"}
  PROVE  IInv'
  BY IInvParts, IInvPartsNext, RestartedSound
     DEF BackoffElapsed, NeededIsStarted, AskedForTargets, IdleOnlyUnused

LEMMA IdleTimeoutStep ==
  ASSUME IInv, IdleTimeout, untimed' \in {"yes", "no"}
  PROVE  IInv'
  <1>1. Sound(stream) /\ IsStarted(stream)
    BY IInvParts DEF IdleTimeout, IdleOnlyUnused, IsOpen, IsStarted
  <1> QED
    BY <1>1, CloseSound, OnWatchStreamCloseStep DEF IdleTimeout

LEMMA OnlineStateTimeoutStep ==
  ASSUME IInv, OnlineStateTimeout, untimed' \in {"yes", "no"}
  PROVE  IInv'
  <1>1. TrackerSound(tracker') /\ tracker'.timer = "none"
    BY IInvParts DEF OnlineStateTimeout, TrackerSound, TrackerState
  <1> QED
    BY <1>1, IInvParts, IInvPartsNext
       DEF OnlineStateTimeout, NeededIsStarted, AskedForTargets, IdleOnlyUnused

LEMMA OnStreamFinishStep ==
  ASSUME IInv, OnStreamFinish, untimed' \in {"yes", "no"}
  PROVE  IInv'
  <1>1. Sound(stream) /\ IsStarted(stream)
    BY IInvParts DEF OnStreamFinish, IsOpen, IsStarted
  <1> QED
    BY <1>1, CloseSound, OnWatchStreamCloseStep DEF OnStreamFinish

\* A message came on an open stream, from which targets may have come and gone.
LEMMA AppliedStep ==
  ASSUME IInv, IsOpen(stream), NEW T \in SUBSET targets, Applied(T), untimed' \in {"yes", "no"}
  PROVE  IInv'
  <1>1. TrackerSound(tracker') /\ tracker'.timer = "none" /\ UNCHANGED <<enabled, aggregator>>
    BY UpdateStateSound DEF Applied
  <1>2. targets' \subseteq Targets
    BY IInvParts DEF Applied, Targets
  <1>3. CASE targets' = T /\ asked' = T /\ UNCHANGED stream
    BY <1>1, <1>2, <1>3, IInvParts, IInvPartsNext
       DEF NeededIsStarted, AskedForTargets, IdleOnlyUnused, IsOpen, IsStarted
  <1>4. CASE Requests(targets')
    BY <1>1, <1>2, <1>4, AfterRequests
  <1> QED
    BY <1>3, <1>4 DEF Applied

-----------------------------------------------------------------------------
LEMMA StutterStep == ASSUME IInv, UNCHANGED vars PROVE IInv'
  BY IInvParts, IInvPartsNext DEF vars, NeededIsStarted, AskedForTargets, IdleOnlyUnused, IsStarted, IsOpen

LEMMA NextIInv == IInv /\ [Next]_vars => IInv'
  <1> SUFFICES ASSUME IInv, [Next]_vars PROVE IInv'
    OBVIOUS
  <1>1. CASE UNCHANGED vars
    BY <1>1, StutterStep
  <1>2. ASSUME Next PROVE untimed' \in {"yes", "no"}
    BY <1>2, IInvParts DEF Next
  <1>3. CASE Step /\ Next
    BY <1>2, <1>3, ListenStep, DisableNetworkStep, RestartNetworkStep,
       ResumeStartWithCredentialsStep, CredentialsFailStep, CredentialsLateStep,
       BackoffElapsedStep, IdleTimeoutStep, OnlineStateTimeoutStep, OnStreamFinishStep,
       AppliedStep
       DEF Step, Timers, OnWatchStreamChange, ProcessTargetError
  <1>4. CASE Call /\ Next
    BY <1>2, <1>4, StopListeningStep, EnableNetworkStep DEF Call
  <1> QED
    BY <1>1, <1>3, <1>4 DEF Next

-----------------------------------------------------------------------------
\* IInv holds in every reachable state: the properties below, together with what
\* the handlers rely on between them.
THEOREM Invariance == Spec => []IInv
  BY InitIInv, NextIInv, PTL DEF Spec

\* RemoteStore never leaves listeners without a watch stream that is open, opening
\* or about to retry, and never a started stream without an aggregator.
THEOREM NeverStranded == Spec => []NeededIsStarted
  <1>1. IInv => NeededIsStarted
    BY DEF IInv
  <1> QED
    BY <1>1, Invariance, PTL

\* While the stream is open the server watches exactly the listen targets.
THEOREM ServerIsAsked == Spec => []AskedForTargets
  <1>1. IInv => AskedForTargets
    BY DEF IInv
  <1> QED
    BY <1>1, Invariance, PTL

\* No callback of credentials, of a timer or of the server finds RemoteStore, the
\* stream or the tracker in a state that their assertions exclude.
THEOREM NoAssertionFails == Spec => []AssertionsHold
  <1>1. IInv => AssertionsHold
    BY DEF IInv
  <1> QED
    BY <1>1, Invariance, PTL

-----------------------------------------------------------------------------
(* Listeners without a timer: how long they may be.                        *)

LEMMA StalledInvariance == Spec => []StalledIsUntimed
  <1>1. Init => StalledIsUntimed
    BY DEF Init, StalledIsUntimed
  <1>2. StalledIsUntimed /\ [Next]_vars => StalledIsUntimed'
    <2>1. ASSUME Next PROVE StalledIsUntimed'
      BY <2>1 DEF Next, StalledIsUntimed
    <2>2. ASSUME StalledIsUntimed, UNCHANGED vars PROVE StalledIsUntimed'
      BY <2>2 DEF vars, StalledIsUntimed, Timed, IsStarted
    <2> QED
      BY <2>1, <2>2
  <1> QED
    BY <1>1, <1>2, PTL DEF Spec

\* A failure in Unknown means Offline, or is one of those that are allowed, which
\* a new attempt does not forget.
LEMMA FailureDecides ==
  ASSUME NEW t, TrackerSound(t), t.state = "Unknown", NEW u,
         u = HandleWatchStreamStart(HandleWatchStreamFailure(t))
  PROVE  u.state = "Offline" \/ (t.failures < u.failures /\ u.failures < MaxFailures)
  <1> DEFINE f == HandleWatchStreamFailure(t)
  <1>1. t.failures \in Nat /\ MaxFailures \in Nat \ {0} /\ t \in TrackerState
    BY WatchAssumption DEF TrackerSound, TrackerState
  <1>2. CASE t.failures + 1 >= MaxFailures
    <2>1. f.state = "Offline" /\ f.failures # 0
      BY <1>1, <1>2 DEF HandleWatchStreamFailure
    <2> QED
      BY <2>1 DEF HandleWatchStreamStart
  <1>3. CASE ~ t.failures + 1 >= MaxFailures
    <2>1. f.failures = t.failures + 1
      BY <1>1, <1>3 DEF HandleWatchStreamFailure, TrackerState
    <2>2. u = f
      BY <1>1, <2>1 DEF HandleWatchStreamStart
    <2> QED
      BY <1>1, <1>3, <2>1, <2>2
  <1> QED
    BY <1>2, <1>3

Moves == \/ Timed'
         \/ tracker.failures < tracker'.failures /\ tracker'.failures < MaxFailures

LEMMA CloseMoves ==
  ASSUME IInv, ~Timed, NEW s, ~IsStarted(s), OnWatchStreamClose(s)
  PROVE  Moves
  <1>1. TrackerSound(tracker) /\ tracker.state = "Unknown"
    BY IInvParts DEF Timed
  <1>2. CASE StartWatchStream(s, HandleWatchStreamFailure(tracker))
    BY <1>1, <1>2, FailureDecides DEF StartWatchStream, Moves, Timed
  <1>3. CASE stream' = s
    BY <1>3 DEF Moves, Timed
  <1> QED
    BY <1>2, <1>3 DEF OnWatchStreamClose

LEMMA EndsMove ==
  ASSUME IInv, ~Timed, AttemptEnds
  PROVE  Moves
  <1>1. Sound(stream) /\ stream \in StreamState
    BY IInvParts DEF Sound
  <1>2. CASE OnStreamFinish \/ IdleTimeout
    <2>1. \A g \in BOOLEAN : ~IsStarted(Close(stream, g))
      BY DEF Close, IsStarted
    <2> QED
      BY <1>2, <2>1, CloseMoves DEF OnStreamFinish, IdleTimeout
  <1>3. CASE CredentialsFail
    <2>1. ~IsStarted(Close(TokenTaken(stream), FALSE))
      BY DEF Close, IsStarted
    <2> QED
      BY <1>3, <2>1, CloseMoves DEF CredentialsFail
  <1>4. CASE DisableNetwork
    BY <1>4 DEF DisableNetwork, UpdateState, Moves, Timed
  <1>5. CASE RestartNetwork
    <2> DEFINE s == InhibitBackoff(Stop(stream))
    <2>1. ~IsStarted(s)
      BY <1>1, StopSound, InhibitBackoffSound
    <2>2. EnableNetworkWith(s, UpdateState("Unknown"), "none")
      BY <1>5 DEF RestartNetwork
    <2> HIDE DEF s
    <2>3. CASE StartWatchStream(s, UpdateState("Unknown"))
      BY <2>3 DEF StartWatchStream, HandleWatchStreamStart, UpdateState, Moves, Timed
    <2>4. CASE stream' = s
      BY <2>1, <2>4 DEF Moves, Timed
    <2> QED
      BY <2>2, <2>3, <2>4 DEF EnableNetworkWith
  <1>6. CASE OnWatchStreamChange \/ \E q \in Targets : ProcessTargetError(q)
    BY <1>6 DEF OnWatchStreamChange, ProcessTargetError, Applied, UpdateState, Moves, Timed
  <1> QED
    BY <1>2, <1>3, <1>4, <1>5, <1>6 DEF AttemptEnds

\* A listener whose timer the application has cancelled is without one only until
\* the attempt under way ends, or its allowed failures are used up.
THEOREM StallsEnd == Spec => StallEndsWithAttempt
  <1> DEFINE A == untimed = "yes" /\ AttemptEnds =>
                    \/ untimed' = "no"
                    \/ tracker.failures < tracker'.failures /\ tracker'.failures < MaxFailures
  <1>1. ASSUME IInv, StalledIsUntimed, Next PROVE A
    <2> SUFFICES ASSUME untimed = "yes", AttemptEnds,
                        ~ (tracker.failures < tracker'.failures /\ tracker'.failures < MaxFailures)
                 PROVE  untimed' = "no"
      OBVIOUS
    <2>1. Timed'
      BY <1>1, EndsMove DEF StalledIsUntimed, Moves
    <2> QED
      BY <1>1, <2>1 DEF Next
  <1>2. IInv /\ StalledIsUntimed /\ [Next]_vars => [A]_vars
    BY <1>1
  <1> QED
    BY <1>2, Invariance, StalledInvariance, PTL DEF Spec, StallEndsWithAttempt

=============================================================================
