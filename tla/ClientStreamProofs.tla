------------------------- MODULE ClientStreamProofs -------------------------
(***************************************************************************)
(* What the operators of ClientStream do to any stream whose callbacks     *)
(* find the state they assert: the lemmas that the proofs about the watch  *)
(* stream and the write stream share.                                      *)
(***************************************************************************)
EXTENDS ClientStream, TLAPS

\* A stream of which no callback fails its assertion.
Sound(s) == s \in StreamState /\ CallbacksFindState(s)

\* A stream that is not started has no timer, so that Start may set one.
LEMMA StartSound ==
  ASSUME NEW s, Sound(s), ~IsStarted(s)
  PROVE  Sound(Start(s)) /\ IsStarted(Start(s)) /\ ~IsOpen(Start(s))
         /\ Start(s).idle = "none"
  BY DEF Sound, StreamState, CallbacksFindState, Start, IsStarted, IsOpen

LEMMA CloseSound ==
  ASSUME NEW s, Sound(s), NEW graceful \in BOOLEAN
  PROVE  Sound(Close(s, graceful)) /\ ~IsStarted(Close(s, graceful))
         /\ Close(s, graceful).idle = "none"
  BY DEF Sound, StreamState, CallbacksFindState, Close, IsStarted

LEMMA StopSound ==
  ASSUME NEW s, Sound(s)
  PROVE  Sound(Stop(s)) /\ ~IsStarted(Stop(s)) /\ Stop(s).idle = "none"
  BY CloseSound DEF Sound, StreamState, CallbacksFindState, Stop, IsStarted

LEMMA InhibitBackoffSound ==
  ASSUME NEW s, Sound(s), ~IsStarted(s)
  PROVE  Sound(InhibitBackoff(s)) /\ ~IsStarted(InhibitBackoff(s))
         /\ InhibitBackoff(s).idle = s.idle
  BY DEF Sound, StreamState, CallbacksFindState, InhibitBackoff, IsStarted

LEMMA RestartedSound ==
  ASSUME NEW s, Sound(s), s.backoff = "scheduled"
  PROVE  Sound(Restarted(s)) /\ IsStarted(s) /\ ~IsOpen(s) /\ IsStarted(Restarted(s))
         /\ ~IsOpen(Restarted(s)) /\ Restarted(s).idle = "none"
  BY DEF Sound, StreamState, CallbacksFindState, Restarted, Start, IsStarted, IsOpen

LEMMA OpenedSound ==
  ASSUME NEW s, Sound(s), "current" \in s.tokens
  PROVE  Sound(Opened(s)) /\ IsStarted(s) /\ ~IsOpen(s) /\ IsOpen(Opened(s))
         /\ Opened(s).idle = "none"
  BY DEF Sound, StreamState, CallbacksFindState, Opened, TokenTaken, IsStarted, IsOpen

LEMMA TokenIgnoredSound ==
  ASSUME NEW s, Sound(s)
  PROVE  Sound(TokenIgnored(s)) /\ TokenIgnored(s).state = s.state
         /\ TokenIgnored(s).idle = s.idle
  BY DEF Sound, StreamState, CallbacksFindState, TokenIgnored

LEMMA WriteSound ==
  ASSUME NEW s, Sound(s)
  PROVE  Sound(Write(s)) /\ Write(s).state = s.state /\ Write(s).idle = "none"
  BY DEF Sound, StreamState, CallbacksFindState, Write

LEMMA MarkIdleSound ==
  ASSUME NEW s, Sound(s), IsOpen(s)
  PROVE  Sound(MarkIdle(s)) /\ IsOpen(MarkIdle(s))
  BY DEF Sound, StreamState, CallbacksFindState, MarkIdle, IsOpen

\* CredentialsFail closes a stream that has just taken its credentials.
LEMMA TokenTakenSound ==
  ASSUME NEW s, s \in StreamState, NEW graceful \in BOOLEAN
  PROVE  Sound(Close(TokenTaken(s), graceful)) /\ ~IsStarted(Close(TokenTaken(s), graceful))
         /\ Close(TokenTaken(s), graceful).idle = "none"
  BY DEF Sound, StreamState, CallbacksFindState, TokenTaken, Close, IsStarted

=============================================================================
