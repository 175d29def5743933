---------------------------- MODULE ClientStream ----------------------------
(***************************************************************************)
(* The state machine that the watch stream and the write stream of the     *)
(* Firestore client share, as functions from one state of a stream to the  *)
(* next.  A stream asks for credentials, opens, is closed by an error or   *)
(* on purpose, and waits before the next attempt after an error.           *)
(***************************************************************************)

StreamState ==
  [state : {"Initial", "Starting", "Open", "Error", "Backoff"},
   tokens : SUBSET {"current", "stale"},  \* GetToken calls that have not called
                                          \* back: since or before the last close
   backoff : {"none", "scheduled"},       \* the timers
   idle : {"none", "scheduled"}]

NewStream == [state |-> "Initial", tokens |-> {}, backoff |-> "none", idle |-> "none"]

IsOpen(s) == s.state = "Open"
IsStarted(s) == s.state \in {"Starting", "Backoff", "Open"}

\* Start: after an error the stream first waits; else it asks for credentials.
Start(s) ==
  IF s.state = "Error" THEN [s EXCEPT !.state = "Backoff", !.backoff = "scheduled"]
  ELSE [s EXCEPT !.state = "Starting", !.tokens = @ \cup {"current"}]

\* Close that does not count.
CloseUncounted(s, graceful) ==
  [s EXCEPT !.state = IF graceful THEN "Initial" ELSE "Error",
            !.backoff = "none", !.idle = "none"]

\* Close cancels the timers and raises close_count_, so that credentials asked
\* for until now are ignored when they come.
Close(s, graceful) ==
  [state |-> IF graceful THEN "Initial" ELSE "Error",
   tokens |-> IF s.tokens = {} THEN {} ELSE {"stale"},
   backoff |-> "none", idle |-> "none"]

Stop(s) == IF IsStarted(s) THEN Close(s, TRUE) ELSE s

\* InhibitBackoff: a stopped stream forgets its error.
InhibitBackoff(s) == [s EXCEPT !.state = "Initial"]

\* Credentials have come, of which only those that count matter: GrpcStream's
\* Start opens the stream without waiting for the server.
TokenTaken(s) == [s EXCEPT !.tokens = @ \ {"current"}]
TokenIgnored(s) == [s EXCEPT !.tokens = @ \ {"stale"}]
Opened(s) == [TokenTaken(s) EXCEPT !.state = "Open"]

\* The backoff timer starts the stream afresh.
Restarted(s) == Start([s EXCEPT !.state = "Initial", !.backoff = "none"])

\* Write cancels the idle timer, which MarkIdle starts on an open stream.
Write(s) == [s EXCEPT !.idle = "none"]
MarkIdle(s) == IF IsOpen(s) THEN [s EXCEPT !.idle = "scheduled"] ELSE s

\* Callbacks meet the state they assert: credentials that count find the stream
\* starting, the backoff timer finds it in backoff, the idle timer finds it open
\* (ResumeStartWithCredentials, BackoffAndTryRestarting, Close).
CallbacksFindState(s) ==
  /\ "current" \in s.tokens <=> s.state = "Starting"
  /\ s.backoff = "scheduled" <=> s.state = "Backoff"
  /\ s.idle = "scheduled" => s.state = "Open"

=============================================================================
