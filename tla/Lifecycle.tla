----------------------------- MODULE Lifecycle ------------------------------
(***************************************************************************)
(* The end of a serving process: Server.Serve of internal/server/server.go *)
(* and the deferred close of the database in apps/server/main.go.          *)
(*                                                                         *)
(* The main goroutine, the goroutine that accepts connections and the      *)
(* handlers of requests run concurrently; a signal, an error of the        *)
(* listener and the end of the grace period come at any time.  Handlers    *)
(* run in contexts of their own, which a signal does not cancel, and may   *)
(* take any time.                                                          *)
(***************************************************************************)
EXTENDS Naturals, FiniteSets

CONSTANTS
  Requests,   \* requests that clients may send
  None        \* absent

ASSUME LifecycleAssumption == None \notin {"nil", "error", "shutting down"}

VARIABLES
  main,       \* where the main goroutine is
  listener,   \* "open", "failed" or "closed"
  serveErr,   \* the channel from the accepting goroutine
  sent,       \* what it has sent, taken out or not
  signalled,  \* SIGINT or SIGTERM has arrived
  grace,      \* the grace period has ended
  dbOpen,     \* the database handle is open
  req,        \* how far each request has come
  result      \* what Serve, and so the process, returns

vars == <<main, listener, serveErr, sent, signalled, grace, dbOpen, req, result>>

MainStates == {"select", "shutdown", "drain", "return", "exiting", "exited"}
ReqStates == {"new", "running", "answered", "denied", "cut"}

InFlight == {r \in Requests : req[r] = "running"}

-----------------------------------------------------------------------------
(* Requests.                                                               *)

\* A request comes on a new connection, or on one that was kept alive: these
\* are closed by the shutdown as soon as it finds them idle.
Arrive(r) ==
  /\ req[r] = "new"
  /\ main \in {"select", "shutdown"}
  /\ req' = [req EXCEPT ![r] = "running"]
  /\ UNCHANGED <<main, listener, serveErr, sent, signalled, grace, dbOpen, result>>

\* A handler uses the database after it was closed, and can only fail.
MeetClosedDatabase(r) ==
  /\ req[r] = "running"
  /\ ~dbOpen /\ main # "exited"
  /\ req' = [req EXCEPT ![r] = "denied"]
  /\ UNCHANGED <<main, listener, serveErr, sent, signalled, grace, dbOpen, result>>

Answer(r) ==
  /\ req[r] = "running"
  /\ main # "exited"
  /\ req' = [req EXCEPT ![r] = "answered"]
  /\ UNCHANGED <<main, listener, serveErr, sent, signalled, grace, dbOpen, result>>

-----------------------------------------------------------------------------
(* The environment.                                                        *)

Signal ==
  /\ ~signalled
  /\ signalled' = TRUE
  /\ UNCHANGED <<main, listener, serveErr, sent, grace, dbOpen, req, result>>

\* Accept fails for good.
ListenerFails ==
  /\ listener = "open"
  /\ listener' = "failed"
  /\ UNCHANGED <<main, serveErr, sent, signalled, grace, dbOpen, req, result>>

\* shutdownCtx is done.
GraceEnds ==
  /\ main = "shutdown"
  /\ ~grace
  /\ grace' = TRUE
  /\ UNCHANGED <<main, listener, serveErr, sent, signalled, dbOpen, req, result>>

-----------------------------------------------------------------------------
(* The accepting goroutine: http.Server.Serve returns, with ErrServerClosed *)
(* if the server is being shut down, and the result goes into the channel. *)

ShuttingDown == main # "select"

ServeReturns ==
  /\ sent = None
  /\ listener # "open"
  /\ serveErr' = IF ShuttingDown THEN "nil" ELSE "error"
  /\ sent' = serveErr'
  /\ UNCHANGED <<main, listener, signalled, grace, dbOpen, req, result>>

-----------------------------------------------------------------------------
(* The main goroutine.                                                     *)

Return(how) ==
  /\ main' = "return"
  /\ result' = how

\* The two branches of the select; either may be taken if both are ready.
SelectServeErr ==
  /\ main = "select"
  /\ serveErr # None
  /\ Return(serveErr)
  /\ serveErr' = None
  /\ UNCHANGED <<listener, sent, signalled, grace, dbOpen, req>>

\* Shutdown begins by closing the listener.
SelectDone ==
  /\ main = "select"
  /\ signalled
  /\ main' = "shutdown"
  /\ listener' = IF listener = "open" THEN "closed" ELSE listener
  /\ UNCHANGED <<serveErr, sent, signalled, grace, dbOpen, req, result>>

\* Fault: Close instead of Shutdown.
CloseAbruptly ==
  /\ main = "shutdown"
  /\ main' = "drain"
  /\ UNCHANGED <<listener, serveErr, sent, signalled, grace, dbOpen, req, result>>

\* Fault: without a deadline.
ShutdownWithoutDeadline ==
  /\ main = "shutdown"
  /\ InFlight = {}
  /\ main' = "drain"
  /\ UNCHANGED <<listener, serveErr, sent, signalled, grace, dbOpen, req, result>>

\* Shutdown returns when no request is in flight, or when its context is done;
\* Serve then returns Shutdown's own error and leaves the channel alone.
FinishShutdown ==
  /\ main = "shutdown"
  /\ \/ InFlight = {} /\ main' = "drain" /\ UNCHANGED result
     \/ grace /\ Return("shutting down")
  /\ UNCHANGED <<listener, serveErr, sent, signalled, grace, dbOpen, req>>

\* Fault: the goroutine's result is waited for and not looked at.
DrainBlindly ==
  /\ main = "drain"
  /\ serveErr # None
  /\ serveErr' = None
  /\ Return("nil")
  /\ UNCHANGED <<listener, sent, signalled, grace, dbOpen, req>>

\* <-serveErr.
Drain ==
  /\ main = "drain"
  /\ serveErr # None
  /\ serveErr' = None
  /\ Return(serveErr)
  /\ UNCHANGED <<listener, sent, signalled, grace, dbOpen, req>>

\* The deferred db.Close of run.
CloseDatabase ==
  /\ main = "return"
  /\ main' = "exiting"
  /\ dbOpen' = FALSE
  /\ UNCHANGED <<listener, serveErr, sent, signalled, grace, req, result>>

\* The process ends, and with it every handler.
Exit ==
  /\ main = "exiting"
  /\ main' = "exited"
  /\ req' = [r \in Requests |-> IF req[r] = "running" THEN "cut" ELSE req[r]]
  /\ UNCHANGED <<listener, serveErr, sent, signalled, grace, dbOpen, result>>

Main ==
  \/ SelectServeErr \/ SelectDone \/ FinishShutdown \/ Drain \/ CloseDatabase \/ Exit

Init ==
  /\ main = "select" /\ listener = "open" /\ serveErr = None /\ sent = None
  /\ signalled = FALSE /\ grace = FALSE /\ dbOpen = TRUE
  /\ req = [r \in Requests |-> "new"]
  /\ result = None

Next ==
  \/ Main \/ ServeReturns \/ Signal \/ ListenerFails \/ GraceEnds
  \/ \E r \in Requests : Arrive(r) \/ MeetClosedDatabase(r) \/ Answer(r)

Spec == Init /\ [][Next]_vars

\* The runtime schedules goroutines and fires timers; nothing is assumed of
\* handlers and clients.
FairSpec == Spec /\ WF_vars(Main) /\ WF_vars(ServeReturns) /\ WF_vars(GraceEnds)

-----------------------------------------------------------------------------
TypeOK ==
  /\ main \in MainStates
  /\ listener \in {"open", "failed", "closed"}
  /\ {serveErr, sent} \subseteq {None, "nil", "error"}
  /\ result \in {None, "nil", "error", "shutting down"}
  /\ result # None <=> main \in {"return", "exiting", "exited"}
  /\ signalled \in BOOLEAN /\ grace \in BOOLEAN
  /\ dbOpen \in BOOLEAN
  /\ req \in [Requests -> ReqStates]

(* A process that reports success has answered every request it accepted,  *)
(* and none of them met a closed database: the database is closed only     *)
(* after the last handler.                                                 *)
SuccessMeansDrained ==
  result = "nil" => \A r \in Requests : req[r] \in {"new", "answered"}

(* A request is interrupted only if the grace period ended first or the    *)
(* listener broke, never by the signal itself.                             *)
OnlyGraceCutsOff ==
  (\E r \in Requests : req[r] \in {"cut", "denied"}) => grace \/ listener = "failed"

(* Both: Serve leaves a request unanswered only after the grace period or  *)
(* a broken listener, and then does not report success.                    *)
RequestsAreDrained == SuccessMeansDrained /\ OnlyGraceCutsOff

(* An error of the listener is never taken for success, and is what Serve  *)
(* reports, whichever branch of the select wins when a signal comes at the *)
(* same time.  Only if the grace period ended as well does Serve report    *)
(* that instead, and the listener's error is lost in the channel.          *)
ListenerErrorIsReported ==
  sent = "error" /\ result # None =>
    \/ result = "error"
    \/ result = "shutting down" /\ grace /\ serveErr = "error"

(* A signalled process ends, although handlers may never finish.           *)
SignalEndsProcess == signalled ~> main = "exited"
=============================================================================
