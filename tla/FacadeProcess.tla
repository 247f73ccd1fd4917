---------------------------- MODULE FacadeProcess ----------------------------
(***************************************************************************)
(* The process of the MCP OAuth facade (src/cmd/mcp-oauth-facade/main.go)  *)
(* around the handlers of Facade: its configuration, the goroutine that    *)
(* listens and serves, the channel serverErrors, the signals, and          *)
(* Shutdown with its deadline.  When the process has ended, whichever way, *)
(* its handlers are gone and a new process may start; Hydra stays.         *)
(*                                                                         *)
(* net/http is external; where the code depends on it (Shutdown closes the *)
(* listeners, waits for the connections and makes ListenAndServe return    *)
(* ErrServerClosed) it is part of the action that calls it.                *)
(***************************************************************************)
EXTENDS Facade

VARIABLES
  main,          \* where run() is
  server,        \* what ListenAndServe is doing
  serverErrors,  \* the channel, of capacity 1
  signalled,     \* whether shutdownSignal is done
  exit           \* how the process ended

lifecycle == <<main, server, serverErrors, signalled, exit>>
processVars == <<vars, lifecycle>>

ProcessTypeOK ==
  /\ TypeOK
  /\ main \in {"configure", "select", "shutdown", "receive", "exited"}
  /\ server \in {"none", "starting", "listening", "closed", "refused", "unbound", "failed"}
  /\ serverErrors \in {"empty", "ErrServerClosed", "failure"}
  /\ signalled \in BOOLEAN
  /\ exit \in {"running", "clean", "error", "killed"}
  /\ (main = "exited") = (exit # "running")

ProcessInit ==
  /\ Init
  /\ main = "configure" /\ server = "none" /\ serverErrors = "empty"
  /\ signalled = FALSE /\ exit = "running"

Running == main # "exited"

Exit(how) == main' = "exited" /\ exit' = how /\ UNCHANGED <<vars, server>>

-----------------------------------------------------------------------------
\* run().

Configure ==
  /\ main = "configure"
  /\ main' = "select" /\ server' = "starting"
  /\ UNCHANGED <<vars, serverErrors, signalled, exit>>

\* A required variable is missing, or a constructor refuses its configuration.
ConfigureFailed ==
  /\ main = "configure"
  /\ Exit("error")
  /\ UNCHANGED <<serverErrors, signalled>>

\* SIGINT or SIGTERM.  Until NotifyContext is called it ends the process; later ones
\* are caught too.
Signal ==
  /\ Running
  /\ IF main = "configure"
       THEN Exit("killed") /\ UNCHANGED <<serverErrors, signalled>>
       ELSE signalled' = TRUE /\ UNCHANGED <<vars, main, server, serverErrors, exit>>

\* Both channels may be ready: the select takes either.
SelectServerError ==
  /\ main = "select"
  /\ serverErrors # "empty"
  /\ Exit(IF serverErrors = "ErrServerClosed" THEN "clean" ELSE "error")
  /\ serverErrors' = "empty"
  /\ UNCHANGED signalled

SelectSignal ==
  /\ main = "select"
  /\ signalled
  /\ main' = "shutdown"
  /\ UNCHANGED <<vars, server, serverErrors, signalled, exit>>

\* The listeners are closed and every connection is done.
ShutdownDone ==
  /\ main = "shutdown"
  /\ server # "listening"
  /\ \A r \in Requests : pc[r] = "idle"
  /\ main' = "receive"
  /\ UNCHANGED <<vars, server, serverErrors, signalled, exit>>

\* Mutant: the deadline is logged and the process goes on to end as usual.
DeadlineLogged ==
  /\ main = "shutdown"
  /\ main' = "receive"
  /\ UNCHANGED <<vars, server, serverErrors, signalled, exit>>

\* After ten seconds, whatever is still under way.
ShutdownDeadline ==
  /\ main = "shutdown"
  /\ Exit("error")
  /\ UNCHANGED <<serverErrors, signalled>>

ExitOfServer == IF serverErrors = "ErrServerClosed" THEN "clean" ELSE "error"

Receive ==
  /\ main = "receive"
  /\ serverErrors # "empty"
  /\ Exit(ExitOfServer)
  /\ serverErrors' = "empty"
  /\ UNCHANGED signalled

-----------------------------------------------------------------------------
\* The goroutine: server.ListenAndServe and its one send.

\* Mutant: only an error worth reporting is sent.
SentIfFailure(what) == IF what = "failure" THEN what ELSE serverErrors

Sent(what) == what

Returns(how, what) ==
  /\ Running
  /\ server' = how
  /\ serverErrors' = Sent(what)
  /\ UNCHANGED <<vars, main, signalled, exit>>

ShuttingDown == main \in {"shutdown", "receive"}

Listen ==
  /\ Running
  /\ server = "starting" /\ ~ShuttingDown
  /\ server' = "listening"
  /\ UNCHANGED <<vars, main, serverErrors, signalled, exit>>

\* The address cannot be bound; the check for a shutdown comes before.
ListenFailed == server = "starting" /\ Returns("unbound", "failure")

\* Shutdown has been called before there was a listener to close.
ListenRefused == server = "starting" /\ ShuttingDown /\ Returns("refused", "ErrServerClosed")

\* Accept fails for good, or its listener is closed by Shutdown.
AcceptFailed ==
  server = "listening" /\ ~ShuttingDown /\ Returns("failed", "failure")

Closed == server = "listening" /\ ShuttingDown /\ Returns("closed", "ErrServerClosed")

-----------------------------------------------------------------------------
\* The handlers, as long as there is a process.

\* A connection that was accepted may still bring a request when there is no listener
\* any more.
Accepts ==
  \/ server = "listening"
  \/ server \in {"closed", "failed"} /\ main \in {"select", "shutdown"}

ProcessArrive(r) ==
  /\ Running /\ Accepts
  /\ \E what \in Routes : Arrive(r, what)
  /\ UNCHANGED lifecycle

ProcessServe(r) == Running /\ Serve(r) /\ UNCHANGED lifecycle

Environment ==
  /\ Tick \/ \E c \in ClientIDs : OtherReplica(c)
  /\ UNCHANGED lifecycle

Killed ==
  /\ Running
  /\ Exit("killed")
  /\ UNCHANGED <<serverErrors, signalled>>

\* A new process has no requests and no documents.
Restart ==
  /\ ~Running
  /\ main' = "configure" /\ server' = "none" /\ serverErrors' = "empty"
  /\ signalled' = FALSE /\ exit' = "running"
  /\ asked' = [r \in Requests |-> None] /\ answer' = [r \in Requests |-> None]
  /\ route' = [r \in Requests |-> None]
  /\ pc' = [r \in Requests |-> "idle"] /\ outcome' = [r \in Requests |-> "pending"]
  /\ dynamicSlots' = 0
  /\ UNCHANGED <<clock, registered>>

Run ==
  \/ Configure \/ ConfigureFailed \/ SelectServerError \/ SelectSignal
  \/ ShutdownDone \/ ShutdownDeadline \/ Receive

Goroutine == Listen \/ ListenFailed \/ ListenRefused \/ AcceptFailed \/ Closed

ProcessNext ==
  \/ Run \/ Goroutine \/ Signal \/ Killed \/ Restart
  \/ \E r \in Requests : ProcessArrive(r) \/ ProcessServe(r)
  \/ Environment

\* Go's scheduler runs what is ready; Resolve and EnsureCIMDClient return, and the HTTP
\* clients and the server have timeouts, so every handler goes on; Shutdown's deadline
\* passes.  Nobody has to start a process or to send a signal.
ProcessFairness ==
  /\ \A r \in Requests : WF_processVars(ProcessServe(r))
  /\ WF_processVars(Run)
  /\ WF_processVars(Listen \/ ListenRefused \/ Closed)

ProcessSpec == ProcessInit /\ [][ProcessNext]_processVars

FairProcessSpec == ProcessSpec /\ ProcessFairness

-----------------------------------------------------------------------------
\* A process that reports success has answered every request it had admitted (one
\* that gives up on some after the deadline says so), and its server was ended by the
\* shutdown: if it could not listen or stopped accepting, that is reported, whether the
\* error or a signal comes first (lines 93 to 106).
SuccessIsTrue ==
  exit = "clean" =>
    server \in {"closed", "refused"} /\ \A r \in Requests : pc[r] = "idle"

\* A process that is told to stop does: Shutdown ends by itself or by its deadline,
\* and then there is something to receive, even if the signal came before the server
\* was listening.
SignalEndsProcess == signalled ~> main = "exited"

\* Every request is answered or has lost its process: no request waits for a slot,
\* and no slot stays with a request that has failed.
AnsweredOrProcessGone ==
  \A r \in Requests : pc[r] # "idle" ~> pc[r] = "idle" \/ main = "exited"

=============================================================================
