--------------------------- MODULE ServiceProcess ---------------------------
(***************************************************************************)
(* The life of a service's process: run of its cmd/server/main.go, the     *)
(* gRPC server of pkg/server/server.go and the interceptors of             *)
(* pkg/middleware/grpc.go.                                                 *)
(*                                                                         *)
(* run opens resources one after the other, with a deferred close for most *)
(* of them, and then serves calls.  The gateway is an HTTP server without  *)
(* any handling of signals.  grpc-go, net/http and signals are external.   *)
(***************************************************************************)
EXTENDS Integers, Sequences, SequencesExt

CONSTANTS
    Services,   \* the services whose process is looked at
    Callers     \* concurrent calls

GrpcServices == {"wallet", "transaction", "query", "notification", "identity", "fraud"}

ASSUME ProcessAssumption == Services \subseteq GrpcServices \cup {"gateway"}

VARIABLES
    svc,        \* the service
    phase,      \* where run is
    steps,      \* how many steps of its setup are done
    held,       \* the resources that are open, in the order of opening
    notified,   \* signals go to the channel of Run
    quit,       \* there is one in it
    signalled,  \* SIGTERM or SIGINT was sent to the process
    forced,     \* run went on while calls were running
    killed,     \* the process died at once
    call        \* the calls

process == <<svc, steps, held, notified, quit>>
outcome == <<signalled, forced, killed>>
processVars == <<process, phase, outcome, call>>

-----------------------------------------------------------------------------
(* What the processes consist of.                                          *)

WalletSetup == <<"log", "tracing", "metrics">>
TransactionSetup == <<"log", "tracing", "metrics">>
QuerySetup == <<"log", "tracing", "metrics">>
NotificationSetup == <<"log", "tracing", "metrics">>
IdentitySetup == <<"log", "tracing", "metrics", "db">>
FraudSetup == <<"log", "tracing", "redis", "updater", "metrics">>

\* router.New connects to the services that it has routes for.
RouterSetup == <<"identity", "wallet", "transaction", "query">>

GatewaySetup == <<"log", "tracing", "metrics">> \o RouterSetup

Setup == CASE svc = "wallet" -> WalletSetup
           [] svc = "transaction" -> TransactionSetup
           [] svc = "query" -> QuerySetup
           [] svc = "notification" -> NotificationSetup
           [] svc = "identity" -> IdentitySetup
           [] svc = "fraud" -> FraudSetup
           [] svc = "gateway" -> GatewaySetup

\* Steps of run that may return an error.
Fallible == {"tracing", "metrics", "db", "updater"} \cup ToSet(RouterSetup)

\* Resources with a deferred close; the Redis client and the goroutine of the
\* profile updater have none, and the connections of the gateway are closed
\* when the context of run is done, which it never is.
Deferred == {"log", "tracing", "metrics", "db"}

\* What a call needs.
Uses == {"log", "tracing"} \cup
    CASE svc = "identity" -> {"db"} [] svc = "fraud" -> {"redis"}
      [] svc = "gateway" -> ToSet(RouterSetup) [] OTHER -> {}

\* The methods that a process registers with its server, where a call passes
\* the interceptors, and the streams, which have none.  NewGRPC registers
\* health and reflection with every server; the wallet, transaction, query and
\* notification services have nothing else.
HealthMethods == {"Check"}
IdentityMethods == {"Register", "Login", "RefreshToken", "ValidateToken", "Logout"}
FraudMethods == {"Evaluate"}
Methods == CASE svc = "identity" -> IdentityMethods \cup HealthMethods
             [] svc = "fraud" -> FraudMethods \cup HealthMethods
             [] svc = "gateway" -> {"ServeHTTP"}
             [] OTHER -> HealthMethods
Streams == IF svc \in GrpcServices THEN {"Watch", "ServerReflectionInfo"} ELSE {}

\* Mutant: the innermost interceptors only.
ChainWithoutRecovery == <<"tracing", "logging">>

\* The interceptors around a method, the outermost first; net/http recovers
\* from a panic by itself.
Chain ==
    CASE svc = "fraud" -> <<"recovery", "tracing", "logging">>
      [] svc = "gateway" -> <<"recovery">>
      [] OTHER -> <<"recovery", "tracing", "logging", "idempotency">>

Running == {c \in Callers : call[c] \in {"running", "streaming"}}

ProcessInit ==
    /\ svc \in Services
    /\ phase = "setup"
    /\ steps = 0
    /\ held = <<>>
    /\ notified = FALSE /\ quit = FALSE
    /\ signalled = FALSE /\ forced = FALSE /\ killed = FALSE
    /\ call = [c \in Callers |-> "none"]

GoOn(next) == phase' = next /\ UNCHANGED <<process, outcome, call>>

Die ==
    /\ phase' = "exited"
    /\ killed' = TRUE
    /\ UNCHANGED <<process, forced, call>>

-----------------------------------------------------------------------------
(* run.                                                                    *)

Required == Setup[steps + 1]

\* The next resource is opened.
Acquire ==
    /\ phase = "setup" /\ steps < Len(Setup)
    /\ held' = Append(held, Required)
    /\ steps' = steps + 1
    /\ UNCHANGED <<svc, notified, quit, phase, outcome, call>>

\* It cannot be: run returns the error.
AcquireFails ==
    /\ phase = "setup" /\ steps < Len(Setup)
    /\ Required \in Fallible
    /\ GoOn("closing")

\* MustNew panics instead.
LogFails ==
    /\ phase = "setup" /\ steps = 0
    /\ Die
    /\ UNCHANGED signalled

\* Mutant: the server starts while the setup still runs.
ListenEarly == phase = "setup" /\ steps > 0 /\ (GoOn("serving") \/ GoOn("closing"))

\* The port is bound, or is in use.
Listen ==
    /\ phase = "setup" /\ steps = Len(Setup)
    /\ GoOn("serving") \/ GoOn("closing")

\* signal.Notify, which comes after Serve; the gateway has none.
Notify ==
    /\ phase = "serving" /\ svc \in GrpcServices /\ ~ notified
    /\ notified' = TRUE
    /\ UNCHANGED <<svc, steps, held, quit, phase, outcome, call>>

\* Serve returns an error: Run returns it and does not stop the server.
ServeFails ==
    /\ phase = "serving"
    /\ phase' = "closing"
    /\ forced' = TRUE
    /\ UNCHANGED <<process, signalled, killed, call>>

\* A signal, which is fatal before Notify.
Signal ==
    /\ phase # "exited"
    /\ signalled' = TRUE
    /\ \/ ~ notified /\ Die
       \/ /\ notified /\ quit' = TRUE
          /\ UNCHANGED <<svc, steps, held, notified, phase, forced, killed, call>>

\* Run takes it: GracefulStop begins.
Drain == phase = "serving" /\ quit /\ GoOn("draining")

\* Mutant: GracefulStop is not waited for.
StoppedAtOnce == phase = "draining" /\ GoOn("closing")

\* GracefulStop returns when no call runs.
Stopped == phase = "draining" /\ Running = {} /\ GoOn("closing")

\* Mutant: there is no timeout.
ForceStopNever == phase = "draining" /\ Running = {} /\ GoOn("closing")

\* ShutdownTimeout: Stop closes the connections and waits for no handler.
ForceStop ==
    /\ phase = "draining"
    /\ phase' = "closing"
    /\ forced' = TRUE
    /\ UNCHANGED <<process, signalled, killed, call>>

\* The last of the deferred calls.
Close ==
    /\ phase = "closing"
    /\ \E i \in DOMAIN held :
        /\ held[i] \in Deferred
        /\ \A j \in (i + 1)..Len(held) : held[j] \notin Deferred
        /\ held' = RemoveAt(held, i)
    /\ UNCHANGED <<svc, steps, notified, quit, phase, outcome, call>>

\* None is left, and main returns.
Exit == phase = "closing" /\ ToSet(held) \cap Deferred = {} /\ GoOn("exited")

-----------------------------------------------------------------------------
(* Calls.                                                                  *)

SetCall(c, state) ==
    /\ call' = [call EXCEPT ![c] = state]
    /\ UNCHANGED <<process, phase, outcome>>

\* A call of a registered method or a stream; any other is answered
\* Unimplemented.
Accept(c) ==
    /\ phase = "serving" /\ call[c] = "none"
    /\ \/ \E m \in Methods : SetCall(c, "running")
       \/ \E m \in Streams : SetCall(c, "streaming")
       \/ SetCall(c, "answered")

\* The handler returns, through the interceptors; after a forced stop nobody
\* hears of it.  The stream of a health watch returns when its client leaves.
Return(c) ==
    /\ phase # "exited" /\ c \in Running
    /\ SetCall(c, IF forced THEN "lost" ELSE "answered")

\* It panics: UnaryRecovery makes an error of it, or the process dies.  The
\* handlers of the streams are grpc-go's own.
Panic(c) ==
    /\ phase # "exited" /\ call[c] = "running"
    /\ IF Contains(Chain, "recovery")
       THEN SetCall(c, IF forced THEN "lost" ELSE "answered")
       ELSE Die /\ UNCHANGED signalled

-----------------------------------------------------------------------------
\* What main does by itself.
Run == Acquire \/ Listen \/ Notify \/ Drain \/ Stopped \/ ForceStop \/ Close \/ Exit

ProcessNext ==
    \/ Run \/ AcquireFails \/ LogFails \/ ServeFails \/ Signal
    \/ \E c \in Callers : Accept(c) \/ Return(c) \/ Panic(c)

\* main runs, and its timer expires; a handler need not return.
ProcessSpec == ProcessInit /\ [][ProcessNext]_processVars /\ WF_processVars(Run)

-----------------------------------------------------------------------------
(* Properties.                                                             *)

\* Types of the process, its resources and its calls.
ProcessTypeOK ==
    /\ svc \in Services
    /\ phase \in {"setup", "serving", "draining", "closing", "exited"}
    /\ steps \in 0..Len(Setup)
    /\ ToSet(held) \subseteq ToSet(SubSeq(Setup, 1, steps))
    /\ phase \in {"serving", "draining"} => held = Setup
    /\ {notified, quit, signalled, forced, killed} \subseteq BOOLEAN
    /\ quit => notified /\ signalled
    /\ call \in [Callers -> {"none", "running", "streaming", "answered", "lost"}]

\* No call is cut off and none runs on a closed resource, except when a signal
\* comes before Notify or to the gateway, when Serve fails and when the
\* shutdown timeout has passed; a panic of another call is no reason.
OnlyForceAbandons ==
    \A c \in Callers :
        /\ c \in Running /\ phase = "exited" => forced \/ (signalled /\ ~ notified)
        /\ call[c] = "running" /\ ~ Uses \subseteq ToSet(held) => forced
        /\ call[c] = "lost" => forced

\* After a signal the process ends, even if a handler never returns, and
\* whatever else fails.
StopsAfterSignal == signalled ~> phase = "exited"

=============================================================================
