--------------------------- MODULE ServiceProofs ---------------------------
(***************************************************************************)
(* Theorems about the two services' modules that nothing else builds on.   *)
(*                                                                         *)
(* ServiceProcess, for every service and any number of concurrent calls:   *)
(* its types, and that only a forced stop or an early signal cuts a call   *)
(* off.                                                                    *)
(*                                                                         *)
(* QueryService, for every topic, any number of members and of faults: its *)
(* types, that the statement is idempotent, and that the read model is     *)
(* exact unless a projection was torn.                                     *)
(***************************************************************************)
EXTENDS ServiceProcess, QueryService, NatRecursion, TLAPS

-----------------------------------------------------------------------------
(* Sequences of resources and interceptors.                                *)

\* A tuple of up to five elements is a sequence.
LEMMA TuplesAreSequences ==
    ASSUME NEW S, NEW a \in S, NEW b \in S, NEW c \in S, NEW d \in S, NEW e \in S
    PROVE  /\ <<a, b, c>> \in Seq(S) /\ <<a, b, c, d>> \in Seq(S) /\ <<a, b, c, d, e>> \in Seq(S)
OBVIOUS

\* What Acquire does to a sequence that is opened in order.
LEMMA AppendNext ==
    ASSUME NEW S, NEW s \in Seq(S), NEW n \in Nat, n < Len(s)
    PROVE  /\ Append(SubSeq(s, 1, n), s[n + 1]) = SubSeq(s, 1, n + 1)
           /\ SubSeq(s, 1, n) \in Seq(S) /\ s[n + 1] \in S
OBVIOUS

\* A sequence is its longest prefix.
LEMMA WholePrefix ==
    ASSUME NEW S, NEW s \in Seq(S)
    PROVE  SubSeq(s, 1, Len(s)) = s /\ Len(s) \in Nat
OBVIOUS

\* RemoveAt adds no element.
LEMMA RemoveAtElements ==
    ASSUME NEW S, NEW s \in Seq(S), NEW i \in DOMAIN s
    PROVE  RemoveAt(s, i) \in Seq(S) /\ ToSet(RemoveAt(s, i)) \subseteq ToSet(s)
<1>1. i \in 1..Len(s) /\ Len(s) \in Nat
  OBVIOUS
<1> DEFINE a == SubSeq(s, 1, i - 1)
           b == SubSeq(s, i + 1, Len(s))
<1>2. a \in Seq(S) /\ Len(a) = i - 1 /\ \A j \in 1..Len(a) : a[j] = s[j] /\ j \in DOMAIN s
  BY <1>1
<1>3. b \in Seq(S) /\ Len(b) = Len(s) - i /\ \A j \in 1..Len(b) : b[j] = s[j + i] /\ j + i \in DOMAIN s
  BY <1>1
<1>4. RemoveAt(s, i) = a \o b
  BY DEF RemoveAt
<1> HIDE DEF a, b
<1>5. /\ a \o b \in Seq(S)
      /\ \A j \in DOMAIN (a \o b) : \/ j \in 1..Len(a) /\ (a \o b)[j] = a[j]
                                    \/ j - Len(a) \in 1..Len(b) /\ (a \o b)[j] = b[j - Len(a)]
  BY <1>2, <1>3, SMTT(30)
<1>6. \A j \in DOMAIN (a \o b) : \E k \in DOMAIN s : (a \o b)[j] = s[k]
  BY <1>2, <1>3, <1>5
<1> QED BY <1>4, <1>5, <1>6 DEF ToSet

-----------------------------------------------------------------------------
(* What the processes consist of.                                          *)

Resources == {"log", "tracing", "metrics", "db", "redis", "updater"} \cup ToSet(RouterSetup)

\* A process opens resources one after the other, and what its calls need is
\* among them.
LEMMA SetupFacts ==
    ASSUME svc \in Services
    PROVE  Setup \in Seq(Resources) /\ Uses \subseteq ToSet(Setup)
<1>1. /\ {"log", "tracing", "metrics", "db", "redis", "updater"} \subseteq Resources
      /\ {"identity", "wallet", "transaction", "query"} \subseteq Resources
  BY DEF Resources, ToSet, RouterSetup
<1>2. /\ <<"log", "tracing", "metrics">> \in Seq(Resources)
      /\ IdentitySetup \in Seq(Resources) /\ FraudSetup \in Seq(Resources)
      /\ RouterSetup \in Seq(Resources)
  BY <1>1, TuplesAreSequences DEF IdentitySetup, FraudSetup, RouterSetup
<1>3. {"log", "tracing"} \subseteq ToSet(<<"log", "tracing", "metrics">>)
  BY DEF ToSet
<1>4. CASE svc \in {"wallet", "transaction", "query", "notification"}
  <2>1. Setup = <<"log", "tracing", "metrics">>
    BY <1>4 DEF Setup, WalletSetup, TransactionSetup, QuerySetup, NotificationSetup
  <2>2. Uses = {"log", "tracing"}
    BY <1>4 DEF Uses
  <2> QED BY <1>2, <1>3, <2>1, <2>2
<1>5. CASE svc = "identity"
  <2>1. Setup = IdentitySetup
    BY <1>5 DEF Setup
  <2>2. Uses = {"log", "tracing", "db"}
    BY <1>5 DEF Uses
  <2>3. {"log", "tracing", "db"} \subseteq ToSet(IdentitySetup)
    BY DEF ToSet, IdentitySetup
  <2> QED BY <1>2, <2>1, <2>2, <2>3
<1>6. CASE svc = "fraud"
  <2>1. Setup = FraudSetup
    BY <1>6 DEF Setup
  <2>2. Uses = {"log", "tracing", "redis"}
    BY <1>6 DEF Uses
  <2>3. {"log", "tracing", "redis"} \subseteq ToSet(FraudSetup)
    BY DEF ToSet, FraudSetup
  <2> QED BY <1>2, <2>1, <2>2, <2>3
<1>7. CASE svc = "gateway"
  <2>1. Setup = <<"log", "tracing", "metrics">> \o RouterSetup
    BY <1>7 DEF Setup, GatewaySetup
  <2>2. Uses = {"log", "tracing"} \cup ToSet(RouterSetup)
    BY <1>7 DEF Uses
  <2>3. ASSUME NEW s \in Seq(Resources), NEW t \in Seq(Resources)
        PROVE  s \o t \in Seq(Resources) /\ ToSet(s) \cup ToSet(t) \subseteq ToSet(s \o t)
    <3>1. /\ s \o t \in Seq(Resources) /\ DOMAIN (s \o t) = 1..(Len(s) + Len(t))
          /\ \A i \in 1..Len(s) : (s \o t)[i] = s[i]
          /\ \A i \in 1..Len(t) : (s \o t)[Len(s) + i] = t[i]
      OBVIOUS
    <3>2. \A i \in DOMAIN s : \E j \in DOMAIN (s \o t) : (s \o t)[j] = s[i]
      BY <3>1
    <3>3. ASSUME NEW i \in DOMAIN t PROVE \E j \in DOMAIN (s \o t) : (s \o t)[j] = t[i]
      <4>1. i \in 1..Len(t) /\ Len(s) + i \in 1..(Len(s) + Len(t))
        OBVIOUS
      <4> QED BY <3>1, <4>1
    <3> QED BY <3>1, <3>2, <3>3, SMTT(30) DEF ToSet
  <2> QED BY <1>2, <1>3, <2>1, <2>2, <2>3
<1> QED BY <1>4, <1>5, <1>6, <1>7, ProcessAssumption DEF GrpcServices

-----------------------------------------------------------------------------
(* The inductive invariant.                                                *)

CallStates == {"none", "running", "streaming", "answered", "lost"}
Phases == {"setup", "serving", "draining", "closing", "exited"}

\* Until it serves, a process holds what it has opened so far and has no
\* calls; while it serves and drains, it holds everything.
SetupInv ==
    /\ svc \in Services /\ phase \in Phases
    /\ steps \in 0..Len(Setup)
    /\ held \in Seq(Resources)
    /\ ToSet(held) \subseteq ToSet(SubSeq(Setup, 1, steps))
    /\ phase = "setup" => held = SubSeq(Setup, 1, steps)
    /\ phase = "setup" => \A c \in Callers : call[c] = "none"
    /\ phase \in {"serving", "draining"} => held = Setup

SignalInv ==
    /\ notified \in BOOLEAN /\ quit \in BOOLEAN
    /\ signalled \in BOOLEAN /\ forced \in BOOLEAN /\ killed \in BOOLEAN
    /\ quit => notified /\ signalled

\* What can be the matter with a call.
CallInv(c) ==
    /\ call[c] = "lost" => forced
    /\ c \in Running /\ phase = "closing" => forced
    /\ c \in Running /\ phase = "exited" => forced \/ (signalled /\ ~ notified)
    /\ call[c] = "running" => forced \/ Uses \subseteq ToSet(held)

CallsInv == call \in [Callers -> CallStates] /\ \A c \in Callers : CallInv(c)

ProcessInv == SetupInv /\ SignalInv /\ CallsInv

\* The invariant holds at the start.
LEMMA ProcessInvInit ==
    ProcessInit => ProcessInv
<1>1. SUFFICES ASSUME ProcessInit PROVE ProcessInv
  OBVIOUS
<1>2. Setup \in Seq(Resources) /\ svc \in Services
  BY <1>1, SetupFacts DEF ProcessInit
<1>3. Len(Setup) \in Nat /\ SubSeq(Setup, 1, 0) = <<>>
  BY <1>2
<1>4. SetupInv
  <2>1. held = <<>> /\ held \in Seq(Resources) /\ steps = 0
    BY <1>1 DEF ProcessInit
  <2>2. held = SubSeq(Setup, 1, steps) /\ steps \in 0..Len(Setup)
    BY <1>3, <2>1
  <2>3. phase = "setup" /\ \A c \in Callers : call[c] = "none"
    BY <1>1 DEF ProcessInit
  <2>4. phase \in Phases /\ phase \notin {"serving", "draining"}
    BY <2>3 DEF Phases
  <2> QED BY <1>2, <2>1, <2>2, <2>3, <2>4, Zenon DEF SetupInv
<1>5. SignalInv
  BY <1>1, Zenon DEF ProcessInit, SignalInv
<1>6. CallsInv
  BY <1>1 DEF ProcessInit, CallsInv, CallInv, Running, CallStates
<1> QED BY <1>4, <1>5, <1>6 DEF ProcessInv

\* Setup and Uses depend on nothing but the service.
LEMMA SameService ==
    svc' = svc => Setup' = Setup /\ Uses' = Uses
BY DEF Setup, Uses

\* The steps of run that change neither the resources nor the calls.
LEMMA GoOnKeeps ==
    ASSUME ProcessInv, NEW next \in Phases, GoOn(next),
           next # "setup",
           next \in {"serving", "draining"} => held = Setup,
           next \in {"closing", "exited"} =>
                \A c \in Running : forced
    PROVE  ProcessInv'
<1>1. phase' = next /\ UNCHANGED <<svc, steps, held, notified, quit, signalled, forced, killed, call>>
  BY DEF GoOn, process, outcome
<1>2. SetupInv'
  BY <1>1, SameService DEF ProcessInv, SetupInv
<1>3. SignalInv'
  BY <1>1, Zenon DEF ProcessInv, SignalInv
<1>4. ASSUME NEW c \in Callers PROVE CallInv(c)'
  BY <1>1, <1>4, SameService DEF ProcessInv, CallsInv, CallInv, Running, Phases
<1> QED BY <1>1, <1>2, <1>3, <1>4, Zenon DEF ProcessInv, CallsInv

\* Only before it serves, or after a signal that it does not handle, does a
\* process die.
LEMMA DieKeeps ==
    ASSUME ProcessInv, Die, signalled' \in BOOLEAN, signalled => signalled',
           phase = "setup" \/ (signalled' /\ ~ notified)
    PROVE  ProcessInv'
<1>1. phase' = "exited" /\ killed' = TRUE /\ UNCHANGED <<svc, steps, held, notified, quit, forced, call>>
  BY DEF Die, process
<1>2. SetupInv'
  BY <1>1, SameService DEF ProcessInv, SetupInv, Phases
<1>3. SignalInv'
  BY <1>1, Zenon DEF ProcessInv, SignalInv
<1>4. ASSUME NEW c \in Callers PROVE CallInv(c)'
  BY <1>1, <1>4, SameService DEF ProcessInv, SetupInv, CallsInv, CallInv, Running
<1> QED BY <1>1, <1>2, <1>3, <1>4, Zenon DEF ProcessInv, CallsInv

\* A forced stop, and a server that has failed.
LEMMA ForcedKeeps ==
    ASSUME ProcessInv, phase \in {"serving", "draining"}, phase' = "closing", forced' = TRUE,
           UNCHANGED <<process, signalled, killed, call>>
    PROVE  ProcessInv'
<1>1. UNCHANGED <<svc, steps, held, notified, quit>>
  BY DEF process
<1>2. SetupInv'
  BY <1>1, SameService DEF ProcessInv, SetupInv, Phases
<1>3. SignalInv'
  BY <1>1, Zenon DEF ProcessInv, SignalInv
<1>4. ASSUME NEW c \in Callers PROVE CallInv(c)'
  BY DEF CallInv, Running
<1> QED BY <1>1, <1>2, <1>3, <1>4, Zenon DEF ProcessInv, CallsInv

\* A call starts, returns or recovers.
LEMMA SetCallKeeps ==
    ASSUME ProcessInv, NEW c \in Callers, NEW state \in CallStates, SetCall(c, state),
           phase # "setup",
           state = "lost" => forced,
           state \in {"running", "streaming"} => phase = "serving"
    PROVE  ProcessInv'
<1>1. /\ UNCHANGED <<svc, steps, held, notified, quit, phase, signalled, forced, killed>>
      /\ call' = [call EXCEPT ![c] = state]
  BY DEF SetCall, process, outcome
<1>2. SetupInv'
  BY <1>1, SameService DEF ProcessInv, SetupInv
<1>3. SignalInv'
  BY <1>1, Zenon DEF ProcessInv, SignalInv
<1>4. call' \in [Callers -> CallStates]
  BY <1>1 DEF ProcessInv, CallsInv
<1>5. phase = "serving" => Uses \subseteq ToSet(held)
  BY SetupFacts DEF ProcessInv, SetupInv
<1>6. ASSUME NEW d \in Callers PROVE CallInv(d)'
  <2>1. CASE d = c
    <3>1. call'[d] = state
      BY <1>1, <2>1 DEF ProcessInv, CallsInv
    <3> QED BY <1>1, <1>5, <3>1, SameService DEF CallInv, Running
  <2>2. CASE d # c
    <3>1. call'[d] = call[d] /\ CallInv(d)
      BY <1>1, <2>2 DEF ProcessInv, CallsInv
    <3> QED BY <1>1, <3>1, SameService DEF CallInv, Running
  <2> QED BY <2>1, <2>2
<1> QED BY <1>2, <1>3, <1>4, <1>6 DEF ProcessInv, CallsInv

\* Every process recovers from a panic of a handler.
LEMMA ChainRecovers ==
    Contains(Chain, "recovery")
<1>1. Len(Chain) >= 1 /\ Len(Chain) \in Nat /\ Chain[1] = "recovery"
  BY DEF Chain
<1> QED BY <1>1 DEF Contains

\* The next resource.
LEMMA AcquireKeeps ==
    ASSUME ProcessInv, Acquire
    PROVE  ProcessInv'
<1>1. /\ phase = "setup" /\ steps < Len(Setup) /\ held' = Append(held, Setup[steps + 1])
      /\ steps' = steps + 1 /\ UNCHANGED <<svc, notified, quit, phase, signalled, forced, killed, call>>
  BY DEF Acquire, Required, outcome
<1>2. Setup \in Seq(Resources) /\ steps \in 0..Len(Setup) /\ Len(Setup) \in Nat
  BY SetupFacts DEF ProcessInv, SetupInv
<1>3. held = SubSeq(Setup, 1, steps) /\ \A c \in Callers : call[c] = "none"
  BY <1>1 DEF ProcessInv, SetupInv
<1>4. held' = SubSeq(Setup, 1, steps + 1) /\ held' \in Seq(Resources) /\ steps + 1 \in 0..Len(Setup)
  BY <1>1, <1>2, <1>3, AppendNext
<1>5. SetupInv'
  BY <1>1, <1>3, <1>4, SameService DEF ProcessInv, SetupInv
<1>6. SignalInv'
  BY <1>1, Zenon DEF ProcessInv, SignalInv
<1>7. CallsInv'
  BY <1>1, <1>3 DEF ProcessInv, CallsInv, CallInv, Running
<1> QED BY <1>5, <1>6, <1>7 DEF ProcessInv

\* A deferred close: whoever still runs was abandoned.
LEMMA CloseKeeps ==
    ASSUME ProcessInv, Close
    PROVE  ProcessInv'
<1>1. /\ phase = "closing"
      /\ UNCHANGED <<svc, steps, notified, quit, phase, signalled, forced, killed, call>>
  BY DEF Close, outcome
<1>2. PICK i \in DOMAIN held : held' = RemoveAt(held, i)
  BY DEF Close
<1>3. held' \in Seq(Resources) /\ ToSet(held') \subseteq ToSet(held)
  BY <1>2, RemoveAtElements DEF ProcessInv, SetupInv
<1>4. SetupInv'
  BY <1>1, <1>3, SameService DEF ProcessInv, SetupInv
<1>5. SignalInv'
  BY <1>1, Zenon DEF ProcessInv, SignalInv
<1>6. ASSUME NEW c \in Callers PROVE CallInv(c)'
  BY <1>1 DEF ProcessInv, CallsInv, CallInv, Running
<1> QED BY <1>1, <1>4, <1>5, <1>6, Zenon DEF ProcessInv, CallsInv

\* What main does by itself keeps the invariant.
LEMMA RunKeeps ==
    ASSUME ProcessInv, Run
    PROVE  ProcessInv'
<1>0. {"serving", "draining", "closing", "exited"} \subseteq Phases
  BY DEF Phases
<1>1. CASE Acquire
  BY <1>1, AcquireKeeps
<1>2. CASE Listen
  <2>1. Setup \in Seq(Resources) /\ held = SubSeq(Setup, 1, Len(Setup))
    BY <1>2, SetupFacts DEF Listen, ProcessInv, SetupInv
  <2>2. held = Setup /\ Running = {}
    BY <1>2, <2>1, WholePrefix DEF Listen, ProcessInv, SetupInv, Running
  <2>3. CASE GoOn("serving")
    BY <1>0, <2>2, <2>3, GoOnKeeps
  <2>4. CASE GoOn("closing")
    BY <1>0, <2>2, <2>4, GoOnKeeps
  <2> QED BY <1>2, <2>3, <2>4 DEF Listen
<1>3. CASE Notify
  <2>1. /\ phase = "serving" /\ notified' = TRUE
        /\ UNCHANGED <<svc, steps, held, quit, phase, signalled, forced, killed, call>>
    BY <1>3 DEF Notify, outcome
  <2>2. SetupInv'
    BY <2>1, SameService DEF ProcessInv, SetupInv
  <2>3. SignalInv'
    BY <2>1, Zenon DEF ProcessInv, SignalInv
  <2>4. ASSUME NEW c \in Callers PROVE CallInv(c)'
    BY <2>1, SameService DEF ProcessInv, CallsInv, CallInv, Running
  <2> QED BY <2>1, <2>2, <2>3, <2>4, Zenon DEF ProcessInv, CallsInv
<1>4. CASE Drain
  BY <1>0, <1>4, GoOnKeeps DEF Drain, ProcessInv, SetupInv
<1>5. CASE Stopped
  BY <1>0, <1>5, GoOnKeeps DEF Stopped, Running
<1>6. CASE ForceStop
  BY <1>6, ForcedKeeps DEF ForceStop
<1>7. CASE Close
  BY <1>7, CloseKeeps
<1>8. CASE Exit
  BY <1>0, <1>8, GoOnKeeps DEF Exit, ProcessInv, CallsInv, CallInv, Running
<1> QED BY <1>1, <1>2, <1>3, <1>4, <1>5, <1>6, <1>7, <1>8 DEF Run

\* Failures and signals do.
LEMMA EnvironmentKeeps ==
    ASSUME ProcessInv, AcquireFails \/ LogFails \/ ServeFails \/ Signal
    PROVE  ProcessInv'
<1>1. CASE AcquireFails
  <2>1. "closing" \in Phases /\ Running = {}
    BY <1>1 DEF AcquireFails, ProcessInv, SetupInv, Phases, Running
  <2> QED BY <1>1, <2>1, GoOnKeeps DEF AcquireFails
<1>2. CASE LogFails
  BY <1>2, DieKeeps, Zenon DEF LogFails, ProcessInv, SignalInv
<1>3. CASE ServeFails
  BY <1>3, ForcedKeeps DEF ServeFails
<1>4. CASE Signal /\ Die /\ ~ notified
  <2>1. signalled' = TRUE
    BY <1>4 DEF Signal
  <2> QED BY <1>4, <2>1, DieKeeps, Zenon
<1>5. CASE Signal /\ notified /\ quit' = TRUE
           /\ UNCHANGED <<svc, steps, held, notified, phase, forced, killed, call>>
  <2>1. signalled' = TRUE
    BY <1>5 DEF Signal
  <2>2. SetupInv'
    BY <1>5, SameService DEF ProcessInv, SetupInv
  <2>3. SignalInv'
    BY <1>5, <2>1, Zenon DEF ProcessInv, SignalInv
  <2>4. ASSUME NEW c \in Callers PROVE CallInv(c)'
    BY <1>5, <2>1, SameService DEF ProcessInv, CallsInv, CallInv, Running
  <2> QED BY <1>5, <2>2, <2>3, <2>4, Zenon DEF ProcessInv, CallsInv
<1> QED BY <1>1, <1>2, <1>3, <1>4, <1>5, Zenon DEF Signal

\* And so do calls.
LEMMA CallsKeep ==
    ASSUME ProcessInv, NEW c \in Callers, Accept(c) \/ Return(c) \/ Panic(c)
    PROVE  ProcessInv'
<1>0. CallStates = {"none", "running", "streaming", "answered", "lost"}
  BY DEF CallStates
<1>1. CASE Accept(c)
  <2>1. phase = "serving" /\ (SetCall(c, "answered") \/ SetCall(c, "running") \/ SetCall(c, "streaming"))
    BY <1>1 DEF Accept
  <2> QED BY <1>0, <2>1, SetCallKeeps
<1>2. CASE Return(c) \/ Panic(c)
  <2>1. /\ call[c] \in {"running", "streaming"}
        /\ SetCall(c, IF forced THEN "lost" ELSE "answered")
    BY <1>2, ChainRecovers DEF Return, Panic, Running
  <2>2. phase # "setup"
    BY <2>1 DEF ProcessInv, SetupInv
  <2>3. CASE forced
    BY <1>0, <2>1, <2>2, <2>3, SetCallKeeps
  <2>4. CASE ~ forced
    BY <1>0, <2>1, <2>2, <2>4, SetCallKeeps
  <2> QED BY <2>3, <2>4
<1> QED BY <1>1, <1>2

\* The invariant holds in every reachable state.
LEMMA ProcessInvHolds ==
    ProcessSpec => []ProcessInv
<1>1. ProcessInv /\ [ProcessNext]_processVars => ProcessInv'
  <2>1. CASE UNCHANGED processVars
    BY <2>1, Zenon DEF processVars, process, outcome, ProcessInv, SetupInv, SignalInv, CallsInv, CallInv, Running, Setup, Uses
  <2>2. ProcessInv /\ ProcessNext => ProcessInv'
    BY RunKeeps, EnvironmentKeeps, CallsKeep, Zenon DEF ProcessNext
  <2> QED BY <2>1, <2>2
<1> QED BY <1>1, ProcessInvInit, PTL DEF ProcessSpec

-----------------------------------------------------------------------------
(* The theorems.                                                           *)

\* Whatever fails while run opens its resources, serves and shuts down, the
\* process holds no more than it has opened, and everything while it serves.
THEOREM ProcessTypeCorrect ==
    ProcessSpec => []ProcessTypeOK
<1>1. ProcessInv => ProcessTypeOK
  <2>1. SUFFICES ASSUME ProcessInv PROVE ProcessTypeOK
    OBVIOUS
  <2>2. {notified, quit, signalled, forced, killed} \subseteq BOOLEAN /\ (quit => notified /\ signalled)
    BY <2>1, Zenon DEF ProcessInv, SignalInv
  <2> QED BY <2>1, <2>2, Zenon DEF ProcessInv, SetupInv, CallsInv, CallStates, Phases, ProcessTypeOK
<1> QED BY <1>1, ProcessInvHolds, PTL

\* A call is cut off, or runs on a closed resource, only when the shutdown
\* timeout has passed, Serve has failed or a signal came that Run does not
\* handle: never because another call panics.
THEOREM AbandonedOnlyByForce ==
    ProcessSpec => []OnlyForceAbandons
<1>1. ProcessInv => OnlyForceAbandons
  BY DEF ProcessInv, CallsInv, CallInv, Running, OnlyForceAbandons
<1> QED BY <1>1, ProcessInvHolds, PTL

-----------------------------------------------------------------------------
(* The read model: the records of the topic.                               *)

Steps == {"idle", "check", "read", "upsert", "append", "mark"}
BalanceRows == [balance : Int, version : Nat \cup {-1}]
StatsRows == [transactions : Nat, deposits : Nat]
Entry(r) == [entry |-> r.entry, amount |-> r.amount]
Recs == {Topic[i] : i \in DOMAIN Topic}

\* What the handlers need to know of a record.
LEMMA TopicFacts ==
    /\ Len(Topic) \in Nat /\ DOMAIN Topic = 1..Len(Topic)
    /\ \A i \in DOMAIN Topic : Topic[i] \in Recs
    /\ \A r \in Recs : /\ r.wallet \in Wallets /\ r.user \in Users
                       /\ r.amount \in Nat /\ r.version \in Nat
    /\ \A r, q \in Recs : r.event = q.event => r = q
    /\ \A r, q \in Recs : r.type = "WalletCreated" /\ q.type = "WalletCreated" /\ r.wallet = q.wallet => r = q
<1>1. Topic \in Seq(Recs)
    BY QueryAssumption DEF Recs
<1>2. Len(Topic) \in Nat /\ DOMAIN Topic = 1..Len(Topic)
    BY <1>1
<1>3. \A r \in Recs : /\ r.wallet \in Wallets /\ r.user \in Users
                      /\ r.amount \in Nat /\ r.version \in Nat
    BY QueryAssumption DEF Recs, Wallets, Users
<1>4. \A r, q \in Recs : r.event = q.event => r = q
    BY QueryAssumption DEF Recs
<1>5. \A r, q \in Recs : r.type = "WalletCreated" /\ q.type = "WalletCreated" /\ r.wallet = q.wallet => r = q
    <2>1. \A r, q \in Recs : r.type = "WalletCreated" /\ q.type = "WalletCreated" /\ r.wallet = q.wallet
              => r.event = q.event
        BY QueryAssumption DEF Recs
    <2> QED BY <1>4, <2>1
<1> QED BY <1>2, <1>3, <1>4, <1>5 DEF Recs

-----------------------------------------------------------------------------
(* The read model: its inductive invariant.                                *)

\* The row that a record is about was written.
RowThere(r) ==
    IF r.type = "TransactionCompleted" THEN stats[r.user].transactions > 0
                                       ELSE balances[r.wallet].version # -1

\* There is a statement entry with its id.
EntryThere(r) == r.type \in Movements => \E s \in statement : s.entry = r.entry

TablesOK ==
    /\ balances \in [Wallets -> BalanceRows]
    /\ stats \in [Users -> StatsRows]
    /\ \A s \in statement : \E i \in DOMAIN Topic : Topic[i].type \in Movements /\ s = Entry(Topic[i])
    /\ \A s, t \in statement : s.entry = t.entry => s = t
    /\ \A e \in processed : \E i \in DOMAIN Topic : Topic[i].event = e /\ Topic[i].type \in Types

GroupOK ==
    /\ owner \in Members
    /\ polled \in [Members -> 0..Len(Topic)]
    /\ pos \in [Members -> 0..Len(Topic)]
    /\ \A c \in Members : pos[c] <= polled[c]
    /\ pc \in [Members -> Steps]
    /\ read \in [Members -> BalanceRows \cup StatsRows]
    /\ faults \in 0..MaxFaults
    /\ torn \in BOOLEAN

\* What a member knows of its record at each step: it holds the row that it
\* is about to write, and past Upsert the row is in the table.
AtInv(c) ==
    /\ pc[c] # "idle" => pos[c] \in DOMAIN Topic
    /\ pc[c] \notin {"idle", "check"} => Record(c).type \in Types
    /\ pc[c] = "append" => Record(c).type \in Movements
    /\ pc[c] = "upsert" =>
        IF Record(c).type = "TransactionCompleted"
        THEN read[c] \in StatsRows /\ read[c].transactions > 0
        ELSE read[c] \in BalanceRows /\ read[c].version # -1
    /\ pc[c] \in {"append", "mark"} => RowThere(Record(c))

QueryInv ==
    /\ TablesOK /\ GroupOK
    /\ \A c \in Members : AtInv(c)
    /\ \A r \in Recs : r.event \in processed => RowThere(r)

\* Past statement.Append the entry is there, and for processed events.
EntryInv ==
    /\ \A c \in Members : pc[c] = "mark" => EntryThere(Record(c))
    /\ \A r \in Recs : r.event \in processed => EntryThere(r)

\* The statements that change a table: Upsert, Append and MarkProcessed.
Writes(c) == pc[c] = "upsert" /\ WriteRow(c) /\ UNCHANGED <<statement, processed>>
Appends(c) ==
    /\ pc[c] = "append"
    /\ statement' = AppendedEntry(c)
    /\ UNCHANGED <<balances, stats, processed>>
Marks(c) ==
    /\ pc[c] = "mark"
    /\ processed' = processed \cup {Record(c).event}
    /\ UNCHANGED <<balances, statement, stats>>
Effects(c) == Writes(c) \/ Appends(c) \/ Marks(c) \/ UNCHANGED tables

\* Another member than c stays where it is.
Others(c) == \A d \in Members \ {c} : pc'[d] = pc[d] /\ pos'[d] = pos[d] /\ read'[d] = read[d]

\* A step is one of these.
LEMMA QueryStepKinds ==
    ASSUME [Next]_vars
    PROVE  \/ UNCHANGED vars
           \/ \E c \in Members :
                \/ Poll(c) \/ Deliver(c) \/ Rebalance(c) \/ Crash(c) \/ Skip(c) \/ Begin(c)
                \/ WalletCreated(c) \/ ReadBalance(c) \/ ReadStats(c)
                \/ Upsert(c) \/ AppendEntry(c) \/ MarkProcessed(c) \/ StatementFails(c)
BY Zenon DEF Next

\* What each action does to the tables.
LEMMA ActionEffects ==
    ASSUME NEW c \in Members
    PROVE  /\ Upsert(c) => Writes(c)
           /\ AppendEntry(c) => Appends(c)
           /\ MarkProcessed(c) => Marks(c)
           /\ StatementFails(c) => Effects(c)
           /\ Poll(c) \/ Deliver(c) \/ Rebalance(c) \/ Crash(c) \/ Skip(c) \/ Begin(c) \/ WalletCreated(c)
              \/ ReadBalance(c) \/ ReadStats(c) => UNCHANGED tables
<1>1. Upsert(c) => Writes(c)
    BY DEF Upsert, Writes
<1>2. AppendEntry(c) => Appends(c)
    BY DEF AppendEntry, Appends
<1>3. MarkProcessed(c) => Marks(c)
    BY DEF MarkProcessed, Marks
<1>4. StatementFails(c) => Effects(c)
    BY Zenon DEF StatementFails, Effects, Writes, Appends, Marks
<1>5. Poll(c) \/ Deliver(c) \/ Rebalance(c) \/ Crash(c) \/ Skip(c) \/ Begin(c) \/ WalletCreated(c)
      \/ ReadBalance(c) \/ ReadStats(c) => UNCHANGED tables
    BY Zenon DEF Poll, Deliver, Rebalance, Crash, Skip, Begin, WalletCreated, ReadBalance, ReadStats
<1> QED BY <1>1, <1>2, <1>3, <1>4, <1>5

\* The record of a busy member.
LEMMA RecordOf ==
    ASSUME QueryInv, NEW c \in Members, pc[c] # "idle"
    PROVE  Record(c) \in Recs
BY TopicFacts DEF QueryInv, AtInv, Record

\* The tables keep their types, rows and entries stay, and a row that is
\* written is there.
LEMMA EffectsKeep ==
    ASSUME QueryInv, NEW c \in Members, Effects(c)
    PROVE  /\ TablesOK'
           /\ \A r \in Recs : RowThere(r) => RowThere(r)'
           /\ \A r \in Recs : EntryThere(r) => EntryThere(r)'
           /\ Writes(c) => \A r \in Recs : r = Record(c) => RowThere(r)'
<1>0. /\ balances \in [Wallets -> BalanceRows] /\ stats \in [Users -> StatsRows]
      /\ AtInv(c) /\ TablesOK
    BY DEF QueryInv, TablesOK
<1>1. CASE Writes(c)
    <2>0. pc[c] = "upsert" /\ statement' = statement /\ processed' = processed
        BY <1>1 DEF Writes
    <2>a. Record(c) \in Recs /\ Record(c).wallet \in Wallets /\ Record(c).user \in Users
        BY <2>0, RecordOf, TopicFacts
    <2>b. \A r \in Recs : EntryThere(r) => EntryThere(r)'
        BY <2>0 DEF EntryThere
    <2>1. CASE Record(c).type = "TransactionCompleted"
        <3>1. /\ stats' = [stats EXCEPT ![Record(c).user] = read[c]] /\ balances' = balances
              /\ read[c] \in StatsRows /\ read[c].transactions > 0
            BY <1>0, <1>1, <2>0, <2>1 DEF Writes, WriteRow, AtInv
        <3>2. /\ stats' \in [Users -> StatsRows]
              /\ \A u \in Users : stats[u].transactions > 0 => stats'[u].transactions > 0
              /\ stats'[Record(c).user].transactions > 0
            BY <1>0, <2>a, <3>1
        <3>3. TablesOK'
            BY <1>0, <2>0, <3>1, <3>2 DEF TablesOK
        <3>4. \A r \in Recs : RowThere(r) => RowThere(r)'
            BY <3>1, <3>2, TopicFacts DEF RowThere
        <3>5. \A r \in Recs : r = Record(c) => RowThere(r)'
            BY <2>1, <3>2 DEF RowThere
        <3> QED BY <2>b, <3>3, <3>4, <3>5
    <2>2. CASE Record(c).type # "TransactionCompleted"
        <3>1. /\ balances' = [balances EXCEPT ![Record(c).wallet] = read[c]] /\ stats' = stats
              /\ read[c] \in BalanceRows /\ read[c].version # -1
            BY <1>0, <1>1, <2>0, <2>2 DEF Writes, WriteRow, AtInv
        <3>2. /\ balances' \in [Wallets -> BalanceRows]
              /\ \A w \in Wallets : balances[w].version # -1 => balances'[w].version # -1
              /\ balances'[Record(c).wallet].version # -1
            BY <1>0, <2>a, <3>1
        <3>3. TablesOK'
            BY <1>0, <2>0, <3>1, <3>2 DEF TablesOK
        <3>4. \A r \in Recs : RowThere(r) => RowThere(r)'
            BY <3>1, <3>2, TopicFacts DEF RowThere
        <3>5. \A r \in Recs : r = Record(c) => RowThere(r)'
            BY <2>2, <3>2 DEF RowThere
        <3> QED BY <2>b, <3>3, <3>4, <3>5
    <2> QED BY <2>1, <2>2
<1>2. CASE Appends(c)
    <2>0. /\ pc[c] = "append" /\ balances' = balances /\ stats' = stats /\ processed' = processed
          /\ statement' = AppendedEntry(c)
        BY <1>2 DEF Appends
    <2>1. statement \subseteq statement' /\ statement' \subseteq statement \cup {Entry(Record(c))}
        BY <2>0 DEF AppendedEntry, Entry
    <2>2. \A s \in statement' : \E i \in DOMAIN Topic : Topic[i].type \in Movements /\ s = Entry(Topic[i])
        BY <1>0, <2>0, <2>1 DEF TablesOK, AtInv, Record
    <2>a. \A s, t \in statement' : s.entry = t.entry => s = t
        BY <1>0, <2>0 DEF TablesOK, AppendedEntry
    <2>3. TablesOK'
        BY <1>0, <2>0, <2>2, <2>a DEF TablesOK
    <2>4. \A r \in Recs : (RowThere(r) => RowThere(r)') /\ (EntryThere(r) => EntryThere(r)')
        BY <2>0, <2>1 DEF RowThere, EntryThere
    <2> QED BY <2>0, <2>3, <2>4 DEF Writes
<1>3. CASE Marks(c)
    <2>0. /\ pc[c] = "mark" /\ balances' = balances /\ stats' = stats /\ statement' = statement
          /\ processed' = processed \cup {Record(c).event}
        BY <1>3 DEF Marks
    <2>1. \A e \in processed' : \E i \in DOMAIN Topic : Topic[i].event = e /\ Topic[i].type \in Types
        BY <1>0, <2>0 DEF TablesOK, AtInv, Record
    <2>2. TablesOK'
        BY <1>0, <2>0, <2>1 DEF TablesOK
    <2>3. \A r \in Recs : (RowThere(r) => RowThere(r)') /\ (EntryThere(r) => EntryThere(r)')
        BY <2>0 DEF RowThere, EntryThere
    <2> QED BY <2>0, <2>2, <2>3 DEF Writes
<1>4. CASE ~ Writes(c) /\ UNCHANGED tables
    <2>0. balances' = balances /\ stats' = stats /\ statement' = statement /\ processed' = processed
        BY <1>4 DEF tables
    <2>1. TablesOK'
        BY <1>0, <2>0 DEF TablesOK
    <2>2. \A r \in Recs : (RowThere(r) => RowThere(r)') /\ (EntryThere(r) => EntryThere(r)')
        BY <2>0 DEF RowThere, EntryThere
    <2> QED BY <1>4, <2>1, <2>2
<1> QED BY <1>1, <1>2, <1>3, <1>4 DEF Effects

\* What another member knows stays true.
LEMMA OthersKeep ==
    ASSUME QueryInv, NEW c \in Members, Effects(c), NEW d \in Members,
           pc'[d] = pc[d], pos'[d] = pos[d], read'[d] = read[d]
    PROVE  AtInv(d)'
<1>0. AtInv(d)
    BY DEF QueryInv
<1>1. Record(d)' = Record(d)
    BY DEF Record
<1>2. ASSUME pc[d] \in {"append", "mark"} PROVE RowThere(Record(d))'
    <2>1. Record(d) \in Recs /\ RowThere(Record(d))
        BY <1>0, <1>2, RecordOf DEF AtInv
    <2>2. PICK r \in Recs : r = Record(d)
        BY <2>1
    <2>3. RowThere(r)'
        BY <2>1, <2>2, EffectsKeep
    <2> QED BY <1>1, <2>2, <2>3 DEF RowThere
<1> QED BY <1>0, <1>1, <1>2 DEF AtInv

\* When the history of a tear may change, and that it is never forgotten.
LEMMA TornMoves ==
    ASSUME NEW c \in Members,
           \/ Poll(c) \/ Deliver(c) \/ Rebalance(c) \/ Crash(c) \/ Skip(c) \/ Begin(c)
           \/ WalletCreated(c) \/ ReadBalance(c) \/ ReadStats(c)
           \/ Upsert(c) \/ AppendEntry(c) \/ MarkProcessed(c) \/ StatementFails(c)
    PROVE  (torn \in BOOLEAN => torn' \in BOOLEAN) /\ (torn => torn')
<1>1. CASE Crash(c)
    BY <1>1 DEF Crash
<1>2. CASE Begin(c)
    BY <1>2 DEF Begin
<1>3. CASE ReadStats(c)
    <2>1. UNCHANGED torn \/ torn' = TRUE
        BY <1>3, Zenon DEF ReadStats
    <2>2. CASE torn' = torn
        BY <2>2
    <2>3. CASE torn' = TRUE
        BY <2>3, Zenon
    <2> QED BY <2>1, <2>2, <2>3
<1>4. CASE StatementFails(c)
    <2>1. torn' = (torn \/ pc[c] \in {"append", "mark"}) \/ torn' = TRUE \/ torn' = torn
        BY <1>4, Zenon DEF StatementFails
    <2>2. CASE torn' = torn
        BY <2>2
    <2>3. CASE torn' = TRUE
        BY <2>3, Zenon
    <2>4. CASE torn' = (torn \/ pc[c] \in {"append", "mark"})
        BY <2>4
    <2> QED BY <2>1, <2>2, <2>3, <2>4
<1>5. CASE ~ Crash(c) /\ ~ Begin(c) /\ ~ ReadStats(c) /\ ~ StatementFails(c)
    <2>1. torn' = torn
        BY <1>5 DEF Poll, Deliver, Rebalance, Skip, WalletCreated, ReadBalance, Upsert, AppendEntry, MarkProcessed
    <2> QED BY <2>1
<1> QED BY <1>1, <1>2, <1>3, <1>4, <1>5

\* The group keeps its types in every step, only one member moves, and it
\* knows what it should at its next step.
LEMMA MemberSteps ==
    ASSUME QueryInv, NEW c \in Members,
           \/ Poll(c) \/ Deliver(c) \/ Rebalance(c) \/ Crash(c) \/ Skip(c) \/ Begin(c)
           \/ WalletCreated(c) \/ ReadBalance(c) \/ ReadStats(c)
           \/ Upsert(c) \/ AppendEntry(c) \/ MarkProcessed(c) \/ StatementFails(c)
    PROVE  GroupOK' /\ Others(c) /\ AtInv(c)'
<1>0. /\ owner \in Members /\ pos \in [Members -> 0..Len(Topic)] /\ pc \in [Members -> Steps]
      /\ polled \in [Members -> 0..Len(Topic)] /\ (\A d \in Members : pos[d] <= polled[d])
      /\ read \in [Members -> BalanceRows \cup StatsRows] /\ faults \in 0..MaxFaults
      /\ torn \in BOOLEAN /\ AtInv(c)
    BY DEF QueryInv, GroupOK
<1>a. Len(Topic) \in Nat /\ DOMAIN Topic = 1..Len(Topic) /\ MaxFaults \in Nat
    BY TopicFacts, QueryAssumption
<1>b. NoRow \in BalanceRows
    BY DEF NoRow, BalanceRows
<1>c. Fault => faults' \in 0..MaxFaults
    BY <1>0, <1>a DEF Fault
<1>t. torn' \in BOOLEAN
    BY <1>0, TornMoves
<1>d. ASSUME NEW s \in Steps, Goto(c, s), pos' = pos, polled' = polled, owner' = owner,
             faults' \in 0..MaxFaults, read' \in [Members -> BalanceRows \cup StatsRows],
             \A d \in Members \ {c} : read'[d] = read[d]
      PROVE  GroupOK' /\ Others(c) /\ pc'[c] = s /\ Record(c)' = Record(c)
    BY <1>0, <1>t, <1>d DEF Goto, GroupOK, Others, Record
<1>e. ASSUME NEW p \in 0..Len(Topic), NEW q \in p..Len(Topic), pc' = [pc EXCEPT ![c] = "idle"],
             pos' = [pos EXCEPT ![c] = p], polled' = [polled EXCEPT ![c] = q],
             owner' \in Members, faults' \in 0..MaxFaults, read' = read \/ read' = [read EXCEPT ![c] = NoRow]
      PROVE  GroupOK' /\ Others(c) /\ AtInv(c)'
    <2>1. pc' \in [Members -> Steps] /\ pc'[c] = "idle"
        BY <1>0, <1>e DEF Steps
    <2>2. /\ pos' \in [Members -> 0..Len(Topic)] /\ polled' \in [Members -> 0..Len(Topic)]
          /\ \A d \in Members : pos'[d] <= polled'[d]
        BY <1>0, <1>a, <1>e
    <2>3. read' \in [Members -> BalanceRows \cup StatsRows]
        BY <1>0, <1>b, <1>e
    <2>4. Others(c)
        BY <1>0, <1>e DEF Others
    <2> QED BY <1>t, <1>e, <2>1, <2>2, <2>3, <2>4 DEF GroupOK, AtInv
<1>f. pos[c] \in 0..Len(Topic) /\ polled[c] \in pos[c]..Len(Topic)
    BY <1>0, <1>a
<1>g. CASE Poll(c)
    <2>1. PICK q \in (polled[c] + 1)..Len(Topic) : polled' = [polled EXCEPT ![c] = q]
        BY <1>g DEF Poll
    <2>2. q \in pos[c]..Len(Topic)
        BY <1>a, <1>f
    <2>3. /\ pos' = [pos EXCEPT ![c] = pos[c]] /\ pc' = [pc EXCEPT ![c] = "idle"]
          /\ owner' \in Members /\ faults' \in 0..MaxFaults /\ read' = read
        BY <1>0, <1>g DEF Poll
    <2> QED BY <1>e, <1>f, <2>1, <2>2, <2>3
<1>1. CASE Deliver(c)
    <2>1. /\ pos' = [pos EXCEPT ![c] = pos[c] + 1] /\ pos[c] < polled[c] /\ pc' = [pc EXCEPT ![c] = "check"]
          /\ UNCHANGED <<owner, polled, read, faults>>
        BY <1>1 DEF Deliver, Goto
    <2>2. pos[c] + 1 \in DOMAIN Topic /\ pos[c] + 1 \in 0..Len(Topic) /\ pos[c] + 1 <= polled[c]
        BY <1>0, <1>a, <1>f, <2>1
    <2>3. /\ pc' \in [Members -> Steps] /\ pc'[c] = "check" /\ pos' \in [Members -> 0..Len(Topic)]
          /\ pos'[c] = pos[c] + 1 /\ \A d \in Members : pos'[d] <= polled'[d]
        BY <1>0, <2>1, <2>2 DEF Steps
    <2>4. Others(c)
        BY <1>0, <2>1 DEF Others
    <2> QED BY <1>0, <1>t, <2>1, <2>2, <2>3, <2>4 DEF GroupOK, AtInv
<1>2. CASE Rebalance(c) \/ Crash(c)
    <2>1. Committable \subseteq 0..Len(Topic)
        BY <1>0, <1>a DEF Committable
    <2>2. PICK p \in 0..Len(Topic) : ContinueAfter(c, p)
        BY <1>2, <1>f, <2>1 DEF Rebalance, Crash
    <2>3. pc' = [pc EXCEPT ![c] = "idle"]
        BY <1>0, <1>2 DEF Rebalance, Crash, Goto
    <2>4. owner' \in Members /\ faults' \in 0..MaxFaults
        BY <1>0, <1>2, <1>c DEF Rebalance, Crash
    <2>5. read' = read \/ read' = [read EXCEPT ![c] = NoRow]
        BY <1>2 DEF Rebalance, Crash
    <2>6. p \in p..Len(Topic)
        BY <1>a
    <2> QED BY <1>e, <2>2, <2>3, <2>4, <2>5, <2>6 DEF ContinueAfter
<1>3. CASE Skip(c) \/ MarkProcessed(c) \/ StatementFails(c)
    <2>1. /\ pc' = [pc EXCEPT ![c] = "idle"] /\ pos' = pos /\ polled' = polled /\ owner' = owner
          /\ read' = read \/ read' = [read EXCEPT ![c] = NoRow]
        BY <1>3 DEF Skip, MarkProcessed, StatementFails, Goto
    <2>2. faults' \in 0..MaxFaults
        BY <1>0, <1>3, <1>c DEF Skip, MarkProcessed, StatementFails
    <2>3. pos' = [pos EXCEPT ![c] = pos[c]] /\ polled' = [polled EXCEPT ![c] = polled[c]]
        BY <1>0, <2>1
    <2> QED BY <1>0, <1>e, <1>f, <2>1, <2>2, <2>3
<1>4. CASE Begin(c)
    <2>1. /\ pc[c] = "check" /\ Goto(c, "read") /\ pos' = pos /\ polled' = polled /\ owner' = owner
          /\ read' = read /\ faults' = faults /\ Record(c).type \in Types
        BY <1>4 DEF Begin
    <2>2. "read" \in Steps
        BY DEF Steps
    <2>3. GroupOK' /\ Others(c) /\ pc'[c] = "read" /\ Record(c)' = Record(c)
        BY <1>0, <1>d, <2>1, <2>2
    <2> QED BY <1>0, <2>1, <2>3 DEF AtInv
<1>5. ASSUME NEW row, row \in BalanceRows \cup StatsRows, pc[c] = "read",
             read' = [read EXCEPT ![c] = row], Goto(c, "upsert"), pos' = pos, polled' = polled, owner' = owner,
             faults' \in 0..MaxFaults,
             IF Record(c).type = "TransactionCompleted" THEN row \in StatsRows /\ row.transactions > 0
                                                        ELSE row \in BalanceRows /\ row.version # -1
      PROVE  GroupOK' /\ Others(c) /\ AtInv(c)'
    <2>1. "upsert" \in Steps
        BY DEF Steps
    <2>2. /\ read' \in [Members -> BalanceRows \cup StatsRows] /\ read'[c] = row
          /\ \A d \in Members \ {c} : read'[d] = read[d]
        BY <1>0, <1>5
    <2>3. GroupOK' /\ Others(c) /\ pc'[c] = "upsert" /\ Record(c)' = Record(c)
        BY <1>5, <1>d, <2>1, <2>2
    <2> QED BY <1>0, <1>5, <2>2, <2>3 DEF AtInv
<1>6. CASE WalletCreated(c)
    <2>1. /\ pc[c] = "read" /\ read' = [read EXCEPT ![c] = NewRow] /\ Goto(c, "upsert")
          /\ pos' = pos /\ polled' = polled /\ owner' = owner /\ faults' = faults /\ Record(c).type = "WalletCreated"
        BY <1>6 DEF WalletCreated
    <2>2. NewRow \in BalanceRows /\ NewRow.version # -1
        BY DEF NewRow, BalanceRows
    <2> QED BY <1>0, <1>5, <2>1, <2>2
<1>7. CASE ReadBalance(c)
    <2>0. /\ pc[c] = "read" /\ Record(c).type \in Movements
          /\ pos' = pos /\ polled' = polled /\ owner' = owner /\ faults' = faults
        BY <1>7 DEF ReadBalance
    <2>1. CASE Goto(c, "idle") /\ UNCHANGED read
        <3>1. /\ pc' = [pc EXCEPT ![c] = "idle"] /\ pos' = [pos EXCEPT ![c] = pos[c]]
              /\ polled' = [polled EXCEPT ![c] = polled[c]]
            BY <1>0, <2>0, <2>1 DEF Goto
        <3> QED BY <1>0, <1>e, <1>f, <2>0, <2>1, <3>1
    <2>2. ASSUME ~ (Goto(c, "idle") /\ UNCHANGED read) PROVE GroupOK' /\ Others(c) /\ AtInv(c)'
        <3> DEFINE row == balances[Record(c).wallet]
                   amount == IF Record(c).type = "FundsDeposited" THEN Record(c).amount
                                                                  ELSE -Record(c).amount
                   new == [balance |-> row.balance + amount, version |-> Record(c).version]
        <3>1. read' = [read EXCEPT ![c] = new] /\ Goto(c, "upsert")
            BY <1>7, <2>2 DEF ReadBalance
        <3>2. /\ Record(c).wallet \in Wallets /\ Record(c).amount \in Nat /\ Record(c).version \in Nat
            BY <2>0, RecordOf, TopicFacts
        <3>3. row \in BalanceRows
            BY <3>2 DEF QueryInv, TablesOK
        <3>4. row.balance \in Int /\ amount \in Int
            BY <3>2, <3>3 DEF BalanceRows
        <3> HIDE DEF row, amount
        <3>5. new \in BalanceRows /\ new.version # -1
            BY <3>2, <3>4 DEF BalanceRows
        <3> HIDE DEF new
        <3> QED BY <1>0, <1>5, <2>0, <3>1, <3>5 DEF Movements
    <2> QED BY <2>1, <2>2
<1>8. CASE ReadStats(c)
    <2>0. pc[c] = "read" /\ Record(c).type = "TransactionCompleted" /\ Goto(c, "upsert") /\ pos' = pos /\ polled' = polled /\ owner' = owner
        BY <1>8 DEF ReadStats
    <2>1. PICK row \in {stats[Record(c).user], ZeroStats} :
              /\ IF row = stats[Record(c).user] THEN UNCHANGED <<faults, torn>> ELSE Fault /\ torn' = TRUE
              /\ read' = [read EXCEPT ![c] = [transactions |-> row.transactions + 1,
                                              deposits |-> row.deposits + Record(c).amount]]
        BY <1>8 DEF ReadStats
    <2>2. Record(c).user \in Users /\ Record(c).amount \in Nat
        BY <2>0, RecordOf, TopicFacts
    <2>3. row \in StatsRows
        BY <2>2 DEF QueryInv, TablesOK, ZeroStats, StatsRows
    <2>4. row.transactions \in Nat /\ row.deposits \in Nat
        BY <2>3 DEF StatsRows
    <2> DEFINE new == [transactions |-> row.transactions + 1, deposits |-> row.deposits + Record(c).amount]
    <2>5. new \in StatsRows /\ new.transactions > 0
        BY <2>2, <2>4 DEF StatsRows
    <2>6. faults' \in 0..MaxFaults
        BY <1>0, <1>c, <2>1
    <2>7. read' = [read EXCEPT ![c] = new]
        BY <2>1
    <2> HIDE DEF new
    <2> QED BY <1>5, <2>0, <2>5, <2>6, <2>7
<1>9. CASE Upsert(c)
    <2>0. /\ pc[c] = "upsert" /\ Goto(c, IF Record(c).type \in Movements THEN "append" ELSE "mark")
          /\ read' = [read EXCEPT ![c] = NoRow] /\ pos' = pos /\ polled' = polled /\ owner' = owner /\ faults' = faults
        BY <1>9 DEF Upsert
    <2>1. Record(c) \in Recs /\ \A r \in Recs : r = Record(c) => RowThere(r)'
        <3>1. Writes(c)
            BY <1>9, ActionEffects
        <3>2. Effects(c)
            BY <3>1 DEF Effects
        <3> QED BY <2>0, <3>1, <3>2, RecordOf, EffectsKeep
    <2>2. PICK s \in {"append", "mark"} : s = IF Record(c).type \in Movements THEN "append" ELSE "mark"
        OBVIOUS
    <2>3. s \in Steps
        BY DEF Steps
    <2>4. read' \in [Members -> BalanceRows \cup StatsRows] /\ \A d \in Members \ {c} : read'[d] = read[d]
        BY <1>0, <1>b, <2>0
    <2>5. GroupOK' /\ Others(c) /\ pc'[c] = s /\ Record(c)' = Record(c)
        BY <1>0, <1>d, <2>0, <2>2, <2>3, <2>4
    <2>6. RowThere(Record(c))'
        <3>1. PICK r \in Recs : r = Record(c) /\ RowThere(r)'
            BY <2>1
        <3> QED BY <2>5, <3>1 DEF RowThere
    <2>7. s = "append" => Record(c).type \in Movements
        BY <2>2
    <2> QED BY <1>0, <2>0, <2>5, <2>6, <2>7 DEF AtInv
<1>10. CASE AppendEntry(c)
    <2>0. /\ pc[c] = "append" /\ Goto(c, "mark") /\ balances' = balances /\ stats' = stats
          /\ read' = read /\ pos' = pos /\ polled' = polled /\ owner' = owner /\ faults' = faults
        BY <1>10 DEF AppendEntry
    <2>1. "mark" \in Steps
        BY DEF Steps
    <2>2. GroupOK' /\ Others(c) /\ pc'[c] = "mark" /\ Record(c)' = Record(c)
        BY <1>0, <1>d, <2>0, <2>1
    <2>3. RowThere(Record(c))'
        BY <1>0, <2>0, <2>2 DEF AtInv, RowThere
    <2> QED BY <1>0, <2>0, <2>2, <2>3 DEF AtInv
<1> QED BY <1>g, <1>1, <1>2, <1>3, <1>4, <1>6, <1>7, <1>8, <1>9, <1>10

\* It holds of the empty read model.
LEMMA QueryInvInit ==
    Init => QueryInv /\ EntryInv
<1> SUFFICES ASSUME Init PROVE QueryInv /\ EntryInv
    OBVIOUS
<1>0. /\ balances = [w \in Wallets |-> NoRow] /\ statement = {} /\ processed = {}
      /\ stats = [u \in Users |-> ZeroStats] /\ owner \in Members /\ faults = 0
      /\ pos = [c \in Members |-> 0] /\ polled = [c \in Members |-> 0]
      /\ pc = [c \in Members |-> "idle"] /\ read = [c \in Members |-> NoRow] /\ torn = FALSE
    BY DEF Init
<1>1. NoRow \in BalanceRows /\ ZeroStats \in StatsRows
    BY DEF NoRow, ZeroStats, BalanceRows, StatsRows
<1>2. TablesOK
    BY <1>0, <1>1 DEF TablesOK
<1>3. GroupOK
    <2>1. /\ 0 \in 0..Len(Topic) /\ 0 \in 0..MaxFaults
        BY TopicFacts, QueryAssumption
    <2>2. \A c \in Members : pos[c] <= polled[c]
        BY <1>0
    <2> QED BY <1>0, <1>1, <2>1, <2>2 DEF GroupOK, Steps
<1>4. \A c \in Members : pc[c] = "idle"
    BY <1>0
<1>5. \A c \in Members : AtInv(c)
    BY <1>4 DEF AtInv
<1> QED BY <1>0, <1>2, <1>3, <1>4, <1>5 DEF QueryInv, EntryInv

\* A step of the handler leaves what is processed projected: the event that
\* is marked has its row.
LEMMA QueryInvStep ==
    QueryInv /\ [Next]_vars => QueryInv'
<1> SUFFICES ASSUME QueryInv, [Next]_vars PROVE QueryInv'
    OBVIOUS
<1>1. CASE UNCHANGED vars
    BY <1>1 DEF vars, QueryInv, TablesOK, GroupOK, AtInv, RowThere, Record
<1>2. ASSUME NEW c \in Members,
             \/ Poll(c) \/ Deliver(c) \/ Rebalance(c) \/ Crash(c) \/ Skip(c) \/ Begin(c)
             \/ WalletCreated(c) \/ ReadBalance(c) \/ ReadStats(c)
             \/ Upsert(c) \/ AppendEntry(c) \/ MarkProcessed(c) \/ StatementFails(c)
      PROVE  QueryInv'
    <2>1. GroupOK' /\ Others(c) /\ AtInv(c)'
        BY <1>2, MemberSteps
    <2>2. Effects(c)
        BY <1>2, ActionEffects DEF Effects
    <2>3. TablesOK' /\ \A r \in Recs : RowThere(r) => RowThere(r)'
        BY <2>2, EffectsKeep
    <2>4. \A d \in Members : AtInv(d)'
        <3> TAKE d \in Members
        <3>1. CASE d = c
            BY <2>1, <3>1
        <3>2. CASE d # c
            BY <2>1, <2>2, <3>2, OthersKeep DEF Others
        <3> QED BY <3>1, <3>2
    <2>5. ASSUME NEW r \in Recs, r.event \in processed' PROVE RowThere(r)'
        <3>1. CASE r.event \in processed
            BY <2>3, <3>1 DEF QueryInv
        <3>2. CASE r.event \notin processed
            <4>1. Marks(c)
                BY <2>2, <2>5, <3>2 DEF Effects, Writes, Appends, tables
            <4>2. pc[c] = "mark" /\ r.event = Record(c).event
                BY <2>5, <3>2, <4>1 DEF Marks
            <4>3. Record(c) \in Recs /\ RowThere(Record(c))
                BY <4>2, RecordOf DEF QueryInv, AtInv
            <4>4. r = Record(c)
                BY <4>2, <4>3, TopicFacts
            <4> QED BY <2>3, <4>3, <4>4
        <3> QED BY <3>1, <3>2
    <2> QED BY <2>1, <2>3, <2>4, <2>5 DEF QueryInv
<1> QED BY <1>1, <1>2, QueryStepKinds

\* The conflict that statement.Append ignores is with an entry of the same id.
LEMMA EntryInvStep ==
    QueryInv /\ EntryInv /\ [Next]_vars => EntryInv'
<1> SUFFICES ASSUME QueryInv, EntryInv, [Next]_vars PROVE EntryInv'
    OBVIOUS
<1>1. CASE UNCHANGED vars
    BY <1>1 DEF vars, EntryInv, EntryThere, Record
<1>2. ASSUME NEW c \in Members,
             \/ Poll(c) \/ Deliver(c) \/ Rebalance(c) \/ Crash(c) \/ Skip(c) \/ Begin(c)
             \/ WalletCreated(c) \/ ReadBalance(c) \/ ReadStats(c)
             \/ Upsert(c) \/ AppendEntry(c) \/ MarkProcessed(c) \/ StatementFails(c)
      PROVE  EntryInv'
    <2>1. Others(c)
        BY <1>2, MemberSteps
    <2>2. Effects(c)
        BY <1>2, ActionEffects DEF Effects
    <2>3. \A r \in Recs : EntryThere(r) => EntryThere(r)'
        BY <2>2, EffectsKeep
    <2>4. pc[c] = "append" /\ statement' = AppendedEntry(c) => \E s \in statement' : s.entry = Record(c).entry
        <3> DEFINE new == [entry |-> Record(c).entry, amount |-> Record(c).amount]
        <3>1. new.entry = Record(c).entry
            OBVIOUS
        <3> QED BY <3>1 DEF AppendedEntry
    <2>5. ASSUME NEW d \in Members, pc'[d] = "mark" PROVE EntryThere(Record(d))'
        <3>1. CASE d # c
            <4>1. pc[d] = "mark" /\ Record(d)' = Record(d)
                BY <2>1, <2>5, <3>1 DEF Others, Record
            <4>2. PICK r \in Recs : r = Record(d)
                BY <4>1, RecordOf
            <4>3. EntryThere(r)'
                BY <2>3, <4>1, <4>2 DEF EntryInv
            <4> QED BY <4>1, <4>2, <4>3 DEF EntryThere
        <3>2. CASE d = c
            <4>1. GroupOK
                BY DEF QueryInv
            <4>2. CASE AppendEntry(c)
                <5>1. pc[c] = "append" /\ statement' = AppendedEntry(c) /\ Record(c)' = Record(c)
                    BY <4>2 DEF AppendEntry, Record
                <5> QED BY <2>4, <3>2, <5>1 DEF EntryThere
            <4>3. CASE Upsert(c)
                <5>1. pc' = [pc EXCEPT ![c] = IF Record(c).type \in Movements THEN "append" ELSE "mark"]
                      /\ Record(c)' = Record(c)
                    BY <4>3 DEF Upsert, Goto, Record
                <5>2. pc'[c] = IF Record(c).type \in Movements THEN "append" ELSE "mark"
                    BY <4>1, <5>1 DEF GroupOK
                <5> QED BY <2>5, <3>2, <5>1, <5>2 DEF EntryThere
            <4>4. CASE ~ AppendEntry(c) /\ ~ Upsert(c)
                <5>1. \E s \in {"idle", "check", "read", "upsert"} : pc' = [pc EXCEPT ![c] = s]
                    <6>1. CASE Rebalance(c)
                        BY <4>1, <6>1, pc = [pc EXCEPT ![c] = pc[c]] DEF Rebalance, GroupOK
                    <6>2. CASE ReadBalance(c)
                        BY <6>2 DEF ReadBalance, Goto
                    <6>3. CASE ~ Rebalance(c) /\ ~ ReadBalance(c)
                        BY <1>2, <4>4, <6>3, <4>1, pc = [pc EXCEPT ![c] = pc[c]] DEF Poll, GroupOK, Deliver, Crash, Skip, Begin, WalletCreated, ReadStats,
                            MarkProcessed, StatementFails, Goto
                    <6> QED BY <6>1, <6>2, <6>3
                <5>2. pc'[c] # "mark"
                    BY <4>1, <5>1 DEF GroupOK
                <5> QED BY <2>5, <3>2, <5>2
            <4> QED BY <4>2, <4>3, <4>4
        <3> QED BY <3>1, <3>2
    <2>6. ASSUME NEW r \in Recs, r.event \in processed' PROVE EntryThere(r)'
        <3>1. CASE r.event \in processed
            BY <2>3, <3>1 DEF EntryInv
        <3>2. CASE r.event \notin processed
            <4>1. Marks(c)
                BY <2>2, <2>6, <3>2 DEF Effects, Writes, Appends, tables
            <4>2. pc[c] = "mark" /\ r.event = Record(c).event
                BY <2>6, <3>2, <4>1 DEF Marks
            <4>3. Record(c) \in Recs /\ EntryThere(Record(c))
                BY <4>2, RecordOf DEF EntryInv
            <4>4. r = Record(c)
                BY <4>2, <4>3, TopicFacts
            <4> QED BY <2>3, <4>3, <4>4
        <3> QED BY <3>1, <3>2
    <2> QED BY <2>5, <2>6 DEF EntryInv
<1> QED BY <1>1, <1>2, QueryStepKinds

\* It always holds.
LEMMA QueryInvHolds ==
    Spec => []QueryInv
<1> QED BY QueryInvInit, QueryInvStep, PTL DEF Spec

\* The read model keeps its types whatever fails and whoever handles a record
\* again: only events that a handler is for are ever marked processed.
THEOREM QueryTypeCorrect ==
    Spec => []TypeOK
<1>1. QueryInv => TypeOK
    <2> SUFFICES ASSUME QueryInv PROVE TypeOK
        OBVIOUS
    <2>0. TablesOK /\ GroupOK
        BY DEF QueryInv
    <2>1. \A w \in Wallets : balances[w].balance \in Int /\ balances[w].version \in Nat \cup {-1}
        BY <2>0 DEF TablesOK, BalanceRows
    <2>2. \A u \in Users : stats[u].transactions \in Nat /\ stats[u].deposits \in Nat
        BY <2>0 DEF TablesOK, StatsRows
    <2>3. ASSUME NEW s \in statement
          PROVE  \E i \in DOMAIN Topic : s.entry = Topic[i].entry /\ Topic[i].type \in Movements
        BY <2>0 DEF TablesOK, Entry
    <2>4. ASSUME NEW e \in processed
          PROVE  e \in {r.event : r \in {q \in RecordsOf(Events) : q.type \in Types}}
        BY <2>0 DEF TablesOK, RecordsOf, Events
    <2> QED BY <2>0, <2>1, <2>2, <2>3, <2>4 DEF TypeOK, GroupOK, Steps
<1> QED BY <1>1, QueryInvHolds, PTL

\* Whatever fails, and however often a movement is handled again, by this
\* member or by another that still had the partition, the statement has one
\* entry with its id, and has it before the event is marked processed.
THEOREM StatementAlwaysIdempotent ==
    Spec => []StatementIsIdempotent
<1>1. QueryInv /\ EntryInv => StatementIsIdempotent
    <2> SUFFICES ASSUME QueryInv, EntryInv PROVE StatementIsIdempotent
        OBVIOUS
    <2>1. \A s, t \in statement : s.entry = t.entry => s = t
        BY DEF QueryInv, TablesOK
    <2>2. ASSUME NEW r \in RecordsOf(processed), r.type \in Movements
          PROVE  \E s \in statement : s.entry = r.entry
        <3>1. r \in Recs /\ r.event \in processed
            BY DEF RecordsOf, Recs
        <3> QED BY <2>2, <3>1 DEF EntryInv, EntryThere
    <2> QED BY <2>1, <2>2 DEF StatementIsIdempotent
<1> QED BY <1>1, QueryInvInit, QueryInvStep, EntryInvStep, PTL DEF Spec

-----------------------------------------------------------------------------
(* The read model: sums over the topic.                                    *)

\* f is the running sum of the terms.
IsSum(f, terms) ==
    /\ f \in [Nat -> Int] /\ f[0] = 0
    /\ \A n \in Nat : f[n + 1] = f[n] + terms[n + 1]

\* SumOf is the last running sum.
LEMMA SumFacts ==
    ASSUME NEW terms \in [Nat -> Int]
    PROVE  \E f : IsSum(f, terms) /\ SumOf(terms) = f[Len(Topic)]
<1> DEFINE Body(h) == [n \in Nat |-> IF n = 0 THEN 0 ELSE h[n - 1] + terms[n]]
           g == [x \in Nat \X Int |-> x[2] + terms[x[1] + 1]]
<1>1. g \in [Nat \X Int -> Int] /\ \A n \in Nat, i \in Int : g[<<n, i>>] = i + terms[n + 1]
    OBVIOUS
<1>2. PICK f : IsRecursion(f, Int, 0, g)
    <2> HIDE DEF g
    <2>1. g \in RecursionSteps(Int)
        BY <1>1 DEF RecursionSteps
    <2>2. 0 \in Int
        OBVIOUS
    <2>3. \A S, x0, h : x0 \in S /\ h \in RecursionSteps(S) => \E f : IsRecursion(f, S, x0, h)
        BY PrimitiveRecursion
    <2> QED BY ONLY <2>1, <2>2, <2>3, Zenon
<1>3. f \in [Nat -> Int] /\ f[0] = 0 /\ \A n \in Nat : f[n + 1] = f[n] + terms[n + 1]
    <2> HIDE DEF g
    <2> QED BY <1>1, <1>2 DEF IsRecursion
<1>4. ASSUME NEW n \in Nat, n # 0 PROVE f[n] = f[n - 1] + terms[n]
    <2>1. n - 1 \in Nat /\ (n - 1) + 1 = n
        BY <1>4
    <2>2. f[(n - 1) + 1] = f[n - 1] + terms[(n - 1) + 1]
        BY <1>3, <2>1
    <2> QED BY <2>1, <2>2
<1>5. f = Body(f)
    BY <1>3, <1>4
<1> DEFINE s == CHOOSE h : h = Body(h)
<1>6. s = Body(s)
    <2> HIDE DEF Body
    <2> QED BY <1>5
<1>7. SumOf(terms) = s[Len(Topic)]
    BY DEF SumOf
<1> HIDE DEF s
<1>8. s[0] = 0 /\ \A n \in Nat : s[n + 1] = s[n] + terms[n + 1]
    BY <1>6
<1> DEFINE A == {n \in Nat : s[n] \in Int}
<1>9. \A n \in Nat : n \in A
    <2>1. 0 \in A /\ \A n \in Nat : n \in A => n + 1 \in A
        BY <1>8
    <2> HIDE DEF A
    <2> QED BY <2>1, SetInduction
<1>10. s \in [Nat -> Int]
    <2>1. DOMAIN s = Nat /\ s = [n \in DOMAIN s |-> s[n]]
        BY <1>6
    <2> QED BY <1>9, <2>1
<1> QED BY <1>7, <1>8, <1>10 DEF IsSum

\* A sum is an integer, and zero when all its terms are.
LEMMA SumType ==
    ASSUME NEW terms \in [Nat -> Int]
    PROVE  /\ SumOf(terms) \in Int
           /\ (\A n \in Nat : terms[n] = 0) => SumOf(terms) = 0
<1>1. PICK f : IsSum(f, terms) /\ SumOf(terms) = f[Len(Topic)]
    BY SumFacts
<1>2. SumOf(terms) \in Int
    BY <1>1, TopicFacts DEF IsSum
<1>3. ASSUME \A n \in Nat : terms[n] = 0 PROVE SumOf(terms) = 0
    <2> DEFINE A == {n \in Nat : f[n] = 0}
    <2>1. 0 \in A /\ \A n \in Nat : n \in A => n + 1 \in A
        BY <1>1, <1>3 DEF IsSum
    <2>2. \A n \in Nat : n \in A
        <3> HIDE DEF A
        <3> QED BY <2>1, SetInduction
    <2> QED BY <1>1, <2>2, TopicFacts
<1> QED BY <1>2, <1>3

\* Changing one term changes the sum by as much.
LEMMA SumAdd ==
    ASSUME NEW s \in [Nat -> Int], NEW t \in [Nat -> Int], NEW p \in DOMAIN Topic, NEW d \in Int,
           t[p] = s[p] + d, \A n \in Nat : n # p => t[n] = s[n]
    PROVE  SumOf(t) = SumOf(s) + d
<1>0. p \in Nat /\ p > 0 /\ p <= Len(Topic) /\ Len(Topic) \in Nat
    BY TopicFacts
<1>1. PICK f : IsSum(f, s) /\ SumOf(s) = f[Len(Topic)]
    BY SumFacts
<1>2. PICK g : IsSum(g, t) /\ SumOf(t) = g[Len(Topic)]
    BY SumFacts
<1> DEFINE A == {n \in Nat : g[n] = f[n] + (IF n >= p THEN d ELSE 0)}
<1>3. 0 \in A
    BY <1>0, <1>1, <1>2 DEF IsSum
<1>4. ASSUME NEW n \in Nat, n \in A PROVE n + 1 \in A
    <2>1. /\ g[n + 1] = g[n] + t[n + 1] /\ f[n + 1] = f[n] + s[n + 1]
          /\ f[n] \in Int /\ g[n] \in Int /\ s[n + 1] \in Int /\ t[n + 1] \in Int
        BY <1>1, <1>2, n + 1 \in Nat DEF IsSum
    <2>2. CASE n + 1 = p
        <3>1. t[n + 1] = s[n + 1] + d /\ g[n] = f[n]
            BY <1>0, <1>1, <1>4, <2>1, <2>2
        <3> QED BY <2>1, <2>2, <3>1
    <2>3. CASE n + 1 # p
        <3>1. t[n + 1] = s[n + 1] /\ (n + 1 >= p <=> n >= p)
            BY <1>0, <2>3
        <3> QED BY <1>4, <2>1, <3>1
    <2> QED BY <2>2, <2>3
<1>5. \A n \in Nat : n \in A
    <2> HIDE DEF A
    <2> QED BY <1>3, <1>4, SetInduction
<1> QED BY <1>0, <1>1, <1>2, <1>5

-----------------------------------------------------------------------------
(* The read model: what one more event adds.                               *)

\* What a record adds to the balance of a wallet.
AmountFor(r, w) ==
    CASE r.wallet = w /\ r.type = "FundsDeposited" -> r.amount
      [] r.wallet = w /\ r.type = "FundsWithdrawn" -> -r.amount
      [] OTHER -> 0

\* Only the first record of an event counts, so one more event makes one more
\* record count.
LEMMA OneMoreCounts ==
    ASSUME NEW E, NEW p \in DOMAIN Topic, IsFirst(p), Topic[p].event \notin E
    PROVE  /\ ~ Counts(E, p) /\ Counts(E \cup {Topic[p].event}, p)
           /\ \A n \in Nat : n # p => (Counts(E \cup {Topic[p].event}, n) <=> Counts(E, n))
<1>1. ASSUME NEW n \in DOMAIN Topic, IsFirst(n), Topic[n].event = Topic[p].event PROVE n = p
    <2>1. n \in Nat /\ p \in Nat /\ n >= 1 /\ p >= 1
        BY TopicFacts
    <2>2. ~ (n < p) /\ ~ (p < n)
        BY <1>1, <2>1 DEF IsFirst
    <2> QED BY <2>1, <2>2
<1> QED BY <1>1 DEF Counts

\* The balance of a wallet grows by what the event's record adds.
LEMMA OneMoreBalance ==
    ASSUME NEW E, NEW p \in DOMAIN Topic, IsFirst(p), Topic[p].event \notin E, NEW w
    PROVE  /\ BalanceOf(E, w) \in Int
           /\ BalanceOf(E \cup {Topic[p].event}, w) = BalanceOf(E, w) + AmountFor(Topic[p], w)
<1> DEFINE F == E \cup {Topic[p].event}
           Term(D, n) == CASE Counts(D, n) /\ Topic[n].wallet = w /\ Topic[n].type = "FundsDeposited" -> Topic[n].amount
                           [] Counts(D, n) /\ Topic[n].wallet = w /\ Topic[n].type = "FundsWithdrawn" -> -Topic[n].amount
                           [] OTHER -> 0
           Terms(D) == [n \in Nat |-> Term(D, n)]
<1>0. /\ ~ Counts(E, p) /\ Counts(F, p)
      /\ \A n \in Nat : n # p => (Counts(F, n) <=> Counts(E, n))
    BY OneMoreCounts
<1>1. \A D, n : Term(D, n) \in Int
    BY QueryAssumption DEF Counts
<1>2. Terms(E) \in [Nat -> Int] /\ Terms(F) \in [Nat -> Int]
    <2> HIDE DEF Term
    <2> QED BY <1>1
<1>3. p \in Nat /\ AmountFor(Topic[p], w) \in Int
    BY TopicFacts, QueryAssumption DEF AmountFor
<1> HIDE DEF F
<1>4. Term(E, p) = 0 /\ Term(F, p) = AmountFor(Topic[p], w)
    BY <1>0 DEF AmountFor
<1>5. \A n \in Nat : n # p => Term(F, n) = Term(E, n)
    BY <1>0
<1>6. BalanceOf(E, w) = SumOf(Terms(E)) /\ BalanceOf(F, w) = SumOf(Terms(F))
    BY DEF BalanceOf
<1> HIDE DEF Term
<1>7. Terms(F)[p] = Terms(E)[p] + AmountFor(Topic[p], w) /\ \A n \in Nat : n # p => Terms(F)[n] = Terms(E)[n]
    BY <1>3, <1>4, <1>5
<1> HIDE DEF Terms
<1>8. SumOf(Terms(E)) \in Int /\ SumOf(Terms(F)) = SumOf(Terms(E)) + AmountFor(Topic[p], w)
    BY <1>2, <1>3, <1>7, SumType, SumAdd
<1> QED BY <1>6, <1>8 DEF F

\* A wallet without movements has a balance of zero.
LEMMA NoMovementsNoBalance ==
    ASSUME NEW E, NEW w, MovementsOf(E, w) = {}
    PROVE  BalanceOf(E, w) = 0
<1> DEFINE Term(n) == CASE Counts(E, n) /\ Topic[n].wallet = w /\ Topic[n].type = "FundsDeposited" -> Topic[n].amount
                        [] Counts(E, n) /\ Topic[n].wallet = w /\ Topic[n].type = "FundsWithdrawn" -> -Topic[n].amount
                        [] OTHER -> 0
           terms == [n \in Nat |-> Term(n)]
<1>1. \A n \in Nat : Term(n) = 0
    <2>1. \A n \in Nat : ~ (Counts(E, n) /\ Topic[n].wallet = w /\ Topic[n].type \in Movements)
        BY DEF MovementsOf, RecordsOf, Counts
    <2> QED BY <2>1 DEF Movements
<1>2. BalanceOf(E, w) = SumOf(terms)
    BY DEF BalanceOf
<1> HIDE DEF Term
<1>3. terms \in [Nat -> Int] /\ \A n \in Nat : terms[n] = 0
    BY <1>1
<1> HIDE DEF terms
<1> QED BY <1>2, <1>3, SumType

\* So do the statistics of a user, by a completion of theirs.
LEMMA OneMoreStats ==
    ASSUME NEW E, NEW p \in DOMAIN Topic, IsFirst(p), Topic[p].event \notin E, NEW u
    PROVE  LET F == E \cup {Topic[p].event}
               old == StatsOf(E, u)
           IN  /\ old.transactions \in Int /\ old.deposits \in Int
               /\ StatsOf(F, u) = IF Topic[p].type = "TransactionCompleted" /\ Topic[p].user = u
                    THEN [transactions |-> old.transactions + 1, deposits |-> old.deposits + Topic[p].amount]
                    ELSE old
<1> DEFINE F == E \cup {Topic[p].event}
           ones(D) == [n \in Nat |-> IF Completes(D, u, n) THEN 1 ELSE 0]
           amounts(D) == [n \in Nat |-> IF Completes(D, u, n) THEN Topic[n].amount ELSE 0]
           Is == Topic[p].type = "TransactionCompleted" /\ Topic[p].user = u
<1>0. /\ ~ Completes(E, u, p) /\ (Completes(F, u, p) <=> Is)
      /\ \A n \in Nat : n # p => (Completes(F, u, n) <=> Completes(E, u, n))
    BY OneMoreCounts DEF Completes
<1>1. \A D, n : Completes(D, u, n) => Topic[n].amount \in Nat
    BY QueryAssumption DEF Completes, Counts
<1>2. ones(E) \in [Nat -> Int] /\ ones(F) \in [Nat -> Int]
    OBVIOUS
<1>3. amounts(E) \in [Nat -> Int] /\ amounts(F) \in [Nat -> Int]
    BY <1>1
<1>4. p \in Nat /\ Topic[p].amount \in Int
    BY TopicFacts, QueryAssumption
<1> HIDE DEF F
<1>5. \E d \in {0, 1} : /\ d = (IF Is THEN 1 ELSE 0) /\ ones(F)[p] = ones(E)[p] + d
                        /\ \A n \in Nat : n # p => ones(F)[n] = ones(E)[n]
    BY <1>0, <1>4
<1>6. \E d \in {0, Topic[p].amount} :
          /\ d = (IF Is THEN Topic[p].amount ELSE 0) /\ amounts(F)[p] = amounts(E)[p] + d
          /\ \A n \in Nat : n # p => amounts(F)[n] = amounts(E)[n]
    BY <1>0, <1>4
<1>7. \A D : StatsOf(D, u) = [transactions |-> SumOf(ones(D)), deposits |-> SumOf(amounts(D))]
    BY DEF StatsOf
<1> HIDE DEF ones, amounts, Is
<1>8. SumOf(ones(E)) \in Int /\ SumOf(ones(F)) = SumOf(ones(E)) + (IF Is THEN 1 ELSE 0)
    <2>1. PICK d \in {0, 1} : /\ d = (IF Is THEN 1 ELSE 0) /\ ones(F)[p] = ones(E)[p] + d
                              /\ \A n \in Nat : n # p => ones(F)[n] = ones(E)[n]
        BY <1>5
    <2>2. d \in Int
        BY <2>1
    <2> QED BY <1>2, <2>1, <2>2, SumType, SumAdd
<1>9. SumOf(amounts(E)) \in Int /\ SumOf(amounts(F)) = SumOf(amounts(E)) + (IF Is THEN Topic[p].amount ELSE 0)
    <2>1. PICK d \in {0, Topic[p].amount} :
              /\ d = (IF Is THEN Topic[p].amount ELSE 0) /\ amounts(F)[p] = amounts(E)[p] + d
              /\ \A n \in Nat : n # p => amounts(F)[n] = amounts(E)[n]
        BY <1>6
    <2>2. d \in Int
        BY <1>4, <2>1
    <2> QED BY <1>3, <2>1, <2>2, SumType, SumAdd
<1>10. CASE Is
    BY <1>4, <1>7, <1>8, <1>9, <1>10 DEF Is, F
<1>11. CASE ~ Is
    BY <1>7, <1>8, <1>9, <1>11 DEF Is, F
<1> QED BY <1>10, <1>11

-----------------------------------------------------------------------------
(* The read model: it is exact as long as it is not torn.                  *)

With(E, r) == E \cup {r.event}
EntryIdsOf(E) == {r.entry : r \in {q \in RecordsOf(E) : q.type \in Movements}}

\* Every record is the same as the first one of its event.
LEMMA FirstRecord ==
    ASSUME NEW r \in Recs
    PROVE  \E p \in DOMAIN Topic : IsFirst(p) /\ Topic[p] = r
<1> DEFINE T == {n \in DOMAIN Topic : Topic[n].event = r.event}
<1>0. DOMAIN Topic = 1..Len(Topic) /\ Len(Topic) \in Nat
    BY TopicFacts
<1>1. T \in SUBSET Nat /\ T # {}
    BY <1>0 DEF Recs
<1>2. PICK p \in T : \A m \in T : p <= m
    <2> HIDE DEF T
    <2> QED BY <1>1, NatLeast
<1>3. p \in DOMAIN Topic /\ Topic[p] = r
    BY <1>2, TopicFacts
<1>4. ASSUME NEW m \in 1..(p - 1) PROVE Topic[m].event # Topic[p].event
    <2>1. m \in DOMAIN Topic /\ m < p
        BY <1>0, <1>3
    <2>2. m \in T => p <= m
        BY <1>2
    <2> QED BY <1>0, <1>3, <2>1, <2>2
<1> QED BY <1>3, <1>4 DEF IsFirst

\* What a record adds whose event is not among those in E.
LEMMA OneMore ==
    ASSUME NEW E, NEW r \in Recs, r.event \notin E
    PROVE  /\ \A w : /\ BalanceOf(E, w) \in Int
                     /\ BalanceOf(With(E, r), w) = BalanceOf(E, w) + AmountFor(r, w)
           /\ \A u : LET old == StatsOf(E, u)
                     IN  StatsOf(With(E, r), u) =
                           IF r.type = "TransactionCompleted" /\ r.user = u
                           THEN [transactions |-> old.transactions + 1, deposits |-> old.deposits + r.amount]
                           ELSE old
           /\ EntryIdsOf(With(E, r)) = EntryIdsOf(E) \cup (IF r.type \in Movements THEN {r.entry} ELSE {})
<1>1. PICK p \in DOMAIN Topic : IsFirst(p) /\ Topic[p] = r
    BY FirstRecord
<1>2. \A w : BalanceOf(E, w) \in Int /\ BalanceOf(With(E, r), w) = BalanceOf(E, w) + AmountFor(r, w)
    BY <1>1, OneMoreBalance DEF With
<1>3. \A u : LET old == StatsOf(E, u)
             IN  StatsOf(With(E, r), u) =
                   IF r.type = "TransactionCompleted" /\ r.user = u
                   THEN [transactions |-> old.transactions + 1, deposits |-> old.deposits + r.amount]
                   ELSE old
    BY <1>1, OneMoreStats DEF With
<1>4. RecordsOf(With(E, r)) = RecordsOf(E) \cup {r}
    <2>1. \A j \in DOMAIN Topic : Topic[j].event = r.event => Topic[j] = r
        BY <1>1, TopicFacts
    <2> QED BY <1>1, <2>1 DEF RecordsOf, With
<1>5. CASE r.type \in Movements
    <2>1. EntryIdsOf(With(E, r)) = EntryIdsOf(E) \cup {r.entry}
        BY <1>4, <1>5 DEF EntryIdsOf
    <2> QED BY <1>2, <1>3, <1>5, <2>1
<1>6. CASE r.type \notin Movements
    <2>1. EntryIdsOf(With(E, r)) = EntryIdsOf(E)
        BY <1>4, <1>6 DEF EntryIdsOf
    <2> QED BY <1>2, <1>3, <1>6, <2>1
<1> QED BY <1>5, <1>6

\* Nothing is projected at first.
LEMMA NothingYet ==
    /\ EntryIdsOf({}) = {}
    /\ \A u : StatsOf({}, u) = ZeroStats
<1>1. EntryIdsOf({}) = {}
    BY DEF EntryIdsOf, RecordsOf
<1>2. ASSUME NEW u PROVE StatsOf({}, u) = ZeroStats
    <2> DEFINE ones == [n \in Nat |-> IF Completes({}, u, n) THEN 1 ELSE 0]
               amounts == [n \in Nat |-> IF Completes({}, u, n) THEN Topic[n].amount ELSE 0]
    <2>1. StatsOf({}, u) = [transactions |-> SumOf(ones), deposits |-> SumOf(amounts)]
        BY DEF StatsOf
    <2>2. \A n : ~ Completes({}, u, n)
        BY DEF Completes, Counts
    <2>3. /\ ones \in [Nat -> Int] /\ amounts \in [Nat -> Int]
          /\ \A n \in Nat : ones[n] = 0 /\ amounts[n] = 0
        BY <2>2
    <2> HIDE DEF ones, amounts
    <2>4. SumOf(ones) = 0 /\ SumOf(amounts) = 0
        BY <2>3, SumType
    <2> QED BY <2>1, <2>4 DEF ZeroStats
<1> QED BY <1>1, <1>2

\* The creation of a wallet is among the events.
Created(E, w) == \E q \in Recs : q.type = "WalletCreated" /\ q.wallet = w /\ q.event \in E

\* The tables are what the events in E come to.
RowsAre(E) ==
    \A w \in Wallets : balances[w] # NoRow => balances[w].balance = BalanceOf(E, w) /\ Created(E, w)
StatsAre(E) == \A u \in Users : stats[u] = StatsOf(E, u)
EntriesAre(E) == {s.entry : s \in statement} = EntryIdsOf(E)
AllAre(E) == RowsAre(E) /\ StatsAre(E) /\ EntriesAre(E)

\* The row that Upsert will write for record r is what the events come to
\* with it.
RowFits(row, E, r) ==
    IF r.type = "TransactionCompleted"
    THEN row = StatsOf(With(E, r), r.user)
    ELSE row.balance = BalanceOf(With(E, r), r.wallet) /\ Created(With(E, r), r.wallet)

\* At step s of record r, after the events in E: past Upsert and Append the
\* tables are ahead of query_processed_events by that record.
ExactAt(s, r, E, row) ==
    /\ r \in Recs /\ r.event \notin E
    /\ s \in {"read", "upsert"} => AllAre(E)
    /\ s = "upsert" => RowFits(row, E, r)
    /\ s \in {"append", "mark"} => RowsAre(With(E, r)) /\ StatsAre(With(E, r))
    /\ s = "append" => EntriesAre(E)
    /\ s = "mark" => EntriesAre(With(E, r))

AtWork(c) == pc[c] \notin {"idle", "check"}

\* As long as nothing is torn one member is at work at most, on an event that
\* is not processed.
ExactInv ==
    ~ torn =>
        /\ \A c, d \in Members : AtWork(c) /\ AtWork(d) => c = d
        /\ (\A c \in Members : ~ AtWork(c)) => AllAre(processed)
        /\ \A c \in Members : AtWork(c) => ExactAt(pc[c], Record(c), processed, read[c])

\* It holds at first.
LEMMA ExactInit ==
    Init => ExactInv
<1> SUFFICES ASSUME Init PROVE ExactInv
    OBVIOUS
<1>0. /\ balances = [w \in Wallets |-> NoRow] /\ statement = {} /\ processed = {}
      /\ stats = [u \in Users |-> ZeroStats] /\ pc = [c \in Members |-> "idle"]
    BY DEF Init
<1>1. \A c \in Members : ~ AtWork(c)
    BY <1>0 DEF AtWork
<1>2. AllAre({})
    BY <1>0, NothingYet DEF AllAre, RowsAre, StatsAre, EntriesAre
<1> QED BY <1>0, <1>1, <1>2 DEF ExactInv

\* The tables stay what they are.
LEMMA SameTables ==
    ASSUME UNCHANGED <<balances, statement, stats>>, NEW E
    PROVE  /\ RowsAre(E) => RowsAre(E)'
           /\ StatsAre(E) => StatsAre(E)'
           /\ EntriesAre(E) => EntriesAre(E)'
           /\ AllAre(E) => AllAre(E)'
BY DEF RowsAre, StatsAre, EntriesAre, AllAre

\* A member that is not at work after a step that changed nothing.
LEMMA Idles ==
    ASSUME QueryInv, ExactInv, ~ torn, NEW c \in Members, Others(c), UNCHANGED tables,
           ~ AtWork(c)', pc[c] \notin {"append", "mark"}
    PROVE  ExactInv'
<1>0. UNCHANGED <<balances, statement, stats, processed>>
    BY DEF tables
<1>1. PICK E : E = processed
    OBVIOUS
<1>2. \A d \in Members : AtWork(d)' => d # c /\ AtWork(d) /\ pc'[d] = pc[d] /\ Record(d)' = Record(d) /\ read'[d] = read[d]
    BY DEF Others, AtWork, Record
<1>3. \A d, e \in Members : AtWork(d)' /\ AtWork(e)' => d = e
    BY <1>2 DEF ExactInv
<1>4. ASSUME \A d \in Members : ~ AtWork(d)' PROVE AllAre(E)'
    <2>1. AllAre(E)
        <3>1. CASE AtWork(c)
            <4>1. ExactAt(pc[c], Record(c), E, read[c])
                BY <1>1, <3>1 DEF ExactInv
            <4>2. pc[c] \in {"read", "upsert"}
                BY <3>1 DEF AtWork, QueryInv, GroupOK, Steps
            <4> QED BY <4>1, <4>2 DEF ExactAt
        <3>2. CASE ~ AtWork(c)
            <4>1. \A d \in Members : ~ AtWork(d)
                BY <1>4, <3>2 DEF Others, AtWork
            <4> QED BY <1>1, <4>1 DEF ExactInv
        <3> QED BY <3>1, <3>2
    <2> QED BY <1>0, <2>1, SameTables
<1>5. ASSUME NEW d \in Members, AtWork(d)' PROVE ExactAt(pc[d], Record(d), processed, read[d])'
    <2>1. /\ AtWork(d) /\ pc'[d] = pc[d] /\ Record(d)' = Record(d) /\ read'[d] = read[d]
          /\ ExactAt(pc[d], Record(d), E, read[d])
        BY <1>1, <1>2, <1>5 DEF ExactInv
    <2>2. PICK s, r, row : s = pc[d] /\ r = Record(d) /\ row = read[d]
        OBVIOUS
    <2>3. ExactAt(s, r, E, row)'
        BY <1>0, <2>1, <2>2, SameTables DEF ExactAt, RowFits
    <2> QED BY <1>0, <1>1, <2>1, <2>2, <2>3 DEF ExactAt, RowFits, AllAre, RowsAre, StatsAre, EntriesAre
<1> QED BY <1>0, <1>1, <1>3, <1>4, <1>5 DEF ExactInv

\* It is enough to know the next step of the one member at work.
LEMMA Works ==
    ASSUME QueryInv, NEW c \in Members, Others(c), \A d \in Members \ {c} : ~ AtWork(d),
           NEW s \in Steps, NEW r, NEW E, NEW row, Goto(c, s), s \notin {"idle", "check"},
           Record(c)' = r, processed' = E, read'[c] = row, ExactAt(s, r, E, row)'
    PROVE  ExactInv'
<1>1. pc'[c] = s /\ AtWork(c)'
    BY DEF Goto, QueryInv, GroupOK, AtWork
<1>2. \A d \in Members : AtWork(d)' => d = c
    BY DEF Others, AtWork
<1>3. ExactAt(pc[c], Record(c), processed, read[c])'
    BY <1>1 DEF ExactAt, RowFits, AllAre, RowsAre, StatsAre, EntriesAre
<1> QED BY <1>1, <1>2, <1>3 DEF ExactInv

\* The check of query_processed_events passes while nobody else is at work.
LEMMA ExactBegin ==
    ASSUME QueryInv, ExactInv, NEW c \in Members, Others(c), Begin(c), ~ torn, ~ torn'
    PROVE  ExactInv'
<1>1. /\ pc[c] = "check" /\ Goto(c, "read") /\ UNCHANGED tables /\ pos' = pos /\ read' = read
      /\ Record(c).event \notin processed
    BY DEF Begin
<1>2. ~ OtherAtWork(c)
    BY DEF Begin
<1>3. \A d \in Members : ~ AtWork(d)
    BY <1>1, <1>2 DEF OtherAtWork, AtWork
<1>4. PICK r \in Recs : r = Record(c)
    BY <1>1, RecordOf
<1>5. PICK E : E = processed
    OBVIOUS
<1>6. PICK row : row = read[c]
    OBVIOUS
<1>7. AllAre(E)'
    BY <1>1, <1>3, <1>5, SameTables DEF ExactInv, tables
<1>8. processed' = E /\ read'[c] = row /\ Record(c)' = r
    BY <1>1, <1>4, <1>5, <1>6 DEF tables, Record
<1>9. ExactAt("read", r, E, row)'
    BY <1>1, <1>4, <1>5, <1>7 DEF ExactAt
<1> QED BY <1>1, <1>3, <1>8, <1>9, Works DEF Steps

\* The handler has read its row: it is about to write what the events come to.
LEMMA ExactRead ==
    ASSUME QueryInv, ExactInv, NEW c \in Members, Others(c), ~ torn,
           pc[c] = "read", Goto(c, "upsert"), UNCHANGED tables, pos' = pos,
           NEW row, read'[c] = row, NEW r \in Recs, r = Record(c), RowFits(row, processed, r)
    PROVE  ExactInv'
<1>0. AtWork(c)
    BY DEF AtWork
<1>1. PICK E : E = processed
    OBVIOUS
<1>2. \A d \in Members \ {c} : ~ AtWork(d)
    BY <1>0 DEF ExactInv
<1>3. ExactAt("read", r, E, read[c])
    BY <1>0, <1>1 DEF ExactInv
<1>4. processed' = E /\ Record(c)' = r
    BY <1>1 DEF tables, Record
<1>5. AllAre(E)'
    BY <1>3, SameTables DEF ExactAt, tables
<1>6. ExactAt("upsert", r, E, row)'
    BY <1>1, <1>3, <1>5 DEF ExactAt, RowFits
<1> QED BY <1>2, <1>4, <1>6, Works DEF Steps

\* A creation that is not processed has no row yet and no movement that is.
LEMMA CreationFits ==
    ASSUME QueryInv, NEW r \in Recs, r.type = "WalletCreated", r.event \notin processed,
           RowsAre(processed)
    PROVE  RowFits(NewRow, processed, r)
<1>1. r.wallet \in Wallets
    BY TopicFacts
<1>2. balances[r.wallet] = NoRow
    <2> SUFFICES ASSUME balances[r.wallet] # NoRow PROVE FALSE
        OBVIOUS
    <2>1. PICK q \in Recs : q.type = "WalletCreated" /\ q.wallet = r.wallet /\ q.event \in processed
        BY <1>1 DEF RowsAre, Created
    <2> QED BY <2>1, TopicFacts
<1>3. MovementsOf(processed, r.wallet) = {}
    <2> SUFFICES ASSUME NEW q \in MovementsOf(processed, r.wallet) PROVE FALSE
        OBVIOUS
    <2>1. q \in Recs /\ q.event \in processed /\ q.type \in Movements /\ q.wallet = r.wallet
        BY DEF MovementsOf, RecordsOf, Recs
    <2>2. RowThere(q)
        BY <2>1 DEF QueryInv
    <2> QED BY <1>2, <2>1, <2>2 DEF RowThere, Movements, NoRow
<1>4. BalanceOf(processed, r.wallet) = 0
    BY <1>3, NoMovementsNoBalance
<1>5. BalanceOf(With(processed, r), r.wallet) = 0
    <2>1. AmountFor(r, r.wallet) = 0
        BY DEF AmountFor
    <2>2. BalanceOf(With(processed, r), r.wallet) = BalanceOf(processed, r.wallet) + AmountFor(r, r.wallet)
        BY OneMore
    <2> QED BY <1>4, <2>1, <2>2
<1>6. Created(With(processed, r), r.wallet)
    BY DEF Created, With
<1> QED BY <1>5, <1>6 DEF RowFits, NewRow

\* A movement adds to the row that it has read.
LEMMA MovementFits ==
    ASSUME QueryInv, NEW r \in Recs, r.type \in Movements, r.event \notin processed,
           RowsAre(processed), balances[r.wallet] # NoRow,
           NEW row, row.balance = balances[r.wallet].balance +
                        (IF r.type = "FundsDeposited" THEN r.amount ELSE -r.amount)
    PROVE  RowFits(row, processed, r)
<1>1. r.wallet \in Wallets
    BY TopicFacts
<1>2. balances[r.wallet].balance = BalanceOf(processed, r.wallet) /\ Created(processed, r.wallet)
    BY <1>1 DEF RowsAre
<1>3. BalanceOf(With(processed, r), r.wallet) = BalanceOf(processed, r.wallet) + AmountFor(r, r.wallet)
    BY OneMore
<1>4. AmountFor(r, r.wallet) = IF r.type = "FundsDeposited" THEN r.amount ELSE -r.amount
    BY DEF AmountFor, Movements
<1>5. Created(With(processed, r), r.wallet)
    BY <1>2 DEF Created, With
<1> QED BY <1>2, <1>3, <1>4, <1>5 DEF RowFits, Movements

\* Upsert writes it, and the other rows are what they were with one more event.
LEMMA WriteFits ==
    ASSUME QueryInv, NEW c \in Members, Writes(c), NEW r \in Recs, r = Record(c),
           NEW E, r.event \notin E, RowsAre(E), StatsAre(E), RowFits(read[c], E, r)
    PROVE  RowsAre(With(E, r))' /\ StatsAre(With(E, r))'
<1>0. /\ balances \in [Wallets -> BalanceRows] /\ stats \in [Users -> StatsRows]
      /\ r.user \in Users /\ r.wallet \in Wallets
    BY TopicFacts DEF QueryInv, TablesOK
<1>1. CASE r.type = "TransactionCompleted"
    <2>1. /\ stats' = [stats EXCEPT ![r.user] = StatsOf(With(E, r), r.user)] /\ balances' = balances
        BY <1>1 DEF Writes, WriteRow, RowFits
    <2>2. \A w : AmountFor(r, w) = 0
        BY <1>1 DEF AmountFor
    <2>3. ASSUME NEW w PROVE BalanceOf(With(E, r), w) = BalanceOf(E, w)
        <3>1. BalanceOf(E, w) \in Int /\ BalanceOf(With(E, r), w) = BalanceOf(E, w) + AmountFor(r, w)
            BY OneMore
        <3> QED BY <2>2, <3>1
    <2>4. RowsAre(With(E, r))'
        BY <2>1, <2>3 DEF RowsAre, Created, With
    <2>5. \A u : u # r.user => StatsOf(With(E, r), u) = StatsOf(E, u)
        BY OneMore
    <2>6. ASSUME NEW u \in Users PROVE stats'[u] = StatsOf(With(E, r), u)
        BY <1>0, <2>1, <2>5 DEF StatsAre
    <2> QED BY <2>4, <2>6 DEF StatsAre
<1>2. CASE r.type # "TransactionCompleted"
    <2>1. /\ balances' = [balances EXCEPT ![r.wallet] = read[c]] /\ stats' = stats
          /\ read[c].balance = BalanceOf(With(E, r), r.wallet) /\ Created(With(E, r), r.wallet)
        BY <1>2 DEF Writes, WriteRow, RowFits
    <2>2. \A u : StatsOf(With(E, r), u) = StatsOf(E, u)
        BY <1>2, OneMore
    <2>3. StatsAre(With(E, r))'
        BY <2>1, <2>2 DEF StatsAre
    <2>4. ASSUME NEW w \in Wallets, balances'[w] # NoRow
          PROVE  balances'[w].balance = BalanceOf(With(E, r), w) /\ Created(With(E, r), w)
        <3>1. CASE w = r.wallet
            BY <1>0, <2>1, <3>1
        <3>2. CASE w # r.wallet
            <4>1. balances'[w] = balances[w]
                BY <1>0, <2>1, <3>2
            <4>2. balances[w].balance = BalanceOf(E, w) /\ Created(E, w)
                BY <2>4, <4>1 DEF RowsAre
            <4>3. AmountFor(r, w) = 0
                BY <3>2 DEF AmountFor
            <4>4. BalanceOf(E, w) \in Int /\ BalanceOf(With(E, r), w) = BalanceOf(E, w) + AmountFor(r, w)
                BY OneMore
            <4> QED BY <4>1, <4>2, <4>3, <4>4 DEF Created, With
        <3> QED BY <3>1, <3>2
    <2>5. RowsAre(With(E, r))'
        BY <2>4 DEF RowsAre, Created, With
    <2> QED BY <2>3, <2>5
<1> QED BY <1>1, <1>2

\* Upsert, statement.Append and MarkProcessed, one after the other.
LEMMA ExactUpsert ==
    ASSUME QueryInv, ExactInv, NEW c \in Members, Others(c), Upsert(c), ~ torn
    PROVE  ExactInv'
<1>0. /\ pc[c] = "upsert" /\ Writes(c) /\ pos' = pos /\ statement' = statement /\ processed' = processed
      /\ Goto(c, IF Record(c).type \in Movements THEN "append" ELSE "mark") /\ AtWork(c)
    BY DEF Upsert, Writes, AtWork
<1>1. PICK r \in Recs : r = Record(c)
    BY <1>0, RecordOf
<1>2. PICK E : E = processed
    OBVIOUS
<1>3. \A d \in Members \ {c} : ~ AtWork(d)
    BY <1>0 DEF ExactInv
<1>4. ExactAt("upsert", r, E, read[c])
    BY <1>0, <1>1, <1>2 DEF ExactInv
<1>5. RowsAre(With(E, r))' /\ StatsAre(With(E, r))'
    BY <1>0, <1>1, <1>4, WriteFits DEF ExactAt, AllAre
<1>6. EntriesAre(E)'
    BY <1>0, <1>4 DEF ExactAt, AllAre, EntriesAre
<1>7. Record(c)' = r /\ processed' = E
    BY <1>0, <1>1, <1>2 DEF Record
<1>8. PICK row : row = read'[c]
    OBVIOUS
<1>9. CASE r.type \in Movements
    <2>1. ExactAt("append", r, E, row)'
        BY <1>4, <1>5, <1>6 DEF ExactAt
    <2> QED BY <1>0, <1>1, <1>3, <1>7, <1>8, <1>9, <2>1, Works DEF Steps
<1>10. CASE r.type \notin Movements
    <2>1. EntryIdsOf(With(E, r)) = EntryIdsOf(E)
        <3>1. EntryIdsOf(With(E, r)) = EntryIdsOf(E) \cup {}
            BY <1>4, <1>10, OneMore DEF ExactAt
        <3> QED BY <3>1
    <2>2. EntriesAre(With(E, r))'
        BY <1>6, <2>1 DEF EntriesAre
    <2>3. ExactAt("mark", r, E, row)'
        BY <1>4, <1>5, <2>2 DEF ExactAt
    <2> QED BY <1>0, <1>1, <1>3, <1>7, <1>8, <1>10, <2>3, Works DEF Steps
<1> QED BY <1>9, <1>10

LEMMA ExactAppend ==
    ASSUME QueryInv, ExactInv, NEW c \in Members, Others(c), AppendEntry(c), ~ torn
    PROVE  ExactInv'
<1>0. /\ pc[c] = "append" /\ pos' = pos /\ balances' = balances /\ stats' = stats /\ processed' = processed
      /\ statement' = AppendedEntry(c) /\ Goto(c, "mark") /\ AtWork(c) /\ Record(c).type \in Movements
    BY DEF AppendEntry, AtWork, QueryInv, AtInv
<1>1. PICK r \in Recs : r = Record(c)
    BY <1>0, RecordOf
<1>2. PICK E : E = processed
    OBVIOUS
<1>3. \A d \in Members \ {c} : ~ AtWork(d)
    BY <1>0 DEF ExactInv
<1>4. ExactAt("append", r, E, read[c])
    BY <1>0, <1>1, <1>2 DEF ExactInv
<1>5. RowsAre(With(E, r))' /\ StatsAre(With(E, r))'
    BY <1>0, <1>4 DEF ExactAt, RowsAre, StatsAre
<1>6. {s.entry : s \in statement'} = {s.entry : s \in statement} \cup {r.entry}
    <2> DEFINE new == [entry |-> r.entry, amount |-> r.amount]
    <2>1. new.entry = r.entry
        OBVIOUS
    <2>2. CASE \E s \in statement : s.entry = r.entry
        BY <1>0, <1>1, <2>2 DEF AppendedEntry
    <2>3. CASE ~ \E s \in statement : s.entry = r.entry
        <3>1. statement' = statement \cup {new}
            BY <1>0, <1>1, <2>3 DEF AppendedEntry
        <3> HIDE DEF new
        <3> QED BY <2>1, <3>1
    <2> QED BY <2>2, <2>3
<1>7. EntryIdsOf(With(E, r)) = EntryIdsOf(E) \cup {r.entry}
    BY <1>0, <1>1, <1>4, OneMore DEF ExactAt
<1>8. EntriesAre(With(E, r))'
    BY <1>4, <1>6, <1>7 DEF ExactAt, EntriesAre
<1>9. PICK row : row = read'[c]
    OBVIOUS
<1>10. ExactAt("mark", r, E, row)'
    BY <1>4, <1>5, <1>8 DEF ExactAt
<1>11. Record(c)' = r /\ processed' = E
    BY <1>0, <1>1, <1>2 DEF Record
<1> QED BY <1>0, <1>3, <1>9, <1>10, <1>11, Works DEF Steps

LEMMA ExactMark ==
    ASSUME QueryInv, ExactInv, NEW c \in Members, Others(c), Marks(c), pc'[c] = "idle", ~ torn
    PROVE  ExactInv'
<1>0. /\ pc[c] = "mark" /\ AtWork(c) /\ processed' = With(processed, Record(c))
      /\ UNCHANGED <<balances, statement, stats>>
    BY DEF Marks, AtWork, With
<1>1. PICK r \in Recs : r = Record(c)
    BY <1>0, RecordOf
<1>2. PICK E : E = processed
    OBVIOUS
<1>3. PICK F : F = With(E, r)
    OBVIOUS
<1>4. ExactAt("mark", r, E, read[c])
    BY <1>0, <1>1, <1>2 DEF ExactInv
<1>5. AllAre(F)
    BY <1>3, <1>4 DEF ExactAt, AllAre
<1>6. AllAre(F)'
    BY <1>0, <1>5, SameTables
<1>7. \A d \in Members : ~ AtWork(d)'
    BY <1>0 DEF ExactInv, Others, AtWork
<1>8. processed' = F
    BY <1>0, <1>1, <1>2, <1>3
<1> QED BY <1>6, <1>7, <1>8 DEF ExactInv

\* Every step keeps it, unless it tears.
LEMMA ExactStep ==
    QueryInv /\ ExactInv /\ [Next]_vars => ExactInv'
<1> SUFFICES ASSUME QueryInv, ExactInv, [Next]_vars PROVE ExactInv'
    OBVIOUS
<1>1. CASE UNCHANGED vars
    BY <1>1 DEF vars, ExactInv, ExactAt, RowFits, AllAre, RowsAre, StatsAre, EntriesAre, AtWork, Record
<1>2. ASSUME NEW c \in Members,
             \/ Poll(c) \/ Deliver(c) \/ Rebalance(c) \/ Crash(c) \/ Skip(c) \/ Begin(c)
             \/ WalletCreated(c) \/ ReadBalance(c) \/ ReadStats(c)
             \/ Upsert(c) \/ AppendEntry(c) \/ MarkProcessed(c) \/ StatementFails(c)
      PROVE  ExactInv'
    <2>0. SUFFICES ASSUME ~ torn' PROVE ExactInv'
        BY DEF ExactInv
    <2>1. ~ torn
        BY <1>2, <2>0, TornMoves
    <2>2. Others(c)
        BY <1>2, MemberSteps
    <2>3. /\ pc \in [Members -> Steps] /\ read \in [Members -> BalanceRows \cup StatsRows]
        BY DEF QueryInv, GroupOK
    <2>4. ASSUME UNCHANGED tables, Goto(c, "idle"), pc[c] \notin {"append", "mark"} PROVE ExactInv'
        <3>1. ~ AtWork(c)'
            BY <2>3, <2>4 DEF Goto, AtWork
        <3> QED BY <2>1, <2>2, <2>4, <3>1, Idles
    <2>5. CASE Poll(c) \/ Rebalance(c) \/ Skip(c)
        <3>1. UNCHANGED tables /\ Goto(c, "idle") /\ pc[c] \notin {"append", "mark"}
            BY <2>3, <2>5 DEF Poll, Rebalance, Skip, Goto
        <3> QED BY <2>4, <3>1
    <2>6. CASE Deliver(c)
        <3>1. UNCHANGED tables /\ Goto(c, "check") /\ pc[c] = "idle"
            BY <2>6 DEF Deliver
        <3>2. ~ AtWork(c)'
            BY <2>3, <3>1 DEF Goto, AtWork
        <3> QED BY <2>1, <2>2, <3>1, <3>2, Idles
    <2>7. CASE Crash(c)
        <3>1. UNCHANGED tables /\ Goto(c, "idle") /\ pc[c] \notin {"append", "mark"}
            BY <2>0, <2>7 DEF Crash
        <3> QED BY <2>4, <3>1
    <2>8. CASE Begin(c)
        BY <2>0, <2>1, <2>2, <2>8, ExactBegin
    <2>9. ASSUME pc[c] = "read"
          PROVE  /\ Record(c) \in Recs /\ Record(c).event \notin processed
                 /\ RowsAre(processed) /\ StatsAre(processed)
        <3>1. AtWork(c)
            BY <2>9 DEF AtWork
        <3>2. ExactAt("read", Record(c), processed, read[c])
            BY <2>1, <2>9, <3>1 DEF ExactInv
        <3> QED BY <3>2 DEF ExactAt, AllAre
    <2>10. CASE WalletCreated(c)
        <3>1. /\ pc[c] = "read" /\ Goto(c, "upsert") /\ UNCHANGED tables /\ pos' = pos
              /\ read'[c] = NewRow /\ Record(c).type = "WalletCreated"
            BY <2>3, <2>10 DEF WalletCreated
        <3>2. PICK r \in Recs : r = Record(c)
            BY <2>9, <3>1
        <3>3. RowFits(NewRow, processed, r)
            BY <2>9, <3>1, <3>2, CreationFits
        <3> QED BY <2>1, <2>2, <3>1, <3>2, <3>3, ExactRead
    <2>11. CASE ReadBalance(c)
        <3>1. pc[c] = "read" /\ UNCHANGED tables /\ pos' = pos /\ Record(c).type \in Movements
            BY <2>11 DEF ReadBalance
        <3>2. PICK r \in Recs : r = Record(c)
            BY <2>9, <3>1
        <3>3. CASE balances[r.wallet] = NoRow
            <4>1. Goto(c, "idle")
                BY <2>11, <3>2, <3>3 DEF ReadBalance
            <4> QED BY <2>4, <3>1, <4>1
        <3>4. CASE balances[r.wallet] # NoRow
            <4> DEFINE amount == IF r.type = "FundsDeposited" THEN r.amount ELSE -r.amount
                       row == [balance |-> balances[r.wallet].balance + amount, version |-> r.version]
            <4>1. read' = [read EXCEPT ![c] = row] /\ Goto(c, "upsert")
                BY <2>11, <3>2, <3>4 DEF ReadBalance
            <4>2. row.balance = balances[r.wallet].balance + amount
                OBVIOUS
            <4>3. PICK x : x = row
                OBVIOUS
            <4>4. x.balance = balances[r.wallet].balance +
                      (IF r.type = "FundsDeposited" THEN r.amount ELSE -r.amount)
                BY <4>2, <4>3
            <4>5. read'[c] = x
                <5> HIDE DEF row
                <5> QED BY <2>3, <4>1, <4>3
            <4>6. RowFits(x, processed, r)
                BY <2>9, <3>1, <3>2, <3>4, <4>4, MovementFits
            <4> QED BY <2>1, <2>2, <3>1, <3>2, <4>1, <4>5, <4>6, ExactRead
        <3> QED BY <3>3, <3>4
    <2>12. CASE ReadStats(c)
        <3>1. /\ pc[c] = "read" /\ UNCHANGED tables /\ pos' = pos /\ Record(c).type = "TransactionCompleted"
              /\ Goto(c, "upsert")
            BY <2>12 DEF ReadStats
        <3>2. PICK r \in Recs : r = Record(c)
            BY <2>9, <3>1
        <3> DEFINE old == stats[r.user]
                   row == [transactions |-> old.transactions + 1, deposits |-> old.deposits + r.amount]
        <3>3. read' = [read EXCEPT ![c] = row]
            BY <2>0, <2>12, <3>2 DEF ReadStats
        <3>4. r.user \in Users /\ old = StatsOf(processed, r.user)
            BY <2>9, <3>1, TopicFacts DEF StatsAre
        <3>5. StatsOf(With(processed, r), r.user) = row
            <4>1. r.event \notin processed /\ r.type = "TransactionCompleted"
                BY <2>9, <3>1, <3>2
            <4> QED BY <3>4, <4>1, OneMore
        <3> HIDE DEF row
        <3>6. RowFits(row, processed, r) /\ read'[c] = row
            BY <2>3, <3>1, <3>2, <3>3, <3>5 DEF RowFits
        <3> QED BY <2>1, <2>2, <3>1, <3>2, <3>6, ExactRead
    <2>13. CASE Upsert(c)
        BY <2>1, <2>2, <2>13, ExactUpsert
    <2>14. CASE AppendEntry(c)
        BY <2>1, <2>2, <2>14, ExactAppend
    <2>15. ASSUME Marks(c), Goto(c, "idle") PROVE ExactInv'
        <3>1. pc'[c] = "idle"
            BY <2>3, <2>15 DEF Goto
        <3> QED BY <2>1, <2>2, <2>15, <3>1, ExactMark
    <2>16. CASE MarkProcessed(c)
        <3>1. Marks(c) /\ Goto(c, "idle")
            BY <2>16 DEF MarkProcessed, Marks
        <3> QED BY <2>15, <3>1
    <2>17. CASE StatementFails(c)
        <3>1. Goto(c, "idle")
            BY <2>17 DEF StatementFails
        <3>2. Marks(c) \/ (UNCHANGED tables /\ pc[c] \notin {"append", "mark"})
            BY <2>0, <2>17, Zenon DEF StatementFails, Marks
        <3> QED BY <2>4, <2>15, <3>1, <3>2
    <2> QED BY <1>2, <2>5, <2>6, <2>7, <2>8, <2>10, <2>11, <2>12, <2>13, <2>14, <2>16, <2>17
<1> QED BY <1>1, <1>2, QueryStepKinds

\* For every topic, with or without ids in the payloads, any number of members
\* and of faults: up to the first tear every balance, statistic and statement
\* is exactly what the processed events come to.
THEOREM ReadModelIsExact ==
    Spec => []ExactUnlessTorn
<1>1. QueryInv /\ ExactInv => ExactUnlessTorn
    <2> SUFFICES ASSUME QueryInv, ExactInv, ~ torn, \A c \in Members : pc[c] \notin {"append", "mark"}
                 PROVE  AllAre(processed)
        BY DEF ExactUnlessTorn, AllAre, RowsAre, StatsAre, EntriesAre, EntryIdsOf
    <2>1. CASE \A c \in Members : ~ AtWork(c)
        BY <2>1 DEF ExactInv
    <2>2. CASE \E c \in Members : AtWork(c)
        <3>1. PICK c \in Members : AtWork(c)
            BY <2>2
        <3>2. ExactAt(pc[c], Record(c), processed, read[c])
            BY <3>1 DEF ExactInv
        <3>3. pc[c] \in {"read", "upsert"}
            BY <3>1 DEF AtWork, QueryInv, GroupOK, Steps
        <3> QED BY <3>2, <3>3 DEF ExactAt
    <2> QED BY <2>1, <2>2
<1> QED BY <1>1, ExactInit, ExactStep, QueryInvInit, QueryInvStep, PTL DEF Spec

=============================================================================
