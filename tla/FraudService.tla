---------------------------- MODULE FraudService ----------------------------
(***************************************************************************)
(* services/fraud: the rules of application/fraud_service.go on profiles   *)
(* in Redis (adapters/outbound/redis/profile_repo.go), which updaters      *)
(* (adapters/inbound/kafka/profile_updater.go) keep from the transactions  *)
(* topic.                                                                  *)
(*                                                                         *)
(* Every updater has a partition of its own: the records of one user are   *)
(* spread over all of them, since their key is the source wallet.  The     *)
(* user is what the updater's payload declares; the transaction service    *)
(* publishes none, which is NilUser.  A Redis command is a step.  Kafka    *)
(* and Redis are external; the time that counts is the age of a profile.   *)
(***************************************************************************)
EXTENDS Integers, Sequences

CONSTANTS
    Updaters,     \* replicas of ProfileUpdater
    Feed,         \* the records of the partition of each updater
    Users,
    NilUser,      \* uuid.Nil, where the payload has no user_id
    Callers,      \* concurrent calls of Evaluate
    Amounts,      \* amounts that are evaluated
    DailyLimit,   \* dailyLimitCents
    Velocity,     \* velocityMaxPerMin
    Large,        \* largeTransactionCents
    MaxInt,       \* the largest int64
    TTL,          \* profileTTL
    MaxFaults     \* bound: failed commands and crashes

Records == UNION {{Feed[u][i] : i \in DOMAIN Feed[u]} : u \in Updaters}

ASSUME FraudAssumption ==
    /\ NilUser \notin Users
    /\ MaxInt \in Nat
    /\ \A u \in Updaters : Feed[u] \in Seq(Records)
    /\ \A r \in Records : r.user \in Users \cup {NilUser} /\ r.amount \in 1..MaxInt
    /\ Amounts \subseteq 1..MaxInt
    /\ DailyLimit \in 0..MaxInt /\ Velocity \in Nat /\ Large \in Nat
    /\ TTL \in Nat \ {0} /\ MaxFaults \in Nat

VARIABLES
    profile,    \* the profiles in Redis
    age,        \* time since the last SET of each
    pc,         \* where each updater is
    cur,        \* the record it handles,
    last,       \* and the last one of the same poll
    committed,  \* the committed offset of its partition
    found,      \* the profile it has read
    evaluation, \* the call of each caller
    stored,     \* history: how often each record was stored in a profile
    delivered,  \* history: what these came to for each user
    recent,     \* history: and what since the last tick
    faults      \* faults so far

partition == <<pc, cur, last, committed, found>>
history == <<stored, delivered, recent>>
vars == <<profile, age, partition, evaluation, history, faults>>

NoProfile == [total |-> 0, count |-> 0]    \* a user without a profile
Idle == [decision |-> "none", user |-> NilUser, amount |-> 0, seen |-> NoProfile]

Init ==
    /\ profile = [x \in Users |-> NoProfile]
    /\ age = [x \in Users |-> 0]
    /\ pc = [u \in Updaters |-> "poll"]
    /\ cur = [u \in Updaters |-> 0]
    /\ last = [u \in Updaters |-> 0]
    /\ committed = [u \in Updaters |-> 0]
    /\ found = [u \in Updaters |-> NoProfile]
    /\ evaluation = [p \in Callers |-> Idle]
    /\ stored = [u \in Updaters |-> [i \in DOMAIN Feed[u] |-> 0]]
    /\ delivered = [x \in Users |-> NoProfile]
    /\ recent = [x \in Users |-> NoProfile]
    /\ faults = 0

Fault == faults < MaxFaults /\ faults' = faults + 1

\* int64 arithmetic.
Int64(n) == ((n + MaxInt + 1) % (2 * (MaxInt + 1))) - (MaxInt + 1)

-----------------------------------------------------------------------------
(* The rules.                                                              *)

\* Mutant: what makes the limit exactly is rejected.
CheckDailyLimitAt(prof, amount) == Int64(prof.total + amount) >= DailyLimit

CheckDailyLimit(prof, amount) == Int64(prof.total + amount) > DailyLimit

CheckVelocity(prof) == prof.count >= Velocity

CheckLargeTransaction(amount) == amount >= Large

\* FraudService.Evaluate on the profile that it was given.
Decision(prof, amount) ==
    CASE CheckDailyLimit(prof, amount) \/ CheckVelocity(prof) -> "REJECTED"
      [] ~ (CheckDailyLimit(prof, amount) \/ CheckVelocity(prof))
            /\ CheckLargeTransaction(amount) -> "REVIEW"
      [] OTHER -> "APPROVED"

\* Server.Evaluate is called; a request whose ids do not parse changes nothing.
Begin(p) ==
    /\ evaluation[p] = Idle
    /\ \E x \in Users, a \in Amounts :
        evaluation' = [evaluation EXCEPT ![p] = [Idle EXCEPT !.user = x, !.amount = a]]
    /\ UNCHANGED <<profile, age, partition, history, faults>>

\* The call is decided; what is recent is noted.
Decide(p, prof) ==
    LET e == evaluation[p]
    IN  /\ e # Idle /\ e.decision = "none"
        /\ evaluation' = [evaluation EXCEPT ![p] = [e EXCEPT !.decision = Decision(prof, e.amount),
                                                             !.seen = recent[e.user]]]
        /\ UNCHANGED <<profile, age, partition, history>>

\* GetProfile finds the profile or reports that there is none, which is taken
\* for an empty one.
Evaluate(p) == Decide(p, profile[evaluation[p].user]) /\ UNCHANGED faults

\* GetProfile fails: the rules see an empty profile as well.
EvaluateBlind(p) == Decide(p, NoProfile) /\ Fault

\* The answer is sent.
Answer(p) ==
    /\ evaluation[p].decision # "none"
    /\ evaluation' = [evaluation EXCEPT ![p] = Idle]
    /\ UNCHANGED <<profile, age, partition, history, faults>>

-----------------------------------------------------------------------------
(* ProfileUpdater.Run.                                                     *)

Record(u) == Feed[u][cur[u]]

\* PollFetches returns some of the records after the position.  The client
\* commits by itself now and then, which NewProfileUpdater does not disable,
\* up to the records of the poll before.
Poll(u) ==
    /\ pc[u] = "poll"
    /\ \E n \in (last[u] + 1)..Len(Feed[u]) : last' = [last EXCEPT ![u] = n]
    /\ committed' = [committed EXCEPT ![u] = last[u]] \/ UNCHANGED committed
    /\ cur' = [cur EXCEPT ![u] = last[u] + 1]
    /\ pc' = [pc EXCEPT ![u] = "handle"]
    /\ UNCHANGED <<profile, age, found, evaluation, history, faults>>

\* Mutant: an index that is one too far.
NextRecordTooFar(u) ==
    /\ cur' = [cur EXCEPT ![u] = @ + 1]
    /\ pc' = [pc EXCEPT ![u] = IF cur[u] < last[u] THEN "handle" ELSE "commit"]
    /\ found' = [found EXCEPT ![u] = NoProfile]
    /\ UNCHANGED <<last, committed>>

\* Mutant: the index does not move.
NextRecordStuck(u) ==
    /\ pc' = [pc EXCEPT ![u] = IF cur[u] < last[u] THEN "handle" ELSE "commit"]
    /\ found' = [found EXCEPT ![u] = NoProfile]
    /\ UNCHANGED <<cur, last, committed>>

\* EachRecord goes on.
NextRecord(u) ==
    /\ cur' = [cur EXCEPT ![u] = IF cur[u] < last[u] THEN @ + 1 ELSE @]
    /\ pc' = [pc EXCEPT ![u] = IF cur[u] < last[u] THEN "handle" ELSE "commit"]
    /\ found' = [found EXCEPT ![u] = NoProfile]
    /\ UNCHANGED <<last, committed>>

\* CommitUncommittedOffsets, which may fail.
Commit(u) ==
    /\ pc[u] = "commit"
    /\ \/ committed' = [committed EXCEPT ![u] = last[u]] /\ UNCHANGED faults
       \/ Fault /\ UNCHANGED committed
    /\ pc' = [pc EXCEPT ![u] = "poll"]
    /\ UNCHANGED <<profile, age, cur, last, found, evaluation, history>>

\* The process dies; the partition is read again from the committed offset.
Crash(u) ==
    /\ pc[u] # "poll" \/ last[u] # committed[u]
    /\ Fault
    /\ pc' = [pc EXCEPT ![u] = "poll"]
    /\ last' = [last EXCEPT ![u] = committed[u]]
    /\ cur' = [cur EXCEPT ![u] = committed[u]]
    /\ found' = [found EXCEPT ![u] = NoProfile]
    /\ UNCHANGED <<profile, age, committed, evaluation, history>>

-----------------------------------------------------------------------------
(* handle.                                                                 *)

Relevant(r) == r.type = "TransactionCompleted" /\ r.user # NilUser

\* Another event, or one that names no user.
Skip(u) ==
    /\ pc[u] = "handle" /\ ~ Relevant(Record(u))
    /\ NextRecord(u)
    /\ UNCHANGED <<profile, age, evaluation, history, faults>>

\* GetProfile, or an error of it that is taken for a user without a profile.
GetProfile(u) ==
    /\ pc[u] = "handle" /\ Relevant(Record(u))
    /\ \/ found' = [found EXCEPT ![u] = profile[Record(u).user]] /\ UNCHANGED faults
       \/ found' = [found EXCEPT ![u] = NoProfile] /\ Fault
    /\ pc' = [pc EXCEPT ![u] = "set"]
    /\ UNCHANGED <<profile, age, cur, last, committed, evaluation, history>>

\* The profile with one more transaction.
AfterTransaction(prof, amount) == [total |-> Int64(prof.total + amount), count |-> prof.count + 1]

\* SET of the whole profile, with its lifetime; it takes effect.
StoreProfile(u) ==
    LET r == Record(u)
        Add(sums) == [sums EXCEPT ![r.user] = [total |-> @.total + r.amount, count |-> @.count + 1]]
    IN  /\ profile' = [profile EXCEPT ![r.user] = AfterTransaction(found[u], r.amount)]
        /\ age' = [age EXCEPT ![r.user] = 0]
        /\ stored' = [stored EXCEPT ![u][cur[u]] = @ + 1]
        /\ delivered' = Add(delivered)
        /\ recent' = Add(recent)

\* UpdateProfile; its error is only logged.
UpdateProfile(u) ==
    /\ pc[u] = "set"
    /\ \/ StoreProfile(u) /\ UNCHANGED faults
       \/ Fault /\ StoreProfile(u)
       \/ Fault /\ UNCHANGED <<profile, age, history>>
    /\ NextRecord(u)
    /\ UNCHANGED evaluation

\* A minute passes for a profile, or more; at the end of its lifetime Redis
\* drops it.
Tick ==
    \E x \in Users :
        /\ profile[x] # NoProfile
        /\ IF age[x] + 1 < TTL
           THEN age' = [age EXCEPT ![x] = @ + 1] /\ UNCHANGED profile
           ELSE /\ age' = [age EXCEPT ![x] = 0]
                /\ profile' = [profile EXCEPT ![x] = NoProfile]
        /\ recent' = [recent EXCEPT ![x] = NoProfile]
        /\ UNCHANGED <<partition, evaluation, stored, delivered, faults>>

-----------------------------------------------------------------------------
Next ==
    \/ Tick
    \/ \E p \in Callers : Begin(p) \/ Evaluate(p) \/ EvaluateBlind(p) \/ Answer(p)
    \/ \E u \in Updaters :
        Poll(u) \/ Skip(u) \/ GetProfile(u) \/ UpdateProfile(u) \/ Commit(u) \/ Crash(u)

Spec == Init /\ [][Next]_vars

-----------------------------------------------------------------------------
(* Properties.                                                             *)

Profiles == [total : (-MaxInt - 1)..MaxInt, count : Nat]
Sums == [total : Nat, count : Nat]
Decisions == {"APPROVED", "REJECTED", "REVIEW"}

\* Types of the profiles, the partitions and the calls.
TypeOK ==
    /\ profile \in [Users -> Profiles]
    /\ age \in [Users -> 0..(TTL - 1)]
    /\ pc \in [Updaters -> {"poll", "handle", "set", "commit"}]
    /\ found \in [Updaters -> Profiles]
    /\ \A u \in Updaters :
        /\ 0 <= committed[u] /\ committed[u] <= last[u] /\ last[u] <= Len(Feed[u])
        /\ cur[u] \in 0..last[u]
        /\ pc[u] \in {"handle", "set"} => cur[u] > committed[u]
    /\ evaluation \in [Callers -> [decision : Decisions \cup {"none"},
                                   user : Users \cup {NilUser},
                                   amount : Amounts \cup {0},
                                   seen : Sums]]
    /\ \A u \in Updaters : stored[u] \in [DOMAIN Feed[u] -> Nat]
    /\ delivered \in [Users -> Sums]
    /\ recent \in [Users -> Sums]
    /\ faults \in 0..MaxFaults

\* Offsets are committed after the records of a poll, and nothing tells a
\* record that was stored before: a record is counted again only when a crash
\* comes before its offset is committed, once for each such crash.
CopiesBounded ==
    \A u \in Updaters : \A i \in DOMAIN Feed[u] : stored[u][i] <= 1 + faults

\* A profile never claims more than was delivered for its user.  Whatever
\* fails, expires, overflows, is delivered again or overwritten by another
\* updater, Evaluate rejects a call only when the transfers that were counted
\* for this user, each as often as it was stored, are over one of the limits.
RejectionsEarned ==
    \A p \in Callers :
        LET e == evaluation[p]
        IN  e.decision = "REJECTED" =>
              \/ delivered[e.user].total + e.amount > DailyLimit
              \/ delivered[e.user].count >= Velocity

\* What the velocity rule says: a call that is not over the daily limit is
\* rejected for the transfers of the last minute.
VelocityWithinMinute ==
    \A p \in Callers :
        LET e == evaluation[p]
        IN  e.decision = "REJECTED" /\ delivered[e.user].total + e.amount <= DailyLimit =>
              e.seen.count >= Velocity

=============================================================================
