------------------------- MODULE FraudServiceProofs -------------------------
(***************************************************************************)
(* Theorems about FraudService, for any records, users, number of updaters *)
(* and callers, limits, lifetimes and faults: its types, that a record is  *)
(* counted at most once more than there were faults, and that a rejected   *)
(* call is over a limit with what was counted for its user.                *)
(***************************************************************************)
EXTENDS FraudService, TLAPS

-----------------------------------------------------------------------------
(* Arithmetic.                                                             *)

\* The remainder of a number that is small enough already, and of any other.
LEMMA SmallRemainder ==
    ASSUME NEW k \in Nat, k > 0
    PROVE  /\ \A a \in Int : a % k \in 0..(k - 1)
           /\ \A a \in Nat : a % k <= a
<1>1. \A a \in 0..(k - 1) : a % k = a
  OBVIOUS
<1>2. \A a \in Int : a % k \in 0..(k - 1)
  OBVIOUS
<1>3. ASSUME NEW a \in Nat PROVE a % k <= a
  <2>1. CASE a < k
    BY <1>1, <2>1
  <2>2. CASE a >= k
    BY <1>2, <2>2
  <2> QED BY <2>1, <2>2
<1> QED BY <1>2, <1>3

\* int64 arithmetic stays within int64, and an overflow of positive amounts
\* only ever makes a number smaller.
LEMMA Int64Facts ==
    /\ \A n \in Int : Int64(n) \in (-MaxInt - 1)..MaxInt
    /\ \A n \in Int : n >= -MaxInt - 1 => Int64(n) <= n
<1>1. PICK k : k = 2 * (MaxInt + 1)
  OBVIOUS
<1>2. k \in Nat /\ k > 0 /\ MaxInt \in Nat
  BY <1>1, FraudAssumption
<1>3. \A n \in Int : Int64(n) = ((n + MaxInt + 1) % k) - (MaxInt + 1)
  BY <1>1 DEF Int64
<1>4. ASSUME NEW n \in Int PROVE Int64(n) \in (-MaxInt - 1)..MaxInt
  <2>1. (n + MaxInt + 1) % k \in 0..(k - 1)
    BY <1>2, SmallRemainder
  <2> QED BY <1>1, <1>2, <1>3, <2>1
<1>5. ASSUME NEW n \in Int, n >= -MaxInt - 1 PROVE Int64(n) <= n
  <2>1. PICK m : m = n + MaxInt + 1
    OBVIOUS
  <2>2. m \in Nat
    BY <1>2, <1>5, <2>1
  <2>3. m % k <= m /\ m % k \in 0..(k - 1)
    BY <1>2, <2>2, SmallRemainder
  <2>4. Int64(n) = (m % k) - (MaxInt + 1)
    BY <1>3, <2>1
  <2> QED BY <1>2, <2>1, <2>2, <2>3, <2>4
<1> QED BY <1>4, <1>5

\* What the constants are.
LEMMA ConstantFacts ==
    /\ MaxInt \in Nat /\ DailyLimit \in Nat /\ Velocity \in Nat
    /\ \A a \in Amounts : a \in 1..MaxInt /\ a \in Nat
    /\ \A u \in Updaters : Len(Feed[u]) \in Nat /\ DOMAIN Feed[u] = 1..Len(Feed[u])
<1>1. MaxInt \in Nat /\ DailyLimit \in 0..MaxInt /\ Velocity \in Nat /\ Amounts \subseteq 1..MaxInt
  BY FraudAssumption, Zenon
<1>2. ASSUME NEW u \in Updaters PROVE Len(Feed[u]) \in Nat /\ DOMAIN Feed[u] = 1..Len(Feed[u])
  <2>1. Feed[u] \in Seq(Records)
    BY FraudAssumption, Zenon
  <2> QED BY <2>1
<1> QED BY <1>1, <1>2

-----------------------------------------------------------------------------
(* The inductive invariant.                                                *)

Calls == [decision : Decisions \cup {"none"}, user : Users \cup {NilUser},
          amount : Amounts \cup {0}, seen : Sums]

DataTypes ==
    /\ profile \in [Users -> Profiles]
    /\ age \in [Users -> 0..(TTL - 1)]
    /\ found \in [Updaters -> Profiles]
    /\ evaluation \in [Callers -> Calls]
    /\ DOMAIN stored = Updaters
    /\ \A u \in Updaters : stored[u] \in [DOMAIN Feed[u] -> Nat]
    /\ delivered \in [Users -> Sums]
    /\ recent \in [Users -> Sums]
    /\ faults \in 0..MaxFaults

\* An updater is at a record of its last poll, after the committed offset, and
\* has read a profile only for a record that counts.
AtRecord(u) ==
    /\ 0 <= committed[u] /\ committed[u] <= last[u] /\ last[u] <= Len(Feed[u])
    /\ cur[u] <= last[u]
    /\ pc[u] \in {"handle", "set"} => cur[u] > committed[u]
    /\ pc[u] = "set" => Relevant(Record(u))

PartitionInv ==
    /\ pc \in [Updaters -> {"poll", "handle", "set", "commit"}]
    /\ cur \in [Updaters -> Nat] /\ last \in [Updaters -> Nat] /\ committed \in [Updaters -> Nat]
    /\ \A u \in Updaters : AtRecord(u)

\* The records that an updater is done with.
Handled(u) == IF pc[u] \in {"handle", "set"} THEN cur[u] - 1 ELSE last[u]

\* A record that an updater will come to has been stored only before faults.
CopiesOf(u) ==
    \A i \in DOMAIN Feed[u] : stored[u][i] <= IF i <= Handled(u) THEN 1 + faults ELSE faults

CopiesInv == \A u \in Updaters : CopiesOf(u)

\* A profile claims no more than was delivered, and neither does one that was
\* read.
Below(prof, sums) == prof.total <= sums.total /\ prof.count <= sums.count

ProfileInv == \A x \in Users : Below(profile[x], delivered[x])

FoundInv == \A u \in Updaters : pc[u] = "set" => Below(found[u], delivered[Record(u).user])

\* A call is for a user.
CallInv ==
    \A p \in Callers : evaluation[p] # Idle =>
        evaluation[p].user \in Users /\ evaluation[p].amount \in Amounts

IInv ==
    /\ DataTypes /\ PartitionInv /\ CopiesInv
    /\ ProfileInv /\ FoundInv /\ CallInv /\ RejectionsEarned

-----------------------------------------------------------------------------
(* The updaters' partitions.                                               *)

\* An updater that handles a record handles one of its partition.
LEMMA RecordFacts ==
    ASSUME PartitionInv, NEW u \in Updaters, pc[u] \in {"handle", "set"}
    PROVE  /\ Record(u) \in Records /\ Record(u).user \in Users \cup {NilUser}
           /\ Record(u).amount \in 1..MaxInt
           /\ pc[u] = "set" => Record(u).user \in Users
<1>1. Len(Feed[u]) \in Nat /\ Feed[u] \in Seq(Records) /\ \A i \in 1..Len(Feed[u]) : Feed[u][i] \in Records
  BY FraudAssumption
<1>2. cur[u] \in 1..Len(Feed[u])
  BY <1>1 DEF PartitionInv, AtRecord
<1>3. Record(u) \in Records
  BY <1>1, <1>2 DEF Record
<1>4. Record(u).user \in Users \cup {NilUser} /\ Record(u).amount \in 1..MaxInt
  BY <1>3, FraudAssumption
<1>5. pc[u] = "set" => Record(u).user \in Users
  BY <1>4 DEF PartitionInv, AtRecord, Relevant
<1> QED BY <1>3, <1>4, <1>5

\* EachRecord does not leave the records of the poll.
LEMMA NextRecordKeeps ==
    ASSUME PartitionInv, NEW u \in Updaters, pc[u] \in {"handle", "set"}, NextRecord(u)
    PROVE  PartitionInv'
<1>1. /\ cur' = [cur EXCEPT ![u] = IF cur[u] < last[u] THEN cur[u] + 1 ELSE cur[u]]
      /\ pc' = [pc EXCEPT ![u] = IF cur[u] < last[u] THEN "handle" ELSE "commit"]
      /\ last' = last /\ committed' = committed
  BY DEF NextRecord
<1>2. /\ pc \in [Updaters -> {"poll", "handle", "set", "commit"}]
      /\ cur \in [Updaters -> Nat] /\ last \in [Updaters -> Nat] /\ committed \in [Updaters -> Nat]
      /\ AtRecord(u)
  BY DEF PartitionInv
<1>3. pc' \in [Updaters -> {"poll", "handle", "set", "commit"}] /\ cur' \in [Updaters -> Nat]
  BY <1>1, <1>2
<1>4. AtRecord(u)'
  BY <1>1, <1>2 DEF AtRecord
<1>5. ASSUME NEW v \in Updaters, v # u PROVE AtRecord(v)'
  BY <1>1, <1>5 DEF PartitionInv, AtRecord, Record
<1> QED BY <1>1, <1>2, <1>3, <1>4, <1>5 DEF PartitionInv

\* The steps of an updater keep it in its partition.
LEMMA PartitionKeeps ==
    ASSUME PartitionInv, NEW u \in Updaters,
           Poll(u) \/ Skip(u) \/ GetProfile(u) \/ UpdateProfile(u) \/ Commit(u) \/ Crash(u)
    PROVE  PartitionInv'
<1>1. CASE Skip(u) \/ UpdateProfile(u)
  BY <1>1, NextRecordKeeps DEF Skip, UpdateProfile
<1>2. /\ pc \in [Updaters -> {"poll", "handle", "set", "commit"}]
      /\ cur \in [Updaters -> Nat] /\ last \in [Updaters -> Nat] /\ committed \in [Updaters -> Nat]
      /\ AtRecord(u) /\ Len(Feed[u]) \in Nat
  BY FraudAssumption DEF PartitionInv
<1>3. CASE Poll(u)
  <2>1. PICK n \in (last[u] + 1)..Len(Feed[u]) : last' = [last EXCEPT ![u] = n]
    BY <1>3 DEF Poll
  <2>2. /\ committed' = [committed EXCEPT ![u] = last[u]] \/ committed' = committed
        /\ cur' = [cur EXCEPT ![u] = last[u] + 1]
        /\ pc' = [pc EXCEPT ![u] = "handle"]
    BY <1>3 DEF Poll
  <2>3. /\ pc' \in [Updaters -> {"poll", "handle", "set", "commit"}]
        /\ cur' \in [Updaters -> Nat] /\ last' \in [Updaters -> Nat] /\ committed' \in [Updaters -> Nat]
    BY <1>2, <2>1, <2>2
  <2>4. AtRecord(u)'
    BY <1>2, <2>1, <2>2 DEF AtRecord
  <2>5. ASSUME NEW v \in Updaters, v # u PROVE AtRecord(v)'
    BY <2>1, <2>2, <2>5 DEF PartitionInv, AtRecord, Record
  <2> QED BY <2>3, <2>4, <2>5 DEF PartitionInv
<1>4. CASE GetProfile(u)
  <2>1. /\ pc[u] = "handle" /\ Relevant(Record(u)) /\ pc' = [pc EXCEPT ![u] = "set"]
        /\ UNCHANGED <<cur, last, committed>>
    BY <1>4 DEF GetProfile
  <2>2. pc' \in [Updaters -> {"poll", "handle", "set", "commit"}]
    BY <1>2, <2>1
  <2>3. AtRecord(u)'
    BY <1>2, <2>1 DEF AtRecord, Record
  <2>4. ASSUME NEW v \in Updaters, v # u PROVE AtRecord(v)'
    BY <2>1, <2>4 DEF PartitionInv, AtRecord, Record
  <2> QED BY <1>2, <2>1, <2>2, <2>3, <2>4 DEF PartitionInv
<1>5. CASE Commit(u)
  <2>1. /\ pc' = [pc EXCEPT ![u] = "poll"] /\ UNCHANGED <<cur, last>>
        /\ committed' = [committed EXCEPT ![u] = last[u]] \/ committed' = committed
    BY <1>5 DEF Commit
  <2>2. pc' \in [Updaters -> {"poll", "handle", "set", "commit"}] /\ committed' \in [Updaters -> Nat]
    BY <1>2, <2>1
  <2>3. AtRecord(u)'
    BY <1>2, <2>1 DEF AtRecord
  <2>4. ASSUME NEW v \in Updaters, v # u PROVE AtRecord(v)'
    BY <2>1, <2>4 DEF PartitionInv, AtRecord, Record
  <2> QED BY <1>2, <2>1, <2>2, <2>3, <2>4 DEF PartitionInv
<1>6. CASE Crash(u)
  <2>1. /\ pc' = [pc EXCEPT ![u] = "poll"] /\ UNCHANGED committed
        /\ last' = [last EXCEPT ![u] = committed[u]] /\ cur' = [cur EXCEPT ![u] = committed[u]]
    BY <1>6 DEF Crash
  <2>2. /\ pc' \in [Updaters -> {"poll", "handle", "set", "commit"}]
        /\ last' \in [Updaters -> Nat] /\ cur' \in [Updaters -> Nat]
    BY <1>2, <2>1
  <2>3. AtRecord(u)'
    BY <1>2, <2>1 DEF AtRecord
  <2>4. ASSUME NEW v \in Updaters, v # u PROVE AtRecord(v)'
    BY <2>1, <2>4 DEF PartitionInv, AtRecord, Record
  <2> QED BY <1>2, <2>1, <2>2, <2>3, <2>4 DEF PartitionInv
<1> QED BY <1>1, <1>3, <1>4, <1>5, <1>6

\* Nothing else moves an updater.
LEMMA PartitionUnchanged ==
    ASSUME PartitionInv, UNCHANGED partition
    PROVE  PartitionInv'
BY DEF PartitionInv, partition, AtRecord, Record

-----------------------------------------------------------------------------
(* The copies of a record.                                                 *)

\* A fault is within the bound, and counts.
LEMMA FaultKeeps ==
    ASSUME DataTypes, UNCHANGED faults \/ Fault
    PROVE  faults' \in 0..MaxFaults /\ faults' \in Nat /\ faults \in Nat /\ faults <= faults'
BY FraudAssumption DEF DataTypes, Fault

\* What holds of the copies of one updater holds of all if the others rest.
LEMMA CopiesOfOthers ==
    ASSUME IInv, UNCHANGED faults \/ Fault, NEW u \in Updaters, CopiesOf(u)',
           \A v \in Updaters : v # u => /\ stored'[v] = stored[v] /\ pc'[v] = pc[v]
                                        /\ cur'[v] = cur[v] /\ last'[v] = last[v]
    PROVE  CopiesInv'
<1>1. faults' \in Nat /\ faults \in Nat /\ faults <= faults'
  BY FaultKeeps DEF IInv
<1>2. ASSUME NEW v \in Updaters, v # u PROVE CopiesOf(v)'
  <2>1. Handled(v)' = Handled(v) /\ stored'[v] = stored[v] /\ CopiesOf(v) /\ stored[v] \in [DOMAIN Feed[v] -> Nat]
    BY <1>2 DEF Handled, IInv, CopiesInv, DataTypes
  <2>2. ASSUME NEW i \in DOMAIN Feed[v]
        PROVE  stored'[v][i] <= IF i <= Handled(v)' THEN 1 + faults' ELSE faults'
    BY <1>1, <2>1 DEF CopiesOf
  <2> QED BY <2>2 DEF CopiesOf
<1> QED BY <1>2 DEF CopiesInv

\* A step of EachRecord, with the record stored at most once.
LEMMA CopiesNextRecord ==
    ASSUME IInv, UNCHANGED faults \/ Fault, NEW u \in Updaters, pc[u] \in {"handle", "set"},
           NextRecord(u),
           stored' = stored \/ stored' = [stored EXCEPT ![u][cur[u]] = @ + 1]
    PROVE  CopiesInv'
<1>1. /\ faults' \in Nat /\ faults \in Nat /\ faults <= faults'
  BY FaultKeeps DEF IInv
<1>2. /\ cur' = [cur EXCEPT ![u] = IF cur[u] < last[u] THEN cur[u] + 1 ELSE cur[u]]
      /\ pc' = [pc EXCEPT ![u] = IF cur[u] < last[u] THEN "handle" ELSE "commit"]
      /\ last' = last
  BY DEF NextRecord
<1>3. /\ pc \in [Updaters -> {"poll", "handle", "set", "commit"}]
      /\ cur \in [Updaters -> Nat] /\ last \in [Updaters -> Nat]
      /\ cur[u] \in Nat /\ last[u] \in Nat /\ cur[u] <= last[u]
      /\ DOMAIN stored = Updaters /\ stored[u] \in [DOMAIN Feed[u] -> Nat] /\ CopiesOf(u)
      /\ \A i \in DOMAIN Feed[u] : i \in Nat
  BY ConstantFacts DEF IInv, DataTypes, PartitionInv, AtRecord, CopiesInv
<1>4. Handled(u) = cur[u] - 1 /\ Handled(u)' = cur[u]
  BY <1>2, <1>3 DEF Handled
<1>5. \A i \in DOMAIN Feed[u] : /\ stored'[u][i] <= IF i = cur[u] THEN stored[u][i] + 1 ELSE stored[u][i]
                                /\ stored[u][i] \in Nat /\ stored'[u][i] \in Nat
  BY <1>3
<1>6. ASSUME NEW i \in DOMAIN Feed[u]
      PROVE  stored'[u][i] <= IF i <= Handled(u)' THEN 1 + faults' ELSE faults'
  <2>1. i \in Nat /\ stored[u][i] <= IF i <= Handled(u) THEN 1 + faults ELSE faults
    BY <1>3 DEF CopiesOf
  <2> QED BY <1>1, <1>3, <1>4, <1>5, <2>1
<1>7. CopiesOf(u)'
  BY <1>6 DEF CopiesOf
<1>8. \A v \in Updaters : v # u => /\ stored'[v] = stored[v] /\ pc'[v] = pc[v]
                                   /\ cur'[v] = cur[v] /\ last'[v] = last[v]
  BY <1>2, <1>3
<1> QED BY <1>7, <1>8, CopiesOfOthers

\* The steps of an updater keep the bound: only a crash goes back.
LEMMA CopiesKeep ==
    ASSUME IInv, NEW u \in Updaters,
           Poll(u) \/ Skip(u) \/ GetProfile(u) \/ UpdateProfile(u) \/ Commit(u) \/ Crash(u)
    PROVE  CopiesInv'
<1>1. CASE Skip(u)
  <2>1. /\ pc[u] = "handle" /\ NextRecord(u) /\ (UNCHANGED faults \/ Fault)
        /\ stored' = stored \/ stored' = [stored EXCEPT ![u][cur[u]] = @ + 1]
    BY <1>1 DEF Skip, history
  <2> QED BY <2>1, CopiesNextRecord
<1>2. CASE UpdateProfile(u)
  <2>1. /\ pc[u] = "set" /\ NextRecord(u) /\ (UNCHANGED faults \/ Fault)
        /\ stored' = stored \/ stored' = [stored EXCEPT ![u][cur[u]] = @ + 1]
    BY <1>2 DEF UpdateProfile, StoreProfile, history
  <2> QED BY <2>1, CopiesNextRecord
<1>3. /\ pc \in [Updaters -> {"poll", "handle", "set", "commit"}]
      /\ cur \in [Updaters -> Nat] /\ last \in [Updaters -> Nat] /\ committed \in [Updaters -> Nat]
      /\ committed[u] <= last[u] /\ CopiesOf(u)
      /\ stored[u] \in [DOMAIN Feed[u] -> Nat] /\ \A i \in DOMAIN Feed[u] : i \in Nat
  BY ConstantFacts DEF IInv, DataTypes, PartitionInv, AtRecord, CopiesInv
<1>4. CASE Poll(u)
  <2>1. PICK n : last' = [last EXCEPT ![u] = n]
    BY <1>4 DEF Poll
  <2>2. /\ pc[u] = "poll" /\ cur' = [cur EXCEPT ![u] = last[u] + 1]
        /\ pc' = [pc EXCEPT ![u] = "handle"] /\ UNCHANGED <<stored, faults>>
    BY <1>4 DEF Poll, history
  <2>3. Handled(u)' = Handled(u)
    BY <1>3, <2>1, <2>2 DEF Handled
  <2>4. CopiesOf(u)'
    BY <1>3, <2>2, <2>3 DEF CopiesOf
  <2>5. \A v \in Updaters : v # u => /\ stored'[v] = stored[v] /\ pc'[v] = pc[v]
                                     /\ cur'[v] = cur[v] /\ last'[v] = last[v]
    BY <1>3, <2>1, <2>2
  <2> QED BY <2>2, <2>4, <2>5, CopiesOfOthers
<1>5. CASE GetProfile(u)
  <2>1. /\ pc[u] = "handle" /\ pc' = [pc EXCEPT ![u] = "set"] /\ UNCHANGED <<cur, last, stored>>
        /\ UNCHANGED faults \/ Fault
    BY <1>5 DEF GetProfile, history
  <2>2. Handled(u)' = Handled(u) /\ faults' \in Nat /\ faults \in Nat /\ faults <= faults'
    BY <1>3, <2>1, FaultKeeps DEF Handled, IInv
  <2>3. CopiesOf(u)'
    BY <1>3, <2>1, <2>2 DEF CopiesOf
  <2>4. \A v \in Updaters : v # u => pc'[v] = pc[v]
    BY <1>3, <2>1
  <2> QED BY <2>1, <2>3, <2>4, CopiesOfOthers
<1>6. CASE Commit(u)
  <2>1. /\ pc[u] = "commit" /\ pc' = [pc EXCEPT ![u] = "poll"] /\ UNCHANGED <<cur, last, stored>>
        /\ UNCHANGED faults \/ Fault
    BY <1>6 DEF Commit, history
  <2>2. Handled(u)' = Handled(u) /\ faults' \in Nat /\ faults \in Nat /\ faults <= faults'
    BY <1>3, <2>1, FaultKeeps DEF Handled, IInv
  <2>3. CopiesOf(u)'
    BY <1>3, <2>1, <2>2 DEF CopiesOf
  <2>4. \A v \in Updaters : v # u => pc'[v] = pc[v]
    BY <1>3, <2>1
  <2> QED BY <2>1, <2>3, <2>4, CopiesOfOthers
<1>7. CASE Crash(u)
  <2>1. /\ pc' = [pc EXCEPT ![u] = "poll"] /\ UNCHANGED stored /\ Fault
        /\ last' = [last EXCEPT ![u] = committed[u]] /\ cur' = [cur EXCEPT ![u] = committed[u]]
    BY <1>7 DEF Crash, history
  <2>2. faults \in Nat /\ faults' = faults + 1 /\ Handled(u)' \in Nat
    BY <1>3, <2>1 DEF IInv, DataTypes, Fault, Handled
  <2>3. ASSUME NEW i \in DOMAIN Feed[u]
        PROVE  stored'[u][i] <= IF i <= Handled(u)' THEN 1 + faults' ELSE faults'
    <3>1. stored[u][i] \in Nat /\ stored[u][i] <= 1 + faults
      BY <1>3, <2>2 DEF CopiesOf
    <3> QED BY <1>3, <2>1, <2>2, <3>1
  <2>4. CopiesOf(u)'
    BY <2>3 DEF CopiesOf
  <2>5. \A v \in Updaters : v # u => /\ pc'[v] = pc[v] /\ cur'[v] = cur[v] /\ last'[v] = last[v]
    BY <1>3, <2>1
  <2> QED BY <2>1, <2>4, <2>5, CopiesOfOthers
<1> QED BY <1>1, <1>2, <1>4, <1>5, <1>6, <1>7

-----------------------------------------------------------------------------
(* Profiles, calls and decisions.                                          *)

\* What the rules decide.
LEMMA DecisionFacts ==
    ASSUME NEW prof, NEW a
    PROVE  /\ Decision(prof, a) \in Decisions
           /\ Decision(prof, a) = "REJECTED" <=> Int64(prof.total + a) > DailyLimit \/ prof.count >= Velocity
BY DEF Decision, Decisions, CheckDailyLimit, CheckVelocity, CheckLargeTransaction

\* A rejection on a profile that claims no more than the sums is one that the
\* sums give reason for.
LEMMA DecisionEarned ==
    ASSUME NEW prof \in Profiles, NEW sums \in Sums, Below(prof, sums), NEW a \in Amounts,
           Decision(prof, a) = "REJECTED"
    PROVE  sums.total + a > DailyLimit \/ sums.count >= Velocity
<1>1. /\ MaxInt \in Nat /\ DailyLimit \in Nat /\ Velocity \in Nat /\ a \in Nat
      /\ sums.total \in Nat /\ sums.count \in Nat /\ prof.count \in Nat
      /\ prof.total \in Int /\ prof.total >= -MaxInt - 1
      /\ prof.total <= sums.total /\ prof.count <= sums.count
  BY ConstantFacts DEF Profiles, Sums, Below
<1>2. PICK n : n = prof.total + a
  OBVIOUS
<1>3. n \in Int /\ n >= -MaxInt - 1
  BY <1>1, <1>2
<1>4. Int64(n) <= n /\ Int64(n) \in Int
  BY <1>1, <1>3, Int64Facts
<1>5. Int64(n) > DailyLimit \/ prof.count >= Velocity
  BY <1>2, DecisionFacts
<1> QED BY <1>1, <1>2, <1>3, <1>4, <1>5

\* A decided call is for a user.
LEMMA DecidedCalls ==
    ASSUME CallInv, NEW p \in Callers, evaluation[p].decision # "none"
    PROVE  evaluation[p].user \in Users /\ evaluation[p].amount \in Amounts
<1>1. evaluation[p] # Idle
  BY DEF Idle
<1> QED BY <1>1 DEF CallInv

\* What was delivered only grows, and what was earned by it stays earned.
LEMMA EarnedStays ==
    ASSUME IInv, UNCHANGED evaluation, delivered' \in [Users -> Sums],
           \A x \in Users : /\ delivered[x].total <= delivered'[x].total
                            /\ delivered[x].count <= delivered'[x].count
    PROVE  CallInv' /\ RejectionsEarned'
<1>1. CallInv'
  BY DEF IInv, CallInv
<1>2. ASSUME NEW p \in Callers, evaluation[p].decision = "REJECTED"
      PROVE  \/ delivered'[evaluation[p].user].total + evaluation[p].amount > DailyLimit
             \/ delivered'[evaluation[p].user].count >= Velocity
  <2>1. PICK x, a : x = evaluation[p].user /\ a = evaluation[p].amount
    OBVIOUS
  <2>2. x \in Users /\ a \in Amounts
    BY <1>2, <2>1, DecidedCalls DEF IInv
  <2>3. /\ a \in Nat /\ delivered[x].total \in Nat /\ delivered[x].count \in Nat
        /\ delivered'[x].total \in Nat /\ delivered'[x].count \in Nat
        /\ DailyLimit \in Nat /\ Velocity \in Nat
    BY <2>2, ConstantFacts DEF IInv, DataTypes, Sums
  <2>4. delivered[x].total + a > DailyLimit \/ delivered[x].count >= Velocity
    BY <1>2, <2>1 DEF IInv, RejectionsEarned
  <2> QED BY <2>1, <2>2, <2>3, <2>4
<1> QED BY <1>1, <1>2 DEF RejectionsEarned

\* A step of a call: the others stay as they are.
LEMMA OneCall ==
    ASSUME IInv, UNCHANGED delivered, NEW p \in Callers, NEW e \in Calls,
           evaluation' = [evaluation EXCEPT ![p] = e],
           e # Idle => e.user \in Users /\ e.amount \in Amounts,
           e.decision = "REJECTED" =>
              \/ delivered[e.user].total + e.amount > DailyLimit
              \/ delivered[e.user].count >= Velocity
    PROVE  CallInv' /\ RejectionsEarned' /\ evaluation' \in [Callers -> Calls]
<1>1. /\ evaluation' \in [Callers -> Calls] /\ evaluation'[p] = e
      /\ \A q \in Callers : q # p => evaluation'[q] = evaluation[q]
  BY DEF IInv, DataTypes
<1>2. CallInv'
  BY <1>1 DEF IInv, CallInv
<1>3. ASSUME NEW q \in Callers, evaluation'[q].decision = "REJECTED"
      PROVE  \/ delivered'[evaluation'[q].user].total + evaluation'[q].amount > DailyLimit
             \/ delivered'[evaluation'[q].user].count >= Velocity
  <2>1. CASE q = p
    BY <1>1, <1>3, <2>1
  <2>2. CASE q # p
    BY <1>1, <1>3, <2>2 DEF IInv, RejectionsEarned
  <2> QED BY <2>1, <2>2
<1> QED BY <1>1, <1>2, <1>3 DEF RejectionsEarned

\* A decision on a profile that claims no more than was delivered.
LEMMA DecideKeeps ==
    ASSUME IInv, NEW p \in Callers, NEW prof \in Profiles,
           evaluation[p] # Idle => Below(prof, delivered[evaluation[p].user]), Decide(p, prof)
    PROVE  CallInv' /\ RejectionsEarned' /\ evaluation' \in [Callers -> Calls]
<1>1. PICK c, d, s : c = evaluation[p] /\ d = Decision(prof, c.amount) /\ s = recent[c.user]
  OBVIOUS
<1>2. PICK e : e = [c EXCEPT !.decision = d, !.seen = s]
  OBVIOUS
<1>3. /\ c # Idle /\ evaluation' = [evaluation EXCEPT ![p] = e] /\ UNCHANGED delivered
  BY <1>1, <1>2 DEF Decide, history
<1>4. c \in Calls /\ c.user \in Users /\ c.amount \in Amounts
  BY <1>1, <1>3 DEF IInv, DataTypes, CallInv
<1>5. d \in Decisions /\ s \in Sums /\ delivered[c.user] \in Sums
  BY <1>1, <1>4, DecisionFacts DEF IInv, DataTypes
<1>6. e \in Calls /\ e.user = c.user /\ e.amount = c.amount /\ e.decision = d
  BY <1>2, <1>4, <1>5 DEF Calls
<1>7. ASSUME d = "REJECTED"
      PROVE  delivered[c.user].total + c.amount > DailyLimit \/ delivered[c.user].count >= Velocity
  BY <1>1, <1>3, <1>4, <1>5, <1>7, DecisionEarned
<1> QED BY <1>3, <1>4, <1>6, <1>7, OneCall

\* The empty profile claims nothing.
LEMMA NoProfileFacts ==
    /\ NoProfile \in Profiles /\ NoProfile \in Sums
    /\ \A s \in Sums : Below(NoProfile, s)
BY FraudAssumption DEF NoProfile, Profiles, Sums, Below

\* The calls of Evaluate keep what is said of calls and decisions.
LEMMA CallsKeep ==
    ASSUME IInv, NEW p \in Callers, Begin(p) \/ Evaluate(p) \/ EvaluateBlind(p) \/ Answer(p)
    PROVE  /\ CallInv' /\ RejectionsEarned' /\ evaluation' \in [Callers -> Calls]
           /\ UNCHANGED <<profile, age, partition, history>>
           /\ UNCHANGED faults \/ Fault
<1>1. CASE Begin(p)
  <2>1. PICK x \in Users, a \in Amounts :
            evaluation' = [evaluation EXCEPT ![p] = [Idle EXCEPT !.user = x, !.amount = a]]
    BY <1>1 DEF Begin
  <2>2. PICK e : e = [Idle EXCEPT !.user = x, !.amount = a]
    OBVIOUS
  <2>3. e \in Calls /\ e.user = x /\ e.amount = a /\ e.decision = "none"
    BY <2>2, NoProfileFacts DEF Idle, Calls
  <2>4. UNCHANGED <<profile, age, partition, history, faults>> /\ UNCHANGED delivered
    BY <1>1 DEF Begin, history
  <2>5. CallInv' /\ RejectionsEarned' /\ evaluation' \in [Callers -> Calls]
    BY <2>1, <2>2, <2>3, <2>4, OneCall
  <2> QED BY <2>4, <2>5
<1>2. CASE Evaluate(p)
  <2>1. PICK prof : prof = profile[evaluation[p].user]
    OBVIOUS
  <2>2. Decide(p, prof) /\ UNCHANGED faults
    BY <1>2, <2>1 DEF Evaluate
  <2>3. evaluation[p].user \in Users
    BY <2>2 DEF Decide, IInv, CallInv
  <2>4. prof \in Profiles /\ Below(prof, delivered[evaluation[p].user])
    BY <2>1, <2>3 DEF IInv, DataTypes, ProfileInv
  <2>5. CallInv' /\ RejectionsEarned' /\ evaluation' \in [Callers -> Calls]
    BY <2>2, <2>4, DecideKeeps
  <2> QED BY <2>2, <2>5 DEF Decide
<1>3. CASE EvaluateBlind(p)
  <2>1. Decide(p, NoProfile) /\ Fault
    BY <1>3 DEF EvaluateBlind
  <2>2. evaluation[p].user \in Users
    BY <2>1 DEF Decide, IInv, CallInv
  <2>3. delivered[evaluation[p].user] \in Sums
    BY <2>2 DEF IInv, DataTypes
  <2>4. CallInv' /\ RejectionsEarned' /\ evaluation' \in [Callers -> Calls]
    BY <2>1, <2>3, NoProfileFacts, DecideKeeps
  <2> QED BY <2>1, <2>4 DEF Decide
<1>4. CASE Answer(p)
  <2>1. /\ UNCHANGED <<profile, age, partition, history, faults>> /\ UNCHANGED delivered
        /\ evaluation' = [evaluation EXCEPT ![p] = Idle]
    BY <1>4 DEF Answer, history
  <2>2. Idle \in Calls /\ Idle.decision = "none"
    BY NoProfileFacts DEF Idle, Calls
  <2>3. CallInv' /\ RejectionsEarned' /\ evaluation' \in [Callers -> Calls]
    BY <2>1, <2>2, OneCall
  <2> QED BY <2>1, <2>3
<1> QED BY <1>1, <1>2, <1>3, <1>4

\* A record is stored: the profile grows by no more than what was delivered.
LEMMA StoreKeeps ==
    ASSUME IInv, NEW u \in Updaters, pc[u] = "set", StoreProfile(u)
    PROVE  /\ ProfileInv'
           /\ profile' \in [Users -> Profiles] /\ age' \in [Users -> 0..(TTL - 1)]
           /\ delivered' \in [Users -> Sums] /\ recent' \in [Users -> Sums]
           /\ \A x \in Users : /\ delivered[x].total <= delivered'[x].total
                               /\ delivered[x].count <= delivered'[x].count
           /\ DOMAIN stored' = Updaters
           /\ \A v \in Updaters : stored'[v] \in [DOMAIN Feed[v] -> Nat]
<1>1. PICK r, x, a : r = Record(u) /\ x = r.user /\ a = r.amount
  OBVIOUS
<1>2. x \in Users /\ a \in 1..MaxInt /\ a \in Nat /\ MaxInt \in Nat
  BY <1>1, RecordFacts, FraudAssumption DEF IInv
<1>3. PICK n, s, t :
        /\ n = AfterTransaction(found[u], a)
        /\ s = [total |-> delivered[x].total + a, count |-> delivered[x].count + 1]
        /\ t = [total |-> recent[x].total + a, count |-> recent[x].count + 1]
  OBVIOUS
<1>4. /\ profile' = [profile EXCEPT ![x] = n] /\ age' = [age EXCEPT ![x] = 0]
      /\ stored' = [stored EXCEPT ![u][cur[u]] = @ + 1]
      /\ delivered' = [delivered EXCEPT ![x] = s] /\ recent' = [recent EXCEPT ![x] = t]
  BY <1>1, <1>3 DEF StoreProfile
<1>5. /\ found[u] \in Profiles /\ found[u].total \in Int /\ found[u].count \in Nat
      /\ found[u].total >= -MaxInt - 1
      /\ delivered[x].total \in Nat /\ delivered[x].count \in Nat
      /\ recent[x].total \in Nat /\ recent[x].count \in Nat
  BY <1>2 DEF IInv, DataTypes, Profiles, Sums
<1>6. found[u].total <= delivered[x].total /\ found[u].count <= delivered[x].count
  BY <1>1 DEF IInv, FoundInv, Below
<1>7. PICK m : m = found[u].total + a
  OBVIOUS
<1>8. m \in Int /\ m >= -MaxInt - 1
  BY <1>2, <1>5, <1>7
<1>9. Int64(m) <= m /\ Int64(m) \in (-MaxInt - 1)..MaxInt
  BY <1>8, Int64Facts
<1>10. n.total = Int64(m) /\ n.count = found[u].count + 1 /\ n = [total |-> Int64(m), count |-> found[u].count + 1]
  BY <1>3, <1>7 DEF AfterTransaction
<1>11. n \in Profiles
  BY <1>5, <1>9, <1>10 DEF Profiles
<1>12. s \in Sums /\ t \in Sums /\ s.total = delivered[x].total + a /\ s.count = delivered[x].count + 1
  BY <1>2, <1>3, <1>5 DEF Sums
<1>13. Below(n, s)
  BY <1>2, <1>5, <1>6, <1>7, <1>9, <1>10, <1>12 DEF Below
<1>14. /\ profile' \in [Users -> Profiles] /\ age' \in [Users -> 0..(TTL - 1)]
       /\ delivered' \in [Users -> Sums] /\ recent' \in [Users -> Sums]
       /\ profile'[x] = n /\ delivered'[x] = s
       /\ \A y \in Users : y # x => profile'[y] = profile[y] /\ delivered'[y] = delivered[y]
  BY <1>2, <1>4, <1>11, <1>12, FraudAssumption DEF IInv, DataTypes
<1>15. ProfileInv'
  BY <1>13, <1>14 DEF IInv, ProfileInv, Below
<1>16. ASSUME NEW y \in Users
       PROVE  delivered[y].total <= delivered'[y].total /\ delivered[y].count <= delivered'[y].count
  <2>1. delivered[y].total \in Nat /\ delivered[y].count \in Nat
    BY DEF IInv, DataTypes, Sums
  <2> QED BY <1>2, <1>5, <1>12, <1>14, <2>1
<1>17. DOMAIN stored' = Updaters /\ \A v \in Updaters : stored'[v] \in [DOMAIN Feed[v] -> Nat]
  <2>1. DOMAIN stored = Updaters /\ \A v \in Updaters : stored[v] \in [DOMAIN Feed[v] -> Nat]
    BY DEF IInv, DataTypes
  <2>2. cur[u] \in DOMAIN Feed[u]
    BY ConstantFacts DEF IInv, PartitionInv, AtRecord
  <2>3. stored[u][cur[u]] + 1 \in Nat
    BY <2>1, <2>2
  <2>4. [stored[u] EXCEPT ![cur[u]] = stored[u][cur[u]] + 1] \in [DOMAIN Feed[u] -> Nat]
    BY <2>1, <2>3
  <2> QED BY <1>4, <2>1, <2>4
<1> QED BY <1>14, <1>15, <1>16, <1>17

\* What was read is bounded as long as it is used: what was delivered grows,
\* and the record stays.
LEMMA FoundStays ==
    ASSUME IInv, NEW u \in Updaters, delivered' \in [Users -> Sums],
           \A x \in Users : /\ delivered[x].total <= delivered'[x].total
                            /\ delivered[x].count <= delivered'[x].count,
           \A v \in Updaters : v # u => pc'[v] = pc[v] /\ cur'[v] = cur[v] /\ found'[v] = found[v],
           pc'[u] = "set" => Below(found'[u], delivered'[Record(u)'.user])
    PROVE  FoundInv'
<1>1. ASSUME NEW v \in Updaters, v # u, pc[v] = "set"
      PROVE  Below(found[v], delivered'[Record(v).user])
  <2>1. Record(v).user \in Users
    BY <1>1, RecordFacts DEF IInv
  <2>2. PICK x : x = Record(v).user
    OBVIOUS
  <2>3. /\ found[v].total \in Int /\ found[v].count \in Nat /\ Below(found[v], delivered[x])
        /\ delivered[x].total \in Nat /\ delivered[x].count \in Nat
        /\ delivered'[x].total \in Nat /\ delivered'[x].count \in Nat
    BY <1>1, <2>1, <2>2, ConstantFacts DEF IInv, DataTypes, Profiles, Sums, FoundInv
  <2> QED BY <2>1, <2>2, <2>3 DEF Below
<1>2. ASSUME NEW v \in Updaters, v # u PROVE Record(v)' = Record(v)
  BY <1>2 DEF Record
<1> QED BY <1>1, <1>2 DEF FoundInv

-----------------------------------------------------------------------------
(* The steps.                                                              *)

\* A step of an updater that stores no profile keeps the invariant.
LEMMA QuietUpdater ==
    ASSUME IInv, NEW u \in Updaters, PartitionInv', CopiesInv',
           UNCHANGED <<profile, age, evaluation, stored, delivered, recent>>,
           found' \in [Updaters -> Profiles],
           \A v \in Updaters : v # u => pc'[v] = pc[v] /\ cur'[v] = cur[v] /\ found'[v] = found[v],
           pc'[u] = "set" => Below(found'[u], delivered[Record(u)'.user]),
           UNCHANGED faults \/ Fault
    PROVE  IInv'
<1>1. faults' \in 0..MaxFaults
  BY FaultKeeps DEF IInv
<1>2. DataTypes'
  BY <1>1 DEF IInv, DataTypes
<1>3. /\ delivered' \in [Users -> Sums]
      /\ \A x \in Users : /\ delivered[x].total <= delivered'[x].total
                          /\ delivered[x].count <= delivered'[x].count
  BY DEF IInv, DataTypes, Sums
<1>4. CallInv' /\ RejectionsEarned'
  BY <1>3, EarnedStays
<1>5. FoundInv'
  BY <1>3, FoundStays
<1>6. ProfileInv'
  BY DEF IInv, ProfileInv, Below
<1> QED BY <1>2, <1>4, <1>5, <1>6 DEF IInv

\* The steps of an updater keep the invariant.
LEMMA UpdaterKeeps ==
    ASSUME IInv, NEW u \in Updaters,
           Poll(u) \/ Skip(u) \/ GetProfile(u) \/ UpdateProfile(u) \/ Commit(u) \/ Crash(u)
    PROVE  IInv'
<1>1. PartitionInv' /\ CopiesInv'
  BY PartitionKeeps, CopiesKeep DEF IInv
<1>2. NoProfile \in Profiles
  BY NoProfileFacts
<1>3. /\ found \in [Updaters -> Profiles] /\ pc \in [Updaters -> {"poll", "handle", "set", "commit"}]
      /\ cur \in [Updaters -> Nat]
  BY DEF IInv, DataTypes, PartitionInv
<1>4. CASE Poll(u)
  <2>1. /\ UNCHANGED <<profile, age, found, evaluation, stored, delivered, recent, faults>>
        /\ cur' = [cur EXCEPT ![u] = last[u] + 1] /\ pc' = [pc EXCEPT ![u] = "handle"]
    BY <1>4 DEF Poll, history
  <2>2. pc'[u] # "set" /\ \A v \in Updaters : v # u => pc'[v] = pc[v] /\ cur'[v] = cur[v]
    BY <1>3, <2>1
  <2> QED BY <1>1, <1>3, <2>1, <2>2, QuietUpdater
<1>5. CASE Skip(u)
  <2>1. /\ UNCHANGED <<profile, age, evaluation, stored, delivered, recent, faults>> /\ NextRecord(u)
    BY <1>5 DEF Skip, history
  <2>2. /\ found' \in [Updaters -> Profiles] /\ pc'[u] # "set"
        /\ \A v \in Updaters : v # u => pc'[v] = pc[v] /\ cur'[v] = cur[v] /\ found'[v] = found[v]
    BY <1>2, <1>3, <2>1 DEF NextRecord
  <2> QED BY <1>1, <2>1, <2>2, QuietUpdater
<1>6. CASE GetProfile(u)
  <2>1. pc[u] = "handle" /\ Relevant(Record(u))
    BY <1>6 DEF GetProfile
  <2>2. PICK x : x = Record(u).user
    OBVIOUS
  <2>3. x \in Users
    BY <2>1, <2>2, RecordFacts DEF IInv, Relevant
  <2>4. profile[x] \in Profiles /\ Below(profile[x], delivered[x]) /\ Below(NoProfile, delivered[x])
    BY <2>3, NoProfileFacts DEF IInv, DataTypes, ProfileInv
  <2>5. PICK f \in {profile[x], NoProfile} : found' = [found EXCEPT ![u] = f]
    BY <1>6, <2>2 DEF GetProfile
  <2>6. /\ UNCHANGED <<profile, age, evaluation, stored, delivered, recent, cur>>
        /\ pc' = [pc EXCEPT ![u] = "set"] /\ (UNCHANGED faults \/ Fault)
    BY <1>6 DEF GetProfile, history
  <2>7. f \in Profiles /\ Below(f, delivered[x])
    BY <1>2, <2>4, <2>5
  <2>8. /\ found' \in [Updaters -> Profiles] /\ found'[u] = f
        /\ \A v \in Updaters : v # u => pc'[v] = pc[v] /\ cur'[v] = cur[v] /\ found'[v] = found[v]
    BY <1>3, <2>5, <2>6, <2>7
  <2>9. Record(u)'.user = x
    BY <2>2, <2>6 DEF Record
  <2>10. Below(found'[u], delivered[Record(u)'.user])
    BY <2>7, <2>8, <2>9
  <2> QED BY <1>1, <2>6, <2>8, <2>10, QuietUpdater
<1>7. CASE UpdateProfile(u)
  <2>1. /\ pc[u] = "set" /\ UNCHANGED evaluation /\ NextRecord(u) /\ (UNCHANGED faults \/ Fault)
        /\ StoreProfile(u) \/ UNCHANGED <<profile, age, stored, delivered, recent>>
    BY <1>7 DEF UpdateProfile, history
  <2>2. /\ found' \in [Updaters -> Profiles] /\ pc'[u] # "set"
        /\ \A v \in Updaters : v # u => pc'[v] = pc[v] /\ cur'[v] = cur[v] /\ found'[v] = found[v]
    BY <1>2, <1>3, <2>1 DEF NextRecord
  <2>3. CASE StoreProfile(u)
    <3>1. /\ ProfileInv'
          /\ profile' \in [Users -> Profiles] /\ age' \in [Users -> 0..(TTL - 1)]
          /\ delivered' \in [Users -> Sums] /\ recent' \in [Users -> Sums]
          /\ \A x \in Users : /\ delivered[x].total <= delivered'[x].total
                              /\ delivered[x].count <= delivered'[x].count
          /\ DOMAIN stored' = Updaters
          /\ \A v \in Updaters : stored'[v] \in [DOMAIN Feed[v] -> Nat]
      BY <2>1, <2>3, StoreKeeps
    <3>2. faults' \in 0..MaxFaults /\ evaluation' \in [Callers -> Calls]
      BY <2>1, FaultKeeps DEF IInv, DataTypes
    <3>3. DataTypes'
      BY <2>2, <3>1, <3>2 DEF DataTypes
    <3>4. CallInv' /\ RejectionsEarned'
      BY <2>1, <3>1, EarnedStays
    <3>5. FoundInv'
      BY <2>2, <3>1, FoundStays
    <3> QED BY <1>1, <3>1, <3>3, <3>4, <3>5 DEF IInv
  <2>4. CASE UNCHANGED <<profile, age, stored, delivered, recent>>
    BY <1>1, <2>1, <2>2, <2>4, QuietUpdater
  <2> QED BY <2>1, <2>3, <2>4
<1>8. CASE Commit(u)
  <2>1. /\ UNCHANGED <<profile, age, found, evaluation, stored, delivered, recent, cur>>
        /\ UNCHANGED faults \/ Fault
        /\ pc' = [pc EXCEPT ![u] = "poll"]
    BY <1>8 DEF Commit, history
  <2>2. pc'[u] # "set" /\ \A v \in Updaters : v # u => pc'[v] = pc[v]
    BY <1>3, <2>1
  <2> QED BY <1>1, <1>3, <2>1, <2>2, QuietUpdater
<1>9. CASE Crash(u)
  <2>1. /\ UNCHANGED <<profile, age, evaluation, stored, delivered, recent>> /\ Fault
        /\ found' = [found EXCEPT ![u] = NoProfile] /\ pc' = [pc EXCEPT ![u] = "poll"]
        /\ cur' = [cur EXCEPT ![u] = committed[u]]
    BY <1>9 DEF Crash, history
  <2>2. /\ found' \in [Updaters -> Profiles] /\ pc'[u] # "set"
        /\ \A v \in Updaters : v # u => pc'[v] = pc[v] /\ cur'[v] = cur[v] /\ found'[v] = found[v]
    BY <1>2, <1>3, <2>1
  <2> QED BY <1>1, <2>1, <2>2, QuietUpdater
<1> QED BY <1>4, <1>5, <1>6, <1>7, <1>8, <1>9

\* What rests while the updaters do.
LEMMA UpdatersRest ==
    ASSUME IInv, UNCHANGED <<partition, stored, delivered>>, UNCHANGED faults \/ Fault
    PROVE  PartitionInv' /\ CopiesInv' /\ FoundInv'
<1>1. UNCHANGED <<pc, cur, last, committed, found>>
  BY DEF partition
<1>2. PartitionInv'
  BY PartitionUnchanged DEF IInv
<1>3. CopiesInv'
  <2>1. faults' \in Nat /\ faults \in Nat /\ faults <= faults'
    BY FaultKeeps DEF IInv
  <2>2. ASSUME NEW u \in Updaters, NEW i \in DOMAIN Feed[u]
        PROVE  stored'[u][i] <= IF i <= Handled(u)' THEN 1 + faults' ELSE faults'
    <3>1. Handled(u)' = Handled(u) /\ stored[u][i] \in Nat
      BY <1>1 DEF Handled, IInv, DataTypes
    <3>2. stored[u][i] <= IF i <= Handled(u) THEN 1 + faults ELSE faults
      BY DEF IInv, CopiesInv, CopiesOf
    <3> QED BY <2>1, <3>1, <3>2
  <2> QED BY <2>2 DEF CopiesInv, CopiesOf
<1>4. FoundInv'
  BY <1>1 DEF IInv, FoundInv, Below, Record
<1> QED BY <1>2, <1>3, <1>4

\* The time and the end of a lifetime only take from profiles.
LEMMA TickKeeps ==
    ASSUME IInv, Tick
    PROVE  IInv'
<1>1. PICK x \in Users :
        /\ \/ age[x] + 1 < TTL /\ age' = [age EXCEPT ![x] = age[x] + 1] /\ UNCHANGED profile
           \/ age' = [age EXCEPT ![x] = 0] /\ profile' = [profile EXCEPT ![x] = NoProfile]
        /\ recent' = [recent EXCEPT ![x] = NoProfile]
        /\ UNCHANGED <<partition, evaluation, stored, delivered, faults>>
  BY DEF Tick
<1>2. PartitionInv' /\ CopiesInv' /\ FoundInv' /\ UNCHANGED found
  BY <1>1, UpdatersRest DEF partition
<1>3. age[x] \in 0..(TTL - 1) /\ TTL \in Nat /\ TTL >= 1 /\ NoProfile \in Profiles /\ NoProfile \in Sums
  BY FraudAssumption, NoProfileFacts DEF IInv, DataTypes
<1>4. age' \in [Users -> 0..(TTL - 1)] /\ recent' \in [Users -> Sums] /\ profile' \in [Users -> Profiles]
  BY <1>1, <1>3 DEF IInv, DataTypes
<1>5. DataTypes'
  BY <1>1, <1>2, <1>4 DEF IInv, DataTypes
<1>6. ASSUME NEW y \in Users PROVE Below(profile'[y], delivered'[y])
  <2>1. Below(profile[y], delivered[y]) /\ Below(NoProfile, delivered[y])
    BY NoProfileFacts DEF IInv, ProfileInv, DataTypes
  <2>2. profile'[y] = profile[y] \/ profile'[y] = NoProfile
    BY <1>1 DEF IInv, DataTypes
  <2> QED BY <1>1, <2>1, <2>2
<1>7. CallInv' /\ RejectionsEarned'
  BY <1>1 DEF IInv, CallInv, RejectionsEarned
<1> QED BY <1>2, <1>5, <1>6, <1>7 DEF IInv, ProfileInv, Below

\* The invariant holds at the start.
LEMMA InvariantInit ==
    Init => IInv
<1>1. SUFFICES ASSUME Init PROVE IInv
  OBVIOUS
<1>2. /\ NoProfile \in Profiles /\ NoProfile \in Sums /\ NoProfile.total = 0 /\ NoProfile.count = 0
      /\ Idle \in Calls /\ Idle.decision = "none" /\ 0 \in 0..(TTL - 1) /\ 0 \in 0..MaxFaults
  BY FraudAssumption DEF NoProfile, Profiles, Sums, Idle, Calls
<1>3. DataTypes
  BY <1>1, <1>2 DEF Init, DataTypes
<1>4. PartitionInv
  <2>1. \A u \in Updaters : Len(Feed[u]) \in Nat
    BY ConstantFacts
  <2> QED BY <1>1, <2>1 DEF Init, PartitionInv, AtRecord
<1>5. ProfileInv /\ FoundInv /\ CallInv /\ RejectionsEarned
  BY <1>1, <1>2 DEF Init, ProfileInv, FoundInv, CallInv, RejectionsEarned, Below
<1>6. CopiesInv
  BY <1>1 DEF Init, CopiesInv, CopiesOf
<1> QED BY <1>3, <1>4, <1>5, <1>6 DEF IInv

\* Every step keeps the invariant.
LEMMA InvariantNext ==
    ASSUME IInv, [Next]_vars
    PROVE  IInv'
<1>1. CASE Tick
  BY <1>1, TickKeeps
<1>2. ASSUME NEW p \in Callers, Begin(p) \/ Evaluate(p) \/ EvaluateBlind(p) \/ Answer(p)
      PROVE  IInv'
  <2>1. /\ CallInv' /\ RejectionsEarned' /\ evaluation' \in [Callers -> Calls]
        /\ UNCHANGED <<profile, age, partition, history>> /\ (UNCHANGED faults \/ Fault)
    BY <1>2, CallsKeep
  <2>2. UNCHANGED <<profile, age, found, stored, delivered, recent>> /\ UNCHANGED partition
    BY <2>1 DEF partition, history
  <2>3. PartitionInv' /\ CopiesInv' /\ FoundInv'
    BY <2>1, <2>2, UpdatersRest
  <2>4. faults' \in 0..MaxFaults
    BY <2>1, FaultKeeps DEF IInv
  <2>5. DataTypes' /\ ProfileInv'
    BY <2>1, <2>2, <2>4 DEF IInv, DataTypes, ProfileInv, Below
  <2> QED BY <2>1, <2>3, <2>5 DEF IInv
<1>3. ASSUME NEW u \in Updaters,
             Poll(u) \/ Skip(u) \/ GetProfile(u) \/ UpdateProfile(u) \/ Commit(u) \/ Crash(u)
      PROVE  IInv'
  BY <1>3, UpdaterKeeps
<1>4. CASE UNCHANGED vars
  <2>1. /\ UNCHANGED <<profile, age, evaluation, stored, delivered, recent, faults, found>>
        /\ UNCHANGED partition
    BY <1>4 DEF vars, partition, history
  <2>2. PartitionInv' /\ CopiesInv' /\ FoundInv'
    BY <2>1, UpdatersRest
  <2>3. DataTypes' /\ ProfileInv' /\ CallInv' /\ RejectionsEarned'
    BY <2>1 DEF IInv, DataTypes, ProfileInv, Below, CallInv, RejectionsEarned
  <2> QED BY <2>2, <2>3 DEF IInv
<1> QED BY <1>1, <1>2, <1>3, <1>4 DEF Next

\* So it always holds.
LEMMA Invariant ==
    Spec => []IInv
<1>1. Init => IInv
  BY InvariantInit
<1>2. IInv /\ [Next]_vars => IInv'
  BY InvariantNext
<1> QED BY <1>1, <1>2, PTL DEF Spec

\* The profiles in Redis, the updaters of profile_updater.go and the calls of
\* Evaluate keep to their types, however many there are: totals are int64 and
\* an updater never leaves the records of its last poll.
THEOREM TypeCorrect == Spec => []TypeOK
<1>1. ASSUME IInv PROVE TypeOK
  <2>1. ASSUME NEW u \in Updaters
        PROVE  /\ 0 <= committed[u] /\ committed[u] <= last[u] /\ last[u] <= Len(Feed[u])
               /\ cur[u] \in 0..last[u]
               /\ pc[u] \in {"handle", "set"} => cur[u] > committed[u]
    BY <1>1 DEF IInv, PartitionInv, AtRecord
  <2> QED BY <1>1, <2>1 DEF IInv, PartitionInv, DataTypes, Calls, TypeOK
<1> QED BY <1>1, Invariant, PTL

\* ProfileUpdater commits offsets after its records and has no table of
\* processed events: a record is counted in a profile at most once more than
\* there were faults, with any number of updaters and polls of any size.
THEOREM CopiesAreBounded == Spec => []CopiesBounded
<1>1. ASSUME IInv PROVE CopiesBounded
  <2>1. ASSUME NEW u \in Updaters, NEW i \in DOMAIN Feed[u] PROVE stored[u][i] <= 1 + faults
    <3>1. stored[u][i] <= IF i <= Handled(u) THEN 1 + faults ELSE faults
      BY <1>1 DEF IInv, CopiesInv, CopiesOf
    <3>2. stored[u][i] \in Nat /\ faults \in Nat
      BY <1>1 DEF IInv, DataTypes
    <3> QED BY <3>1, <3>2
  <2> QED BY <2>1 DEF CopiesBounded
<1> QED BY <1>1, Invariant, PTL

\* FraudService.Evaluate rejects a call only when what the updaters counted for
\* its user is over one of the limits: lost updates, failed reads, expiry and
\* the wraparound of int64 can only make a profile claim less.
THEOREM RejectionsAreEarned == Spec => []RejectionsEarned
<1>1. IInv => RejectionsEarned
  BY DEF IInv
<1> QED BY <1>1, Invariant, PTL

=============================================================================
