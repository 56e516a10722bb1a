------------------------ MODULE RecoveryCycleProofs ------------------------
(***************************************************************************)
(* Proofs about RecoveryCycle for every policy, schedule policy and pool.  *)
(***************************************************************************)
EXTENDS RecoveryCycle, FiniteSetTheorems, SequenceTheorems, WellFoundedInduction, TLAPS

\* A calibration runs for a reason, and memory is empty between cycles.
Phase ==
  /\ pc \in {"idle", "evaluate"} => records = <<>> /\ passesLeft = 0
  /\ pc = "passes" => passesLeft > 0 /\ reason # "none"
  /\ records # <<>> => reason # "none"

-----------------------------------------------------------------------------
(* Ages and sequences.                                                     *)

\* A function on 1..n is a sequence of length n.
LEMMA IsSequence ==
  ASSUME NEW S, NEW n \in Nat, NEW t \in [1..n -> S]
  PROVE  t \in Seq(S) /\ Len(t) = n
  OBVIOUS

LEMMA LengthIsNat ==
  ASSUME NEW S, NEW t \in Seq(S)
  PROVE  Len(t) \in Nat
  OBVIOUS

LEMMA ElementOf ==
  ASSUME NEW S, NEW t \in Seq(S)
  PROVE  DOMAIN t = 1..Len(t) /\ \A i \in 1..Len(t) : t[i] \in S
  OBVIOUS

LEMMA AppendedTo ==
  ASSUME NEW S, NEW t \in Seq(S), NEW e \in S, NEW n, n = Len(t)
  PROVE  /\ Len(Append(t, e)) = n + 1
         /\ \A i \in 1..n : Append(t, e)[i] = t[i]
         /\ Append(t, e)[n + 1] = e
  OBVIOUS

LEMMA NotTheLast ==
  ASSUME NEW n \in Nat, NEW i \in 1..(n + 1), i # n + 1
  PROVE  i \in 1..n
  OBVIOUS

\* Arithmetic on cardinalities, on its own.
LEMMA UnionBound ==
  \A a, b, c, d, e \in Nat : c <= e /\ a <= b + c - d => a <= b + e
  OBVIOUS

LEMMA Constants ==
  ASSUME RecoveryAssumption
  PROVE  /\ NormalRest \in Nat /\ BurstRest \in Nat /\ RetryRest \in Nat
         /\ MaxFaults \in Nat /\ Horizon \in Nat /\ Keep \in Nat /\ Day \in Nat
         /\ DailyLimit \in Nat /\ Horizon > Day /\ MaxVisits \in Nat
         /\ MinTargets \in Nat /\ BurstLimit \in Nat /\ Passes \in Nat
         /\ 0 \in Age /\ Horizon \in Age
BY DEF RecoveryAssumption, Age

LEMMA OlderIsAnAge ==
  ASSUME RecoveryAssumption, NEW a \in Age
  PROVE  Older(a) \in Age /\ Older(a) >= a
BY DEF RecoveryAssumption, Older, Min2, Age

LEMMA OlderStored ==
  ASSUME RecoveryAssumption, NEW s \in Seq(Stored)
  PROVE  /\ OlderRecords(s) \in Seq(Stored)
         /\ Len(OlderRecords(s)) = Len(s)
         /\ \A i \in 1..Len(s) : OlderRecords(s)[i].age >= s[i].age
<1> DEFINE t == OlderRecords(s)
<1>1. /\ DOMAIN s = 1..Len(s) /\ Len(s) \in Nat
      /\ \A i \in 1..Len(s) : s[i] \in Stored
  OBVIOUS
<1>2. t = [i \in 1..Len(s) |-> [s[i] EXCEPT !.age = Older(@)]]
  BY <1>1 DEF OlderRecords
<1>3. \A i \in 1..Len(s) : t[i] \in Stored /\ t[i].age >= s[i].age
  <2> TAKE i \in 1..Len(s)
  <2>1. s[i] \in Stored /\ s[i].age \in Age
    BY <1>1 DEF Stored
  <2>2. t[i] = [s[i] EXCEPT !.age = Older(s[i].age)]
    BY <1>2
  <2>3. Older(s[i].age) \in Age /\ Older(s[i].age) >= s[i].age
    BY <2>1, OlderIsAnAge
  <2> HIDE DEF t
  <2> QED
    BY <2>1, <2>2, <2>3 DEF Stored
<1>4. t \in [1..Len(s) -> Stored]
  BY <1>2, <1>3
<1> HIDE DEF t
<1>5. t \in Seq(Stored) /\ Len(t) = Len(s)
  BY <1>1, <1>4, IsSequence, Zenon
<1> QED
  BY <1>3, <1>5 DEF t

LEMMA OlderRecord ==
  ASSUME RecoveryAssumption, NEW s \in Seq(Record)
  PROVE  /\ OlderRecords(s) \in Seq(Record)
         /\ Len(OlderRecords(s)) = Len(s)
         /\ \A i \in 1..Len(s) : OlderRecords(s)[i].age >= s[i].age
<1> DEFINE t == OlderRecords(s)
<1>1. /\ DOMAIN s = 1..Len(s) /\ Len(s) \in Nat
      /\ \A i \in 1..Len(s) : s[i] \in Record
  OBVIOUS
<1>2. t = [i \in 1..Len(s) |-> [s[i] EXCEPT !.age = Older(@)]]
  BY <1>1 DEF OlderRecords
<1>3. \A i \in 1..Len(s) : t[i] \in Record /\ t[i].age >= s[i].age
  <2> TAKE i \in 1..Len(s)
  <2>1. s[i] \in Record /\ s[i].age \in Age
    BY <1>1 DEF Record
  <2>2. t[i] = [s[i] EXCEPT !.age = Older(s[i].age)]
    BY <1>2
  <2>3. Older(s[i].age) \in Age /\ Older(s[i].age) >= s[i].age
    BY <2>1, OlderIsAnAge
  <2> HIDE DEF t
  <2> QED
    BY <2>1, <2>2, <2>3 DEF Record
<1>4. t \in [1..Len(s) -> Record]
  BY <1>2, <1>3
<1> HIDE DEF t
<1>5. t \in Seq(Record) /\ Len(t) = Len(s)
  BY <1>1, <1>4, IsSequence, Zenon
<1> QED
  BY <1>3, <1>5 DEF t

LEMMA ToStoreType ==
  ASSUME NEW s \in Seq(Record)
  PROVE  /\ ToStore(s) \in Seq(Stored)
         /\ Len(ToStore(s)) = Len(s)
         /\ \A i \in 1..Len(s) : ToStore(s)[i].age = s[i].age
<1> DEFINE t == ToStore(s)
<1>1. /\ DOMAIN s = 1..Len(s) /\ Len(s) \in Nat
      /\ \A i \in 1..Len(s) : s[i] \in Record
  OBVIOUS
<1>2. t = [i \in 1..Len(s) |->
             [age |-> s[i].age, effective |-> s[i].effective, used |-> s[i].used]]
  BY <1>1 DEF ToStore
<1>3. \A i \in 1..Len(s) : t[i] \in Stored /\ t[i].age = s[i].age
  BY <1>1, <1>2 DEF Record, Stored
<1>4. t \in [1..Len(s) -> Stored]
  BY <1>2, <1>3
<1> HIDE DEF t
<1>5. t \in Seq(Stored) /\ Len(t) = Len(s)
  BY <1>1, <1>4, IsSequence, Zenon
<1> QED
  BY <1>3, <1>5 DEF t

LEMMA Suffix ==
  ASSUME NEW S, NEW s \in Seq(S), NEW k \in Nat, k <= Len(s)
  PROVE  /\ SubSeq(s, k + 1, Len(s)) \in Seq(S)
         /\ Len(SubSeq(s, k + 1, Len(s))) = Len(s) - k
         /\ \A i \in 1..(Len(s) - k) : SubSeq(s, k + 1, Len(s))[i] = s[i + k]
<1>1. Len(s) \in Nat /\ k + 1 \in Int /\ Len(s) \in Int
  OBVIOUS
<1>2. \A i \in (k + 1)..Len(s) : s[i] \in S
  OBVIOUS
<1>3. SubSeq(s, k + 1, Len(s)) \in Seq(S)
  BY <1>1, <1>2, SubSeqProperties
<1>4. Len(SubSeq(s, k + 1, Len(s))) = Len(s) - k
  BY <1>1
<1>5. \A i \in 1..(Len(s) - k) : SubSeq(s, k + 1, Len(s))[i] = s[i + k]
  BY <1>1
<1> QED
  BY <1>3, <1>4, <1>5

LEMMA KeepLastType ==
  ASSUME RecoveryAssumption, NEW s \in Seq(Stored)
  PROVE  /\ KeepLast(s) \in Seq(Stored)
         /\ Len(KeepLast(s)) <= Keep
         /\ \E k \in Nat : /\ Len(KeepLast(s)) + k = Len(s)
                           /\ \A i \in 1..Len(KeepLast(s)) :
                                KeepLast(s)[i] = s[i + k]
<1>1. PICK k \in Nat : /\ k + 1 = Max2(1, Len(s) - Keep + 1)
                       /\ k <= Len(s) /\ Len(s) - k <= Keep
  <2>1. Len(s) \in Nat /\ Keep \in Nat /\ Keep > 0
    BY LengthIsNat, SMTT(30) DEF RecoveryAssumption
  <2>2. CASE Len(s) <= Keep
    <3>1. /\ 0 + 1 = Max2(1, Len(s) - Keep + 1)
          /\ 0 <= Len(s) /\ Len(s) - 0 <= Keep
      BY <2>1, <2>2 DEF Max2
    <3> QED
      BY <3>1
  <2>3. CASE Len(s) > Keep
    <3>1. /\ Len(s) - Keep \in Nat
          /\ Len(s) - Keep + 1 = Max2(1, Len(s) - Keep + 1)
          /\ Len(s) - Keep <= Len(s) /\ Len(s) - (Len(s) - Keep) <= Keep
      BY <2>1, <2>3, SMTT(30) DEF Max2
    <3> QED
      BY <3>1
  <2> QED
    BY <2>1, <2>2, <2>3, SMTT(30)
<1>2. KeepLast(s) = SubSeq(s, k + 1, Len(s))
  BY <1>1 DEF KeepLast
<1>3. /\ KeepLast(s) \in Seq(Stored)
      /\ Len(KeepLast(s)) = Len(s) - k
      /\ \A i \in 1..(Len(s) - k) : KeepLast(s)[i] = s[i + k]
  <2>1. /\ SubSeq(s, k + 1, Len(s)) \in Seq(Stored)
        /\ Len(SubSeq(s, k + 1, Len(s))) = Len(s) - k
        /\ \A i \in 1..(Len(s) - k) : SubSeq(s, k + 1, Len(s))[i] = s[i + k]
    BY <1>1, Suffix, SMTT(30)
  <2> QED
    BY <1>2, <2>1, Zenon
<1>4. Len(KeepLast(s)) + k = Len(s) /\ Len(KeepLast(s)) <= Keep
  BY <1>1, <1>3
<1> QED
  BY <1>1, <1>3, <1>4

-----------------------------------------------------------------------------
(* Attempts in the last 24 hours.                                          *)

LEMMA RecentIsFinite ==
  ASSUME NEW S, NEW s \in Seq(S)
  PROVE  /\ IsFiniteSet(Recent(s)) /\ Cardinality(Recent(s)) \in Nat
         /\ Recent(s) \subseteq 1..Len(s)
<1>1. Recent(s) \subseteq 1..Len(s) /\ Len(s) \in Nat
  BY DEF Recent
<1>2. IsFiniteSet(1..Len(s))
  BY <1>1, FS_Interval
<1>3. IsFiniteSet(Recent(s))
  BY <1>1, <1>2, FS_Subset
<1> QED
  BY <1>1, <1>3, FS_CardinalityType

\* A sequence that embeds in another one, each element no younger, holds no more
\* recent attempts: k is how far its elements are moved.
LEMMA RecentEmbeds ==
  ASSUME NEW S, NEW s \in Seq(S), NEW T, NEW t \in Seq(T), NEW k \in Nat,
         Len(t) + k <= Len(s),
         \A i \in 1..Len(t) : t[i].age <= Day => s[i + k].age <= Day
  PROVE  Cardinality(Recent(t)) <= Cardinality(Recent(s))
<1> DEFINE f == [i \in Recent(t) |-> i + k]
<1>1. /\ Recent(t) \subseteq 1..Len(t) /\ Len(t) \in Nat /\ Len(s) \in Nat
      /\ DOMAIN s = 1..Len(s) /\ DOMAIN t = 1..Len(t)
  BY RecentIsFinite
<1>2. \A i \in Recent(t) : i \in Nat /\ i + k \in Recent(s)
  BY <1>1 DEF Recent
<1>3. f \in [Recent(t) -> Recent(s)]
  BY <1>2
<1>4. \A a, b \in Recent(t) : f[a] = f[b] => a = b
  BY <1>2
<1> HIDE DEF f
<1>5. f \in Injection(Recent(t), Recent(s))
  BY <1>3, <1>4 DEF Injection, IsInjective
<1>6. IsFiniteSet(Recent(s))
  BY RecentIsFinite
<1> QED
  BY <1>5, <1>6, FS_Injection

LEMMA RecentConcat ==
  ASSUME RecoveryAssumption, NEW s \in Seq(Stored), NEW r \in Seq(Stored)
  PROVE  Cardinality(Recent(s \o r)) <= Cardinality(Recent(s)) + Cardinality(Recent(r))
<1> DEFINE m == Len(s)
           old == Recent(s)
           new == {i \in (m + 1)..(m + Len(r)) : r[i - m].age <= Day}
           f == [i \in new |-> i - m]
<1>1. /\ m \in Nat /\ Len(r) \in Nat
      /\ DOMAIN s = 1..m /\ DOMAIN r = 1..Len(r)
      /\ s \o r \in Seq(Stored) /\ Len(s \o r) = m + Len(r)
      /\ DOMAIN (s \o r) = 1..(m + Len(r))
      /\ \A i \in 1..(m + Len(r)) :
           (s \o r)[i] = IF i <= m THEN s[i] ELSE r[i - m]
  BY ConcatProperties
<1>2. Recent(s \o r) \subseteq old \cup new
  <2> SUFFICES ASSUME NEW i \in Recent(s \o r) PROVE i \in old \cup new
    OBVIOUS
  <2>1. i \in 1..(m + Len(r)) /\ (s \o r)[i].age <= Day
    BY <1>1 DEF Recent
  <2>2. CASE i <= m
    BY <1>1, <2>1, <2>2 DEF Recent
  <2>3. CASE i > m
    BY <1>1, <2>1, <2>3, SMTT(30)
  <2> QED
    BY <1>1, <2>1, <2>2, <2>3
<1>3. \A i \in new : i \in Nat /\ i - m \in Recent(r)
  BY <1>1 DEF Recent
<1> HIDE DEF new, m
<1>4. f \in [new -> Recent(r)] /\ \A a, b \in new : f[a] = f[b] => a = b
  <2>1. f \in [new -> Recent(r)]
    BY <1>3
  <2>2. ASSUME NEW a \in new, NEW b \in new, f[a] = f[b] PROVE a = b
    <3>1. a - m = b - m /\ a \in Nat /\ b \in Nat /\ m \in Nat
      BY <1>1, <1>3, <2>2
    <3> QED
      BY <3>1, SMTT(30)
  <2> QED
    BY <2>1, <2>2
<1> HIDE DEF f
<1>5. f \in Injection(new, Recent(r))
  BY <1>4 DEF Injection, IsInjective
<1>6. /\ IsFiniteSet(old) /\ Cardinality(old) \in Nat
      /\ IsFiniteSet(Recent(r)) /\ Cardinality(Recent(r)) \in Nat
  BY RecentIsFinite
<1>7. IsFiniteSet(new) /\ Cardinality(new) <= Cardinality(Recent(r))
  BY <1>5, <1>6, FS_Injection
<1>8. /\ IsFiniteSet(old \cup new) /\ Cardinality(new) \in Nat
      /\ Cardinality(old \cup new)
           = Cardinality(old) + Cardinality(new) - Cardinality(old \cap new)
      /\ Cardinality(old \cap new) \in Nat
  <2>1. IsFiniteSet(old \cap new)
    BY <1>6, FS_Subset
  <2> QED
    BY <1>6, <1>7, <2>1, FS_Union, FS_CardinalityType
<1>9. Cardinality(Recent(s \o r)) <= Cardinality(old \cup new)
  BY <1>2, <1>8, FS_Subset
<1>10. Cardinality(Recent(s \o r)) \in Nat
  BY <1>1, RecentIsFinite
<1>11. /\ Cardinality(old) \in Nat /\ Cardinality(new) \in Nat
       /\ Cardinality(old \cap new) \in Nat /\ Cardinality(Recent(r)) \in Nat
       /\ Cardinality(Recent(s \o r))
            <= Cardinality(old) + Cardinality(new) - Cardinality(old \cap new)
  BY <1>6, <1>8, <1>9
<1> HIDE DEF old
<1>12. Cardinality(Recent(s \o r)) <= Cardinality(old) + Cardinality(Recent(r))
  BY <1>7, <1>10, <1>11, UnionBound, Zenon
<1> QED
  BY <1>12 DEF old

-----------------------------------------------------------------------------
(* Type correctness.                                                       *)

TypeInv == TypeOK /\ Phase

LEMMA TickType ==
  ASSUME RecoveryAssumption, TypeOK, Tick
  PROVE  /\ calibrations' \in Seq(Stored) /\ Len(calibrations') <= Keep
         /\ Len(calibrations') = Len(calibrations)
         /\ lost' \in Seq(Age)
<1>1. calibrations' \in Seq(Stored) /\ Len(calibrations') = Len(calibrations)
  BY OlderStored DEF TypeOK, Tick
<1>2. lost' \in Seq(Age)
  <2>1. lost \in Seq(Age)
    BY DEF TypeOK
  <2>2. /\ DOMAIN lost = 1..Len(lost) /\ Len(lost) \in Nat
        /\ \A i \in 1..Len(lost) : lost[i] \in Age
    BY <2>1, SMTT(30)
  <2>3. lost' = [i \in 1..Len(lost) |-> Older(lost[i])]
    BY <2>2 DEF Tick
  <2>4. \A i \in 1..Len(lost) : Older(lost[i]) \in Age
    BY <2>2, OlderIsAnAge
  <2>5. lost' \in [1..Len(lost) -> Age]
    BY <2>3, <2>4
  <2> QED
    BY <2>2, <2>5, IsSequence, Zenon
<1> QED
  BY <1>1, <1>2 DEF TypeOK

LEMMA LostType ==
  ASSUME TypeOK
  PROVE  lost \o [i \in DOMAIN records |-> records[i].age] \in Seq(Age)
<1> DEFINE ages == [i \in DOMAIN records |-> records[i].age]
<1>1. DOMAIN records = 1..Len(records) /\ Len(records) \in Nat
      /\ \A i \in 1..Len(records) : records[i] \in Record
  BY DEF TypeOK
<1>2. ages \in [1..Len(records) -> Age]
  BY <1>1 DEF Record
<1> HIDE DEF ages
<1>3. ages \in Seq(Age)
  BY <1>1, <1>2
<1>4. lost \in Seq(Age)
  BY DEF TypeOK
<1>5. lost \o ages \in Seq(Age)
  BY <1>3, <1>4, ConcatProperties
<1> QED
  BY <1>5 DEF ages

LEMMA ForgetType == Forget =>
  /\ collected' \in [observation : AllObservations, failed : BOOLEAN, targets : Nat]
  /\ reason' \in Degraded \cup {"maintenance", "none"} /\ healthy' \in BOOLEAN
  /\ passesLeft' \in Nat /\ targetsLeft' \in Nat /\ records' \in Seq(Record)
<1>1. Nothing \in [observation : AllObservations, failed : BOOLEAN, targets : Nat]
  BY DEF Nothing, AllObservations, Neutral
<1>2. <<>> \in Seq(Record) /\ 0 \in Nat /\ "none" \in {"maintenance", "none"}
  OBVIOUS
<1> QED
  BY <1>1, <1>2 DEF Forget

LEMMA InitType == RecoveryAssumption /\ Init => TypeInv
<1> SUFFICES ASSUME RecoveryAssumption, Init PROVE TypeInv
  OBVIOUS
<1>1. Nothing \in [observation : AllObservations, failed : BOOLEAN, targets : Nat]
  BY DEF Nothing, AllObservations, Neutral
<1>2. /\ <<>> \in Seq(Record) /\ <<>> \in Seq(Stored) /\ <<>> \in Seq(Age)
      /\ Len(<<>>) = 0 /\ 0 <= Keep /\ 0 \in Nat /\ 0 \in 0..MaxFaults
      /\ Horizon \in Age
  BY Constants
<1>3. [kind |-> "normal", active |-> FALSE] \in [kind : Kinds, active : BOOLEAN]
  BY DEF Kinds
<1> QED
  BY <1>1, <1>2, <1>3 DEF Init, TypeInv, TypeOK, Phase

LEMMA CollectType ==
  ASSUME RecoveryAssumption, TypeInv, NEW o \in Observations,
         NEW failed \in BOOLEAN, NEW t \in Targets, Collect(o, failed, t)
  PROVE  TypeInv'
<1>1. Tick
  BY DEF Collect
<1>2. collected' \in [observation : AllObservations, failed : BOOLEAN, targets : Nat]
  BY DEF Collect, RecoveryAssumption
<1> QED
  BY <1>1, <1>2, TickType DEF TypeInv, TypeOK, Phase, Collect

LEMMA EvaluateType ==
  ASSUME RecoveryAssumption, TypeInv, NEW valid \in BOOLEAN,
         NEW planned \in PlannedPasses, Evaluate(valid, planned)
  PROVE  TypeInv'
<1>1. planned \in Nat /\ RemainingAttempts \in Nat
  <2>1. Cardinality(Recent(calibrations)) \in Nat
    BY RecentIsFinite DEF TypeInv, TypeOK
  <2> QED
    BY <2>1 DEF PlannedPasses, RemainingAttempts, Max2, RecoveryAssumption
<1>2. Min2(planned, RemainingAttempts) \in Nat
  BY <1>1 DEF Min2
<1>3. /\ passesLeft' \in Nat /\ targetsLeft' \in Nat
      /\ pc' \in {"idle", "evaluate", "passes", "record"}
      /\ healthy' \in BOOLEAN
      /\ pc' = "passes" => passesLeft' > 0
  BY <1>2 DEF Evaluate, TypeInv, TypeOK
<1>4. /\ reason' \in Degraded \cup {"maintenance", "none"}
      /\ pc' = "passes" => reason' # "none"
  BY <1>2 DEF Evaluate, Reason, ShouldCalibrate
<1>5. pc = "evaluate" /\ pc' # "idle" /\ pc' # "evaluate"
      /\ UNCHANGED <<store, rest, raised, stopping, collected, records, faults, history>>
  BY DEF Evaluate
<1> QED
  BY <1>3, <1>4, <1>5 DEF TypeInv, TypeOK, Phase, store, history

LEMMA Division ==
  ASSUME NEW a \in Nat, NEW b \in Nat \ {0}
  PROVE  a \div b \in Nat /\ (a \div b) * b <= a
OBVIOUS

\* What a pass is handed is a number of targets.
LEMMA CapType ==
  ASSUME RecoveryAssumption, TypeOK, passesLeft > 0
  PROVE  TargetCap \in Nat
<1>1. passesLeft \in Nat \ {0} /\ targetsLeft \in Nat /\ MinTargets \in Nat
  BY Constants DEF TypeOK
<1>2. targetsLeft + passesLeft - 1 \in Nat
  BY <1>1
<1>3. (targetsLeft + passesLeft - 1) \div passesLeft \in Nat
  BY <1>1, <1>2, Division
<1>4. Max2(MinTargets, (targetsLeft + passesLeft - 1) \div passesLeft) \in Nat
  BY <1>1, <1>3 DEF Max2
<1> QED
  BY <1>1, <1>4, Zenon DEF TargetCap

LEMMA PassNumbers ==
  ASSUME RecoveryAssumption, TypeInv, NEW used \in 1..MaxVisits, passesLeft > 0
  PROVE  used \in Nat /\ 0 \in Age /\ TargetCap \in Nat
<1>1. MaxVisits \in Nat /\ 0 \in Age
  BY Constants
<1>2. TargetCap \in Nat
  BY CapType DEF TypeInv
<1>3. used \in Nat
  BY <1>1
<1> QED
  BY <1>1, <1>2, <1>3

LEMMA PassType ==
  ASSUME RecoveryAssumption, TypeInv, NEW status \in Statuses,
         NEW effective \in BOOLEAN, NEW used \in 1..MaxVisits,
         Pass(status, effective, used)
  PROVE  TypeInv'
<1> DEFINE rec == [age |-> 0, status |-> status, effective |-> effective,
                    used |-> used, cap |-> TargetCap]
<1>1. Tick /\ records \in Seq(Record) /\ passesLeft \in Nat /\ passesLeft > 0
      /\ targetsLeft \in Nat /\ pc = "passes" /\ reason # "none"
  BY DEF Pass, TypeInv, TypeOK, Phase
<1>2. OlderRecords(records) \in Seq(Record) /\ rec \in Record
  <2>1. used \in Nat /\ 0 \in Age /\ TargetCap \in Nat
    BY <1>1, PassNumbers
  <2> HIDE DEF TargetCap
  <2>2. rec \in Record
    BY <2>1 DEF Record
  <2> QED
    BY <1>1, <2>2, OlderRecord
<1>3. records' = Append(OlderRecords(records), rec)
  BY DEF Pass
<1> HIDE DEF rec
<1>4. records' \in Seq(Record)
  BY <1>2, <1>3, AppendProperties
<1>5. /\ passesLeft' \in Nat /\ targetsLeft' \in Nat
      /\ pc' \in {"passes", "record"} /\ (pc' = "passes" => passesLeft' > 0)
  BY <1>1, SMTT(30) DEF Pass, Max2, RecoveryAssumption
<1>6. UNCHANGED <<burst, schedule, zeroChain, rest, raised, stopping, collected,
                  reason, healthy, faults, series>>
  BY DEF Pass
<1> QED
  BY <1>1, <1>4, <1>5, <1>6, TickType DEF TypeInv, TypeOK, Phase

LEMMA ScheduleType ==
  ASSUME RecoveryAssumption, TypeOK
  PROVE  /\ NextSchedule.kind \in Kinds /\ NextSchedule.active \in BOOLEAN
         /\ NextSchedule.burst \in Nat
<1>1. RecoveryActive \in BOOLEAN /\ burst \in Nat
  BY DEF RecoveryActive, TypeOK
<1> DEFINE kept(kind) == [kind |-> kind, active |-> RecoveryActive, burst |-> burst]
           ended == [kind |-> "normal", active |-> FALSE, burst |-> 0]
           Schedules == [kind : Kinds, active : BOOLEAN, burst : Nat]
<1>2. \A kind \in Kinds : kept(kind) \in Schedules
  BY <1>1
<1>3. /\ ended \in Schedules
      /\ [kind |-> "recovery_burst_rest", active |-> TRUE, burst |-> 0] \in Schedules
      /\ [kind |-> "recovery_burst", active |-> TRUE, burst |-> burst + 1] \in Schedules
  BY <1>1 DEF Kinds
<1>4. /\ kept("infrastructure_retry") \in Schedules
      /\ kept("calibration_retry") \in Schedules /\ kept("normal") \in Schedules
  BY <1>2 DEF Kinds
<1> HIDE DEF Schedules
<1>5. NextSchedule \in Schedules
  BY <1>3, <1>4, Zenon DEF NextSchedule
<1> QED
  BY <1>5 DEF Schedules

LEMMA RecordType ==
  ASSUME RecoveryAssumption, TypeInv, NEW seen \in BOOLEAN, RecordRun(seen)
  PROVE  TypeInv'
<1>1. calibrations' \in Seq(Stored) /\ Len(calibrations') <= Keep
  <2>1. calibrations \in Seq(Stored) /\ records \in Seq(Record)
    BY DEF TypeInv, TypeOK
  <2>2. calibrations \o ToStore(records) \in Seq(Stored)
    BY <2>1, ToStoreType, ConcatProperties
  <2>3. calibrations' = KeepLast(calibrations \o ToStore(records))
    BY DEF RecordRun
  <2> QED
    BY <2>2, <2>3, KeepLastType
<1>2. /\ burst' \in Nat /\ schedule' \in [kind : Kinds, active : BOOLEAN]
      /\ series' \in Nat /\ rest' \in Nat
  <2>1. RestOf(NextSchedule.kind) \in Nat
    BY Constants DEF RestOf
  <2>2. /\ burst' = NextSchedule.burst /\ rest' = RestOf(NextSchedule.kind)
        /\ schedule' = [kind |-> NextSchedule.kind, active |-> NextSchedule.active]
        /\ series' \in {series + 1, 0, series}
    BY DEF RecordRun
  <2>3. /\ NextSchedule.kind \in Kinds /\ NextSchedule.active \in BOOLEAN
        /\ NextSchedule.burst \in Nat /\ series \in Nat
    BY ScheduleType DEF TypeInv, TypeOK
  <2> QED
    BY <2>1, <2>2, <2>3
<1>3. zeroChain' \in Nat
  <2>1. zeroChain \in Nat /\ Len(records) \in Nat /\ Keep \in Nat
    BY DEF TypeInv, TypeOK, RecoveryAssumption
  <2>2. zeroChain' = ChainWith(seen)
    BY DEF RecordRun
  <2> QED
    BY <2>1, <2>2 DEF ChainWith, Min2
<1>4. /\ pc' = "idle" /\ raised' = FALSE /\ Forget
      /\ UNCHANGED <<stopping, faults, lost>>
  BY DEF RecordRun
<1>5. records' = <<>> /\ passesLeft' = 0
  BY <1>4 DEF Forget
<1> QED
  BY <1>1, <1>2, <1>3, <1>4, <1>5, ForgetType DEF TypeInv, TypeOK, Phase

LEMMA FaultType ==
  ASSUME RecoveryAssumption, TypeOK, Fault
  PROVE  faults' \in 0..MaxFaults
<1>1. MaxFaults \in Nat /\ faults \in 0..MaxFaults
  BY Constants DEF TypeOK
<1> QED
  BY <1>1 DEF Fault

LEMMA CycleEndsType ==
  ASSUME RecoveryAssumption, TypeInv, CycleRaises \/ Kill
  PROVE  TypeInv'
<1>1. /\ Fault /\ Forget /\ pc' = "idle"
      /\ lost' = lost \o [i \in DOMAIN records |-> records[i].age]
      /\ UNCHANGED <<store, series>>
      /\ rest' \in Nat /\ raised' \in BOOLEAN /\ stopping' \in BOOLEAN
  <2>1. RetryRest \in Nat /\ stopping \in BOOLEAN
    BY Constants DEF TypeInv, TypeOK
  <2>2. CASE CycleRaises
    BY <2>1, <2>2 DEF CycleRaises
  <2>3. CASE Kill
    BY <2>1, <2>3 DEF Kill
  <2> QED
    BY <2>2, <2>3
<1>2. faults' \in 0..MaxFaults /\ lost' \in Seq(Age)
  BY <1>1, FaultType, LostType DEF TypeInv
<1>3. records' = <<>> /\ passesLeft' = 0
  BY <1>1 DEF Forget
<1> QED
  BY <1>1, <1>2, <1>3, ForgetType DEF TypeInv, TypeOK, Phase, store

LEMMA TypeStep == RecoveryAssumption /\ TypeInv /\ [Next]_vars => TypeInv'
<1> SUFFICES ASSUME RecoveryAssumption, TypeInv, [Next]_vars PROVE TypeInv'
  OBVIOUS
<1>1. CASE Collecting
  BY <1>1, CollectType DEF Collecting
<1>2. CASE Evaluating
  BY <1>2, EvaluateType DEF Evaluating
<1>3. CASE Calibrating
  BY <1>3, PassType DEF Calibrating
<1>4. CASE BreakOff
  BY <1>4 DEF BreakOff, TypeInv, TypeOK, Phase, store, cycle, history
<1>5. CASE Recording
  <2>1. \A seen \in SawAds : seen \in BOOLEAN
    BY DEF SawAds
  <2> QED
    BY <1>5, <2>1, RecordType DEF Recording
<1>6. CASE Rest
  <2>1. rest' \in Nat
    BY <1>6 DEF Rest, TypeInv, TypeOK
  <2> QED
    BY <1>6, <2>1, TickType DEF Rest, TypeInv, TypeOK, Phase, cycle
<1>7. CASE CycleRaises \/ Kill
  BY <1>7, CycleEndsType
<1>8. CASE RequestStop
  BY <1>8, FaultType DEF RequestStop, TypeInv, TypeOK, Phase, store, cycle, history
<1>9. CASE Restart
  BY <1>9 DEF Restart, TypeInv, TypeOK, Phase, store, cycle, history
<1>10. CASE UNCHANGED vars
  BY <1>10 DEF vars, TypeInv, TypeOK, Phase, store, cycle, history
<1> QED
  BY <1>1, <1>2, <1>3, <1>4, <1>5, <1>6, <1>7, <1>8, <1>9, <1>10 DEF Next, Advance

\* The state file's record and the cycle's memory always have their types: in
\* particular no more than Keep calibrations are kept whatever a cycle adds.
THEOREM RecoveryTypeCorrect == Spec => []TypeOK
<1>1. Spec => []TypeInv
  BY RecoveryAssumption, InitType, TypeStep, PTL DEF Spec
<1>2. TypeInv => TypeOK
  BY DEF TypeInv
<1> QED
  BY <1>1, <1>2, PTL

-----------------------------------------------------------------------------
(* The series.                                                             *)

LEMMA RecordSeries ==
  ASSUME RecoveryAssumption, TypeInv, SeriesIsBounded, NEW seen \in BOOLEAN,
         RecordRun(seen)
  PROVE  SeriesIsBounded'
<1>1. /\ burst \in Nat /\ series \in Nat /\ series <= burst
      /\ burst < Max2(1, BurstLimit) /\ Max2(1, BurstLimit) \in Nat
      /\ Max2(1, BurstLimit) > 0
  <2>1. burst \in Nat /\ series \in Nat
    BY DEF TypeInv, TypeOK
  <2>2. Max2(1, BurstLimit) \in Nat /\ Max2(1, BurstLimit) > 0
    BY Constants DEF Max2
  <2> QED
    BY <2>1, <2>2 DEF SeriesIsBounded
<1> DEFINE kind == NextSchedule.kind
           next == NextSchedule.burst
<1>2. \/ kind \in {"infrastructure_retry", "calibration_retry", "normal"} /\ next = burst
      \/ kind \in {"normal", "recovery_burst_rest"} /\ next = 0
      \/ kind = "recovery_burst" /\ next = burst + 1 /\ ~LastOfBurst
  BY DEF NextSchedule
<1>3. ~LastOfBurst => burst + 1 < Max2(1, BurstLimit)
  BY <1>1 DEF LastOfBurst
<1>4. /\ burst' = next
      /\ series' = IF kind = "recovery_burst" THEN series + 1
                   ELSE IF kind \in {"normal", "recovery_burst_rest"} THEN 0
                   ELSE series
  BY DEF RecordRun
<1> HIDE DEF kind, next
<1>5. series' <= burst' /\ burst' < Max2(1, BurstLimit)
  BY <1>1, <1>2, <1>3, <1>4
<1> QED
  BY <1>5 DEF SeriesIsBounded

LEMMA SeriesStep ==
  RecoveryAssumption /\ TypeInv /\ SeriesIsBounded /\ [Next]_vars => SeriesIsBounded'
<1> SUFFICES ASSUME RecoveryAssumption, TypeInv, SeriesIsBounded, [Next]_vars
             PROVE  SeriesIsBounded'
  OBVIOUS
<1>1. CASE Recording
  <2>1. \A seen \in SawAds : seen \in BOOLEAN
    BY DEF SawAds
  <2> QED
    BY <1>1, <2>1, RecordSeries DEF Recording
<1>2. ASSUME ~Recording PROVE UNCHANGED <<burst, series>>
  BY <1>2 DEF Next, Advance, Collecting, Collect, Evaluating, Evaluate, Calibrating,
     Pass, BreakOff, Rest, CycleRaises, Kill, RequestStop, Restart, vars, store, history
<1> QED
  BY <1>1, <1>2 DEF SeriesIsBounded

\* The series that suspends the cooldowns is bounded by the burst limit, whatever
\* retries, exceptions, kills and restarts fall between its cycles.
THEOREM SeriesBounded == Spec => []SeriesIsBounded
<1>1. RecoveryAssumption /\ Init => TypeInv /\ SeriesIsBounded
  <2>1. RecoveryAssumption /\ Init => SeriesIsBounded
    BY Constants DEF Init, SeriesIsBounded, Max2
  <2> QED
    BY <2>1, InitType
<1>2. Spec => [](TypeInv /\ SeriesIsBounded)
  BY <1>1, RecoveryAssumption, TypeStep, SeriesStep, PTL DEF Spec
<1> QED
  BY <1>2, PTL

-----------------------------------------------------------------------------
(* Recovery starts and ends on evidence.                                   *)

Evidence ==
  LET completed == /\ records # <<>> /\ ~collected.failed
                   /\ Last(records).status = "completed"
  IN  /\ ~RecoveryActive /\ RecoveryActive' => completed /\ reason \in Degraded
      /\ RecoveryActive /\ ~RecoveryActive' =>
           \/ healthy /\ ~collected.failed
           \/ completed /\ reason = "maintenance"

LEMMA RecordEvidence ==
  ASSUME RecoveryAssumption, TypeInv, NEW seen \in BOOLEAN, RecordRun(seen)
  PROVE  Evidence
<1> DEFINE next == NextSchedule
           completed == /\ records # <<>> /\ ~collected.failed
                        /\ Last(records).status = "completed"
<1>1. burst' = next.burst /\ schedule'.active = next.active
  BY DEF RecordRun
<1>2. \/ next.active = RecoveryActive /\ next.burst = burst
      \/ /\ next.active = FALSE /\ next.burst = 0
         /\ \/ healthy /\ ~collected.failed
            \/ completed /\ reason = "maintenance"
      \/ /\ next.active = TRUE /\ completed /\ reason # "maintenance"
  BY DEF NextSchedule, InfrastructureRetry, IsRecovery
<1>3. completed => reason \in Degraded \cup {"maintenance"}
  BY DEF TypeInv, TypeOK, Phase
<1>4. RecoveryActive' <=> (next.burst > 0 \/ next.active = TRUE)
  <2>1. next.active \in BOOLEAN
    BY ScheduleType DEF TypeInv
  <2> QED
    BY <1>1, <2>1 DEF RecoveryActive
<1> HIDE DEF next
<1>5. CASE next.active = RecoveryActive /\ next.burst = burst
  <2>1. RecoveryActive' <=> RecoveryActive
    BY <1>4, <1>5 DEF RecoveryActive, TypeInv, TypeOK
  <2> QED
    BY <2>1 DEF Evidence
<1>6. CASE /\ next.active = FALSE /\ next.burst = 0
           /\ \/ healthy /\ ~collected.failed
              \/ completed /\ reason = "maintenance"
  <2>1. ~RecoveryActive'
    BY <1>4, <1>6
  <2> QED
    BY <1>6, <2>1 DEF Evidence
<1>7. CASE next.active = TRUE /\ completed /\ reason # "maintenance"
  <2>1. RecoveryActive'
    BY <1>4, <1>7
  <2> QED
    BY <1>3, <1>7, <2>1 DEF Evidence
<1> QED
  BY <1>2, <1>5, <1>6, <1>7

LEMMA EvidenceStep == RecoveryAssumption /\ TypeInv /\ [Next]_vars => [Evidence]_vars
<1> SUFFICES ASSUME RecoveryAssumption, TypeInv, [Next]_vars PROVE Evidence \/ UNCHANGED vars
  OBVIOUS
<1>1. CASE Recording
  <2>1. \A seen \in SawAds : seen \in BOOLEAN
    BY DEF SawAds
  <2> QED
    BY <1>1, <2>1, RecordEvidence DEF Recording
<1>2. ASSUME ~Recording PROVE UNCHANGED <<burst, schedule>>
  BY <1>2 DEF Next, Advance, Collecting, Collect, Evaluating, Evaluate, Calibrating,
     Pass, BreakOff, Rest, CycleRaises, Kill, RequestStop, Restart, vars, store, history
<1>3. UNCHANGED <<burst, schedule>> => (RecoveryActive' <=> RecoveryActive)
  BY DEF RecoveryActive
<1> QED
  BY <1>1, <1>2, <1>3 DEF Evidence

\* The recovery state starts only with a completed calibration of a degraded run and
\* ends only with a healthy run or a completed maintenance calibration.
THEOREM RecoveryOnEvidence == Spec => RecoveryFollowsEvidence
<1>1. Spec => []TypeInv
  BY RecoveryAssumption, InitType, TypeStep, PTL DEF Spec
<1>2. Spec => [][Evidence]_vars
  BY <1>1, RecoveryAssumption, EvidenceStep, PTL DEF Spec
<1> QED
  BY <1>2 DEF Evidence, RecoveryFollowsEvidence

-----------------------------------------------------------------------------
(* The daily limit.                                                        *)

LEMMA InWindowIsRecent ==
  ASSUME NEW s
  PROVE  InWindow(s) = Cardinality(Recent(s))
BY DEF InWindow, Recent

LEMMA WindowSizes ==
  ASSUME TypeOK
  PROVE  InWindow(calibrations) \in Nat /\ InWindow(records) \in Nat /\ passesLeft \in Nat
BY RecentIsFinite, InWindowIsRecent DEF TypeOK

LEMMA EmptyWindow == InWindow(<<>>) = 0
<1>1. Recent(<<>>) = {}
  BY DEF Recent
<1> QED
  BY <1>1, InWindowIsRecent, FS_EmptySet

LEMMA StaysRecent ==
  ASSUME RecoveryAssumption, NEW a \in Age, NEW b \in Age, b >= a, b <= Day
  PROVE  a <= Day
BY Constants DEF Age

\* Nothing that ages comes back into the window.
LEMMA TickWindow ==
  ASSUME RecoveryAssumption, TypeOK, Tick, TypeOK'
  PROVE  InWindow(calibrations') <= InWindow(calibrations)
<1>1. /\ calibrations \in Seq(Stored) /\ calibrations' = OlderRecords(calibrations)
      /\ calibrations' \in Seq(Stored)
      /\ Len(calibrations') = Len(calibrations)
      /\ \A i \in 1..Len(calibrations) : calibrations'[i].age >= calibrations[i].age
  BY OlderStored DEF TypeOK, Tick
<1>2. \A i \in 1..Len(calibrations') :
        calibrations'[i].age <= Day => calibrations[i + 0].age <= Day
  <2> SUFFICES ASSUME NEW i \in 1..Len(calibrations'), calibrations'[i].age <= Day
               PROVE  calibrations[i + 0].age <= Day
    OBVIOUS
  <2>1. /\ i \in 1..Len(calibrations) /\ i + 0 = i
        /\ calibrations[i] \in Stored /\ calibrations'[i] \in Stored
    BY <1>1
  <2>2. /\ calibrations[i].age \in Age /\ calibrations'[i].age \in Age
        /\ calibrations'[i].age >= calibrations[i].age
    BY <1>1, <2>1 DEF Stored
  <2>3. calibrations[i].age <= Day
    BY <2>2, StaysRecent
  <2> QED
    BY <2>1, <2>3
<1>3. 0 \in Nat /\ Len(calibrations') + 0 <= Len(calibrations)
  BY <1>1
<1>4. Cardinality(Recent(calibrations')) <= Cardinality(Recent(calibrations))
  BY <1>1, <1>2, <1>3, RecentEmbeds
<1> QED
  BY <1>4, InWindowIsRecent

LEMMA PassWindow ==
  ASSUME RecoveryAssumption, TypeOK,
         NEW rec \in Record, records' = Append(OlderRecords(records), rec),
         records' \in Seq(Record)
  PROVE  InWindow(records') <= InWindow(records) + 1
<1> DEFINE older == OlderRecords(records)
           n == Len(records) + 1
<1>1. /\ records \in Seq(Record) /\ older \in Seq(Record) /\ Len(older) = Len(records)
      /\ \A i \in 1..Len(records) : older[i].age >= records[i].age
      /\ Len(records) \in Nat
  <2>1. records \in Seq(Record)
    BY DEF TypeOK
  <2> QED
    BY <2>1, OlderRecord, LengthIsNat, SMTT(30)
<1> HIDE DEF older
<1>2. /\ Len(records') = n /\ DOMAIN records' = 1..n /\ DOMAIN records = 1..Len(records)
      /\ \A i \in 1..Len(records) : records'[i] = older[i]
  BY <1>1, AppendProperties, SMTT(30) DEF older
<1>3. Recent(records') \subseteq Recent(records) \cup {n}
  <2> SUFFICES ASSUME NEW i \in Recent(records'), i # n PROVE i \in Recent(records)
    OBVIOUS
  <2>1. i \in 1..n /\ records'[i].age <= Day
    BY <1>2 DEF Recent
  <2>2. i \in 1..Len(records)
    BY <1>1, <2>1, NotTheLast DEF n
  <2>3. older[i].age <= Day /\ older[i].age >= records[i].age
    BY <1>1, <1>2, <2>1, <2>2
  <2>4. older[i].age \in Age /\ records[i].age \in Age
    <3>1. older[i] \in Record /\ records[i] \in Record
      BY <1>1, <2>2
    <3> QED
      BY <3>1 DEF Record
  <2>5. records[i].age <= Day
    BY <2>3, <2>4, StaysRecent
  <2> QED
    BY <1>2, <2>2, <2>5 DEF Recent
<1>4. IsFiniteSet(Recent(records)) /\ Cardinality(Recent(records)) \in Nat
      /\ Cardinality(Recent(records')) \in Nat
  BY <1>1, RecentIsFinite
<1>5. /\ IsFiniteSet(Recent(records) \cup {n})
      /\ Cardinality(Recent(records) \cup {n})
           \in {Cardinality(Recent(records)), Cardinality(Recent(records)) + 1}
  BY <1>4, FS_AddElement
<1>6. Cardinality(Recent(records')) <= Cardinality(Recent(records) \cup {n})
  BY <1>3, <1>5, FS_Subset
<1>7. Cardinality(Recent(records')) <= Cardinality(Recent(records)) + 1
  BY <1>4, <1>5, <1>6, SMTT(30)
<1> QED
  BY <1>7, InWindowIsRecent

LEMMA RecordWindow ==
  ASSUME RecoveryAssumption, TypeOK
  PROVE  InWindow(KeepLast(calibrations \o ToStore(records)))
           <= InWindow(calibrations) + InWindow(records)
<1> DEFINE new == ToStore(records)
           all == calibrations \o new
<1>1. calibrations \in Seq(Stored) /\ records \in Seq(Record)
  BY DEF TypeOK
<1>2. /\ new \in Seq(Stored) /\ Len(new) = Len(records)
      /\ \A i \in 1..Len(records) : new[i].age = records[i].age
  BY <1>1, ToStoreType
<1>3. Cardinality(Recent(new)) <= Cardinality(Recent(records))
  <2>1. /\ 0 \in Nat /\ Len(new) \in Nat /\ Len(new) + 0 <= Len(records)
        /\ \A i \in 1..Len(new) : new[i].age <= Day => records[i + 0].age <= Day
    BY <1>1, <1>2, SMTT(30)
  <2> HIDE DEF new
  <2> QED
    BY <1>1, <1>2, <2>1, RecentEmbeds
<1> HIDE DEF new
<1>4. all \in Seq(Stored)
  BY <1>1, <1>2, ConcatProperties
<1>5. Cardinality(Recent(all))
        <= Cardinality(Recent(calibrations)) + Cardinality(Recent(new))
  BY <1>1, <1>2, RecentConcat
<1> HIDE DEF all
<1>6. Cardinality(Recent(KeepLast(all))) <= Cardinality(Recent(all))
  <2>1. KeepLast(all) \in Seq(Stored)
    BY <1>4, KeepLastType
  <2>2. PICK k \in Nat : /\ Len(KeepLast(all)) + k = Len(all)
                         /\ \A i \in 1..Len(KeepLast(all)) :
                              KeepLast(all)[i] = all[i + k]
    BY <1>4, KeepLastType
  <2>3. /\ Len(KeepLast(all)) + k <= Len(all)
        /\ \A i \in 1..Len(KeepLast(all)) :
             KeepLast(all)[i].age <= Day => all[i + k].age <= Day
    <3>1. Len(KeepLast(all)) \in Nat /\ Len(all) \in Nat
      BY <1>4, <2>1, LengthIsNat, Zenon
    <3>2. Len(KeepLast(all)) + k <= Len(all)
      BY <2>2, <3>1, SMTT(30)
    <3>3. \A i \in 1..Len(KeepLast(all)) :
            KeepLast(all)[i].age <= Day => all[i + k].age <= Day
      BY <2>2, Zenon
    <3> QED
      BY <3>2, <3>3
  <2> QED
    BY <1>4, <2>1, <2>3, RecentEmbeds
<1>7. /\ Cardinality(Recent(new)) \in Nat /\ Cardinality(Recent(records)) \in Nat
      /\ Cardinality(Recent(calibrations)) \in Nat /\ Cardinality(Recent(all)) \in Nat
      /\ Cardinality(Recent(KeepLast(all))) \in Nat
  BY <1>1, <1>2, <1>4, RecentIsFinite, KeepLastType
<1>8. \A a, b, c, d, e \in Nat : a <= b /\ b <= c + d /\ d <= e => a <= c + e
  OBVIOUS
<1>9. Cardinality(Recent(KeepLast(all)))
        <= Cardinality(Recent(calibrations)) + Cardinality(Recent(records))
  BY <1>3, <1>5, <1>6, <1>7, <1>8, Zenon
<1> QED
  BY <1>9, InWindowIsRecent DEF all, new

DailyInv == TypeInv /\ DailyLimitRespected

LEMMA EvaluateDaily ==
  ASSUME RecoveryAssumption, DailyInv, NEW valid \in BOOLEAN,
         NEW planned \in PlannedPasses, Evaluate(valid, planned)
  PROVE  DailyLimitRespected'
<1>1. /\ InWindow(calibrations) \in Nat /\ InWindow(records) = 0 /\ passesLeft = 0
      /\ InWindow(calibrations) <= DailyLimit
      /\ DailyLimit \in Nat
  <2>1. records = <<>> /\ passesLeft = 0
    BY DEF Evaluate, DailyInv, TypeInv, Phase
  <2>2. InWindow(calibrations) \in Nat /\ InWindow(records) = 0
    BY <2>1, WindowSizes, EmptyWindow DEF DailyInv, TypeInv
  <2> QED
    BY <2>1, <2>2, Constants DEF DailyInv, DailyLimitRespected
<1>2. RemainingAttempts = DailyLimit - InWindow(calibrations)
  BY <1>1, InWindowIsRecent DEF RemainingAttempts, Max2
<1>3. passesLeft' <= RemainingAttempts /\ passesLeft' \in Nat
  <2>1. planned \in Nat
    BY Constants DEF PlannedPasses, Max2
  <2>2. /\ Min2(planned, RemainingAttempts) <= RemainingAttempts
        /\ Min2(planned, RemainingAttempts) \in Nat
    BY <1>1, <1>2, <2>1 DEF Min2
  <2>3. 0 <= RemainingAttempts
    BY <1>1, <1>2
  <2> QED
    BY <2>2, <2>3 DEF Evaluate
<1>4. calibrations' = calibrations /\ records' = records
  BY DEF Evaluate, store
<1>5. InWindow(calibrations') = InWindow(calibrations) /\ InWindow(records') = 0
  BY <1>1, <1>4
<1> QED
  BY <1>1, <1>2, <1>3, <1>5 DEF DailyLimitRespected

LEMMA PassDaily ==
  ASSUME RecoveryAssumption, DailyInv, TypeOK', NEW status \in Statuses,
         NEW effective \in BOOLEAN, NEW used \in 1..MaxVisits,
         Pass(status, effective, used)
  PROVE  DailyLimitRespected'
<1> DEFINE rec == [age |-> 0, status |-> status, effective |-> effective,
                    used |-> used, cap |-> TargetCap]
<1>1. TypeOK /\ Tick /\ passesLeft' = passesLeft - 1 /\ passesLeft > 0
  BY DEF Pass, DailyInv, TypeInv, Phase
<1>2. rec \in Record
  <2>1. used \in Nat /\ 0 \in Age /\ TargetCap \in Nat
    BY <1>1, PassNumbers DEF DailyInv
  <2> QED
    BY <2>1 DEF Record
<1>3. records' = Append(OlderRecords(records), rec) /\ records' \in Seq(Record)
  BY DEF Pass, TypeOK
<1> HIDE DEF rec
<1>4. InWindow(records') <= InWindow(records) + 1
  BY <1>1, <1>2, <1>3, PassWindow
<1>5. InWindow(calibrations') <= InWindow(calibrations)
  BY <1>1, TickWindow
<1>6. /\ InWindow(calibrations) \in Nat /\ InWindow(records) \in Nat /\ passesLeft \in Nat
      /\ InWindow(calibrations') \in Nat /\ InWindow(records') \in Nat
      /\ passesLeft' \in Nat
  <2>1. /\ calibrations' \in Seq(Stored) /\ records' \in Seq(Record) /\ passesLeft' \in Nat
    BY DEF TypeOK
  <2> QED
    BY <1>1, <2>1, WindowSizes, RecentIsFinite, InWindowIsRecent
<1>7. InWindow(calibrations) + InWindow(records) + passesLeft <= DailyLimit
  BY DEF DailyInv, DailyLimitRespected
<1>8. DailyLimit \in Nat
  BY Constants
<1>9. InWindow(calibrations') + InWindow(records') + passesLeft' <= DailyLimit
  BY <1>1, <1>4, <1>5, <1>6, <1>7, <1>8
<1> QED
  BY <1>9 DEF DailyLimitRespected

LEMMA RecordDaily ==
  ASSUME RecoveryAssumption, DailyInv, NEW seen \in BOOLEAN, RecordRun(seen)
  PROVE  DailyLimitRespected'
<1>1. /\ calibrations' = KeepLast(calibrations \o ToStore(records))
      /\ records' = <<>> /\ passesLeft' = 0
  BY DEF RecordRun, Forget
<1>2. InWindow(calibrations') <= InWindow(calibrations) + InWindow(records)
  BY <1>1, RecordWindow DEF DailyInv, TypeInv
<1>3. InWindow(records') = 0
  BY <1>1, EmptyWindow
<1>4. /\ InWindow(calibrations) \in Nat /\ InWindow(records) \in Nat /\ passesLeft \in Nat
      /\ DailyLimit \in Nat /\ InWindow(calibrations') \in Nat
  <2>1. calibrations' \in Seq(Stored)
    BY RecordType DEF DailyInv, TypeInv, TypeOK
  <2> QED
    BY <2>1, WindowSizes, Constants, RecentIsFinite, InWindowIsRecent DEF DailyInv, TypeInv
<1>5. InWindow(calibrations) + InWindow(records) + passesLeft <= DailyLimit
  BY DEF DailyInv, DailyLimitRespected
<1>6. InWindow(calibrations') + InWindow(records') + passesLeft' <= DailyLimit
  <2>1. \A a, b, c, d, e \in Nat : a <= b + c /\ b + c + d <= e => a + 0 + 0 <= e
    OBVIOUS
  <2>2. passesLeft' = 0
    BY <1>1
  <2>3. InWindow(records) \in Nat
    BY <1>4
  <2>4. InWindow(calibrations') + 0 + 0 <= DailyLimit
    BY <1>2, <1>4, <1>5, <2>1, Zenon
  <2> QED
    BY <1>3, <2>2, <2>4
<1> QED
  BY <1>6 DEF DailyLimitRespected

\* A cycle that ends without a record gives up what it holds in memory.
LEMMA DropDaily ==
  ASSUME RecoveryAssumption, DailyInv, Forget, calibrations' = calibrations
  PROVE  DailyLimitRespected'
<1>1. records' = <<>> /\ passesLeft' = 0
  BY DEF Forget
<1>2. InWindow(calibrations') = InWindow(calibrations) /\ InWindow(records') = 0
  BY <1>1, EmptyWindow
<1>3. /\ InWindow(calibrations) \in Nat /\ InWindow(records) \in Nat /\ passesLeft \in Nat
      /\ DailyLimit \in Nat
  BY WindowSizes, Constants DEF DailyInv, TypeInv
<1>4. InWindow(calibrations) + InWindow(records) + passesLeft <= DailyLimit
  BY DEF DailyInv, DailyLimitRespected
<1>5. InWindow(calibrations') + InWindow(records') + passesLeft' <= DailyLimit
  BY <1>1, <1>2, <1>3, <1>4, SMTT(30)
<1> QED
  BY <1>5 DEF DailyLimitRespected

LEMMA TickDaily ==
  ASSUME RecoveryAssumption, DailyInv, Tick, TypeOK', records' = records,
         passesLeft' = passesLeft
  PROVE  DailyLimitRespected'
<1>1. InWindow(calibrations') <= InWindow(calibrations)
  BY TickWindow DEF DailyInv, TypeInv
<1>2. InWindow(records') = InWindow(records) /\ passesLeft' = passesLeft
  OBVIOUS
<1>3. /\ InWindow(calibrations) \in Nat /\ InWindow(records) \in Nat /\ passesLeft \in Nat
      /\ DailyLimit \in Nat /\ InWindow(calibrations') \in Nat
  <2>1. calibrations' \in Seq(Stored)
    BY DEF TypeOK
  <2> QED
    BY <2>1, WindowSizes, Constants, RecentIsFinite, InWindowIsRecent DEF DailyInv, TypeInv
<1>4. InWindow(calibrations) + InWindow(records) + passesLeft <= DailyLimit
  BY DEF DailyInv, DailyLimitRespected
<1>5. InWindow(calibrations') + InWindow(records') + passesLeft' <= DailyLimit
  BY <1>1, <1>2, <1>3, <1>4
<1> QED
  BY <1>5 DEF DailyLimitRespected

LEMMA DailyStep ==
  RecoveryAssumption /\ DailyInv /\ TypeInv' /\ [Next]_vars => DailyLimitRespected'
<1> SUFFICES ASSUME RecoveryAssumption, DailyInv, TypeInv', [Next]_vars
             PROVE  DailyLimitRespected'
  OBVIOUS
<1>t. TypeOK'
  BY DEF TypeInv
<1>1. CASE Collecting
  <2>1. Tick /\ records' = records /\ passesLeft' = passesLeft
    BY <1>1 DEF Collecting, Collect
  <2> QED
    BY <1>t, <2>1, TickDaily
<1>2. CASE Evaluating
  <2>1. PICK valid \in BOOLEAN, n \in PlannedPasses : Evaluate(valid, n)
    BY <1>2 DEF Evaluating
  <2> QED
    BY <2>1, EvaluateDaily
<1>3. CASE Calibrating
  BY <1>3, <1>t, PassDaily DEF Calibrating
<1>4. CASE Recording
  <2>1. \A seen \in SawAds : seen \in BOOLEAN
    BY DEF SawAds
  <2> QED
    BY <1>4, <2>1, RecordDaily DEF Recording
<1>5. CASE Rest
  <2>1. Tick /\ records' = records /\ passesLeft' = passesLeft
    BY <1>5 DEF Rest, cycle
  <2> QED
    BY <1>t, <2>1, TickDaily
<1>6. CASE CycleRaises \/ Kill
  <2>1. Forget /\ calibrations' = calibrations
    BY <1>6 DEF CycleRaises, Kill, store
  <2> QED
    BY <2>1, DropDaily
<1>7. CASE BreakOff \/ RequestStop \/ Restart \/ UNCHANGED vars
  <2>1. /\ calibrations' = calibrations /\ records' = records
        /\ passesLeft' = passesLeft
    BY <1>7 DEF BreakOff, RequestStop, Restart, vars, store, cycle
  <2>2. InWindow(calibrations') = InWindow(calibrations)
        /\ InWindow(records') = InWindow(records)
    BY <2>1
  <2> QED
    BY <2>1, <2>2 DEF DailyInv, DailyLimitRespected
<1> QED
  BY <1>1, <1>2, <1>3, <1>4, <1>5, <1>6, <1>7 DEF Next, Advance

\* The calibrations of the last 24 hours that were recorded or are about to be, and
\* the passes the cycle may still run, never exceed the daily limit.
THEOREM DailyLimit24h == Spec => []DailyLimitRespected
<1>1. RecoveryAssumption /\ Init => DailyInv
  <2>1. ASSUME RecoveryAssumption, Init PROVE DailyLimitRespected
    BY <2>1, EmptyWindow, Constants DEF Init, DailyLimitRespected
  <2> QED
    BY <2>1, InitType DEF DailyInv
<1>2. RecoveryAssumption /\ DailyInv /\ [Next]_vars => DailyInv'
  BY TypeStep, DailyStep DEF DailyInv
<1>3. Spec => []DailyInv
  BY <1>1, <1>2, RecoveryAssumption, PTL DEF Spec
<1>4. DailyInv => DailyLimitRespected
  BY DEF DailyInv
<1> QED
  BY <1>3, <1>4, PTL

-----------------------------------------------------------------------------
(* Induction, as a fact about sets of numbers: the induction theorems of   *)
(* the library take a predicate, which the provers cannot instantiate.     *)

\* Every set of naturals that is not empty has a least element.
LEMMA LeastNumber ==
  ASSUME NEW T \in SUBSET Nat, T # {}
  PROVE  \E m \in T : \A k \in T : ~(k < m)
<1> DEFINE R == OpToRel(<, Nat)
<1>1. IsWellFoundedOn(R, Nat)
  BY NatLessThanWellFounded
<1>2. \A m, k \in Nat : k < m => <<k, m>> \in R
  BY DEF OpToRel
<1> HIDE DEF R
<1>3. \E m \in T : \A k \in T : <<k, m>> \notin R
  BY <1>1, WFMin
<1> QED
  BY <1>2, <1>3

\* A set that holds 0 and with each number the next one holds them all.
LEMMA InductionOnNat ==
  ASSUME NEW T, 0 \in T, \A n \in Nat : n \in T => n + 1 \in T
  PROVE  Nat \subseteq T
<1> SUFFICES ASSUME Nat \ T # {} PROVE FALSE
  OBVIOUS
<1>1. PICK m \in Nat \ T : \A k \in Nat \ T : ~(k < m)
  BY LeastNumber
<1>2. m # 0 /\ m - 1 \in Nat /\ m - 1 < m /\ m = (m - 1) + 1
  BY <1>1
<1> QED
  BY <1>1, <1>2

-----------------------------------------------------------------------------
(* The targets the passes of a cycle have used.  UsedBy is a recursive     *)
(* function over the records: f sums what the records of s have used.      *)

Sums(f, s) ==
  f = [n \in Nat |-> IF n = 0 \/ n > Len(s) THEN 0 ELSE f[n - 1] + s[n].used]

LEMMA SumExists ==
  ASSUME NEW s, Len(s) \in Nat, \A i \in 1..Len(s) : s[i].used \in Nat
  PROVE  \E f : Sums(f, s)
<1> DEFINE L == Len(s)
           Upto(n) == {g \in [0..n -> Nat] :
                         g[0] = 0 /\ \A i \in 1..n : g[i] = g[i - 1] + s[i].used}
           T == {n \in Nat : n <= L => Upto(n) # {}}
<1> HIDE DEF Upto
<1>0. \A n \in Nat : n \in T <=> (n <= L => Upto(n) # {})
  OBVIOUS
<1> HIDE DEF T
<1>1. 0 \in T
  <2>1. [i \in 0..0 |-> 0] \in Upto(0)
    BY DEF Upto
  <2> QED
    BY <1>0, <2>1
<1>2. ASSUME NEW n \in Nat, n \in T PROVE n + 1 \in T
  <2> SUFFICES ASSUME n + 1 <= L PROVE Upto(n + 1) # {}
    BY <1>0
  <2>1. n <= L
    OBVIOUS
  <2>2. PICK g \in [0..n -> Nat] :
          g[0] = 0 /\ \A i \in 1..n : g[i] = g[i - 1] + s[i].used
    BY <1>0, <1>2, <2>1 DEF Upto
  <2> DEFINE h == [i \in 0..(n + 1) |-> IF i = n + 1 THEN g[n] + s[n + 1].used ELSE g[i]]
  <2>3. s[n + 1].used \in Nat /\ g[n] \in Nat
    OBVIOUS
  <2>4. h \in [0..(n + 1) -> Nat] /\ h[0] = 0
    BY <2>2, <2>3
  <2>5. \A i \in 1..(n + 1) : h[i] = h[i - 1] + s[i].used
    BY <2>2, <2>3
  <2> HIDE DEF h
  <2>6. h \in Upto(n + 1)
    BY <2>4, <2>5 DEF Upto
  <2> QED
    BY <2>6
<1>3. L \in T
  BY <1>1, <1>2, InductionOnNat
<1>4. PICK g \in [0..L -> Nat] :
        g[0] = 0 /\ \A i \in 1..L : g[i] = g[i - 1] + s[i].used
  <2>1. L \in Nat /\ L <= L
    OBVIOUS
  <2>2. Upto(L) # {}
    BY <1>0, <1>3, <2>1, Zenon
  <2> QED
    BY <2>2 DEF Upto
<1> DEFINE f == [n \in Nat |-> IF n = 0 \/ n > L THEN 0 ELSE g[n]]
<1>5. ASSUME NEW n \in Nat
      PROVE  f[n] = IF n = 0 \/ n > L THEN 0 ELSE f[n - 1] + s[n].used
  <2>1. CASE n = 0 \/ n > L
    BY <2>1
  <2>2. CASE ~(n = 0 \/ n > L)
    <3>1. n \in 1..L /\ n - 1 \in 0..L /\ n - 1 \in Nat
      BY <2>2
    <3>2. f[n] = g[n] /\ f[n - 1] = g[n - 1]
      BY <1>4, <3>1
    <3> QED
      BY <1>4, <2>2, <3>1, <3>2
  <2> QED
    BY <2>1, <2>2
<1>6. f = [n \in Nat |-> f[n]]
  OBVIOUS
<1> HIDE DEF f
<1>7. Sums(f, s)
  BY <1>5, <1>6 DEF Sums
<1> QED
  BY <1>7

LEMMA RecordUses ==
  ASSUME NEW s \in Seq(Record)
  PROVE  Len(s) \in Nat /\ \A i \in 1..Len(s) : s[i] \in Record /\ s[i].used \in Nat
<1>1. Len(s) \in Nat /\ \A i \in 1..Len(s) : s[i] \in Record
  OBVIOUS
<1>2. \A r \in Record : r.used \in Nat
  BY DEF Record
<1> QED
  BY <1>1, <1>2

LEMMA UsedBySums ==
  ASSUME records \in Seq(Record)
  PROVE  Sums(UsedBy, records)
<1>1. \E f : Sums(f, records)
  BY RecordUses, SumExists
<1> QED
  BY <1>1 DEF UsedBy, Sums

\* The same of the next state.
LEMMA UsedBySumsNext ==
  ASSUME records' \in Seq(Record)
  PROVE  Sums(UsedBy', records')
<1>1. \E f : Sums(f, records')
  BY RecordUses, SumExists
<1> QED
  BY <1>1 DEF UsedBy, Sums

\* The sum over a sequence depends on what its records have used, and nothing
\* that is appended changes it.
LEMMA SumsAgree ==
  ASSUME NEW s \in Seq(Record), NEW t \in Seq(Record), NEW f, NEW h,
         Sums(f, s), Sums(h, t), Len(s) <= Len(t),
         \A i \in 1..Len(s) : t[i].used = s[i].used
  PROVE  \A n \in 0..Len(s) : h[n] = f[n] /\ f[n] \in Nat
<1> DEFINE T == {n \in Nat : n <= Len(s) => h[n] = f[n] /\ f[n] \in Nat}
<1>0. /\ Len(s) \in Nat /\ Len(t) \in Nat
      /\ \A i \in 1..Len(s) : s[i].used \in Nat
  BY RecordUses
<1>a. \A n \in Nat : n \in T <=> (n <= Len(s) => h[n] = f[n] /\ f[n] \in Nat)
  OBVIOUS
<1> HIDE DEF T
<1>1. 0 \in T
  BY <1>0, <1>a DEF Sums
<1>2. ASSUME NEW n \in Nat, n \in T PROVE n + 1 \in T
  <2> SUFFICES ASSUME n + 1 <= Len(s) PROVE h[n + 1] = f[n + 1] /\ f[n + 1] \in Nat
    BY <1>a
  <2>1. h[n] = f[n] /\ f[n] \in Nat
    BY <1>0, <1>2, <1>a
  <2>2. n + 1 \in Nat /\ n + 1 \in 1..Len(s) /\ n + 1 <= Len(t) /\ (n + 1) - 1 = n
    BY <1>0
  <2>3. f[n + 1] = f[n] + s[n + 1].used
    BY <1>0, <2>2 DEF Sums
  <2>4. h[n + 1] = h[n] + t[n + 1].used
    BY <1>0, <2>2 DEF Sums
  <2> QED
    BY <1>0, <2>1, <2>2, <2>3, <2>4
<1>3. \A n \in Nat : n \in T
  BY <1>1, <1>2, InductionOnNat
<1> QED
  BY <1>0, <1>3, <1>a

-----------------------------------------------------------------------------
(* The shares.  A pass takes a share of the targets that are left, rounded *)
(* up, and leaves the minimum for each of the passes to come.              *)

LEMMA TimesIsMonotone ==
  ASSUME NEW a \in Nat, NEW b \in Nat, NEW c \in Nat, a <= b
  PROVE  a * c <= b * c /\ a * c \in Nat /\ b * c \in Nat
OBVIOUS

\* t targets for p passes that need m each: the rounded share leaves m for each
\* of the others.
LEMMA ShareFits ==
  ASSUME NEW t \in Nat, NEW p \in Nat, NEW m \in Nat, p > 1, t >= p * m
  PROVE  LET c == Max2(m, (t + p - 1) \div p)
         IN  c \in Nat /\ t - c >= (p - 1) * m
<1> DEFINE q == (t + p - 1) \div p
<1>1. q \in Nat /\ q * p <= t + p - 1
  <2>1. t + p - 1 \in Nat /\ p \in Nat \ {0}
    OBVIOUS
  <2> QED
    BY <2>1, Division
<1> HIDE DEF q
<1>2. CASE m >= q
  <2>1. (p - 1) * m = p * m - m /\ p * m \in Nat
    OBVIOUS
  <2>2. t - m >= (p - 1) * m
    BY <2>1
  <2> QED
    BY <1>2, <1>1, <2>2 DEF Max2, q
<1>3. CASE q > m
  <2>1. m <= q - 1 /\ q - 1 \in Nat /\ p - 1 \in Nat
    BY <1>1, <1>3
  <2>2. m * (p - 1) <= (q - 1) * (p - 1)
    BY <2>1, TimesIsMonotone
  <2>3. (q - 1) * (p - 1) = q * p - q - p + 1 /\ m * (p - 1) = (p - 1) * m
        /\ q * p \in Nat
    BY <1>1
  <2>4. (p - 1) * m \in Nat
    BY <2>1
  <2>5. t - q >= (p - 1) * m
    BY <1>1, <2>2, <2>3, <2>4
  <2> QED
    BY <1>1, <1>3, <2>5 DEF Max2, q
<1> QED
  BY <1>1, <1>2, <1>3

LEMMA CapFits ==
  ASSUME RecoveryAssumption, TypeOK, passesLeft > 0, targetsLeft >= MinTargets
  PROVE  /\ TargetCap \in Nat /\ TargetCap >= MinTargets /\ TargetCap <= targetsLeft
         /\ passesLeft > 1 /\ targetsLeft >= passesLeft * MinTargets =>
              targetsLeft - TargetCap >= (passesLeft - 1) * MinTargets
<1>1. /\ passesLeft \in Nat /\ targetsLeft \in Nat /\ MinTargets \in Nat
      /\ passesLeft * MinTargets \in Nat
  BY Constants DEF TypeOK
<1>2. CASE passesLeft = 1 \/ targetsLeft < passesLeft * MinTargets
  BY <1>1, <1>2 DEF TargetCap
<1>3. CASE passesLeft > 1 /\ targetsLeft >= passesLeft * MinTargets
  <2>1. TargetCap = Max2(MinTargets, (targetsLeft + passesLeft - 1) \div passesLeft)
    BY <1>1, <1>3 DEF TargetCap
  <2>2. TargetCap \in Nat /\ targetsLeft - TargetCap >= (passesLeft - 1) * MinTargets
    BY <1>1, <1>3, <2>1, ShareFits
  <2>3. (passesLeft - 1) * MinTargets \in Nat
    BY <1>1, <1>3, TimesIsMonotone
  <2>4. TargetCap >= MinTargets
    <3>1. (targetsLeft + passesLeft - 1) \div passesLeft \in Nat
      <4>1. targetsLeft + passesLeft - 1 \in Nat /\ passesLeft \in Nat \ {0}
        BY <1>1, <1>3
      <4> QED
        BY <4>1, Division
    <3> QED
      BY <1>1, <2>1, <3>1 DEF Max2
  <2> QED
    BY <1>1, <2>2, <2>3, <2>4
<1> QED
  BY <1>1, <1>2, <1>3

\* In the passes, what was visited and what is left make up the pool, unless the
\* visits have used it up.
LeftAgrees ==
  pc = "passes" => \/ UsedBy[Len(records)] + targetsLeft = collected.targets
                   \/ targetsLeft = 0

ShareInv == TypeInv /\ LeftAgrees /\ PassesShareTargets

LEMMA NothingUsed ==
  ASSUME records = <<>>
  PROVE  UsedBy[Len(records)] = 0 /\ Len(records) = 0
<1>1. records \in Seq(Record) /\ Len(records) = 0
  OBVIOUS
<1> QED
  BY <1>1, UsedBySums DEF Sums

\* Steps that leave the records alone leave the sum alone.
LEMMA SameUse ==
  ASSUME records' = records
  PROVE  UsedBy' = UsedBy
BY DEF UsedBy

\* Without a record and outside the passes there is nothing to share.
LEMMA NothingShared ==
  ASSUME records' = <<>>, pc' # "passes"
  PROVE  LeftAgrees' /\ PassesShareTargets'
<1>1. DOMAIN records' = {}
  OBVIOUS
<1> QED
  BY <1>1 DEF LeftAgrees, PassesShareTargets

LEMMA EvaluateShare ==
  ASSUME RecoveryAssumption, ShareInv, NEW valid \in BOOLEAN,
         NEW planned \in PlannedPasses, Evaluate(valid, planned)
  PROVE  LeftAgrees' /\ PassesShareTargets'
<1>1. records = <<>> /\ records' = records /\ collected' = collected
  BY DEF Evaluate, ShareInv, TypeInv, Phase
<1>2. /\ UsedBy'[Len(records')] = 0 /\ Len(records') = 0 /\ DOMAIN records' = {}
  BY <1>1, NothingUsed, SameUse
<1>3. collected.targets \in Nat /\ passesLeft' \in Nat
  BY EvaluateType DEF ShareInv, TypeInv, TypeOK
<1>4. pc' = "passes" => targetsLeft' = collected.targets
  BY DEF Evaluate
<1> QED
  BY <1>1, <1>2, <1>3, <1>4 DEF LeftAgrees, PassesShareTargets

\* A pass appends its record to what the earlier ones have recorded, and what it
\* has visited is added to the sum.
LEMMA PassUses ==
  ASSUME RecoveryAssumption, ShareInv, NEW status \in Statuses,
         NEW effective \in BOOLEAN, NEW used \in 1..MaxVisits,
         Pass(status, effective, used)
  PROVE  /\ Len(records') = Len(records) + 1 /\ Len(records) \in Nat
         /\ DOMAIN records = 1..Len(records) /\ DOMAIN records' = 1..Len(records')
         /\ \A i \in 1..Len(records) : /\ records'[i].used = records[i].used
                                       /\ records'[i].cap = records[i].cap
         /\ records'[Len(records) + 1].used = used
         /\ records'[Len(records) + 1].cap = TargetCap
         /\ \A n \in 0..Len(records) : UsedBy'[n] = UsedBy[n] /\ UsedBy[n] \in Nat
         /\ UsedBy'[Len(records')] = UsedBy[Len(records)] + used
<1> DEFINE rec == [age |-> 0, status |-> status, effective |-> effective,
                    used |-> used, cap |-> TargetCap]
           older == OlderRecords(records)
<1>0. records \in Seq(Record) /\ records' \in Seq(Record)
  BY PassType DEF ShareInv, TypeInv, TypeOK
<1>1. /\ older \in Seq(Record) /\ Len(older) = Len(records) /\ Len(records) \in Nat
  <2>1. Len(records) \in Nat
    BY <1>0, LengthIsNat
  <2>2. older \in Seq(Record) /\ Len(older) = Len(records)
    BY <1>0, OlderRecord
  <2> QED
    BY <2>1, <2>2
<1>2. records' = Append(older, rec)
  BY DEF Pass
<1>3. \A i \in 1..Len(records) :
        older[i].used = records[i].used /\ older[i].cap = records[i].cap
  <2> TAKE i \in 1..Len(records)
  <2>1. DOMAIN records = 1..Len(records) /\ records[i] \in Record
    BY <1>0, ElementOf, Zenon
  <2>2. older[i] = [records[i] EXCEPT !.age = Older(records[i].age)]
    BY <2>1 DEF OlderRecords
  <2> QED
    BY <2>1, <2>2 DEF Record
<1>r. rec \in Record
  <2>1. TypeInv /\ passesLeft > 0
    BY DEF Pass, ShareInv, TypeInv, Phase
  <2>2. used \in Nat /\ 0 \in Age /\ TargetCap \in Nat
    BY <2>1, PassNumbers
  <2> QED
    BY <2>2 DEF Record
<1>u. rec.used = used /\ rec.cap = TargetCap
  OBVIOUS
<1> HIDE DEF older, rec
<1>4. /\ Len(records') = Len(records) + 1
      /\ \A i \in 1..Len(records) : records'[i] = older[i]
      /\ records'[Len(records) + 1] = rec
  <2> DEFINE n == Len(records)
  <2>1. older \in Seq(Record) /\ n = Len(older)
    BY <1>1
  <2> HIDE DEF n
  <2>2. /\ Len(Append(older, rec)) = n + 1
        /\ \A i \in 1..n : Append(older, rec)[i] = older[i]
        /\ Append(older, rec)[n + 1] = rec
    BY <1>r, <2>1, AppendedTo, SMTT(30)
  <2> QED
    BY <1>2, <2>2, Zenon DEF n
<1>5. Sums(UsedBy, records) /\ Sums(UsedBy', records')
  BY <1>0, UsedBySums, UsedBySumsNext
<1>6. \A n \in 0..Len(records) : UsedBy'[n] = UsedBy[n] /\ UsedBy[n] \in Nat
  <2>1. Len(records) <= Len(records')
    BY <1>1, <1>4
  <2>2. \A i \in 1..Len(records) : records'[i].used = records[i].used
    BY <1>3, <1>4
  <2> QED
    BY <1>0, <1>5, <2>1, <2>2, SumsAgree
<1>7. UsedBy'[Len(records) + 1] = UsedBy'[Len(records)] + records'[Len(records) + 1].used
  <2>1. Len(records) + 1 \in Nat /\ Len(records) + 1 # 0
        /\ ~(Len(records) + 1 > Len(records')) /\ (Len(records) + 1) - 1 = Len(records)
    BY <1>1, <1>4
  <2> QED
    BY <1>5, <2>1 DEF Sums
<1>8. records'[Len(records) + 1].used = used /\ records'[Len(records) + 1].cap = TargetCap
  BY <1>4, <1>u
<1>9. DOMAIN records = 1..Len(records) /\ DOMAIN records' = 1..Len(records')
  BY <1>0, ElementOf, Zenon
<1>10. UsedBy'[Len(records')] = UsedBy[Len(records)] + used
  <2>1. Len(records) \in 0..Len(records)
    BY <1>1
  <2>2. UsedBy'[Len(records)] = UsedBy[Len(records)]
    BY <1>6, <2>1
  <2> QED
    BY <1>4, <1>7, <1>8, <2>2
<1>11. \A i \in 1..Len(records) : /\ records'[i].used = records[i].used
                                  /\ records'[i].cap = records[i].cap
  BY <1>3, <1>4
<1> QED
  BY <1>1, <1>4, <1>6, <1>8, <1>9, <1>10, <1>11

\* Arithmetic of one pass, on its own.
LEMMA PassMoves ==
  /\ \A a, b, c, d \in Nat : a + b = c /\ d <= b => a + d <= c
  /\ \A n, p \in Nat : (n + 1) + (p - 1) = n + p
OBVIOUS

LEMMA PassShare ==
  ASSUME RecoveryAssumption, ShareInv, NEW status \in Statuses,
         NEW effective \in BOOLEAN, NEW used \in 1..MaxVisits,
         Pass(status, effective, used)
  PROVE  LeftAgrees' /\ PassesShareTargets'
<1>1. /\ TypeOK /\ passesLeft \in Nat /\ passesLeft > 0
      /\ targetsLeft \in Nat /\ MinTargets \in Nat /\ targetsLeft >= MinTargets
      /\ MinTargets > 0 /\ used \in Nat
      /\ collected.targets \in Nat /\ pc = "passes"
  <2>1. /\ TypeInv /\ pc = "passes" /\ ~(targetsLeft < MinTargets)
    BY DEF Pass, BreaksOff, ShareInv
  <2>2. /\ TypeOK /\ passesLeft \in Nat /\ passesLeft > 0
        /\ targetsLeft \in Nat /\ collected.targets \in Nat
    BY <2>1 DEF TypeInv, TypeOK, Phase
  <2>3. used \in Nat
    BY <2>1, <2>2, PassNumbers
  <2>4. MinTargets \in Nat /\ MinTargets > 0
    BY DEF RecoveryAssumption
  <2> QED
    BY <2>1, <2>2, <2>3, <2>4
<1>2. TargetCap \in Nat /\ TargetCap >= MinTargets /\ TargetCap <= targetsLeft
  BY <1>1, CapFits
<1>3. /\ targetsLeft' = Max2(0, targetsLeft - used) /\ passesLeft' = passesLeft - 1
      /\ collected' = collected /\ pc' \in {"passes", "record"}
      /\ pc' = "passes" => passesLeft > 1
  <2>1. /\ targetsLeft' = Max2(0, targetsLeft - used) /\ passesLeft' = passesLeft - 1
        /\ collected' = collected /\ pc' \in {"passes", "record"}
        /\ pc' = "passes" => passesLeft # 1
    BY DEF Pass
  <2> QED
    BY <1>1, <2>1
<1> DEFINE n == Len(records)
<1>4. /\ Len(records') = n + 1 /\ n \in Nat
      /\ DOMAIN records = 1..n /\ DOMAIN records' = 1..(n + 1)
      /\ \A i \in 1..n : records'[i].used = records[i].used /\ records'[i].cap = records[i].cap
      /\ records'[n + 1].used = used /\ records'[n + 1].cap = TargetCap
      /\ \A i \in 0..n : UsedBy'[i] = UsedBy[i] /\ UsedBy[i] \in Nat
      /\ UsedBy'[n + 1] = UsedBy[n] + used
  BY PassUses
<1> HIDE DEF n
<1>n. /\ n \in Nat /\ n \in 0..n /\ (n + 1) - 1 = n /\ n + 1 \in 1..(n + 1)
      /\ \A i \in 1..n : i \in 1..(n + 1)
  <2>1. n \in Nat
    BY <1>4
  <2> QED
    BY <2>1
<1>5. UsedBy[n] + targetsLeft = collected.targets /\ UsedBy[n] \in Nat
  <2>1. targetsLeft # 0
    BY <1>1
  <2>2. UsedBy[n] + targetsLeft = collected.targets
    BY <1>1, <2>1 DEF ShareInv, LeftAgrees, n
  <2> QED
    BY <1>4, <2>2
<1>6. LeftAgrees'
  <2>1. \/ (UsedBy[n] + used) + Max2(0, targetsLeft - used) = collected.targets
        \/ Max2(0, targetsLeft - used) = 0
    BY <1>1, <1>5 DEF Max2
  <2> QED
    BY <1>3, <1>4, <2>1, Zenon DEF LeftAgrees
<1>7. ASSUME NEW i \in 1..(n + 1)
      PROVE  /\ records'[i].cap >= MinTargets
             /\ UsedBy'[i - 1] + records'[i].cap <= collected'.targets
  <2>1. CASE i = n + 1
    <3>1. i - 1 = n /\ UsedBy'[n] = UsedBy[n]
      BY <1>n, <1>4, <2>1
    <3>2. UsedBy[n] + TargetCap <= collected.targets
      BY <1>1, <1>2, <1>5, PassMoves
    <3> QED
      BY <1>2, <1>3, <1>4, <2>1, <3>1, <3>2
  <2>2. CASE i # n + 1
    <3>1. i \in 1..n /\ i - 1 \in 0..n
      <4>1. n \in Nat /\ i \in 1..(n + 1) /\ i # n + 1
        BY <1>n, <1>7, <2>2
      <4> QED
        BY ONLY <4>1, SMTT(60)
    <3>2. records[i].cap >= MinTargets /\ UsedBy[i - 1] + records[i].cap <= collected.targets
      BY <1>4, <3>1 DEF ShareInv, PassesShareTargets
    <3> QED
      BY <1>3, <1>4, <3>1, <3>2
  <2> QED
    BY <2>1, <2>2
<1>8. ASSUME pc' = "passes",
             \A i \in 1..(n + 1) : records'[i].used <= records'[i].cap,
             collected'.targets >= (Len(records') + passesLeft') * MinTargets
      PROVE  targetsLeft' >= passesLeft' * MinTargets
  <2>1. Len(records') + passesLeft' = n + passesLeft
    <3>1. (n + 1) + (passesLeft - 1) = n + passesLeft
      BY <1>1, <1>4, PassMoves
    <3> QED
      BY <1>3, <1>4, <3>1, Zenon
  <2>2. used <= TargetCap /\ \A i \in 1..n : records[i].used <= records[i].cap
    <3>1. /\ records'[n + 1].used <= records'[n + 1].cap
          /\ \A i \in 1..n : records'[i].used <= records'[i].cap
      BY <1>n, <1>8, Zenon
    <3> QED
      BY <1>4, <3>1, Zenon
  <2>3. collected.targets >= (n + passesLeft) * MinTargets
    BY <1>3, <1>8, <2>1
  <2>4. targetsLeft >= passesLeft * MinTargets
    BY <1>1, <1>4, <2>2, <2>3 DEF ShareInv, PassesShareTargets, n
  <2>5. targetsLeft - TargetCap >= (passesLeft - 1) * MinTargets
    BY <1>1, <1>3, <1>8, <2>4, CapFits
  <2>6. (passesLeft - 1) * MinTargets \in Nat
    BY <1>1, TimesIsMonotone
  <2>7. targetsLeft' = targetsLeft - used
    BY <1>1, <1>2, <1>3, <2>2 DEF Max2
  <2> QED
    BY <1>1, <1>2, <1>3, <2>2, <2>5, <2>6, <2>7
<1> QED
  BY <1>4, <1>6, <1>7, <1>8 DEF PassesShareTargets

LEMMA ShareStep ==
  RecoveryAssumption /\ ShareInv /\ [Next]_vars => LeftAgrees' /\ PassesShareTargets'
<1> SUFFICES ASSUME RecoveryAssumption, ShareInv, [Next]_vars
             PROVE  LeftAgrees' /\ PassesShareTargets'
  OBVIOUS
<1>1. CASE Collecting
  <2>1. pc = "idle" /\ records' = records /\ pc' # "passes"
    BY <1>1 DEF Collecting, Collect
  <2>2. records' = <<>>
    BY <2>1 DEF ShareInv, TypeInv, Phase
  <2> QED
    BY <2>1, <2>2, NothingShared
<1>2. CASE Evaluating
  <2>1. PICK valid \in BOOLEAN, n \in PlannedPasses : Evaluate(valid, n)
    BY <1>2 DEF Evaluating
  <2> QED
    BY <2>1, EvaluateShare
<1>3. CASE Calibrating
  BY <1>3, PassShare DEF Calibrating
<1>4. CASE BreakOff
  <2>1. /\ pc' = "record" /\ records' = records /\ collected' = collected
    BY <1>4 DEF BreakOff, cycle
  <2> QED
    BY <2>1, SameUse DEF ShareInv, LeftAgrees, PassesShareTargets
<1>5. CASE Recording \/ CycleRaises \/ Kill
  <2>1. records' = <<>> /\ pc' # "passes"
    BY <1>5 DEF Recording, RecordRun, CycleRaises, Kill, Forget
  <2> QED
    BY <2>1, NothingShared
<1>6. CASE Rest \/ RequestStop \/ Restart \/ UNCHANGED vars
  <2>1. UNCHANGED <<pc, records, collected, targetsLeft, passesLeft>>
    BY <1>6 DEF Rest, RequestStop, Restart, vars, cycle
  <2> QED
    BY <2>1, SameUse DEF ShareInv, LeftAgrees, PassesShareTargets
<1> QED
  BY <1>1, <1>2, <1>3, <1>4, <1>5, <1>6 DEF Next, Advance

\* No pass is handed fewer targets than the minimum or more than its cycle has
\* left, and without repeated visits none is dropped for the sake of an earlier one.
THEOREM TargetsAreShared == Spec => []PassesShareTargets
<1>1. RecoveryAssumption /\ Init => ShareInv
  <2>1. ASSUME Init PROVE LeftAgrees /\ PassesShareTargets
    <3>1. pc = "idle" /\ DOMAIN records = {}
      BY <2>1 DEF Init
    <3> QED
      BY <3>1 DEF LeftAgrees, PassesShareTargets
  <2> QED
    BY <2>1, InitType DEF ShareInv
<1>2. RecoveryAssumption /\ ShareInv /\ [Next]_vars => ShareInv'
  BY TypeStep, ShareStep DEF ShareInv
<1>3. ShareInv => PassesShareTargets
  BY DEF ShareInv
<1>4. Spec => []ShareInv
  BY <1>1, <1>2, RecoveryAssumption, PTL DEF Spec
<1> QED
  BY <1>3, <1>4, PTL

=============================================================================
