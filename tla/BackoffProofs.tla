--------------------------- MODULE BackoffProofs ---------------------------
(***************************************************************************)
(* What backing off guarantees, for every frequency and every period of    *)
(* maintain-sync.                                                          *)
(***************************************************************************)
EXTENDS Backoff, Induction, TLAPS

\* One more failure adds 600s * failures^2 to the penalty.
LEMMA PenaltyStep ==
  \A n \in Nat : Penalty(n + 1) = Penalty(n) + 600 * (n + 1) * (n + 1)
BY DEF Penalty

LEMMA PenaltyType == \A n \in Nat : Penalty(n) \in Nat
BY DEF Penalty

\* Delays are positive, and grow by the square of the count.
LEMMA DelayStep ==
  ASSUME NEW n \in Nat
  PROVE  /\ Delay(n) \in Nat \ {0}
         /\ Delay(n + 1) = Delay(n) + 600 * (n + 1) * (n + 1)
         /\ 600 * (n + 1) * (n + 1) \in Nat
         /\ 600 * (n + 1) * (n + 1) >= 600
<1>1. Penalty(n + 1) = Penalty(n) + 600 * (n + 1) * (n + 1)
  BY PenaltyStep
<1>2. Penalty(n) \in Nat
  BY PenaltyType
<1>3. (n + 1) * (n + 1) \in Nat /\ (n + 1) * (n + 1) >= 1
  OBVIOUS
<1>4. 600 * (n + 1) * (n + 1) = 600 * ((n + 1) * (n + 1))
  OBVIOUS
<1> QED BY <1>1, <1>2, <1>3, <1>4, BackoffAssumption DEF Delay

---------------------------------------------------------------------------
LEMMA InitIInv == Init => IInv
<1> SUFFICES ASSUME Init PROVE IInv
  OBVIOUS
<1> USE BackoffAssumption
<1>1. TypeOK
  <2>1. age \in Nat /\ age \in 0..age
    BY DEF Init
  <2>2. 0 \in 0..MaxFailures /\ Tick \in 0..Tick
    OBVIOUS
  <2> QED BY <2>1, <2>2 DEF Init, TypeOK, Statuses
<1>2. StartedWhenDue /\ FailuresTakeTime
  BY DEF Init, StartedWhenDue, FailuresTakeTime
<1>3. Settled => PromptStart
  <2>1. Delay(0) \in Nat \ {0}
    BY DelayStep
  <2> QED BY <2>1 DEF Init, Settled, PromptStart, NotYetLate
<1> QED BY <1>1, <1>2, <1>3 DEF IInv

LEMMA TypeKept == TypeOK /\ [Next]_vars => TypeOK'
<1> SUFFICES ASSUME TypeOK, [Next]_vars PROVE TypeOK'
  OBVIOUS
<1> USE BackoffAssumption DEF TypeOK, Statuses
<1>1. CASE StartNow
  BY <1>1 DEF StartNow, Starts
<1>2. CASE Poll
  BY <1>2 DEF Poll, Starts
<1>3. CASE Pass
  BY <1>3 DEF Pass, Elapsed
<1>4. CASE Succeed
  <2>1. 0 \in Nat /\ 0 \in 0..MaxFailures /\ 0 \in 0..0
    OBVIOUS
  <2> QED BY <1>4, <2>1 DEF Succeed
<1>5. CASE Fail
  BY <1>5 DEF Fail
<1>6. CASE Vanish
  BY <1>6 DEF Vanish
<1>7. CASE SkipPoll
  BY <1>7 DEF SkipPoll
<1>8. CASE UNCHANGED vars
  BY <1>8 DEF vars
<1> QED BY <1>1, <1>2, <1>3, <1>4, <1>5, <1>6, <1>7, <1>8 DEF Next

\* The count a sync found when it started is still the count: that is what makes the
\* age at its failure the age that was called for.
LEMMA FailuresTakeTimeKept ==
  TypeOK /\ StartedWhenDue /\ FailuresTakeTime /\ [Next]_vars
    => StartedWhenDue' /\ FailuresTakeTime'
<1> SUFFICES ASSUME TypeOK, StartedWhenDue, FailuresTakeTime, [Next]_vars
             PROVE  StartedWhenDue' /\ FailuresTakeTime'
  OBVIOUS
<1> USE BackoffAssumption DEF StartedWhenDue, FailuresTakeTime
<1>0. /\ \A n \in Nat : Delay(n) \in Nat
      /\ failures \in Nat /\ age \in Nat /\ started \in Nat /\ started <= age
  BY DelayStep DEF TypeOK
<1>1. CASE StartNow
  BY <1>1 DEF StartNow, Starts
<1>2. CASE Poll
  BY <1>2, <1>0 DEF Poll, Starts, Due
<1>3. CASE Pass
  <2>1. failures > 0 => Delay(failures - 1) \in Nat
    BY <1>0
  <2> QED BY <1>3, <1>0, <2>1 DEF Pass, Elapsed, TypeOK
<1>4. CASE Succeed
  BY <1>4 DEF Succeed
<1>5. CASE Fail
  BY <1>5, <1>0 DEF Fail
<1>6. CASE Vanish
  BY <1>6 DEF Vanish
<1>7. CASE SkipPoll
  BY <1>7 DEF SkipPoll
<1>8. CASE UNCHANGED vars
  BY <1>8 DEF vars
<1> QED BY <1>1, <1>2, <1>3, <1>4, <1>5, <1>6, <1>7, <1>8 DEF Next

\* Until a success clears it, a disturbance is not forgotten.
LEMMA PromptKept ==
  ASSUME ~NeverSynced, TypeOK, Settled => PromptStart, [Next]_vars, Settled'
  PROVE  PromptStart'
<1> USE BackoffAssumption DEF PromptStart, StartedInTime, NotYetLate, Long
<1>0. /\ failures \in Nat /\ age \in Nat /\ started \in Nat /\ started <= age
      /\ wait \in Nat /\ wait <= Tick
  BY DEF TypeOK
<1>d. /\ Delay(0) \in Int /\ Delay(0) > 0
      /\ Delay(failures) \in Int /\ Delay(failures + 1) >= Delay(failures) + 600
      /\ Delay(failures + 1) \in Int
  <2>1. Delay(0) \in Nat \ {0} /\ Delay(failures) \in Nat \ {0}
    BY <1>0, DelayStep
  <2>2. failures + 1 \in Nat
    BY <1>0
  <2>3. Delay(failures + 1) \in Nat \ {0}
    BY <2>2, DelayStep
  <2>4. Delay(failures + 1) >= Delay(failures) + 600
    <3> DEFINE g == 600 * (failures + 1) * (failures + 1)
    <3>1. Delay(failures + 1) = Delay(failures) + g /\ g \in Nat /\ g >= 600
      BY <1>0, DelayStep
    <3> HIDE DEF g
    <3> QED BY <3>1, <2>1
  <2> QED BY <2>1, <2>3, <2>4
<1>4. CASE Succeed
  <2>1. age' = 0 /\ failures' = 0 /\ status' = "success" /\ wait' = wait
    BY <1>4 DEF Succeed
  <2>2. Delay(failures)' = Delay(0)
    BY <2>1 DEF Delay, Penalty
  <2>3. wait < Delay(0) + Tick
    BY <1>0, <1>d
  <2> QED BY <2>1, <2>2, <2>3, <1>0
<1>n. ASSUME ~Succeed PROVE Settled /\ PromptStart
  <2>1. disturbed' = FALSE
    BY DEF Settled
  <2>2. disturbed = FALSE
    BY <1>n, <2>1 DEF Next, StartNow, Poll, SkipPoll, Pass, Fail, Vanish, vars, TypeOK
  <2> QED BY <2>2 DEF Settled
<1>1. CASE StartNow /\ ~Succeed
  BY <1>1, <1>n, <1>0, <1>d DEF StartNow, Starts
<1>2. CASE Poll /\ ~Succeed
  BY <1>2, <1>n, <1>0, <1>d DEF Poll, Starts, Due
<1>3. CASE Pass /\ ~Succeed
  <2>1. /\ age' \in Nat /\ wait' \in Nat
        /\ age' + wait' = age + wait
    BY <1>3, <1>0 DEF Pass, Elapsed
  <2>2. /\ UNCHANGED <<failures, started, status>>
        /\ ~(status = "running" /\ age' + Tick > started + 600)
    BY <1>3 DEF Pass, Settled
  <2>3. UNCHANGED <<Delay(failures), Delay(failures - 1)>>
    BY <2>2 DEF Delay, Penalty
  <2> QED BY <1>3, <1>n, <2>1, <2>2, <2>3
<1>5. CASE Fail /\ ~Succeed
  <2>1. /\ status = "running" /\ status' = "failure" /\ failures' = failures + 1
        /\ UNCHANGED <<age, wait, started>>
    BY <1>5 DEF Fail
  <2>2. started < Delay(failures) + Tick /\ age + Tick <= started + 600
    BY <2>1, <1>5, <1>n, <1>0
  <2>3. failures' - 1 = failures /\ failures' > 0
    BY <2>1, <1>0
  <2>4. age + wait < Delay(failures + 1) + Tick
    BY <2>2, <1>0, <1>d
  <2>5. Delay(failures)' = Delay(failures + 1) /\ Delay(failures - 1)' = Delay(failures)
    BY <2>1, <2>3 DEF Delay, Penalty
  <2> QED BY <2>1, <2>2, <2>3, <2>4, <2>5
<1>6. CASE Vanish \/ SkipPoll
  BY <1>6 DEF Vanish, SkipPoll, Settled
<1>8. CASE UNCHANGED vars
  <2>1. Settled /\ PromptStart
    BY <1>8 DEF vars, Settled
  <2> QED BY <1>8, <2>1 DEF vars
<1> QED BY <1>1, <1>2, <1>3, <1>4, <1>5, <1>6, <1>8 DEF Next

LEMMA NextKeepsIInv == IInv /\ [Next]_vars => IInv'
<1> SUFFICES ASSUME IInv, [Next]_vars PROVE IInv'
  OBVIOUS
<1>1. TypeOK'
  BY TypeKept DEF IInv
<1>2. StartedWhenDue' /\ FailuresTakeTime'
  BY FailuresTakeTimeKept DEF IInv
<1>3. CASE NeverSynced
  BY <1>1, <1>2, <1>3 DEF IInv, Settled
<1>4. CASE ~NeverSynced
  <2>1. Settled' => PromptStart'
    BY <1>4, PromptKept DEF IInv
  <2> QED BY <1>1, <1>2, <2>1 DEF IInv
<1> QED BY <1>3, <1>4

---------------------------------------------------------------------------
(* The theorems *)

\* The inductive invariant: types, that a sync starts and fails no sooner than its
\* count calls for, and, as long as nothing is disturbed, that it starts in time.
THEOREM BackoffInvariant == Spec => []IInv
<1>1. Init => IInv
  BY InitIInv
<1>2. IInv /\ [Next]_vars => IInv'
  BY NextKeepsIInv
<1> QED BY <1>1, <1>2, PTL DEF Spec

\* n failures in a row, none of them forced by hand, take at least the time that
\* compute_times adds up to, whatever is delayed, skipped or killed.
THEOREM BackoffFailuresTakeTime == Spec => []FailuresTakeTime
<1>1. IInv => FailuresTakeTime
  BY DEF IInv
<1> QED BY <1>1, BackoffInvariant, PTL

\* A regular start after a failure comes 600s * failures^2 after the last start, save
\* for one period of maintain-sync: penalty_for's sum gives penalty_for's delays,
\* for a package that has been synchronized before.
THEOREM BackoffPenaltyKept == ASSUME ~NeverSynced PROVE Spec => PenaltyKept
<1> DEFINE A == status = "failure" /\ status' = "running" /\ wait # wait' /\ ~disturbed
                  => age - started >= 600 * failures * failures - Tick
<1>1. IInv /\ [Next]_vars => [A]_vars
  <2> SUFFICES ASSUME IInv, [Next]_vars, ~disturbed,
                      status = "failure", status' = "running", wait # wait'
               PROVE  age - started >= 600 * failures * failures - Tick
    BY DEF vars
  <2>1. Poll
    BY DEF Next, StartNow, Starts, SkipPoll, Pass, Succeed, Fail, Vanish, vars
  <2>2. age >= Delay(failures)
    BY <2>1 DEF Poll, Starts, Due
  <2>3. failures > 0 /\ started < Delay(failures - 1) + Tick
    BY DEF IInv, Settled, PromptStart, StartedInTime
  <2>4. failures - 1 \in Nat /\ (failures - 1) + 1 = failures
    BY <2>3 DEF IInv, TypeOK
  <2>5. Delay(failures) = Delay(failures - 1) + 600 * failures * failures
    BY <2>4, DelayStep
  <2>6. /\ age \in Int /\ started \in Int /\ Tick \in Int
        /\ Delay(failures - 1) \in Int /\ 600 * failures * failures \in Int
    BY <2>4, DelayStep, BackoffAssumption DEF IInv, TypeOK
  <2> QED BY <2>2, <2>3, <2>5, <2>6
<1>2. Spec => []IInv
  BY BackoffInvariant
<1> QED BY <1>1, <1>2, PTL DEF Spec, PenaltyKept

---------------------------------------------------------------------------
(***************************************************************************)
(* The closed formula of penalty_for and the sum it stands for.            *)
(***************************************************************************)
IsSumOfDelays(f) == f = [n \in Nat |-> IF n = 0 THEN 0 ELSE f[n - 1] + 600 * n * n]

\* There is a function that adds the delays up: the closed formula.
LEMMA PenaltyAddsUp == IsSumOfDelays([n \in Nat |-> Penalty(n)])
<1> DEFINE penalties == [n \in Nat |-> Penalty(n)]
<1>1. ASSUME NEW n \in Nat
      PROVE  penalties[n] = IF n = 0 THEN 0 ELSE penalties[n - 1] + 600 * n * n
  <2>1. Penalty(0) = 0
    BY DEF Penalty
  <2>2. CASE n # 0
    <3>1. n - 1 \in Nat /\ (n - 1) + 1 = n
      BY <2>2
    <3>2. Penalty(n) = Penalty(n - 1) + 600 * n * n
      BY <3>1, PenaltyStep
    <3> QED
      BY <2>2, <3>1, <3>2
  <2> QED
    BY <2>1, <2>2
<1> QED
  BY <1>1 DEF IsSumOfDelays

LEMMA SumOfDelaysAddsUp == IsSumOfDelays(SumOfDelays)
<1>1. SumOfDelays = CHOOSE f : IsSumOfDelays(f)
  BY Zenon DEF SumOfDelays, IsSumOfDelays
<1> QED
  BY <1>1, PenaltyAddsUp, Zenon

\* "must return sum of all delays until current amount of failures" (lib/pkg.sh:89-91):
\* the formula is that sum for every count.
LEMMA PenaltyIsSumOfDelays == \A n \in Nat : Penalty(n) = SumOfDelays[n]
<1> DEFINE T == {n \in Nat : Penalty(n) = SumOfDelays[n]}
<1>1. 0 \in T
  BY SumOfDelaysAddsUp DEF IsSumOfDelays, Penalty
<1>2. ASSUME NEW n \in T PROVE n + 1 \in T
  <2>1. SumOfDelays[n + 1] = SumOfDelays[n] + 600 * (n + 1) * (n + 1)
    BY SumOfDelaysAddsUp DEF IsSumOfDelays
  <2> QED
    BY <2>1, PenaltyStep
<1>3. T = Nat
  BY <1>1, <1>2, NatInductionOnSets
<1> QED
  BY <1>3

\* However often a package has failed, its penalty is the sum of the documented delays.
THEOREM BackoffPenaltyIsSum == Spec => []PenaltyIsSum
<1>1. IInv => PenaltyIsSum
  BY PenaltyIsSumOfDelays DEF IInv, TypeOK, PenaltyIsSum
<1> QED
  BY <1>1, BackoffInvariant, PTL
=============================================================================
