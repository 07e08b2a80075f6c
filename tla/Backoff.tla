------------------------------ MODULE Backoff ------------------------------
(***************************************************************************)
(* compute_times and penalty_for of lib/pkg.sh, as bin/maintain-sync and   *)
(* `sync regularly' use them: when is a package synchronized again after   *)
(* its sync has failed?  The lock is left to PkgSync: here one sync runs   *)
(* at a time.  Times are in seconds, counted since the timestamp.          *)
(***************************************************************************)
EXTENDS Integers

CONSTANTS Interval,     \* the package's frequency
          Tick,         \* the period of maintain-sync in etc/crontab.node
          Grain,        \* the seconds that pass in one step
          NeverSynced,  \* has the package no timestamp yet?
          Epoch,        \* the age of a missing timestamp: mtime gives 0
          MaxRun,       \* bound on the length of a sync
          MaxFailures,  \* bound on the failures in a row
          MaxAge        \* bound on the age of the timestamp

ASSUME BackoffAssumption == /\ Interval \in Nat \ {0}
                            /\ Tick \in 1..600 /\ Grain \in Nat \ {0}
                            /\ NeverSynced \in BOOLEAN
                            /\ Epoch \in Nat
                            /\ MaxRun \in Nat /\ MaxFailures \in Nat /\ MaxAge \in Nat

VARIABLES age,       \* seconds since the timestamp was touched (timepast)
          wait,      \* seconds until the next maintain-sync
          failures,  \* the count in `failed'
          started,   \* the age at which the last sync started
          status,    \* what the last sync is doing, or what became of it
          forced,    \* was a sync started by hand since the last success?
          disturbed  \* since then, was a poll skipped, or a sync killed or long?

vars == <<age, wait, failures, started, status, forced, disturbed>>

Statuses == {"running", "success", "failure", "killed"}

\* Mutant: the penalty is that of the last failure alone.
PenaltyOfLast(n) == 600 * n * n

Penalty(n) == 100 * n * (n + 1) * (2 * n + 1)

Delay(n) == Interval + Penalty(n)

Init == /\ age = IF NeverSynced THEN Epoch ELSE 0
        /\ wait = Tick
        /\ failures = 0
        /\ started = age
        /\ status = "success"
        /\ forced = FALSE
        /\ disturbed = FALSE

---------------------------------------------------------------------------
Starts == /\ status # "running"
          /\ status' = "running"
          /\ started' = age
          /\ UNCHANGED <<age, failures>>

\* `sync now'
StartNow == /\ Starts
            /\ forced' = TRUE
            /\ UNCHANGED <<wait, disturbed>>

\* maintain-sync calls `sync regularly', which gives up if the package is locked or its
\* time has not come; in a degraded system or under load it calls nothing.
\* Mutant: the count is the one before the last failure.
DueTooSoon == age >= Delay(IF failures > 0 THEN failures - 1 ELSE 0)

Due == age >= Delay(failures)

Poll == /\ wait = 0
        /\ wait' = Tick
        /\ IF status # "running" /\ Due
           THEN Starts /\ UNCHANGED disturbed
           ELSE UNCHANGED <<age, failures, started, status, disturbed>>
        /\ UNCHANGED forced

SkipPoll == /\ wait = 0
            /\ wait' = Tick
            /\ disturbed' = TRUE
            /\ UNCHANGED <<age, failures, started, status, forced>>

\* A sync is long when its end leaves less than a poll of the shortest penalty.
Long(t) == status = "running" /\ t + Tick > started + 600

Elapsed == IF wait > Grain THEN Grain ELSE wait

Pass == /\ wait > 0
        /\ age + Elapsed <= MaxAge
        /\ status = "running" => age + Elapsed <= started + MaxRun
        /\ age' = age + Elapsed
        /\ wait' = wait - Elapsed
        /\ disturbed' = (disturbed \/ Long(age'))
        /\ UNCHANGED <<failures, started, status, forced>>

\* Mutant: a success forgives one failure only.
SucceedForgivesOne == /\ status = "running"
                      /\ status' = "success"
                      /\ age' = 0
                      /\ failures' = failures - 1
                      /\ forced' = FALSE
                      /\ disturbed' = FALSE
                      /\ started' = 0
                      /\ UNCHANGED wait

\* finish-sync
Succeed == /\ status = "running"
           /\ status' = "success"
           /\ age' = 0
           /\ failures' = 0
           /\ forced' = FALSE
           /\ disturbed' = FALSE
           /\ started' = 0
           /\ UNCHANGED wait

Fail == /\ status = "running"
        /\ failures < MaxFailures
        /\ status' = "failure"
        /\ failures' = failures + 1
        /\ UNCHANGED <<age, wait, started, forced, disturbed>>

\* The sync is killed, and nothing is counted.
Vanish == /\ status = "running"
          /\ status' = "killed"
          /\ disturbed' = TRUE
          /\ UNCHANGED <<age, wait, failures, started, forced>>

Next == StartNow \/ Poll \/ SkipPoll \/ Pass \/ Succeed \/ Fail \/ Vanish

Spec == Init /\ [][Next]_vars

---------------------------------------------------------------------------
TypeOK == /\ age \in Nat
          /\ wait \in 0..Tick
          /\ failures \in 0..MaxFailures
          /\ started \in 0..age
          /\ status \in Statuses
          /\ forced \in BOOLEAN
          /\ disturbed \in BOOLEAN

\* "penalty according to failures, 600s * failures^2" (lib/pkg.sh:86-87): once the last
\* of n syncs in a row has failed, the next regular one comes that much after its
\* start, save for one period of maintain-sync, as long as nothing disturbed them.
PenaltyKept ==
  [][status = "failure" /\ status' = "running" /\ wait # wait' /\ ~disturbed
       => age - started >= 600 * failures * failures - Tick]_vars

\* Whatever was delayed, skipped or killed meanwhile, the n-th failure in a row comes
\* no sooner after the last success than n - 1 penalties add up to: an unreachable
\* source is not hammered.
FailuresTakeTime == failures > 0 /\ ~forced => age >= Delay(failures - 1)

\* The penalty "must return sum of all delays until current amount of failures"
\* (lib/pkg.sh:89-91).
SumOfDelays[n \in Nat] == IF n = 0 THEN 0 ELSE SumOfDelays[n - 1] + 600 * n * n
PenaltyIsSum == Penalty(failures) = SumOfDelays[failures]

(***************************************************************************)
(* Why the penalty is kept: a sync starts less than a period after it is   *)
(* due, and ends before the next one is.                                   *)
(***************************************************************************)
Settled == ~NeverSynced /\ ~disturbed

StartedInTime(n) == started < Delay(n) + Tick
NotYetLate == age + wait < Delay(failures) + Tick

PromptStart == /\ status = "running" => StartedInTime(failures) /\ ~Long(age)
               /\ status = "failure" => failures > 0 /\ StartedInTime(failures - 1)
               /\ status # "running" => NotYetLate

\* Under a regular start the age was already what the count called for.
StartedWhenDue == status = "running" /\ ~forced => started >= Delay(failures)

IInv == /\ TypeOK
        /\ StartedWhenDue
        /\ FailuresTakeTime
        /\ Settled => PromptStart
=============================================================================
