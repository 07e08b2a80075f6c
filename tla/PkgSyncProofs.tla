--------------------------- MODULE PkgSyncProofs ---------------------------
(***************************************************************************)
(* Proofs about PkgSync for any set of pids and any bound on the crashes.  *)
(* Invocations interleave in every order; what the lock promises, it       *)
(* promises until two of them have raced.                                  *)
(***************************************************************************)
EXTENDS PkgSync, TLAPS

\* No process is the missing owner.
LEMMA OwnerIsNoProc == ~(NoOwner \in Procs)
  BY PkgSyncAssumption

\* A count that starts again is a count.
LEMMA ZeroCounts == 0 \in 0..MaxFailures
  BY PkgSyncAssumption

\* One step of process p.
OneOf(p, what, outcome) == \/ Step(p) \/ Invoke(p, what) \/ TransferEnds(p, outcome)
                           \/ Crash(p) \/ LoseShell(p) \/ OrphanEnds(p)

\* One step of the world around the processes.
World == AgeTimestamp \/ AgeLock \/ Suspend \/ Resume

LEMMA InitTypeOK == Init => TypeOK /\ StepOfCaller
<1> SUFFICES ASSUME Init PROVE TypeOK /\ StepOfCaller
  OBVIOUS
<1>1. StepOfCaller
  BY DEF Init, StepOfCaller, Locking, Syncing, LockingSteps, TransferSteps, FinishSteps
<1>2. /\ pc \in [Procs -> Steps] /\ op \in [Procs -> Ops]
      /\ trigger \in [Procs -> Triggers]
      /\ seen \in [Procs -> Procs \cup {NoOwner}]
      /\ victim \in [Procs -> Procs \cup {NoOwner}]
      /\ result \in [Procs -> {"none", "ok", "bad"}]
  BY DEF Init, Steps, Ops, Triggers
<1>3. /\ failed \in 0..MaxFailures /\ crashes \in 0..MaxCrashes
      /\ count \in [Procs -> 0..MaxFailures]
  BY PkgSyncAssumption DEF Init
<1>4. raced \in BOOLEAN
  BY DEF Init
<1> QED
  BY <1>1, <1>2, <1>3, <1>4 DEF Init, TypeOK

LEMMA NextKeepsTypeOK ==
  TypeOK /\ StepOfCaller /\ [Next]_vars => TypeOK' /\ StepOfCaller'
<1> SUFFICES ASSUME TypeOK, StepOfCaller, [Next]_vars PROVE TypeOK' /\ StepOfCaller'
  OBVIOUS
<1> USE PkgSyncAssumption
    DEF TypeOK, StepOfCaller, Locking, Syncing, LockingSteps, TransferSteps, FinishSteps, Steps,
        Ops, Triggers, Goto, Call, Exit, files, shell
<1>1. CASE UNCHANGED vars
  BY <1>1 DEF vars
<1>2. ASSUME NEW p \in Procs, Step(p)
      PROVE  TypeOK' /\ StepOfCaller'
  <2>1. CASE LockExists(p)
    BY <2>1 DEF LockExists, WhenNotInProgress, KillDone
  <2>2. CASE ReadOwner(p)
    BY <2>2 DEF ReadOwner
  <2>3. CASE AskPs(p)
    BY <2>3 DEF AskPs, WhenInProgress, GoesOn, WhenNotInProgress, KillDone
  <2>4. CASE ComputeTimes(p)
    BY <2>4 DEF ComputeTimes
  <2>5. CASE LockExpired(p)
    BY <2>5 DEF LockExpired
  <2>6. CASE ReadVictim(p)
    BY <2>6 DEF ReadVictim, KillDone
  <2>7. CASE Lockfile(p)
    <3> USE <2>7 DEF Lockfile
    <3>1. raced' \in BOOLEAN
      OBVIOUS
    <3>2. pc' \in [Procs -> Steps] /\ StepOfCaller'
      OBVIOUS
    <3> QED
      BY <3>1, <3>2
  <2>8. CASE LockfileGivesUp(p)
    BY <2>8 DEF LockfileGivesUp
  <2>9. CASE Record(p)
    BY <2>9 DEF Record
  <2>10. CASE RemoveOwner(p)
    BY <2>10 DEF RemoveOwner
  <2>11. CASE RemoveLock(p)
    <3> USE <2>11 DEF RemoveLock
    <3>1. CASE op[p] \in {"stop", "end"} /\ Exit(p)
      <4>1. StepOfCaller'
        BY <3>1
      <4>2. count' \in [Procs -> 0..MaxFailures]
        BY <3>1, ZeroCounts
      <4>3. /\ pc' \in [Procs -> Steps] /\ op' \in [Procs -> Ops]
            /\ trigger' \in [Procs -> Triggers]
        BY <3>1
      <4>4. /\ seen' \in [Procs -> Procs \cup {NoOwner}]
            /\ victim' \in [Procs -> Procs \cup {NoOwner}]
            /\ result' \in [Procs -> {"none", "ok", "bad"}]
        BY <3>1
      <4> QED
        BY <4>1, <4>2, <4>3, <4>4
    <3>2. CASE op[p] = "acquire" /\ Goto(p, "expired") /\ UNCHANGED <<op, trigger, shell>>
      BY <3>2
    <3>3. CASE op[p] = "expire" /\ Goto(p, "lockfile") /\ UNCHANGED <<op, trigger, shell>>
      BY <3>3
    <3> QED
      BY <3>1, <3>2, <3>3
  <2>12. CASE FindRuins(p)
    BY <2>12 DEF FindRuins
  <2>13. CASE RemoveDeadLog(p)
    BY <2>13 DEF RemoveDeadLog
  <2>14. CASE SendSignal(p)
    <3> USE <2>14 DEF SendSignal, Signalled
    <3> DEFINE v == victim[p]
               next == Signalled(v, IF op[p] = "term" THEN "term" ELSE "kill")
    <3>1. pc' \in [Procs -> Steps] /\ op' \in [Procs -> Ops]
      OBVIOUS
    <3>2. seen' \in [Procs -> Procs \cup {NoOwner}] /\ victim' \in [Procs -> Procs \cup {NoOwner}]
      OBVIOUS
    <3>3. count' \in [Procs -> 0..MaxFailures]
      <4>1. count' \in {count, [count EXCEPT ![v] = 0]}
        OBVIOUS
      <4>2. count \in [Procs -> 0..MaxFailures]
        OBVIOUS
      <4> HIDE <2>14 DEF TypeOK, StepOfCaller
      <4> QED
        BY <4>1, <4>2, ZeroCounts
    <3>6. trigger' \in [Procs -> Triggers]
      OBVIOUS
    <3>4. result' \in [Procs -> {"none", "ok", "bad"}]
      OBVIOUS
    <3>5. StepOfCaller'
      BY SMTT(60)
    <3> QED
      BY <3>1, <3>2, <3>3, <3>4, <3>5, <3>6
  <2>15. CASE SetTraps(p)
    BY <2>15 DEF SetTraps
  <2>16. CASE ClearReportFlag(p)
    BY <2>16 DEF ClearReportFlag
  <2>17. CASE OpenLog(p)
    BY <2>17 DEF OpenLog
  <2>18. CASE TouchTimestamp(p)
    BY <2>18 DEF TouchTimestamp
  <2>19. CASE ClearFailures(p)
    BY <2>19 DEF ClearFailures
  <2>20. CASE ReadFailures(p)
    BY <2>20 DEF ReadFailures
  <2>21. CASE WriteFailures(p)
    <3> USE <2>21 DEF WriteFailures
    <3>1. failed' \in 0..MaxFailures
      OBVIOUS
    <3>2. young' \in BOOLEAN
      OBVIOUS
    <3> QED
      BY <3>1, <3>2
  <2>22. CASE CloseLog(p)
    BY <2>22 DEF CloseLog
  <2>23. CASE RaiseReportFlag(p)
    BY <2>23 DEF RaiseReportFlag
  <2> QED
    BY <1>2, <2>1, <2>2, <2>3, <2>4, <2>5, <2>6, <2>7, <2>8, <2>9, <2>10, <2>11, <2>12,
       <2>13, <2>14, <2>15, <2>16, <2>17, <2>18, <2>19, <2>20, <2>21, <2>22, <2>23 DEF Step
<1>3. ASSUME NEW p \in Procs, NEW what \in Triggers, NEW outcome \in {"ok", "bad"},
             \/ Invoke(p, what) \/ TransferEnds(p, outcome)
             \/ Crash(p) \/ LoseShell(p) \/ OrphanEnds(p)
      PROVE  TypeOK' /\ StepOfCaller'
  <2>1. CASE Invoke(p, what)
    BY <2>1 DEF Invoke
  <2>2. CASE TransferEnds(p, outcome)
    BY <2>2 DEF TransferEnds, Succeeds
  <2>3. CASE Crash(p)
    BY <2>3 DEF Crash
  <2>4. CASE LoseShell(p)
    BY <2>4 DEF LoseShell
  <2>5. CASE OrphanEnds(p)
    BY <2>5 DEF OrphanEnds
  <2> QED
    BY <1>3, <2>1, <2>2, <2>3, <2>4, <2>5
<1>4. CASE AgeTimestamp \/ AgeLock \/ Suspend \/ Resume
  <2>1. CASE AgeTimestamp
    BY <2>1 DEF AgeTimestamp
  <2>2. CASE AgeLock
    BY <2>2 DEF AgeLock
  <2>3. CASE Suspend
    BY <2>3 DEF Suspend
  <2>4. CASE Resume
    BY <2>4 DEF Resume
  <2> QED
    BY <1>4, <2>1, <2>2, <2>3, <2>4
<1> QED
  BY <1>1, <1>2, <1>3, <1>4 DEF Next

\* Every variable keeps its type, however invocations race.
THEOREM PkgSyncTypeOK == Spec => []TypeOK
<1>1. Spec => [](TypeOK /\ StepOfCaller)
  BY InitTypeOK, NextKeepsTypeOK, PTL DEF Spec
<1> QED
  BY <1>1, PTL

(***************************************************************************)
(* The inductive invariant, part by part.                                  *)
(***************************************************************************)

\* Invocations that have not raced after a step had not raced before it.
LEMMA ResidueOfRaced ==
  ASSUME IInv, NEW p \in Procs, NEW what \in Triggers, NEW outcome \in {"ok", "bad"},
         OneOf(p, what, outcome), ~raced'
  PROVE  Whole /\ ~raced
<1>1. ~raced
  BY DEF OneOf, Step, Invoke, LockExists, ReadOwner, AskPs, ComputeTimes, LockExpired,
         ReadVictim, Lockfile, LockfileGivesUp, Record, RemoveOwner, RemoveLock, FindRuins,
         RemoveDeadLog, SendSignal, SetTraps, ClearReportFlag, OpenLog, TouchTimestamp,
         ClearFailures, ReadFailures, WriteFailures, CloseLog, RaiseReportFlag, TransferEnds,
         Crash, LoseShell, OrphanEnds
<1> QED
  BY <1>1 DEF IInv

\* Only a process that has recorded itself is ever written down, and the kernel gives
\* its pid to no other while it is.
LEMMA ReferencesKept ==
  ASSUME IInv, NEW p \in Procs, NEW what \in Triggers, NEW outcome \in {"ok", "bad"},
         OneOf(p, what, outcome)
  PROVE  ReferencedPastStart'
<1> USE OwnerIsNoProc
    DEF IInv, TypeOK, StepOfCaller, Locking, Syncing, ReferencedPastStart, LockingSteps,
        TransferSteps, FinishSteps, Goto, Call, files, shell
<1>1. CASE LockExists(p)
  BY <1>1 DEF LockExists, WhenNotInProgress, KillDone, Exit
<1>2. CASE ReadOwner(p)
  BY <1>2 DEF ReadOwner
<1>3. CASE AskPs(p)
  BY <1>3 DEF AskPs, WhenInProgress, GoesOn, Live, WhenNotInProgress, KillDone, Exit
<1>4. CASE ComputeTimes(p)
  BY <1>4 DEF ComputeTimes, Exit
<1>5. CASE LockExpired(p)
  BY <1>5 DEF LockExpired
<1>6. CASE ReadVictim(p)
  BY <1>6 DEF ReadVictim, KillDone, Exit
<1>7. CASE Lockfile(p)
  BY <1>7 DEF Lockfile
<1>8. CASE LockfileGivesUp(p)
  BY <1>8 DEF LockfileGivesUp, Exit
<1>9. CASE Record(p)
  BY <1>9 DEF Record
<1>10. CASE RemoveOwner(p)
  BY <1>10 DEF RemoveOwner
<1>11. CASE RemoveLock(p)
  BY <1>11 DEF RemoveLock, Exit
<1>12. CASE FindRuins(p)
  BY <1>12 DEF FindRuins, Exit
<1>13. CASE RemoveDeadLog(p)
  BY <1>13 DEF RemoveDeadLog
<1>14. CASE SendSignal(p)
  BY <1>14 DEF SendSignal, Signalled
<1>15. CASE SetTraps(p)
  BY <1>15 DEF SetTraps
<1>16. CASE ClearReportFlag(p)
  BY <1>16 DEF ClearReportFlag
<1>17. CASE OpenLog(p)
  BY <1>17 DEF OpenLog
<1>18. CASE TouchTimestamp(p)
  BY <1>18 DEF TouchTimestamp
<1>19. CASE ClearFailures(p)
  BY <1>19 DEF ClearFailures
<1>20. CASE ReadFailures(p)
  BY <1>20 DEF ReadFailures
<1>21. CASE WriteFailures(p)
  BY <1>21 DEF WriteFailures
<1>22. CASE CloseLog(p)
  BY <1>22 DEF CloseLog, Exit
<1>23. CASE RaiseReportFlag(p)
  BY <1>23 DEF RaiseReportFlag
<1>24. CASE Invoke(p, what)
  BY <1>24 DEF Invoke, Unreferenced
<1>25. CASE TransferEnds(p, outcome)
  BY <1>25 DEF TransferEnds, Succeeds
<1>26. CASE Crash(p)
  BY <1>26 DEF Crash, Exit
<1>27. CASE LoseShell(p)
  BY <1>27 DEF LoseShell
<1>28. CASE OrphanEnds(p)
  BY <1>28 DEF OrphanEnds, Exit
<1> QED
  BY <1>1, <1>2, <1>3, <1>4, <1>5, <1>6, <1>7, <1>8, <1>9, <1>10, <1>11, <1>12, <1>13,
     <1>14, <1>15, <1>16, <1>17, <1>18, <1>19, <1>20, <1>21, <1>22, <1>23, <1>24, <1>25,
     <1>26, <1>27, <1>28 DEF OneOf, Step

\* A process that signals has read whom to signal, and does not signal itself.
LEMMA VictimKnownKept ==
  ASSUME IInv, NEW p \in Procs, NEW what \in Triggers, NEW outcome \in {"ok", "bad"},
         OneOf(p, what, outcome)
  PROVE  VictimKnown'
<1> USE OwnerIsNoProc
    DEF IInv, TypeOK, StepOfCaller, Locking, Syncing, ReferencedPastStart, VictimKnown,
        LockingSteps, TransferSteps, FinishSteps, Goto, Call, files, shell
<1>1. CASE LockExists(p)
  BY <1>1 DEF LockExists, WhenNotInProgress, KillDone, Exit
<1>2. CASE ReadOwner(p)
  BY <1>2 DEF ReadOwner
<1>3. CASE AskPs(p)
  BY <1>3 DEF AskPs, WhenInProgress, GoesOn, Live, WhenNotInProgress, KillDone, Exit
<1>4. CASE ComputeTimes(p)
  BY <1>4 DEF ComputeTimes, Exit
<1>5. CASE LockExpired(p)
  BY <1>5 DEF LockExpired
<1>6. CASE ReadVictim(p)
  BY <1>6 DEF ReadVictim, KillDone, Exit
<1>7. CASE Lockfile(p)
  BY <1>7 DEF Lockfile
<1>8. CASE LockfileGivesUp(p)
  BY <1>8 DEF LockfileGivesUp, Exit
<1>9. CASE Record(p)
  BY <1>9 DEF Record
<1>10. CASE RemoveOwner(p)
  BY <1>10 DEF RemoveOwner
<1>11. CASE RemoveLock(p)
  BY <1>11 DEF RemoveLock, Exit
<1>12. CASE FindRuins(p)
  BY <1>12 DEF FindRuins, Exit
<1>13. CASE RemoveDeadLog(p)
  BY <1>13 DEF RemoveDeadLog
<1>14. CASE SendSignal(p)
  BY <1>14 DEF SendSignal, Signalled
<1>15. CASE SetTraps(p)
  BY <1>15 DEF SetTraps
<1>16. CASE ClearReportFlag(p)
  BY <1>16 DEF ClearReportFlag
<1>17. CASE OpenLog(p)
  BY <1>17 DEF OpenLog
<1>18. CASE TouchTimestamp(p)
  BY <1>18 DEF TouchTimestamp
<1>19. CASE ClearFailures(p)
  BY <1>19 DEF ClearFailures
<1>20. CASE ReadFailures(p)
  BY <1>20 DEF ReadFailures
<1>21. CASE WriteFailures(p)
  BY <1>21 DEF WriteFailures
<1>22. CASE CloseLog(p)
  BY <1>22 DEF CloseLog, Exit
<1>23. CASE RaiseReportFlag(p)
  BY <1>23 DEF RaiseReportFlag
<1>24. CASE Invoke(p, what)
  BY <1>24 DEF Invoke, Unreferenced
<1>25. CASE TransferEnds(p, outcome)
  BY <1>25 DEF TransferEnds, Succeeds
<1>26. CASE Crash(p)
  BY <1>26 DEF Crash, Exit
<1>27. CASE LoseShell(p)
  BY <1>27 DEF LoseShell
<1>28. CASE OrphanEnds(p)
  BY <1>28 DEF OrphanEnds, Exit
<1> QED
  BY <1>1, <1>2, <1>3, <1>4, <1>5, <1>6, <1>7, <1>8, <1>9, <1>10, <1>11, <1>12, <1>13,
     <1>14, <1>15, <1>16, <1>17, <1>18, <1>19, <1>20, <1>21, <1>22, <1>23, <1>24, <1>25,
     <1>26, <1>27, <1>28 DEF OneOf, Step

\* lockfile creates no lock while another holds it.
LEMMA OneHolderKept ==
  ASSUME IInv, NEW p \in Procs, NEW what \in Triggers, NEW outcome \in {"ok", "bad"},
         OneOf(p, what, outcome), ~raced'
  PROVE  OneHolder'
<1> USE OwnerIsNoProc
    DEF IInv, TypeOK, StepOfCaller, Locking, Syncing, Holds, Whole, OneHolder,
        HolderKeepsLock, LockingSteps, TransferSteps, FinishSteps, Goto, Call, files, shell
<1>0. Whole
  BY ResidueOfRaced
<1>1. CASE LockExists(p)
  BY <1>0, <1>1 DEF LockExists, WhenNotInProgress, KillDone, Exit
<1>2. CASE ReadOwner(p)
  BY <1>0, <1>2 DEF ReadOwner
<1>3. CASE AskPs(p)
  BY <1>0, <1>3 DEF AskPs, WhenInProgress, GoesOn, Live, WhenNotInProgress, KillDone, Exit
<1>4. CASE ComputeTimes(p)
  BY <1>0, <1>4 DEF ComputeTimes, Exit
<1>5. CASE LockExpired(p)
  BY <1>0, <1>5 DEF LockExpired
<1>6. CASE ReadVictim(p)
  BY <1>0, <1>6 DEF ReadVictim, KillDone, Exit
<1>7. CASE Lockfile(p)
  BY <1>0, <1>7 DEF Lockfile
<1>8. CASE LockfileGivesUp(p)
  BY <1>0, <1>8 DEF LockfileGivesUp, Exit
<1>9. CASE Record(p)
  BY <1>0, <1>9 DEF Record
<1>10. CASE RemoveOwner(p)
  BY <1>0, <1>10 DEF RemoveOwner
<1>11. CASE RemoveLock(p)
  BY <1>0, <1>11 DEF RemoveLock, Exit
<1>12. CASE FindRuins(p)
  BY <1>0, <1>12 DEF FindRuins, Exit
<1>13. CASE RemoveDeadLog(p)
  BY <1>0, <1>13 DEF RemoveDeadLog
<1>14. CASE SendSignal(p)
  BY <1>0, <1>14 DEF SendSignal, Signalled
<1>15. CASE SetTraps(p)
  BY <1>0, <1>15 DEF SetTraps
<1>16. CASE ClearReportFlag(p)
  BY <1>0, <1>16 DEF ClearReportFlag
<1>17. CASE OpenLog(p)
  BY <1>0, <1>17 DEF OpenLog
<1>18. CASE TouchTimestamp(p)
  BY <1>0, <1>18 DEF TouchTimestamp
<1>19. CASE ClearFailures(p)
  BY <1>0, <1>19 DEF ClearFailures
<1>20. CASE ReadFailures(p)
  BY <1>0, <1>20 DEF ReadFailures
<1>21. CASE WriteFailures(p)
  BY <1>0, <1>21 DEF WriteFailures
<1>22. CASE CloseLog(p)
  BY <1>0, <1>22 DEF CloseLog, Exit
<1>23. CASE RaiseReportFlag(p)
  BY <1>0, <1>23 DEF RaiseReportFlag
<1>24. CASE Invoke(p, what)
  BY <1>0, <1>24 DEF Invoke, Unreferenced
<1>25. CASE TransferEnds(p, outcome)
  BY <1>0, <1>25 DEF TransferEnds, Succeeds
<1>26. CASE Crash(p)
  BY <1>0, <1>26 DEF Crash, Exit
<1>27. CASE LoseShell(p)
  BY <1>0, <1>27 DEF LoseShell
<1>28. CASE OrphanEnds(p)
  BY <1>0, <1>28 DEF OrphanEnds, Exit
<1> QED
  BY <1>1, <1>2, <1>3, <1>4, <1>5, <1>6, <1>7, <1>8, <1>9, <1>10, <1>11, <1>12, <1>13,
     <1>14, <1>15, <1>16, <1>17, <1>18, <1>19, <1>20, <1>21, <1>22, <1>23, <1>24, <1>25,
     <1>26, <1>27, <1>28 DEF OneOf, Step

\* Only the holder unlinks a lock that is held.
LEMMA HolderKeepsLockKept ==
  ASSUME IInv, NEW p \in Procs, NEW what \in Triggers, NEW outcome \in {"ok", "bad"},
         OneOf(p, what, outcome), ~raced'
  PROVE  HolderKeepsLock'
<1> USE OwnerIsNoProc
    DEF IInv, TypeOK, StepOfCaller, Locking, Syncing, Holds, Whole, OneHolder,
        HolderKeepsLock, OnlyHolderCleans, LockingSteps, TransferSteps, FinishSteps, Goto,
        Call, files, shell
<1>0. Whole
  BY ResidueOfRaced
<1>1. CASE LockExists(p)
  BY <1>0, <1>1 DEF LockExists, WhenNotInProgress, KillDone, Exit
<1>2. CASE ReadOwner(p)
  BY <1>0, <1>2 DEF ReadOwner
<1>3. CASE AskPs(p)
  BY <1>0, <1>3 DEF AskPs, WhenInProgress, GoesOn, Live, WhenNotInProgress, KillDone, Exit
<1>4. CASE ComputeTimes(p)
  BY <1>0, <1>4 DEF ComputeTimes, Exit
<1>5. CASE LockExpired(p)
  BY <1>0, <1>5 DEF LockExpired
<1>6. CASE ReadVictim(p)
  BY <1>0, <1>6 DEF ReadVictim, KillDone, Exit
<1>7. CASE Lockfile(p)
  BY <1>0, <1>7 DEF Lockfile
<1>8. CASE LockfileGivesUp(p)
  BY <1>0, <1>8 DEF LockfileGivesUp, Exit
<1>9. CASE Record(p)
  BY <1>0, <1>9 DEF Record
<1>10. CASE RemoveOwner(p)
  BY <1>0, <1>10 DEF RemoveOwner
<1>11. CASE RemoveLock(p)
  BY <1>0, <1>11 DEF RemoveLock, Exit
<1>12. CASE FindRuins(p)
  BY <1>0, <1>12 DEF FindRuins, Exit
<1>13. CASE RemoveDeadLog(p)
  BY <1>0, <1>13 DEF RemoveDeadLog
<1>14. CASE SendSignal(p)
  BY <1>0, <1>14 DEF SendSignal, Signalled
<1>15. CASE SetTraps(p)
  BY <1>0, <1>15 DEF SetTraps
<1>16. CASE ClearReportFlag(p)
  BY <1>0, <1>16 DEF ClearReportFlag
<1>17. CASE OpenLog(p)
  BY <1>0, <1>17 DEF OpenLog
<1>18. CASE TouchTimestamp(p)
  BY <1>0, <1>18 DEF TouchTimestamp
<1>19. CASE ClearFailures(p)
  BY <1>0, <1>19 DEF ClearFailures
<1>20. CASE ReadFailures(p)
  BY <1>0, <1>20 DEF ReadFailures
<1>21. CASE WriteFailures(p)
  BY <1>0, <1>21 DEF WriteFailures
<1>22. CASE CloseLog(p)
  BY <1>0, <1>22 DEF CloseLog, Exit
<1>23. CASE RaiseReportFlag(p)
  BY <1>0, <1>23 DEF RaiseReportFlag
<1>24. CASE Invoke(p, what)
  BY <1>0, <1>24 DEF Invoke, Unreferenced
<1>25. CASE TransferEnds(p, outcome)
  BY <1>0, <1>25 DEF TransferEnds, Succeeds
<1>26. CASE Crash(p)
  BY <1>0, <1>26 DEF Crash, Exit
<1>27. CASE LoseShell(p)
  BY <1>0, <1>27 DEF LoseShell
<1>28. CASE OrphanEnds(p)
  BY <1>0, <1>28 DEF OrphanEnds, Exit
<1> QED
  BY <1>1, <1>2, <1>3, <1>4, <1>5, <1>6, <1>7, <1>8, <1>9, <1>10, <1>11, <1>12, <1>13,
     <1>14, <1>15, <1>16, <1>17, <1>18, <1>19, <1>20, <1>21, <1>22, <1>23, <1>24, <1>25,
     <1>26, <1>27, <1>28 DEF OneOf, Step

\* Nobody comes to clean between the creation of the lock and its record: the look that
\* would lead there is the one that races.
LEMMA CreatorUndisturbedKept ==
  ASSUME IInv, NEW p \in Procs, NEW what \in Triggers, NEW outcome \in {"ok", "bad"},
         OneOf(p, what, outcome), ~raced'
  PROVE  CreatorUndisturbed'
<1> USE OwnerIsNoProc
    DEF IInv, TypeOK, StepOfCaller, Locking, Syncing, Holds, AboutToClean, LooksToClean,
        HalfLocked, Whole, OneHolder, HolderKeepsLock, CreatorUndisturbed, LockingSteps,
        TransferSteps, FinishSteps, Goto, Call, files, shell
<1>0. Whole
  BY ResidueOfRaced
<1>1. CASE LockExists(p)
  BY <1>0, <1>1 DEF LockExists, WhenNotInProgress, KillDone, Exit
<1>2. CASE ReadOwner(p)
  BY <1>0, <1>2 DEF ReadOwner
<1>3. CASE AskPs(p)
  BY <1>0, <1>3 DEF AskPs, WhenInProgress, GoesOn, Live, WhenNotInProgress, KillDone, Exit
<1>4. CASE ComputeTimes(p)
  BY <1>0, <1>4 DEF ComputeTimes, Exit
<1>5. CASE LockExpired(p)
  BY <1>0, <1>5 DEF LockExpired
<1>6. CASE ReadVictim(p)
  BY <1>0, <1>6 DEF ReadVictim, KillDone, Exit
<1>7. CASE Lockfile(p)
  BY <1>0, <1>7 DEF Lockfile
<1>8. CASE LockfileGivesUp(p)
  BY <1>0, <1>8 DEF LockfileGivesUp, Exit
<1>9. CASE Record(p)
  BY <1>0, <1>9 DEF Record
<1>10. CASE RemoveOwner(p)
  BY <1>0, <1>10 DEF RemoveOwner
<1>11. CASE RemoveLock(p)
  BY <1>0, <1>11 DEF RemoveLock, Exit
<1>12. CASE FindRuins(p)
  BY <1>0, <1>12 DEF FindRuins, Exit
<1>13. CASE RemoveDeadLog(p)
  BY <1>0, <1>13 DEF RemoveDeadLog
<1>14. CASE SendSignal(p)
  BY <1>0, <1>14 DEF SendSignal, Signalled
<1>15. CASE SetTraps(p)
  BY <1>0, <1>15 DEF SetTraps
<1>16. CASE ClearReportFlag(p)
  BY <1>0, <1>16 DEF ClearReportFlag
<1>17. CASE OpenLog(p)
  BY <1>0, <1>17 DEF OpenLog
<1>18. CASE TouchTimestamp(p)
  BY <1>0, <1>18 DEF TouchTimestamp
<1>19. CASE ClearFailures(p)
  BY <1>0, <1>19 DEF ClearFailures
<1>20. CASE ReadFailures(p)
  BY <1>0, <1>20 DEF ReadFailures
<1>21. CASE WriteFailures(p)
  BY <1>0, <1>21 DEF WriteFailures
<1>22. CASE CloseLog(p)
  BY <1>0, <1>22 DEF CloseLog, Exit
<1>23. CASE RaiseReportFlag(p)
  BY <1>0, <1>23 DEF RaiseReportFlag
<1>24. CASE Invoke(p, what)
  BY <1>0, <1>24 DEF Invoke, Unreferenced
<1>25. CASE TransferEnds(p, outcome)
  BY <1>0, <1>25 DEF TransferEnds, Succeeds
<1>26. CASE Crash(p)
  BY <1>0, <1>26 DEF Crash, Exit
<1>27. CASE LoseShell(p)
  BY <1>0, <1>27 DEF LoseShell
<1>28. CASE OrphanEnds(p)
  BY <1>0, <1>28 DEF OrphanEnds, Exit
<1> QED
  BY <1>1, <1>2, <1>3, <1>4, <1>5, <1>6, <1>7, <1>8, <1>9, <1>10, <1>11, <1>12, <1>13,
     <1>14, <1>15, <1>16, <1>17, <1>18, <1>19, <1>20, <1>21, <1>22, <1>23, <1>24, <1>25,
     <1>26, <1>27, <1>28 DEF OneOf, Step

\* sync_in_progress sees the holder, so only a process without one goes on to clean.
LEMMA OnlyHolderCleansKept ==
  ASSUME IInv, NEW p \in Procs, NEW what \in Triggers, NEW outcome \in {"ok", "bad"},
         OneOf(p, what, outcome), ~raced'
  PROVE  OnlyHolderCleans'
<1> USE OwnerIsNoProc
    DEF IInv, TypeOK, StepOfCaller, Locking, Syncing, Holds, AboutToClean, LooksToClean,
        HalfLocked, Whole, OneHolder, HolderKeepsLock, CreatorUndisturbed, OnlyHolderCleans,
        SeesHolder, LockingSteps, TransferSteps, FinishSteps, Goto, Call, files, shell
<1>0. Whole
  BY ResidueOfRaced
<1>1. CASE LockExists(p)
  BY <1>0, <1>1 DEF LockExists, WhenNotInProgress, KillDone, Exit
<1>2. CASE ReadOwner(p)
  BY <1>0, <1>2 DEF ReadOwner
<1>3. CASE AskPs(p)
  BY <1>0, <1>3 DEF AskPs, WhenInProgress, GoesOn, Live, WhenNotInProgress, KillDone, Exit
<1>4. CASE ComputeTimes(p)
  BY <1>0, <1>4 DEF ComputeTimes, Exit
<1>5. CASE LockExpired(p)
  BY <1>0, <1>5 DEF LockExpired
<1>6. CASE ReadVictim(p)
  BY <1>0, <1>6 DEF ReadVictim, KillDone, Exit
<1>7. CASE Lockfile(p)
  BY <1>0, <1>7 DEF Lockfile
<1>8. CASE LockfileGivesUp(p)
  BY <1>0, <1>8 DEF LockfileGivesUp, Exit
<1>9. CASE Record(p)
  BY <1>0, <1>9 DEF Record
<1>10. CASE RemoveOwner(p)
  BY <1>0, <1>10 DEF RemoveOwner
<1>11. CASE RemoveLock(p)
  BY <1>0, <1>11 DEF RemoveLock, Exit
<1>12. CASE FindRuins(p)
  BY <1>0, <1>12 DEF FindRuins, Exit
<1>13. CASE RemoveDeadLog(p)
  BY <1>0, <1>13 DEF RemoveDeadLog
<1>14. CASE SendSignal(p)
  BY <1>0, <1>14 DEF SendSignal, Signalled
<1>15. CASE SetTraps(p)
  BY <1>0, <1>15 DEF SetTraps
<1>16. CASE ClearReportFlag(p)
  BY <1>0, <1>16 DEF ClearReportFlag
<1>17. CASE OpenLog(p)
  BY <1>0, <1>17 DEF OpenLog
<1>18. CASE TouchTimestamp(p)
  BY <1>0, <1>18 DEF TouchTimestamp
<1>19. CASE ClearFailures(p)
  BY <1>0, <1>19 DEF ClearFailures
<1>20. CASE ReadFailures(p)
  BY <1>0, <1>20 DEF ReadFailures
<1>21. CASE WriteFailures(p)
  BY <1>0, <1>21 DEF WriteFailures
<1>22. CASE CloseLog(p)
  BY <1>0, <1>22 DEF CloseLog, Exit
<1>23. CASE RaiseReportFlag(p)
  BY <1>0, <1>23 DEF RaiseReportFlag
<1>24. CASE Invoke(p, what)
  BY <1>0, <1>24 DEF Invoke, Unreferenced
<1>25. CASE TransferEnds(p, outcome)
  BY <1>0, <1>25 DEF TransferEnds, Succeeds
<1>26. CASE Crash(p)
  BY <1>0, <1>26 DEF Crash, Exit
<1>27. CASE LoseShell(p)
  BY <1>0, <1>27 DEF LoseShell
<1>28. CASE OrphanEnds(p)
  BY <1>0, <1>28 DEF OrphanEnds, Exit
<1> QED
  BY <1>1, <1>2, <1>3, <1>4, <1>5, <1>6, <1>7, <1>8, <1>9, <1>10, <1>11, <1>12, <1>13,
     <1>14, <1>15, <1>16, <1>17, <1>18, <1>19, <1>20, <1>21, <1>22, <1>23, <1>24, <1>25,
     <1>26, <1>27, <1>28 DEF OneOf, Step

\* The owner that sync_in_progress has read is still the holder when ps is asked, if any
\* is.
LEMMA SeesHolderKept ==
  ASSUME IInv, NEW p \in Procs, NEW what \in Triggers, NEW outcome \in {"ok", "bad"},
         OneOf(p, what, outcome), ~raced'
  PROVE  SeesHolder'
<1> USE OwnerIsNoProc
    DEF IInv, TypeOK, StepOfCaller, Locking, Syncing, ReferencedPastStart, Holds,
        AboutToClean, LooksToClean, HalfLocked, Whole, OneHolder, HolderKeepsLock,
        CreatorUndisturbed, SeesHolder, LockingSteps, TransferSteps, FinishSteps, Goto,
        Call, files, shell
<1>0. Whole
  BY ResidueOfRaced
<1>1. CASE LockExists(p)
  BY <1>0, <1>1 DEF LockExists, WhenNotInProgress, KillDone, Exit
<1>2. CASE ReadOwner(p)
  BY <1>0, <1>2 DEF ReadOwner
<1>3. CASE AskPs(p)
  BY <1>0, <1>3 DEF AskPs, WhenInProgress, GoesOn, Live, WhenNotInProgress, KillDone, Exit
<1>4. CASE ComputeTimes(p)
  BY <1>0, <1>4 DEF ComputeTimes, Exit
<1>5. CASE LockExpired(p)
  BY <1>0, <1>5 DEF LockExpired
<1>6. CASE ReadVictim(p)
  BY <1>0, <1>6 DEF ReadVictim, KillDone, Exit
<1>7. CASE Lockfile(p)
  <2>1. \A q \in Procs : ~AboutToClean(q)
    BY <1>7 DEF Lockfile
  <2>2. pc' = [pc EXCEPT ![p] = "record"] /\ UNCHANGED <<op, trigger, seen, victim>>
    BY <1>7 DEF Lockfile
  <2>3. \A q \in Procs : ~Holds(q)
    BY <1>0, <1>7 DEF Lockfile
  <2>4. \A q \in Procs : victim[q] # p
    BY <1>7 DEF Lockfile
  <2>5. \A q \in Procs : Holds(q)' => q = p
    BY <2>2, <2>3
  <2>6. \A q \in Procs : pc'[q] = "ps" => pc[q] = "ps" /\ op'[q] = op[q]
    BY <2>2
  <2> HIDE <1>7 DEF Holds
  <2> QED
    BY <2>1, <2>2, <2>4, <2>5, <2>6
<1>8. CASE LockfileGivesUp(p)
  BY <1>0, <1>8 DEF LockfileGivesUp, Exit
<1>9. CASE Record(p)
  BY <1>0, <1>9 DEF Record
<1>10. CASE RemoveOwner(p)
  BY <1>0, <1>10 DEF RemoveOwner
<1>11. CASE RemoveLock(p)
  BY <1>0, <1>11 DEF RemoveLock, Exit
<1>12. CASE FindRuins(p)
  BY <1>0, <1>12 DEF FindRuins, Exit
<1>13. CASE RemoveDeadLog(p)
  BY <1>0, <1>13 DEF RemoveDeadLog
<1>14. CASE SendSignal(p)
  BY <1>0, <1>14 DEF SendSignal, Signalled
<1>15. CASE SetTraps(p)
  BY <1>0, <1>15 DEF SetTraps
<1>16. CASE ClearReportFlag(p)
  BY <1>0, <1>16 DEF ClearReportFlag
<1>17. CASE OpenLog(p)
  BY <1>0, <1>17 DEF OpenLog
<1>18. CASE TouchTimestamp(p)
  BY <1>0, <1>18 DEF TouchTimestamp
<1>19. CASE ClearFailures(p)
  BY <1>0, <1>19 DEF ClearFailures
<1>20. CASE ReadFailures(p)
  BY <1>0, <1>20 DEF ReadFailures
<1>21. CASE WriteFailures(p)
  BY <1>0, <1>21 DEF WriteFailures
<1>22. CASE CloseLog(p)
  BY <1>0, <1>22 DEF CloseLog, Exit
<1>23. CASE RaiseReportFlag(p)
  BY <1>0, <1>23 DEF RaiseReportFlag
<1>24. CASE Invoke(p, what)
  BY <1>0, <1>24 DEF Invoke, Unreferenced
<1>25. CASE TransferEnds(p, outcome)
  BY <1>0, <1>25 DEF TransferEnds, Succeeds
<1>26. CASE Crash(p)
  BY <1>0, <1>26 DEF Crash, Exit
<1>27. CASE LoseShell(p)
  BY <1>0, <1>27 DEF LoseShell
<1>28. CASE OrphanEnds(p)
  BY <1>0, <1>28 DEF OrphanEnds, Exit
<1> QED
  BY <1>1, <1>2, <1>3, <1>4, <1>5, <1>6, <1>7, <1>8, <1>9, <1>10, <1>11, <1>12, <1>13,
     <1>14, <1>15, <1>16, <1>17, <1>18, <1>19, <1>20, <1>21, <1>22, <1>23, <1>24, <1>25,
     <1>26, <1>27, <1>28 DEF OneOf, Step

\* Only the one sync writes the log link, and a stop that cleans up when there is none.
LEMMA LogInvKept ==
  ASSUME IInv, NEW p \in Procs, NEW what \in Triggers, NEW outcome \in {"ok", "bad"},
         OneOf(p, what, outcome), ~raced'
  PROVE  LogInv'
<1> USE OwnerIsNoProc
    DEF IInv, TypeOK, StepOfCaller, Locking, Syncing, Holds, Whole, OneHolder,
        OnlyHolderCleans, LogInv, LockingSteps, TransferSteps, FinishSteps, Goto, Call,
        files, shell
<1>0. Whole
  BY ResidueOfRaced
<1>1. CASE LockExists(p)
  BY <1>0, <1>1 DEF LockExists, WhenNotInProgress, KillDone, Exit
<1>2. CASE ReadOwner(p)
  BY <1>0, <1>2 DEF ReadOwner
<1>3. CASE AskPs(p)
  BY <1>0, <1>3 DEF AskPs, WhenInProgress, GoesOn, Live, WhenNotInProgress, KillDone, Exit
<1>4. CASE ComputeTimes(p)
  BY <1>0, <1>4 DEF ComputeTimes, Exit
<1>5. CASE LockExpired(p)
  BY <1>0, <1>5 DEF LockExpired
<1>6. CASE ReadVictim(p)
  BY <1>0, <1>6 DEF ReadVictim, KillDone, Exit
<1>7. CASE Lockfile(p)
  BY <1>0, <1>7 DEF Lockfile
<1>8. CASE LockfileGivesUp(p)
  BY <1>0, <1>8 DEF LockfileGivesUp, Exit
<1>9. CASE Record(p)
  BY <1>0, <1>9 DEF Record
<1>10. CASE RemoveOwner(p)
  BY <1>0, <1>10 DEF RemoveOwner
<1>11. CASE RemoveLock(p)
  BY <1>0, <1>11 DEF RemoveLock, Exit
<1>12. CASE FindRuins(p)
  BY <1>0, <1>12 DEF FindRuins, Exit
<1>13. CASE RemoveDeadLog(p)
  BY <1>0, <1>13 DEF RemoveDeadLog
<1>14. CASE SendSignal(p)
  BY <1>0, <1>14 DEF SendSignal, Signalled
<1>15. CASE SetTraps(p)
  BY <1>0, <1>15 DEF SetTraps
<1>16. CASE ClearReportFlag(p)
  BY <1>0, <1>16 DEF ClearReportFlag
<1>17. CASE OpenLog(p)
  BY <1>0, <1>17 DEF OpenLog
<1>18. CASE TouchTimestamp(p)
  BY <1>0, <1>18 DEF TouchTimestamp
<1>19. CASE ClearFailures(p)
  BY <1>0, <1>19 DEF ClearFailures
<1>20. CASE ReadFailures(p)
  BY <1>0, <1>20 DEF ReadFailures
<1>21. CASE WriteFailures(p)
  BY <1>0, <1>21 DEF WriteFailures
<1>22. CASE CloseLog(p)
  BY <1>0, <1>22 DEF CloseLog, Exit
<1>23. CASE RaiseReportFlag(p)
  BY <1>0, <1>23 DEF RaiseReportFlag
<1>24. CASE Invoke(p, what)
  BY <1>0, <1>24 DEF Invoke, Unreferenced
<1>25. CASE TransferEnds(p, outcome)
  BY <1>0, <1>25 DEF TransferEnds, Succeeds
<1>26. CASE Crash(p)
  BY <1>0, <1>26 DEF Crash, Exit
<1>27. CASE LoseShell(p)
  BY <1>0, <1>27 DEF LoseShell
<1>28. CASE OrphanEnds(p)
  BY <1>0, <1>28 DEF OrphanEnds, Exit
<1> QED
  BY <1>1, <1>2, <1>3, <1>4, <1>5, <1>6, <1>7, <1>8, <1>9, <1>10, <1>11, <1>12, <1>13,
     <1>14, <1>15, <1>16, <1>17, <1>18, <1>19, <1>20, <1>21, <1>22, <1>23, <1>24, <1>25,
     <1>26, <1>27, <1>28 DEF OneOf, Step

\* The one sync alone writes the failure count and the report flag.
LEMMA BookkeepingKept ==
  ASSUME IInv, NEW p \in Procs, NEW what \in Triggers, NEW outcome \in {"ok", "bad"},
         OneOf(p, what, outcome), ~raced'
  PROVE  Bookkeeping'
<1> USE OwnerIsNoProc
    DEF IInv, TypeOK, StepOfCaller, Locking, Syncing, Holds, Whole, OneHolder, Bookkeeping,
        LockingSteps, TransferSteps, FinishSteps, Goto, Call, files, shell
<1>0. Whole
  BY ResidueOfRaced
<1>1. CASE LockExists(p)
  BY <1>0, <1>1 DEF LockExists, WhenNotInProgress, KillDone, Exit
<1>2. CASE ReadOwner(p)
  BY <1>0, <1>2 DEF ReadOwner
<1>3. CASE AskPs(p)
  BY <1>0, <1>3 DEF AskPs, WhenInProgress, GoesOn, Live, WhenNotInProgress, KillDone, Exit
<1>4. CASE ComputeTimes(p)
  BY <1>0, <1>4 DEF ComputeTimes, Exit
<1>5. CASE LockExpired(p)
  BY <1>0, <1>5 DEF LockExpired
<1>6. CASE ReadVictim(p)
  BY <1>0, <1>6 DEF ReadVictim, KillDone, Exit
<1>7. CASE Lockfile(p)
  BY <1>0, <1>7 DEF Lockfile
<1>8. CASE LockfileGivesUp(p)
  BY <1>0, <1>8 DEF LockfileGivesUp, Exit
<1>9. CASE Record(p)
  BY <1>0, <1>9 DEF Record
<1>10. CASE RemoveOwner(p)
  BY <1>0, <1>10 DEF RemoveOwner
<1>11. CASE RemoveLock(p)
  BY <1>0, <1>11 DEF RemoveLock, Exit
<1>12. CASE FindRuins(p)
  BY <1>0, <1>12 DEF FindRuins, Exit
<1>13. CASE RemoveDeadLog(p)
  BY <1>0, <1>13 DEF RemoveDeadLog
<1>14. CASE SendSignal(p)
  BY <1>0, <1>14 DEF SendSignal, Signalled
<1>15. CASE SetTraps(p)
  BY <1>0, <1>15 DEF SetTraps
<1>16. CASE ClearReportFlag(p)
  BY <1>0, <1>16 DEF ClearReportFlag
<1>17. CASE OpenLog(p)
  BY <1>0, <1>17 DEF OpenLog
<1>18. CASE TouchTimestamp(p)
  BY <1>0, <1>18 DEF TouchTimestamp
<1>19. CASE ClearFailures(p)
  BY <1>0, <1>19 DEF ClearFailures
<1>20. CASE ReadFailures(p)
  BY <1>0, <1>20 DEF ReadFailures
<1>21. CASE WriteFailures(p)
  <2>1. failed' > 0
    BY <1>21, PkgSyncAssumption DEF WriteFailures
  <2>2. \A q \in Procs : Syncing(q) => q = p
    BY <1>0, <1>21 DEF WriteFailures
  <2>3. pc' = [pc EXCEPT ![p] = "closebad"] /\ UNCHANGED <<count, needsReport>>
    BY <1>21 DEF WriteFailures
  <2>4. \A q \in Procs : q # p => pc'[q] = pc[q] /\ ~Syncing(q)
    BY <2>2, <2>3
  <2>5. pc'[p] = "closebad"
    BY <2>3
  <2> HIDE <1>21
  <2> QED
    BY <2>1, <2>4, <2>5
<1>22. CASE CloseLog(p)
  BY <1>0, <1>22 DEF CloseLog, Exit
<1>23. CASE RaiseReportFlag(p)
  BY <1>0, <1>23 DEF RaiseReportFlag
<1>24. CASE Invoke(p, what)
  BY <1>0, <1>24 DEF Invoke, Unreferenced
<1>25. CASE TransferEnds(p, outcome)
  BY <1>0, <1>25 DEF TransferEnds, Succeeds
<1>26. CASE Crash(p)
  BY <1>0, <1>26 DEF Crash, Exit
<1>27. CASE LoseShell(p)
  BY <1>0, <1>27 DEF LoseShell
<1>28. CASE OrphanEnds(p)
  BY <1>0, <1>28 DEF OrphanEnds, Exit
<1> QED
  BY <1>1, <1>2, <1>3, <1>4, <1>5, <1>6, <1>7, <1>8, <1>9, <1>10, <1>11, <1>12, <1>13,
     <1>14, <1>15, <1>16, <1>17, <1>18, <1>19, <1>20, <1>21, <1>22, <1>23, <1>24, <1>25,
     <1>26, <1>27, <1>28 DEF OneOf, Step

\* Nothing that happens around the processes touches the lock or the log.
LEMMA WorldKeepsIInv ==
  ASSUME IInv, World
  PROVE  IInv'
<1>1. TypeOK' /\ StepOfCaller'
  BY NextKeepsTypeOK DEF IInv, Next, World
<1>2. /\ UNCHANGED <<lock, owner, log, failed, needsReport>>
      /\ UNCHANGED <<pc, op, trigger, shell, crashes, raced>>
  BY DEF World, AgeTimestamp, AgeLock, Suspend, Resume
<1> QED
  BY <1>1, <1>2 DEF IInv, ReferencedPastStart, VictimKnown, Whole, OneHolder, HolderKeepsLock,
     CreatorUndisturbed, OnlyHolderCleans, SeesHolder, LogInv, Bookkeeping, Holds, Syncing,
     AboutToClean, LooksToClean, shell

\* Nothing runs at first.
LEMMA InitIInv == Init => IInv
<1> SUFFICES ASSUME Init PROVE IInv
  OBVIOUS
<1>1. \A p \in Procs : pc[p] = "off" /\ ~Syncing(p) /\ ~Holds(p) /\ op[p] = "guard"
  BY DEF Init, Syncing, Holds, TransferSteps, FinishSteps
<1>2. ReferencedPastStart /\ VictimKnown
  BY <1>1 DEF ReferencedPastStart, VictimKnown
<1>3. Whole
  BY <1>1 DEF Init, Whole, OneHolder, HolderKeepsLock, CreatorUndisturbed, OnlyHolderCleans,
              SeesHolder, LogInv, Bookkeeping
<1> QED
  BY InitTypeOK, <1>2, <1>3 DEF IInv

\* IInv is inductive.
LEMMA NextKeepsIInv == IInv /\ [Next]_vars => IInv'
<1> SUFFICES ASSUME IInv, [Next]_vars PROVE IInv'
  OBVIOUS
<1>1. CASE UNCHANGED vars
  BY <1>1 DEF vars, files, shell, IInv, TypeOK, StepOfCaller, ReferencedPastStart,
     VictimKnown, Whole, OneHolder, HolderKeepsLock, CreatorUndisturbed, OnlyHolderCleans,
     SeesHolder, LogInv, Bookkeeping, Holds, Syncing, Locking, AboutToClean, LooksToClean
<1>2. CASE World
  BY <1>2, WorldKeepsIInv
<1>3. ASSUME NEW p \in Procs, NEW what \in Triggers, NEW outcome \in {"ok", "bad"},
             OneOf(p, what, outcome)
      PROVE  IInv'
  <2>1. Next
    BY <1>3 DEF OneOf, Next
  <2>2. TypeOK' /\ StepOfCaller'
    BY <2>1, NextKeepsTypeOK DEF IInv
  <2>3. ReferencedPastStart' /\ VictimKnown'
    BY <1>3, ReferencesKept, VictimKnownKept
  <2>4. ASSUME ~raced' PROVE Whole'
    BY <1>3, <2>4, OneHolderKept, HolderKeepsLockKept, CreatorUndisturbedKept,
       OnlyHolderCleansKept, SeesHolderKept, LogInvKept, BookkeepingKept DEF Whole
  <2> QED
    BY <2>2, <2>3, <2>4 DEF IInv
<1>4. \E t \in Triggers : TRUE
  BY DEF Triggers
<1> QED
  BY <1>1, <1>2, <1>3, <1>4 DEF Next, OneOf, World

---------------------------------------------------------------------------
(* The theorems *)

\* The inductive invariant, for every set of pids, every interleaving and any number of
\* crashes: what the theorems below are read off from.
THEOREM PkgSyncInvariant == Spec => []IInv
  BY InitIInv, NextKeepsIInv, PTL DEF Spec

\* A package is never synchronized twice at once unless invocations have raced, whatever
\* is stopped, killed, orphaned or expired.
THEOREM PkgSyncOneSyncUnlessRaced == Spec => []OneSyncUnlessRaced
<1>1. IInv => OneSyncUnlessRaced
  BY DEF IInv, Whole, OneHolder, Holds, OneSyncUnlessRaced, OneSyncAtATime
<1> QED
  BY <1>1, PkgSyncInvariant, PTL

\* Unless invocations have raced, no `stop' and no start takes the lock files of a live
\* sync for ruins.
THEOREM PkgSyncSyncKeepsLock == Spec => []SyncKeepsLock
<1>1. IInv => SyncKeepsLock
  BY DEF IInv, Whole, HolderKeepsLock, Holds, Syncing, TransferSteps, FinishSteps, SyncKeepsLock
<1> QED
  BY <1>1, PkgSyncInvariant, PTL

\* Unless invocations have raced, the log of a running sync stays where stop-dead-syncs
\* and check-anomalies look.
THEOREM PkgSyncRunKeepsLog == Spec => []RunKeepsLog
<1>1. IInv => RunKeepsLog
  BY DEF IInv, Whole, LogInv, RunKeepsLog
<1> QED
  BY <1>1, PkgSyncInvariant, PTL

\* Unless invocations have raced, the report flag never outlives the failures it reports.
THEOREM PkgSyncReportHasFailures == Spec => []ReportHasFailures
<1>1. IInv => ReportHasFailures
  BY DEF IInv, Whole, Bookkeeping, ReportHasFailures
<1> QED
  BY <1>1, PkgSyncInvariant, PTL

\* Unless invocations have raced, no failure is lost from the count: each one written
\* makes it one more than it then is.
THEOREM PkgSyncFailuresCounted == Spec => FailuresCounted
<1> DEFINE More == IF failed < MaxFailures THEN failed + 1 ELSE MaxFailures
           A == raced \/ IF \E p \in Procs : Counts(p) THEN failed' = More
                                                      ELSE failed' \in {failed, 0}
<1>1. IInv /\ [Next]_vars => [A]_vars
  <2> SUFFICES ASSUME IInv, Next, ~raced PROVE A
    OBVIOUS
  <2>1. ASSUME NEW p \in Procs, WriteFailures(p) PROVE A
    <3>1. count[p] = failed /\ Counts(p)
      BY <2>1 DEF WriteFailures, Goto, Counts, IInv, TypeOK, Whole, Bookkeeping
    <3>2. failed' = More
      BY <2>1, <3>1 DEF WriteFailures
    <3> QED
      BY <3>1, <3>2
  <2> DEFINE Quiet == (\A p \in Procs : ~Counts(p)) /\ failed' \in {failed, 0}
  <2>2. ASSUME NEW p \in Procs, Step(p), ~WriteFailures(p) PROVE Quiet
    <3>1. failed' \in {failed, 0}
      BY <2>2 DEF Step, LockExists, ReadOwner, AskPs, ComputeTimes, LockExpired, ReadVictim,
                  Lockfile, LockfileGivesUp, Record, RemoveOwner, RemoveLock, FindRuins,
                  RemoveDeadLog, SendSignal, SetTraps, ClearReportFlag, OpenLog,
                  TouchTimestamp, ClearFailures, ReadFailures, CloseLog, RaiseReportFlag, files
    <3>2. CASE SendSignal(p)
      <4>1. \A q \in Procs : pc'[q] = pc[q] \/ pc'[q] \in {"off", "count", "exists"}
        BY <3>2 DEF SendSignal, Signalled, IInv, TypeOK
      <4> QED
        BY <3>1, <4>1 DEF Counts
    <3>3. CASE ~SendSignal(p)
      <4>1. /\ \A q \in Procs : q # p => pc'[q] = pc[q]
            /\ pc[p] # "bump"
        BY <2>2, <3>3 DEF Step, IInv, TypeOK, Goto, Call, Exit, LockExists, ReadOwner, AskPs,
               WhenInProgress, WhenNotInProgress, GoesOn, KillDone, ComputeTimes, LockExpired,
               ReadVictim, Lockfile, LockfileGivesUp, Record, RemoveOwner, RemoveLock,
               FindRuins, RemoveDeadLog, SetTraps, ClearReportFlag, OpenLog, TouchTimestamp,
               ClearFailures, ReadFailures, CloseLog, RaiseReportFlag
      <4> QED
        BY <3>1, <4>1 DEF Counts
    <3> QED
      BY <3>2, <3>3
  <2>3. ASSUME NEW p \in Procs, NEW what \in Triggers, NEW outcome \in {"ok", "bad"},
               \/ Invoke(p, what) \/ TransferEnds(p, outcome)
               \/ Crash(p) \/ LoseShell(p) \/ OrphanEnds(p)
        PROVE  Quiet
    <3>1. UNCHANGED failed
      BY <2>3 DEF Invoke, TransferEnds, Crash, LoseShell, OrphanEnds, files
    <3>2. \A q \in Procs : pc'[q] # "closebad" \/ pc'[q] = pc[q]
      BY <2>3 DEF Invoke, TransferEnds, Succeeds, Crash, LoseShell, OrphanEnds, Goto, Call,
                  Exit, IInv, TypeOK
    <3> QED
      BY <3>1, <3>2 DEF Counts
  <2>4. CASE World
    BY <2>4 DEF World, AgeTimestamp, AgeLock, Suspend, Resume, Counts
  <2>5. Quiet => A
    OBVIOUS
  <2> HIDE DEF A, Quiet
  <2> QED
    BY <2>1, <2>2, <2>3, <2>4, <2>5 DEF Next, World, Triggers
<1> QED
  BY <1>1, PkgSyncInvariant, PTL DEF Spec, FailuresCounted

\* When kill_lock_owner returns to `stop', the sync whose owner it read is over, whoever
\* starts meanwhile; unless raced no sync was there when it read no owner.
THEOREM PkgSyncStopStops == Spec => StopStops
<1> DEFINE A == raced \/ \A p, q \in Procs :
                           KillReturns(p) /\ victim[p] \in {q, NoOwner} => ~Syncing(q)
<1>1. IInv /\ [Next]_vars => [A]_vars
  <2> SUFFICES ASSUME IInv, Next, ~raced, NEW p \in Procs, KillReturns(p),
                      NEW q \in Procs, victim[p] \in {q, NoOwner}, Syncing(q)
               PROVE  FALSE
    BY DEF KillReturns, vars
  <2> USE DEF KillReturns
  <2>1. \/ pc[p] = "victim"
        \/ /\ pc[p] \in {"exists", "owner", "ps", "signal"}
           /\ op[p] = "wait" /\ victim[p] = q
    BY DEF IInv, TypeOK, StepOfCaller, VictimKnown, Locking, Syncing, LockingSteps,
           TransferSteps, FinishSteps, Steps
  <2>2. lock /\ owner = q /\ (pc[p] = "ps" /\ op[p] = "wait" => Live(seen[p]))
    BY <2>1, OwnerIsNoProc
       DEF IInv, Whole, OneHolder, HolderKeepsLock, SeesHolder, Holds, Syncing, TransferSteps,
           FinishSteps, Live
  <2>3. \A r \in Procs : victim[r] # p
    BY <2>1 DEF IInv, ReferencedPastStart, StepOfCaller, Syncing, TransferSteps, FinishSteps
  <2>4. ~LockExists(p) /\ ~ReadOwner(p) /\ ~AskPs(p) /\ ~ReadVictim(p) /\ ~SendSignal(p)
    <3>1. ~LockExists(p) /\ ~ReadOwner(p) /\ ~SendSignal(p)
      BY <2>1, <2>2 DEF LockExists, ReadOwner, SendSignal, IInv, TypeOK, Goto
    <3>2. ~AskPs(p)
      BY <2>1, <2>2 DEF AskPs, WhenInProgress, GoesOn, IInv, TypeOK, Goto
    <3>3. ~ReadVictim(p)
      BY <2>2, OwnerIsNoProc DEF ReadVictim, Call, Goto, IInv, TypeOK
    <3> QED
      BY <3>1, <3>2, <3>3
  <2>5. ASSUME NEW r \in Procs, Step(r)
        PROVE  pc'[p] = pc[p]
    <3>1. CASE r = p
      BY <2>1, <2>4, <2>5, <3>1
         DEF Step, ComputeTimes, LockExpired, Lockfile, LockfileGivesUp, Record,
             RemoveOwner, RemoveLock, FindRuins, RemoveDeadLog, SetTraps, ClearReportFlag,
             OpenLog, TouchTimestamp, ClearFailures, ReadFailures, WriteFailures, CloseLog,
             RaiseReportFlag
    <3>2. CASE r # p /\ SendSignal(r)
      BY <2>3, <3>2 DEF SendSignal, IInv, TypeOK
    <3>3. CASE r # p /\ ~SendSignal(r)
      <4>1. pc' = [pc EXCEPT ![r] = pc'[r]]
        BY <2>5, <3>3
           DEF Step, IInv, TypeOK, Goto, Call, Exit, LockExists, ReadOwner, AskPs, WhenInProgress,
               WhenNotInProgress, GoesOn, KillDone, ComputeTimes, LockExpired, ReadVictim,
               Lockfile, LockfileGivesUp, Record, RemoveOwner, RemoveLock, FindRuins,
               RemoveDeadLog, SetTraps, ClearReportFlag, OpenLog, TouchTimestamp,
               ClearFailures, ReadFailures, WriteFailures, CloseLog, RaiseReportFlag
      <4> QED
        BY <3>3, <4>1 DEF IInv, TypeOK
    <3> QED
      BY <3>1, <3>2, <3>3
  <2>6. ASSUME NEW r \in Procs, NEW what \in Triggers, NEW outcome \in {"ok", "bad"},
               \/ Invoke(r, what) \/ TransferEnds(r, outcome)
               \/ Crash(r) \/ LoseShell(r) \/ OrphanEnds(r)
        PROVE  pc'[p] = pc[p]
    <3>1. ~Crash(r) /\ ~LoseShell(r)
      BY DEF Crash, LoseShell, IInv, TypeOK
    <3>2. r # p
      BY <2>1, <2>6, <3>1 DEF Invoke, TransferEnds, OrphanEnds
    <3> QED
      BY <2>6, <3>1, <3>2 DEF Invoke, TransferEnds, OrphanEnds, Goto, Call, Exit, IInv, TypeOK
  <2>7. CASE World
    BY <2>7 DEF World, AgeTimestamp, AgeLock, Suspend, Resume
  <2>8. pc'[p] = pc[p]
    BY <2>5, <2>6, <2>7 DEF Next, World, Triggers
  <2> QED
    BY <2>1, <2>8
<1> QED
  BY <1>1, PkgSyncInvariant, PTL DEF Spec, StopStops
=============================================================================
