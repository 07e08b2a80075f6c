--------------------------- MODULE LockProcProofs --------------------------
(***************************************************************************)
(* Proofs about LockProc for any set of processes and any bound on the     *)
(* crashes.  Calls interleave in every order; what the lock promises, it   *)
(* promises until it is torn.                                              *)
(***************************************************************************)
EXTENDS LockProc, TLAPS

\* No process is the missing owner.
LEMMA OwnerIsNoProc == ~(NoOwner \in Procs)
  BY LockProcAssumption

\* One step of process p.
OneOf(p, sig) == \/ Start(p) \/ Kill(p, sig) \/ Step(p)
                 \/ Finish(p) \/ Crash(p) \/ KillShell(p)

\* A lock that is whole after a step was whole before it.
LEMMA ResidueOfTorn ==
  ASSUME IInv, NEW p \in Procs, NEW sig \in {"term", "kill"}, OneOf(p, sig), ~torn'
  PROVE  Whole /\ ~torn
<1>1. ~torn
  BY DEF OneOf, Start, Kill, Step, Exists, ReadOwner, AskPs, Glob, Unlock, Disown,
         TryLockfile, Create, Record, SendSignal, Finish, Crash, KillShell
<1> QED
  BY <1>1 DEF IInv

(***************************************************************************)
(* Type correctness, which needs nothing of the environment.               *)
(***************************************************************************)
LEMMA InitTypeOK == Init => TypeOK
<1> SUFFICES ASSUME Init PROVE TypeOK
  OBVIOUS
<1>1. /\ lock \in BOOLEAN
      /\ torn \in BOOLEAN
      /\ owner \in Procs \cup {NoOwner}
      /\ pc \in [Procs -> Steps]
      /\ op \in [Procs -> Ops]
      /\ pgrp \in [Procs -> Procs \cup {NoOwner}]
      /\ victim \in [Procs -> Procs \cup {NoOwner}]
  BY DEF Init, Steps, Ops
<1>2. matched \in [Procs -> BOOLEAN] /\ orphans \in SUBSET Procs /\ crashes \in 0..MaxCrashes
  BY LockProcAssumption DEF Init
<1> QED
  BY <1>1, <1>2 DEF TypeOK

LEMMA NextKeepsTypeOK ==
  ASSUME TypeOK, NEW p \in Procs, NEW sig \in {"term", "kill"}, OneOf(p, sig)
  PROVE  TypeOK'
<1> USE LockProcAssumption DEF TypeOK, Steps, Ops, Goto, Enter, Exit
<1>1. CASE Start(p)
  BY <1>1 DEF Start
<1>2. CASE Kill(p, sig)
  BY <1>2 DEF Kill
<1>3. CASE Exists(p)
  BY <1>3 DEF Exists, WhenDead
<1>4. CASE ReadOwner(p)
  BY <1>4 DEF ReadOwner
<1>5. CASE AskPs(p)
  BY <1>5 DEF AskPs, WhenAlive, WhenDead
<1>6. CASE Glob(p)
  BY <1>6 DEF Glob
<1>7. CASE Unlock(p)
  BY <1>7 DEF Unlock
<1>8. CASE Disown(p)
  BY <1>8 DEF Disown
<1>9. CASE TryLockfile(p)
  BY <1>9 DEF TryLockfile, Create
<1>10. CASE Record(p)
  BY <1>10 DEF Record
<1>11. CASE Finish(p)
  BY <1>11 DEF Finish
<1>12. CASE SendSignal(p)
  BY <1>12 DEF SendSignal, Signalled
<1>13. CASE Crash(p)
  BY <1>13 DEF Crash
<1>14. CASE KillShell(p)
  BY <1>14 DEF KillShell
<1> QED
  BY <1>1, <1>2, <1>3, <1>4, <1>5, <1>6, <1>7, <1>8, <1>9, <1>10, <1>11, <1>12, <1>13, <1>14 DEF OneOf, Step

(***************************************************************************)
(* The inductive invariant, part by part.                                  *)
(***************************************************************************)

\* Each step belongs to its command, however calls meet.
LEMMA StepOfCommandKept ==
  ASSUME IInv, NEW p \in Procs, NEW sig \in {"term", "kill"}, OneOf(p, sig)
  PROVE  StepOfCommand'
<1> USE OwnerIsNoProc
    DEF IInv, TypeOK, Inside, Running, Guarded, Goto, Enter,
        StepOfCommand, Cleaning, Ops, Step
<1>1. CASE Start(p)
  BY <1>1 DEF Start, Unreferenced
<1>2. CASE Kill(p, sig)
  BY <1>2 DEF Kill, Unreferenced
<1>3. CASE Exists(p)
  BY <1>3 DEF Exists, WhenDead
<1>4. CASE ReadOwner(p)
  BY <1>4 DEF ReadOwner
<1>5. CASE AskPs(p)
  BY <1>5 DEF AskPs, WhenAlive, WhenDead, Live, Exit
<1>6. CASE Glob(p)
  BY <1>6 DEF Glob
<1>7. CASE Unlock(p)
  BY <1>7 DEF Unlock
<1>8. CASE Disown(p)
  BY <1>8 DEF Disown, Exit
<1>9. CASE TryLockfile(p)
  BY <1>9 DEF TryLockfile, Create, Exit
<1>10. CASE Record(p)
  BY <1>10 DEF Record, Exit
<1>11. CASE Finish(p)
  BY <1>11 DEF Finish, Exit
<1>12. CASE SendSignal(p)
  BY <1>12 DEF SendSignal, Signalled
<1>13. CASE Crash(p)
  BY <1>13 DEF Crash, Exit
<1>14. CASE KillShell(p)
  BY <1>14 DEF KillShell
<1> QED
  BY <1>1, <1>2, <1>3, <1>4, <1>5, <1>6, <1>7, <1>8, <1>9, <1>10, <1>11, <1>12, <1>13, <1>14 DEF OneOf

\* Only a process that has recorded itself is ever written down, and the kernel gives
\* its pid to no other while it is.
LEMMA ReferencesKept ==
  ASSUME IInv, NEW p \in Procs, NEW sig \in {"term", "kill"}, OneOf(p, sig)
  PROVE  ReferencedPastGrab'
<1> USE OwnerIsNoProc
    DEF IInv, TypeOK, Inside, Running, Guarded, Goto, Enter,
        StepOfCommand, ReferencedPastGrab, Cleaning, Step
<1>1. CASE Start(p)
  BY <1>1 DEF Start, Unreferenced
<1>2. CASE Kill(p, sig)
  BY <1>2 DEF Kill, Unreferenced
<1>3. CASE Exists(p)
  BY <1>3 DEF Exists, WhenDead
<1>4. CASE ReadOwner(p)
  BY <1>4 DEF ReadOwner
<1>5. CASE AskPs(p)
  BY <1>5 DEF AskPs, WhenAlive, WhenDead, Live, Exit
<1>6. CASE Glob(p)
  BY <1>6 DEF Glob
<1>7. CASE Unlock(p)
  BY <1>7 DEF Unlock
<1>8. CASE Disown(p)
  BY <1>8 DEF Disown, Exit
<1>9. CASE TryLockfile(p)
  BY <1>9 DEF TryLockfile, Create, Exit
<1>10. CASE Record(p)
  BY <1>10 DEF Record, Exit
<1>11. CASE Finish(p)
  BY <1>11 DEF Finish, Exit
<1>12. CASE SendSignal(p)
  BY <1>12 DEF SendSignal, Signalled
<1>13. CASE Crash(p)
  BY <1>13 DEF Crash, Exit
<1>14. CASE KillShell(p)
  BY <1>14 DEF KillShell
<1> QED
  BY <1>1, <1>2, <1>3, <1>4, <1>5, <1>6, <1>7, <1>8, <1>9, <1>10, <1>11, <1>12, <1>13, <1>14 DEF OneOf

\* lockfile creates no lock while another holds it.
LEMMA OneHolderKept ==
  ASSUME IInv, NEW p \in Procs, NEW sig \in {"term", "kill"}, OneOf(p, sig), ~torn'
  PROVE  OneHolder'
<1> USE OwnerIsNoProc
    DEF IInv, TypeOK, Inside, Running, Guarded, Goto, Enter,
        StepOfCommand, Holds, Whole, OneHolder, HolderKeepsLock, Step
<1>0. Whole
  BY ResidueOfTorn
<1>1. CASE Start(p)
  BY <1>0, <1>1 DEF Start, Unreferenced
<1>2. CASE Kill(p, sig)
  BY <1>0, <1>2 DEF Kill, Unreferenced
<1>3. CASE Exists(p)
  BY <1>0, <1>3 DEF Exists, WhenDead
<1>4. CASE ReadOwner(p)
  BY <1>0, <1>4 DEF ReadOwner
<1>5. CASE AskPs(p)
  BY <1>0, <1>5 DEF AskPs, WhenAlive, WhenDead, Live, Exit
<1>6. CASE Glob(p)
  BY <1>0, <1>6 DEF Glob
<1>7. CASE Unlock(p)
  BY <1>0, <1>7 DEF Unlock
<1>8. CASE Disown(p)
  BY <1>0, <1>8 DEF Disown, Exit
<1>9. CASE TryLockfile(p)
  BY <1>0, <1>9 DEF TryLockfile, Create, Exit
<1>10. CASE Record(p)
  BY <1>0, <1>10 DEF Record, Exit
<1>11. CASE Finish(p)
  BY <1>0, <1>11 DEF Finish, Exit
<1>12. CASE SendSignal(p)
  BY <1>0, <1>12 DEF SendSignal, Signalled
<1>13. CASE Crash(p)
  BY <1>0, <1>13 DEF Crash, Exit
<1>14. CASE KillShell(p)
  BY <1>0, <1>14 DEF KillShell
<1> QED
  BY <1>1, <1>2, <1>3, <1>4, <1>5, <1>6, <1>7, <1>8, <1>9, <1>10, <1>11, <1>12, <1>13, <1>14 DEF OneOf

\* Only the holder unlinks a lock that is held.
LEMMA HolderKeepsLockKept ==
  ASSUME IInv, NEW p \in Procs, NEW sig \in {"term", "kill"}, OneOf(p, sig), ~torn'
  PROVE  HolderKeepsLock'
<1> USE OwnerIsNoProc
    DEF IInv, TypeOK, Inside, Running, Guarded, Goto, Enter,
        StepOfCommand, Holds, Cleaning, Whole, OneHolder, HolderKeepsLock, OnlyHolderCleans, Step
<1>0. Whole
  BY ResidueOfTorn
<1>1. CASE Start(p)
  BY <1>0, <1>1 DEF Start, Unreferenced
<1>2. CASE Kill(p, sig)
  BY <1>0, <1>2 DEF Kill, Unreferenced
<1>3. CASE Exists(p)
  BY <1>0, <1>3 DEF Exists, WhenDead
<1>4. CASE ReadOwner(p)
  BY <1>0, <1>4 DEF ReadOwner
<1>5. CASE AskPs(p)
  BY <1>0, <1>5 DEF AskPs, WhenAlive, WhenDead, Live, Exit
<1>6. CASE Glob(p)
  BY <1>0, <1>6 DEF Glob
<1>7. CASE Unlock(p)
  BY <1>0, <1>7 DEF Unlock
<1>8. CASE Disown(p)
  BY <1>0, <1>8 DEF Disown, Exit
<1>9. CASE TryLockfile(p)
  BY <1>0, <1>9 DEF TryLockfile, Create, Exit
<1>10. CASE Record(p)
  BY <1>0, <1>10 DEF Record, Exit
<1>11. CASE Finish(p)
  BY <1>0, <1>11 DEF Finish, Exit
<1>12. CASE SendSignal(p)
  BY <1>0, <1>12 DEF SendSignal, Signalled
<1>13. CASE Crash(p)
  BY <1>0, <1>13 DEF Crash, Exit
<1>14. CASE KillShell(p)
  BY <1>0, <1>14 DEF KillShell
<1> QED
  BY <1>1, <1>2, <1>3, <1>4, <1>5, <1>6, <1>7, <1>8, <1>9, <1>10, <1>11, <1>12, <1>13, <1>14 DEF OneOf

\* Nobody comes to clean between the creation of the lock and its record: the look that
\* would lead there is the one that tears.
LEMMA CreatorUndisturbedKept ==
  ASSUME IInv, NEW p \in Procs, NEW sig \in {"term", "kill"}, OneOf(p, sig), ~torn'
  PROVE  CreatorUndisturbed'
<1> USE OwnerIsNoProc
    DEF IInv, TypeOK, Inside, Running, Guarded, Goto, Enter,
        StepOfCommand, Holds, Cleaning, AboutToClean, LooksToClean, Whole, OneHolder, HolderKeepsLock, CreatorUndisturbed, Step
<1>0. Whole
  BY ResidueOfTorn
<1>1. CASE Start(p)
  BY <1>0, <1>1 DEF Start, Unreferenced
<1>2. CASE Kill(p, sig)
  BY <1>0, <1>2 DEF Kill, Unreferenced
<1>3. CASE Exists(p)
  BY <1>0, <1>3 DEF Exists, WhenDead
<1>4. CASE ReadOwner(p)
  BY <1>0, <1>4 DEF ReadOwner
<1>5. CASE AskPs(p)
  <2>1. CASE LooksToClean(p)
    <3>1. \A q \in Procs : pc[q] # "record"
      BY <1>0, <1>5, <2>1 DEF AskPs
    <3>2. \A q \in Procs : pc'[q] # "record"
      BY <1>5, <3>1 DEF AskPs, WhenAlive, WhenDead, Exit
    <3> QED
      BY <3>2
  <2>2. CASE ~LooksToClean(p)
    <3>1. op[p] \in {"term", "kill"}
      BY <1>5, <2>2 DEF AskPs, Ops
    <3>2. pc'[p] \in {"signal", "exists"}
      BY <1>5, <3>1 DEF AskPs, WhenAlive, WhenDead
    <3>3. \A q \in Procs : q # p => pc'[q] = pc[q] /\ op'[q] = op[q]
      BY <1>5 DEF AskPs, WhenAlive, WhenDead, Exit
    <3> QED
      BY <1>0, <3>2, <3>3
  <2> QED
    BY <2>1, <2>2
<1>6. CASE Glob(p)
  BY <1>0, <1>6 DEF Glob
<1>7. CASE Unlock(p)
  BY <1>0, <1>7 DEF Unlock
<1>8. CASE Disown(p)
  BY <1>0, <1>8 DEF Disown, Exit
<1>9. CASE TryLockfile(p)
  <2>1. CASE Create(p)
    <3>1. \A q \in Procs : ~AboutToClean(q)
      BY <2>1 DEF Create
    <3>2. pc' = [pc EXCEPT ![p] = "record"] /\ UNCHANGED <<op, pgrp, orphans>>
      BY <1>9, <2>1 DEF TryLockfile, Create
    <3> HIDE <1>9, <2>1
    <3> QED
      BY <1>0, <3>1, <3>2
  <2>2. CASE lock /\ Exit(p)
    BY <1>0, <1>9, <2>2 DEF TryLockfile, Exit
  <2> QED
    BY <1>9, <2>1, <2>2 DEF TryLockfile, Create
<1>10. CASE Record(p)
  BY <1>0, <1>10 DEF Record, Exit
<1>11. CASE Finish(p)
  BY <1>0, <1>11 DEF Finish, Exit
<1>12. CASE SendSignal(p)
  BY <1>0, <1>12 DEF SendSignal, Signalled
<1>13. CASE Crash(p)
  BY <1>0, <1>13 DEF Crash, Exit
<1>14. CASE KillShell(p)
  BY <1>0, <1>14 DEF KillShell
<1> QED
  BY <1>1, <1>2, <1>3, <1>4, <1>5, <1>6, <1>7, <1>8, <1>9, <1>10, <1>11, <1>12, <1>13, <1>14 DEF OneOf

\* `alive' sees the holder, so only a process without one goes on to clean.
LEMMA OnlyHolderCleansKept ==
  ASSUME IInv, NEW p \in Procs, NEW sig \in {"term", "kill"}, OneOf(p, sig), ~torn'
  PROVE  OnlyHolderCleans'
<1> USE OwnerIsNoProc
    DEF IInv, TypeOK, Inside, Running, Guarded, Goto, Enter,
        StepOfCommand, Holds, Cleaning, AboutToClean, LooksToClean, Whole, OneHolder, HolderKeepsLock, CreatorUndisturbed, OnlyHolderCleans, SeesHolder, Step
<1>0. Whole
  BY ResidueOfTorn
<1>1. CASE Start(p)
  BY <1>0, <1>1 DEF Start, Unreferenced
<1>2. CASE Kill(p, sig)
  BY <1>0, <1>2 DEF Kill, Unreferenced
<1>3. CASE Exists(p)
  BY <1>0, <1>3 DEF Exists, WhenDead
<1>4. CASE ReadOwner(p)
  BY <1>0, <1>4 DEF ReadOwner
<1>5. CASE AskPs(p)
  <2>1. CASE Live(pgrp[p])
    BY <1>0, <1>5, <2>1 DEF AskPs, WhenAlive, Exit
  <2>2. CASE ~Live(pgrp[p]) /\ LooksToClean(p)
    <3>1. ASSUME NEW q \in Procs PROVE ~Holds(q)
      BY <1>0, <1>5, <2>2 DEF AskPs, Live
    <3>2. ASSUME NEW q \in Procs PROVE ~Holds(q)'
      BY <1>5, <2>2, <3>1 DEF AskPs, WhenDead
    <3> QED
      BY <3>2
  <2>3. CASE ~Live(pgrp[p]) /\ ~LooksToClean(p)
    BY <1>0, <1>5, <2>3 DEF AskPs, WhenDead, Ops
  <2> QED
    BY <2>1, <2>2, <2>3
<1>6. CASE Glob(p)
  BY <1>0, <1>6 DEF Glob
<1>7. CASE Unlock(p)
  BY <1>0, <1>7 DEF Unlock
<1>8. CASE Disown(p)
  BY <1>0, <1>8 DEF Disown, Exit
<1>9. CASE TryLockfile(p)
  <2>1. CASE Create(p)
    <3>1. \A q \in Procs : ~AboutToClean(q)
      BY <2>1 DEF Create
    <3>2. pc' = [pc EXCEPT ![p] = "record"] /\ UNCHANGED <<op, pgrp, orphans>>
      BY <1>9, <2>1 DEF TryLockfile, Create
    <3> HIDE <1>9, <2>1
    <3> QED
      BY <1>0, <3>1, <3>2
  <2>2. CASE lock /\ Exit(p)
    BY <1>0, <1>9, <2>2 DEF TryLockfile, Exit
  <2> QED
    BY <1>9, <2>1, <2>2 DEF TryLockfile, Create
<1>10. CASE Record(p)
  BY <1>0, <1>10 DEF Record, Exit
<1>11. CASE Finish(p)
  BY <1>0, <1>11 DEF Finish, Exit
<1>12. CASE SendSignal(p)
  BY <1>0, <1>12 DEF SendSignal, Signalled
<1>13. CASE Crash(p)
  BY <1>0, <1>13 DEF Crash, Exit
<1>14. CASE KillShell(p)
  BY <1>0, <1>14 DEF KillShell
<1> QED
  BY <1>1, <1>2, <1>3, <1>4, <1>5, <1>6, <1>7, <1>8, <1>9, <1>10, <1>11, <1>12, <1>13, <1>14 DEF OneOf

\* The owner that `alive' has read is still the holder when ps is asked, if any is.
LEMMA SeesHolderKept ==
  ASSUME IInv, NEW p \in Procs, NEW sig \in {"term", "kill"}, OneOf(p, sig), ~torn'
  PROVE  SeesHolder'
<1> USE OwnerIsNoProc
    DEF IInv, TypeOK, Inside, Running, Guarded, Goto, Enter,
        StepOfCommand, Holds, Cleaning, AboutToClean, LooksToClean, Whole, OneHolder, HolderKeepsLock, CreatorUndisturbed, SeesHolder, Step
<1>0. Whole
  BY ResidueOfTorn
<1>1. CASE Start(p)
  BY <1>0, <1>1 DEF Start, Unreferenced
<1>2. CASE Kill(p, sig)
  BY <1>0, <1>2 DEF Kill, Unreferenced
<1>3. CASE Exists(p)
  BY <1>0, <1>3 DEF Exists, WhenDead
<1>4. CASE ReadOwner(p)
  BY <1>0, <1>4 DEF ReadOwner
<1>5. CASE AskPs(p)
  BY <1>0, <1>5 DEF AskPs, WhenAlive, WhenDead, Live, Exit
<1>6. CASE Glob(p)
  BY <1>0, <1>6 DEF Glob
<1>7. CASE Unlock(p)
  BY <1>0, <1>7 DEF Unlock
<1>8. CASE Disown(p)
  BY <1>0, <1>8 DEF Disown, Exit
<1>9. CASE TryLockfile(p)
  <2>1. CASE Create(p)
    <3>1. \A q \in Procs : ~AboutToClean(q)
      BY <2>1 DEF Create
    <3>2. pc' = [pc EXCEPT ![p] = "record"] /\ UNCHANGED <<op, pgrp, orphans>>
      BY <1>9, <2>1 DEF TryLockfile, Create
    <3> HIDE <1>9, <2>1
    <3> QED
      BY <1>0, <3>1, <3>2
  <2>2. CASE lock /\ Exit(p)
    BY <1>0, <1>9, <2>2 DEF TryLockfile, Exit
  <2> QED
    BY <1>9, <2>1, <2>2 DEF TryLockfile, Create
<1>10. CASE Record(p)
  BY <1>0, <1>10 DEF Record, Exit
<1>11. CASE Finish(p)
  BY <1>0, <1>11 DEF Finish, Exit
<1>12. CASE SendSignal(p)
  BY <1>0, <1>12 DEF SendSignal, Signalled
<1>13. CASE Crash(p)
  BY <1>0, <1>13 DEF Crash, Exit
<1>14. CASE KillShell(p)
  BY <1>0, <1>14 DEF KillShell
<1> QED
  BY <1>1, <1>2, <1>3, <1>4, <1>5, <1>6, <1>7, <1>8, <1>9, <1>10, <1>11, <1>12, <1>13, <1>14 DEF OneOf

\* No lock is created between the two unlinks of a `clean'.
LEMMA NothingAfterUnlockKept ==
  ASSUME IInv, NEW p \in Procs, NEW sig \in {"term", "kill"}, OneOf(p, sig), ~torn'
  PROVE  NothingAfterUnlock'
<1> USE OwnerIsNoProc
    DEF IInv, TypeOK, Inside, Running, Guarded, Goto, Enter,
        StepOfCommand, Cleaning, AboutToClean, Whole, NothingAfterUnlock, Step
<1>0. Whole
  BY ResidueOfTorn
<1>1. CASE Start(p)
  BY <1>0, <1>1 DEF Start, Unreferenced
<1>2. CASE Kill(p, sig)
  BY <1>0, <1>2 DEF Kill, Unreferenced
<1>3. CASE Exists(p)
  BY <1>0, <1>3 DEF Exists, WhenDead
<1>4. CASE ReadOwner(p)
  BY <1>0, <1>4 DEF ReadOwner
<1>5. CASE AskPs(p)
  BY <1>0, <1>5 DEF AskPs, WhenAlive, WhenDead, Live, Exit
<1>6. CASE Glob(p)
  BY <1>0, <1>6 DEF Glob
<1>7. CASE Unlock(p)
  BY <1>0, <1>7 DEF Unlock
<1>8. CASE Disown(p)
  BY <1>0, <1>8 DEF Disown, Exit
<1>9. CASE TryLockfile(p)
  BY <1>0, <1>9 DEF TryLockfile, Create, Exit
<1>10. CASE Record(p)
  BY <1>0, <1>10 DEF Record, Exit
<1>11. CASE Finish(p)
  BY <1>0, <1>11 DEF Finish, Exit
<1>12. CASE SendSignal(p)
  BY <1>0, <1>12 DEF SendSignal, Signalled
<1>13. CASE Crash(p)
  BY <1>0, <1>13 DEF Crash, Exit
<1>14. CASE KillShell(p)
  BY <1>0, <1>14 DEF KillShell
<1> QED
  BY <1>1, <1>2, <1>3, <1>4, <1>5, <1>6, <1>7, <1>8, <1>9, <1>10, <1>11, <1>12, <1>13, <1>14 DEF OneOf

\* Nothing runs at first.
LEMMA InitIInv == Init => IInv
<1> SUFFICES ASSUME Init PROVE IInv
  OBVIOUS
<1>1. StepOfCommand /\ ReferencedPastGrab
  BY OwnerIsNoProc DEF Init, StepOfCommand, ReferencedPastGrab, Inside, Cleaning
<1>2. Whole
  BY DEF Init, Whole, OneHolder, HolderKeepsLock, CreatorUndisturbed, OnlyHolderCleans,
         SeesHolder, NothingAfterUnlock, Holds, Cleaning
<1> QED
  BY InitTypeOK, <1>1, <1>2 DEF IInv

\* IInv is inductive.
LEMMA NextKeepsIInv == IInv /\ [Next]_vars => IInv'
<1> SUFFICES ASSUME IInv, [Next]_vars PROVE IInv'
  OBVIOUS
<1>1. CASE UNCHANGED vars
  BY <1>1 DEF vars, IInv, TypeOK, StepOfCommand, ReferencedPastGrab, Whole, OneHolder,
         HolderKeepsLock, CreatorUndisturbed, OnlyHolderCleans, SeesHolder, NothingAfterUnlock,
         Holds, AboutToClean, LooksToClean, Inside, Cleaning
<1>2. ASSUME NEW p \in Procs, NEW sig \in {"term", "kill"}, OneOf(p, sig)
      PROVE  IInv'
  <2>1. TypeOK' /\ StepOfCommand' /\ ReferencedPastGrab'
    BY <1>2, NextKeepsTypeOK, StepOfCommandKept, ReferencesKept DEF IInv
  <2>2. ASSUME ~torn' PROVE Whole'
    BY <1>2, <2>2, OneHolderKept, HolderKeepsLockKept, CreatorUndisturbedKept,
       OnlyHolderCleansKept, SeesHolderKept, NothingAfterUnlockKept DEF Whole
  <2> QED
    BY <2>1, <2>2 DEF IInv
<1> QED
  BY <1>1, <1>2 DEF Next, OneOf

(***************************************************************************)
(* What the invariant shows.                                               *)
(***************************************************************************)

\* Every variable keeps its type, however calls overlap.
THEOREM LockProcTypeOK == Spec => []TypeOK
<1>1. IInv => TypeOK
  BY DEF IInv
<1> QED
  BY <1>1, InitIInv, NextKeepsIInv, PTL DEF Spec

\* The inductive invariant, for every set of processes and every interleaving: what
\* the next two theorems are read off from.
THEOREM LockProcInvariant == Spec => []IInv
BY InitIInv, NextKeepsIInv, PTL DEF Spec

\* "Run one process for the command at a time": until torn, two commands run at once
\* only when one has lost its synchronized, whatever crashes and whoever is killed.
THEOREM LockProcMutualExclusion == Spec => []MutualExclusion
<1>1. IInv => MutualExclusion
  BY DEF IInv, Whole, OneHolder, Holds, MutualExclusion, Running
<1> QED
  BY <1>1, LockProcInvariant, PTL

\* Until torn, no `clean' of another process takes the lock from a running command.
THEOREM LockProcRunnerKeepsLock == Spec => []RunnerKeepsLock
<1>1. IInv => RunnerKeepsLock
  BY DEF IInv, Whole, HolderKeepsLock, Holds, RunnerKeepsLock, Guarded, Running
<1> QED
  BY <1>1, LockProcInvariant, PTL

---------------------------------------------------------------------------
(***************************************************************************)
(* Until torn, the two lock files implement TryLock.                       *)
(***************************************************************************)
\* The mapping is a function of the state because at most one process holds the lock.
LEMMA HolderIsWhoHolds ==
  ASSUME OneHolder, NEW p \in Procs, Holds(p)
  PROVE  Holder = p
  BY DEF OneHolder, Holder

LEMMA NoHolder == (\A p \in Procs : ~Holds(p)) <=> Holder = NoOwner
  BY OwnerIsNoProc DEF Holder

LEMMA SameHolder == (\A p \in Procs : Holds(p)' <=> Holds(p)) => Holder' = Holder
  BY DEF Holder

\* A step that no attempt can see is a stutter of TryLock.
LEMMA Unseen ==
  ASSUME \A q \in Procs : Holds(q)' <=> Holds(q),
         Trying' = Trying, Busy' = Busy, crashes' = crashes, torn' = torn
  PROVE  UNCHANGED TL!tlvars
  BY SameHolder DEF TL!tlvars

\* The steps before lockfile decide nothing, except that `alive' may find the lock
\* held: then somebody holds it.
LEMMA LookingImplements ==
  ASSUME IInv, Whole, ~torn', torn' = torn, NEW p \in Procs,
         Exists(p) \/ ReadOwner(p) \/ AskPs(p) \/ Glob(p) \/ Disown(p)
  PROVE  [TL!TryLockNext]_TL!tlvars
<1> USE DEF Goto, Enter, IInv, TypeOK, StepOfCommand, Cleaning
<1>1. CASE Exists(p)
  <2>1. \A q \in Procs : Holds(q)' <=> Holds(q)
    BY <1>1 DEF Exists, WhenDead, Holds
  <2>2. Trying' = Trying /\ Busy' = Busy /\ crashes' = crashes
    BY <1>1 DEF Exists, WhenDead, Trying, Busy, Inside
  <2> QED
    BY <2>1, <2>2, Unseen
<1>2. CASE ReadOwner(p)
  <2>1. \A q \in Procs : Holds(q)' <=> Holds(q)
    BY <1>2 DEF ReadOwner, Holds
  <2>2. Trying' = Trying /\ Busy' = Busy /\ crashes' = crashes
    BY <1>2 DEF ReadOwner, Trying, Busy, Inside
  <2> QED
    BY <2>1, <2>2, Unseen
<1>3. CASE AskPs(p)
  <2>1. \A q \in Procs : Holds(q)' <=> Holds(q)
    BY <1>3 DEF AskPs, WhenAlive, WhenDead, Exit, Holds
  <2>2. Trying' = Trying /\ crashes' = crashes
    BY <1>3 DEF AskPs, WhenAlive, WhenDead, Exit, Trying, Inside
  <2>3. CASE Live(pgrp[p]) /\ op[p] = "grab" /\ lock
    <3>1. PICK q \in Procs : pgrp[p] = q
      BY <2>3 DEF Live
    <3>2. pc[q] = "run" \/ op[q] = "release"
      BY <2>3, <3>1 DEF Live, ReferencedPastGrab
    <3>3. pc[q] \in Steps /\ pc[q] # "off" /\ pc[q] # "disown" /\ q \notin orphans
      BY <2>3, <3>1, OwnerIsNoProc DEF Live, Whole, NothingAfterUnlock
    <3>4. Holds(q)
      BY <3>2, <3>3 DEF Holds, Steps, Inside
    <3>5. Holder # NoOwner
      BY <3>4, NoHolder
    <3>6. pc[p] = "ps" /\ pc' = [pc EXCEPT ![p] = "lockfile"] /\ UNCHANGED <<op, lock>>
      BY <1>3, <2>3 DEF AskPs, WhenAlive
    <3>7. p \in Trying /\ Busy' = Busy \cup {p}
      BY <2>3, <3>6 DEF Trying, Busy, Inside
    <3>8. Holder' = Holder
      BY <2>1, SameHolder
    <3>9. TL!FindBusy(p)
      BY <2>2, <3>5, <3>7, <3>8 DEF TL!FindBusy
    <3> QED
      BY <3>9 DEF TL!TryLockNext
  <2>4. CASE ~(Live(pgrp[p]) /\ op[p] = "grab" /\ lock)
    <3>1. Busy' = Busy
      BY <1>3, <2>4 DEF AskPs, WhenAlive, WhenDead, Exit, Trying, Busy, Inside
    <3> QED
      BY <2>1, <2>2, <3>1, Unseen
  <2> QED
    BY <2>3, <2>4
<1>4. CASE Glob(p)
  <2>1. \A q \in Procs : Holds(q)' <=> Holds(q)
    BY <1>4 DEF Glob, Holds
  <2>2. Trying' = Trying /\ Busy' = Busy /\ crashes' = crashes
    BY <1>4 DEF Glob, Trying, Busy, Inside
  <2> QED
    BY <2>1, <2>2, Unseen
<1>5. CASE Disown(p)
  <2>0. ~lock
    BY <1>5 DEF Disown, Whole, NothingAfterUnlock
  <2>1. \A q \in Procs : Holds(q)' <=> Holds(q)
    BY <1>5 DEF Disown, Exit, Holds
  <2>2. Trying' = Trying /\ Busy' = Busy /\ crashes' = crashes
    BY <1>5, <2>0 DEF Disown, Exit, Trying, Busy, Inside
  <2> QED
    BY <2>1, <2>2, Unseen
<1> QED
  BY <1>1, <1>2, <1>3, <1>4, <1>5

\* To unlink Lock is to give it up, or to clear what a dead holder has left.
LEMMA UnlockImplements ==
  ASSUME IInv, Whole, ~torn', NEW p \in Procs, Unlock(p)
  PROVE  TL!TryLockNext
<1> USE DEF IInv, TypeOK, StepOfCommand
<1>1. /\ pc[p] = "unlock"
      /\ pc' = [pc EXCEPT ![p] = "disown"]
      /\ lock' = FALSE
      /\ UNCHANGED <<op, orphans, crashes>>
  BY DEF Unlock, Goto
<1>2. \A q \in Procs : q # p => ~Holds(q)
  BY <1>1 DEF Whole, OnlyHolderCleans, Cleaning
<1>3. \A q \in Procs : ~Holds(q)'
  BY <1>1, <1>2 DEF Holds
<1>4. Holder' = NoOwner
  BY <1>3 DEF Holder
<1>5. Trying' = Trying /\ Busy' = {}
  BY <1>1 DEF Trying, Busy, Inside
<1>6. CASE Holds(p)
  <2>1. Holder = p
    BY <1>6, HolderIsWhoHolds DEF Whole
  <2>2. TL!GiveUp(p)
    BY <1>1, <1>4, <1>5, <2>1 DEF TL!GiveUp
  <2> QED
    BY <2>2 DEF TL!TryLockNext
<1>7. CASE ~Holds(p)
  <2>1. Holder = NoOwner
    BY <1>2, <1>7 DEF Holder
  <2>2. TL!Clear
    BY <1>1, <1>4, <1>5, <2>1 DEF TL!Clear
  <2> QED
    BY <2>2 DEF TL!TryLockNext
<1> QED
  BY <1>6, <1>7

\* lockfile is where an attempt is won, or a busy one is turned away.
LEMMA LockfileImplements ==
  ASSUME IInv, Whole, ~torn', NEW p \in Procs, TryLockfile(p)
  PROVE  TL!TryLockNext
<1> USE DEF IInv, TypeOK, StepOfCommand, Goto
<1>1. pc[p] = "lockfile" /\ op[p] = "grab" /\ crashes' = crashes
  BY DEF TryLockfile
<1>2. CASE lock /\ Exit(p)
  <2>1. \A q \in Procs : Holds(q)' <=> Holds(q)
    BY <1>1, <1>2 DEF Exit, Holds
  <2>2. lock' = lock
    BY <1>2 DEF TryLockfile, Create
  <2>3. p \in Busy /\ Trying' = Trying \ {p} /\ Busy' = Busy \ {p}
    BY <1>1, <1>2, <2>2 DEF Exit, Trying, Busy, Inside
  <2>4. TL!TurnAway(p)
    BY <1>1, <2>1, <2>3, SameHolder DEF TL!TurnAway
  <2> QED
    BY <2>4 DEF TL!TryLockNext
<1>3. CASE Create(p)
  <2>1. /\ ~lock
        /\ pc' = [pc EXCEPT ![p] = "record"]
        /\ UNCHANGED <<op, orphans>>
    BY <1>3 DEF TryLockfile, Create
  <2>2. \A q \in Procs : ~Holds(q)
    BY <2>1 DEF Whole, HolderKeepsLock
  <2>3. \A q \in Procs : Holds(q)' <=> q = p
    BY <1>1, <2>1, <2>2 DEF Holds
  <2>4. Holder = NoOwner /\ Holder' = p
    BY <2>2, <2>3 DEF Holder
  <2>5. p \in Trying \ Busy /\ Trying' = Trying \ {p}
    BY <1>1, <2>1 DEF Trying, Busy, Inside
  <2>6. Busy' \in SUBSET Trying'
    BY DEF Busy
  <2>7. TL!Win(p)
    BY <1>1, <2>4, <2>5, <2>6 DEF TL!Win
  <2> QED
    BY <2>7 DEF TL!TryLockNext
<1> QED
  BY <1>2, <1>3 DEF TryLockfile, Create

\* Starting a grab starts an attempt; starting a kill, recording the owner and ending
\* the command are not seen by any, save that an orphan which records gives up.
LEMMA RunningImplements ==
  ASSUME IInv, Whole, ~torn', torn' = torn, NEW p \in Procs, NEW sig \in {"term", "kill"},
         Start(p) \/ Kill(p, sig) \/ Record(p) \/ Finish(p)
  PROVE  [TL!TryLockNext]_TL!tlvars
<1> USE DEF IInv, TypeOK, StepOfCommand, Goto, Enter
<1>1. CASE Start(p)
  <2>1. \A q \in Procs : Holds(q)' <=> Holds(q)
    BY <1>1 DEF Start, Holds
  <2>2. /\ p \notin Trying /\ Trying' = Trying \cup {p}
        /\ Busy' = Busy /\ crashes' = crashes
    BY <1>1 DEF Start, Trying, Busy, Inside
  <2>3. ~Holds(p)
    BY <1>1 DEF Start, Holds
  <2>4. Holder # p
    BY <2>3, OwnerIsNoProc DEF Holder
  <2>5. TL!Try(p)
    BY <2>1, <2>2, <2>4, SameHolder DEF TL!Try
  <2> QED
    BY <2>5 DEF TL!TryLockNext
<1>2. CASE Kill(p, sig)
  <2>1. \A q \in Procs : Holds(q)' <=> Holds(q)
    BY <1>2 DEF Kill, Holds
  <2>2. Trying' = Trying /\ Busy' = Busy /\ crashes' = crashes
    BY <1>2 DEF Kill, Trying, Busy, Inside
  <2> QED
    BY <2>1, <2>2, Unseen
<1>3. CASE Record(p)
  <2>1. Trying' = Trying /\ Busy' = Busy /\ crashes' = crashes
    BY <1>3 DEF Record, Exit, Trying, Busy, Inside
  <2>2. CASE p \in orphans
    <3>1. Holds(p) /\ ~Holds(p)'
      BY <1>3, <2>2 DEF Record, Exit, Holds
    <3>2. \A q \in Procs : q # p => (Holds(q)' <=> Holds(q))
      BY <1>3, <2>2 DEF Record, Exit, Holds
    <3>3. \A q \in Procs : ~Holds(q)'
      BY <3>1, <3>2 DEF Whole, OneHolder
    <3>4. Holder = p /\ Holder' = NoOwner
      BY <3>1, <3>3, HolderIsWhoHolds DEF Whole, Holder
    <3>5. TL!GiveUp(p)
      BY <2>1, <3>4 DEF TL!GiveUp
    <3> QED
      BY <3>5 DEF TL!TryLockNext
  <2>3. CASE p \notin orphans
    <3>1. \A q \in Procs : Holds(q)' <=> Holds(q)
      BY <1>3, <2>3 DEF Record, Holds
    <3> QED
      BY <2>1, <3>1, Unseen
  <2> QED
    BY <2>2, <2>3
<1>4. CASE Finish(p)
  <2>1. \A q \in Procs : Holds(q)' <=> Holds(q)
    BY <1>4 DEF Finish, Exit, Holds
  <2>2. Trying' = Trying /\ Busy' = Busy /\ crashes' = crashes
    BY <1>4 DEF Finish, Exit, Trying, Busy, Inside
  <2> QED
    BY <2>1, <2>2, Unseen
<1> QED
  BY <1>1, <1>2, <1>3, <1>4

\* Who is killed gives the lock up, or was seen by no attempt ...
LEMMA SignalImplements ==
  ASSUME IInv, Whole, ~torn', torn' = torn, NEW p \in Procs, SendSignal(p)
  PROVE  [TL!TryLockNext]_TL!tlvars
<1> USE DEF IInv, TypeOK, StepOfCommand
<1>1. /\ victim[p] \in Procs /\ victim[p] # p /\ pc[p] = "signal"
      /\ op[p] \in {"term", "kill"}
  BY DEF SendSignal
<1>2. PICK v \in Procs : v = victim[p]
  BY <1>1
<1>3. pc[v] = "off" \/ pc[v] = "run" \/ op[v] = "release"
  BY <1>2 DEF ReferencedPastGrab
<1>4. /\ \A q \in Procs : q \notin {p, v} => pc'[q] = pc[q] /\ op'[q] = op[q]
      /\ \A q \in Procs : q # v => (q \in orphans' <=> q \in orphans)
      /\ pc'[p] = "exists" /\ op'[p] \in {"kill", "final"}
      /\ UNCHANGED <<lock, crashes, torn>>
  BY <1>1, <1>2 DEF SendSignal
<1>5. \/ pc'[v] = "off"
      \/ /\ pc'[v] = "glob" /\ op'[v] = "release" /\ v \notin orphans'
         /\ pc[v] = "run" /\ v \notin orphans
  BY <1>1, <1>2 DEF SendSignal, Signalled, Guarded, Running
<1>6. \A q \in Procs : q # v => (Holds(q)' <=> Holds(q))
  BY <1>1, <1>4 DEF Holds
<1>7. Trying' = Trying /\ Busy' = Busy
  BY <1>1, <1>3, <1>4, <1>5 DEF Trying, Busy, Inside
<1>8. CASE Holds(v) /\ ~Holds(v)'
  <2>1. \A q \in Procs : ~Holds(q)'
    BY <1>6, <1>8 DEF Whole, OneHolder
  <2>2. Holder = v /\ Holder' = NoOwner
    BY <1>8, <2>1, HolderIsWhoHolds DEF Whole, Holder
  <2>3. TL!GiveUp(v)
    BY <1>4, <1>7, <2>2 DEF TL!GiveUp
  <2> QED
    BY <2>3 DEF TL!TryLockNext
<1>9. CASE Holds(v)' <=> Holds(v)
  BY <1>4, <1>6, <1>7, <1>9, Unseen
<1>10. Holds(v)' => Holds(v)
  BY <1>5 DEF Holds
<1> QED
  BY <1>8, <1>9, <1>10

\* ... and a death is a death.
LEMMA DyingImplements ==
  ASSUME IInv, Whole, ~torn', NEW p \in Procs, Crash(p) \/ KillShell(p)
  PROVE  TL!TryLockNext
<1> USE DEF IInv, TypeOK, StepOfCommand, Goto
<1>1. crashes' = crashes + 1 /\ lock' = lock /\ op' = op
  BY DEF Crash, KillShell, Exit
<1>2. \A q \in Procs : q # p => /\ pc'[q] = pc[q]
                                /\ q \in orphans' <=> q \in orphans
  BY DEF Crash, KillShell, Exit
<1>3. \A q \in Procs : q # p => (Holds(q)' <=> Holds(q))
  BY <1>1, <1>2 DEF Holds
<1>4. \/ pc'[p] = "off"
      \/ pc'[p] = pc[p] /\ p \in orphans'
  BY DEF Crash, KillShell, Exit
<1>5. CASE ~Holds(p)'
  <2>1. Holder' = IF Holder = p THEN NoOwner ELSE Holder
    <3>1. CASE Holds(p)
      <4>1. Holder = p
        BY <3>1, HolderIsWhoHolds DEF Whole
      <4>2. \A q \in Procs : ~Holds(q)'
        BY <1>3, <1>5, <3>1 DEF Whole, OneHolder
      <4> QED
        BY <4>1, <4>2 DEF Holder
    <3>2. CASE ~Holds(p)
      <4>1. Holder' = Holder
        BY <1>3, <1>5, <3>2, SameHolder
      <4>2. Holder # p
        BY <3>2, OwnerIsNoProc DEF Holder
      <4> QED
        BY <4>1, <4>2
    <3> QED
      BY <3>1, <3>2
  <2>2. CASE pc'[p] = "off" \/ p \notin Trying
    <3>1. Trying' = Trying \ {p} /\ Busy' = Busy \ {p}
      BY <1>1, <1>2, <1>4, <2>2 DEF Trying, Busy, Inside
    <3>2. TL!Die(p)
      BY <1>1, <2>1, <3>1 DEF TL!Die
    <3> QED
      BY <3>2 DEF TL!TryLockNext
  <2>3. CASE pc'[p] = pc[p] /\ p \in Trying
    <3>1. pc' = pc
      BY <1>2, <2>3 DEF Crash, KillShell, Exit
    <3>2. Trying' = Trying /\ Busy' = Busy
      BY <1>1, <3>1 DEF Trying, Busy, Inside
    <3>3. ~Holds(p)
      BY <2>3 DEF Trying, Inside, Holds
    <3>4. Holder' = Holder
      BY <1>3, <1>5, <3>3, SameHolder
    <3>5. TL!Die(p)
      BY <1>1, <3>2, <3>4 DEF TL!Die
    <3> QED
      BY <3>5 DEF TL!TryLockNext
  <2> QED
    BY <1>4, <2>2, <2>3
<1>6. CASE Holds(p)'
  <2>1. pc'[p] = "record" /\ pc[p] = "record"
    BY <1>4, <1>6 DEF Holds
  <2>2. pc' = pc
    BY <1>2, <2>1 DEF Crash, KillShell, Exit
  <2>3. Trying' = Trying /\ Busy' = Busy
    BY <1>1, <2>2 DEF Trying, Busy, Inside
  <2>4. Holder' = Holder
    BY <1>3, <2>1, SameHolder DEF Holds
  <2>5. TL!Die(p)
    BY <1>1, <2>3, <2>4 DEF TL!Die
  <2> QED
    BY <2>5 DEF TL!TryLockNext
<1> QED
  BY <1>5, <1>6

\* Until torn, the two lock files implement the lock bin/synchronized promises: one
\* holder at a time, turned away only by a holder met during the attempt, free again
\* after any death.
THEOREM LockProcImplementsTryLock == Spec => ImplementsTryLock
<1>1. Init => TL!TryLockInit
  <2> SUFFICES ASSUME Init PROVE TL!TryLockInit
    OBVIOUS
  <2>1. \A p \in Procs : ~Holds(p)
    BY DEF Init, Holds
  <2>2. Holder = NoOwner
    BY <2>1, NoHolder
  <2>3. Trying = {} /\ Busy = {}
    BY DEF Init, Trying, Busy, Inside
  <2> QED
    BY <2>2, <2>3 DEF Init, TL!TryLockInit
<1>2. IInv /\ [Next]_vars => [TL!TryLockNext]_TL!tlvars
  <2> SUFFICES ASSUME IInv, [Next]_vars
               PROVE  [TL!TryLockNext]_TL!tlvars
    OBVIOUS
  <2>1. CASE UNCHANGED vars
    <3>1. \A q \in Procs : Holds(q)' <=> Holds(q)
      BY <2>1 DEF vars, Holds
    <3>2. Trying' = Trying /\ Busy' = Busy /\ crashes' = crashes /\ torn' = torn
      BY <2>1 DEF vars, Trying, Busy, Inside
    <3> QED
      BY <3>1, <3>2, Unseen
  <2>2. ASSUME NEW p \in Procs, NEW sig \in {"term", "kill"}, OneOf(p, sig)
        PROVE  [TL!TryLockNext]_TL!tlvars
    <3>1. CASE torn'
      BY <3>1 DEF TL!TryLockNext
    <3>2. CASE ~torn'
      <4>1. Whole /\ ~torn
        BY <2>2, <3>2, ResidueOfTorn
      <4>2. torn' = torn
        BY <2>2, <3>2, <4>1, NextKeepsTypeOK DEF IInv, TypeOK
      <4> QED
        BY <2>2, <3>2, <4>1, <4>2, LookingImplements, UnlockImplements, LockfileImplements,
           RunningImplements, SignalImplements, DyingImplements DEF OneOf, Step
    <3> QED
      BY <3>1, <3>2
  <2> QED
    BY <2>1, <2>2 DEF Next, OneOf
<1> QED
  BY <1>1, <1>2, LockProcInvariant, PTL DEF Spec, ImplementsTryLock, TL!TryLockSpec
=============================================================================
