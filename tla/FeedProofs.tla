----------------------------- MODULE FeedProofs -----------------------------
(***************************************************************************)
(* Proofs about Feed, for any set of syncs that record and any number of   *)
(* crashes: type correctness, that a lock is leaked only by a crash, that  *)
(* a lone writer gets its item in, and that two writers lose nothing of a  *)
(* feed that was there.                                                    *)
(***************************************************************************)
EXTENDS Feed, FiniteSetTheorems, TLAPS

(***************************************************************************)
(* The lock belongs to somebody who is going to remove it.                 *)
(***************************************************************************)
Unlocking(p) == pc[p] \in {"read", "backup", "open", "write", "unlock", "trap"}

LockOwned == lock => crashes > 0 \/ \E p \in Procs : Unlocking(p)

(***************************************************************************)
(* What a writer that nobody overlaps relies on, from step to step.        *)
(***************************************************************************)
\* Its own call finds the feed as the call before has left it.
CallFits(p) ==
  /\ job[p] = "add" /\ pc[p] \in {"lock", "read"} => file # "missing"
  /\ job[p] = "new" /\ pc[p] \in {"check", "lock"} => ~lock /\ file = "missing"
  /\ job[p] = "readd" /\ pc[p] \in {"lock", "read"} => file = "whole"
  /\ job[p] = "readd" /\ pc[p] = "lock" => ~lock

\* It writes what contains its item, and finds it written; `new' writes no item yet.
Writes(p) ==
  /\ pc[p] = "backup" => file = "whole"
  /\ pc[p] \in {"backup", "open", "write"} => job[p] = "new" \/ p \in copy[p]
  /\ pc[p] = "write" => opened[p] /\ file = "empty"
  /\ pc[p] \in {"unlock", "trap"} /\ ~failing[p]
       => file = "whole" /\ (job[p] = "new" \/ p \in items)

\* It fails only in its first `add', for which `new' and `readd' make up.
FailsOnce(p) ==
  /\ failing[p] => job[p] = "add"
  /\ pc[p] = "exists" => Mendable
  /\ pc[p] = "remove" => ~lock
  /\ pc[p] = "check" => job[p] = "new"
  /\ pc[p] \in {"read", "backup"} => job[p] # "new"

AloneInv ==
  \A p \in Procs :
    /\ failing[p] => pc[p] = "trap"
    /\ alone = p /\ Active(p) => /\ \A q \in Procs : Active(q) => q = p
                                 /\ CallFits(p) /\ Writes(p) /\ FailsOnce(p)

(***************************************************************************)
(* Two writers.  In a feed that was there at first they come one after the *)
(* other.                                                                  *)
(***************************************************************************)
Inside(p) == pc[p] \in {"read", "backup", "open", "write", "unlock"}
Added == {p \in Procs : pc[p] \in {"unlock", "trap", "done"}}

\* Every call is an `add' that goes well.
OnlyAdds ==
  \A p \in Procs : /\ pc[p] \notin {"check", "remove", "failed"}
                   /\ job[p] = "add" /\ ~failing[p]

\* The lock of the one that is inside is its own, or was taken by the last unlock of one
\* that is done.
InsideAlone ==
  /\ \A p, q \in Procs : Inside(p) /\ Inside(q) => p = q
  /\ \A p \in Procs : Inside(p) => lock \/ \E q \in Procs : pc[q] = "done"

\* No item that was added is lost, be it in the feed or on its way there.
ItemsSafe ==
  /\ \/ file = "whole" /\ Added \cup {Old} \subseteq items
     \/ file = "empty" /\ \E p \in Procs : pc[p] = "write"
  /\ \A p \in Procs :
       /\ pc[p] \in {"backup", "open", "write"} => Added \cup {Old, p} \subseteq copy[p]
       /\ pc[p] = "write" => opened[p] /\ file = "empty"

TwoCame == \A p, q, r \in Came : p = q \/ q = r \/ p = r

TwoInv == ~disturbed /\ TwoCame /\ held # {} => OnlyAdds /\ InsideAlone /\ ItemsSafe

FeedInv == TypeOK /\ LockOwned /\ AloneInv /\ TwoInv

---------------------------------------------------------------------------
LEMMA InitTypeOK == Init => TypeOK
<1> SUFFICES ASSUME Init PROVE TypeOK
  OBVIOUS
<1>1. items \subseteq Items
  BY DEF Init, Items
<1>2. copy \in [Procs -> SUBSET Items]
  BY DEF Init
<1>3. /\ pc \in [Procs -> Steps] /\ job \in [Procs -> Jobs]
      /\ opened \in [Procs -> BOOLEAN] /\ failing \in [Procs -> BOOLEAN]
  BY DEF Init, Steps, Jobs
<1>4. crashes \in 0..MaxCrashes
  BY FeedAssumption DEF Init
<1> QED
  BY <1>1, <1>2, <1>3, <1>4 DEF Init, TypeOK

LEMMA StepTypeOK ==
  ASSUME TypeOK, NEW p \in Procs, Start(p) \/ Step(p) \/ Crash(p)
  PROVE  TypeOK'
<1> USE FeedAssumption DEF TypeOK, Steps, Jobs, Goto, feed, mind, history
<1>1. CASE Start(p)
  BY <1>1 DEF Start
<1>2. CASE FeedExists(p)
  BY <1>2 DEF FeedExists, Call
<1>3. CASE RemoveFeed(p)
  BY <1>3 DEF RemoveFeed, Call
<1>4. CASE CheckNew(p)
  BY <1>4 DEF CheckNew, Fail
<1>5. CASE Lock(p)
  BY <1>5 DEF Lock
<1>6. CASE ForceLock(p)
  BY <1>6 DEF ForceLock
<1>7. CASE LockBusy(p)
  BY <1>7 DEF LockBusy, Fail
<1>8. CASE Transform(p)
  <2>1. copy' \in [Procs -> SUBSET Items]
    <3> items \cup {p} \in SUBSET Items
      BY DEF Items
    <3> QED
      BY <1>8 DEF Transform
  <2>2. pc' \in [Procs -> Steps] /\ failing' \in [Procs -> BOOLEAN]
    BY <1>8 DEF Transform, Fail
  <2> QED
    BY <1>8, <2>1, <2>2 DEF Transform
<1>9. CASE Backup(p)
  BY <1>9 DEF Backup, Fail
<1>10. CASE Open(p)
  BY <1>10 DEF Open
<1>11. CASE Write(p)
  BY <1>11 DEF Write
<1>12. CASE Unlock(p)
  BY <1>12 DEF Unlock
<1>13. CASE Trap(p)
  BY <1>13 DEF Trap, Call
<1>14. CASE Crash(p)
  BY <1>14 DEF Crash
<1> QED
  BY <1>1, <1>2, <1>3, <1>4, <1>5, <1>6, <1>7, <1>8, <1>9, <1>10, <1>11, <1>12, <1>13, <1>14 DEF Step

LEMMA AgeLockTypeOK == TypeOK /\ AgeLock => TypeOK'
  BY DEF TypeOK, AgeLock, mind, history

LEMMA StutterTypeOK == TypeOK /\ UNCHANGED vars => TypeOK'
  BY DEF TypeOK, vars

\* A feed, its lock and every allim are in one of the states that Feed names.
THEOREM FeedTypeOK == Spec => []TypeOK
<1>1. TypeOK /\ [Next]_vars => TypeOK'
  BY StepTypeOK, AgeLockTypeOK, StutterTypeOK DEF Next
<1> QED
  BY <1>1, InitTypeOK, PTL DEF Spec

---------------------------------------------------------------------------
\* Whoever takes the lock goes on to an unlock, at the latest in its EXIT trap.
LEMMA StepLockOwned ==
  ASSUME TypeOK, LockOwned, NEW p \in Procs, Start(p) \/ Step(p) \/ Crash(p)
  PROVE  LockOwned'
<1> USE FeedAssumption DEF TypeOK, LockOwned, Unlocking, Goto, feed, mind, history
<1>1. CASE Start(p)
  BY <1>1 DEF Start
<1>2. CASE FeedExists(p)
  BY <1>2 DEF FeedExists, Call
<1>3. CASE RemoveFeed(p)
  BY <1>3 DEF RemoveFeed, Call
<1>4. CASE CheckNew(p)
  BY <1>4 DEF CheckNew, Fail
<1>5. CASE Lock(p)
  BY <1>5 DEF Lock
<1>6. CASE ForceLock(p)
  BY <1>6 DEF ForceLock
<1>7. CASE LockBusy(p)
  BY <1>7 DEF LockBusy, Fail
<1>8. CASE Transform(p)
  BY <1>8 DEF Transform, Fail
<1>9. CASE Backup(p)
  BY <1>9 DEF Backup, Fail
<1>10. CASE Open(p)
  BY <1>10 DEF Open
<1>11. CASE Write(p)
  BY <1>11 DEF Write
<1>12. CASE Unlock(p)
  BY <1>12 DEF Unlock
<1>13. CASE Trap(p)
  BY <1>13 DEF Trap, Call
<1>14. CASE Crash(p)
  BY <1>14 DEF Crash
<1> QED
  BY <1>1, <1>2, <1>3, <1>4, <1>5, <1>6, <1>7, <1>8, <1>9, <1>10, <1>11, <1>12, <1>13, <1>14 DEF Step

\* Nobody else moves while a writer is alone, and each call leaves the feed
\* and the lock as the next one needs them.
LEMMA StepAlone ==
  ASSUME TypeOK, AloneInv, NEW p \in Procs, alone = p, Active(p), Step(p),
         alone' = p, Active(p)'
  PROVE  CallFits(p)' /\ Writes(p)' /\ FailsOnce(p)'
<1> USE FeedAssumption DEF TypeOK, AloneInv, CallFits, Writes, FailsOnce, Mendable, Active,
                          Goto, feed, mind, history
<1>1. CASE FeedExists(p)
  BY <1>1 DEF FeedExists, Call
<1>2. CASE RemoveFeed(p)
  BY <1>2 DEF RemoveFeed, Call
<1>3. CASE CheckNew(p)
  BY <1>3 DEF CheckNew, Fail
<1>4. CASE Lock(p)
  BY <1>4 DEF Lock
<1>5. CASE ForceLock(p)
  BY <1>5 DEF ForceLock
<1>6. CASE LockBusy(p)
  <2>1. lock /\ job[p] = "add"
    BY <1>6 DEF LockBusy, Jobs
  <2> QED
    BY <1>6, <2>1 DEF LockBusy, Fail
<1>7. CASE Transform(p)
  <2>1. CASE file = "whole"
    BY <1>7, <2>1 DEF Transform
  <2>2. CASE file # "whole"
    <3>1. job[p] = "add"
      BY <1>7, <2>2 DEF Transform, Jobs
    <3> QED
      BY <1>7, <2>2, <3>1 DEF Transform, Fail
  <2> QED
    BY <2>1, <2>2
<1>8. CASE Backup(p)
  BY <1>8 DEF Backup, Fail
<1>9. CASE Open(p)
  BY <1>9 DEF Open
<1>10. CASE Write(p)
  BY <1>10 DEF Write
<1>11. CASE Unlock(p)
  BY <1>11 DEF Unlock
<1>12. CASE Trap(p)
  BY <1>12 DEF Trap, Call
<1> QED
  BY <1>1, <1>2, <1>3, <1>4, <1>5, <1>6, <1>7, <1>8, <1>9, <1>10, <1>11, <1>12 DEF Step

LEMMA StepFailing ==
  ASSUME TypeOK, AloneInv, NEW p \in Procs, Start(p) \/ Step(p) \/ Crash(p),
         NEW a \in Procs, failing'[a]
  PROVE  pc'[a] = "trap"
<1> USE DEF TypeOK, AloneInv, Goto, feed, mind, history
<1>1. CASE Start(p)
  BY <1>1 DEF Start
<1>2. CASE FeedExists(p)
  BY <1>2 DEF FeedExists, Call
<1>3. CASE RemoveFeed(p)
  BY <1>3 DEF RemoveFeed, Call
<1>4. CASE CheckNew(p)
  BY <1>4 DEF CheckNew, Fail
<1>5. CASE Lock(p)
  BY <1>5 DEF Lock
<1>6. CASE ForceLock(p)
  BY <1>6 DEF ForceLock
<1>7. CASE LockBusy(p)
  BY <1>7 DEF LockBusy, Fail
<1>8. CASE Transform(p)
  BY <1>8 DEF Transform, Fail
<1>9. CASE Backup(p)
  BY <1>9 DEF Backup, Fail
<1>10. CASE Open(p)
  BY <1>10 DEF Open
<1>11. CASE Write(p)
  BY <1>11 DEF Write
<1>12. CASE Unlock(p)
  BY <1>12 DEF Unlock
<1>13. CASE Trap(p)
  BY <1>13 DEF Trap, Call
<1>14. CASE Crash(p)
  BY <1>14 DEF Crash
<1> QED
  BY <1>1, <1>2, <1>3, <1>4, <1>5, <1>6, <1>7, <1>8, <1>9, <1>10, <1>11, <1>12, <1>13, <1>14 DEF Step

LEMMA StepAloneInv ==
  ASSUME TypeOK, AloneInv, NEW p \in Procs, Start(p) \/ Step(p) \/ Crash(p)
  PROVE  AloneInv'
<1> SUFFICES ASSUME NEW a \in Procs, alone' = a, Active(a)'
             PROVE  /\ \A q \in Procs : Active(q)' => q = a
                    /\ CallFits(a)' /\ Writes(a)' /\ FailsOnce(a)'
  BY StepFailing DEF AloneInv
<1>1. CASE Start(p)
  <2>1. a = p /\ Mendable /\ \A q \in Procs : ~Active(q)
    BY <1>1, FeedAssumption DEF Start
  <2>2. ~failing[p]
    BY <1>1, <2>1 DEF Start, AloneInv
  <2> QED
    BY <1>1, <2>1, <2>2
       DEF Start, TypeOK, CallFits, Writes, FailsOnce, Mendable, Active, Goto, feed, mind
<1>2. CASE Step(p)
  <2>1. alone' = alone
    BY <1>2 DEF Step, history, FeedExists, RemoveFeed, CheckNew, Lock, ForceLock, LockBusy,
                Transform, Backup, Open, Write, Unlock, Trap
  <2>2. Active(p)
    BY <1>2 DEF Step, Active, FeedExists, RemoveFeed, CheckNew, Lock, ForceLock, LockBusy,
                Transform, Backup, Open, Write, Unlock, Trap
  <2>3. \A q \in Procs : q # p => pc'[q] = pc[q]
    BY <1>2 DEF TypeOK, Step, Goto, Call, Fail, FeedExists, RemoveFeed, CheckNew, Lock, ForceLock,
                LockBusy, Transform, Backup, Open, Write, Unlock, Trap
  <2> QED
    BY <1>2, <2>1, <2>2, <2>3, StepAlone DEF AloneInv, Active
<1>3. CASE Crash(p)
  BY <1>3 DEF Crash, AloneInv, TypeOK, Active, Goto
<1> QED
  BY <1>1, <1>2, <1>3
---------------------------------------------------------------------------
\* A process that has come is never forgotten.
LEMMA StepCame ==
  ASSUME TypeOK, NEW p \in Procs, Start(p) \/ Step(p) \/ Crash(p)
  PROVE  /\ Came' = Came \/ Came' = Came \cup {p}
         /\ p \in Came'
<1> USE DEF TypeOK, Came, Goto
<1>1. CASE Start(p)
  BY <1>1 DEF Start
<1>2. CASE FeedExists(p)
  BY <1>2 DEF FeedExists, Call
<1>3. CASE RemoveFeed(p)
  BY <1>3 DEF RemoveFeed, Call
<1>4. CASE CheckNew(p)
  BY <1>4 DEF CheckNew, Fail
<1>5. CASE Lock(p)
  BY <1>5 DEF Lock
<1>6. CASE ForceLock(p)
  BY <1>6 DEF ForceLock
<1>7. CASE LockBusy(p)
  BY <1>7 DEF LockBusy, Fail
<1>8. CASE Transform(p)
  BY <1>8 DEF Transform, Fail
<1>9. CASE Backup(p)
  BY <1>9 DEF Backup, Fail
<1>10. CASE Open(p)
  BY <1>10 DEF Open
<1>11. CASE Write(p)
  BY <1>11 DEF Write
<1>12. CASE Unlock(p)
  BY <1>12 DEF Unlock
<1>13. CASE Trap(p)
  BY <1>13 DEF Trap, Call
<1>14. CASE Crash(p)
  BY <1>14 DEF Crash
<1> QED
  BY <1>1, <1>2, <1>3, <1>4, <1>5, <1>6, <1>7, <1>8, <1>9, <1>10, <1>11, <1>12, <1>13, <1>14 DEF Step

\* A step that disturbs nothing, and takes no lock from under another.
LEMMA StepTwo ==
  ASSUME TypeOK, OnlyAdds, InsideAlone, ItemsSafe,
         NEW p \in Procs, Start(p) \/ Step(p), ~disturbed', TwoCame'
  PROVE  OnlyAdds' /\ InsideAlone' /\ ItemsSafe'
<1> USE FeedAssumption
    DEF TypeOK, OnlyAdds, InsideAlone, ItemsSafe, TwoCame, Came, Added, Inside, Goto, feed,
        mind, history
<1>1. CASE Start(p)
  BY <1>1 DEF Start
<1>2. CASE FeedExists(p)
  BY <1>2 DEF FeedExists, Call
<1>3. CASE RemoveFeed(p)
  BY <1>3 DEF RemoveFeed, Call
<1>4. CASE CheckNew(p)
  BY <1>4 DEF CheckNew, Fail
<1>5. CASE Lock(p)
  BY <1>5 DEF Lock
<1>6. CASE ForceLock(p)
  BY <1>6 DEF ForceLock
<1>7. CASE LockBusy(p)
  BY <1>7 DEF LockBusy, Fail
<1>8. CASE Transform(p)
  BY <1>8 DEF Transform, Fail
<1>9. CASE Backup(p)
  BY <1>9 DEF Backup, Fail
<1>10. CASE Open(p)
  BY <1>10 DEF Open
<1>11. CASE Write(p)
  BY <1>11 DEF Write
<1>12. CASE Unlock(p)
  BY <1>12 DEF Unlock
<1>13. CASE Trap(p)
  BY <1>13 DEF Trap, Call
<1> QED
  BY <1>1, <1>2, <1>3, <1>4, <1>5, <1>6, <1>7, <1>8, <1>9, <1>10, <1>11, <1>12, <1>13 DEF Step

\* Once a third process has come or something has been disturbed, it stays so.
LEMMA StepDisturbed ==
  ASSUME TypeOK, NEW p \in Procs, Start(p) \/ Step(p), ~disturbed'
  PROVE  ~disturbed
  BY DEF TypeOK, Start, Step, history, FeedExists, RemoveFeed, CheckNew, Lock, ForceLock,
         LockBusy, Transform, Backup, Open, Write, Unlock, Trap

LEMMA StepTwoInv ==
  ASSUME TypeOK, TwoInv, NEW p \in Procs, Start(p) \/ Step(p) \/ Crash(p)
  PROVE  TwoInv'
<1> SUFFICES ASSUME ~disturbed', TwoCame', held' # {}
             PROVE  OnlyAdds' /\ InsideAlone' /\ ItemsSafe'
  BY DEF TwoInv
<1>1. Start(p) \/ Step(p)
  BY DEF Crash
<1>2. ~disturbed
  BY <1>1, StepDisturbed
<1>3. TwoCame
  BY StepCame DEF TwoCame
<1>4. held # {}
  BY <1>1 DEF Start, Step, history, FeedExists, RemoveFeed, CheckNew, Lock, ForceLock,
              LockBusy, Transform, Backup, Open, Write, Unlock, Trap
<1> QED
  BY <1>1, <1>2, <1>3, <1>4, StepTwo DEF TwoInv

---------------------------------------------------------------------------
LEMMA InitFeedInv == Init => FeedInv
<1> SUFFICES ASSUME Init PROVE FeedInv
  OBVIOUS
<1>1. LockOwned /\ AloneInv
  BY FeedAssumption DEF Init, LockOwned, AloneInv, Active
<1>2. ASSUME file = "whole" PROVE OnlyAdds /\ InsideAlone /\ ItemsSafe
  BY <1>2 DEF Init, OnlyAdds, InsideAlone, Inside, ItemsSafe, Added
<1>3. ASSUME file = "missing" PROVE held = {}
  BY <1>3 DEF Init
<1>4. file = "whole" \/ file = "missing"
  BY DEF Init
<1> QED
  BY <1>1, <1>2, <1>3, <1>4, InitTypeOK DEF FeedInv, TwoInv

LEMMA NextFeedInv == FeedInv /\ [Next]_vars => FeedInv'
<1>1. ASSUME FeedInv, NEW p \in Procs, Start(p) \/ Step(p) \/ Crash(p) PROVE FeedInv'
  BY <1>1, StepTypeOK, StepLockOwned, StepAloneInv, StepTwoInv DEF FeedInv
<1>2. FeedInv /\ AgeLock => FeedInv'
  <2> SUFFICES ASSUME FeedInv, AgeLock PROVE FeedInv'
    OBVIOUS
  <2>1. UNCHANGED <<lock, file, items, pc, job, mind, history>>
    BY DEF AgeLock
  <2>2. LockOwned' /\ AloneInv'
    BY <2>1 DEF FeedInv, LockOwned, Unlocking, AloneInv, Active, CallFits, Writes, FailsOnce,
                Mendable, mind, history
  <2>3. TwoInv'
    BY <2>1 DEF FeedInv, TwoInv, TwoCame, Came, OnlyAdds, InsideAlone, Inside,
                ItemsSafe, Added, mind, history
  <2> QED
    BY <2>2, <2>3, AgeLockTypeOK DEF FeedInv
<1>3. FeedInv /\ UNCHANGED vars => FeedInv'
  BY StutterTypeOK DEF FeedInv, vars, LockOwned, Unlocking, AloneInv, Active, CallFits, Writes,
         FailsOnce, Mendable, TwoInv, TwoCame, Came, OnlyAdds, InsideAlone,
         Inside, ItemsSafe, Added
<1> QED
  BY <1>1, <1>2, <1>3 DEF Next

\* The invariant behind the theorems: locks are owned, a writer that is alone finds what
\* its last call has left, and two writers come one after the other.
THEOREM FeedInvariant == Spec => []FeedInv
  BY InitFeedInv, NextFeedInv, PTL DEF Spec

\* Whatever calls overlap, give up or force the lock, none of them leaves it behind: only
\* a process that dies without its trap does.
THEOREM FeedNoLockLeft == Spec => []NoLockLeft
<1>1. FeedInv => NoLockLeft
  BY FeedAssumption DEF FeedInv, LockOwned, Unlocking, NoLockLeft, Quiet, Active, TypeOK
<1> QED
  BY <1>1, FeedInvariant, PTL

\* A writer that nobody overlaps ends with its item recorded in a whole feed, whatever
\* stale lock, torn or missing feed it met, unless it met a lock without a feed.
THEOREM FeedAddReliably == Spec => AddReliably
<1>1. ASSUME FeedInv, [Next]_vars
      PROVE  [\A p \in Procs :
                alone = p /\ Active(p) /\ pc'[p] \in {"done", "failed"} /\ crashes' = crashes
                  => pc'[p] = "done" /\ file' = "whole" /\ p \in items']_vars
  <2> SUFFICES ASSUME Next, NEW p \in Procs, alone = p, Active(p),
                      pc'[p] \in {"done", "failed"}, crashes' = crashes
               PROVE  pc'[p] = "done" /\ file' = "whole" /\ p \in items'
    BY <1>1
  <2> USE <1>1 DEF FeedInv
  <2>1. ~AgeLock
    BY DEF AgeLock, Active
  <2>2. PICK q \in Procs : Start(q) \/ Step(q) \/ Crash(q)
    BY <2>1 DEF Next
  <2>3. q = p
    BY <2>2 DEF AloneInv, Active, Step, Start, Crash, TypeOK, Goto, Call, Fail, FeedExists,
                RemoveFeed, CheckNew, Lock, ForceLock, LockBusy, Transform, Backup, Open, Write,
                Unlock, Trap
  <2>4. Trap(p)
    BY <2>2, <2>3 DEF Active, Step, Start, Crash, TypeOK, Goto, Call, Fail, FeedExists,
                RemoveFeed, CheckNew, Lock, ForceLock, LockBusy, Transform, Backup, Open, Write,
                Unlock
  <2>5. ~failing[p] /\ job[p] # "new"
    BY <2>4 DEF Trap, Goto, Call, TypeOK, AloneInv, FailsOnce
  <2> QED
    BY <2>4, <2>5 DEF Trap, Goto, TypeOK, AloneInv, Writes
<1> QED
  BY <1>1, FeedInvariant, PTL DEF Spec, AddReliably

---------------------------------------------------------------------------
\* Processes come one at a time, so there are never infinitely many.
LEMMA CameFinite == Spec => []IsFiniteSet(Came)
<1>1. Init => IsFiniteSet(Came)
  <2>1. Init => Came = {}
    BY DEF Init, Came
  <2> QED
    BY <2>1, FS_EmptySet
<1>2. TypeOK /\ IsFiniteSet(Came) /\ [Next]_vars => IsFiniteSet(Came)'
  <2> SUFFICES ASSUME TypeOK, IsFiniteSet(Came), [Next]_vars PROVE IsFiniteSet(Came')
    OBVIOUS
  <2>1. ASSUME NEW p \in Procs, Start(p) \/ Step(p) \/ Crash(p) PROVE IsFiniteSet(Came')
    BY <2>1, StepCame, FS_AddElement
  <2>2. UNCHANGED pc => Came' = Came
    BY DEF Came
  <2> QED
    BY <2>1, <2>2 DEF Next, AgeLock, vars
<1> QED
  BY <1>1, <1>2, FeedTypeOK, PTL DEF Spec

LEMMA TwoIsNotThree ==
  ASSUME IsFiniteSet(Came), Cardinality(Came) <= 2
  PROVE  TwoCame
<1> SUFFICES ASSUME NEW p \in Came, NEW q \in Came, NEW r \in Came, p # q, q # r, p # r
             PROVE  FALSE
  BY DEF TwoCame
<1>1. IsFiniteSet({}) /\ Cardinality({}) = 0
  BY FS_EmptySet
<1>2. IsFiniteSet({p}) /\ Cardinality({p}) = 1
  BY FS_Singleton
<1>3. IsFiniteSet({p, q}) /\ Cardinality({p, q}) = 2
  <2>1. {p, q} = {p} \cup {q} /\ q \notin {p}
    OBVIOUS
  <2>2. IsFiniteSet({p} \cup {q}) /\ Cardinality({p} \cup {q}) = Cardinality({p}) + 1
    BY <1>2, <2>1, FS_AddElement
  <2> QED
    BY <1>2, <2>1, <2>2
<1>4. Cardinality({p, q, r}) = 3
  <2>1. {p, q, r} = {p, q} \cup {r} /\ r \notin {p, q}
    OBVIOUS
  <2> QED
    BY <1>3, <2>1, FS_AddElement
<1>5. {p, q, r} \subseteq Came
  OBVIOUS
<1> QED
  BY <1>4, <1>5, FS_Subset, FS_CardinalityType

\* Of a feed that was there two syncs lose nothing: it ends whole, with the items of all
\* who came and with what it held at first, although the second unlock of the one may
\* take the lock of the other.
THEOREM FeedTwoKeepItems == Spec => []TwoKeepItems
<1>1. FeedInv /\ IsFiniteSet(Came) => TwoKeepItems
  <2> SUFFICES ASSUME FeedInv, IsFiniteSet(Came), Quiet, ~disturbed, Cardinality(Came) <= 2,
                      held # {}
               PROVE  file = "whole" /\ Came \cup held \subseteq items
    BY DEF TwoKeepItems
  <2>1. OnlyAdds /\ ItemsSafe
    BY TwoIsNotThree DEF FeedInv, TwoInv
  <2>2. Came \subseteq Added
    BY <2>1 DEF Came, Added, OnlyAdds, Quiet, Active
  <2>3. held \subseteq {Old}
    BY DEF FeedInv, TypeOK
  <2> QED
    BY <2>1, <2>2, <2>3 DEF ItemsSafe, Quiet, Active
<1> QED
  BY <1>1, FeedInvariant, CameFinite, PTL
=============================================================================
