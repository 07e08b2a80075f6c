----------------------------- MODULE LockProc ------------------------------
(***************************************************************************)
(* bin/lockproc and bin/synchronized: a lock made of two files, Lock and   *)
(* Lock.owner, used by short-lived processes of one host.                  *)
(*                                                                         *)
(* Every step is one system call that other processes can see: a test, a   *)
(* read, an unlink, lockfile(1)'s exclusive creation, a write, a signal.   *)
(* A process is named by its pid, which is also its process group, because *)
(* synchronized makes itself a group leader first.  A process runs one of  *)
(*   - synchronized: grab, then the command, then release (its EXIT trap); *)
(*   - lockproc LOCK kill: signal the owner, then clean if it is gone.     *)
(*                                                                         *)
(* Nothing keeps two lockproc calls on one lock apart: cron spaces starts, *)
(* a command ends whenever it ends, and anybody may call.  The calls here  *)
(* interleave in every order.  What the lock cannot stand is two meetings  *)
(* of calls, named at TryLockfile and at ReadOwner; the history variable   *)
(* torn, which no guard reads, remembers that one of them happened.        *)
(***************************************************************************)
EXTENDS Naturals

CONSTANTS Procs,       \* pids
          NoOwner,     \* what reading a missing or empty Lock.owner gives
          MaxCrashes   \* bound on the processes that die without a trap

ASSUME LockProcAssumption == /\ NoOwner \notin Procs
                             /\ MaxCrashes \in Nat

VARIABLES lock,      \* does Lock exist?
          owner,     \* the pid in Lock.owner
          pc,        \* the next step of each process
          op,        \* the lockproc command each process is inside
          pgrp,      \* the owner that `alive' read
          victim,    \* the owner that `kill' read
          matched,   \* did the glob Lock.* of `clean' find Lock.owner?
          orphans,   \* processes whose synchronized was killed while its command,
                     \* or the lockproc it called, goes on
          crashes,   \* kills without a trap so far
          torn       \* history: did two calls meet in a way the lock cannot stand?

vars == <<lock, owner, pc, op, pgrp, victim, matched, orphans, crashes, torn>>

Steps == {"off", "exists", "owner", "ps", "glob", "unlock", "disown",
          "lockfile", "record", "run", "signal"}
Ops == {"grab", "release", "term", "kill", "final"}

Running(p) == pc[p] = "run"
Inside(p) == pc[p] \notin {"off", "run"}

Cleaning(p) == pc[p] \in {"glob", "unlock", "disown"}

\* The process that is to release the lock, once its command ends.
Guarded(p) == Running(p) /\ p \notin orphans

\* ps -p PID, which fails too when it is given no pid at all.
Live(p) == p # NoOwner /\ pc[p] # "off" /\ p \notin orphans

Init == /\ lock = FALSE
        /\ owner = NoOwner
        /\ pc = [p \in Procs |-> "off"]
        /\ op = [p \in Procs |-> "grab"]
        /\ pgrp = [p \in Procs |-> NoOwner]
        /\ victim = [p \in Procs |-> NoOwner]
        /\ matched = [p \in Procs |-> FALSE]
        /\ orphans = {}
        /\ crashes = 0
        /\ torn = FALSE

\* The kernel gives no new process a pid that a file or a process still refers
\* to; the pid of an orphan is the group of what goes on.
Unreferenced(p) == /\ owner # p
                   /\ \A q \in Procs : pgrp[q] # p /\ victim[q] # p

Goto(p, step) == pc' = [pc EXCEPT ![p] = step]
Enter(p, cmd, step) == Goto(p, step) /\ op' = [op EXCEPT ![p] = cmd]

\* A process that ends forgets its shell variables.
Exit(p) == /\ Goto(p, "off")
           /\ pgrp' = [pgrp EXCEPT ![p] = NoOwner]
           /\ victim' = [victim EXCEPT ![p] = NoOwner]
           /\ matched' = [matched EXCEPT ![p] = FALSE]
           /\ orphans' = orphans \ {p}
           /\ UNCHANGED op

---------------------------------------------------------------------------
(* Starting a process *)

\* synchronized starts, becomes a group leader and calls lockproc Lock grab $$.
Start(p) == /\ pc[p] = "off" /\ Unreferenced(p)
            /\ Enter(p, "grab", "exists")
            /\ UNCHANGED <<lock, owner, pgrp, victim, matched, orphans, crashes, torn>>

\* lockproc Lock kill reads the owner; without one it does nothing.  TERM is
\* sent once, KILL until the owner is gone.
Kill(p, sig) == /\ pc[p] = "off" /\ Unreferenced(p)
                /\ owner # NoOwner
                /\ victim' = [victim EXCEPT ![p] = owner]
                /\ Enter(p, sig, "exists")
                /\ UNCHANGED <<lock, owner, pgrp, matched, orphans, crashes, torn>>

---------------------------------------------------------------------------
(* lockproc alive: [ -e Lock ], then Lock.owner is read, then ps -p *)

\* Where each command goes when `alive' answers yes.
WhenAlive(p) ==
  \/ /\ op[p] # "final"
     /\ Goto(p, IF op[p] = "grab" THEN "lockfile" ELSE "signal")
     /\ UNCHANGED <<op, pgrp, victim, matched, orphans>>
  \/ op[p] = "final" /\ Exit(p)

\* Mutant: grab goes on to lockfile without cleaning.
WhenDeadUncleaned(p) ==
  /\ IF op[p] \in {"term", "kill"} THEN Enter(p, "final", "exists")
                                   ELSE Goto(p, "lockfile") /\ UNCHANGED op
  /\ pgrp' = [pgrp EXCEPT ![p] = NoOwner]
  /\ UNCHANGED <<victim, matched, orphans>>

\* ... and when it answers no: kill leaves its loop for a last check.
WhenDead(p) ==
  /\ IF op[p] \in {"term", "kill"} THEN Enter(p, "final", "exists")
                                   ELSE Goto(p, "glob") /\ UNCHANGED op
  /\ pgrp' = [pgrp EXCEPT ![p] = NoOwner]
  /\ UNCHANGED <<victim, matched, orphans>>

Exists(p) == /\ pc[p] = "exists"
             /\ IF lock THEN /\ Goto(p, "owner")
                             /\ UNCHANGED <<op, pgrp, victim, matched, orphans>>
                        ELSE WhenDead(p)
             /\ UNCHANGED <<lock, owner, crashes, torn>>

\* Mutant: the host is not cut off the owner.
ReadOwnerWithHost(p) == /\ pc[p] = "owner"
                        /\ pgrp' = [pgrp EXCEPT ![p] = <<"host", owner>>]
                        /\ Goto(p, "ps")
                        /\ UNCHANGED <<lock, owner, op, victim, matched, orphans, crashes, torn>>

\* The looks that `clean' follows when they find nobody.
LooksToClean(p) == op[p] \in {"grab", "final"}

\* It tears the lock to look, so, at a lock that is created but not recorded yet.
ReadOwner(p) == /\ pc[p] = "owner"
                /\ pgrp' = [pgrp EXCEPT ![p] = owner]
                /\ Goto(p, "ps")
                /\ torn' = (torn \/ (LooksToClean(p) /\ \E q \in Procs : pc[q] = "record"))
                /\ UNCHANGED <<lock, owner, op, victim, matched, orphans, crashes>>

\* Mutants: the recorded owner is never, or always, taken for a live one.
AskPsNeverAlive(p) == /\ pc[p] = "ps"
                      /\ WhenDead(p)
                      /\ UNCHANGED <<lock, owner, crashes, torn>>

AskPsAlwaysAlive(p) == /\ pc[p] = "ps"
                       /\ WhenAlive(p)
                       /\ UNCHANGED <<lock, owner, crashes, torn>>

AskPs(p) == /\ pc[p] = "ps"
            /\ IF Live(pgrp[p]) THEN WhenAlive(p) ELSE WhenDead(p)
            /\ UNCHANGED <<lock, owner, crashes, torn>>

---------------------------------------------------------------------------
(* lockproc clean, which is also release: rm -f Lock Lock.* *)

Glob(p) == /\ pc[p] = "glob"
           /\ matched' = [matched EXCEPT ![p] = owner # NoOwner]
           /\ Goto(p, "unlock")
           /\ UNCHANGED <<lock, owner, op, pgrp, victim, orphans, crashes, torn>>

\* Mutant: only Lock.* is removed.
UnlockNothing(p) == /\ pc[p] = "unlock"
                    /\ Goto(p, "disown")
                    /\ UNCHANGED <<lock, owner, op, pgrp, victim, matched, orphans, crashes, torn>>

Unlock(p) == /\ pc[p] = "unlock"
             /\ lock' = FALSE
             /\ Goto(p, "disown")
             /\ UNCHANGED <<owner, op, pgrp, victim, matched, orphans, crashes, torn>>

Disown(p) == /\ pc[p] = "disown"
             /\ owner' = IF matched[p] THEN NoOwner ELSE owner
             /\ IF op[p] = "grab"
                THEN /\ Goto(p, "lockfile")
                     /\ matched' = [matched EXCEPT ![p] = FALSE]
                     /\ UNCHANGED <<op, pgrp, victim, orphans>>
                ELSE Exit(p)
             /\ UNCHANGED <<lock, crashes, torn>>

---------------------------------------------------------------------------
(* The rest of grab, and the command *)

\* A process that has read the owner, or is cleaning: it unlinks what it finds later.
AboutToClean(p) == Cleaning(p) \/ (pc[p] = "ps" /\ LooksToClean(p))

\* lockfile -r0 creates Lock, exclusively.  To do so while another process is about
\* to clean tears the lock.
Create(p) == /\ ~lock
             /\ lock' = TRUE
             /\ torn' = (torn \/ \E q \in Procs : AboutToClean(q))
             /\ Goto(p, "record")

\* Mutant: the trap is set before grab, so that a refused process releases.
TryLockfileUnderTrap(p) == /\ pc[p] = "lockfile"
                           /\ \/ Create(p) /\ UNCHANGED op
                              \/ lock /\ Enter(p, "release", "glob") /\ UNCHANGED <<lock, torn>>
                           /\ UNCHANGED <<owner, pgrp, victim, matched, orphans, crashes>>

\* One attempt; synchronized exits when it fails.
TryLockfile(p) == /\ pc[p] = "lockfile"
                  /\ \/ Create(p) /\ UNCHANGED <<op, pgrp, victim, matched, orphans>>
                     \/ lock /\ Exit(p) /\ UNCHANGED <<lock, torn>>
                  /\ UNCHANGED <<owner, crashes>>

\* Lock.owner is written, and synchronized, if it is still there, sets its trap and
\* runs the command.
Record(p) == /\ pc[p] = "record"
             /\ owner' = p
             /\ IF p \in orphans
                THEN Exit(p)
                ELSE /\ pgrp' = [pgrp EXCEPT ![p] = NoOwner]
                     /\ Goto(p, "run")
                     /\ UNCHANGED <<op, victim, matched, orphans>>
             /\ UNCHANGED <<lock, crashes, torn>>

\* The command ends by itself, at any time, and the EXIT trap, if synchronized is
\* still there, calls lockproc Lock release.
Finish(p) == /\ pc[p] = "run"
             /\ IF p \in orphans
                THEN Exit(p)
                ELSE /\ Enter(p, "release", "glob")
                     /\ UNCHANGED <<pgrp, victim, matched, orphans>>
             /\ UNCHANGED <<lock, owner, crashes, torn>>

---------------------------------------------------------------------------
(* Signals and crashes *)

\* The effect of a signal to the group v: TERM ends the command and lets bash run its
\* EXIT trap, once that is set; anything else ends all processes of the group.
Signalled(v, sig) == IF sig = "term" /\ Guarded(v) THEN "glob" ELSE "off"

SendSignal(p) ==
  LET v == victim[p]
      next == Signalled(v, op[p])
  IN  /\ pc[p] = "signal"
      /\ pc' = [pc EXCEPT ![v] = next, ![p] = "exists"]
      /\ op' = [op EXCEPT ![v] = IF next = "glob" THEN "release" ELSE @,
                          ![p] = IF @ = "term" THEN "final" ELSE @]
      /\ pgrp' = [pgrp EXCEPT ![v] = NoOwner, ![p] = NoOwner]
      /\ victim' = [victim EXCEPT ![v] = NoOwner]
      /\ matched' = [matched EXCEPT ![v] = FALSE]
      /\ orphans' = orphans \ {v}
      /\ UNCHANGED <<lock, owner, crashes, torn>>

\* SIGKILL from elsewhere, or the end of the machine, for the whole group: no trap
\* runs.
Crash(p) == /\ pc[p] # "off"
            /\ crashes < MaxCrashes
            /\ crashes' = crashes + 1
            /\ Exit(p)
            /\ UNCHANGED <<lock, owner, torn>>

\* SIGKILL for synchronized alone: its command, or the lockproc it called, goes on,
\* but ps no longer finds the recorded pid and no trap is left to release.
KillShell(p) == /\ pc[p] # "off" /\ op[p] \in {"grab", "release"}
                /\ p \notin orphans
                /\ crashes < MaxCrashes
                /\ crashes' = crashes + 1
                /\ orphans' = orphans \cup {p}
                /\ UNCHANGED <<lock, owner, pc, op, pgrp, victim, matched, torn>>

---------------------------------------------------------------------------
Step(p) == \/ Exists(p) \/ ReadOwner(p) \/ AskPs(p)
           \/ Glob(p) \/ Unlock(p) \/ Disown(p)
           \/ TryLockfile(p) \/ Record(p)
           \/ SendSignal(p)

Next == \E p \in Procs :
          \/ Start(p)
          \/ \E sig \in {"term", "kill"} : Kill(p, sig)
          \/ Step(p)
          \/ Finish(p)
          \/ Crash(p)
          \/ KillShell(p)

\* cron starts the command again and again, and a shell script goes on.
Fairness == \A p \in Procs : WF_vars(Start(p)) /\ WF_vars(Step(p))

Spec == Init /\ [][Next]_vars
FairSpec == Spec /\ Fairness

---------------------------------------------------------------------------
TypeOK == /\ lock \in BOOLEAN
          /\ torn \in BOOLEAN
          /\ owner \in Procs \cup {NoOwner}
          /\ pc \in [Procs -> Steps]
          /\ op \in [Procs -> Ops]
          /\ pgrp \in [Procs -> Procs \cup {NoOwner}]
          /\ victim \in [Procs -> Procs \cup {NoOwner}]
          /\ matched \in [Procs -> BOOLEAN]
          /\ orphans \in SUBSET Procs
          /\ crashes \in 0..MaxCrashes

\* "Run one process for the command at a time" (bin/synchronized:2), as it stands.
OneAtATime == \A p, q \in Procs : Running(p) /\ Running(q) => p = q

\* Unless torn, two commands run at once only when one of them has lost its
\* synchronized to a SIGKILL: whatever crashes, and however a release meets the next
\* grabs short of the two meetings.
MutualExclusion ==
  torn \/ \A p, q \in Procs : Running(p) /\ Running(q) /\ p # q
                                => p \in orphans \/ q \in orphans

\* Unless torn, both files are there while a command runs, and name its process: no
\* call of another process, which decided on what it saw before, has cleaned them
\* away.
RunnerKeepsLock == torn \/ \A p \in Procs : Guarded(p) => lock /\ owner = p

(***************************************************************************)
(* Why the lock works unless it is torn.                                   *)
(***************************************************************************)

\* Each step belongs to the commands that contain it, and nobody signals itself.
StepOfCommand ==
  \A p \in Procs :
    /\ pc[p] \in {"lockfile", "record", "run"} => op[p] = "grab"
    /\ pc[p] \in {"exists", "owner", "ps"} => op[p] # "release"
    /\ Cleaning(p) => op[p] \in {"grab", "release", "final"}
    /\ pc[p] = "signal" => op[p] \in {"term", "kill"} /\ victim[p] # NoOwner
    /\ Inside(p) /\ op[p] \in {"term", "kill"} => victim[p] # NoOwner
    /\ victim[p] # p

\* The process that put Lock there and has yet to unlink it.
Holds(p) == \/ pc[p] = "record"
            \/ pc[p] = "run" /\ p \notin orphans
            \/ op[p] = "release" /\ pc[p] \in {"glob", "unlock"} /\ p \notin orphans

\* At most one process holds the lock, and Lock is there while one does, with its
\* name in Lock.owner once it is recorded.
OneHolder == \A p, q \in Procs : Holds(p) /\ Holds(q) => p = q
HolderKeepsLock == \A p \in Procs :
                     Holds(p) => lock /\ (pc[p] # "record" => owner = p)

\* Nobody is about to unlink a lock that has just been created, and only the holder
\* unlinks one that is held.
CreatorUndisturbed == \A p, q \in Procs : pc[p] = "record" => ~AboutToClean(q)
OnlyHolderCleans == \A p, q \in Procs : Cleaning(p) /\ Holds(q) => p = q

\* `alive' is about to ask for the process that holds the lock, if one does.
SeesHolder == \A p, q \in Procs :
                pc[p] = "ps" /\ LooksToClean(p) /\ Holds(q) => pgrp[p] = q

\* Between the two unlinks of `clean' there is no Lock.
NothingAfterUnlock == \A p \in Procs : pc[p] = "disown" => ~lock

\* A pid that is written down is that of a process past its own grab.
ReferencedPastGrab ==
  \A p, q \in Procs :
    /\ owner = p \/ pgrp[q] = p \/ victim[q] = p
    /\ pc[p] # "off"
    => pc[p] = "run" \/ op[p] = "release"

Whole == /\ OneHolder
         /\ HolderKeepsLock
         /\ CreatorUndisturbed
         /\ OnlyHolderCleans
         /\ SeesHolder
         /\ NothingAfterUnlock

IInv == /\ TypeOK
        /\ StepOfCommand
        /\ ReferencedPastGrab
        /\ torn \/ Whole

\* A lock left behind by a dead process.
StaleLock == lock /\ ~Live(owner) /\ \A p \in Procs : pc[p] # "record" /\ ~Guarded(p)

\* A stale lock never wedges the command: some later start runs it again.
StaleLockRecovered == StaleLock ~> \E p \in Procs : Guarded(p)

(***************************************************************************)
(* The abstract lock.  A process holds it from lockfile's success until    *)
(* the release unlinks Lock, or a SIGKILL leaves nobody to release it.  An *)
(* attempt is busy when it has come to lockfile and finds Lock there.      *)
(***************************************************************************)
Holder == IF \E p \in Procs : Holds(p) THEN CHOOSE p \in Procs : Holds(p) ELSE NoOwner

Trying == {p \in Procs : Inside(p) /\ op[p] = "grab" /\ pc[p] # "record"}
Busy == {p \in Trying : pc[p] = "lockfile" /\ lock}

TL == INSTANCE TryLock WITH holder <- Holder, trying <- Trying, busy <- Busy,
                            deaths <- crashes, broken <- torn

\* Until torn, the two files implement the lock that bin/synchronized promises: a
\* process is turned away only if another held the lock during its attempt, and a
\* holder that dies leaves it free for every later attempt.
ImplementsTryLock == TL!TryLockSpec
=============================================================================
