------------------------------ MODULE PkgSync ------------------------------
(***************************************************************************)
(* lib/sync.sh, lib/sync-steps.sh and the locking half of lib/pkg.sh: the  *)
(* invocations of one package's sync script, and the files they share in   *)
(* the package directory.                                                  *)
(*                                                                         *)
(* Every step is one thing other processes can see: a test, a read, an     *)
(* unlink, an exclusive creation, a write, a signal.  A process is named   *)
(* by its pid, which is its process group and session too.  "pushed" takes *)
(* the same path as "now"; "watch" changes nothing and is left out.        *)
(*                                                                         *)
(* Nothing keeps two invocations apart, and they interleave here in every  *)
(* order.  What the lock cannot stand is two meetings of invocations: a    *)
(* lock created while another process is about to clean, and a lock looked *)
(* at before its owner is recorded.  The history variable raced, which no  *)
(* guard reads, remembers that one of them happened.                       *)
(***************************************************************************)
EXTENDS Naturals

CONSTANTS Procs,        \* pids
          NoOwner,      \* what reading a missing or empty lock.owner gives
          Custom,       \* SyncCustom, as pkgs/pypi/sync sets it
          MaxFailures,  \* bound on the count in `failed'
          MaxCrashes    \* bound on the processes that die without a trap

ASSUME PkgSyncAssumption == /\ NoOwner \notin Procs
                            /\ Custom \in BOOLEAN
                            /\ MaxFailures \in Nat \ {0}
                            /\ MaxCrashes \in Nat

VARIABLES
  \* the files
  lock,        \* does lock exist?
  owner,       \* the pid in lock.owner
  expired,     \* is lock older than LockValidDays?
  log,         \* whose log the link `log' points to, NoOwner if there is no link
  failed,      \* the count in `failed', 0 if there is no file
  needsReport, \* does failed.needsreport exist?
  young,       \* is the timestamp younger than interval + penalty?
  degraded,    \* does /mirror/etc/noupdate exist?
  \* the processes
  pc,          \* the next step of each process
  op,          \* which caller of sync_in_progress or release_lock it is in
  trigger,     \* the argument of sync
  seen,        \* the owner that sync_in_progress read
  victim,      \* the owner that kill_lock_owner read
  count,       \* the count that increase_failures read
  result,      \* what became of the transfer
  crashes,     \* processes that died without a trap so far
  raced        \* history: did two invocations meet in a way the lock cannot stand?

files == <<lock, owner, expired, log, failed, needsReport, young, degraded>>
shell == <<seen, victim, count, result>>
vars == <<files, pc, op, trigger, shell, crashes, raced>>

Triggers == {"now", "regularly", "stop"}
Ops == {"guard", "acquire", "expire", "term", "wait", "stop", "end"}
\* Looking for and taking the lock, or cleaning up after a dead sync.
LockingSteps == {"exists", "owner", "ps", "ruins", "rmlog", "times", "expired", "victim",
                 "signal", "lockfile", "record", "unown", "unlock"}
\* Synchronizing: from the moment the lock is taken to the end of finish-sync.
TransferSteps == {"trap", "clear", "openlog", "run", "orphan"}
FinishSteps == {"stamp", "forgive", "count", "bump", "closeok", "closebad", "report"}
Steps == {"off"} \cup LockingSteps \cup TransferSteps \cup FinishSteps

\* ps -p PID -g PID, which fails too when it is given no pid at all.
Live(p) == p # NoOwner /\ pc[p] # "off"
Syncing(p) == pc[p] \in TransferSteps \cup FinishSteps
Locking(p) == pc[p] \in LockingSteps

Init == /\ lock = FALSE /\ owner = NoOwner /\ expired = FALSE
        /\ log = NoOwner
        /\ failed = 0 /\ needsReport = FALSE
        /\ young \in BOOLEAN /\ degraded = FALSE
        /\ pc = [p \in Procs |-> "off"]
        /\ op = [p \in Procs |-> "guard"]
        /\ trigger = [p \in Procs |-> "now"]
        /\ seen = [p \in Procs |-> NoOwner]
        /\ victim = [p \in Procs |-> NoOwner]
        /\ count = [p \in Procs |-> 0]
        /\ result = [p \in Procs |-> "none"]
        /\ crashes = 0 /\ raced = FALSE

\* The kernel gives no new process a pid that a file or a process still refers to.
Unreferenced(p) == /\ owner # p
                   /\ \A q \in Procs : p \notin {seen[q], victim[q]}

Goto(p, step) == pc' = [pc EXCEPT ![p] = step]
Call(p, caller, step) == Goto(p, step) /\ op' = [op EXCEPT ![p] = caller]

\* A process that ends forgets its shell variables.
Exit(p) == /\ Call(p, "guard", "off")
           /\ trigger' = [trigger EXCEPT ![p] = "now"]
           /\ seen' = [seen EXCEPT ![p] = NoOwner]
           /\ victim' = [victim EXCEPT ![p] = NoOwner]
           /\ count' = [count EXCEPT ![p] = 0]
           /\ result' = [result EXCEPT ![p] = "none"]

---------------------------------------------------------------------------
(* sync now | regularly | stop *)

\* A regular sync exits at once in a degraded system.
Invoke(p, what) == /\ pc[p] = "off" /\ Unreferenced(p)
                   /\ what = "regularly" => ~degraded
                   /\ trigger' = [trigger EXCEPT ![p] = what]
                   /\ Call(p, IF what = "stop" THEN "stop" ELSE "guard", "exists")
                   /\ UNCHANGED <<files, shell, crashes, raced>>

---------------------------------------------------------------------------
(* sync_in_progress: [ -e lock ], then lock.owner is read, then ps *)

\* kill_lock_owner returns: stop is done, acquire_lock releases the lock again.
KillDone(p) == \/ trigger[p] = "stop" /\ Exit(p)
               \/ /\ trigger[p] # "stop"
                  /\ Call(p, "expire", "unown")
                  /\ UNCHANGED <<trigger, shell>>

\* Where a caller that goes on goes when a sync is in progress.
GoesOn(p) == /\ \/ op[p] = "stop" /\ Goto(p, "victim")
                \/ op[p] = "acquire" /\ Goto(p, "expired")
                \/ op[p] \in {"term", "wait"} /\ Goto(p, "signal")
             /\ UNCHANGED <<op, trigger, shell>>

\* Mutant: a refused start releases the lock on its way out.
WhenInProgressReleases(p) ==
  \/ op[p] = "guard" /\ Call(p, "end", "unown") /\ UNCHANGED <<trigger, shell>>
  \/ GoesOn(p)

\* Mutant: stop cleans up whether or not a sync is in progress.
WhenInProgressCleans(p) ==
  \/ op[p] = "guard" /\ Exit(p)
  \/ op[p] = "stop" /\ Goto(p, "ruins") /\ UNCHANGED <<op, trigger, shell>>
  \/ op[p] # "stop" /\ GoesOn(p)

\* Mutant: kill_lock_owner sends TERM and does not look again.
WhenInProgressTermOnly(p) ==
  \/ op[p] = "guard" /\ Exit(p)
  \/ op[p] = "wait" /\ KillDone(p)
  \/ op[p] # "wait" /\ GoesOn(p)

\* A start is refused when a sync is in progress.
WhenInProgress(p) == \/ op[p] = "guard" /\ Exit(p)
                     \/ GoesOn(p)

\* Mutant: acquire_lock does not remove what a dead sync has left.
WhenNotInProgressKeepsLock(p) ==
  \/ op[p] = "wait" /\ KillDone(p)
  \/ /\ \/ op[p] = "stop" /\ Call(p, "stop", "ruins")
        \/ op[p] = "guard" /\ Call(p, "guard", "times")
        \/ op[p] = "acquire" /\ Call(p, "acquire", "lockfile")
        \/ op[p] = "term" /\ Call(p, "wait", "exists")
     /\ UNCHANGED <<trigger, shell>>

\* When none is, stop looks for ruins, a start goes on, acquire_lock removes what is
\* left of the lock, and kill_lock_owner looks once more or is done.
WhenNotInProgress(p) ==
  \/ op[p] = "wait" /\ KillDone(p)
  \/ /\ \/ op[p] = "stop" /\ Call(p, "stop", "ruins")
        \/ op[p] = "guard" /\ Call(p, "guard", "times")
        \/ op[p] = "acquire" /\ Call(p, "acquire", "unown")
        \/ op[p] = "term" /\ Call(p, "wait", "exists")
     /\ UNCHANGED <<trigger, shell>>

LockExists(p) == /\ pc[p] = "exists"
                 /\ IF lock THEN Goto(p, "owner") /\ UNCHANGED <<op, trigger, shell>>
                            ELSE WhenNotInProgress(p)
                 /\ UNCHANGED <<files, crashes, raced>>

\* The looks that a clean-up follows when they find no sync.  That of the guard is
\* none: acquire_lock looks again.
LooksToClean(p) == \/ op[p] \in {"stop", "acquire"}
                   \/ op[p] = "wait" /\ trigger[p] # "stop"

\* A lock is there, and its owner is not recorded yet.
HalfLocked == \E q \in Procs : pc[q] = "record"

\* To look at a half-made lock, so, is a race.
ReadOwner(p) == /\ pc[p] = "owner"
                /\ seen' = [seen EXCEPT ![p] = owner]
                /\ Goto(p, "ps")
                /\ raced' = (raced \/ (LooksToClean(p) /\ HalfLocked))
                /\ UNCHANGED <<files, op, trigger, victim, count, result, crashes>>

\* Mutant: ps never finds the owner, as when ssh cannot reach its host.
AskPsUnreachable(p) == /\ pc[p] = "ps"
                       /\ WhenNotInProgress(p)
                       /\ UNCHANGED <<files, crashes, raced>>

AskPs(p) == /\ pc[p] = "ps"
            /\ IF Live(seen[p]) THEN WhenInProgress(p) ELSE WhenNotInProgress(p)
            /\ UNCHANGED <<files, crashes, raced>>

---------------------------------------------------------------------------
(* acquire_lock, after the check for a sync in progress *)

\* A regular sync gives up if its time has not come.
ComputeTimes(p) == /\ pc[p] = "times"
                   /\ IF trigger[p] = "regularly" /\ young
                      THEN Exit(p)
                      ELSE Call(p, "acquire", "exists") /\ UNCHANGED <<trigger, shell>>
                   /\ UNCHANGED <<files, crashes, raced>>

\* lock_expired holds of a missing lock too.
LockExpired(p) == /\ pc[p] = "expired"
                  /\ Goto(p, IF lock /\ ~expired THEN "lockfile" ELSE "victim")
                  /\ UNCHANGED <<files, op, trigger, shell, crashes, raced>>

\* kill_lock_owner reads lock.owner by itself; acquire_lock releases the lock
\* afterwards, which is a race if it is half made.
ReadVictim(p) == /\ pc[p] = "victim"
                 /\ IF owner = NoOwner
                    THEN KillDone(p)
                    ELSE /\ victim' = [victim EXCEPT ![p] = owner]
                         /\ Call(p, "term", "exists")
                         /\ UNCHANGED <<trigger, seen, count, result>>
                 /\ raced' = (raced \/ (op[p] = "acquire" /\ HalfLocked))
                 /\ UNCHANGED <<files, crashes>>

\* A process that has read the owner, or is cleaning: it unlinks what it finds later.
AboutToClean(p) == \/ pc[p] \in {"ruins", "rmlog", "unown", "unlock"}
                   \/ pc[p] = "ps" /\ LooksToClean(p)

\* lockfile -r3 tries four times, eight seconds apart; each try is a step.  To create
\* the lock while another process is about to clean is a race.
Lockfile(p) == /\ pc[p] = "lockfile"
               /\ ~lock
               /\ lock' = TRUE /\ expired' = FALSE
               /\ raced' = (raced \/ \E q \in Procs : AboutToClean(q))
               /\ Goto(p, "record")
               /\ UNCHANGED <<owner, log, failed, needsReport, young, degraded,
                              op, trigger, shell, crashes>>

LockfileGivesUp(p) == /\ pc[p] = "lockfile"
                      /\ lock
                      /\ Exit(p)
                      /\ UNCHANGED <<files, crashes, raced>>

Record(p) == /\ pc[p] = "record"
             /\ owner' = p
             /\ Goto(p, "trap")
             /\ UNCHANGED <<lock, expired, log, failed, needsReport, young, degraded,
                            op, trigger, shell, crashes, raced>>

---------------------------------------------------------------------------
(* release_lock: rm -f lock.owner lock.reported lock *)

RemoveOwner(p) == /\ pc[p] = "unown"
                  /\ owner' = NoOwner
                  /\ Goto(p, "unlock")
                  /\ UNCHANGED <<lock, expired, log, failed, needsReport, young, degraded,
                                 op, trigger, shell, crashes, raced>>

RemoveLock(p) == /\ pc[p] = "unlock"
                 /\ lock' = FALSE /\ expired' = FALSE
                 /\ \/ op[p] \in {"stop", "end"} /\ Exit(p)
                    \/ /\ op[p] \in {"acquire", "expire"}
                       /\ Goto(p, IF op[p] = "acquire" THEN "expired" ELSE "lockfile")
                       /\ UNCHANGED <<op, trigger, shell>>
                 /\ UNCHANGED <<owner, log, failed, needsReport, young, degraded, crashes, raced>>

---------------------------------------------------------------------------
(* sync stop: kill the owner, or clean up after a dead sync *)

FindRuins(p) == /\ pc[p] = "ruins"
                /\ IF lock \/ owner # NoOwner \/ log # NoOwner
                   THEN Goto(p, "rmlog") /\ UNCHANGED <<op, trigger, shell>>
                   ELSE Exit(p)
                /\ UNCHANGED <<files, crashes, raced>>

RemoveDeadLog(p) == /\ pc[p] = "rmlog"
                    /\ log' = NoOwner
                    /\ Goto(p, "unown")
                    /\ UNCHANGED <<lock, owner, expired, failed, needsReport, young, degraded,
                                   op, trigger, shell, crashes, raced>>

\* TERM kills a process that has not set its traps; with the traps of before-sync it
\* ends the transfer with exit code 2, and after-sync ignores it.  KILL always kills.
Signalled(v, sig) ==
  IF sig = "kill" \/ Custom THEN "off"
  ELSE IF pc[v] \in {"clear", "openlog", "run"} THEN "count"
  ELSE IF pc[v] \in FinishSteps \/ op[v] = "end" THEN pc[v]
  ELSE "off"

\* kill_process_group: TERM first, then KILL as long as a sync is in progress.
SendSignal(p) ==
  LET v == victim[p]
      next == Signalled(v, IF op[p] = "term" THEN "term" ELSE "kill")
      gone == next = "off"
  IN  /\ pc[p] = "signal"
      /\ pc' = [pc EXCEPT ![v] = next, ![p] = "exists"]
      /\ op' = [op EXCEPT ![v] = IF gone THEN "guard" ELSE @, ![p] = "wait"]
      /\ trigger' = [trigger EXCEPT ![v] = IF gone THEN "now" ELSE @]
      /\ seen' = [seen EXCEPT ![v] = IF gone THEN NoOwner ELSE @, ![p] = NoOwner]
      /\ victim' = [victim EXCEPT ![v] = IF gone THEN NoOwner ELSE @]
      /\ count' = [count EXCEPT ![v] = IF gone THEN 0 ELSE @]
      /\ result' = [result EXCEPT ![v] = IF gone THEN "none"
                                         ELSE IF next = "count" /\ pc[v] # "count" THEN "bad"
                                         ELSE @]
      /\ UNCHANGED <<files, crashes, raced>>

---------------------------------------------------------------------------
(* before-sync, the transfer, and its end *)

SetTraps(p) == /\ pc[p] = "trap"
               /\ Goto(p, "clear")
               /\ UNCHANGED <<files, op, trigger, shell, crashes, raced>>

\* Mutant: prepare-sync leaves the flag of an earlier failure.
ClearReportFlagNot(p) == /\ pc[p] = "clear"
                         /\ Goto(p, "openlog")
                         /\ UNCHANGED <<files, op, trigger, shell, crashes, raced>>

ClearReportFlag(p) == /\ pc[p] = "clear"
                      /\ needsReport' = FALSE
                      /\ Goto(p, "openlog")
                      /\ UNCHANGED <<lock, owner, expired, log, failed, young, degraded,
                                     op, trigger, shell, crashes, raced>>

OpenLog(p) == /\ pc[p] = "openlog"
              /\ log' = p
              /\ Goto(p, "run")
              /\ UNCHANGED <<lock, owner, expired, failed, needsReport, young, degraded,
                             op, trigger, shell, crashes, raced>>

\* after-sync takes the exit code of the transfer; geoul-pep381 takes that of starting
\* it in the background.
Succeeds(outcome) == outcome = "ok" \/ Custom

TransferEnds(p, outcome) == /\ pc[p] = "run"
                            /\ result' = [result EXCEPT ![p] = outcome]
                            /\ Goto(p, IF Succeeds(outcome) THEN "stamp" ELSE "count")
                            /\ UNCHANGED <<files, op, trigger, seen, victim, count, crashes, raced>>

---------------------------------------------------------------------------
(* finish-sync *)

TouchTimestamp(p) == /\ pc[p] = "stamp"
                     /\ young' = TRUE
                     /\ Goto(p, "forgive")
                     /\ UNCHANGED <<lock, owner, expired, log, failed, needsReport, degraded,
                                    op, trigger, shell, crashes, raced>>

ClearFailures(p) == /\ pc[p] = "forgive"
                    /\ failed' = 0
                    /\ Goto(p, "closeok")
                    /\ UNCHANGED <<lock, owner, expired, log, needsReport, young, degraded,
                                   op, trigger, shell, crashes, raced>>

\* Mutant: number_of_failures gives nothing when there is no file.
ReadFailuresRaw(p) == /\ pc[p] = "count"
                      /\ count' = [count EXCEPT ![p] = IF failed = 0 THEN NoOwner ELSE failed]
                      /\ Goto(p, "bump")
                      /\ UNCHANGED <<files, op, trigger, seen, victim, result, crashes, raced>>

\* increase_failures reads the count, then writes it back; the penalty may make the
\* timestamp young again.
ReadFailures(p) == /\ pc[p] = "count"
                   /\ count' = [count EXCEPT ![p] = failed]
                   /\ Goto(p, "bump")
                   /\ UNCHANGED <<files, op, trigger, seen, victim, result, crashes, raced>>

WriteFailures(p) == /\ pc[p] = "bump"
                    /\ failed' = IF count[p] < MaxFailures THEN count[p] + 1 ELSE MaxFailures
                    /\ young' \in {young, TRUE}
                    /\ Goto(p, "closebad")
                    /\ UNCHANGED <<lock, owner, expired, log, needsReport, degraded,
                                   op, trigger, shell, crashes, raced>>

\* The log is saved and its link removed; geoul-pep381 ends here, and leaves the lock.
CloseLog(p) == /\ pc[p] \in {"closeok", "closebad"}
               /\ log' = NoOwner
               /\ IF Custom
                  THEN Exit(p)
                  ELSE /\ Call(p, "end", IF pc[p] = "closeok" THEN "unown" ELSE "report")
                       /\ UNCHANGED <<trigger, shell>>
               /\ UNCHANGED <<lock, owner, expired, failed, needsReport, young, degraded,
                              crashes, raced>>

RaiseReportFlag(p) == /\ pc[p] = "report"
                      /\ needsReport' = TRUE
                      /\ Goto(p, "unown")
                      /\ UNCHANGED <<lock, owner, expired, log, failed, young, degraded,
                                     op, trigger, shell, crashes, raced>>

---------------------------------------------------------------------------
(* What happens around the script *)

\* SIGKILL from elsewhere, or the end of the machine: no trap runs.
Crash(p) == /\ pc[p] # "off"
            /\ crashes < MaxCrashes
            /\ crashes' = crashes + 1
            /\ Exit(p)
            /\ UNCHANGED <<files, raced>>

\* Only the shell dies: the transfer goes on in its session, and just ends.
LoseShell(p) == /\ pc[p] = "run"
                /\ crashes < MaxCrashes
                /\ crashes' = crashes + 1
                /\ Goto(p, "orphan")
                /\ UNCHANGED <<files, op, trigger, shell, raced>>

OrphanEnds(p) == /\ pc[p] = "orphan"
                 /\ Exit(p)
                 /\ UNCHANGED <<files, crashes, raced>>

AgeTimestamp == /\ young
                /\ young' = FALSE
                /\ UNCHANGED <<lock, owner, expired, log, failed, needsReport, degraded,
                               pc, op, trigger, shell, crashes, raced>>

AgeLock == /\ lock /\ ~expired
           /\ expired' = TRUE
           /\ UNCHANGED <<lock, owner, log, failed, needsReport, young, degraded,
                          pc, op, trigger, shell, crashes, raced>>

\* control-regular-tasks suspend, resume
Suspend == /\ ~degraded
           /\ degraded' = TRUE
           /\ UNCHANGED <<lock, owner, expired, log, failed, needsReport, young,
                          pc, op, trigger, shell, crashes, raced>>

Resume == /\ degraded
          /\ degraded' = FALSE
          /\ UNCHANGED <<lock, owner, expired, log, failed, needsReport, young,
                         pc, op, trigger, shell, crashes, raced>>

---------------------------------------------------------------------------
Step(p) == \/ LockExists(p) \/ ReadOwner(p) \/ AskPs(p)
           \/ ComputeTimes(p) \/ LockExpired(p) \/ ReadVictim(p)
           \/ Lockfile(p) \/ LockfileGivesUp(p) \/ Record(p)
           \/ RemoveOwner(p) \/ RemoveLock(p)
           \/ FindRuins(p) \/ RemoveDeadLog(p) \/ SendSignal(p)
           \/ SetTraps(p) \/ ClearReportFlag(p) \/ OpenLog(p)
           \/ TouchTimestamp(p) \/ ClearFailures(p)
           \/ ReadFailures(p) \/ WriteFailures(p)
           \/ CloseLog(p) \/ RaiseReportFlag(p)

Next == \/ \E p \in Procs :
             \/ \E what \in Triggers : Invoke(p, what)
             \/ Step(p)
             \/ \E outcome \in {"ok", "bad"} : TransferEnds(p, outcome)
             \/ Crash(p) \/ LoseShell(p) \/ OrphanEnds(p)
        \/ AgeTimestamp \/ AgeLock \/ Suspend \/ Resume

\* Scripts go on, cron's maintain-sync keeps calling `sync regularly', time passes and
\* a suspended system is resumed.  A transfer may hang for ever.
Fairness == /\ \A p \in Procs : WF_vars(Step(p))
            /\ SF_vars(\E p \in Procs : Invoke(p, "regularly"))
            /\ WF_vars(AgeTimestamp)
            /\ WF_vars(Resume)

Spec == Init /\ [][Next]_vars
FairSpec == Spec /\ Fairness

---------------------------------------------------------------------------
TypeOK == /\ lock \in BOOLEAN /\ expired \in BOOLEAN
          /\ owner \in Procs \cup {NoOwner} /\ log \in Procs \cup {NoOwner}
          /\ failed \in 0..MaxFailures
          /\ needsReport \in BOOLEAN /\ young \in BOOLEAN /\ degraded \in BOOLEAN
          /\ pc \in [Procs -> Steps]
          /\ op \in [Procs -> Ops]
          /\ trigger \in [Procs -> Triggers]
          /\ seen \in [Procs -> Procs \cup {NoOwner}]
          /\ victim \in [Procs -> Procs \cup {NoOwner}]
          /\ count \in [Procs -> 0..MaxFailures]
          /\ result \in [Procs -> {"none", "ok", "bad"}]
          /\ crashes \in 0..MaxCrashes /\ raced \in BOOLEAN

\* Two processes never synchronize a package at once (pkgs/README:92), orphaned
\* transfers and processes busy in finish-sync included.
OneSyncAtATime == \A p, q \in Procs : Syncing(p) /\ Syncing(q) => p = q

\* ... unless invocations have raced: whoever else starts or stops, at any other
\* moment, and whatever is killed.
OneSyncUnlessRaced == raced \/ OneSyncAtATime

\* Unless raced, a sync keeps its lock to the end of finish-sync: neither `stop' nor a
\* start takes the files of a live sync for those of a dead one.
SyncKeepsLock == raced \/ \A p \in Procs : Syncing(p) => lock /\ owner = p

\* Unless raced, the log of a running sync stays in place for stop-dead-syncs,
\* check-anomalies and `watch': no clean-up removes it and no other sync redirects it.
RunKeepsLog == raced \/ \A p \in Procs : pc[p] \in {"run", "orphan"} => log = p

\* Unless raced, failed.needsreport never outlives the failures it reports:
\* check-anomalies would mail about a package whose last sync succeeded.
ReportHasFailures == raced \/ (needsReport => failed > 0)

\* Unless raced, every failed sync that comes to write the failure count makes it one
\* more than it is at that moment, whoever wrote since the count was read; otherwise
\* the count stays or is cleared.
Counts(p) == pc[p] = "bump" /\ pc'[p] = "closebad"
FailuresCounted ==
  [][raced \/ IF \E p \in Procs : Counts(p)
              THEN failed' = (IF failed < MaxFailures THEN failed + 1 ELSE MaxFailures)
              ELSE failed' \in {failed, 0}]_vars

\* When kill_lock_owner returns to `stop', the sync whose owner it read is over, and
\* unless raced no sync was there at all when it read none; one that has started
\* since may go on.
KillReturns(p) == /\ trigger[p] = "stop"
                  /\ pc[p] = "victim" \/ op[p] = "wait"
                  /\ pc[p] # "off" /\ pc'[p] = "off" /\ crashes' = crashes
StopStops ==
  [][raced \/ \A p, q \in Procs :
                KillReturns(p) /\ victim[p] \in {q, NoOwner} => ~Syncing(q)]_vars

\* Whatever a race, a crash or a kill leaves behind, once all processes are gone the
\* lock does not wedge the package: `stop' removes it, or a start takes it over.
LeftLocked == lock /\ \A p \in Procs : pc[p] = "off"
LockRecovered == LeftLocked ~> (~lock \/ \E p \in Procs : Syncing(p))

\* The timestamp's mtime is "when the package was last synchronized successfully"
\* (pkgs/README:82).
TimestampMeansSuccess == \A p \in Procs : pc[p] = "forgive" => result[p] = "ok"

(***************************************************************************)
(* Why the lock works unless invocations race.                             *)
(***************************************************************************)
\* From the creation of the lock to the first unlink of the release.
Holds(p) == Syncing(p) \/ pc[p] = "record" \/ (pc[p] = "unown" /\ op[p] = "end")

\* Each step belongs to the callers that contain it.
StepOfCaller ==
  \A p \in Procs :
    /\ pc[p] \in {"exists", "owner", "ps"} => op[p] \notin {"expire", "end"}
    /\ pc[p] = "times" => op[p] = "guard"
    /\ pc[p] = "victim" => op[p] \in {"stop", "acquire"}
    /\ pc[p] = "expired" => op[p] = "acquire"
    /\ pc[p] \in {"lockfile", "record"} => op[p] \in {"acquire", "expire"}
    /\ pc[p] = "signal" => op[p] \in {"term", "wait"}
    /\ pc[p] \in {"ruins", "rmlog"} => op[p] = "stop"
    /\ pc[p] = "report" => op[p] = "end"
    /\ Syncing(p) => op[p] \in {"acquire", "expire", "end"}
    /\ pc[p] \in {"unown", "unlock"} => op[p] \in {"acquire", "expire", "stop", "end"}
    /\ Locking(p) /\ op[p] \in {"guard", "acquire", "expire"} => trigger[p] # "stop"
    /\ Locking(p) /\ op[p] = "stop" => trigger[p] = "stop"

\* A pid that is written down is that of a process past its own start.
ReferencedPastStart ==
  \A p, q \in Procs :
    /\ p \in {owner, seen[q], victim[q]}
    /\ pc[p] # "off"
    => Syncing(p) \/ op[p] = "end"

\* Signals go to a pid that has been read.
VictimKnown == \A p \in Procs : op[p] \in {"term", "wait"} => victim[p] # NoOwner

\* One holder, whose files are there.
OneHolder == \A p, q \in Procs : Holds(p) /\ Holds(q) => p = q
HolderKeepsLock == \A p \in Procs : Holds(p) => lock /\ (pc[p] # "record" => owner = p)

\* Nobody is about to unlink a lock that has just been created, and only the holder
\* unlinks one that is held.
CreatorUndisturbed == \A p, q \in Procs : pc[p] = "record" => ~AboutToClean(q)
OnlyHolderCleans ==
  \A p, q \in Procs :
    pc[p] \in {"ruins", "rmlog", "unown", "unlock"} /\ Holds(q) => p = q

\* sync_in_progress is about to ask for the process that holds the lock, if one does
\* and a clean-up, or the end of kill_lock_owner, hangs on it.
SeesHolder ==
  \A p, q \in Procs :
    /\ pc[p] = "ps" /\ Holds(q)
    /\ LooksToClean(p) \/ victim[p] = q
    => seen[p] = q

\* The one sync is the only writer of the failure count and the report flag.
Bookkeeping ==
  /\ needsReport => failed > 0
  /\ \A p \in Procs :
       /\ pc[p] = "bump" => count[p] = failed
       /\ pc[p] \in {"closebad", "report"} => failed > 0
       /\ pc[p] \in {"openlog", "run", "orphan", "stamp", "forgive"} => ~needsReport

LogInv == \A p \in Procs : pc[p] \in {"run", "orphan"} => log = p

Whole == /\ OneHolder /\ HolderKeepsLock
         /\ CreatorUndisturbed /\ OnlyHolderCleans
         /\ SeesHolder
         /\ LogInv /\ Bookkeeping

IInv == TypeOK /\ StepOfCaller /\ ReferencedPastStart /\ VictimKnown /\ (raced \/ Whole)
=============================================================================
