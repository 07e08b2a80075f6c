---------------------------- MODULE UsagePipeline ----------------------------
(***************************************************************************)
(* How usages get from the logs of the services into the RRDs: runs of     *)
(* measure-usage collect what is new in each log into a working directory  *)
(* (logs2clf), and every directory that is ready is analysed by a process  *)
(* of its own (analyze), again and again until one ends.                   *)
(*                                                                         *)
(* The packages of a service are one RRD.  An analysis is known by its     *)
(* directory: another one for it is refused by synchronized and gone.  A   *)
(* directory that is not ready when its run ends is looked at by nobody    *)
(* again and is taken away here.  rm -rf, touch and logtail are one step.  *)
(* Rotation of the logs is left out.                                       *)
(***************************************************************************)
EXTENDS Naturals, Sequences

CONSTANTS Logs,        \* the logs in the order of the configurations
          Runs,        \* runs of measure-usage at once (bound)
          Dirs,        \* working directories at once (bound)
          MaxRecords,  \* records in a log (bound)
          MaxCrashes   \* bound

ASSUME UsageAssumption ==
  /\ Len(Logs) \in Nat \ {0} /\ DOMAIN Logs = 1..Len(Logs)
  /\ "free" \notin Runs /\ "leaked" \notin Runs /\ "nobody" \notin Dirs
  /\ MaxRecords \in Nat /\ MaxCrashes \in Nat

Places == DOMAIN Logs

VARIABLES logged,    \* records in each log
          offset,    \* and how many logtail has passed
          logLock,   \* $log.lock: "free", "leaked", or the run that has it
          run,       \* pc, the log it is at and its working directory
          dir,       \* "none", "collecting", "ready" (clf.ready)
          clf,       \* the records of each log in a directory
          files,     \* tsv.all, tsv and usage: "absent", "partial" or "whole"
          analysis,  \* of a directory: pc and the RRD it is at
          rrdLock,   \* the directory whose analysis has $rrd.lock
          counted,   \* how often a record was added to its RRD
          dropped,   \* history: records whose update was refused by $rrd.lock
          refused,   \* history: records whose update failed
          abandoned, \* history: records in directories that never became ready
          died,      \* history: records whose analysis died after counting them
          overlapped,\* history: a run started while something else was at work
          crashes

logVars == <<logged, offset, logLock>>
dirVars == <<dir, clf, files>>
rrdVars == <<rrdLock, counted, dropped, refused>>
history == <<abandoned, died, overlapped, crashes>>
vars == <<logVars, run, dirVars, analysis, rrdVars, history>>

Free == "free"
Nobody == "nobody"
IdleRun == [pc |-> "idle", at |-> 1, wd |-> Nobody]
NoAnalysis == [pc |-> "none", at |-> 1]
FileStates == {"absent", "partial", "whole"}
NoFiles == [all |-> "absent", tsv |-> "absent", usage |-> "absent"]
NoRecords == [p \in Places |-> {}]

\* The records of a directory, each with the place of its log.
RecordsOf(w) == UNION {{<<p, i>> : i \in clf[w][p]} : p \in Places}

Init == /\ logged = [p \in Places |-> 0] /\ offset = [p \in Places |-> 0]
        /\ logLock = [p \in Places |-> Free]
        /\ run = [r \in Runs |-> IdleRun]
        /\ dir = [w \in Dirs |-> "none"]
        /\ clf = [w \in Dirs |-> NoRecords]
        /\ files = [w \in Dirs |-> NoFiles]
        /\ analysis = [w \in Dirs |-> NoAnalysis]
        /\ rrdLock = [p \in Places |-> Nobody]
        /\ counted = [p \in Places |-> [i \in 1..MaxRecords |-> 0]]
        /\ dropped = {} /\ refused = {} /\ abandoned = {} /\ died = {}
        /\ overlapped = FALSE /\ crashes = 0

---------------------------------------------------------------------------
(* The services and cron *)

Serve(p) == /\ logged[p] < MaxRecords
            /\ logged' = [logged EXCEPT ![p] = @ + 1]
            /\ UNCHANGED <<offset, logLock, run, dirVars, analysis, rrdVars, history>>

AtWork == \/ \E r \in Runs : run[r] # IdleRun
          \/ \E w \in Dirs : analysis[w] # NoAnalysis

\* cron starts one every hour, whatever else is at work: mktemp.
Start(r) == /\ run[r] = IdleRun
            /\ \E w \in Dirs :
                 /\ dir[w] = "none"
                 /\ dir' = [dir EXCEPT ![w] = "collecting"]
                 /\ run' = [run EXCEPT ![r] = [pc |-> "lock", at |-> 1, wd |-> w]]
            /\ overlapped' = (overlapped \/ AtWork)
            /\ UNCHANGED <<logVars, clf, files, analysis, rrdVars, abandoned, died, crashes>>

---------------------------------------------------------------------------
(* measure-usage and logs2clf *)

At(r, pc) == run[r].pc = pc
Place(r) == run[r].at

Lock(r) == /\ At(r, "lock") /\ logLock[Place(r)] = Free
           /\ logLock' = [logLock EXCEPT ![Place(r)] = r]
           /\ run' = [run EXCEPT ![r].pc = "tail"]
           /\ UNCHANGED <<logged, offset, dirVars, analysis, rrdVars, history>>

\* What is left of a run that ends, or dies, before its directory is ready.
Abandon(w) == /\ abandoned' = abandoned \cup RecordsOf(w)
              /\ dir' = [dir EXCEPT ![w] = "none"]
              /\ clf' = [clf EXCEPT ![w] = NoRecords]

\* After three retries lockfile gives up; error ends in false, and with it, under set -e,
\* logs2clf and measure-usage, whatever they have collected from the logs before.
LockBusy(r) == /\ At(r, "lock") /\ logLock[Place(r)] # Free
               /\ Abandon(run[r].wd)
               /\ run' = [run EXCEPT ![r] = IdleRun]
               /\ UNCHANGED <<logVars, files, analysis, rrdVars, died, overlapped, crashes>>

\* logtail moves the offset.
\* Mutant: it does not.
LogtailStays(r) ==
  /\ At(r, "tail")
  /\ clf' = [clf EXCEPT ![run[r].wd][Place(r)] = (offset[Place(r)] + 1)..logged[Place(r)]]
  /\ run' = [run EXCEPT ![r].pc = "unlock"]
  /\ UNCHANGED <<logVars, dir, files, analysis, rrdVars, history>>

Logtail(r) ==
  /\ At(r, "tail")
  /\ clf' = [clf EXCEPT ![run[r].wd][Place(r)] = (offset[Place(r)] + 1)..logged[Place(r)]]
  /\ offset' = [offset EXCEPT ![Place(r)] = logged[Place(r)]]
  /\ run' = [run EXCEPT ![r].pc = "unlock"]
  /\ UNCHANGED <<logged, logLock, dir, files, analysis, rrdVars, history>>

Unlock(r) == /\ At(r, "unlock")
             /\ logLock' = [logLock EXCEPT ![Place(r)] = Free]
             /\ run' = IF Place(r) = Len(Logs) THEN [run EXCEPT ![r].pc = "ready"]
                       ELSE [run EXCEPT ![r].pc = "lock", ![r].at = Place(r) + 1]
             /\ UNCHANGED <<logged, offset, dirVars, analysis, rrdVars, history>>

Ready(r) == /\ At(r, "ready")
            /\ dir' = [dir EXCEPT ![run[r].wd] = "ready"]
            /\ run' = [run EXCEPT ![r].pc = "launch"]
            /\ UNCHANGED <<logVars, clf, files, analysis, rrdVars, history>>

\* Where analyze begins, by the files that it finds; their next writing truncates them.
\* Mutant: a usage that is there is taken as it is.
FirstStepTrusting(f) == IF f.usage # "absent" THEN "update"
                        ELSE IF f.tsv # "absent" THEN "clean" ELSE "convert"

FirstStep(f) == IF f.usage # "absent" THEN "summarize"
                ELSE IF f.tsv # "absent" THEN "clean" ELSE "convert"

\* The file that a step writes.
Truncated(f, pc) == CASE pc = "convert" -> [f EXCEPT !.all = "partial"]
                      [] pc = "clean" -> [f EXCEPT !.tsv = "partial"]
                      [] pc = "summarize" -> [f EXCEPT !.usage = "partial"]
                      [] OTHER -> f

\* Every directory that is ready and not under analysis gets one in the background; the
\* run itself only waits.
\* Mutant: the run analyses its own directory only.
LaunchOwn(r) ==
  LET begun == {run[r].wd}
  IN /\ At(r, "launch")
     /\ analysis' = [w \in Dirs |-> IF w \in begun THEN [pc |-> FirstStep(files[w]), at |-> 1]
                                    ELSE analysis[w]]
     /\ files' = [w \in Dirs |-> IF w \in begun THEN Truncated(files[w], FirstStep(files[w]))
                                 ELSE files[w]]
     /\ run' = [run EXCEPT ![r] = IdleRun]
     /\ UNCHANGED <<logVars, dir, clf, rrdVars, history>>

Launch(r) ==
  LET begun == {w \in Dirs : dir[w] = "ready" /\ analysis[w] = NoAnalysis}
  IN /\ At(r, "launch")
     /\ analysis' = [w \in Dirs |-> IF w \in begun THEN [pc |-> FirstStep(files[w]), at |-> 1]
                                    ELSE analysis[w]]
     /\ files' = [w \in Dirs |-> IF w \in begun THEN Truncated(files[w], FirstStep(files[w]))
                                 ELSE files[w]]
     /\ run' = [run EXCEPT ![r] = IdleRun]
     /\ UNCHANGED <<logVars, dir, clf, rrdVars, history>>

---------------------------------------------------------------------------
(* analyze *)

Doing(w, pc) == analysis[w].pc = pc

\* A step has written its file, whole if what it read is; the next one begins.
Process(w) ==
  LET f == files[w]
      done == CASE Doing(w, "convert") -> [f EXCEPT !.all = "whole"]
                [] Doing(w, "clean") -> [f EXCEPT !.tsv = f.all]
                [] OTHER -> [f EXCEPT !.usage = f.tsv]
      next == CASE Doing(w, "convert") -> "clean"
                [] Doing(w, "clean") -> "summarize"
                [] OTHER -> "update"
  IN /\ analysis[w].pc \in {"convert", "clean", "summarize"}
     /\ files' = [files EXCEPT ![w] = Truncated(done, next)]
     /\ analysis' = [analysis EXCEPT ![w].pc = next]
     /\ UNCHANGED <<logVars, run, dir, clf, rrdVars, history>>

\* On to the next service, or to the end of the loop.
Onward(w) ==
  analysis' = IF analysis[w].at = Len(Logs) THEN [analysis EXCEPT ![w].pc = "remove"]
              ELSE [analysis EXCEPT ![w].pc = "update", ![w].at = analysis[w].at + 1]

LockRrd(w) == LET p == analysis[w].at
              IN /\ Doing(w, "update") /\ rrdLock[p] = Nobody
                 /\ rrdLock' = [rrdLock EXCEPT ![p] = w]
                 /\ analysis' = [analysis EXCEPT ![w].pc = "updating"]
                 /\ UNCHANGED <<logVars, run, dirVars, counted, dropped, refused, history>>

\* synchronized refuses, foreachpkg swallows it, and the loop goes on.
RrdBusy(w) == LET p == analysis[w].at
              IN /\ Doing(w, "update") /\ rrdLock[p] # Nobody
                 /\ dropped' = dropped \cup {<<p, i>> : i \in clf[w][p]}
                 /\ Onward(w)
                 /\ UNCHANGED <<logVars, run, dirVars, rrdLock, counted, refused, history>>

\* The RRD adds up what it gets; more than twice is as twice here.
More(count) == IF count < 2 THEN count + 1 ELSE count
Sums(p, found) ==
  [i \in 1..MaxRecords |-> IF i \in found THEN More(counted[p][i]) ELSE counted[p][i]]

\* The records of the service that the usage of a directory has.
Found(w) == IF files[w].usage = "whole" THEN clf[w][analysis[w].at] ELSE {}

\* Mutant: the lock stays.
UpdateRrdHolds(w) ==
  LET p == analysis[w].at
  IN /\ Doing(w, "updating")
     /\ counted' = [counted EXCEPT ![p] = Sums(p, Found(w))]
     /\ Onward(w)
     /\ UNCHANGED <<logVars, run, dirVars, rrdLock, dropped, refused, history>>

UpdateRrd(w) ==
  LET p == analysis[w].at
  IN /\ Doing(w, "updating")
     /\ counted' = [counted EXCEPT ![p] = Sums(p, Found(w))]
     /\ rrdLock' = [rrdLock EXCEPT ![p] = Nobody]
     /\ Onward(w)
     /\ UNCHANGED <<logVars, run, dirVars, dropped, refused, history>>

\* rrdupdate fails, as it does on a second update within one second: synchronized unlocks,
\* foreachpkg swallows it, and the directory is removed in the end all the same.
UpdateFails(w) ==
  LET p == analysis[w].at
  IN /\ Doing(w, "updating")
     /\ refused' = refused \cup {<<p, i>> : i \in Found(w)}
     /\ rrdLock' = [rrdLock EXCEPT ![p] = Nobody]
     /\ Onward(w)
     /\ UNCHANGED <<logVars, run, dirVars, counted, dropped, history>>

Remove(w) == /\ Doing(w, "remove")
             /\ dir' = [dir EXCEPT ![w] = "none"]
             /\ clf' = [clf EXCEPT ![w] = NoRecords]
             /\ files' = [files EXCEPT ![w] = NoFiles]
             /\ analysis' = [analysis EXCEPT ![w] = NoAnalysis]
             /\ UNCHANGED <<logVars, run, rrdVars, history>>

---------------------------------------------------------------------------
(* Crashes *)

CountedOf(w) == {x \in RecordsOf(w) : counted[x[1]][x[2]] > 0}

\* A run is killed: nobody removes the lock of its log.
Crash(r) ==
  /\ ~At(r, "idle") /\ crashes < MaxCrashes
  /\ crashes' = crashes + 1
  /\ run' = [run EXCEPT ![r] = IdleRun]
  /\ logLock' = [p \in Places |-> IF logLock[p] = r THEN "leaked" ELSE logLock[p]]
  /\ IF At(r, "launch") THEN UNCHANGED <<dir, clf, abandoned>> ELSE Abandon(run[r].wd)
  /\ UNCHANGED <<logged, offset, files, analysis, rrdVars, died, overlapped>>

\* An analysis is killed: its locks are found dead by the next lockproc.
CrashAnalysis(w) ==
  /\ analysis[w] # NoAnalysis /\ crashes < MaxCrashes
  /\ crashes' = crashes + 1
  /\ died' = died \cup CountedOf(w)
  /\ analysis' = [analysis EXCEPT ![w] = NoAnalysis]
  /\ rrdLock' = [p \in Places |-> IF rrdLock[p] = w THEN Nobody ELSE rrdLock[p]]
  /\ UNCHANGED <<logVars, run, dirVars, counted, dropped, refused, abandoned, overlapped>>

\* The machine goes down; cron removes the locks of the logs when it is up again.  (Bound: it
\* does not when no directory would be left for the next run.)
Reboot ==
  LET lost == {w \in Dirs : dir[w] = "collecting"}
  IN /\ crashes < MaxCrashes
     /\ \E w \in Dirs : dir[w] # "ready"
     /\ crashes' = crashes + 1
     /\ died' = died \cup UNION {CountedOf(w) : w \in {v \in Dirs : analysis[v] # NoAnalysis}}
     /\ abandoned' = abandoned \cup UNION {RecordsOf(w) : w \in lost}
     /\ dir' = [w \in Dirs |-> IF w \in lost THEN "none" ELSE dir[w]]
     /\ clf' = [w \in Dirs |-> IF w \in lost THEN NoRecords ELSE clf[w]]
     /\ run' = [r \in Runs |-> IdleRun]
     /\ analysis' = [w \in Dirs |-> NoAnalysis]
     /\ logLock' = [p \in Places |-> Free]
     /\ rrdLock' = [p \in Places |-> Nobody]
     /\ UNCHANGED <<logged, offset, files, counted, dropped, refused, overlapped>>

RunStep(r) == Lock(r) \/ LockBusy(r) \/ Logtail(r) \/ Unlock(r) \/ Ready(r) \/ Launch(r)
AnalysisStep(w) == \/ Process(w) \/ LockRrd(w) \/ RrdBusy(w)
                   \/ UpdateRrd(w) \/ UpdateFails(w) \/ Remove(w)

Next == \/ \E p \in Places : Serve(p)
        \/ \E r \in Runs : Start(r) \/ RunStep(r) \/ Crash(r)
        \/ \E w \in Dirs : AnalysisStep(w) \/ CrashAnalysis(w)
        \/ Reboot

\* Every hour there is a run, and what runs goes on.
Fairness == /\ WF_vars(\E r \in Runs : Start(r))
            /\ \A r \in Runs : WF_vars(RunStep(r))
            /\ \A w \in Dirs : WF_vars(AnalysisStep(w))

Spec == Init /\ [][Next]_vars
FairSpec == Spec /\ Fairness

---------------------------------------------------------------------------
(* Properties *)

TypeOK ==
  /\ logged \in [Places -> 0..MaxRecords] /\ offset \in [Places -> 0..MaxRecords]
  /\ logLock \in [Places -> Runs \cup {Free, "leaked"}]
  /\ run \in [Runs -> [pc : {"idle", "lock", "tail", "unlock", "ready", "launch"},
                       at : Places, wd : Dirs \cup {Nobody}]]
  /\ dir \in [Dirs -> {"none", "collecting", "ready"}]
  /\ clf \in [Dirs -> [Places -> SUBSET (1..MaxRecords)]]
  /\ files \in [Dirs -> [all : FileStates, tsv : FileStates, usage : FileStates]]
  /\ analysis \in [Dirs -> [pc : {"none", "convert", "clean", "summarize", "update", "updating", "remove"},
                            at : Places]]
  /\ rrdLock \in [Places -> Dirs \cup {Nobody}]
  /\ counted \in [Places -> [1..MaxRecords -> 0..2]]
  /\ crashes \in 0..MaxCrashes

\* No record is in two working directories, and none is counted twice unless an analysis
\* died after it had counted it.
CountedOnce ==
  /\ \A v, w \in Dirs : v # w => RecordsOf(v) \cap RecordsOf(w) = {}
  /\ \A p \in Places, i \in 1..MaxRecords : counted[p][i] > 1 => <<p, i>> \in died

\* Whatever is killed between the steps of an analysis, a record that logtail has passed
\* is counted, or still waits in a directory, or was lost in one of the three known ways:
\* its run ended before its directory was ready, its RRD was locked, or the update failed.
NothingForgotten ==
  \A p \in Places : \A i \in 1..offset[p] :
    \/ counted[p][i] > 0
    \/ <<p, i>> \in dropped \cup refused \cup abandoned
    \/ \E w \in Dirs : i \in clf[w][p]

\* As long as each run ends before the next and nothing is killed, the first two do not
\* happen: all that can be lost is what rrdupdate refuses.
UndisturbedKeepsAll == crashes = 0 /\ ~overlapped => dropped = {} /\ abandoned = {}

\* A directory that is ready is analysed to the end, unless the lock of a log has leaked:
\* then every run ends before it comes to the analyses.
EventuallyAnalysed ==
  \A w \in Dirs : dir[w] = "ready" ~> \/ dir[w] = "none"
                                      \/ \E p \in Places : logLock[p] = "leaked"
=============================================================================
