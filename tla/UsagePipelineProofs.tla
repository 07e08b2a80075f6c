------------------------ MODULE UsagePipelineProofs ------------------------
(***************************************************************************)
(* Proofs about UsagePipeline, for every number of services, records, runs *)
(* and working directories at once, and crashes: the type invariant, that  *)
(* no record is counted twice but after a crash, and that none is lost but *)
(* in the known ways.                                                      *)
(***************************************************************************)
EXTENDS UsagePipeline, TLAPS

Collecting(r) == run[r].pc \in {"lock", "tail", "unlock", "ready"}
Updating(w) == analysis[w].pc \in {"update", "updating"}

\* A run has a log still to pass.
IsAhead(r, p) == \/ run[r].pc \in {"lock", "tail"} /\ p >= run[r].at
                 \/ run[r].pc = "unlock" /\ p > run[r].at

\* A run that collects has a directory of its own, empty for the logs ahead of it.
Holds == \A r \in Runs : Collecting(r) => run[r].wd \in Dirs /\ dir[run[r].wd] = "collecting"
Alone == \A r, s \in Runs :
           r # s /\ Collecting(r) /\ Collecting(s) => run[r].wd # run[s].wd
EmptyAhead == \A r \in Runs, p \in Places : IsAhead(r, p) => clf[run[r].wd][p] = {}

\* Only a ready directory is analysed, and one that is gone is empty.
Blank == \A w \in Dirs : /\ dir[w] # "ready" => files[w] = NoFiles /\ analysis[w] = NoAnalysis
                         /\ dir[w] = "none" => clf[w] = NoRecords

\* Each file was written from a whole one; what an analysis works on is what it needs.
FilesInOrder ==
  \A w \in Dirs :
    /\ files[w].tsv # "absent" => files[w].all = "whole"
    /\ files[w].usage # "absent" => files[w].tsv = "whole"
    /\ Doing(w, "convert") => files[w].tsv = "absent" /\ files[w].usage = "absent"
    /\ Doing(w, "clean") => files[w].all = "whole" /\ files[w].usage = "absent"
    /\ Doing(w, "summarize") => files[w].tsv = "whole"
    /\ Updating(w) \/ Doing(w, "remove") => files[w].usage = "whole"
    /\ ~Updating(w) /\ ~Doing(w, "remove") => analysis[w].at = 1

\* The records of a directory have been passed by logtail, and are in no other.
Passed == /\ \A p \in Places : offset[p] <= logged[p]
          /\ \A w \in Dirs, p \in Places : clf[w][p] \subseteq 1..offset[p]
Disjoint == \A v, w \in Dirs, p \in Places : v # w => clf[v][p] \cap clf[w][p] = {}

\* An analysis has a service behind it.
IsBehind(w, p) == (Updating(w) /\ p < analysis[w].at) \/ Doing(w, "remove")

\* Behind an analysis every record has been counted or refused.
Settled == \A w \in Dirs, p \in Places : \A i \in clf[w][p] :
             IsBehind(w, p) => counted[p][i] > 0 \/ <<p, i>> \in dropped \cup refused

\* Counted are records that logtail has passed; one that is still in a directory is behind
\* the analysis, or behind one that died, and so is one that is counted twice.
CountedPassed == \A p \in Places, i \in 1..MaxRecords : counted[p][i] > 0 => i <= offset[p]
CountedBehind == \A w \in Dirs, p \in Places : \A i \in clf[w][p] :
                   counted[p][i] > 0 => IsBehind(w, p) \/ <<p, i>> \in died
TwiceDied == \A p \in Places, i \in 1..MaxRecords : counted[p][i] > 1 => <<p, i>> \in died

Inv == /\ Holds /\ Alone /\ EmptyAhead /\ Blank /\ FilesInOrder /\ Passed /\ Disjoint
       /\ Settled /\ CountedPassed /\ CountedBehind /\ TwiceDied /\ NothingForgotten

LEMMA RecordsAre == \A w, p, i : p \in Places /\ i \in clf[w][p] => <<p, i>> \in RecordsOf(w)
BY DEF RecordsOf


---------------------------------------------------------------------------
(* Types *)

RunTyped == run \in [Runs -> [pc : {"idle", "lock", "tail", "unlock", "ready", "launch"},
                              at : Places, wd : Dirs \cup {Nobody}]]

DirTyped == /\ dir \in [Dirs -> {"none", "collecting", "ready"}]
            /\ clf \in [Dirs -> [Places -> SUBSET (1..MaxRecords)]]

FilesTyped == files \in [Dirs -> [all : FileStates, tsv : FileStates, usage : FileStates]]

AnalysisTyped ==
  analysis \in [Dirs -> [pc : {"none", "convert", "clean", "summarize", "update", "updating", "remove"},
                         at : Places]]

LogTyped == /\ logged \in [Places -> 0..MaxRecords] /\ offset \in [Places -> 0..MaxRecords]
            /\ logLock \in [Places -> Runs \cup {Free, "leaked"}]

RrdTyped == /\ rrdLock \in [Places -> Dirs \cup {Nobody}]
            /\ counted \in [Places -> [1..MaxRecords -> 0..2]]

Typed == /\ RunTyped /\ DirTyped /\ FilesTyped /\ AnalysisTyped /\ LogTyped /\ RrdTyped
         /\ crashes \in 0..MaxCrashes

LEMMA PlacesAre == Places = 1..Len(Logs) /\ Len(Logs) \in Nat \ {0}
BY UsageAssumption DEF Places

LEMMA OnwardTyped == ASSUME AnalysisTyped, NEW w \in Dirs, Onward(w) PROVE AnalysisTyped'
<1>1. analysis[w].at \in Places
  BY DEF AnalysisTyped
<1>2. analysis[w].at # Len(Logs) => analysis[w].at + 1 \in Places
  BY <1>1, PlacesAre
<1> QED
  BY <1>2 DEF Onward, AnalysisTyped

LEMMA ProcessTyped == ASSUME FilesTyped, NEW w \in Dirs, Process(w) PROVE FilesTyped'
<1>1. ASSUME NEW f \in [all : FileStates, tsv : FileStates, usage : FileStates], NEW pc
      PROVE  Truncated(f, pc) \in [all : FileStates, tsv : FileStates, usage : FileStates]
  BY DEF Truncated, FileStates
<1> DEFINE f == files[w]
           done == CASE Doing(w, "convert") -> [f EXCEPT !.all = "whole"]
                     [] Doing(w, "clean") -> [f EXCEPT !.tsv = f.all]
                     [] OTHER -> [f EXCEPT !.usage = f.tsv]
           next == CASE Doing(w, "convert") -> "clean"
                     [] Doing(w, "clean") -> "summarize"
                     [] OTHER -> "update"
<1>2. done \in [all : FileStates, tsv : FileStates, usage : FileStates]
  BY DEF FilesTyped, FileStates
<1>3. files' = [files EXCEPT ![w] = Truncated(done, next)]
  BY DEF Process
<1> HIDE DEF done, next
<1> QED
  BY <1>1, <1>2, <1>3 DEF FilesTyped

LEMMA TypeNext == Typed /\ [Next]_vars => Typed'
<1> SUFFICES ASSUME Typed, [Next]_vars PROVE Typed'
  OBVIOUS
<1> USE PlacesAre DEF Typed, logVars, dirVars, rrdVars, history
<1>1. ASSUME NEW p \in Places, Serve(p) PROVE Typed'
  <2>1. LogTyped'
    <3>1. logged[p] + 1 \in 0..MaxRecords
      <4>1. logged[p] \in 0..MaxRecords
        BY DEF LogTyped
      <4> QED
        BY <1>1, <4>1, UsageAssumption DEF Serve
    <3> QED
      BY <1>1, <3>1 DEF Serve, LogTyped
  <2> QED
    BY <1>1, <2>1 DEF Serve, RunTyped, DirTyped, FilesTyped, AnalysisTyped, RrdTyped
<1>2. ASSUME NEW r \in Runs, Start(r) PROVE Typed'
  <2>1. RunTyped'
    BY <1>2 DEF Start, IdleRun, RunTyped
  <2>2. DirTyped'
    BY <1>2 DEF Start, IdleRun, DirTyped
  <2> QED
    BY <1>2, <2>1, <2>2 DEF Start, FilesTyped, AnalysisTyped, LogTyped, RrdTyped
<1>3. ASSUME NEW r \in Runs, Lock(r) PROVE Typed'
  <2>1. LogTyped'
    BY <1>3 DEF Lock, At, Place, LogTyped
  <2>2. RunTyped'
    BY <1>3 DEF Lock, At, Place, RunTyped
  <2> QED
    BY <1>3, <2>1, <2>2 DEF Lock, DirTyped, FilesTyped, AnalysisTyped, RrdTyped
<1>4. ASSUME NEW r \in Runs, LockBusy(r) PROVE Typed'
  <2>1. RunTyped'
    BY <1>4 DEF LockBusy, At, Place, Abandon, IdleRun, NoRecords, RunTyped
  <2>2. DirTyped'
    BY <1>4 DEF LockBusy, At, Place, Abandon, IdleRun, NoRecords, DirTyped
  <2> QED
    BY <1>4, <2>1, <2>2 DEF LockBusy, FilesTyped, AnalysisTyped, LogTyped, RrdTyped
<1>5. ASSUME NEW r \in Runs, Logtail(r) PROVE Typed'
  <2>1. RunTyped'
    BY <1>5 DEF Logtail, At, Place, RunTyped
  <2>2. DirTyped'
    <3> DEFINE new == (offset[Place(r)] + 1)..logged[Place(r)]
    <3>1. Place(r) \in Places
      BY DEF Place, RunTyped
    <3>2. new \in SUBSET (1..MaxRecords)
      BY <3>1, UsageAssumption DEF LogTyped
    <3> HIDE DEF new
    <3>3. clf' = [clf EXCEPT ![run[r].wd][Place(r)] = new] /\ dir' = dir
      BY <1>5 DEF Logtail, new
    <3> QED
      BY <3>1, <3>2, <3>3 DEF DirTyped
  <2>3. LogTyped'
    BY <1>5 DEF Logtail, At, Place, LogTyped
  <2> QED
    BY <1>5, <2>1, <2>2, <2>3 DEF Logtail, FilesTyped, AnalysisTyped, RrdTyped
<1>6. ASSUME NEW r \in Runs, Unlock(r) PROVE Typed'
  <2>1. RunTyped'
    <3>1. Place(r) # Len(Logs) => Place(r) + 1 \in Places
      BY DEF Place, RunTyped
    <3>2. CASE Place(r) = Len(Logs)
      BY <1>6, <3>2 DEF Unlock, RunTyped
    <3>3. CASE Place(r) # Len(Logs)
      <4>1. run' = [run EXCEPT ![r].pc = "lock", ![r].at = Place(r) + 1]
        BY <1>6, <3>3 DEF Unlock
      <4> QED
        BY <3>1, <3>3, <4>1 DEF RunTyped
    <3> QED
      BY <3>2, <3>3
  <2>2. LogTyped'
    BY <1>6 DEF Unlock, At, Place, LogTyped
  <2> QED
    BY <1>6, <2>1, <2>2 DEF Unlock, DirTyped, FilesTyped, AnalysisTyped, RrdTyped
<1>7. ASSUME NEW r \in Runs, Ready(r) PROVE Typed'
  <2>1. RunTyped'
    BY <1>7 DEF Ready, At, RunTyped
  <2>2. DirTyped'
    BY <1>7 DEF Ready, At, DirTyped
  <2> QED
    BY <1>7, <2>1, <2>2 DEF Ready, FilesTyped, AnalysisTyped, LogTyped, RrdTyped
<1>8. ASSUME NEW r \in Runs, Launch(r) PROVE Typed'
  <2>1. RunTyped'
    BY <1>8 DEF Launch, At, FirstStep, Truncated, IdleRun, RunTyped
  <2>2. FilesTyped'
    BY <1>8 DEF Launch, At, FirstStep, Truncated, IdleRun, FilesTyped, FileStates
  <2>3. AnalysisTyped'
    BY <1>8 DEF Launch, At, FirstStep, Truncated, IdleRun, AnalysisTyped, NoAnalysis
  <2> QED
    BY <1>8, <2>1, <2>2, <2>3 DEF Launch, DirTyped, LogTyped, RrdTyped
<1>9. ASSUME NEW r \in Runs, Crash(r) PROVE Typed'
  <2>1. RunTyped'
    BY <1>9 DEF Crash, At, Abandon, IdleRun, NoRecords, RunTyped
  <2>2. LogTyped'
    BY <1>9 DEF Crash, At, Abandon, IdleRun, NoRecords, LogTyped
  <2>3. DirTyped'
    <3>1. CASE At(r, "launch")
      BY <1>9, <3>1 DEF Crash, DirTyped
    <3>2. CASE ~At(r, "launch")
      <4>1. Abandon(run[r].wd)
        BY <1>9, <3>2 DEF Crash
      <4> QED
        BY <4>1 DEF Abandon, DirTyped, NoRecords
    <3> QED
      BY <3>1, <3>2
  <2>4. crashes' \in 0..MaxCrashes
    BY <1>9, UsageAssumption DEF Crash
  <2> QED
    BY <1>9, <2>1, <2>2, <2>3, <2>4 DEF Crash, FilesTyped, AnalysisTyped, RrdTyped
<1>10. ASSUME NEW w \in Dirs, Process(w) PROVE Typed'
  <2>1. FilesTyped'
    BY <1>10, ProcessTyped
  <2>2. AnalysisTyped'
    BY <1>10 DEF Process, Doing, Truncated, AnalysisTyped, NoAnalysis
  <2> QED
    BY <1>10, <2>1, <2>2 DEF Process, RunTyped, DirTyped, LogTyped, RrdTyped
<1>11. ASSUME NEW w \in Dirs, LockRrd(w) PROVE Typed'
  <2>1. RrdTyped'
    BY <1>11 DEF LockRrd, Doing, RrdTyped
  <2>2. AnalysisTyped'
    BY <1>11 DEF LockRrd, Doing, AnalysisTyped, NoAnalysis
  <2> QED
    BY <1>11, <2>1, <2>2 DEF LockRrd, RunTyped, DirTyped, FilesTyped, LogTyped
<1>12. ASSUME NEW w \in Dirs, RrdBusy(w) PROVE Typed'
  <2>1. AnalysisTyped'
    BY <1>12, OnwardTyped DEF RrdBusy
  <2> QED
    BY <1>12, <2>1 DEF RrdBusy, RunTyped, DirTyped, FilesTyped, LogTyped, RrdTyped
<1>13. ASSUME NEW w \in Dirs, UpdateRrd(w) PROVE Typed'
  <2>1. RrdTyped'
    <3> DEFINE p == analysis[w].at
               sums == Sums(p, Found(w))
    <3>1. p \in Places
      BY DEF AnalysisTyped
    <3>2. sums \in [1..MaxRecords -> 0..2]
      <4>1. \A i \in 1..MaxRecords : counted[p][i] \in 0..2 /\ More(counted[p][i]) \in 0..2
        <5> HIDE DEF p
        <5>1. counted[p] \in [1..MaxRecords -> 0..2]
          BY <3>1 DEF RrdTyped
        <5>2. \A c \in 0..2 : More(c) \in 0..2
          BY DEF More
        <5> QED
          BY <5>1, <5>2
      <4> QED
        BY <4>1 DEF Sums
    <3>3. counted' = [counted EXCEPT ![p] = sums] /\ rrdLock' = [rrdLock EXCEPT ![p] = Nobody]
      BY <1>13 DEF UpdateRrd
    <3> HIDE DEF sums
    <3> QED
      BY <3>1, <3>2, <3>3 DEF RrdTyped
  <2>2. AnalysisTyped'
    BY <1>13, OnwardTyped DEF UpdateRrd
  <2> QED
    BY <1>13, <2>1, <2>2 DEF UpdateRrd, RunTyped, DirTyped, FilesTyped, LogTyped
<1>18. ASSUME NEW w \in Dirs, UpdateFails(w) PROVE Typed'
  <2>1. AnalysisTyped'
    BY <1>18, OnwardTyped DEF UpdateFails
  <2>2. RrdTyped'
    BY <1>18 DEF UpdateFails, RrdTyped
  <2> QED
    BY <1>18, <2>1, <2>2 DEF UpdateFails, RunTyped, DirTyped, FilesTyped, LogTyped
<1>14. ASSUME NEW w \in Dirs, Remove(w) PROVE Typed'
  <2>1. DirTyped'
    BY <1>14 DEF Remove, Doing, NoRecords, NoFiles, NoAnalysis, DirTyped
  <2>2. FilesTyped'
    BY <1>14 DEF Remove, Doing, NoRecords, NoFiles, NoAnalysis, FilesTyped, FileStates
  <2>3. AnalysisTyped'
    BY <1>14 DEF Remove, Doing, NoRecords, NoFiles, NoAnalysis, AnalysisTyped
  <2> QED
    BY <1>14, <2>1, <2>2, <2>3 DEF Remove, RunTyped, LogTyped, RrdTyped
<1>15. ASSUME NEW w \in Dirs, CrashAnalysis(w) PROVE Typed'
  <2>1. RrdTyped'
    BY <1>15 DEF CrashAnalysis, NoAnalysis, RrdTyped
  <2>2. AnalysisTyped'
    BY <1>15 DEF CrashAnalysis, NoAnalysis, AnalysisTyped
  <2>3. crashes' \in 0..MaxCrashes
    BY <1>15, UsageAssumption DEF CrashAnalysis
  <2> QED
    BY <1>15, <2>1, <2>2, <2>3 DEF CrashAnalysis, RunTyped, DirTyped, FilesTyped, LogTyped
<1>16. CASE Reboot
  <2>1. RunTyped'
    BY <1>16 DEF Reboot, IdleRun, NoRecords, NoAnalysis, RunTyped
  <2>2. DirTyped'
    BY <1>16 DEF Reboot, IdleRun, NoRecords, NoAnalysis, DirTyped
  <2>3. AnalysisTyped'
    BY <1>16 DEF Reboot, IdleRun, NoRecords, NoAnalysis, AnalysisTyped
  <2>4. LogTyped'
    BY <1>16 DEF Reboot, IdleRun, NoRecords, NoAnalysis, LogTyped
  <2>5. RrdTyped'
    BY <1>16 DEF Reboot, IdleRun, NoRecords, NoAnalysis, RrdTyped
  <2>6. crashes' \in 0..MaxCrashes
    BY <1>16, UsageAssumption DEF Reboot
  <2> QED
    BY <1>16, <2>1, <2>2, <2>3, <2>4, <2>5, <2>6 DEF Reboot, FilesTyped
<1>17. CASE UNCHANGED vars
  <2> QED
    BY <1>17 DEF vars, RunTyped, DirTyped, FilesTyped, AnalysisTyped, LogTyped, RrdTyped
<1> QED
  BY <1>1, <1>2, <1>3, <1>4, <1>5, <1>6, <1>7, <1>8, <1>9, <1>10, <1>11, <1>12, <1>13, <1>14,
              <1>15, <1>16, <1>17, <1>18 DEF Next, RunStep, AnalysisStep

---------------------------------------------------------------------------
(* The inductive invariant *)

LEMMA InvNext == Typed /\ Inv /\ [Next]_vars => Inv'
<1> SUFFICES ASSUME Typed, Inv, [Next]_vars PROVE Inv'
  OBVIOUS
<1> USE PlacesAre DEF Typed, Inv, logVars, dirVars, rrdVars, history
<1> Typed'
  BY TypeNext
<1>1. ASSUME NEW p \in Places, Serve(p) PROVE Inv'
  <2>1. Holds' /\ Alone' /\ EmptyAhead' /\ Blank'
    BY <1>1 DEF Serve, Holds, Collecting, Alone, EmptyAhead, IsAhead, Blank
  <2>2. FilesInOrder' /\ Disjoint' /\ Settled' /\ CountedPassed'
    BY <1>1 DEF Serve, FilesInOrder, Updating, Doing, Disjoint, Settled, IsBehind,
              CountedPassed
  <2>3. CountedBehind' /\ TwiceDied' /\ NothingForgotten'
    BY <1>1 DEF Serve, CountedBehind, IsBehind, Updating, Doing, TwiceDied, NothingForgotten
  <2>4. Passed'
    BY <1>1 DEF Serve, Passed, LogTyped
  <2> QED
    BY <2>1, <2>2, <2>3, <2>4
<1>2. ASSUME NEW r \in Runs, Start(r) PROVE Inv'
  <2>a. PICK w \in Dirs : /\ dir[w] = "none" /\ dir' = [dir EXCEPT ![w] = "collecting"]
                         /\ run' = [run EXCEPT ![r] = [pc |-> "lock", at |-> 1, wd |-> w]]
    BY <1>2 DEF Start
  <2>1. /\ FilesInOrder' /\ Passed' /\ Disjoint' /\ Settled'
        /\ CountedPassed' /\ CountedBehind' /\ TwiceDied' /\ NothingForgotten'
    BY <1>2 DEF Start, FilesInOrder, Updating, Doing, Passed, Disjoint, Settled, IsBehind,
              CountedPassed, CountedBehind, TwiceDied, NothingForgotten
  <2>2. Holds'
    BY <1>2 DEF Start, Holds, Collecting, DirTyped
  <2>3. Alone'
    BY <2>a DEF Alone, Holds, Collecting, RunTyped
  <2>4. EmptyAhead'
    <3>1. clf' = clf /\ \A p \in Places : clf[w][p] = {}
      BY <1>2, <2>a DEF Start, Blank, NoRecords
    <3> QED
      BY <2>a, <3>1 DEF EmptyAhead, IsAhead, RunTyped
  <2>5. Blank'
    BY <1>2 DEF Start, Blank
  <2> QED
    BY <2>1, <2>2, <2>3, <2>4, <2>5
<1>3. ASSUME NEW r \in Runs, Lock(r) PROVE Inv'
  <2>a. /\ run[r].pc = "lock" /\ run[r].wd \in Dirs /\ dir[run[r].wd] = "collecting"
        /\ run[r].at \in Places
    BY <1>3 DEF Lock, At, Holds, Collecting, RunTyped
  <2>b. /\ \A s \in Runs \ {r} : run'[s] = run[s]
        /\ run'[r].wd = run[r].wd
        /\ run'[r].pc = "tail" /\ run'[r].at = run[r].at
    BY <1>3 DEF Lock, Place, RunTyped
  <2>1. Blank' /\ FilesInOrder' /\ Passed' /\ Disjoint'
    BY <1>3 DEF Lock, Blank, FilesInOrder, Updating, Doing, Passed, Disjoint
  <2>2. Settled' /\ CountedPassed' /\ CountedBehind' /\ TwiceDied'
    BY <1>3 DEF Lock, Settled, IsBehind, Updating, Doing, CountedPassed, CountedBehind,
              TwiceDied
  <2>3. NothingForgotten'
    BY <1>3 DEF Lock, NothingForgotten
  <2>4. Holds'
    BY <1>3 DEF Lock, At, Holds, Collecting
  <2>5. Alone'
    BY <1>3 DEF Lock, At, Alone, Collecting
  <2>6. EmptyAhead'
    <3>1. clf' = clf
      BY <1>3 DEF Lock
    <3>2. ASSUME NEW s \in Runs, NEW p \in Places, IsAhead(s, p)'
          PROVE  IsAhead(s, p) /\ run'[s].wd = run[s].wd
      <4>1. CASE s = r
        BY <2>a, <2>b, <3>2, <4>1 DEF IsAhead
      <4>2. CASE s # r
        BY <2>b, <3>2, <4>2 DEF IsAhead
      <4> QED
        BY <4>1, <4>2
    <3> QED
      BY <3>1, <3>2 DEF EmptyAhead
  <2> QED
    BY <2>1, <2>2, <2>3, <2>4, <2>5, <2>6
<1>4. ASSUME NEW r \in Runs, LockBusy(r) PROVE Inv'
  <2> DEFINE gone == {run[r].wd}
  <2>a. /\ run[r].pc = "lock"
        /\ \A v \in gone : /\ v \in Dirs /\ dir[v] = "collecting"
                           /\ \A s \in Runs \ {r} : Collecting(s) => run[s].wd # v
    BY <1>4 DEF LockBusy, At, Holds, Alone, Collecting
  <2>b. /\ \A v \in Dirs : /\ dir'[v] = IF v \in gone THEN "none" ELSE dir[v]
                           /\ clf'[v] = IF v \in gone THEN NoRecords ELSE clf[v]
        /\ abandoned \subseteq abandoned' /\ \A v \in gone : RecordsOf(v) \subseteq abandoned'
        /\ run'[r].pc = "idle" /\ \A s \in Runs \ {r} : run'[s] = run[s]
        /\ UNCHANGED <<offset, files, analysis, counted, dropped, refused>>
    BY <1>4, <2>a DEF LockBusy, Abandon, DirTyped, RunTyped, IdleRun
  <2> HIDE DEF gone
  <2>c. \A v \in Dirs, p \in Places : clf'[v][p] \subseteq clf[v][p]
    BY <2>b DEF NoRecords
  <2>1. FilesInOrder' /\ CountedPassed' /\ TwiceDied'
    BY <1>4 DEF LockBusy, FilesInOrder, Updating, Doing, CountedPassed, TwiceDied
  <2>2. Holds'
    BY <2>a, <2>b DEF Holds, Collecting
  <2>3. Alone'
    BY <1>4 DEF LockBusy, IdleRun, Alone, Collecting
  <2>4. EmptyAhead'
    <3>1. \A s \in Runs, p \in Places : IsAhead(s, p) => run[s].wd \in Dirs /\ Collecting(s)
      BY DEF IsAhead, Collecting, Holds
    <3>2. ASSUME NEW s \in Runs, NEW p \in Places, IsAhead(s, p)'
          PROVE  IsAhead(s, p) /\ run'[s].wd = run[s].wd
      <4>1. s # r
        BY <2>b, <3>2 DEF IsAhead
      <4> QED
        BY <2>b, <3>2, <4>1 DEF IsAhead
    <3> QED
      BY <2>c, <3>1, <3>2 DEF EmptyAhead
  <2>5. Blank'
    BY <2>a, <2>b DEF Blank
  <2>6. Passed'
    BY <1>4, <2>b, <2>c DEF LockBusy, Passed
  <2>7. Disjoint'
    BY <2>c DEF Disjoint
  <2>8. Settled'
    BY <2>b, <2>c DEF Settled, IsBehind, Updating, Doing
  <2>9. CountedBehind'
    BY <1>4, <2>b, <2>c DEF LockBusy, CountedBehind, IsBehind, Updating, Doing
  <2>10. NothingForgotten'
    <3>1. \A v \in gone, p \in Places : \A i \in clf[v][p] : <<p, i>> \in abandoned'
      BY <2>b, RecordsAre
    <3>2. \A v \in Dirs \ gone : clf'[v] = clf[v]
      BY <2>b
    <3>3. ASSUME NEW p \in Places, NEW i \in 1..offset[p]
          PROVE  \/ counted[p][i] > 0
                 \/ <<p, i>> \in dropped \cup refused \cup abandoned'
                 \/ \E v \in Dirs : i \in clf'[v][p]
      BY <2>b, <3>1, <3>2 DEF NothingForgotten
    <3> QED
      BY <2>b, <3>3 DEF NothingForgotten
  <2> QED
    BY <2>1, <2>2, <2>3, <2>4, <2>5, <2>6, <2>7, <2>8, <2>9, <2>10
<1>5. ASSUME NEW r \in Runs, Logtail(r) PROVE Inv'
  <2>a. /\ run[r].pc = "tail" /\ run[r].wd \in Dirs /\ dir[run[r].wd] = "collecting"
        /\ run[r].at \in Places
    BY <1>5 DEF Logtail, At, Holds, Collecting, RunTyped
  <2>b. /\ \A s \in Runs \ {r} : run'[s] = run[s]
        /\ run'[r].wd = run[r].wd
        /\ run'[r].pc = "unlock" /\ run'[r].at = run[r].at
    BY <1>5 DEF Logtail, Place, RunTyped
  <2> DEFINE wd == run[r].wd
             q == run[r].at
             new == (offset[q] + 1)..logged[q]
  <2>c. /\ clf' = [clf EXCEPT ![wd][q] = new]
        /\ offset' = [offset EXCEPT ![q] = logged[q]]
        /\ UNCHANGED <<logged, dir, files, analysis, counted, dropped, refused, abandoned, died>>
    BY <1>5 DEF Logtail, Place
  <2>d. /\ clf'[wd][q] = new /\ offset'[q] = logged[q] /\ offset[q] <= logged[q]
        /\ \A w \in Dirs, p \in Places : w # wd \/ p # q => clf'[w][p] = clf[w][p]
        /\ \A p \in Places \ {q} : offset'[p] = offset[p]
    BY <2>a, <2>c DEF DirTyped, LogTyped, Passed
  <2>e. /\ \A p \in Places : offset[p] \in Nat /\ logged[p] \in Nat /\ offset[p] <= offset'[p]
        /\ \A i \in new : i > offset[q] /\ i \in Nat
    <3>1. \A p \in Places : offset[p] \in Nat /\ logged[p] \in Nat
      BY UsageAssumption DEF LogTyped
    <3>2. \A i \in new : i > offset[q] /\ i \in Nat
      BY <2>a, <3>1
    <3> HIDE DEF wd, q, new
    <3>3. \A p \in Places : offset[p] <= offset'[p]
      BY <2>a, <2>d, <3>1
    <3> QED
      BY <3>1, <3>2, <3>3
  <2>f. clf[wd][q] = {}
    <3>1. q >= run[r].at
      BY <2>a
    <3> QED
      BY <2>a, <3>1 DEF EmptyAhead, IsAhead
  <2>1. FilesInOrder' /\ TwiceDied'
    BY <1>5 DEF Logtail, FilesInOrder, Updating, Doing, TwiceDied
  <2>2. Holds'
    BY <1>5 DEF Logtail, At, Holds, Collecting
  <2>3. Alone'
    BY <1>5 DEF Logtail, At, Alone, Collecting
  <2>4. EmptyAhead'
    <3>1. \A s \in Runs \ {r} : Collecting(s) => run[s].wd # wd
      BY <2>a DEF Alone, Collecting
    <3>2. ASSUME NEW s \in Runs \ {r}, NEW p \in Places, IsAhead(s, p)'
          PROVE  clf'[run'[s].wd][p] = {}
      <4>1. IsAhead(s, p) /\ Collecting(s) /\ run'[s].wd = run[s].wd
        BY <2>b, <3>2 DEF IsAhead, Collecting
      <4>2. run[s].wd \in Dirs /\ run[s].wd # wd
        BY <3>1, <4>1 DEF Holds
      <4> QED
        BY <2>d, <4>1, <4>2 DEF EmptyAhead
    <3>3. ASSUME NEW p \in Places, IsAhead(r, p)' PROVE clf'[wd][p] = {}
      <4>1. IsAhead(r, p) /\ p # q
        BY <2>a, <2>b, <3>3 DEF IsAhead
      <4>2. clf[wd][p] = {}
        BY <4>1 DEF EmptyAhead
      <4> HIDE DEF wd, q, new
      <4> QED
        BY <2>a, <2>d, <4>1, <4>2 DEF wd
    <3>4. ASSUME NEW s \in Runs, NEW p \in Places, IsAhead(s, p)' PROVE clf'[run'[s].wd][p] = {}
      <4>1. CASE s = r
        BY <2>b, <3>3, <3>4, <4>1
      <4>2. CASE s # r
        BY <3>2, <3>4, <4>2
      <4> QED
        BY <4>1, <4>2
    <3> QED
      BY <3>4 DEF EmptyAhead
  <2>5. Blank'
    <3>1. \A w \in Dirs : w # wd => clf'[w] = clf[w]
      BY <2>c DEF DirTyped
    <3> QED
      BY <2>a, <2>c, <3>1 DEF Blank
  <2>6. Passed'
    <3>1. new \subseteq 1..logged[q]
      BY <2>a, <2>e
    <3>2. ASSUME NEW w \in Dirs, NEW p \in Places PROVE clf'[w][p] \subseteq 1..offset'[p]
      <4>1. CASE w = wd /\ p = q
        BY <2>d, <3>1, <4>1
      <4>2. CASE w # wd \/ p # q
        <5> HIDE DEF wd, q, new
        <5>1. clf'[w][p] \subseteq 1..offset[p]
          BY <2>d, <4>2 DEF Passed
        <5> QED
          BY <2>a, <2>e, <5>1, <2>d
      <4> QED
        BY <4>1, <4>2
    <3> QED
      <4>1. \A p \in Places : offset'[p] <= logged'[p]
        BY <2>a, <2>c, <2>d, <2>e DEF Passed
      <4> HIDE DEF wd, q, new
      <4> QED
        BY <3>2, <4>1 DEF Passed
  <2>7. Disjoint'
    <3>1. ASSUME NEW w \in Dirs PROVE clf[w][q] \cap new = {}
      BY <2>a, <2>e DEF Passed
    <3> HIDE DEF wd, q, new
    <3>2. ASSUME NEW v \in Dirs, NEW w \in Dirs, NEW p \in Places, v # w
          PROVE  clf'[v][p] \cap clf'[w][p] = {}
      <4>1. CASE p # q \/ (v # wd /\ w # wd)
        BY <2>d, <3>2, <4>1 DEF Disjoint
      <4>2. CASE p = q /\ v = wd
        BY <2>d, <3>1, <3>2, <4>2
      <4>3. CASE p = q /\ w = wd
        BY <2>d, <3>1, <3>2, <4>3
      <4> QED
        BY <4>1, <4>2, <4>3
    <3> QED
      BY <3>2 DEF Disjoint
  <2>8. Settled'
    <3>1. \A p \in Places : ~IsBehind(wd, p)
      BY <2>a DEF Blank, NoAnalysis, IsBehind, Updating, Doing
    <3> HIDE DEF wd, q, new
    <3> QED
      BY <2>c, <2>d, <3>1 DEF Settled, IsBehind, Updating, Doing
  <2>9. CountedPassed'
    <3> HIDE DEF wd, q, new
    <3> QED
      BY <2>c, <2>d, <2>e, UsageAssumption DEF CountedPassed, LogTyped
  <2>10. CountedBehind'
    <3>1. \A i \in new : i \in 1..MaxRecords
      BY <2>a, <2>e, UsageAssumption DEF LogTyped
    <3>2. \A i \in new : ~(counted[q][i] > 0)
      BY <2>a, <2>e, <3>1 DEF CountedPassed
    <3> HIDE DEF wd, q, new
    <3> QED
      BY <2>c, <2>d, <3>2 DEF CountedBehind, IsBehind, Updating, Doing
  <2>11. NothingForgotten'
    <3>1. \A i \in 1..offset'[q] : i <= offset[q] \/ i \in new
      BY <2>a, <2>d, <2>e
    <3> HIDE DEF wd, q, new
    <3>2. ASSUME NEW p \in Places, NEW i \in 1..offset'[p]
          PROVE  \/ counted'[p][i] > 0
                 \/ <<p, i>> \in dropped' \cup refused' \cup abandoned'
                 \/ \E w \in Dirs : i \in clf'[w][p]
      <4>1. CASE p = q /\ i \in new
        BY <2>a, <2>d, <4>1 DEF wd
      <4>2. CASE ~(p = q /\ i \in new)
        <5>1. i \in 1..offset[p]
          BY <2>d, <2>e, <3>1, <4>2
        <5>2. \A w \in Dirs : i \in clf[w][p] => i \in clf'[w][p]
          BY <2>d, <2>f
        <5> QED
          BY <2>c, <5>1, <5>2 DEF NothingForgotten
      <4> QED
        BY <4>1, <4>2
    <3> QED
      BY <3>2 DEF NothingForgotten
  <2> QED
    BY <2>1, <2>2, <2>3, <2>4, <2>5, <2>6, <2>7, <2>8, <2>9, <2>10, <2>11
<1>6. ASSUME NEW r \in Runs, Unlock(r) PROVE Inv'
  <2>a. /\ run[r].pc = "unlock" /\ run[r].wd \in Dirs /\ dir[run[r].wd] = "collecting"
        /\ run[r].at \in Places
    BY <1>6 DEF Unlock, At, Holds, Collecting, RunTyped
  <2>b. /\ \A s \in Runs \ {r} : run'[s] = run[s]
        /\ run'[r].wd = run[r].wd
        /\ IF run[r].at = Len(Logs) THEN run'[r].pc = "ready" /\ run'[r].at = run[r].at
           ELSE run'[r].pc = "lock" /\ run'[r].at = run[r].at + 1
    BY <1>6 DEF Unlock, Place, RunTyped
  <2>1. Blank' /\ FilesInOrder' /\ Passed' /\ Disjoint'
    BY <1>6 DEF Unlock, Blank, FilesInOrder, Updating, Doing, Passed, Disjoint
  <2>2. Settled' /\ CountedPassed' /\ CountedBehind' /\ TwiceDied'
    BY <1>6 DEF Unlock, Settled, IsBehind, Updating, Doing, CountedPassed, CountedBehind,
              TwiceDied
  <2>3. NothingForgotten'
    BY <1>6 DEF Unlock, NothingForgotten
  <2>4. Holds'
    BY <1>6 DEF Unlock, At, Holds, Collecting, RunTyped
  <2>5. Alone'
    BY <1>6 DEF Unlock, At, Alone, Collecting, RunTyped
  <2>6. EmptyAhead'
    <3>1. clf' = clf
      BY <1>6 DEF Unlock
    <3>2. ASSUME NEW s \in Runs, NEW p \in Places, IsAhead(s, p)'
          PROVE  IsAhead(s, p) /\ run'[s].wd = run[s].wd
      <4>1. CASE s = r
        BY <2>a, <2>b, <3>2, <4>1 DEF IsAhead
      <4>2. CASE s # r
        BY <2>b, <3>2, <4>2 DEF IsAhead
      <4> QED
        BY <4>1, <4>2
    <3> QED
      BY <3>1, <3>2 DEF EmptyAhead
  <2> QED
    BY <2>1, <2>2, <2>3, <2>4, <2>5, <2>6
<1>7. ASSUME NEW r \in Runs, Ready(r) PROVE Inv'
  <2>a. /\ run[r].pc = "ready" /\ run[r].wd \in Dirs /\ dir[run[r].wd] = "collecting"
        /\ run[r].at \in Places
    BY <1>7 DEF Ready, At, Holds, Collecting, RunTyped
  <2>b. /\ \A s \in Runs \ {r} : run'[s] = run[s]
        /\ run'[r].wd = run[r].wd
        /\ run'[r].pc = "launch" /\ run'[r].at = run[r].at
    BY <1>7 DEF Ready, Place, RunTyped
  <2>1. /\ FilesInOrder' /\ Passed' /\ Disjoint' /\ Settled'
        /\ CountedPassed' /\ CountedBehind' /\ TwiceDied' /\ NothingForgotten'
    BY <1>7 DEF Ready, FilesInOrder, Updating, Doing, Passed, Disjoint, Settled, IsBehind,
              CountedPassed, CountedBehind, TwiceDied, NothingForgotten
  <2>2. Holds'
    <3>1. \A s \in Runs \ {r} : Collecting(s) => run[s].wd # run[r].wd
      BY <2>a DEF Alone, Collecting
    <3>2. \A w \in Dirs \ {run[r].wd} : dir'[w] = dir[w]
      BY <1>7 DEF Ready, DirTyped
    <3> QED
      BY <2>b, <3>1, <3>2 DEF Holds, Collecting
  <2>3. Alone'
    BY <1>7 DEF Ready, Alone, Collecting
  <2>4. EmptyAhead'
    <3>1. clf' = clf
      BY <1>7 DEF Ready
    <3>2. ASSUME NEW s \in Runs, NEW p \in Places, IsAhead(s, p)'
          PROVE  IsAhead(s, p) /\ run'[s].wd = run[s].wd
      BY <2>b, <3>2 DEF IsAhead
    <3> QED
      BY <3>1, <3>2 DEF EmptyAhead
  <2>5. Blank'
    BY <1>7 DEF Ready, Blank
  <2> QED
    BY <2>1, <2>2, <2>3, <2>4, <2>5
<1>8. ASSUME NEW r \in Runs, Launch(r) PROVE Inv'
  <2>1. /\ Passed' /\ Disjoint' /\ CountedPassed'
        /\ TwiceDied' /\ NothingForgotten'
    BY <1>8 DEF Launch, Passed, Disjoint, CountedPassed, TwiceDied, NothingForgotten
  <2>2. Holds'
    BY <1>8 DEF Launch, IdleRun, Holds, Collecting
  <2>3. Alone'
    BY <1>8 DEF Launch, IdleRun, Alone, Collecting
  <2>4. EmptyAhead'
    BY <1>8 DEF Launch, IdleRun, EmptyAhead, IsAhead, RunTyped
  <2>5. Blank'
    BY <1>8 DEF Launch, Blank
  <2>6. FilesInOrder'
    BY <1>8 DEF Launch, FirstStep, Truncated, FilesInOrder, Updating, Doing
  <2>7. Settled'
    BY <1>8 DEF Launch, FirstStep, Settled, IsBehind, Updating, Doing
  <2>8. CountedBehind'
    BY <1>8 DEF Launch, NoAnalysis, CountedBehind, IsBehind, Updating, Doing
  <2> QED
    BY <2>1, <2>2, <2>3, <2>4, <2>5, <2>6, <2>7, <2>8
<1>9. ASSUME NEW r \in Runs, Crash(r) PROVE Inv'
  <2> DEFINE gone == IF At(r, "launch") THEN {} ELSE {run[r].wd}
  <2>a. /\ \A v \in gone : /\ v \in Dirs /\ dir[v] = "collecting"
                           /\ \A s \in Runs \ {r} : Collecting(s) => run[s].wd # v
    BY <1>9 DEF Crash, At, Holds, Alone, Collecting, RunTyped
  <2>b. /\ \A v \in Dirs : /\ dir'[v] = IF v \in gone THEN "none" ELSE dir[v]
                           /\ clf'[v] = IF v \in gone THEN NoRecords ELSE clf[v]
        /\ abandoned \subseteq abandoned' /\ \A v \in gone : RecordsOf(v) \subseteq abandoned'
        /\ run'[r].pc = "idle" /\ \A s \in Runs \ {r} : run'[s] = run[s]
        /\ UNCHANGED <<offset, files, analysis, counted, dropped, refused>>
    BY <1>9, <2>a DEF Crash, Abandon, DirTyped, RunTyped, IdleRun
  <2> HIDE DEF gone
  <2>c. \A v \in Dirs, p \in Places : clf'[v][p] \subseteq clf[v][p]
    BY <2>b DEF NoRecords
  <2>1. FilesInOrder' /\ CountedPassed' /\ TwiceDied'
    BY <1>9 DEF Crash, FilesInOrder, Updating, Doing, CountedPassed, TwiceDied
  <2>2. Holds'
    BY <2>a, <2>b DEF Holds, Collecting
  <2>3. Alone'
    BY <1>9 DEF Crash, IdleRun, Alone, Collecting
  <2>4. EmptyAhead'
    <3>1. \A s \in Runs, p \in Places : IsAhead(s, p) => run[s].wd \in Dirs /\ Collecting(s)
      BY DEF IsAhead, Collecting, Holds
    <3>2. ASSUME NEW s \in Runs, NEW p \in Places, IsAhead(s, p)'
          PROVE  IsAhead(s, p) /\ run'[s].wd = run[s].wd
      <4>1. s # r
        BY <2>b, <3>2 DEF IsAhead
      <4> QED
        BY <2>b, <3>2, <4>1 DEF IsAhead
    <3> QED
      BY <2>c, <3>1, <3>2 DEF EmptyAhead
  <2>5. Blank'
    BY <2>a, <2>b DEF Blank
  <2>6. Passed'
    BY <1>9, <2>b, <2>c DEF Crash, Passed
  <2>7. Disjoint'
    BY <2>c DEF Disjoint
  <2>8. Settled'
    BY <2>b, <2>c DEF Settled, IsBehind, Updating, Doing
  <2>9. CountedBehind'
    BY <1>9, <2>b, <2>c DEF Crash, CountedBehind, IsBehind, Updating, Doing
  <2>10. NothingForgotten'
    <3>1. \A v \in gone, p \in Places : \A i \in clf[v][p] : <<p, i>> \in abandoned'
      BY <2>b, RecordsAre
    <3>2. \A v \in Dirs \ gone : clf'[v] = clf[v]
      BY <2>b
    <3>3. ASSUME NEW p \in Places, NEW i \in 1..offset[p]
          PROVE  \/ counted[p][i] > 0
                 \/ <<p, i>> \in dropped \cup refused \cup abandoned'
                 \/ \E v \in Dirs : i \in clf'[v][p]
      BY <2>b, <3>1, <3>2 DEF NothingForgotten
    <3> QED
      BY <2>b, <3>3 DEF NothingForgotten
  <2> QED
    BY <2>1, <2>2, <2>3, <2>4, <2>5, <2>6, <2>7, <2>8, <2>9, <2>10
<1>10. ASSUME NEW w \in Dirs, Process(w) PROVE Inv'
  <2>1. Holds' /\ Alone' /\ EmptyAhead' /\ Passed' /\ Disjoint'
    BY <1>10 DEF Process, Holds, Collecting, Alone, EmptyAhead, IsAhead, Passed, Disjoint
  <2>2. CountedPassed' /\ TwiceDied' /\ NothingForgotten'
    BY <1>10 DEF Process, CountedPassed, TwiceDied, NothingForgotten
  <2>3. Blank'
    BY <1>10 DEF Process, NoAnalysis, Blank
  <2>4. FilesInOrder'
    BY <1>10 DEF Process, Doing, Truncated, FilesInOrder, Updating, FilesTyped, AnalysisTyped
  <2>5. Settled'
    <3>1. analysis[w].at = 1 /\ analysis'[w].at = 1 /\ analysis'[w].pc # "remove"
      BY <1>10 DEF Process, FilesInOrder, Updating, Doing, AnalysisTyped
    <3>2. \A v \in Dirs \ {w} : analysis'[v] = analysis[v]
      BY <1>10 DEF Process, AnalysisTyped
    <3>3. clf' = clf /\ counted' = counted /\ dropped' = dropped /\ refused' = refused
      BY <1>10 DEF Process
    <3> QED
      BY <3>1, <3>2, <3>3 DEF Settled, IsBehind, Updating, Doing
  <2>6. CountedBehind'
    BY <1>10 DEF Process, Doing, CountedBehind, IsBehind, Updating
  <2> QED
    BY <2>1, <2>2, <2>3, <2>4, <2>5, <2>6
<1>11. ASSUME NEW w \in Dirs, LockRrd(w) PROVE Inv'
  <2>1. /\ Holds' /\ Alone' /\ EmptyAhead' /\ Passed'
        /\ Disjoint' /\ CountedPassed' /\ TwiceDied' /\ NothingForgotten'
    BY <1>11 DEF LockRrd, Holds, Collecting, Alone, EmptyAhead, IsAhead, Passed, Disjoint,
              CountedPassed, TwiceDied, NothingForgotten
  <2>2. Blank'
    BY <1>11 DEF LockRrd, Doing, NoAnalysis, Blank
  <2>3. FilesInOrder'
    BY <1>11 DEF LockRrd, Doing, FilesInOrder, Updating
  <2>4. Settled'
    BY <1>11 DEF LockRrd, Doing, Settled, IsBehind, Updating
  <2>5. CountedBehind'
    BY <1>11 DEF LockRrd, Doing, CountedBehind, IsBehind, Updating
  <2> QED
    BY <2>1, <2>2, <2>3, <2>4, <2>5
<1>12. ASSUME NEW w \in Dirs, RrdBusy(w) PROVE Inv'
  <2>1. /\ Holds' /\ Alone' /\ EmptyAhead' /\ Passed'
        /\ Disjoint' /\ CountedPassed' /\ TwiceDied'
    BY <1>12 DEF RrdBusy, Holds, Collecting, Alone, EmptyAhead, IsAhead, Passed, Disjoint,
              CountedPassed, TwiceDied
  <2>2. Blank'
    BY <1>12 DEF RrdBusy, Doing, Onward, NoAnalysis, Blank, AnalysisTyped
  <2>3. FilesInOrder'
    BY <1>12 DEF RrdBusy, Doing, Onward, FilesInOrder, Updating, AnalysisTyped
  <2>4. Settled'
    BY <1>12 DEF RrdBusy, Doing, Onward, Settled, IsBehind, Updating, AnalysisTyped
  <2>5. CountedBehind'
    BY <1>12 DEF RrdBusy, Doing, Onward, CountedBehind, IsBehind, Updating, AnalysisTyped
  <2>6. NothingForgotten'
    BY <1>12 DEF RrdBusy, NothingForgotten
  <2> QED
    BY <2>1, <2>2, <2>3, <2>4, <2>5, <2>6
<1>13. ASSUME NEW w \in Dirs, UpdateRrd(w) PROVE Inv'
  <2> DEFINE p == analysis[w].at
             found == clf[w][p]
  <2>a. /\ p \in Places /\ Doing(w, "updating") /\ found \subseteq 1..MaxRecords
        /\ UNCHANGED <<run, offset, dir, clf, dropped, refused, abandoned, died>>
    BY <1>13 DEF UpdateRrd, AnalysisTyped, DirTyped
  <2>b. /\ \A v \in Dirs \ {w} : analysis'[v] = analysis[v]
        /\ p = Len(Logs) => analysis'[w].pc = "remove"
        /\ p # Len(Logs) => analysis'[w].pc = "update" /\ analysis'[w].at = p + 1
    BY <1>13 DEF UpdateRrd, Onward, AnalysisTyped
  <2>c. counted' = [counted EXCEPT ![p] = Sums(p, found)]
    BY <1>13, <2>a DEF UpdateRrd, Found, FilesInOrder, Updating, Doing
  <2> HIDE DEF p, found
  <2>d. \A q \in Places, i \in 1..MaxRecords :
          counted'[q][i] = IF q = p /\ i \in found THEN More(counted[q][i]) ELSE counted[q][i]
    BY <2>a, <2>c DEF Sums, RrdTyped
  <2>e. ASSUME NEW q \in Places, NEW i \in 1..MaxRecords
        PROVE  /\ counted[q][i] > 0 => counted'[q][i] > 0
               /\ q = p /\ i \in found => counted'[q][i] > 0
               /\ counted'[q][i] > 0 => counted[q][i] > 0 \/ (q = p /\ i \in found)
               /\ counted'[q][i] > 1 => \/ counted[q][i] > 1
                                        \/ counted[q][i] > 0 /\ q = p /\ i \in found
    <3>1. counted[q][i] \in 0..2
      <4>1. counted[q] \in [1..MaxRecords -> 0..2]
        BY DEF RrdTyped
      <4> QED
        BY <4>1
    <3>2. CASE q = p /\ i \in found
      <4>1. counted'[q][i] = More(counted[q][i])
        BY <2>d, <3>2
      <4> QED
        BY <3>1, <3>2, <4>1 DEF More
    <3>3. CASE ~(q = p /\ i \in found)
      <4>1. counted'[q][i] = counted[q][i]
        BY <2>d, <3>3
      <4> QED
        BY <3>1, <3>3, <4>1
    <3> QED
      BY <3>2, <3>3
  <2>f. /\ ~IsBehind(w, p)
        /\ \A q \in Places : IsBehind(w, q)' <=> IsBehind(w, q) \/ q = p
        /\ \A v \in Dirs \ {w}, q \in Places : IsBehind(v, q)' <=> IsBehind(v, q)
    BY <2>a, <2>b DEF IsBehind, Updating, Doing, p
  <2>g. \A v \in Dirs, q \in Places : clf[v][q] \subseteq 1..MaxRecords
    BY DEF DirTyped
  <2>h. found = clf[w][p]
    BY DEF found
  <2>1. /\ Holds' /\ Alone' /\ EmptyAhead'
        /\ Passed' /\ Disjoint'
    BY <1>13 DEF UpdateRrd, Holds, Collecting, Alone, EmptyAhead, IsAhead, Passed, Disjoint
  <2>2. Blank'
    BY <1>13 DEF UpdateRrd, Doing, Onward, NoAnalysis, Blank, AnalysisTyped
  <2>3. FilesInOrder'
    BY <1>13 DEF UpdateRrd, Doing, Onward, FilesInOrder, Updating, AnalysisTyped
  <2>4. Settled'
    BY <2>a, <2>e, <2>f, <2>g, <2>h DEF Settled
  <2>5. CountedPassed'
    BY <2>a, <2>e, <2>h DEF CountedPassed, Passed
  <2>6. CountedBehind'
    BY <2>a, <2>e, <2>f, <2>g, <2>h DEF CountedBehind, Disjoint
  <2>7. TwiceDied'
    BY <2>a, <2>e, <2>f, <2>h DEF TwiceDied, CountedBehind
  <2>8. NothingForgotten'
    <3>1. \A q \in Places : 1..offset[q] \subseteq 1..MaxRecords
      <4>1. \A q \in Places : offset[q] \in 0..MaxRecords
        BY DEF LogTyped
      <4> QED
        BY <4>1, UsageAssumption
    <3> QED
      BY <2>a, <2>e, <3>1 DEF NothingForgotten
  <2> QED
    BY <2>1, <2>2, <2>3, <2>4, <2>5, <2>6, <2>7, <2>8
<1>18. ASSUME NEW w \in Dirs, UpdateFails(w) PROVE Inv'
  <2> DEFINE p == analysis[w].at
  <2>a. /\ p \in Places /\ Doing(w, "updating")
        /\ \A i \in clf[w][p] : <<p, i>> \in refused'
        /\ refused \subseteq refused'
        /\ UNCHANGED <<run, offset, dir, clf, files, counted, dropped, abandoned, died>>
    BY <1>18 DEF UpdateFails, Found, FilesInOrder, Updating, Doing, AnalysisTyped
  <2>b. /\ \A v \in Dirs \ {w} : analysis'[v] = analysis[v]
        /\ p = Len(Logs) => analysis'[w].pc = "remove"
        /\ p # Len(Logs) => analysis'[w].pc = "update" /\ analysis'[w].at = p + 1
    BY <1>18 DEF UpdateFails, Onward, AnalysisTyped
  <2>1. /\ Holds' /\ Alone' /\ EmptyAhead' /\ Passed'
        /\ Disjoint' /\ CountedPassed' /\ TwiceDied'
    BY <1>18 DEF UpdateFails, Holds, Collecting, Alone, EmptyAhead, IsAhead, Passed, Disjoint,
              CountedPassed, TwiceDied
  <2>2. Blank'
    BY <1>18 DEF UpdateFails, Doing, Onward, NoAnalysis, Blank, AnalysisTyped
  <2>3. FilesInOrder'
    BY <1>18 DEF UpdateFails, Doing, Onward, FilesInOrder, Updating, AnalysisTyped
  <2>c. /\ \A q \in Places : IsBehind(w, q)' <=> IsBehind(w, q) \/ q = p
        /\ \A v \in Dirs \ {w}, q \in Places : IsBehind(v, q)' <=> IsBehind(v, q)
    BY <2>a, <2>b DEF IsBehind, Updating, Doing
  <2> HIDE DEF p
  <2>4. Settled'
    BY <2>a, <2>c DEF Settled
  <2>5. CountedBehind'
    BY <2>a, <2>c DEF CountedBehind
  <2>6. NothingForgotten'
    BY <2>a DEF NothingForgotten
  <2> QED
    BY <2>1, <2>2, <2>3, <2>4, <2>5, <2>6
<1>14. ASSUME NEW w \in Dirs, Remove(w) PROVE Inv'
  <2>a. dir[w] = "ready" /\ \A p \in Places : IsBehind(w, p)
    BY <1>14 DEF Remove, Blank, NoAnalysis, Doing, IsBehind
  <2>b. /\ \A v \in Dirs \ {w} : dir'[v] = dir[v] /\ clf'[v] = clf[v]
        /\ UNCHANGED <<run, offset, counted, dropped, refused, abandoned>>
    BY <1>14 DEF Remove, DirTyped
  <2>1. Alone' /\ CountedPassed' /\ TwiceDied'
    BY <1>14 DEF Remove, Alone, Collecting, CountedPassed, TwiceDied
  <2>2. Holds'
    BY <2>a, <2>b DEF Holds, Collecting
  <2>3. EmptyAhead'
    <3>1. \A s \in Runs, p \in Places : IsAhead(s, p) => run[s].wd \in Dirs \ {w}
      BY <2>a DEF IsAhead, Collecting, Holds
    <3> QED
      BY <2>b, <3>1 DEF EmptyAhead, IsAhead
  <2>4. Blank'
    BY <1>14 DEF Remove, Blank, DirTyped, FilesTyped, AnalysisTyped
  <2>5. FilesInOrder'
    BY <1>14 DEF Remove, Doing, NoFiles, NoAnalysis, FilesInOrder, Updating, AnalysisTyped
  <2>6. Passed'
    BY <1>14 DEF Remove, NoRecords, Passed
  <2>7. Disjoint'
    BY <1>14 DEF Remove, NoRecords, Disjoint
  <2>8. Settled'
    BY <1>14 DEF Remove, Doing, NoRecords, Settled, IsBehind, Updating
  <2>9. CountedBehind'
    BY <1>14 DEF Remove, Doing, NoRecords, CountedBehind, IsBehind, Updating, DirTyped
  <2>10. NothingForgotten'
    <3>1. \A p \in Places : \A i \in clf[w][p] :
            counted[p][i] > 0 \/ <<p, i>> \in dropped \cup refused
      BY <2>a DEF Settled
    <3> QED
      BY <2>b, <3>1 DEF NothingForgotten
  <2> QED
    BY <2>1, <2>2, <2>3, <2>4, <2>5, <2>6, <2>7, <2>8, <2>9, <2>10
<1>15. ASSUME NEW w \in Dirs, CrashAnalysis(w) PROVE Inv'
  <2>1. /\ Holds' /\ Alone' /\ EmptyAhead' /\ Passed'
        /\ Disjoint' /\ CountedPassed' /\ NothingForgotten'
    BY <1>15 DEF CrashAnalysis, Holds, Collecting, Alone, EmptyAhead, IsAhead, Passed, Disjoint,
              CountedPassed, NothingForgotten
  <2>2. Blank'
    BY <1>15 DEF CrashAnalysis, Blank
  <2>3. FilesInOrder'
    BY <1>15 DEF CrashAnalysis, NoAnalysis, FilesInOrder, Updating, Doing
  <2>4. Settled'
    BY <1>15 DEF CrashAnalysis, NoAnalysis, Settled, IsBehind, Updating, Doing
  <2>5. CountedBehind'
    BY <1>15 DEF CrashAnalysis, CountedOf, RecordsOf, CountedBehind, IsBehind, Updating, Doing
  <2>6. TwiceDied'
    BY <1>15 DEF CrashAnalysis, TwiceDied
  <2> QED
    BY <2>1, <2>2, <2>3, <2>4, <2>5, <2>6
<1>16. CASE Reboot
  <2>1. CountedPassed'
    BY <1>16 DEF Reboot, CountedPassed
  <2>2. Holds'
    BY <1>16 DEF Reboot, IdleRun, Holds, Collecting
  <2>3. Alone'
    BY <1>16 DEF Reboot, IdleRun, Alone, Collecting
  <2>4. EmptyAhead'
    BY <1>16 DEF Reboot, IdleRun, EmptyAhead, IsAhead
  <2>5. Blank'
    BY <1>16 DEF Reboot, Blank
  <2>6. FilesInOrder'
    BY <1>16 DEF Reboot, NoAnalysis, FilesInOrder, Updating, Doing
  <2>7. Passed'
    BY <1>16 DEF Reboot, NoRecords, Passed
  <2>8. Disjoint'
    BY <1>16 DEF Reboot, NoRecords, Disjoint
  <2>9. Settled'
    BY <1>16 DEF Reboot, NoAnalysis, Settled, IsBehind, Doing
  <2>10. CountedBehind'
    BY <1>16 DEF Reboot, CountedOf, RecordsOf, NoRecords, CountedBehind, IsBehind, Updating,
              Doing, DirTyped, AnalysisTyped
  <2>11. TwiceDied'
    BY <1>16 DEF Reboot, TwiceDied
  <2>12. NothingForgotten'
    <3> DEFINE lost == {w \in Dirs : dir[w] = "collecting"}
    <3>1. \A v \in lost, p \in Places : \A i \in clf[v][p] : <<p, i>> \in abandoned'
      <4>1. \A v \in lost : RecordsOf(v) \subseteq abandoned'
        BY <1>16 DEF Reboot
      <4> QED
        BY <4>1, RecordsAre
    <3>2. /\ \A v \in Dirs \ lost : clf'[v] = clf[v]
          /\ abandoned \subseteq abandoned' /\ UNCHANGED <<offset, counted, dropped, refused>>
      BY <1>16 DEF Reboot
    <3> HIDE DEF lost
    <3>3. ASSUME NEW p \in Places, NEW i \in 1..offset[p]
          PROVE  \/ counted[p][i] > 0
                 \/ <<p, i>> \in dropped \cup refused \cup abandoned'
                 \/ \E w \in Dirs : i \in clf'[w][p]
      BY <3>1, <3>2 DEF NothingForgotten
    <3> QED
      BY <3>2, <3>3 DEF NothingForgotten
  <2> QED
    BY <2>1, <2>2, <2>3, <2>4, <2>5, <2>6, <2>7, <2>8, <2>9, <2>10, <2>11, <2>12
<1>17. CASE UNCHANGED vars
  <2>1. Holds' /\ Alone' /\ EmptyAhead' /\ Blank'
    BY <1>17 DEF vars, Holds, Collecting, Alone, EmptyAhead, IsAhead, Blank
  <2>2. FilesInOrder' /\ Passed' /\ Disjoint' /\ Settled'
    BY <1>17 DEF vars, FilesInOrder, Updating, Doing, Passed, Disjoint, Settled, IsBehind
  <2>3. CountedPassed' /\ CountedBehind' /\ TwiceDied' /\ NothingForgotten'
    BY <1>17 DEF vars, CountedPassed, CountedBehind, IsBehind, Updating, Doing, TwiceDied,
              NothingForgotten
  <2> QED
    BY <2>1, <2>2, <2>3
<1> QED
  BY <1>1, <1>2, <1>3, <1>4, <1>5, <1>6, <1>7, <1>8, <1>9, <1>10, <1>11, <1>12, <1>13, <1>14,
              <1>15, <1>16, <1>17, <1>18 DEF Next, RunStep, AnalysisStep

---------------------------------------------------------------------------
(* Theorems *)

LEMMA InitInv == Init => Typed /\ Inv
<1> SUFFICES ASSUME Init PROVE Typed /\ Inv
  OBVIOUS
<1> USE PlacesAre, UsageAssumption DEF Init, NoRecords, IdleRun, NoAnalysis, NoFiles
<1>1. Typed
  BY DEF Typed, RunTyped, DirTyped, FilesTyped, FileStates, AnalysisTyped, LogTyped, RrdTyped
<1>2. Holds /\ Alone /\ EmptyAhead
  BY DEF Holds, Alone, EmptyAhead, Collecting, IsAhead
<1>3. Blank /\ FilesInOrder
  BY DEF Blank, FilesInOrder, Updating, Doing
<1>4. Passed /\ Disjoint /\ Settled
  BY DEF Passed, Disjoint, Settled
<1>5. CountedPassed /\ CountedBehind /\ TwiceDied /\ NothingForgotten
  BY DEF CountedPassed, CountedBehind, TwiceDied, NothingForgotten
<1> QED
  BY <1>1, <1>2, <1>3, <1>4, <1>5 DEF Inv

LEMMA AlwaysInv == Spec => [](Typed /\ Inv)
BY InitInv, TypeNext, InvNext, PTL DEF Spec

\* Type correctness of the logs, the working directories with their files, the analyses and
\* the RRDs (TypeOK), whatever is killed.
THEOREM UsageTypeOK == Spec => []TypeOK
<1>1. Typed => TypeOK
  BY DEF TypeOK, Typed, RunTyped, DirTyped, FilesTyped, AnalysisTyped, LogTyped, RrdTyped
<1> QED
  BY <1>1, AlwaysInv, PTL

\* No record is collected twice, and none is counted twice but by the analysis that follows
\* one that died after counting it.
THEOREM UsageCountedOnce == Spec => []CountedOnce
<1>1. ASSUME Inv PROVE CountedOnce
  <2>1. ASSUME NEW v \in Dirs, NEW w \in Dirs, v # w PROVE RecordsOf(v) \cap RecordsOf(w) = {}
    BY <1>1, <2>1 DEF Inv, Disjoint, RecordsOf
  <2> QED
    BY <1>1, <2>1 DEF Inv, TwiceDied, CountedOnce
<1> QED
  BY <1>1, AlwaysInv, PTL

\* Wherever runs and analyses are killed, a record that logtail has passed is counted, or
\* waits in a directory, or its run ended early, its RRD was locked or its update failed.
THEOREM UsageNothingForgotten == Spec => []NothingForgotten
<1>1. Inv => NothingForgotten
  BY DEF Inv
<1> QED
  BY <1>1, AlwaysInv, PTL

(***************************************************************************)
(* As long as each run of measure-usage ends before the next begins and    *)
(* nothing is killed, no lock costs a record.                              *)
(***************************************************************************)
Undisturbed == crashes = 0 /\ ~overlapped

\* At most one run or one analysis is at work.
OneAtWork ==
  /\ \A r, s \in Runs : run[r] # IdleRun /\ run[s] # IdleRun => r = s
  /\ \A v, w \in Dirs : analysis[v] # NoAnalysis /\ analysis[w] # NoAnalysis => v = w
  /\ \A r \in Runs, w \in Dirs : run[r] = IdleRun \/ analysis[w] = NoAnalysis

\* A directory that is ready is being analysed, or its run is about to see to it.
ReadyAtWork ==
  \A w \in Dirs : dir[w] = "ready" => \/ analysis[w] # NoAnalysis
                                      \/ \E r \in Runs : At(r, "launch") /\ run[r].wd = w

\* Each lock is that of the run or the analysis which is at its log or RRD.
LogsHeld == \A p \in Places : \/ logLock[p] = Free
                              \/ \E r \in Runs : /\ run[r].pc \in {"tail", "unlock"}
                                                 /\ run[r].at = p
RrdsHeld == \A p \in Places : \/ rrdLock[p] = Nobody
                              \/ \E w \in Dirs : Doing(w, "updating") /\ analysis[w].at = p

NothingLost == dropped = {} /\ abandoned = {}

UndisturbedInv ==
  Undisturbed => OneAtWork /\ ReadyAtWork /\ LogsHeld /\ RrdsHeld /\ NothingLost

---------------------------------------------------------------------------
(* The steps *)

LEMMA UndisturbedNext == Typed /\ UndisturbedInv /\ [Next]_vars => UndisturbedInv'
<1> SUFFICES ASSUME Typed, UndisturbedInv, [Next]_vars, Undisturbed'
             PROVE  (OneAtWork /\ ReadyAtWork /\ LogsHeld /\ RrdsHeld /\ NothingLost)'
  BY DEF UndisturbedInv
<1> DEFINE Goal == OneAtWork /\ ReadyAtWork /\ LogsHeld /\ RrdsHeld /\ NothingLost
<1> HIDE DEF Goal
<1>a. crashes' = crashes => Undisturbed
  <2>1. overlapped => overlapped'
    BY DEF Next, Serve, Start, RunStep, Lock, LockBusy, Logtail, Unlock, Ready, Launch, Crash,
           AnalysisStep, Process, LockRrd, RrdBusy, UpdateRrd, UpdateFails, Remove,
           CrashAnalysis, Reboot, vars, history
  <2> QED
    BY <2>1 DEF Undisturbed
<1>b. crashes' # crashes + 1
  BY DEF Typed, Undisturbed
<1>1. ASSUME NEW p \in Places, Serve(p) PROVE Goal'
  BY <1>1, <1>a DEF Serve, history, dirVars, rrdVars, UndisturbedInv, Goal, OneAtWork,
     ReadyAtWork, LogsHeld, RrdsHeld, NothingLost, At, Doing
<1>2. ASSUME NEW r \in Runs, Start(r) PROVE Goal'
  <2>1. Undisturbed /\ ~AtWork
    BY <1>2, <1>a DEF Start, Undisturbed
  <2>2. \A s \in Runs : run[s] = IdleRun
    BY <2>1 DEF AtWork
  <2>3. \A w \in Dirs : analysis[w] = NoAnalysis
    BY <2>1 DEF AtWork
  <2>4. run' = [run EXCEPT ![r] = run'[r]] /\ analysis' = analysis
    BY <1>2 DEF Start, Typed, RunTyped
  <2>5. OneAtWork'
    BY <2>2, <2>3, <2>4 DEF OneAtWork, Typed, RunTyped
  <2>6. \A w \in Dirs : dir[w] # "ready"
    BY <2>1, <2>2, <2>3 DEF UndisturbedInv, ReadyAtWork, At, IdleRun
  <2>7. ReadyAtWork'
    BY <1>2, <2>6 DEF Start, ReadyAtWork, Typed, DirTyped
  <2>8. \A p \in Places : logLock[p] = Free
    BY <2>1, <2>2 DEF UndisturbedInv, LogsHeld, IdleRun
  <2>9. LogsHeld'
    BY <1>2, <2>8 DEF Start, logVars, LogsHeld
  <2> QED
    BY <1>2, <2>1, <2>5, <2>7, <2>9
    DEF Start, rrdVars, UndisturbedInv, RrdsHeld, NothingLost, Doing, Goal
<1>3. ASSUME NEW r \in Runs, RunStep(r) PROVE Goal'
  <2>1. Undisturbed
    BY <1>3, <1>a DEF RunStep, Lock, LockBusy, Logtail, Unlock, Ready, Launch, history
  <2>2. OneAtWork /\ ReadyAtWork /\ LogsHeld /\ RrdsHeld /\ NothingLost
    BY <2>1 DEF UndisturbedInv
  <2>3. run[r] # IdleRun
    BY <1>3 DEF RunStep, Lock, LockBusy, Logtail, Unlock, Ready, Launch, At, IdleRun
  <2>4. /\ \A s \in Runs : s # r => run[s] = IdleRun
        /\ \A w \in Dirs : analysis[w] = NoAnalysis
    BY <2>2, <2>3 DEF OneAtWork
  <2>5. run' = [run EXCEPT ![r] = run'[r]]
    BY <1>3 DEF RunStep, Lock, LockBusy, Logtail, Unlock, Ready, Launch, Typed, RunTyped
  <2>6. \A p \in Places : logLock[p] = Free \/ (run[r].pc \in {"tail", "unlock"} /\ run[r].at = p)
    BY <2>2, <2>4 DEF LogsHeld, IdleRun
  <2>7. \A w \in Dirs : dir[w] = "ready" => At(r, "launch") /\ run[r].wd = w
    BY <2>2, <2>4 DEF ReadyAtWork, At, IdleRun
  <2>8. ASSUME analysis' = analysis, rrdLock' = rrdLock, dropped' = dropped,
               abandoned' = abandoned, ReadyAtWork', LogsHeld'
        PROVE  Goal'
    BY <2>2, <2>4, <2>5, <2>8 DEF Goal, OneAtWork, RrdsHeld, NothingLost, Doing, Typed, RunTyped
  <2>9. CASE Lock(r)
    <3>1. LogsHeld'
      BY <2>6, <2>9 DEF Lock, At, Place, LogsHeld, Typed, RunTyped, LogTyped
    <3>2. ReadyAtWork'
      BY <2>7, <2>9 DEF Lock, At, dirVars, ReadyAtWork
    <3> QED
      BY <2>8, <2>9, <3>1, <3>2 DEF Lock, rrdVars, history
  <2>10. CASE LockBusy(r)
    <3>1. Place(r) \in Places
      BY DEF Place, Typed, RunTyped
    <3> QED
      BY <2>6, <2>10, <3>1 DEF LockBusy, At, Place
  <2>11. CASE Logtail(r)
    <3>1. LogsHeld'
      BY <2>6, <2>11 DEF Logtail, LogsHeld, Typed, RunTyped
    <3>2. ReadyAtWork'
      BY <2>7, <2>11 DEF Logtail, At, ReadyAtWork
    <3> QED
      BY <2>8, <2>11, <3>1, <3>2 DEF Logtail, rrdVars, history
  <2>12. CASE Unlock(r)
    <3>1. \A p \in Places : logLock'[p] = Free
      BY <2>6, <2>12 DEF Unlock, Place, Typed, LogTyped
    <3>2. LogsHeld'
      BY <3>1 DEF LogsHeld
    <3>3. ReadyAtWork'
      BY <2>7, <2>12 DEF Unlock, At, dirVars, ReadyAtWork
    <3> QED
      BY <2>8, <2>12, <3>2, <3>3 DEF Unlock, rrdVars, history
  <2>13. CASE Ready(r)
    <3>1. LogsHeld'
      BY <2>6, <2>13 DEF Ready, At, logVars, LogsHeld
    <3>2. run'[r].pc = "launch" /\ run'[r].wd = run[r].wd
      BY <2>13 DEF Ready, Typed, RunTyped
    <3>3. ReadyAtWork'
      BY <2>7, <2>13, <3>2 DEF Ready, At, ReadyAtWork, Typed, DirTyped
    <3> QED
      BY <2>8, <2>13, <3>1, <3>3 DEF Ready, rrdVars, history
  <2>14. CASE Launch(r)
    <3>1. \A w \in Dirs : dir[w] # "ready" => analysis'[w] = NoAnalysis
      BY <2>4, <2>14 DEF Launch
    <3>2. \A w \in Dirs : dir[w] = "ready" => analysis'[w] # NoAnalysis
      BY <2>4, <2>14 DEF Launch, FirstStep, NoAnalysis
    <3>3. \A s \in Runs : run'[s] = IdleRun
      BY <2>4, <2>14 DEF Launch, Typed, RunTyped
    <3>4. OneAtWork'
      BY <2>7, <3>1, <3>3 DEF OneAtWork
    <3>5. ReadyAtWork'
      BY <2>14, <3>2 DEF Launch, ReadyAtWork
    <3>6. \A p \in Places : logLock[p] = Free
      BY <2>6, <2>14 DEF Launch, At
    <3>7. \A p \in Places : rrdLock[p] = Nobody
      BY <2>2, <2>4 DEF RrdsHeld, Doing, NoAnalysis
    <3> QED
      BY <2>2, <2>14, <3>4, <3>5, <3>6, <3>7
      DEF Launch, logVars, rrdVars, history, LogsHeld, RrdsHeld, NothingLost, Goal
  <2> QED
    BY <1>3, <2>9, <2>10, <2>11, <2>12, <2>13, <2>14 DEF RunStep
<1>4. ASSUME NEW w \in Dirs, AnalysisStep(w) PROVE Goal'
  <2>1. Undisturbed
    BY <1>4, <1>a DEF AnalysisStep, Process, LockRrd, RrdBusy, UpdateRrd, UpdateFails,
       Remove, history
  <2>2. OneAtWork /\ ReadyAtWork /\ LogsHeld /\ RrdsHeld /\ NothingLost
    BY <2>1 DEF UndisturbedInv
  <2>3. analysis[w] # NoAnalysis
    BY <1>4 DEF AnalysisStep, Process, LockRrd, RrdBusy, UpdateRrd, UpdateFails,
       Remove, Doing, NoAnalysis
  <2>4. /\ \A v \in Dirs : v # w => analysis[v] = NoAnalysis
        /\ \A r \in Runs : run[r] = IdleRun
    BY <2>2, <2>3 DEF OneAtWork
  <2>5. run' = run /\ logLock' = logLock /\ abandoned' = abandoned
    BY <1>4 DEF AnalysisStep, Process, LockRrd, RrdBusy, UpdateRrd, UpdateFails,
       Remove, logVars, history
  <2>6. analysis' = [analysis EXCEPT ![w] = analysis'[w]]
    BY <1>4 DEF AnalysisStep, Process, LockRrd, RrdBusy, UpdateRrd, UpdateFails, Remove, Onward,
       Typed, AnalysisTyped
  <2>7. OneAtWork'
    BY <2>4, <2>5, <2>6 DEF OneAtWork, Typed, AnalysisTyped
  <2>8. LogsHeld'
    BY <2>2, <2>5 DEF LogsHeld
  <2>9. \A v \in Dirs : dir[v] = "ready" => v = w
    BY <2>2, <2>4 DEF ReadyAtWork, At, IdleRun
  <2>10. \A p \in Places : rrdLock[p] = Nobody \/ (Doing(w, "updating") /\ analysis[w].at = p)
    BY <2>2, <2>4 DEF RrdsHeld, Doing, NoAnalysis
  <2>11. ASSUME dir' = dir, analysis'[w].pc # "none" PROVE ReadyAtWork'
    BY <2>9, <2>11 DEF ReadyAtWork, NoAnalysis
  <2>12. ASSUME Onward(w) PROVE analysis'[w].pc # "none"
    BY <2>12 DEF Onward, Typed, AnalysisTyped
  <2>13. CASE Process(w)
    <3>1. \A p \in Places : rrdLock[p] = Nobody
      BY <2>10, <2>13 DEF Process, Doing
    <3>2. analysis'[w].pc # "none"
      BY <2>13 DEF Process, Typed, AnalysisTyped
    <3> QED
      BY <2>2, <2>5, <2>7, <2>8, <2>11, <2>13, <3>1, <3>2
      DEF Process, rrdVars, RrdsHeld, NothingLost, Goal
  <2>14. CASE LockRrd(w)
    <3>1. analysis'[w].pc = "updating" /\ analysis'[w].at = analysis[w].at
      BY <2>14 DEF LockRrd, Typed, AnalysisTyped
    <3>2. RrdsHeld'
      BY <2>10, <2>14, <3>1 DEF LockRrd, Doing, RrdsHeld, Typed, RrdTyped
    <3> QED
      BY <2>2, <2>5, <2>7, <2>8, <2>11, <2>14, <3>1, <3>2 DEF LockRrd, dirVars, NothingLost, Goal
  <2>15. CASE RrdBusy(w)
    <3>1. analysis[w].at \in Places
      BY DEF Typed, AnalysisTyped
    <3> QED
      BY <2>10, <2>15, <3>1 DEF RrdBusy, Doing
  <2>16. CASE UpdateRrd(w)
    <3>1. \A p \in Places : rrdLock'[p] = Nobody
      BY <2>10, <2>16 DEF UpdateRrd, Typed, RrdTyped
    <3> QED
      BY <2>2, <2>5, <2>7, <2>8, <2>11, <2>12, <2>16, <3>1
      DEF UpdateRrd, dirVars, RrdsHeld, NothingLost, Goal
  <2>18. CASE UpdateFails(w)
    <3>1. \A p \in Places : rrdLock'[p] = Nobody
      BY <2>10, <2>18 DEF UpdateFails, Typed, RrdTyped
    <3> QED
      BY <2>2, <2>5, <2>7, <2>8, <2>11, <2>12, <2>18, <3>1
      DEF UpdateFails, dirVars, RrdsHeld, NothingLost, Goal
  <2>17. CASE Remove(w)
    <3>1. \A p \in Places : rrdLock[p] = Nobody
      BY <2>10, <2>17 DEF Remove, Doing
    <3>2. ReadyAtWork'
      BY <2>9, <2>17 DEF Remove, ReadyAtWork, Typed, DirTyped
    <3> QED
      BY <2>2, <2>5, <2>7, <2>8, <2>17, <3>1, <3>2 DEF Remove, rrdVars, RrdsHeld, NothingLost, Goal
  <2> QED
    BY <1>4, <2>13, <2>14, <2>15, <2>16, <2>17, <2>18 DEF AnalysisStep
<1>5. ASSUME UNCHANGED vars PROVE Goal'
  BY <1>5, <1>a DEF vars, logVars, dirVars, rrdVars, history, UndisturbedInv, Goal, OneAtWork,
     ReadyAtWork, LogsHeld, RrdsHeld, NothingLost, At, Doing
<1>6. ASSUME NEW r \in Runs, Crash(r) PROVE FALSE
  BY <1>b, <1>6 DEF Crash
<1>7. ASSUME NEW w \in Dirs, CrashAnalysis(w) PROVE FALSE
  BY <1>b, <1>7 DEF CrashAnalysis
<1>8. ~Reboot
  BY <1>b DEF Reboot
<1>9. Goal'
  <2>1. CASE \E p \in Places : Serve(p)
    BY <1>1, <2>1
  <2>2. CASE \E r \in Runs : Start(r) \/ RunStep(r) \/ Crash(r)
    BY <1>2, <1>3, <1>6, <2>2
  <2>3. CASE \E w \in Dirs : AnalysisStep(w) \/ CrashAnalysis(w)
    BY <1>4, <1>7, <2>3
  <2> QED
    BY <1>5, <1>8, <2>1, <2>2, <2>3 DEF Next
<1> QED
  BY <1>9 DEF Goal

LEMMA UndisturbedInit == Init => UndisturbedInv
BY DEF Init, UndisturbedInv, OneAtWork, ReadyAtWork, LogsHeld, RrdsHeld, NothingLost

\* As long as each run ends before cron starts the next one and nothing is killed, no lock is
\* ever found taken: no run ends early and no analysis goes without updating an RRD.
THEOREM UsageUndisturbed == Spec => []UndisturbedKeepsAll
<1>1. UndisturbedInv => UndisturbedKeepsAll
  BY DEF UndisturbedInv, Undisturbed, NothingLost, UndisturbedKeepsAll
<1> QED
  BY <1>1, UndisturbedInit, UndisturbedNext, AlwaysInv, PTL DEF Spec
=============================================================================
