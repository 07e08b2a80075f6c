-------------------------------- MODULE Feed --------------------------------
(***************************************************************************)
(* contrib/allim and bin/record-news.feed: the syncs of several packages   *)
(* that end at the same time, and the RSS file ../news.feed to which each  *)
(* of them adds one item.                                                  *)
(*                                                                         *)
(* Every step is one thing other processes can see.  A process runs        *)
(* add-reliably once; its calls of allim are jobs: "add", and, when that   *)
(* fails, "new" and "readd".  What the items say, and their expiry after   *)
(* days, are left out.                                                     *)
(***************************************************************************)
EXTENDS FiniteSets, Naturals

CONSTANTS Procs,      \* the processes, each with its own item
          Old,        \* an item recorded before
          Nobody,
          MaxCrashes  \* bound on the processes that die without a trap

ASSUME FeedAssumption == /\ Old \notin Procs /\ Nobody \notin Procs
                         /\ MaxCrashes \in Nat

VARIABLES lock,      \* does the feed's .allim.lock exist?
          aged,      \* is it older than a minute?
          file,      \* the feed: there or not, empty, whole, or not well-formed
          items,     \* what it holds when it is whole
          pc, job,   \* the next step of each process, in which call of allim
          copy,      \* the feed as allim transformed it, in its own $Tmp/rss
          opened,    \* does the file it opened still have the feed's name?
          failing,   \* is allim exiting with an error?
          alone,     \* the process that found the feed mendable, and that no other
                     \* has overlapped so far
          disturbed, \* did a process die or give up, or was a lock forced?
          crashes,   \* processes that died without a trap so far
          held       \* what the feed held at first

vars == <<lock, aged, file, items, pc, job, copy, opened, failing, alone,
          disturbed, crashes, held>>
feed == <<lock, aged, file, items>>
mind == <<copy, opened, failing>>
history == <<alone, disturbed, crashes, held>>

Steps == {"off", "exists", "check", "lock", "read", "backup", "open", "write", "unlock",
          "trap", "remove", "done", "failed"}
Jobs == {"add", "new", "readd"}
Active(p) == pc[p] \notin {"off", "done", "failed"}
Items == Procs \cup {Old}

Init == /\ lock = FALSE /\ aged = FALSE
        /\ file \in {"whole", "missing"}
        /\ items = IF file = "whole" THEN {Old} ELSE {}
        /\ pc = [p \in Procs |-> "off"]
        /\ job = [p \in Procs |-> "add"]
        /\ copy = [p \in Procs |-> {}]
        /\ opened = [p \in Procs |-> FALSE]
        /\ failing = [p \in Procs |-> FALSE]
        /\ alone = Nobody
        /\ disturbed = FALSE
        /\ crashes = 0
        /\ held = items

Goto(p, step) == pc' = [pc EXCEPT ![p] = step]
Call(p, which, step) == Goto(p, step) /\ job' = [job EXCEPT ![p] = which]

\* allim fails under `set -e', and its EXIT trap is next.
Fail(p) == /\ Goto(p, "trap")
           /\ failing' = [failing EXCEPT ![p] = TRUE]

---------------------------------------------------------------------------
(* add-reliably *)

\* With no feed and a lock left behind, `new' is refused and nothing retries it.
Mendable == ~(lock /\ file = "missing")

Start(p) == /\ pc[p] = "off"
            /\ Goto(p, "exists")
            /\ alone' = IF Mendable /\ \A q \in Procs : ~Active(q) THEN p ELSE Nobody
            /\ UNCHANGED <<feed, job, mind, disturbed, crashes, held>>

\* Mutant: a feed that does not look whole, be it just being written, is made anew.
FeedExistsWhole(p) == /\ pc[p] = "exists"
                      /\ CASE file = "whole" -> Call(p, "add", "lock")
                           [] file = "missing" -> Call(p, "new", "check")
                           [] OTHER -> Goto(p, "remove") /\ UNCHANGED job
                      /\ UNCHANGED <<feed, mind, history>>

FeedExists(p) == /\ pc[p] = "exists"
                 /\ IF file # "missing" THEN Call(p, "add", "lock") ELSE Call(p, "new", "check")
                 /\ UNCHANGED <<feed, mind, history>>

\* Mutant: the feed that could not be added to is not removed.
RemoveFeedNot(p) == /\ pc[p] = "remove"
                    /\ Call(p, "new", "check")
                    /\ UNCHANGED <<feed, mind, history>>

\* After an `add' that failed: rm -f of the feed, then create.
RemoveFeed(p) == /\ pc[p] = "remove"
                 /\ file' = "missing" /\ items' = {}
                 /\ opened' = [q \in Procs |-> FALSE]
                 /\ Call(p, "new", "check")
                 /\ UNCHANGED <<lock, aged, copy, failing, history>>

---------------------------------------------------------------------------
(* allim *)

\* new: the feed must not exist yet.
CheckNew(p) == /\ pc[p] = "check"
               /\ IF file # "missing" THEN Fail(p) ELSE Goto(p, "lock") /\ UNCHANGED failing
               /\ UNCHANGED <<feed, job, copy, opened, history>>

\* lockfile -3 -r10 -l60: eleven tries in half a minute, and a lock older than a minute
\* is removed.
Lock(p) == /\ pc[p] = "lock"
           /\ ~lock
           /\ lock' = TRUE /\ aged' = FALSE
           /\ Goto(p, IF job[p] = "new" THEN "open" ELSE "read")
           /\ UNCHANGED <<file, items, job, mind, history>>

ForceLock(p) == /\ pc[p] = "lock"
                /\ lock /\ aged
                /\ lock' = FALSE /\ aged' = FALSE
                /\ disturbed' = TRUE
                /\ UNCHANGED <<file, items, pc, job, mind, alone, crashes, held>>

LockBusy(p) == /\ pc[p] = "lock"
               /\ lock
               /\ Fail(p)
               /\ disturbed' = TRUE
               /\ UNCHANGED <<feed, job, copy, opened, alone, crashes, held>>

\* Mutant: the item has no link.
TransformUnnamed(p) == /\ pc[p] = "read"
                       /\ copy' = [copy EXCEPT ![p] = items \cup {Nobody}]
                       /\ Goto(p, "backup")
                       /\ UNCHANGED <<feed, job, opened, failing, history>>

\* add: the feed is transformed into $Tmp/rss; xmllint refuses what is not whole.
Transform(p) == /\ pc[p] = "read"
                /\ IF file = "whole"
                   THEN /\ copy' = [copy EXCEPT ![p] = items \cup {p}]
                        /\ Goto(p, "backup")
                        /\ UNCHANGED failing
                   ELSE Fail(p) /\ UNCHANGED copy
                /\ UNCHANGED <<feed, job, opened, history>>

\* cp -f of the feed to its backup fails when the feed is gone.
Backup(p) == /\ pc[p] = "backup"
             /\ IF file = "missing" THEN Fail(p) ELSE Goto(p, "open") /\ UNCHANGED failing
             /\ UNCHANGED <<feed, job, copy, opened, history>>

\* >"$RSS" truncates, or creates, before anything is written.
Open(p) == /\ pc[p] = "open"
           /\ file' = "empty" /\ items' = {}
           /\ opened' = [opened EXCEPT ![p] = TRUE]
           /\ Goto(p, "write")
           /\ UNCHANGED <<lock, aged, job, copy, failing, history>>

\* A file removed meanwhile takes the text with it.  Over another writer's text the
\* result is this one's, or, if that was longer, garbage.
Write(p) == /\ pc[p] = "write"
            /\ IF opened[p]
               THEN /\ file' \in IF file = "empty" THEN {"whole"} ELSE {"whole", "garbage"}
                    /\ items' = IF file' = "whole" THEN copy[p] ELSE {}
               ELSE UNCHANGED <<file, items>>
            /\ opened' = [opened EXCEPT ![p] = FALSE]
            /\ Goto(p, "unlock")
            /\ UNCHANGED <<lock, aged, job, copy, failing, history>>

Unlock(p) == /\ pc[p] = "unlock"
             /\ lock' = FALSE /\ aged' = FALSE
             /\ Goto(p, "trap")
             /\ UNCHANGED <<file, items, job, mind, history>>

\* Mutant: the trap forgets to unlock.
TrapWithoutUnlock(p) ==
  /\ pc[p] = "trap"
  /\ CASE job[p] = "new" /\ ~failing[p] -> Call(p, "readd", "lock")
       [] job[p] = "add" /\ failing[p] -> Goto(p, "remove") /\ UNCHANGED job
       [] OTHER -> Goto(p, IF failing[p] THEN "failed" ELSE "done") /\ UNCHANGED job
  /\ failing' = [failing EXCEPT ![p] = FALSE]
  /\ copy' = [copy EXCEPT ![p] = {}]
  /\ UNCHANGED <<feed, opened, history>>

\* The EXIT trap unlocks once more, whoever holds the lock; then add-reliably goes on.
Trap(p) ==
  /\ pc[p] = "trap"
  /\ lock' = FALSE /\ aged' = FALSE
  /\ CASE job[p] = "new" /\ ~failing[p] -> Call(p, "readd", "lock")
       [] job[p] = "add" /\ failing[p] -> Goto(p, "remove") /\ UNCHANGED job
       [] OTHER -> Goto(p, IF failing[p] THEN "failed" ELSE "done") /\ UNCHANGED job
  /\ failing' = [failing EXCEPT ![p] = FALSE]
  /\ copy' = [copy EXCEPT ![p] = {}]
  /\ UNCHANGED <<file, items, opened, history>>

---------------------------------------------------------------------------
\* SIGKILL, or the end of the machine: no trap runs.
Crash(p) == /\ Active(p)
            /\ crashes < MaxCrashes
            /\ crashes' = crashes + 1
            /\ disturbed' = TRUE
            /\ Goto(p, "failed")
            /\ copy' = [copy EXCEPT ![p] = {}]
            /\ opened' = [opened EXCEPT ![p] = FALSE]
            /\ failing' = [failing EXCEPT ![p] = FALSE]
            /\ UNCHANGED <<feed, job, alone, held>>

AgeLock == /\ lock /\ ~aged
           /\ aged' = TRUE
           /\ UNCHANGED <<lock, file, items, pc, job, mind, history>>

Step(p) == \/ FeedExists(p) \/ RemoveFeed(p)
           \/ CheckNew(p) \/ Lock(p) \/ ForceLock(p) \/ LockBusy(p)
           \/ Transform(p) \/ Backup(p) \/ Open(p) \/ Write(p)
           \/ Unlock(p) \/ Trap(p)

Next == AgeLock \/ \E p \in Procs : Start(p) \/ Step(p) \/ Crash(p)

Spec == Init /\ [][Next]_vars

---------------------------------------------------------------------------
TypeOK == /\ lock \in BOOLEAN /\ aged \in BOOLEAN
          /\ file \in {"missing", "empty", "whole", "garbage"}
          /\ items \subseteq Items
          /\ pc \in [Procs -> Steps] /\ job \in [Procs -> Jobs]
          /\ copy \in [Procs -> SUBSET Items]
          /\ opened \in [Procs -> BOOLEAN] /\ failing \in [Procs -> BOOLEAN]
          /\ alone \in Procs \cup {Nobody}
          /\ disturbed \in BOOLEAN
          /\ crashes \in 0..MaxCrashes
          /\ held \subseteq {Old}

Quiet == \A p \in Procs : ~Active(p)
Recorded == {p \in Procs : pc[p] = "done"}
Came == {p \in Procs : pc[p] # "off"}

\* `add' "adds an item" (contrib/allim/allim:29-31): with nobody dying, giving up or
\* forcing a lock, the feed holds every item that was ever reported as added.
ItemsKept == Quiet /\ ~disturbed => Recorded \subseteq items

\* Of a feed that was there, with something in it, two syncs lose nothing: with nobody
\* dying, giving up or forcing a lock it is whole in the end, has the items of all who
\* came and still holds what it held.  Neither the second unlock of the one nor its
\* truncating write makes add-reliably of the other remove it.
TwoKeepItems ==
  Quiet /\ ~disturbed /\ Cardinality(Came) <= 2 /\ held # {}
    => file = "whole" /\ Came \cup held \subseteq items

\* add-reliably earns its name when nothing else records: whatever died before it and
\* in whatever state the lock or the feed was left, its item gets recorded -- save
\* that a lock left behind without a feed costs one item.
AddReliably ==
  [][\A p \in Procs :
       alone = p /\ Active(p) /\ pc'[p] \in {"done", "failed"} /\ crashes' = crashes
         => pc'[p] = "done" /\ file' = "whole" /\ p \in items']_vars

\* However calls overlapped, without a crash no lock stays behind.
NoLockLeft == Quiet /\ crashes = 0 => ~lock
=============================================================================
