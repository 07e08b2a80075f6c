------------------------------ MODULE TryLock ------------------------------
(***************************************************************************)
(* What bin/synchronized promises ("Run one process for the command at a   *)
(* time"), with no lock file in sight.  A process tries once and never     *)
(* waits: it either becomes the holder, or is turned away -- and only once *)
(* it has met a holder, or one came while it was trying.  Processes die at *)
(* any time and free the lock; what they leave behind may turn away those  *)
(* who met them, and nobody else.                                          *)
(*                                                                         *)
(* The promise is for as long as the lock is not broken; counting the      *)
(* deaths tells an attempt that died from one turned away.                 *)
(***************************************************************************)
EXTENDS Naturals

CONSTANTS Procs, NoOwner

VARIABLES holder,   \* the process that holds the lock, or NoOwner
          trying,   \* the processes whose attempt is not decided
          busy,     \* those of them that have met a holder
          deaths,   \* processes killed so far
          broken    \* is the promise off?

tlvars == <<holder, trying, busy, deaths, broken>>

TryLockInit == /\ holder = NoOwner
               /\ trying = {}
               /\ busy = {}
               /\ deaths = 0
               /\ broken = FALSE

Try(p) == /\ trying' = trying \cup {p}
          /\ p \notin trying /\ holder # p
          /\ UNCHANGED <<holder, busy, deaths>>

\* Whoever is trying may meet the new holder at once.
Win(p) == /\ p \in trying \ busy
          /\ holder = NoOwner
          /\ holder' = p
          /\ trying' = trying \ {p}
          /\ busy' \in SUBSET trying'
          /\ UNCHANGED deaths

FindBusy(p) == /\ p \in trying
               /\ holder # NoOwner
               /\ busy' = busy \cup {p}
               /\ UNCHANGED <<holder, trying, deaths>>

TurnAway(p) == /\ p \in busy
               /\ trying' = trying \ {p}
               /\ busy' = busy \ {p}
               /\ UNCHANGED <<holder, deaths>>

\* The holder ends by itself, or somebody has it killed; the lock goes with it, or
\* stays behind for those who met it ...
GiveUp(p) == /\ holder = p
             /\ holder' = NoOwner
             /\ busy' \in {busy, {}}
             /\ UNCHANGED <<trying, deaths>>

\* ... until somebody clears what the last holder left.
Clear == /\ holder = NoOwner
         /\ busy' = {}
         /\ UNCHANGED <<holder, trying, deaths>>

\* The death of a shell alone need not end the attempt that it began.
Die(p) == /\ deaths' = deaths + 1
          /\ \/ UNCHANGED <<holder, trying, busy>>
             \/ /\ holder' = IF holder = p THEN NoOwner ELSE holder
                /\ trying' = trying \ {p}
                /\ busy' = busy \ {p}

TryLockNext == \/ broken'
               \/ /\ ~broken'
                  /\ \/ Clear
                     \/ \E p \in Procs : \/ Try(p) \/ Win(p) \/ FindBusy(p)
                                         \/ TurnAway(p) \/ GiveUp(p) \/ Die(p)

TryLockSpec == TryLockInit /\ [][TryLockNext]_tlvars
=============================================================================
