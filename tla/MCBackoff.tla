----------------------------- MODULE MCBackoff -----------------------------
(* Model checking of Backoff: debian's frequency is PT6H, gentoo-portage's is *)
(* PT30M, and maintain-sync runs every third minute.                          *)
EXTENDS Backoff

Seconds(minutes) == 60 * minutes
MCInterval == Seconds(30)
MCTick == Seconds(3)
MCGrain == Seconds(1)
MCMaxAge == Seconds(250)
MCMaxRun == Seconds(30)
MCEpoch == Seconds(180)
=============================================================================
