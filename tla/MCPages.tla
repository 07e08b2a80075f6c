------------------------------ MODULE MCPages ------------------------------
(* Model checking of Pages: two rows and a hidden package between them. *)
EXTENDS Pages

E(sync, frequency, started, failed, status, updated) ==
  [sync |-> sync, frequency |-> frequency, started |-> started, failed |-> failed,
   status |-> status, updated |-> updated]

Good == E(TRUE, "P1D", FALSE, FALSE, "good", TRUE)
Busy == E(TRUE, "P1D", TRUE, TRUE, "old", TRUE)
Slow == E(TRUE, "P7D", FALSE, FALSE, "good", TRUE)
Down == E(TRUE, Nothing, FALSE, TRUE, "down", TRUE)
Unknown == E(TRUE, "P1D", TRUE, FALSE, "unknown", FALSE)
Original == E(FALSE, Nothing, FALSE, FALSE, "original", TRUE)
Mute == E(FALSE, Nothing, FALSE, FALSE, Nothing, FALSE)

Edition(a, h, b) == [a |-> a, hidden |-> h, b |-> b]

MCDocOrder == <<"a", "hidden", "b">>
\* Every package keeps its sync; some lose it or come to have one; some are left out.
MCHistories ==
  {<<Edition(Good, Slow, Down), Edition(Busy, Slow, Down), Edition(Good, Nothing, Slow)>>,
   <<Edition(Good, Good, Good), Edition(Original, Slow, Unknown), Edition(Slow, Good, Original)>>,
   <<Edition(Slow, Good, Original), Edition(Slow, Nothing, Busy), Edition(Busy, Good, Original)>>,
   <<Edition(Down, Good, Busy), Edition(Nothing, Good, Mute), Edition(Slow, Down, Down)>>,
   <<Edition(Good, Good, Mute), Edition(Down, Good, Mute), Edition(Busy, Slow, Original)>>}

MCContents == {<<{"a", "b"}, {"a"}, {"a", "b"}>>, <<{"a"}, {"b"}, {"b", "c"}>>}
=============================================================================
