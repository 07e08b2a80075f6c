----------------------------- MODULE PagesProofs -----------------------------
(***************************************************************************)
(* Proofs about Pages, for every number of packages, editions, requests    *)
(* and handlers: what a click takes for the open item, the graphs of a     *)
(* box, the sign that the status page is updating, the open row, and what  *)
(* the rows show after the loop of an update.                              *)
(***************************************************************************)
EXTENDS Pages, Induction, TLAPS

---------------------------------------------------------------------------
(* The contents page *)

BoxesTyped == /\ images \in [Items -> Nat]
              /\ imgLoaded \in [Items -> BOOLEAN]

ContentsInv == ItemOpen /\ ImagesOnce /\ BoxesTyped

LEMMA ContentsInitInv == ContentsInit => ContentsInv
BY DEF ContentsInit, ContentsInv, ItemOpen, ImagesOnce, BoxesTyped

\* A box that is filled anew has neither graphs nor the flag; the handlers of an item draw
\* them once, the first time they find the flag unset.
LEMMA ContentsNextInv == ContentsInv /\ [ContentsNext]_contentsVars => ContentsInv'
<1> SUFFICES ASSUME ContentsInv, [ContentsNext]_contentsVars PROVE ContentsInv'
  OBVIOUS
<1> USE DEF ContentsInv
<1>1. CASE UNCHANGED boxVars /\ opened' = opened /\ activeItem' = activeItem
  BY <1>1 DEF boxVars, ItemOpen, ImagesOnce, BoxesTyped
<1>2. ASSUME NEW g \in Gets, Fill(g) PROVE ContentsInv'
  <2>1. ItemOpen'
    BY <1>2 DEF Fill, ItemOpen
  <2>2. BoxesTyped'
    BY <1>2 DEF Fill, FlagsReset, BoxesTyped
  <2>3. ImagesOnce'
    BY <1>2 DEF Fill, FlagsReset, BoxesTyped, ImagesOnce
  <2> QED
    BY <2>1, <2>2, <2>3
<1>3. ASSUME NEW i \in Items, Click(i) PROVE ContentsInv'
  <2>1. ItemOpen'
    BY <1>3 DEF Click, ItemOpen
  <2> QED
    BY <1>3, <2>1 DEF Click, boxVars, ImagesOnce, BoxesTyped
<1>4. ASSUME NEW i \in Items \cup {NoItem}, MovePointer(i) PROVE ContentsInv'
  <2>1. ItemOpen'
    BY <1>4 DEF MovePointer, ItemOpen
  <2>2. BoxesTyped'
    BY <1>4 DEF MovePointer, Hover, BoxesTyped
  <2>3. ASSUME NEW j \in Items PROVE images'[j] = IF imgLoaded'[j] THEN 1 ELSE 0
    <3> DEFINE handlers == IF j = pointer THEN bound[j] ELSE IF j = i /\ bound[j] > 0 THEN 1 ELSE 0
    <3>1. images'[j] = images[j] + (IF handlers > 0 /\ ~imgLoaded[j] THEN 1 ELSE 0)
      BY <1>4 DEF MovePointer, Hover
    <3>2. imgLoaded'[j] = (imgLoaded[j] \/ handlers > 0)
      BY <1>4 DEF MovePointer
    <3> DEFINE some == handlers > 0
    <3> HIDE DEF handlers
    <3>3. images[j] = IF imgLoaded[j] THEN 1 ELSE 0
      BY DEF ImagesOnce
    <3>4. images'[j] = IF imgLoaded[j] THEN 1 ELSE IF some THEN 1 ELSE 0
      BY <3>1, <3>3
    <3>5. imgLoaded'[j] = (imgLoaded[j] \/ some)
      BY <3>2, Zenon
    <3> HIDE DEF some
    <3> QED
      BY <3>4, <3>5, Zenon
  <2> QED
    BY <2>1, <2>2, <2>3 DEF ImagesOnce
<1>5. ASSUME NEW g \in Gets, Serve(g) \/ Lose(g) \/ UpdateStatus(g) PROVE ContentsInv'
  BY <1>1, <1>5 DEF Serve, Lose, UpdateStatus
<1> QED
  BY <1>1, <1>2, <1>3, <1>4, <1>5
     DEF ContentsNext, Tick, WriteBegins, WriteEnds, contentsVars

LEMMA AlwaysContents == Spec => []ContentsInv
<1>1. Init => ContentsInv
  BY ContentsInitInv DEF Init
<1>2. ContentsInv /\ [Next]_vars => ContentsInv'
  BY ContentsNextInv DEF Next, vars
<1> QED
  BY <1>1, <1>2, PTL DEF Spec

\* One item at most is open, the one a click would close, whatever the updates take away
\* (js.js).
THEOREM PagesItemOpen == Spec => []ItemOpen
<1>1. ContentsInv => ItemOpen
  BY DEF ContentsInv
<1> QED
  BY <1>1, AlwaysContents, PTL

\* A box has its graphs once, however many handlers piled up on its item (js.js).
THEOREM PagesImagesOnce == Spec => []ImagesOnce
<1>1. ContentsInv => ImagesOnce
  BY DEF ContentsInv
<1> QED
  BY <1>1, AlwaysContents, PTL

---------------------------------------------------------------------------
(* The status page *)

RequestsTyped ==
  requests \in [Requests -> [state : {"idle", "sent", "receiving"}, edition : Nat]]

UpdatingInv == /\ UpdatingEnds
               /\ RequestsTyped
               /\ published \in Nat

LEMMA StatusInitInv == StatusInit => UpdatingInv
BY DEF StatusInit, UpdatingInv, UpdatingEnds, RequestsTyped, Idle

LEMMA StatusNextInv == UpdatingInv /\ [StatusNext]_statusVars => UpdatingInv'
<1> SUFFICES ASSUME UpdatingInv, [StatusNext]_statusVars PROVE UpdatingInv'
  OBVIOUS
<1> USE DEF UpdatingInv
<1>1. CASE UNCHANGED <<requests, updating, threw>> /\ published' \in Nat
  BY <1>1 DEF UpdatingEnds, RequestsTyped, InFlight
<1>2. ASSUME NEW r \in Requests, Send(r), UNCHANGED <<threw, published>> PROVE UpdatingInv'
  <2>1. RequestsTyped'
    BY <1>2 DEF Send, RequestsTyped
  <2>2. InFlight(r)'
    BY <1>2 DEF Send, RequestsTyped, InFlight
  <2> QED
    BY <1>2, <2>1, <2>2 DEF UpdatingEnds
<1>3. ASSUME NEW r \in Requests, Progress(r) PROVE UpdatingInv'
  <2>1. RequestsTyped'
    BY <1>3 DEF Progress, RequestsTyped
  <2>2. InFlight(r)'
    BY <1>3 DEF Progress, RequestsTyped, InFlight
  <2> QED
    BY <1>3, <2>1, <2>2 DEF Progress, UpdatingEnds
<1>4. ASSUME NEW r \in Requests, Complete(r) PROVE UpdatingInv'
  BY <1>4 DEF Complete, RequestsTyped, UpdatingEnds, Idle
<1>5. ASSUME NEW r \in Requests, Fail(r) PROVE UpdatingInv'
  BY <1>5 DEF Fail, RequestsTyped, UpdatingEnds, Idle
<1>6. ASSUME NEW r \in Requests, Refresh(r) PROVE UpdatingInv'
  BY <1>2, <1>6 DEF Refresh
<1>7. CASE TimerFires
  BY <1>6, <1>7 DEF TimerFires
<1>8. CASE \E p \in Listed \cup {Nothing} : Load(p)
  BY <1>2, <1>8 DEF Load
<1>9. CASE Publish
  BY <1>1, <1>9 DEF Publish
<1>10. CASE UNCHANGED statusVars
  BY <1>1, <1>10 DEF statusVars
<1>11. ASSUME NEW p \in Listed, Toggle(p) PROVE UpdatingInv'
  BY <1>1, <1>11 DEF Toggle
<1>12. ASSUME NEW on \in BOOLEAN, RefreshRegularly(on) PROVE UpdatingInv'
  BY <1>1, <1>12 DEF RefreshRegularly
<1> QED
  BY <1>3, <1>4, <1>5, <1>6, <1>7, <1>8, <1>9, <1>10, <1>11, <1>12 DEF StatusNext

\* The status page does not say for ever that it is updating: a request is under way, or
\* an update threw (update of status.js).
THEOREM PagesUpdatingEnds == Spec => []UpdatingEnds
<1>1. Init => UpdatingInv
  BY StatusInitInv DEF Init
<1>2. UpdatingInv /\ [Next]_vars => UpdatingInv'
  BY StatusNextInv DEF Next, vars
<1>3. UpdatingInv => UpdatingEnds
  BY DEF UpdatingInv
<1> QED
  BY <1>1, <1>2, <1>3, PTL DEF Spec
---------------------------------------------------------------------------
(* What an update does to the rows: the loop over the packages of a        *)
(* document, up to its i-th.                                               *)

LoopStart == [rows |-> rows, frequency |-> Nothing, threw |-> FALSE]

IsLoop(k, f, n) ==
  f = [i \in 0..n |-> IF i = 0 THEN LoopStart ELSE UpdateRow(k, f[i - 1], DocOrder[i])]

LEMMA LoopExists == ASSUME NEW k, NEW n \in Nat PROVE \E f : IsLoop(k, f, n)
<1> DEFINE T == {m \in Nat : \E f : IsLoop(k, f, m)}
<1>1. 0 \in T
  <2>1. IsLoop(k, [i \in 0..0 |-> LoopStart], 0)
    BY DEF IsLoop
  <2> QED
    BY <2>1
<1>2. ASSUME NEW m \in T PROVE m + 1 \in T
  <2>1. PICK f : IsLoop(k, f, m)
    OBVIOUS
  <2> DEFINE g == [i \in 0..(m + 1) |->
                     IF i <= m THEN f[i] ELSE UpdateRow(k, f[m], DocOrder[m + 1])]
  <2>2. ASSUME NEW i \in 0..(m + 1)
        PROVE  g[i] = IF i = 0 THEN LoopStart ELSE UpdateRow(k, g[i - 1], DocOrder[i])
    <3>1. CASE i = 0
      BY <2>1, <3>1 DEF IsLoop
    <3>2. CASE i \in 1..m
      <4>1. i - 1 \in 0..m /\ i \in 0..m
        BY <3>2
      <4>2. g[i - 1] = f[i - 1] /\ g[i] = f[i]
        BY <4>1
      <4>3. f[i] = UpdateRow(k, f[i - 1], DocOrder[i])
        BY <2>1, <3>2, <4>1 DEF IsLoop
      <4> QED
        BY <3>2, <4>2, <4>3
    <3>3. CASE i = m + 1
      <4>1. g[i - 1] = f[m] /\ g[i] = UpdateRow(k, f[m], DocOrder[m + 1])
        BY <3>3
      <4> QED
        BY <3>3, <4>1
    <3> QED
      BY <3>1, <3>2, <3>3
  <2>3. IsLoop(k, g, m + 1)
    BY <2>2, Zenon DEF IsLoop
  <2> QED
    BY <2>3
<1>3. T = Nat
  BY <1>1, <1>2, NatInductionOnSets
<1> QED
  BY <1>3

\* The loop is what its definition says, and Update its last state.
LEMMA LoopOfUpdate ==
  ASSUME NEW k
  PROVE  \E f : IsLoop(k, f, Len(DocOrder)) /\ Update(k) = f[Len(DocOrder)]
<1> DEFINE loop == CHOOSE f : IsLoop(k, f, Len(DocOrder))
<1>1. Len(DocOrder) \in Nat
  BY StatusPageAssumption
<1>2. IsLoop(k, loop, Len(DocOrder))
  BY <1>1, LoopExists, Zenon
<1>3. Update(k) = loop[Len(DocOrder)]
  BY Zenon DEF Update, IsLoop, LoopStart
<1> QED
  BY <1>2, <1>3

---------------------------------------------------------------------------
(* One row, and one round of the loop. *)

LooksMade(looks) == looks = Looks(looks.mark, looks.sync, looks.status)

RowMade(row) ==
  /\ row = [frame |-> row.frame, link |-> row.link, frequency |-> row.frequency,
            syncing |-> row.syncing, failures |-> row.failures,
            status |-> row.status, age |-> row.age]
  /\ LooksMade(row.frame) /\ LooksMade(row.link)

\* The mark of a row is that of `active', and that of its link, if it has one, is the same.
MarkRight(row, p) ==
  /\ row.frame.mark = IF ~loaded THEN "none" ELSE IF active = p THEN "active" ELSE "inactive"
  /\ row.link.mark \in {"none", row.frame.mark}

TableMade(table) ==
  /\ table = [p \in Listed |-> table[p]]
  /\ \A p \in Listed : RowMade(table[p]) /\ MarkRight(table[p], p)

EntryTyped(e) == {e.sync, e.started, e.failed} \subseteq BOOLEAN

\* A row shows what an entry says.
Shows(e, row) ==
  /\ row.frame.status = e.status /\ row.link = row.frame
  /\ e.sync => /\ row.frame.sync = row.syncing /\ row.syncing = e.started
               /\ row.failures = e.failed /\ row.frequency = e.frequency

LEMMA RowRight ==
  ASSUME NEW e, NEW p, NEW row, NEW frequency, loaded, RowMade(row)
  PROVE  LET new == Row(row, e, p, frequency)
         IN /\ RowMade(new)
            /\ MarkRight(new, p)
            /\ /\ EntryTyped(e)
               /\ e.sync => HasFields(p) /\ frequency = e.frequency
               => Shows(e, new)
            /\ HasFields(p) => new.age = IF Dated(e) THEN frequency ELSE Nothing
<1> DEFINE looks == RowLooks(e, p)
           dressed == [row EXCEPT !.frame = looks, !.link = looks]
           synced == IF e.sync
                     THEN [dressed EXCEPT !.frequency = e.frequency, !.syncing = e.started,
                                          !.failures = e.failed]
                     ELSE dressed
           age == IF Dated(e) THEN frequency ELSE Nothing
           full == [synced EXCEPT !.status = e.status, !.age = age]
           new == Row(row, e, p, frequency)
<1>1. new = IF HasFields(p) THEN full ELSE dressed
  BY Zenon DEF Row
<1>2. /\ LooksMade(looks) /\ looks.status = e.status
      /\ looks.mark = IF active = p THEN "active" ELSE "inactive"
      /\ looks.sync = (e.sync /\ e.started)
  BY DEF RowLooks, Looks, LooksMade
<1> HIDE DEF looks, age
<1>3. /\ RowMade(dressed) /\ dressed.frame = looks /\ dressed.link = looks
  <2>0. PICK a, b, c, d, f, g, h :
               row = [frame |-> a, link |-> b, frequency |-> c, syncing |-> d,
                      failures |-> f, status |-> g, age |-> h]
    BY Zenon DEF RowMade
  <2>1. dressed = [frame |-> looks, link |-> looks, frequency |-> c, syncing |-> d,
                   failures |-> f, status |-> g, age |-> h]
    <3>1. dressed = [[frame |-> a, link |-> b, frequency |-> c, syncing |-> d,
                      failures |-> f, status |-> g, age |-> h]
                       EXCEPT !.frame = looks, !.link = looks]
      BY <2>0, Zenon
    <3> HIDE DEF dressed
    <3> QED
      BY <3>1
  <2> HIDE DEF dressed
  <2>2. dressed.frame = looks /\ dressed.link = looks
    BY <2>1
  <2>3. dressed = [frame |-> dressed.frame, link |-> dressed.link,
                   frequency |-> dressed.frequency, syncing |-> dressed.syncing,
                   failures |-> dressed.failures, status |-> dressed.status,
                   age |-> dressed.age]
    BY <2>1
  <2> QED
    BY <1>2, <2>2, <2>3, Zenon DEF RowMade
<1> HIDE DEF dressed
<1>4. /\ RowMade(synced) /\ synced.frame = looks /\ synced.link = looks
      /\ e.sync => /\ synced.frequency = e.frequency /\ synced.syncing = e.started
                   /\ synced.failures = e.failed
  BY <1>3 DEF RowMade
<1> HIDE DEF synced
<1>5. /\ RowMade(full) /\ full.frame = looks /\ full.link = looks /\ full.age = age
      /\ e.sync => /\ full.frequency = e.frequency /\ full.syncing = e.started
                   /\ full.failures = e.failed
  <2>0. PICK c, d, f, g, h :
               synced = [frame |-> looks, link |-> looks, frequency |-> c, syncing |-> d,
                         failures |-> f, status |-> g, age |-> h]
    BY <1>4, Zenon DEF RowMade
  <2>1. /\ full = [frame |-> looks, link |-> looks, frequency |-> c, syncing |-> d,
                   failures |-> f, status |-> e.status, age |-> age]
        /\ synced.frequency = c /\ synced.syncing = d /\ synced.failures = f
    <3>1. full = [[frame |-> looks, link |-> looks, frequency |-> c, syncing |-> d,
                   failures |-> f, status |-> g, age |-> h]
                    EXCEPT !.status = e.status, !.age = age]
      BY <2>0, Zenon
    <3> HIDE DEF full
    <3> QED
      BY <2>0, <3>1
  <2> HIDE DEF full
  <2>2. /\ full.frame = looks /\ full.link = looks /\ full.age = age
        /\ full.frequency = synced.frequency /\ full.syncing = synced.syncing
        /\ full.failures = synced.failures
    BY <2>1
  <2>3. full = [frame |-> full.frame, link |-> full.link, frequency |-> full.frequency,
                syncing |-> full.syncing, failures |-> full.failures,
                status |-> full.status, age |-> full.age]
    BY <2>1
  <2>4. RowMade(full)
    BY <1>2, <2>2, <2>3, Zenon DEF RowMade
  <2> QED
    BY <1>4, <2>2, <2>4
<1> HIDE DEF full
<1>6. new.frame = looks /\ new.link = looks /\ RowMade(new)
  BY <1>1, <1>3, <1>5
<1>7. MarkRight(new, p)
  <2> HIDE DEF new
  <2> QED
    BY <1>2, <1>6 DEF MarkRight
<1>8. ASSUME EntryTyped(e), e.sync => HasFields(p) /\ frequency = e.frequency
      PROVE  Shows(e, new)
  <2>1. CASE e.sync
    <3>1. new = full
      BY <1>1, <1>8, <2>1
    <3>2. looks.sync = e.started
      <4>1. (TRUE /\ e.started) = e.started
        BY <1>8, Zenon DEF EntryTyped
      <4> QED
        BY <1>2, <2>1, <4>1
    <3> HIDE DEF new
    <3> QED
      BY <1>2, <1>5, <3>1, <3>2, Zenon DEF Shows
  <2>2. CASE ~e.sync
    <3> HIDE DEF new
    <3> QED
      BY <1>2, <1>6, <2>2 DEF Shows
  <2> QED
    BY <1>8, <2>1, <2>2 DEF EntryTyped
<1>9. HasFields(p) => new.age = IF Dated(e) THEN frequency ELSE Nothing
  BY <1>1, <1>5 DEF age
<1> QED
  BY <1>6, <1>7, <1>8, <1>9

\* The state of the loop after i packages: unless it threw, those that have a row show
\* what the edition says.
LoopInv(k, s, i) ==
  /\ s = [rows |-> s.rows, frequency |-> s.frequency, threw |-> s.threw]
  /\ s.threw \in BOOLEAN
  /\ TableMade(s.rows)
  /\ ~s.threw /\ loaded /\ k \in 1..Len(history) =>
       \A j \in 1..i : /\ DocOrder[j] \in Listed
                       /\ ~Absent(k, DocOrder[j])
                       => Shows(Entry(k, DocOrder[j]), s.rows[DocOrder[j]])

LEMMA RoundKeepsInv ==
  ASSUME history \in Histories, NEW k, NEW s, NEW i \in 0..(Len(DocOrder) - 1), LoopInv(k, s, i)
  PROVE  LoopInv(k, UpdateRow(k, s, DocOrder[i + 1]), i + 1)
<1> DEFINE p == DocOrder[i + 1]
           e == Entry(k, p)
           frequency == Frequency(e, s.frequency)
           new == UpdateRow(k, s, p)
<1> SUFFICES LoopInv(k, new, i + 1)
  OBVIOUS
<1>0. Len(DocOrder) \in Nat
  BY StatusPageAssumption
<1>1. CASE s.threw \/ ~Form(p) \/ Absent(k, p)
  <2>1. new = s
    BY <1>1 DEF UpdateRow
  <2>2. ASSUME ~s.threw, loaded, k \in 1..Len(history), NEW j \in 1..(i + 1),
               DocOrder[j] \in Listed, ~Absent(k, DocOrder[j])
        PROVE  Shows(Entry(k, DocOrder[j]), s.rows[DocOrder[j]])
    <3>1. j # i + 1
      BY <1>1, <2>2 DEF Form
    <3>2. j \in 1..i
      BY <3>1
    <3> QED
      BY <2>2, <3>2 DEF LoopInv
  <2> QED
    BY <2>1, <2>2 DEF LoopInv
<1>2. CASE ~s.threw /\ Form(p) /\ ~Absent(k, p) /\ e.sync /\ ~HasFields(p)
  <2>1. new = [s EXCEPT !.threw = TRUE]
    BY <1>2 DEF UpdateRow
  <2>2. s = [rows |-> s.rows, frequency |-> s.frequency, threw |-> s.threw]
    BY DEF LoopInv
  <2>3. new = [rows |-> s.rows, frequency |-> s.frequency, threw |-> TRUE]
    BY <2>1, <2>2
  <2> HIDE DEF new
  <2>4. new.rows = s.rows /\ new.threw
        /\ new = [rows |-> new.rows, frequency |-> new.frequency, threw |-> new.threw]
    BY <2>3
  <2>5. TableMade(new.rows) /\ new.threw \in BOOLEAN
    BY <2>3, <2>4 DEF LoopInv
  <2> QED
    BY <2>4, <2>5, Zenon DEF LoopInv
<1>3. CASE ~s.threw /\ Form(p) /\ ~Absent(k, p) /\ ~(e.sync /\ ~HasFields(p))
  <2> DEFINE row == Row(s.rows[p], e, p, frequency)
             table == [s.rows EXCEPT ![p] = row]
  <2>1. p \in Listed /\ loaded
    BY <1>3 DEF Form
  <2>2. s = [rows |-> s.rows, frequency |-> s.frequency, threw |-> s.threw]
    BY DEF LoopInv
  <2>3. new = [s EXCEPT !.frequency = frequency, !.rows[p] = row]
    BY <1>3, Zenon DEF UpdateRow
  <2>4. new.rows = table /\ new.frequency = frequency /\ new.threw = s.threw
        /\ new = [rows |-> new.rows, frequency |-> new.frequency, threw |-> new.threw]
    <3> HIDE DEF new, row, frequency
    <3> QED
      BY <2>2, <2>3
  <2>5. RowMade(s.rows[p])
    BY <2>1 DEF LoopInv, TableMade
  <2>6. RowMade(row) /\ MarkRight(row, p)
    BY <2>1, <2>5, RowRight
  <2>7. ASSUME k \in 1..Len(history) PROVE Shows(e, row)
    <3>1. EntryTyped(e)
      BY <1>3, <2>1, <2>7, StatusPageAssumption DEF Absent, Entry, EntryTyped
    <3>2. e.sync => HasFields(p) /\ frequency = e.frequency
      BY <1>3 DEF Frequency
    <3> HIDE DEF e, frequency, p
    <3> QED
      BY <2>1, <2>5, <3>1, <3>2, RowRight, Zenon
  <2> HIDE DEF row, frequency, e
  <2>8. table = [q \in Listed |-> table[q]] /\ table[p] = row
        /\ \A q \in Listed : q # p => table[q] = s.rows[q]
    BY <2>1 DEF LoopInv, TableMade
  <2> HIDE DEF table
  <2>9. TableMade(table)
    BY <2>6, <2>8 DEF LoopInv, TableMade
  <2>10. ASSUME k \in 1..Len(history), NEW j \in 1..(i + 1),
                DocOrder[j] \in Listed, ~Absent(k, DocOrder[j])
         PROVE  Shows(Entry(k, DocOrder[j]), table[DocOrder[j]])
    <3>1. CASE DocOrder[j] = p
      BY <2>7, <2>8, <2>10, <3>1 DEF e
    <3>2. CASE DocOrder[j] # p
      <4>1. j \in 1..i
        BY <3>2
      <4> QED
        BY <1>3, <2>1, <2>8, <2>10, <3>2, <4>1 DEF LoopInv
    <3> QED
      BY <3>1, <3>2
  <2> HIDE DEF new, p
  <2>11. new.threw \in BOOLEAN /\ TableMade(new.rows)
    BY <2>4, <2>9 DEF LoopInv
  <2>12. ASSUME k \in 1..Len(history), NEW j \in 1..(i + 1),
                DocOrder[j] \in Listed, ~Absent(k, DocOrder[j])
         PROVE  Shows(Entry(k, DocOrder[j]), new.rows[DocOrder[j]])
    BY <2>4, <2>10, <2>12
  <2> QED
    BY <2>4, <2>11, <2>12, Zenon DEF LoopInv
<1> QED
  BY <1>1, <1>2, <1>3, Zenon DEF LoopInv

\* The frequency that is left in the loop, and the ages that were shown against it.
LoopAges(k, s, i) ==
  ~s.threw /\ loaded =>
    /\ LastFrequency(k, i, s.frequency)
    /\ \A j \in 1..i :
         LET p == DocOrder[j]
         IN p \in Listed /\ ~Absent(k, p) /\ HasFields(p)
              => \E n \in 1..i : DocOrder[n] = p /\ AgeAgainst(k, n, s.rows[p].age)

LEMMA RoundKeepsAges ==
  ASSUME NEW k, NEW s, NEW i \in 0..(Len(DocOrder) - 1), LoopInv(k, s, i), LoopAges(k, s, i)
  PROVE  LoopAges(k, UpdateRow(k, s, DocOrder[i + 1]), i + 1)
<1> DEFINE p == DocOrder[i + 1]
           e == Entry(k, p)
           frequency == Frequency(e, s.frequency)
           new == UpdateRow(k, s, p)
<1> SUFFICES ASSUME ~new.threw, loaded
             PROVE  /\ LastFrequency(k, i + 1, new.frequency)
                    /\ \A j \in 1..(i + 1) :
                         DocOrder[j] \in Listed /\ ~Absent(k, DocOrder[j])
                           /\ HasFields(DocOrder[j])
                         => \E n \in 1..(i + 1) :
                              /\ DocOrder[n] = DocOrder[j]
                              /\ AgeAgainst(k, n, new.rows[DocOrder[j]].age)
  BY Zenon DEF LoopAges
<1>0. Len(DocOrder) \in Nat /\ i \in Nat
  BY StatusPageAssumption
<1>1. ~Assigns(k, p) /\ LastFrequency(k, i, s.frequency)
        => LastFrequency(k, i + 1, s.frequency)
  <2> HIDE DEF e
  <2> QED
    BY <1>0 DEF LastFrequency
<1>2. Assigns(k, p) => LastFrequency(k, i + 1, e.frequency)
  BY <1>0 DEF LastFrequency
<1>3. CASE s.threw \/ ~Form(p) \/ Absent(k, p)
  <2>1. new = s
    BY <1>3 DEF UpdateRow
  <2>2. ~s.threw /\ ~(p \in Listed /\ ~Absent(k, p))
    BY <1>3, <2>1 DEF Form
  <2>3. LastFrequency(k, i + 1, s.frequency)
    BY <1>1, <2>2 DEF LoopAges, Assigns
  <2>4. ASSUME NEW j \in 1..(i + 1), DocOrder[j] \in Listed, ~Absent(k, DocOrder[j]),
               HasFields(DocOrder[j])
        PROVE  \E n \in 1..(i + 1) :
                 DocOrder[n] = DocOrder[j] /\ AgeAgainst(k, n, s.rows[DocOrder[j]].age)
    <3>1. j \in 1..i
      BY <1>0, <2>2, <2>4
    <3> QED
      BY <1>0, <2>2, <2>4, <3>1 DEF LoopAges
  <2> HIDE DEF new
  <2> QED
    BY <2>1, <2>3, <2>4
<1>4. CASE ~s.threw /\ Form(p) /\ ~Absent(k, p) /\ e.sync /\ ~HasFields(p)
  <2>1. new = [s EXCEPT !.threw = TRUE]
    BY <1>4 DEF UpdateRow
  <2>2. s = [rows |-> s.rows, frequency |-> s.frequency, threw |-> s.threw]
    BY DEF LoopInv
  <2> QED
    BY <2>1, <2>2
<1>5. CASE ~s.threw /\ Form(p) /\ ~Absent(k, p) /\ ~(e.sync /\ ~HasFields(p))
  <2> DEFINE row == Row(s.rows[p], e, p, frequency)
             table == [s.rows EXCEPT ![p] = row]
  <2>1. p \in Listed
    BY <1>5 DEF Form
  <2>2. s = [rows |-> s.rows, frequency |-> s.frequency, threw |-> s.threw]
    BY DEF LoopInv
  <2>3. new = [s EXCEPT !.frequency = frequency, !.rows[p] = row]
    BY <1>5, Zenon DEF UpdateRow
  <2>4. new.rows = table /\ new.frequency = frequency
    <3> HIDE DEF new, row, frequency
    <3> QED
      BY <2>2, <2>3
  <2>5. table[p] = row /\ \A q \in Listed : q # p => table[q] = s.rows[q]
    <3> HIDE DEF row
    <3> QED
      BY <2>1 DEF LoopInv, TableMade
  <2>6. HasFields(p) => row.age = IF Dated(e) THEN frequency ELSE Nothing
    <3>1. RowMade(s.rows[p])
      BY <2>1 DEF LoopInv, TableMade
    <3> HIDE DEF frequency, e, p
    <3> QED
      BY <3>1, RowRight, Zenon DEF row
  <2>7. LastFrequency(k, i + 1, frequency)
    <3>1. CASE e.sync
      BY <1>2, <1>5, <2>1, <3>1 DEF Frequency, Assigns
    <3>2. CASE ~e.sync
      BY <1>1, <1>5, <2>1, <3>2 DEF Frequency, Assigns, LoopAges
    <3> QED
      BY <3>1, <3>2
  <2>8. HasFields(p) => AgeAgainst(k, i + 1, row.age)
    <3> HIDE DEF row, frequency
    <3> QED
      BY <2>6, <2>7 DEF AgeAgainst
  <2> HIDE DEF row, frequency, e, table, new
  <2>9. ASSUME NEW j \in 1..(i + 1), DocOrder[j] \in Listed, ~Absent(k, DocOrder[j]),
               HasFields(DocOrder[j])
        PROVE  \E n \in 1..(i + 1) :
                 DocOrder[n] = DocOrder[j] /\ AgeAgainst(k, n, table[DocOrder[j]].age)
    <3>1. CASE DocOrder[j] = p
      BY <1>0, <2>5, <2>8, <2>9, <3>1
    <3>2. CASE DocOrder[j] # p
      <4>1. j \in 1..i
        BY <1>0, <3>2
      <4> QED
        BY <1>0, <1>5, <2>5, <2>9, <3>2, <4>1 DEF LoopAges
    <3> QED
      BY <3>1, <3>2
  <2> QED
    BY <2>4, <2>7, <2>9
<1> QED
  BY <1>3, <1>4, <1>5

LEMMA UpdateRight ==
  ASSUME history \in Histories, TableMade(rows), NEW k
  PROVE  LoopInv(k, Update(k), Len(DocOrder)) /\ LoopAges(k, Update(k), Len(DocOrder))
<1>1. Len(DocOrder) \in Nat
  BY StatusPageAssumption
<1>2. PICK f : IsLoop(k, f, Len(DocOrder)) /\ Update(k) = f[Len(DocOrder)]
  BY LoopOfUpdate
<1> DEFINE T == {i \in Nat : i <= Len(DocOrder) => LoopInv(k, f[i], i) /\ LoopAges(k, f[i], i)}
<1>3. 0 \in T
  <2>1. f[0] = LoopStart
    BY <1>1, <1>2 DEF IsLoop
  <2>2. /\ f[0].rows = rows /\ f[0].threw = FALSE
        /\ f[0] = [rows |-> f[0].rows, frequency |-> f[0].frequency, threw |-> f[0].threw]
    BY <2>1 DEF LoopStart
  <2>3. \A j \in 1..0 : FALSE
    OBVIOUS
  <2>4. LoopInv(k, f[0], 0)
    BY <2>2, <2>3, Zenon DEF LoopInv
  <2>5. f[0].frequency = Nothing
    BY <2>1 DEF LoopStart
  <2>6. LoopAges(k, f[0], 0)
    BY <2>3, <2>5, Zenon DEF LoopAges, LastFrequency
  <2> QED
    BY <2>4, <2>6
<1>4. ASSUME NEW i \in T PROVE i + 1 \in T
  <2> SUFFICES ASSUME i + 1 <= Len(DocOrder)
               PROVE  LoopInv(k, f[i + 1], i + 1) /\ LoopAges(k, f[i + 1], i + 1)
    OBVIOUS
  <2>1. i \in 0..(Len(DocOrder) - 1) /\ LoopInv(k, f[i], i) /\ LoopAges(k, f[i], i)
    BY <1>1
  <2>2. f[i + 1] = UpdateRow(k, f[i], DocOrder[i + 1])
    BY <1>1, <1>2, <2>1 DEF IsLoop
  <2> QED
    BY <2>1, <2>2, RoundKeepsInv, RoundKeepsAges
<1>5. T = Nat
  BY <1>3, <1>4, NatInductionOnSets
<1> QED
  BY <1>1, <1>2, <1>5
---------------------------------------------------------------------------
(* The status page: its types, the open row and what the rows show. *)

StatusInv ==
  /\ history \in Histories
  /\ published \in 1..Len(history)
  /\ applied \in 0..published
  /\ active \in Listed \cup {Nothing}
  /\ loaded \in BOOLEAN /\ timer \in BOOLEAN /\ updating \in BOOLEAN /\ threw \in BOOLEAN
  /\ RequestsTyped
  /\ \A r \in Requests : requests[r].edition <= published
  /\ ~loaded => active = Nothing /\ applied = 0
  /\ TableMade(rows)
  /\ RowsShowAnswer

\* The age in a row is shown against what the loop held in the row's round.
AgeRight(k, p, age) == \E i \in DOMAIN DocOrder : DocOrder[i] = p /\ AgeAgainst(k, i, age)

LEMMA ShowAnswer ==
  RowsShowAnswer <=>
    (applied # 0 => \A p \in Listed :
                      ~Absent(applied, p) =>
                        /\ Shows(Entry(applied, p), rows[p])
                        /\ HasFields(p) => AgeRight(applied, p, rows[p].age))
BY Zenon DEF RowsShowAnswer, Shows, AgeRight

LEMMA ShowAnswerNext ==
  RowsShowAnswer' <=>
    (applied' # 0 => \A p \in Listed :
                       ~Absent(applied, p)' =>
                         /\ Shows(Entry(applied, p), rows[p])'
                         /\ HasFields(p)' => AgeRight(applied, p, rows[p].age)')
BY Zenon DEF RowsShowAnswer, Shows, AgeRight

\* What is shown against an edition is read from the history alone, which no step changes.
LEMMA ShownNext ==
  ASSUME history' = history, NEW p \in Listed
  PROVE  /\ HasFields(p)' <=> HasFields(p)
         /\ Absent(applied, p)' <=> Absent(applied', p)
         /\ Shows(Entry(applied, p), rows[p])' <=> Shows(Entry(applied', p), rows'[p])
         /\ AgeRight(applied, p, rows[p].age)' <=> AgeRight(applied', p, rows'[p].age)
<1>1. ASSUME NEW q PROVE Entry(applied, q)' = Entry(applied', q)
  BY DEF Entry
<1>2. ASSUME NEW q PROVE Absent(applied, q)' <=> Absent(applied', q)
  BY <1>1, Zenon DEF Absent
<1>3. HasFields(p)' <=> HasFields(p)
  BY DEF HasFields, Entry
<1>4. Shows(Entry(applied, p), rows[p])' <=> Shows(Entry(applied', p), rows'[p])
  BY <1>1, Zenon DEF Shows
<1>5. ASSUME NEW q PROVE Assigns(applied, q)' <=> Assigns(applied', q)
  BY <1>1, <1>2, Zenon DEF Assigns
<1>6. ASSUME NEW i
      PROVE  LastFrequency(applied, i, rows[p].age)' <=> LastFrequency(applied', i, rows'[p].age)
  BY <1>1, <1>5, Zenon DEF LastFrequency
<1>7. ASSUME NEW i
      PROVE  AgeAgainst(applied, i, rows[p].age)' <=> AgeAgainst(applied', i, rows'[p].age)
  BY <1>1, <1>6, Zenon DEF AgeAgainst, Dated
<1>8. AgeRight(applied, p, rows[p].age)' <=> AgeRight(applied', p, rows'[p].age)
  BY <1>7, Zenon DEF AgeRight
<1> QED
  BY <1>2, <1>3, <1>4, <1>8

\* A step that keeps the history, the edition and what the rows show keeps the property.
LEMMA ShowStays ==
  ASSUME RowsShowAnswer, history' = history, applied' = applied,
         \A q \in Listed : /\ \A e : Shows(e, rows[q]) => Shows(e, rows'[q])
                           /\ rows'[q].age = rows[q].age
  PROVE  RowsShowAnswer'
<1>1. ASSUME applied' # 0, NEW p \in Listed, ~Absent(applied, p)'
      PROVE  /\ Shows(Entry(applied, p), rows[p])'
             /\ HasFields(p)' => AgeRight(applied, p, rows[p].age)'
  <2>1. applied # 0 /\ ~Absent(applied, p)
    BY <1>1, ShownNext
  <2>2. /\ Shows(Entry(applied, p), rows[p])
        /\ HasFields(p) => AgeRight(applied, p, rows[p].age)
    BY <2>1, ShowAnswer
  <2> QED
    BY <2>2, ShownNext
<1> QED
  BY <1>1, ShowAnswerNext

LEMMA StatusInitRight == StatusInit => StatusInv
<1> SUFFICES ASSUME StatusInit PROVE StatusInv
  OBVIOUS
<1> USE DEF StatusInit
<1>1. history \in Histories /\ published \in 1..Len(history)
  BY StatusPageAssumption
<1>2. RequestsTyped /\ \A r \in Requests : requests[r].edition <= published
  BY DEF RequestsTyped, Idle
<1>3. TableMade(rows)
  <2>1. ASSUME NEW p \in Listed PROVE RowMade(rows[p]) /\ MarkRight(rows[p], p)
    BY DEF FirstRow, Looks, RowMade, LooksMade, MarkRight
  <2> QED
    BY <2>1 DEF TableMade
<1>4. /\ applied = 0 /\ active = Nothing
      /\ loaded \in BOOLEAN /\ timer \in BOOLEAN /\ updating \in BOOLEAN /\ threw \in BOOLEAN
  OBVIOUS
<1>5. RowsShowAnswer
  BY <1>4, ShowAnswer
<1>6. applied \in 0..published
  BY <1>1, <1>4
<1> QED
  BY <1>1, <1>2, <1>3, <1>4, <1>5, <1>6, Zenon DEF StatusInv

\* Marks are exchanged and nothing else.
LEMMA MarkedRight ==
  ASSUME NEW row, RowMade(row), NEW from, NEW to
  PROVE  LET new == Marked(row, from, to)
         IN /\ RowMade(new)
            /\ new.frame.mark = IF row.frame.mark = from THEN to ELSE row.frame.mark
            /\ new.link.mark = IF row.link.mark = from THEN to ELSE row.link.mark
            /\ \A e : Shows(e, row) => Shows(e, new)
            /\ new.age = row.age
<1> DEFINE Swap(looks) == IF looks.mark = from THEN [looks EXCEPT !.mark = to] ELSE looks
           frame == Swap(row.frame)
           link == Swap(row.link)
           new == Marked(row, from, to)
<1>1. ASSUME NEW looks, LooksMade(looks)
      PROVE  /\ LooksMade(Swap(looks))
             /\ Swap(looks).sync = looks.sync /\ Swap(looks).status = looks.status
             /\ Swap(looks).mark = IF looks.mark = from THEN to ELSE looks.mark
  <2>1. PICK m, y, t : looks = [mark |-> m, sync |-> y, status |-> t]
    BY <1>1, Zenon DEF LooksMade, Looks
  <2>2. looks.mark = m /\ looks.sync = y /\ looks.status = t
    BY <2>1
  <2>3. Swap(looks) = [mark |-> IF m = from THEN to ELSE m, sync |-> y, status |-> t]
    <3>1. CASE m = from
      <4> DEFINE swapped == [[mark |-> m, sync |-> y, status |-> t] EXCEPT !.mark = to]
      <4>1. Swap(looks) = swapped
        BY <2>1, <2>2, <3>1, Zenon
      <4>2. swapped = [mark |-> to, sync |-> y, status |-> t]
        OBVIOUS
      <4> QED
        BY <3>1, <4>1, <4>2, Zenon
    <3>2. CASE m # from
      BY <2>1, <2>2, <3>2, Zenon
    <3> QED
      BY <3>1, <3>2
  <2> HIDE DEF Swap
  <2> QED
    BY <2>2, <2>3 DEF LooksMade, Looks
<1>2. /\ LooksMade(frame) /\ LooksMade(link)
      /\ frame.status = row.frame.status /\ frame.sync = row.frame.sync
      /\ frame.mark = IF row.frame.mark = from THEN to ELSE row.frame.mark
      /\ link.mark = IF row.link.mark = from THEN to ELSE row.link.mark
  <2> HIDE DEF Swap
  <2> QED
    BY <1>1 DEF RowMade
<1>3. row.link = row.frame => link = frame
  BY Zenon
<1>4. new = [row EXCEPT !.frame = frame, !.link = link]
  BY Zenon DEF Marked
<1> HIDE DEF frame, link
<1>5. PICK a, b, c, d, f, g, h :
             row = [frame |-> a, link |-> b, frequency |-> c, syncing |-> d,
                    failures |-> f, status |-> g, age |-> h]
  BY Zenon DEF RowMade
<1> HIDE DEF new
<1>6. new = [[frame |-> a, link |-> b, frequency |-> c, syncing |-> d,
              failures |-> f, status |-> g, age |-> h] EXCEPT !.frame = frame, !.link = link]
  BY <1>4, <1>5, Zenon
<1>7. new = [frame |-> frame, link |-> link, frequency |-> c, syncing |-> d,
             failures |-> f, status |-> g, age |-> h]
  BY <1>6
<1>8. /\ new.frame = frame /\ new.link = link
      /\ new.frequency = row.frequency /\ new.syncing = row.syncing
      /\ new.failures = row.failures /\ new.status = row.status /\ new.age = row.age
      /\ new = [frame |-> new.frame, link |-> new.link, frequency |-> new.frequency,
                syncing |-> new.syncing, failures |-> new.failures,
                status |-> new.status, age |-> new.age]
  BY <1>5, <1>7
<1>9. RowMade(new)
  BY <1>2, <1>8, Zenon DEF RowMade
<1>10. ASSUME NEW e, Shows(e, row) PROVE Shows(e, new)
  BY <1>2, <1>3, <1>8, <1>10 DEF Shows
<1> QED
  BY <1>2, <1>8, <1>9, <1>10 DEF new

LEMMA ToggleRight ==
  ASSUME StatusInv, NEW p \in Listed, Toggle(p) PROVE TableMade(rows)' /\ RowsShowAnswer'
<1> USE DEF Toggle
<1>1. loaded /\ loaded' = loaded /\ applied' = applied /\ history' = history
  BY DEF Form
<1>2. rows' = Toggled(rows, p) /\ active' = IF active = p THEN Nothing ELSE p
  OBVIOUS
<1>3. ASSUME NEW q \in Listed
      PROVE  /\ RowMade(rows'[q])
             /\ rows'[q].frame.mark = IF active' = q THEN "active" ELSE "inactive"
             /\ rows'[q].link.mark \in {"none", rows'[q].frame.mark}
             /\ \A e : Shows(e, rows[q]) => Shows(e, rows'[q])
             /\ rows'[q].age = rows[q].age
  <2>1. RowMade(rows[q]) /\ MarkRight(rows[q], q)
    BY DEF StatusInv, TableMade
  <2>2. rows[q].frame.mark = (IF active = q THEN "active" ELSE "inactive")
        /\ rows[q].link.mark \in {"none", rows[q].frame.mark}
    BY <1>1, <2>1 DEF MarkRight
  <2>3. q # Nothing
    BY StatusPageAssumption
  <2>4. CASE q = active
    <3>1. rows'[q] = Marked(rows[q], "active", "inactive")
      BY <1>2, <2>4 DEF Toggled
    <3>2. active' # q
      BY <1>2, <2>3, <2>4
    <3> QED
      BY <2>1, <2>2, <2>4, <3>1, <3>2, MarkedRight
  <2>5. CASE q # active /\ q = p
    <3>1. rows'[q] = Marked(rows[q], "inactive", "active")
      BY <1>2, <2>5 DEF Toggled
    <3>2. active' = q
      BY <1>2, <2>5
    <3> QED
      BY <2>1, <2>2, <2>5, <3>1, <3>2, MarkedRight
  <2>6. CASE q # active /\ q # p
    <3>1. rows'[q] = rows[q]
      BY <1>2, <2>6 DEF Toggled
    <3>2. active' # q
      BY <1>2, <2>3, <2>6
    <3> QED
      BY <2>1, <2>2, <2>6, <3>1, <3>2
  <2> QED
    BY <2>4, <2>5, <2>6
<1>4. rows' = [q \in Listed |-> rows'[q]]
  BY <1>2 DEF Toggled
<1>5. TableMade(rows)'
  <2>1. ASSUME NEW q \in Listed PROVE (RowMade(rows[q]) /\ MarkRight(rows[q], q))'
    BY <1>1, <1>3 DEF MarkRight, RowMade, LooksMade
  <2> QED
    BY <1>4, <2>1 DEF TableMade
<1>6. RowsShowAnswer'
  BY <1>1, <1>3, ShowStays DEF StatusInv
<1> QED
  BY <1>5, <1>6

LEMMA LoadRight ==
  ASSUME StatusInv, NEW p \in Listed \cup {Nothing}, Load(p)
  PROVE  TableMade(rows)' /\ RowsShowAnswer'
<1> DEFINE fresh == [q \in Listed |-> [rows[q] EXCEPT !.frame.mark = "inactive"]]
<1>1. /\ ~loaded /\ loaded' /\ active = Nothing /\ active' = p /\ applied' = 0
      /\ rows' = IF p = Nothing THEN fresh ELSE Toggled(fresh, p)
  BY DEF Load, StatusInv
<1>2. ASSUME NEW q \in Listed
      PROVE  /\ RowMade(fresh[q])
             /\ fresh[q].frame.mark = "inactive" /\ fresh[q].link.mark = "none"
  <2>1. RowMade(rows[q]) /\ rows[q].link.mark = "none"
    BY <1>1 DEF StatusInv, TableMade, MarkRight
  <2>2. PICK a, b, c, d, f, g, h :
             rows[q] = [frame |-> a, link |-> b, frequency |-> c, syncing |-> d,
                        failures |-> f, status |-> g, age |-> h]
    BY <2>1, Zenon DEF RowMade
  <2>3. PICK m, y, t : a = [mark |-> m, sync |-> y, status |-> t]
    <3>1. a = rows[q].frame
      BY <2>2
    <3> QED
      BY <2>1, <3>1, Zenon DEF RowMade, LooksMade, Looks
  <2> DEFINE row == [rows[q] EXCEPT !.frame.mark = "inactive"]
  <2>4. row = [[frame |-> [mark |-> m, sync |-> y, status |-> t], link |-> b,
                frequency |-> c, syncing |-> d, failures |-> f, status |-> g, age |-> h]
                 EXCEPT !.frame.mark = "inactive"]
    BY <2>2, <2>3, Zenon
  <2>5. b = rows[q].link
    BY <2>2
  <2> HIDE DEF row
  <2>6. row = [frame |-> [mark |-> "inactive", sync |-> y, status |-> t], link |-> b,
               frequency |-> c, syncing |-> d, failures |-> f, status |-> g, age |-> h]
    BY <2>4
  <2>7. /\ row.frame = [mark |-> "inactive", sync |-> y, status |-> t] /\ row.link = b
        /\ row = [frame |-> row.frame, link |-> row.link, frequency |-> row.frequency,
                  syncing |-> row.syncing, failures |-> row.failures,
                  status |-> row.status, age |-> row.age]
    BY <2>6
  <2>8. row.frame.mark = "inactive" /\ LooksMade(row.frame)
    BY <2>7 DEF LooksMade, Looks
  <2>9. LooksMade(row.link) /\ row.link.mark = "none"
    BY <2>1, <2>5, <2>7, Zenon DEF RowMade
  <2>10. RowMade(row)
    BY <2>7, <2>8, <2>9, Zenon DEF RowMade
  <2>11. fresh[q] = row
    BY DEF row
  <2> QED
    BY <2>8, <2>9, <2>10, <2>11, Zenon
<1> HIDE DEF fresh
<1>3. ASSUME NEW q \in Listed
      PROVE  /\ RowMade(rows'[q])
             /\ rows'[q].frame.mark = IF active' = q THEN "active" ELSE "inactive"
             /\ rows'[q].link.mark \in {"none", rows'[q].frame.mark}
  <2>1. q # Nothing
    BY StatusPageAssumption
  <2>2. CASE p = q
    <3>1. rows'[q] = Marked(fresh[q], "inactive", "active")
      BY <1>1, <2>1, <2>2 DEF Toggled
    <3> QED
      BY <1>1, <1>2, <2>2, <3>1, MarkedRight
  <2>3. CASE p # q
    <3>1. rows'[q] = fresh[q]
      BY <1>1, <2>1, <2>3 DEF Toggled
    <3> QED
      BY <1>1, <1>2, <2>3, <3>1
  <2> QED
    BY <2>2, <2>3
<1>4. rows' = [q \in Listed |-> rows'[q]]
  BY <1>1 DEF Toggled, fresh
<1>5. TableMade(rows)'
  <2>1. ASSUME NEW q \in Listed PROVE (RowMade(rows[q]) /\ MarkRight(rows[q], q))'
    BY <1>1, <1>3 DEF MarkRight, RowMade, LooksMade
  <2> QED
    BY <1>4, <2>1 DEF TableMade
<1> QED
  BY <1>1, <1>5 DEF RowsShowAnswer

LEMMA CompleteRight ==
  ASSUME StatusInv, NEW r \in Requests, Complete(r)
  PROVE  /\ TableMade(rows)' /\ RowsShowAnswer'
         /\ threw' \in BOOLEAN /\ updating' \in BOOLEAN
         /\ applied' \in 0..published /\ (~loaded => applied' = 0)
<1> DEFINE k == requests[r].edition
           end == Update(k)
<1>1. /\ rows' = end.rows /\ threw' = end.threw /\ updating' = end.threw
      /\ applied' = IF end.threw THEN 0 ELSE IF loaded THEN k ELSE applied
      /\ UNCHANGED <<history, published, loaded, active>>
  BY DEF Complete
<1>2. k \in 0..published
  BY DEF StatusInv, RequestsTyped
<1>3. LoopInv(k, end, Len(DocOrder)) /\ LoopAges(k, end, Len(DocOrder))
  BY UpdateRight DEF StatusInv
<1> HIDE DEF k, end
<1>4. TableMade(rows)'
  BY <1>1, <1>3 DEF LoopInv, TableMade, RowMade, LooksMade, MarkRight
<1>5. ASSUME applied' # 0, NEW p \in Listed, ~Absent(applied', p)
      PROVE  /\ Shows(Entry(applied', p), rows'[p])
             /\ HasFields(p) => AgeRight(applied', p, rows'[p].age)
  <2>1. ~end.threw /\ loaded /\ applied' = k
    BY <1>1, <1>5 DEF StatusInv
  <2>2. k \in 1..Len(history)
    BY <1>2, <1>5, <2>1 DEF StatusInv
  <2>3. PICK j \in 1..Len(DocOrder) : DocOrder[j] = p
    BY StatusPageAssumption DEF Packages
  <2>4. Shows(Entry(applied', p), rows'[p])
    BY <1>1, <1>3, <1>5, <2>1, <2>2, <2>3 DEF LoopInv
  <2>5. ASSUME HasFields(p) PROVE AgeRight(applied', p, rows'[p].age)
    <3>1. PICK n \in 1..Len(DocOrder) : DocOrder[n] = p /\ AgeAgainst(k, n, rows'[p].age)
      BY <1>1, <1>3, <1>5, <2>1, <2>3, <2>5 DEF LoopAges
    <3>2. n \in DOMAIN DocOrder
      BY StatusPageAssumption
    <3> QED
      BY <2>1, <3>1, <3>2 DEF AgeRight
  <2> QED
    BY <2>4, <2>5
<1>6. RowsShowAnswer'
  <2>1. history' = history
    BY <1>1
  <2> QED
    BY <1>5, <2>1, ShownNext, ShowAnswerNext
<1> QED
  BY <1>1, <1>2, <1>3, <1>4, <1>6 DEF StatusInv, LoopInv

LEMMA StatusNextRight == StatusInv /\ [StatusNext]_statusVars => StatusInv'
<1> SUFFICES ASSUME StatusInv, [StatusNext]_statusVars PROVE StatusInv'
  OBVIOUS
<1> DEFINE Types == /\ active \in Listed \cup {Nothing}
                    /\ loaded \in BOOLEAN /\ timer \in BOOLEAN
                    /\ updating \in BOOLEAN /\ threw \in BOOLEAN
                    /\ ~loaded => active = Nothing /\ applied = 0
           Counted == /\ history \in Histories
                      /\ published \in 1..Len(history)
                      /\ applied \in 0..published
                      /\ RequestsTyped
                      /\ \A r \in Requests : requests[r].edition <= published
           Right == TableMade(rows) /\ RowsShowAnswer
<1>0. StatusInv <=> Types /\ Counted /\ Right
  BY DEF StatusInv
<1>1. UNCHANGED <<history, loaded, rows, active, applied>> => Right'
  BY <1>0, ShowStays DEF TableMade, RowMade, LooksMade, MarkRight
<1>2. UNCHANGED <<history, published, applied, requests>> => Counted'
  BY <1>0 DEF RequestsTyped
<1>3. ASSUME NEW r \in Requests, Send(r), UNCHANGED <<history, published, applied>>
      PROVE  Counted'
  BY <1>0, <1>3 DEF Send, RequestsTyped
<1>4. ASSUME NEW r \in Requests, requests' = [requests EXCEPT ![r] = Idle],
             UNCHANGED <<history, published>>, applied' \in 0..published
      PROVE  Counted'
  BY <1>0, <1>4 DEF Idle, RequestsTyped
<1>5. CASE Publish
  <2>1. Counted'
    BY <1>0, <1>5, StatusPageAssumption DEF Publish, RequestsTyped
  <2> QED
    BY <1>0, <1>1, <1>5, <2>1 DEF Publish, StatusInv
<1>6. ASSUME NEW p \in Listed \cup {Nothing}, Load(p) PROVE StatusInv'
  <2>1. Counted'
    BY <1>3, <1>6 DEF Load
  <2>2. Types'
    BY <1>0, <1>6 DEF Load, Send
  <2>3. Right'
    BY <1>6, LoadRight
  <2> QED
    BY <2>1, <2>2, <2>3 DEF StatusInv
<1>7. ASSUME NEW p \in Listed, Toggle(p) PROVE StatusInv'
  <2>1. Types'
    BY <1>0, <1>7 DEF Toggle, Form
  <2> QED
    BY <1>2, <1>7, <2>1, ToggleRight DEF Toggle, StatusInv
<1>8. ASSUME NEW on \in BOOLEAN, RefreshRegularly(on) PROVE StatusInv'
  BY <1>0, <1>1, <1>2, <1>8 DEF RefreshRegularly, StatusInv
<1>9. ASSUME NEW r \in Requests, Refresh(r) PROVE StatusInv'
  <2>1. Counted' /\ Right'
    BY <1>1, <1>3, <1>9 DEF Refresh
  <2> QED
    BY <1>0, <1>9, <2>1 DEF Refresh, Send, StatusInv
<1>10. ASSUME NEW r \in Requests, Progress(r) PROVE StatusInv'
  <2>1. Counted'
    BY <1>0, <1>10, StatusPageAssumption DEF Progress, RequestsTyped
  <2> QED
    BY <1>0, <1>1, <1>10, <2>1 DEF Progress, StatusInv
<1>11. ASSUME NEW r \in Requests, Complete(r) PROVE StatusInv'
  <2>1. Counted'
    BY <1>4, <1>11, CompleteRight DEF Complete
  <2>2. Types'
    BY <1>0, <1>11, CompleteRight DEF Complete
  <2> QED
    BY <1>11, <2>1, <2>2, CompleteRight DEF StatusInv
<1>12. ASSUME NEW r \in Requests, Fail(r) PROVE StatusInv'
  <2>1. Counted'
    BY <1>0, <1>4, <1>12 DEF Fail
  <2> QED
    BY <1>0, <1>1, <1>12, <2>1 DEF Fail, StatusInv
<1>13. CASE UNCHANGED statusVars
  BY <1>0, <1>1, <1>2, <1>13 DEF statusVars, StatusInv
<1> QED
  BY <1>5, <1>6, <1>7, <1>8, <1>9, <1>10, <1>11, <1>12, <1>13 DEF StatusNext, TimerFires

LEMMA AlwaysStatus == Spec => []StatusInv
<1>1. Init => StatusInv
  BY StatusInitRight DEF Init
<1>2. StatusInv /\ [Next]_vars => StatusInv'
  BY StatusNextRight DEF Next, vars
<1> QED
  BY <1>1, <1>2, PTL DEF Spec

\* Through every order of clicks, refreshes and answers one row at most is open, the one a
\* click would close, and its link agrees (toggle, update and load of status.js).
THEOREM PagesOpenRow == Spec => []OpenRow
<1>1. StatusInv => OpenRow
  BY StatusPageAssumption DEF StatusInv, TableMade, MarkRight, OpenRow
<1> QED
  BY <1>1, AlwaysStatus, PTL

\* After an update that went through every row shows what the edition says of its package,
\* whatever packages the loop has gone through before (update of status.js).
THEOREM PagesRowsShowAnswer == Spec => []RowsShowAnswer
<1>1. StatusInv => RowsShowAnswer
  BY DEF StatusInv
<1> QED
  BY <1>1, AlwaysStatus, PTL
---------------------------------------------------------------------------
(* Types *)

ContentsTyped == ContentsTypeOK /\ files \in Contents

LEMMA ContentsInitTyped == ContentsInit => ContentsTyped
<1> SUFFICES ASSUME ContentsInit PROVE ContentsTyped
  OBVIOUS
<1> USE DEF ContentsInit
<1>1. written = 1 /\ written \in 1..Len(files)
  BY ContentsAssumption
<1>2. gets \in [Gets -> [state : {"idle", "sent", "served"}, edition : 0..written]]
  BY <1>1 DEF IdleGet
<1>3. box \in [Items -> 0..written]
  BY <1>1
<1>4. images \in [Items -> Nat] /\ imgLoaded \in [Items -> BOOLEAN]
  OBVIOUS
<1>5. bound \in [Items -> 0..MaxBound]
  BY ContentsAssumption
<1> QED
  BY <1>1, <1>2, <1>3, <1>4, <1>5 DEF ContentsTyped, ContentsTypeOK

\* The file only gets more editions, so what was carried off stays one of them.
LEMMA ContentsNextTyped == ContentsTyped /\ [ContentsNext]_contentsVars => ContentsTyped'
<1> SUFFICES ASSUME ContentsTyped, [ContentsNext]_contentsVars PROVE ContentsTyped'
  OBVIOUS
<1> USE DEF ContentsTyped, ContentsTypeOK
<1>0. Len(files) \in Nat
  BY ContentsAssumption
<1>1. CASE WriteBegins
  BY <1>0, <1>1 DEF WriteBegins, boxVars
<1>2. CASE WriteEnds
  BY <1>2 DEF WriteEnds, boxVars
<1>3. ASSUME NEW g \in Gets, UpdateStatus(g) PROVE ContentsTyped'
  BY <1>3 DEF UpdateStatus, IdleGet, fileVars, boxVars
<1>4. ASSUME NEW g \in Gets, Serve(g) PROVE ContentsTyped'
  BY <1>0, <1>4 DEF Serve, fileVars, boxVars
<1>5. ASSUME NEW g \in Gets, Lose(g) PROVE ContentsTyped'
  BY <1>0, <1>5 DEF Lose, IdleGet, fileVars, boxVars
<1>6. ASSUME NEW g \in Gets, Fill(g) PROVE ContentsTyped'
  <2> DEFINE k == gets[g].edition
  <2>1. k \in 0..written
    OBVIOUS
  <2> HIDE DEF k
  <2>2. /\ UNCHANGED fileVars /\ UNCHANGED <<activeItem, pointer>>
        /\ gets' = [gets EXCEPT ![g] = IdleGet]
        /\ opened' = opened \ Found(k)
        /\ box' = [i \in Items |-> IF i \in Found(k) THEN k ELSE box[i]]
        /\ images' = [i \in Items |-> IF i \in Found(k) THEN 0 ELSE images[i]]
        /\ imgLoaded' = FlagsReset(k)
        /\ bound' = [i \in Items |-> IF i \in Found(k) /\ bound[i] < MaxBound
                                     THEN bound[i] + 1 ELSE bound[i]]
    BY <1>6 DEF Fill, k
  <2>3. gets' \in [Gets -> [state : {"idle", "sent", "served"}, edition : 0..written]]
    BY <1>0, <2>2 DEF IdleGet
  <2>4. bound' \in [Items -> 0..MaxBound]
    BY <2>2, ContentsAssumption
  <2>5. imgLoaded' \in [Items -> BOOLEAN]
    BY <2>2 DEF FlagsReset
  <2>6. box' \in [Items -> 0..written] /\ images' \in [Items -> Nat]
    BY <2>1, <2>2
  <2> QED
    BY <2>2, <2>3, <2>4, <2>5, <2>6 DEF fileVars
<1>7. ASSUME NEW i \in Items, Click(i) PROVE ContentsTyped'
  BY <1>7 DEF Click, fileVars, boxVars
<1>8. ASSUME NEW i \in Items \cup {NoItem}, MovePointer(i) PROVE ContentsTyped'
  <2>1. images' \in [Items -> Nat]
    BY <1>8 DEF MovePointer, Hover
  <2>2. imgLoaded' \in [Items -> BOOLEAN]
    BY <1>8 DEF MovePointer
  <2> QED
    BY <1>8, <2>1, <2>2 DEF MovePointer, fileVars
<1>9. CASE UNCHANGED contentsVars
  BY <1>9 DEF contentsVars, fileVars, boxVars
<1> QED
  BY <1>1, <1>2, <1>3, <1>4, <1>5, <1>6, <1>7, <1>8, <1>9 DEF ContentsNext, Tick

\* The types of both pages: no request carries an edition that is not up yet, and no box
\* holds one that is not begun.
THEOREM PagesTypeOK == Spec => []TypeOK
<1>1. Init => ContentsTyped /\ screen \in {"status", "contents"}
  BY ContentsInitTyped DEF Init
<1>2. /\ ContentsTyped /\ screen \in {"status", "contents"}
      /\ [Next]_vars
      => (ContentsTyped /\ screen \in {"status", "contents"})'
  BY ContentsNextTyped DEF Next, vars
<1>3. StatusInv => StatusTypeOK
  BY DEF StatusInv, StatusTypeOK, RequestsTyped
<1>4. StatusInv /\ ContentsTyped /\ screen \in {"status", "contents"} => TypeOK
  BY <1>3 DEF TypeOK, ContentsTyped
<1> QED
  BY <1>1, <1>2, <1>4, AlwaysStatus, PTL DEF Spec
=============================================================================
