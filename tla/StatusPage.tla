----------------------------- MODULE StatusPage -----------------------------
(***************************************************************************)
(* The status page of the ftp site and status.js, which rewrites it        *)
(* without reloading: rows of packages one of which is open, requests for  *)
(* the status document that overlap, and what each answer does to the rows. *)
(*                                                                         *)
(* Whoever publishes the document is not in the repository: here it puts   *)
(* up one edition after the other of a history, each in place by a rename. *)
(* The page itself was written from the first edition (status2html.xsl): a *)
(* package that was `original' then has no sync and status fields in its   *)
(* row.  Texts, links and dates are left out; an age is the frequency it   *)
(* is shown against.                                                       *)
(***************************************************************************)
EXTENDS Naturals, Sequences

CONSTANTS Listed,     \* the packages with a row; hidden ones have none
          DocOrder,   \* the packages in the order of the document
          Histories,  \* sequences of editions, each a function from packages to entries
          Requests,   \* requests that can be under way at once (bound)
          Nothing     \* no package, no value

Packages == {DocOrder[i] : i \in DOMAIN DocOrder}

\* The rows are those of packages of the document.
ASSUME StatusPageAssumption ==
  /\ DocOrder \in Seq(Packages)
  /\ Listed \subseteq Packages
  /\ Nothing \notin Listed
  /\ \A h \in Histories :
       /\ Len(h) \in Nat \ {0}
       /\ \A k \in 1..Len(h), p \in Listed :
            h[k][p] # Nothing => {h[k][p].sync, h[k][p].started, h[k][p].failed} \subseteq BOOLEAN

VARIABLES history,    \* the editions
          published,  \* the one that is up
          loaded,     \* window.onload has run
          rows, active,
          timer,      \* refreshTimer is set
          requests,   \* for each: its state and the edition it carries
          updating,   \* #pkgs has the class `updating'
          applied,    \* the edition that the last update went through, 0 for none
          threw       \* update died on the way, and left `updating' behind

statusVars == <<history, published, loaded, rows, active, timer, requests, updating, applied, threw>>

\* What an edition says of a package: a record of sync (there is a sync element), its
\* frequency, started (a sync is running), failed, status and updated (with a date).
Entry(k, p) == history[k][p]
Absent(k, p) == Entry(k, p) = Nothing

\* The fields are written if the status differs from `original'; a missing one differs from
\* no text in XPath.
HasFields(p) == Entry(1, p).status \notin {"original", Nothing}

Looks(mark, sync, status) == [mark |-> mark, sync |-> sync, status |-> status]

FirstRow(e) == [frame |-> Looks("none", FALSE, e.status), link |-> Looks("none", FALSE, e.status),
                frequency |-> e.frequency, syncing |-> FALSE, failures |-> FALSE,
                status |-> e.status, age |-> Nothing]

Idle == [state |-> "idle", edition |-> 0]
InFlight(r) == requests[r].state # "idle"

\* formfor: the forms of a page that is not loaded are not there yet.
Form(p) == loaded /\ p \in Listed

StatusInit == /\ history \in Histories
              /\ published = 1
              /\ loaded = FALSE
              /\ rows = [p \in Listed |-> FirstRow(Entry(1, p))]
              /\ active = Nothing
              /\ timer = FALSE
              /\ requests = [r \in Requests |-> Idle]
              /\ updating = FALSE
              /\ applied = 0
              /\ threw = FALSE

---------------------------------------------------------------------------
(* Rows *)

Marked(row, from, to) ==
  LET Swap(looks) == IF looks.mark = from THEN [looks EXCEPT !.mark = to] ELSE looks
  IN [row EXCEPT !.frame = Swap(@), !.link = Swap(@)]

\* toggle: the open row is closed; the other one is opened, unless it was the one.
Toggled(table, p) ==
  [q \in Listed |-> IF q = active THEN Marked(table[q], "active", "inactive")
                    ELSE IF q = p THEN Marked(table[q], "inactive", "active")
                    ELSE table[q]]

\* `var frequency' is one variable for all rounds of the loop: a package without a sync
\* element does not assign it and finds what the one before it has left there.
Frequency(e, frequency) == IF e.sync THEN e.frequency ELSE frequency

\* Mutant: the class names forget which row is open.
RowLooksClosed(e, p) == Looks("inactive", e.sync /\ e.started, e.status)

RowLooks(e, p) ==
  Looks(IF active = p THEN "active" ELSE "inactive", e.sync /\ e.started, e.status)

Dated(e) == e.status # Nothing /\ e.updated

\* A row whose fields are missing takes its class names only.
Row(row, e, p, frequency) ==
  LET looks == [row EXCEPT !.frame = RowLooks(e, p), !.link = RowLooks(e, p)]
      synced == IF e.sync
                THEN [looks EXCEPT !.frequency = e.frequency, !.syncing = e.started,
                                   !.failures = e.failed]
                ELSE looks
  IN IF HasFields(p)
     THEN [synced EXCEPT !.status = e.status,
                         !.age = IF Dated(e) THEN frequency ELSE Nothing]
     ELSE looks

\* Mutant: the frequency is read before the row is looked for.
UpdateRowUnlisted(k, s, p) ==
  IF s.threw \/ Absent(k, p) THEN s
  ELSE LET e == Entry(k, p)
           frequency == Frequency(e, s.frequency)
       IN CASE ~Form(p) -> [s EXCEPT !.frequency = frequency]
            [] Form(p) /\ e.sync /\ ~HasFields(p) -> [s EXCEPT !.threw = TRUE]
            [] OTHER -> [s EXCEPT !.frequency = frequency, !.rows[p] = Row(@, e, p, frequency)]

\* One round of the loop.  The sync element of a row without sync fields throws.
UpdateRow(k, s, p) ==
  IF s.threw \/ ~Form(p) \/ Absent(k, p) THEN s
  ELSE LET e == Entry(k, p)
           frequency == Frequency(e, s.frequency)
       IN IF e.sync /\ ~HasFields(p) THEN [s EXCEPT !.threw = TRUE]
          ELSE [s EXCEPT !.frequency = frequency, !.rows[p] = Row(@, e, p, frequency)]

Update(k) ==
  LET loop[i \in 0..Len(DocOrder)] ==
        IF i = 0 THEN [rows |-> rows, frequency |-> Nothing, threw |-> FALSE]
        ELSE UpdateRow(k, loop[i - 1], DocOrder[i])
  IN loop[Len(DocOrder)]

---------------------------------------------------------------------------
(* Actions *)

\* The server puts up a later edition.
Publish == /\ published < Len(history)
           /\ published' = published + 1
           /\ UNCHANGED <<history, loaded, rows, active, timer, requests, updating, applied, threw>>

\* open() and send(): the first changes the state of the request, and so calls update.
Send(r) == /\ requests[r] = Idle
           /\ requests' = [requests EXCEPT ![r].state = "sent"]
           /\ updating' = TRUE

\* load: init, toggle of the package in the location, refresh.
Load(p) == /\ ~loaded
           /\ loaded' = TRUE
           /\ active' = p
           /\ rows' = LET fresh == [q \in Listed |-> [rows[q] EXCEPT !.frame.mark = "inactive"]]
                      IN IF p = Nothing THEN fresh ELSE Toggled(fresh, p)
           /\ \E r \in Requests : Send(r)
           /\ UNCHANGED <<history, published, timer, applied, threw>>

Toggle(p) == /\ Form(p)
             /\ rows' = Toggled(rows, p)
             /\ active' = IF active = p THEN Nothing ELSE p
             /\ UNCHANGED <<history, published, loaded, timer, requests, updating, applied, threw>>

\* refreshRegularly: the timer of before is cleared.
RefreshRegularly(on) ==
  /\ timer' = on
  /\ UNCHANGED <<history, published, loaded, rows, active, requests, updating, applied, threw>>

\* The button, which is there before onload has run.
Refresh(r) == /\ Send(r)
              /\ UNCHANGED <<history, published, loaded, rows, active, timer, applied, threw>>

TimerFires == timer /\ \E r \in Requests : Refresh(r)

\* Mutant: the browser answers from its cache.
ProgressCached(r) ==
  /\ requests[r].state = "sent"
  /\ requests' = [requests EXCEPT ![r] = [state |-> "receiving",
                                         edition |-> IF applied = 0 THEN published ELSE applied]]
  /\ updating' = TRUE
  /\ UNCHANGED <<history, published, loaded, rows, active, timer, applied, threw>>

\* The server reads the document and the answer begins to arrive (readyState 2 and 3).
Progress(r) == /\ requests[r].state = "sent"
               /\ requests' = [requests EXCEPT ![r] = [state |-> "receiving", edition |-> published]]
               /\ updating' = TRUE
               /\ UNCHANGED <<history, published, loaded, rows, active, timer, applied, threw>>

\* readyState 4 with status 200.
Complete(r) ==
  LET k == requests[r].edition
      end == Update(k)
  IN /\ requests[r].state = "receiving"
     /\ requests' = [requests EXCEPT ![r] = Idle]
     /\ rows' = end.rows
     /\ threw' = end.threw
     /\ updating' = end.threw
     /\ applied' = IF end.threw THEN 0 ELSE IF loaded THEN k ELSE applied
     /\ UNCHANGED <<history, published, loaded, active, timer>>

\* readyState 4 with any other status, 0 for a connection that is lost.
\* Mutant: only a status of 200 ends the updating.
FailStillUpdating(r) == /\ InFlight(r)
                        /\ requests' = [requests EXCEPT ![r] = Idle]
                        /\ updating' = TRUE /\ UNCHANGED threw
                        /\ UNCHANGED <<history, published, loaded, rows, active, timer, applied>>

Fail(r) == /\ InFlight(r)
           /\ requests' = [requests EXCEPT ![r] = Idle]
           /\ updating' = FALSE /\ threw' = FALSE
           /\ UNCHANGED <<history, published, loaded, rows, active, timer, applied>>

StatusNext ==
  \/ Publish
  \/ \E p \in Listed \cup {Nothing} : Load(p)
  \/ \E p \in Listed : Toggle(p)
  \/ \E on \in BOOLEAN : RefreshRegularly(on)
  \/ TimerFires
  \/ \E r \in Requests : Refresh(r) \/ Progress(r) \/ Complete(r) \/ Fail(r)

---------------------------------------------------------------------------
(* Properties *)

StatusTypeOK ==
  /\ published \in 1..Len(history)
  /\ applied \in 0..published
  /\ active \in Listed \cup {Nothing}
  /\ {loaded, timer, updating, threw} \subseteq BOOLEAN
  /\ \A r \in Requests : /\ requests[r].state \in {"idle", "sent", "receiving"}
                         /\ requests[r].edition \in 0..published

\* Through every order of clicks, answers and refreshes one row at most is open, the one
\* `active' names, and its link agrees as soon as an update has given it a mark.
OpenRow ==
  \A p \in Listed : /\ rows[p].frame.mark = "active" <=> active = p
                    /\ rows[p].link.mark \in {"none", rows[p].frame.mark}

\* The last package up to the i-th of the document that has a row and a sync element
\* has this frequency; Nothing if there is no such package, or it has none.
Assigns(k, p) == p \in Listed /\ ~Absent(k, p) /\ Entry(k, p).sync
LastFrequency(k, i, frequency) ==
  \/ /\ frequency = Nothing
     /\ \A j \in 1..i : ~Assigns(k, DocOrder[j])
  \/ \E j \in 1..i : /\ Assigns(k, DocOrder[j])
                     /\ frequency = Entry(k, DocOrder[j]).frequency
                     /\ \A m \in (j + 1)..i : ~Assigns(k, DocOrder[m])

\* After an update that went through, each row shows what the edition says of its package,
\* save for the age of a package without a sync element: that is shown against the
\* frequency of the nearest package before it that has a row and a sync element.
AgeAgainst(k, i, age) ==
  IF Dated(Entry(k, DocOrder[i])) THEN LastFrequency(k, i, age) ELSE age = Nothing
RowsShowAnswer ==
  applied # 0 =>
    \A p \in Listed :
      ~Absent(applied, p) =>
        LET e == Entry(applied, p)
            row == rows[p]
        IN /\ row.frame.status = e.status /\ row.link = row.frame
           /\ e.sync => /\ row.frame.sync = row.syncing /\ row.syncing = e.started
                        /\ row.failures = e.failed /\ row.frequency = e.frequency
           /\ HasFields(p) =>
                \E i \in DOMAIN DocOrder : DocOrder[i] = p /\ AgeAgainst(applied, i, row.age)

\* The page says it is updating only while a request is under way, unless an update threw.
UpdatingEnds == updating => threw \/ \E r \in Requests : InFlight(r)

\* A page that refreshes regularly always comes to show the edition that is up, late
\* answers of earlier requests notwithstanding, unless its updates throw.
ShowsPublished == applied = published \/ threw \/ ~timer
=============================================================================
