------------------------------- MODULE Pages -------------------------------
(***************************************************************************)
(* A visitor with one of the two pages open: the status page or the        *)
(* contents of the front page.  They share nothing.                        *)
(***************************************************************************)
EXTENDS StatusPage, ContentsPage

VARIABLE screen

vars == <<screen, statusVars, contentsVars>>

Init == /\ screen \in {"status", "contents"}
        /\ StatusInit
        /\ ContentsInit
        /\ screen = "status" => files = CHOOSE f \in Contents : TRUE
        /\ screen = "contents" => history = CHOOSE h \in Histories : TRUE

Next == \/ screen = "status" /\ StatusNext /\ UNCHANGED <<screen, contentsVars>>
        \/ screen = "contents" /\ ContentsNext /\ UNCHANGED <<screen, statusVars>>

\* The browser loads the page and fires its timers, every request ends, and not all of
\* them fail for ever.
Fairness ==
  /\ SF_statusVars(screen = "status" /\ \E p \in Listed \cup {Nothing} : Load(p))
  /\ WF_statusVars(screen = "status" /\ TimerFires)
  /\ SF_statusVars(\E r \in Requests : Progress(r))
  /\ SF_statusVars(\E r \in Requests : Complete(r))
  /\ WF_contentsVars(screen = "contents" /\ Tick)
  /\ SF_contentsVars(\E g \in Gets : Serve(g))
  /\ SF_contentsVars(\E g \in Gets : Fill(g))
  /\ WF_contentsVars(\E g \in Gets : Lose(g))

Spec == Init /\ [][Next]_vars /\ Fairness

TypeOK == screen \in {"status", "contents"} /\ StatusTypeOK /\ ContentsTypeOK

\* A status page that refreshes regularly always comes to show the edition that is up,
\* late answers of earlier requests notwithstanding, unless its updates throw.
StatusCurrent == []<>(screen = "status" => ShowsPublished)

\* The front page comes to show the last edition of its file and stays with it, whatever
\* answers were torn, lost or late.
ContentsCurrent == <>[](screen = "contents" => ShowsWritten)
=============================================================================
