---------------------------- MODULE ContentsPage ----------------------------
(***************************************************************************)
(* The contents of the front page and js.js, which fills in the status of  *)
(* each package every minute: items that a click opens and a pointer loads *)
(* images into, while answers that overlap rewrite them; and the status    *)
(* file, which publish-status writes in place.                             *)
(*                                                                         *)
(* An edition of the file is the set of the packages it has.  What it says *)
(* of them is left out: an item shows the number of an edition.            *)
(***************************************************************************)
EXTENDS Naturals, Sequences

CONSTANTS Items,      \* the packages of the page
          Contents,   \* sequences of editions
          Gets,       \* requests that can be under way at once (bound)
          MaxBound,   \* handlers of mouseleave that are told apart (bound)
          NoItem

ASSUME ContentsAssumption == /\ NoItem \notin Items /\ MaxBound \in Nat \ {0}
                             /\ \A f \in Contents : Len(f) \in Nat \ {0}

VARIABLES files,      \* the editions
          written,    \* the last one that was begun
          torn,       \* it is being written, or its writer died
          gets,       \* for each request: its state and the edition it carries, 0 for none
          activeItem, \* what a click takes for the open item
          opened,     \* the items with the class `active'
          pointer,    \* the item it is in
          box,        \* the edition in each item's status box, 0 for none
          images,     \* the pairs of graphs in it
          imgLoaded,  \* the item's flag
          bound       \* the handlers of its mouseleave; mouseenter has one if any

fileVars == <<files, written, torn>>
boxVars == <<box, images, imgLoaded, bound>>
contentsVars == <<fileVars, gets, activeItem, opened, pointer, boxVars>>

IdleGet == [state |-> "idle", edition |-> 0]

ContentsInit == /\ files \in Contents
                /\ written = 1 /\ torn = FALSE
                /\ gets = [g \in Gets |-> IdleGet]
                /\ activeItem = NoItem /\ opened = {} /\ pointer = NoItem
                /\ box = [i \in Items |-> 0]
                /\ images = [i \in Items |-> 0]
                /\ imgLoaded = [i \in Items |-> FALSE]
                /\ bound = [i \in Items |-> 0]

---------------------------------------------------------------------------
(* publish-status: xsltproc writes into the file that is being served. *)

WriteBegins == /\ written < Len(files)
               /\ written' = written + 1
               /\ torn' = TRUE
               /\ UNCHANGED <<files, gets, activeItem, opened, pointer, boxVars>>

WriteEnds == /\ torn
             /\ torn' = FALSE
             /\ UNCHANGED <<files, written, gets, activeItem, opened, pointer, boxVars>>

---------------------------------------------------------------------------
(* The page *)

\* Mutant: once an item is filled, nobody asks again.
UpdateStatusOnce(g) == /\ gets[g] = IdleGet /\ \A i \in Items : box[i] = 0
                       /\ gets' = [gets EXCEPT ![g].state = "sent"]
                       /\ UNCHANGED <<fileVars, activeItem, opened, pointer, boxVars>>

\* updateStatus, at once and every minute: getJSON.
UpdateStatus(g) == /\ gets[g] = IdleGet
                   /\ gets' = [gets EXCEPT ![g].state = "sent"]
                   /\ UNCHANGED <<fileVars, activeItem, opened, pointer, boxVars>>

\* What the server sends is what the file has at that moment; a torn one does not parse.
Serve(g) == /\ gets[g].state = "sent"
            /\ gets' = [gets EXCEPT ![g] = [state |-> "served",
                                            edition |-> IF torn THEN 0 ELSE written]]
            /\ UNCHANGED <<fileVars, activeItem, opened, pointer, boxVars>>

\* getJSON calls nobody when there is no answer, or none that parses.
Lose(g) == /\ gets[g].state = "sent" \/ (gets[g].state = "served" /\ gets[g].edition = 0)
           /\ gets' = [gets EXCEPT ![g] = IdleGet]
           /\ UNCHANGED <<fileVars, activeItem, opened, pointer, boxVars>>

\* The items that are written anew.
Found(k) == Items \cap files[k]

\* Mutant: the flag of the images outlives the box they were in.
FlagsKept(k) == imgLoaded

FlagsReset(k) == [i \in Items |-> imgLoaded[i] /\ i \notin Found(k)]

\* removeClass() takes `active' away too, while activeItem stays.
Fill(g) ==
  LET k == gets[g].edition
  IN /\ gets[g].state = "served" /\ k # 0
     /\ gets' = [gets EXCEPT ![g] = IdleGet]
     /\ opened' = opened \ Found(k)
     /\ box' = [i \in Items |-> IF i \in Found(k) THEN k ELSE box[i]]
     /\ images' = [i \in Items |-> IF i \in Found(k) THEN 0 ELSE images[i]]
     /\ imgLoaded' = FlagsReset(k)
     /\ bound' = [i \in Items |-> IF i \in Found(k) /\ bound[i] < MaxBound
                                  THEN bound[i] + 1 ELSE bound[i]]
     /\ UNCHANGED <<fileVars, activeItem, pointer>>

\* Mutant: the two items swapped.
ClickSwapped(i) == /\ activeItem' = IF i = activeItem THEN NoItem ELSE i
                   /\ opened' = IF i = activeItem THEN opened \ {i}
                                ELSE (opened \cup {activeItem}) \ {i}
                   /\ UNCHANGED <<fileVars, gets, pointer, boxVars>>

Click(i) == /\ activeItem' = IF i = activeItem THEN NoItem ELSE i
            /\ opened' = IF i = activeItem THEN opened \ {i}
                         ELSE (opened \cup {i}) \ {activeItem}
            /\ UNCHANGED <<fileVars, gets, pointer, boxVars>>

\* What handlers of the item do to its box, one after the other.
Hover(i, handlers) == images[i] + (IF handlers > 0 /\ ~imgLoaded[i] THEN 1 ELSE 0)

\* The pointer leaves an item, all of whose handlers run, and enters another, which has one.
MovePointer(i) ==
  LET Handlers(j) == IF j = pointer THEN bound[j] ELSE IF j = i /\ bound[j] > 0 THEN 1 ELSE 0
  IN /\ i # pointer
     /\ pointer' = i
     /\ images' = [j \in Items |-> Hover(j, Handlers(j))]
     /\ imgLoaded' = [j \in Items |-> imgLoaded[j] \/ Handlers(j) > 0]
     /\ UNCHANGED <<fileVars, gets, activeItem, opened, box, bound>>

Tick == \E g \in Gets : UpdateStatus(g)

ContentsNext ==
  \/ WriteBegins \/ WriteEnds
  \/ Tick
  \/ \E g \in Gets : Serve(g) \/ Lose(g) \/ Fill(g)
  \/ \E i \in Items : Click(i)
  \/ \E i \in Items \cup {NoItem} : MovePointer(i)

---------------------------------------------------------------------------
(* Properties *)

ContentsTypeOK ==
  /\ written \in 1..Len(files)
  /\ torn \in BOOLEAN
  /\ gets \in [Gets -> [state : {"idle", "sent", "served"}, edition : 0..written]]
  /\ activeItem \in Items \cup {NoItem}
  /\ pointer \in Items \cup {NoItem}
  /\ opened \subseteq Items
  /\ box \in [Items -> 0..written]
  /\ images \in [Items -> Nat]
  /\ imgLoaded \in [Items -> BOOLEAN]
  /\ bound \in [Items -> 0..MaxBound]

\* One item at most is open and a click on it closes it, though updates take the class of
\* an open item away behind activeItem's back.
ItemOpen == opened \subseteq {activeItem}

\* However handlers pile up and boxes are emptied under the pointer, a box has its graphs
\* once, and has them when the flag says so.
ImagesOnce == \A i \in Items : images[i] = IF imgLoaded[i] THEN 1 ELSE 0

\* Every item shows the last edition that was written, if that was written to its end.
ShowsWritten == torn \/ \A i \in Found(written) : box[i] = written
=============================================================================
