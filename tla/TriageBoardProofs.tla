-------------------------- MODULE TriageBoardProofs --------------------------
(***************************************************************************)
(* Theorems about TriageBoard for any tickets, questions, teams and        *)
(* filters: the question in the editor is one of the workspace on display, *)
(* a saved result answers the saved question, and no answer moves the      *)
(* selection.                                                              *)
(***************************************************************************)
EXTENDS TriageBoard, TLAPS

Kinds == Moves \cup Patches \cup {"board", "workspace"}
Boards == UNION {[S -> Card] : S \in SUBSET Tickets}
Values == States \cup Teams \cup {Triage} \cup Queries \cup Statuses \cup {None}
Answers == Boards \cup Ticket \cup Queries \cup {None}

Calls ==
    [kind : Kinds, ticket : Tickets \cup {None},
     at : {"sent", "revised", "running", "done", "lost"},
     filter : Filters, unselected : BOOLEAN, current : BOOLEAN,
     workspace : Workspace \cup {None}, value : Values,
     team : Teams \cup {Triage, None},
     item : Items \cup {None}, then : Tickets \cup {None, "board"}, answer : Answers]

\* What a call of each kind asks for, and what it is answered with.
Typed(c) ==
    /\ c \in Calls
    /\ c.kind # "board" => c.ticket \in Tickets
    /\ c.kind = "board" => c.then \in Tickets \cup {None}
    /\ c.kind \in Patches => c.then = None
    /\ c.kind = "advance" => c.value \in States
    /\ c.kind \in {"advance", "escalate"} => c.team \in Teams \cup {Triage}
    /\ c.kind \in {"save", "execute"} => c.value \in Queries
    /\ c.kind = "toggle" => c.item \in Items /\ c.value \in Statuses
    /\ c.kind = "board" /\ c.at = "done" => c.answer \in Boards
    /\ c.kind \in {"workspace", "save"} /\ c.at = "done" => c.answer \in Ticket
    /\ c.kind = "execute" /\ c.at \in {"running", "done"} => c.answer \in Queries
    /\ c.kind = "promote" /\ c.at = "done" => c.answer \in Queries /\ c.value \in Statuses

\* A call and the page: s is the selection, w the workspace on display.  The
\* current load of a workspace finds none, and the current handlers were called
\* with the workspace on display.
Fits(c, s, w) ==
    /\ c.unselected = FALSE \/ c.kind = "workspace" => s # None
    /\ c.kind \notin {"board", "workspace"} \/ c.then # None => c.unselected = FALSE
    /\ c.kind = "board" /\ c.current /\ c.unselected => s = None
    /\ c.kind = "workspace" /\ c.current => w = None
    /\ c.kind \in Patches /\ c.current =>
         w \in Workspace /\ c.workspace \in Workspace /\ c.workspace.ticket = w.ticket

\* At most one load of a workspace is current.
OneLoad(cs) ==
    \A c, d \in cs :
        c.kind = "workspace" /\ c.current /\ d.kind = "workspace" /\ d.current => c = d

Good(cs, s, w) == (\A c \in cs : Typed(c) /\ Fits(c, s, w)) /\ OneLoad(cs)

\* A card or a workspace on display means that a ticket is selected; a workspace
\* comes with a question in the editor.
Displayed ==
    /\ board # None => board \in [filter : Filters, cards : Boards]
    /\ Cards # {} \/ workspace # None => selected # None
    /\ workspace # None => edited \in Queries

IInv ==
    /\ TypeOK
    /\ Good(calls, selected, workspace)
    /\ Displayed
    /\ ToolOfWorkspace
-----------------------------------------------------------------------------
(* Sets of calls.                                                          *)

Outdated(c) == [c EXCEPT !.current = FALSE, !.workspace = None]

LEMMA OutdatedFits ==
    ASSUME NEW c, Typed(c), NEW s, NEW w, Fits(c, s, w),
           NEW t, NEW v, s # None => t # None
    PROVE  /\ Typed(Outdated(c)) /\ Fits(Outdated(c), t, v)
           /\ Outdated(c).current = FALSE /\ Outdated(c).kind = c.kind
<1>1. c \in Calls
    BY DEF Typed
<1>2. /\ Outdated(c) \in Calls
      /\ Outdated(c).current = FALSE
      /\ \A f \in {"kind", "ticket", "at", "filter", "unselected", "value", "team", "item", "then", "answer"} :
            Outdated(c)[f] = c[f]
    BY <1>1 DEF Calls, Outdated
<1>3. /\ Outdated(c).kind = c.kind /\ Outdated(c).ticket = c.ticket /\ Outdated(c).at = c.at
      /\ Outdated(c).unselected = c.unselected /\ Outdated(c).value = c.value
      /\ Outdated(c).team = c.team /\ Outdated(c).item = c.item /\ Outdated(c).then = c.then /\ Outdated(c).answer = c.answer
    BY <1>2
<1>4. Typed(Outdated(c))
    BY <1>2, <1>3 DEF Typed
<1>5. Fits(Outdated(c), t, v)
    BY <1>2, <1>3 DEF Fits
<1> QED
    BY <1>2, <1>3, <1>4, <1>5

LEMMA Fewer ==
    ASSUME NEW cs, NEW s, NEW w, Good(cs, s, w), NEW ds, ds \subseteq cs
    PROVE  Good(ds, s, w)
BY DEF Good, OneLoad

LEMMA OneMore ==
    ASSUME NEW cs, NEW s, NEW w, Good(cs, s, w),
           NEW d, Typed(d), Fits(d, s, w), d.kind # "workspace"
    PROVE  Good(cs \cup {d}, s, w)
BY DEF Good, OneLoad

LEMMA Replaced ==
    ASSUME NEW cs, NEW s, NEW w, Good(cs, s, w), NEW c \in cs,
           NEW d, Typed(d), Fits(d, s, w), d.kind = c.kind, d.current = c.current
    PROVE  Good((cs \ {c}) \cup {d}, s, w)
BY DEF Good, OneLoad

\* A later load outdates the loads of its kind, and a workspace the handlers, too.
LEMMA LaterCalls ==
    ASSUME NEW cs, NEW kind, NEW d \in Later(cs, kind)
    PROVE  \E c \in cs :
             \/ d = Outdated(c)
             \/ d = c /\ c.kind # kind /\ (kind = "workspace" => c.kind \notin Patches)
BY DEF Later, Outdated

LEMMA LaterGood ==
    ASSUME NEW cs, NEW s, NEW w, Good(cs, s, w), NEW t, NEW v, NEW kind \in {"board", "workspace"},
           s # None => t # None,
           IF kind = "board" THEN v = w ELSE v = None /\ t = s
    PROVE  /\ Good(Later(cs, kind), t, v)
           /\ \A d \in Later(cs, kind) : ~(d.kind = kind /\ d.current)
<1>1. ASSUME NEW d \in Later(cs, kind)
      PROVE  /\ Typed(d) /\ Fits(d, t, v) /\ ~(d.kind = kind /\ d.current)
             /\ d.current => d \in cs
    <2>1. PICK c \in cs : \/ d = Outdated(c)
                          \/ d = c /\ c.kind # kind /\ (kind = "workspace" => c.kind \notin Patches)
        BY LaterCalls
    <2>2. Typed(c) /\ Fits(c, s, w)
        BY DEF Good
    <2>3. CASE d = Outdated(c)
        <3>1. /\ Typed(Outdated(c)) /\ Fits(Outdated(c), t, v)
              /\ Outdated(c).current = FALSE
            BY <2>2, OutdatedFits
        <3> QED
            BY <2>3, <3>1
    <2>4. CASE d = c /\ c.kind # kind /\ (kind = "workspace" => c.kind \notin Patches)
        BY <2>2, <2>4 DEF Fits
    <2> QED
        BY <2>1, <2>3, <2>4
<1> QED
    BY <1>1 DEF Good, OneLoad

LEMMA NewCall ==
    ASSUME TypeOK, NEW kind \in Kinds, NEW t \in Tickets \cup {None}
    PROVE  Call(kind, t) \in Calls
<1>1. None \in Values /\ None \in Answers
    BY DEF Values, Answers
<1> QED
    BY <1>1 DEF TypeOK, Call, Calls

LEMMA LoadBoardGood ==
    ASSUME TypeOK, NEW cs, NEW s, NEW w, Good(cs, s, w), NEW t, s # None => t # None,
           NEW f \in Filters, NEW u \in BOOLEAN, NEW n \in Tickets \cup {None},
           u <=> t = None, n # None => t # None
    PROVE  Good(LoadBoard(cs, f, u, n), t, w)
<1> DEFINE old == Call("board", None)
           d == [old EXCEPT !.filter = f, !.unselected = u, !.then = n]
<1>1. old \in Calls /\ old.kind = "board" /\ old.at = "sent"
    BY NewCall DEF Kinds, Call
<1>2. /\ d \in Calls /\ d.kind = "board" /\ d.at = "sent" /\ d.then = n /\ d.unselected = u
    BY <1>1 DEF Calls
<1>3. Typed(d) /\ Fits(d, t, w)
    BY <1>2 DEF Typed, Fits, Patches
<1>4. Good(Later(cs, "board"), t, w)
    BY LaterGood
<1> QED
    BY <1>2, <1>3, <1>4, OneMore DEF LoadBoard

LEMMA LoadWorkspaceGood ==
    ASSUME TypeOK, NEW cs, NEW s, NEW w, Good(cs, s, w), s # None, NEW t \in Tickets
    PROVE  Good(LoadWorkspace(cs, t), s, None)
<1> DEFINE d == Call("workspace", t)
<1>1. d \in Calls /\ d.kind = "workspace" /\ d.at = "sent" /\ d.then = None /\ d.ticket = t
    BY NewCall DEF Kinds, Call
<1>2. Typed(d) /\ Fits(d, s, None)
    BY <1>1 DEF Typed, Fits, Patches
<1>3. /\ Good(Later(cs, "workspace"), s, None)
      /\ \A e \in Later(cs, "workspace") : ~(e.kind = "workspace" /\ e.current)
    BY LaterGood
<1> QED
    BY <1>1, <1>2, <1>3 DEF LoadWorkspace, Good, OneLoad

LEMMA SelectingGood ==
    ASSUME TypeOK, NEW cs, NEW s, NEW w, Good(cs, s, w), NEW t \in Tickets
    PROVE  Good(Selecting(cs, t), t, None)
<1>1. filter \in Filters /\ t # None
    BY NoneAssumption DEF TypeOK
<1>2. Good(LoadBoard(cs, filter, FALSE, None), t, w)
    BY <1>1, LoadBoardGood
<1> QED
    BY <1>1, <1>2, LoadWorkspaceGood DEF Selecting
-----------------------------------------------------------------------------
\* The initial state.
LEMMA InitIInv == Init => IInv
<1> SUFFICES ASSUME Init PROVE IInv
    OBVIOUS
<1>1. Imported \in Ticket
    <2>1. [i \in Items |-> IF i = Finding THEN "proposed" ELSE "absent"] \in [Items -> Statuses]
        BY DEF Statuses
    <2>2. First.query \in Queries
        BY FirstAssumption
    <2> QED
        BY <2>1, <2>2 DEF Imported, Ticket, States
<1>2. filter \in Filters
    BY FirstAssumption DEF Init
<1>3. TypeOK
    <2>1. saved \in [Tickets -> Ticket]
        BY <1>1 DEF Init
    <2>2. others \in 0 .. MaxOthers /\ acts \in 0 .. MaxActs
        BY BoundsAssumption DEF Init
    <2> QED
        BY <1>2, <2>1, <2>2 DEF Init, TypeOK
<1>4. Good({}, None, None)
    BY DEF Good, OneLoad
<1>5. Good(calls, selected, workspace)
    BY <1>2, <1>3, <1>4, LoadBoardGood DEF Init
<1>6. Displayed /\ ToolOfWorkspace
    BY DEF Init, Displayed, ToolOfWorkspace, Cards
<1> QED
    BY <1>3, <1>5, <1>6 DEF IInv
-----------------------------------------------------------------------------
(* The server.                                                             *)

\* The call d is c at another place, or with an answer.
Continues(c, d) ==
    /\ d \in Calls
    /\ d.kind = c.kind /\ d.ticket = c.ticket /\ d.unselected = c.unselected
    /\ d.current = c.current /\ d.workspace = c.workspace /\ d.team = c.team
    /\ d.item = c.item /\ d.then = c.then

LEMMA ContinuedFits ==
    ASSUME NEW c, NEW d, Continues(c, d), NEW s, NEW w, Fits(c, s, w)
    PROVE  Fits(d, s, w)
BY DEF Continues, Fits

LEMMA TicketChanges ==
    ASSUME NEW s \in Ticket
    PROVE  /\ \A x \in States : [s EXCEPT !.state = x] \in Ticket
           /\ \A x \in States, o \in BOOLEAN : [s EXCEPT !.state = x, !.owned = o] \in Ticket
           /\ \A x \in States, y \in Teams \cup {Triage} : [s EXCEPT !.state = x, !.team = y] \in Ticket
           /\ [s EXCEPT !.approved = TRUE] \in Ticket
           /\ \A q \in Queries : Revised(s, q) \in Ticket
           /\ \A q \in Queries : [s EXCEPT !.result = q] \in Ticket
           /\ \A i \in Items, x \in Statuses : [s EXCEPT !.marks[i] = x] \in Ticket
           /\ s.state \in States /\ s.query \in Queries /\ s.result \in Queries \cup {None}
           /\ s.marks \in [Items -> Statuses]
BY DEF Ticket, Revised

LEMMA MoveTyped ==
    ASSUME TypeOK, NEW c, Typed(c), Move(c)
    PROVE  saved' \in [Tickets -> Ticket]
<1>1. c.ticket \in Tickets /\ saved[c.ticket] \in Ticket
    BY DEF Typed, Move, Moves, TypeOK
<1>2. Moved(c) \in Ticket
    BY <1>1, TicketChanges DEF Move, Moves, Moved, Typed, States
<1> QED
    BY <1>1, <1>2 DEF Move, TypeOK

\* Every step of the server goes on with one call and keeps the types.
LEMMA ServerTyped ==
    ASSUME TypeOK, NEW c \in calls, Typed(c), Server(c)
    PROVE  /\ saved' \in [Tickets -> Ticket]
           /\ \E d : calls' = Rest(c) \cup {d} /\ Typed(d) /\ Continues(c, d)
<1> USE DEF Rest
<1>1. c \in Calls /\ saved \in [Tickets -> Ticket]
    BY DEF Typed, TypeOK
<1>2. None \in Answers /\ Boards \subseteq Answers /\ Ticket \subseteq Answers /\ Queries \subseteq Answers
    BY DEF Answers
<1>3. ASSUME c.kind # "board"
      PROVE  c.ticket \in Tickets /\ saved[c.ticket] \in Ticket
    BY <1>1, <1>3 DEF Typed
<1>4. CASE ReadBoard(c)
    <2> DEFINE a == [t \in {t \in Tickets : saved[t].state \in c.filter} |->
                       [state |-> saved[t].state, team |-> saved[t].team, owned |-> saved[t].owned]]
               d == [c EXCEPT !.at = "done", !.answer = a]
    <2>1. \A t \in Tickets : [state |-> saved[t].state, team |-> saved[t].team, owned |-> saved[t].owned] \in Card
        BY <1>1 DEF Ticket, Card
    <2>2. a \in Boards
        <3> DEFINE S == {t \in Tickets : saved[t].state \in c.filter}
        <3>1. a \in [S -> Card] /\ S \in SUBSET Tickets
            BY <2>1
        <3> QED
            BY <3>1 DEF Boards
    <2>3. Continues(c, d) /\ d.at = "done" /\ d.answer = a /\ d.value = c.value
        BY <1>1, <1>2, <2>2 DEF Continues, Calls
    <2>4. Typed(d)
        BY <1>4, <2>2, <2>3 DEF ReadBoard, Typed, Continues, Patches
    <2> QED
        BY <1>1, <1>4, <2>3, <2>4 DEF ReadBoard, Serve
<1>5. CASE ReadWorkspace(c)
    <2> DEFINE d == [c EXCEPT !.at = "done", !.answer = saved[c.ticket]]
    <2>1. saved[c.ticket] \in Ticket
        BY <1>3, <1>5 DEF ReadWorkspace
    <2>2. Continues(c, d) /\ d.at = "done" /\ d.answer = saved[c.ticket] /\ d.value = c.value
        BY <1>1, <1>2, <2>1 DEF Continues, Calls
    <2>3. Typed(d)
        BY <1>5, <2>1, <2>2 DEF ReadWorkspace, Typed, Continues, Patches
    <2> QED
        BY <1>1, <1>5, <2>2, <2>3 DEF ReadWorkspace, Serve
<1>6. CASE Move(c)
    <2> DEFINE d == [c EXCEPT !.at = "done", !.answer = None]
    <2>1. Continues(c, d) /\ d.at = "done" /\ d.answer = None /\ d.value = c.value
        BY <1>1, <1>2 DEF Continues, Calls
    <2>2. Typed(d)
        BY <1>6, <2>1 DEF Move, Moves, Typed, Continues, Patches
    <2> QED
        BY <1>6, <2>1, <2>2, MoveTyped DEF Move, Serve
<1>7. CASE ReviseQuery(c)
    <2>1. /\ c.kind \in {"save", "execute"} /\ c.ticket \in Tickets /\ c.value \in Queries
        BY <1>7 DEF ReviseQuery, Typed
    <2>2. /\ Revised(saved[c.ticket], c.value) \in Ticket
          /\ saved' \in [Tickets -> Ticket] /\ saved'[c.ticket] \in Ticket
        BY <1>1, <1>7, <2>1, TicketChanges DEF ReviseQuery
    <2>3. CASE c.kind = "save"
        <3> DEFINE d == [c EXCEPT !.at = "done", !.answer = saved'[c.ticket]]
        <3>1. Continues(c, d) /\ d.at = "done" /\ d.answer = saved'[c.ticket] /\ d.value = c.value
            BY <1>1, <1>2, <2>2 DEF Continues, Calls
        <3>2. Typed(d)
            BY <2>1, <2>2, <2>3, <3>1 DEF Typed, Continues, Patches
        <3> QED
            BY <1>7, <2>2, <2>3, <3>1, <3>2 DEF ReviseQuery, Serve
    <2>4. CASE c.kind = "execute"
        <3> DEFINE d == [c EXCEPT !.at = "revised"]
        <3>1. Continues(c, d) /\ d.at = "revised" /\ d.value = c.value
            BY <1>1 DEF Calls, Continues
        <3>2. Typed(d)
            BY <2>1, <2>4, <3>1 DEF Typed, Continues, Patches
        <3> QED
            BY <1>7, <2>2, <2>4, <3>1, <3>2 DEF ReviseQuery
    <2> QED
        BY <2>1, <2>3, <2>4
<1>8. CASE StartQuery(c)
    <2> DEFINE d == [c EXCEPT !.at = "running", !.answer = saved[c.ticket].query]
    <2>1. saved[c.ticket].query \in Queries
        BY <1>3, <1>8, TicketChanges DEF StartQuery
    <2>2. Continues(c, d) /\ d.at = "running" /\ d.answer = saved[c.ticket].query /\ d.value = c.value
        BY <1>1, <1>2, <2>1 DEF Continues, Calls
    <2>3. Typed(d)
        BY <1>8, <2>1, <2>2 DEF StartQuery, Typed, Continues, Patches
    <2> QED
        BY <1>1, <1>8, <2>2, <2>3 DEF StartQuery, server
<1>9. CASE RecordResult(c)
    <2> DEFINE d == [c EXCEPT !.at = "done", !.answer = c.answer]
    <2>1. c.answer \in Queries
        BY <1>9 DEF RecordResult, Typed
    <2>2. Continues(c, d) /\ d.at = "done" /\ d.answer = c.answer /\ d.value = c.value
        BY <1>1, <1>2, <2>1 DEF Continues, Calls
    <2>3. Typed(d)
        BY <1>9, <2>1, <2>2 DEF RecordResult, Typed, Continues, Patches
    <2>4. saved' = [saved EXCEPT ![c.ticket] = [saved[c.ticket] EXCEPT !.result = c.answer]]
        BY <1>9 DEF RecordResult
    <2>5. saved' \in [Tickets -> Ticket]
        BY <1>1, <1>3, <1>9, <2>1, <2>4, TicketChanges DEF RecordResult
    <2> QED
        BY <1>9, <2>2, <2>3, <2>5 DEF RecordResult, Serve
<1>10. CASE Promote(c)
    <2> DEFINE run == saved[c.ticket].result
               d == [c EXCEPT !.at = "done", !.answer = run, !.value = saved'[c.ticket].marks[run]]
    <2>1. c.ticket \in Tickets /\ saved[c.ticket] \in Ticket /\ run \in Queries
        BY <1>3, <1>10, TicketChanges DEF Promote
    <2>2. [saved[c.ticket] EXCEPT !.marks[run] = "accepted"] \in Ticket
        BY <2>1, TicketChanges DEF Items, Statuses
    <2>3. saved' \in [Tickets -> Ticket]
        BY <1>1, <1>10, <2>1, <2>2 DEF Promote
    <2>4. saved'[c.ticket].marks[run] \in Statuses
        BY <2>1, <2>3, TicketChanges DEF Items
    <2>5. Continues(c, d) /\ d.at = "done" /\ d.answer = run /\ d.value = saved'[c.ticket].marks[run]
        BY <1>1, <1>2, <2>1, <2>4 DEF Continues, Calls, Values
    <2>6. Typed(d)
        BY <1>10, <2>1, <2>4, <2>5 DEF Promote, Typed, Continues, Patches
    <2> QED
        BY <1>10, <2>3, <2>5, <2>6 DEF Promote
<1>11. CASE Mark(c)
    <2> DEFINE d == [c EXCEPT !.at = "done", !.answer = None]
    <2>1. Continues(c, d) /\ d.at = "done" /\ d.answer = None /\ d.value = c.value
        BY <1>1, <1>2 DEF Continues, Calls
    <2>2. Typed(d)
        BY <1>11, <2>1 DEF Mark, Typed, Continues, Patches
    <2>3. saved' = [saved EXCEPT ![c.ticket] = [saved[c.ticket] EXCEPT !.marks[c.item] = c.value]]
        BY <1>11 DEF Mark
    <2>4. c.kind = "toggle" /\ c.item \in Items /\ c.value \in Statuses
        BY <1>11 DEF Mark, Typed
    <2>5. [saved[c.ticket] EXCEPT !.marks[c.item] = c.value] \in Ticket
        BY <1>3, <2>4, TicketChanges
    <2>6. saved' \in [Tickets -> Ticket]
        BY <1>1, <1>3, <2>3, <2>4, <2>5
    <2> QED
        BY <1>11, <2>1, <2>2, <2>6 DEF Mark, Serve
<1>12. CASE Lose(c)
    <2> DEFINE d == [c EXCEPT !.at = "lost", !.answer = None]
    <2>1. Continues(c, d) /\ d.at = "lost" /\ d.answer = None /\ d.value = c.value
        BY <1>1, <1>2 DEF Continues, Calls
    <2>2. Typed(d)
        BY <2>1 DEF Typed, Continues
    <2> QED
        BY <1>1, <1>12, <2>1, <2>2 DEF Lose, server
<1> QED
    BY <1>4, <1>5, <1>6, <1>7, <1>8, <1>9, <1>10, <1>11, <1>12 DEF Server
-----------------------------------------------------------------------------
(* The analyst.                                                            *)

\* A new call of a handler.
Asks(d, kind, t) ==
    /\ d \in Calls /\ d.kind = kind /\ d.ticket = t /\ d.at = "sent"
    /\ d.unselected = FALSE /\ d.then = None
    /\ kind \in Patches => d.workspace = workspace

LEMMA AskCalls ==
    ASSUME TypeOK, selected # None, NEW kind \in Moves \cup Patches, NEW t \in Tickets
    PROVE  /\ Asks(Call(kind, t), kind, t)
           /\ \A v \in Values :
                LET d == [Call(kind, t) EXCEPT !.value = v] IN Asks(d, kind, t) /\ d.value = v
           /\ \A v \in Values, i \in Items :
                LET d == [[Call(kind, t) EXCEPT !.item = i] EXCEPT !.value = v]
                IN  Asks(d, kind, t) /\ d.value = v /\ d.item = i
           /\ \A v \in Values, x \in Teams \cup {Triage} :
                LET d == [[Call(kind, t) EXCEPT !.team = x] EXCEPT !.value = v]
                IN  Asks(d, kind, t) /\ d.value = v /\ d.team = x
<1>1. Call(kind, t) \in Calls
    BY NewCall DEF Kinds
<1>2. Asks(Call(kind, t), kind, t)
    BY <1>1 DEF Asks, Call
<1>3. ASSUME NEW v \in Values
      PROVE  LET d == [Call(kind, t) EXCEPT !.value = v] IN Asks(d, kind, t) /\ d.value = v
    BY <1>2 DEF Asks, Calls
<1>4. ASSUME NEW v \in Values, NEW i \in Items
      PROVE  LET d == [[Call(kind, t) EXCEPT !.item = i] EXCEPT !.value = v]
             IN  Asks(d, kind, t) /\ d.value = v /\ d.item = i
    BY <1>2 DEF Asks, Calls
<1>5. ASSUME NEW v \in Values, NEW x \in Teams \cup {Triage}
      PROVE  LET d == [[Call(kind, t) EXCEPT !.team = x] EXCEPT !.value = v]
             IN  Asks(d, kind, t) /\ d.value = v /\ d.team = x
    BY <1>2 DEF Asks, Calls
<1> QED
    BY <1>2, <1>3, <1>4, <1>5

LEMMA AskGood ==
    ASSUME IInv, selected # None, NEW kind \in Moves \cup Patches, NEW t \in Tickets,
           kind \in Patches => workspace \in Workspace,
           NEW d, Asks(d, kind, t),
           kind = "advance" => d.value \in States,
           kind \in {"advance", "escalate"} => d.team \in Teams \cup {Triage},
           kind \in {"save", "execute"} => d.value \in Queries,
           kind = "toggle" => d.item \in Items /\ d.value \in Statuses
    PROVE  Good(calls \cup {d}, selected, workspace)
<1>1. Typed(d)
    BY DEF Asks, Typed, Moves, Patches
<1>2. Fits(d, selected, workspace)
    BY DEF Asks, Fits, Moves, Patches
<1> QED
    BY <1>1, <1>2, OneMore DEF IInv, Asks, Moves, Patches

\* A handler that only asks: the page stays.
LEMMA AskStep ==
    ASSUME IInv, NEW d, Good(calls \cup {d}, selected, workspace), calls' = calls \cup {d},
           UNCHANGED <<server, filter, board, selected, shown>>, Act,
           dialog' \in BOOLEAN, executing' \in BOOLEAN, promoting' \in BOOLEAN,
           approving' \in Tickets \cup {None}
    PROVE  IInv'
<1> USE DEF server, shown
<1>1. TypeOK'
    BY BoundsAssumption DEF IInv, TypeOK, Act
<1>2. Displayed' /\ ToolOfWorkspace'
    BY DEF IInv, Displayed, Cards, ToolOfWorkspace
<1> QED
    BY <1>1, <1>2 DEF IInv

LEMMA CardsOnBoard ==
    ASSUME IInv, NEW t \in Cards
    PROVE  t \in Tickets /\ selected # None /\ board.cards[t] \in Card
<1>1. board # None /\ board \in [filter : Filters, cards : Boards]
    BY DEF Cards, IInv, Displayed
<1>2. PICK S \in SUBSET Tickets : board.cards \in [S -> Card]
    BY <1>1 DEF Boards
<1>3. t \in DOMAIN board.cards
    BY <1>1 DEF Cards
<1> QED
    BY <1>2, <1>3 DEF IInv, Displayed

LEMMA WorkspaceShown ==
    ASSUME IInv, workspace # None
    PROVE  /\ workspace \in Workspace /\ workspace.ticket \in Tickets /\ workspace.saved \in Ticket
           /\ selected # None /\ selected \in Tickets /\ tool = workspace.ticket
           /\ edited \in Queries
BY DEF IInv, TypeOK, Displayed, ToolOfWorkspace, Workspace

LEMMA SelectTicketStep ==
    ASSUME IInv, NEW t \in Tickets, SelectTicket(t)
    PROVE  IInv'
<1>1. t # None
    BY NoneAssumption
<1>2. TypeOK'
    BY BoundsAssumption DEF SelectTicket, Act, Cleared, IInv, TypeOK, server, flags
<1>3. Good(calls', selected', workspace')
    BY SelectingGood DEF SelectTicket, Cleared, IInv
<1>4. Displayed' /\ ToolOfWorkspace'
    BY <1>1 DEF SelectTicket, Cleared, IInv, Displayed, Cards, ToolOfWorkspace
<1> QED
    BY <1>2, <1>3, <1>4 DEF IInv

LEMMA AcknowledgeStep ==
    ASSUME IInv, NEW t \in Tickets, Acknowledge(t)
    PROVE  IInv'
<1> DEFINE d == Call("acknowledge", t)
<1>1. t # None
    BY NoneAssumption
<1>2. selected # None
    BY CardsOnBoard, WorkspaceShown DEF Acknowledge
<1>3. Asks(d, "acknowledge", t)
    BY <1>2, AskCalls DEF IInv, Moves
<1>4. TypeOK'
    BY BoundsAssumption DEF Acknowledge, Act, Cleared, IInv, TypeOK, server, flags, shown
<1>5. CASE calls' = calls \cup {d} /\ UNCHANGED <<selected, shown>>
    BY <1>2, <1>3, <1>5, AskGood, AskStep DEF Acknowledge, Moves, Patches, flags, IInv, TypeOK
<1>6. CASE selected' = t /\ calls' = Selecting(calls, t) \cup {d} /\ Cleared
    <2>1. Good(Selecting(calls, t), t, None)
        BY SelectingGood DEF IInv
    <2>2. Typed(d) /\ Fits(d, t, None) /\ d.kind # "workspace"
        BY <1>1, <1>3 DEF Asks, Typed, Fits, Patches
    <2>3. Good(calls', selected', workspace')
        BY <1>6, <2>1, <2>2, OneMore DEF Cleared
    <2>4. Displayed' /\ ToolOfWorkspace'
        BY <1>1, <1>6 DEF Acknowledge, Cleared, IInv, Displayed, Cards, ToolOfWorkspace
    <2> QED
        BY <1>4, <2>3, <2>4 DEF IInv
<1> QED
    BY <1>5, <1>6 DEF Acknowledge

LEMMA QuickAdvanceStep ==
    ASSUME IInv, NEW t \in Tickets, QuickAdvance(t)
    PROVE  IInv'
<1> DEFINE v == NextStage(board.cards[t])
           x == board.cards[t].team
           d == [[Call("advance", t) EXCEPT !.team = x] EXCEPT !.value = v]
<1>1. selected # None /\ board.cards[t] \in Card
    BY CardsOnBoard DEF QuickAdvance
<1>2. v \in States /\ v \in Values /\ x \in Teams \cup {Triage}
    BY <1>1 DEF QuickAdvance, NextStage, Card, States, Values
<1>3. Asks(d, "advance", t)
    BY <1>1, <1>2, AskCalls DEF IInv, Moves
<1>4. d.value = v /\ d.team = x
    BY NewCall DEF IInv, Calls, Kinds, Moves
<1>5. Good(calls \cup {d}, selected, workspace)
    BY <1>1, <1>2, <1>3, <1>4, AskGood DEF Moves, Patches
<1> QED
    BY <1>5, AskStep DEF QuickAdvance, Ask, flags, IInv, TypeOK

LEMMA DialogStep ==
    ASSUME IInv, OpenDialog \/ CloseDialog
    PROVE  IInv'
<1> USE DEF server, shown
<1>1. TypeOK'
    BY DEF OpenDialog, CloseDialog, IInv, TypeOK
<1>2. Displayed' /\ ToolOfWorkspace' /\ Good(calls', selected', workspace')
    BY DEF OpenDialog, CloseDialog, IInv, Displayed, Cards, ToolOfWorkspace
<1> QED
    BY <1>1, <1>2 DEF IInv

LEMMA EscalateSubmitStep ==
    ASSUME IInv, NEW team \in Teams, EscalateSubmit(team)
    PROVE  IInv'
<1> DEFINE d == [[Call("escalate", selected) EXCEPT !.team = team] EXCEPT !.value = None]
<1>1. selected # None /\ selected \in Tickets /\ team \in Teams \cup {Triage} /\ None \in Values
    BY DEF EscalateSubmit, IInv, TypeOK, Values
<1>2. Asks(d, "escalate", selected)
    BY <1>1, AskCalls DEF IInv, Moves
<1>3. d.team = team
    BY <1>1, NewCall DEF IInv, Calls, Kinds, Moves
<1>4. Good(calls \cup {d}, selected, workspace)
    BY <1>1, <1>2, <1>3, AskGood DEF Moves, Patches
<1> QED
    BY <1>4, AskStep DEF EscalateSubmit, Ask, flags, IInv, TypeOK

LEMMA ReturnToTriageStep ==
    ASSUME IInv, ReturnToTriage
    PROVE  IInv'
<1> DEFINE v == workspace.saved.team
           d == [Call("return", selected) EXCEPT !.value = v]
<1>1. selected # None /\ selected \in Tickets /\ workspace.saved \in Ticket
    BY WorkspaceShown DEF ReturnToTriage
<1>2. v \in Values
    BY <1>1 DEF Ticket, Values
<1>3. Asks(d, "return", selected)
    BY <1>1, <1>2, AskCalls DEF IInv, Moves
<1>4. Good(calls \cup {d}, selected, workspace)
    BY <1>1, <1>3, AskGood DEF Moves, Patches
<1> QED
    BY <1>4, AskStep DEF ReturnToTriage, Ask, flags, IInv, TypeOK

LEMMA ApproveStep ==
    ASSUME IInv, Approve
    PROVE  IInv'
<1> DEFINE t == workspace.ticket
           d == [Call("approve", t) EXCEPT !.value = None]
<1>1. selected # None /\ t \in Tickets /\ None \in Values
    BY WorkspaceShown DEF Approve, Values
<1>2. Asks(d, "approve", t)
    BY <1>1, AskCalls DEF IInv, Moves
<1>3. Good(calls \cup {d}, selected, workspace)
    BY <1>1, <1>2, AskGood DEF Moves, Patches
<1> QED
    BY <1>1, <1>3, AskStep DEF Approve, Ask, IInv, TypeOK

LEMMA EditQueryStep ==
    ASSUME IInv, NEW q \in Queries, EditQuery(q)
    PROVE  IInv'
<1>1. TypeOK'
    BY BoundsAssumption DEF EditQuery, Act, IInv, TypeOK, server, flags
<1>2. Displayed' /\ ToolOfWorkspace' /\ Good(calls', selected', workspace')
    BY DEF EditQuery, IInv, Displayed, Cards, ToolOfWorkspace
<1> QED
    BY <1>1, <1>2 DEF IInv

\* The handlers of the question work on the workspace on display.
LEMMA QueryStep ==
    ASSUME IInv, SaveQuery \/ ExecuteQuery
    PROVE  IInv'
<1> DEFINE d(kind) == [Call(kind, tool) EXCEPT !.value = edited]
<1>1. selected # None /\ workspace \in Workspace /\ tool \in Tickets
    BY WorkspaceShown DEF SaveQuery, ExecuteQuery
<1>2. edited \in Queries /\ edited \in Values
    BY WorkspaceShown DEF SaveQuery, ExecuteQuery, Values
<1>3. ASSUME NEW kind \in {"save", "execute"}
      PROVE  Good(calls \cup {d(kind)}, selected, workspace)
    <2>1. Asks(d(kind), kind, tool)
        BY <1>1, <1>2, AskCalls DEF IInv, Patches
    <2>2. d(kind).value = edited
        BY <1>1, NewCall DEF IInv, Calls, Kinds, Patches
    <2> QED
        BY <1>1, <1>2, <2>1, <2>2, AskGood DEF Patches
<1>4. CASE SaveQuery
    BY <1>3, <1>4, AskStep DEF SaveQuery, Ask, flags, IInv, TypeOK
<1>5. CASE ExecuteQuery
    BY <1>3, <1>5, AskStep DEF ExecuteQuery, Ask, IInv, TypeOK
<1> QED
    BY <1>4, <1>5

LEMMA PromoteEvidenceStep ==
    ASSUME IInv, PromoteEvidence
    PROVE  IInv'
<1> DEFINE d == [Call("promote", tool) EXCEPT !.value = None]
<1>1. selected # None /\ workspace \in Workspace /\ tool \in Tickets /\ None \in Values
    BY WorkspaceShown DEF PromoteEvidence, Values
<1>2. Asks(d, "promote", tool)
    BY <1>1, AskCalls DEF IInv, Patches
<1>3. Good(calls \cup {d}, selected, workspace)
    BY <1>1, <1>2, AskGood DEF Patches
<1> QED
    BY <1>3, AskStep DEF PromoteEvidence, Ask, IInv, TypeOK

LEMMA ToggleStep ==
    ASSUME IInv, NEW i \in Items, Toggle(i)
    PROVE  IInv'
<1> DEFINE t == workspace.ticket
           v == IF workspace.saved.marks[i] = "accepted" THEN "rejected" ELSE "accepted"
           d == [[Call("toggle", t) EXCEPT !.item = i] EXCEPT !.value = v]
<1>1. selected # None /\ workspace \in Workspace /\ t \in Tickets
    BY WorkspaceShown DEF Toggle
<1>2. v \in Statuses /\ v \in Values
    BY DEF Statuses, Values
<1>3. Asks(d, "toggle", t)
    BY <1>1, <1>2, AskCalls DEF IInv, Patches
<1>4. d.value = v /\ d.item = i
    BY <1>1, NewCall DEF IInv, Calls, Kinds, Patches
<1>5. Good(calls \cup {d}, selected, workspace)
    BY <1>1, <1>2, <1>3, <1>4, AskGood DEF Patches
<1> QED
    BY <1>5, AskStep DEF Toggle, Ask, flags, IInv, TypeOK

\* The queue is read again, with the same filter or another one.
LEMMA QueueStep ==
    ASSUME IInv, Refresh \/ \E f \in Filters : ChangeFilter(f)
    PROVE  IInv'
<1> USE DEF server, shown, flags
<1>1. TypeOK'
    BY BoundsAssumption DEF Refresh, ChangeFilter, Act, IInv, TypeOK
<1>2. \A f \in Filters : Good(LoadBoard(calls, f, selected = None, None), selected, workspace)
    BY LoadBoardGood DEF IInv
<1>3. Good(calls', selected', workspace')
    BY <1>2 DEF Refresh, ChangeFilter, IInv, TypeOK
<1>4. Displayed' /\ ToolOfWorkspace'
    BY DEF Refresh, ChangeFilter, IInv, Displayed, Cards, ToolOfWorkspace
<1> QED
    BY <1>1, <1>3, <1>4 DEF IInv

LEMMA OthersStep ==
    ASSUME IInv, Others
    PROVE  IInv'
<1>1. saved' \in [Tickets -> Ticket]
    <2>1. saved \in [Tickets -> Ticket]
        BY DEF IInv, TypeOK
    <2>2. ASSUME NEW t \in Tickets, NEW x \in States, OtherMoves(t, x)
          PROVE  saved' \in [Tickets -> Ticket]
        <3>1. saved' = [saved EXCEPT ![t] = [saved[t] EXCEPT !.state = x]]
            BY <2>2 DEF OtherMoves
        <3> QED
            BY <2>1, <3>1, TicketChanges
    <2>3. ASSUME NEW t \in Tickets, NEW q \in Queries, OtherRevises(t, q)
          PROVE  saved' \in [Tickets -> Ticket]
        <3>1. saved' = [saved EXCEPT ![t] = Revised(saved[t], q)]
            BY <2>3 DEF OtherRevises
        <3> QED
            BY <2>1, <3>1, TicketChanges
    <2> QED
        BY <2>2, <2>3 DEF Others
<1>2. TypeOK'
    BY <1>1, BoundsAssumption DEF Others, Other, OtherMoves, OtherRevises, IInv, TypeOK, shown, flags
<1>3. Displayed' /\ ToolOfWorkspace' /\ Good(calls', selected', workspace')
    BY DEF Others, Other, OtherMoves, OtherRevises, IInv, Displayed, Cards, ToolOfWorkspace, shown
<1> QED
    BY <1>2, <1>3 DEF IInv
-----------------------------------------------------------------------------
(* Answers.                                                                *)

LEMMA RestGood ==
    ASSUME IInv, NEW c \in calls
    PROVE  /\ Typed(c) /\ c \in Calls /\ Fits(c, selected, workspace)
           /\ Good(Rest(c), selected, workspace)
BY Fewer DEF IInv, Good, Rest, Typed

LEMMA BoardAnswerStep ==
    ASSUME IInv, NEW c \in calls, BoardAnswer(c)
    PROVE  IInv'
<1> DEFINE read == c.current /\ c.at = "done"
           first == {t \in Tickets : read /\ c.unselected /\ t \in DOMAIN c.answer}
<1>1. /\ Typed(c) /\ c \in Calls /\ Fits(c, selected, workspace)
      /\ Good(Rest(c), selected, workspace) /\ c.kind = "board" /\ c.then \in Tickets \cup {None}
    BY RestGood DEF BoardAnswer, Typed
<1>2. board' # None => board' \in [filter : Filters, cards : Boards]
    BY <1>1 DEF BoardAnswer, Typed, Calls, IInv, Displayed, TypeOK
<1>3. TypeOK'
    <2>1. board' # None => board'.filter \in Filters /\ board'.cards \in [DOMAIN board'.cards -> Card]
        BY <1>2 DEF Boards
    <2>2. /\ selected' \in Tickets \cup {None} /\ workspace' \in Workspace \cup {None}
          /\ tool' \in Tickets \cup {None} /\ edited' \in Queries \cup {None}
        BY DEF BoardAnswer, Cleared, shown, IInv, TypeOK
    <2> QED
        BY <2>1, <2>2 DEF BoardAnswer, server, flags, IInv, TypeOK
<1>4. ASSUME c.then # None
      PROVE  c.unselected = FALSE /\ selected # None
    BY <1>1, <1>4 DEF Fits
<1>5. CASE first = {}
    <2>1. selected' = selected
        BY <1>5 DEF BoardAnswer
    <2>2. ASSUME Cards' # {} PROVE selected # None
        <3>1. CASE read
            <4>1. PICK t : board'.cards = c.answer /\ t \in DOMAIN c.answer
                BY <2>2, <3>1 DEF BoardAnswer, Cards
            <4>2. t \in Tickets
                BY <1>2, <2>2, <4>1 DEF Boards, Cards
            <4>3. c.unselected = FALSE
                BY <1>1, <1>5, <3>1, <4>1, <4>2 DEF Calls
            <4> QED
                BY <1>1, <4>3 DEF Fits
        <3>2. CASE ~read
            BY <2>2, <3>2 DEF BoardAnswer, Cards, IInv, Displayed
        <3> QED
            BY <3>1, <3>2
    <2>3. CASE c.then = None
        <3>1. calls' = Rest(c) /\ UNCHANGED shown
            BY <1>5, <2>3 DEF BoardAnswer
        <3>2. Displayed' /\ ToolOfWorkspace'
            BY <1>2, <2>1, <2>2, <3>1 DEF shown, IInv, Displayed, ToolOfWorkspace
        <3> QED
            BY <1>1, <1>3, <2>1, <3>1, <3>2 DEF IInv, shown
    <2>4. CASE c.then # None
        <3>1. calls' = LoadWorkspace(Rest(c), c.then) /\ Cleared
            BY <1>5, <2>4 DEF BoardAnswer
        <3>2. Good(calls', selected', workspace')
            BY <1>1, <1>4, <2>1, <2>4, <3>1, LoadWorkspaceGood DEF Cleared, IInv
        <3>3. Displayed' /\ ToolOfWorkspace'
            BY <1>2, <2>1, <2>2, <3>1 DEF Cleared, Displayed, ToolOfWorkspace
        <3> QED
            BY <1>3, <3>2, <3>3 DEF IInv
    <2> QED
        BY <2>3, <2>4
<1>6. CASE first # {}
    <2>1. /\ selected = None /\ c.then = None
        BY <1>1, <1>4, <1>6 DEF Fits
    <2>2. PICK t \in Tickets : selected' = t /\ calls' = Selecting(Rest(c), t) /\ Cleared
        BY <1>6, <2>1, NoneAssumption DEF BoardAnswer
    <2>3. Good(calls', selected', workspace')
        BY <1>1, <2>2, SelectingGood DEF Cleared, IInv
    <2>4. Displayed' /\ ToolOfWorkspace'
        BY <1>2, <2>2, NoneAssumption DEF Cleared, Displayed, ToolOfWorkspace
    <2> QED
        BY <1>3, <2>3, <2>4 DEF IInv
<1> QED
    BY <1>5, <1>6

LEMMA WorkspaceAnswerStep ==
    ASSUME IInv, NEW c \in calls, WorkspaceAnswer(c)
    PROVE  IInv'
<1>1. /\ Typed(c) /\ c \in Calls /\ Fits(c, selected, workspace)
      /\ Good(Rest(c), selected, workspace) /\ c.kind = "workspace" /\ c.ticket \in Tickets
    BY RestGood DEF WorkspaceAnswer, Typed
<1>2. selected # None
    BY <1>1 DEF Fits
<1>3. /\ TypeOK' /\ Displayed' /\ ToolOfWorkspace' /\ Good(Rest(c), selected, workspace')
    <2>1. CASE c.current /\ c.at = "done"
        <3>1. c.answer \in Ticket /\ c.answer.query \in Queries
            BY <1>1, <2>1, TicketChanges DEF Typed
        <3>2. /\ workspace' = [ticket |-> c.ticket, saved |-> c.answer] /\ tool' = c.ticket
              /\ edited' = c.answer.query /\ UNCHANGED <<server, filter, board, selected, flags, acts>>
            BY <2>1 DEF WorkspaceAnswer
        <3>3. workspace' \in Workspace /\ workspace' # None /\ tool' = workspace'.ticket /\ tool' # None
            BY <1>1, <3>1, <3>2, NoneAssumption DEF Workspace
        <3>4. TypeOK' /\ Displayed' /\ ToolOfWorkspace'
            BY <1>1, <1>2, <3>1, <3>2, <3>3
               DEF server, flags, IInv, TypeOK, Displayed, Cards, ToolOfWorkspace
        <3>5. ASSUME NEW d \in Rest(c) PROVE Typed(d) /\ Fits(d, selected, workspace')
            <4>1. ~(d.kind = "workspace" /\ d.current)
                BY <1>1, <2>1 DEF IInv, Good, OneLoad, Rest
            <4>2. workspace = None /\ Typed(d) /\ Fits(d, selected, workspace)
                BY <1>1, <2>1 DEF Good, Fits
            <4> QED
                BY <4>1, <4>2, NoneAssumption DEF Fits
        <3> QED
            BY <1>1, <3>4, <3>5 DEF Good
    <2>2. CASE ~(c.current /\ c.at = "done")
        BY <1>1, <2>2 DEF WorkspaceAnswer, server, shown, flags, IInv, TypeOK, Displayed, Cards, ToolOfWorkspace
    <2> QED
        BY <2>1, <2>2
<1>4. selected' = selected
    BY DEF WorkspaceAnswer
<1>5. CASE c.then = None
    BY <1>3, <1>4, <1>5 DEF WorkspaceAnswer, IInv
<1>6. CASE c.then # None
    <2>1. c.unselected = FALSE /\ c.filter \in Filters
        BY <1>1, <1>6 DEF Fits, Calls
    <2>2. calls' = LoadBoard(Rest(c), c.filter, FALSE, None)
        BY <1>6, <2>1 DEF WorkspaceAnswer
    <2>3. Good(calls', selected', workspace')
        BY <1>2, <1>3, <1>4, <2>1, <2>2, LoadBoardGood DEF IInv
    <2> QED
        BY <1>3, <2>3 DEF IInv
<1> QED
    BY <1>5, <1>6

LEMMA MoveAnswerStep ==
    ASSUME IInv, NEW c \in calls, MoveAnswer(c)
    PROVE  IInv'
<1>1. /\ Typed(c) /\ c \in Calls /\ Fits(c, selected, workspace)
      /\ Good(Rest(c), selected, workspace) /\ c.kind \in Moves
    BY RestGood DEF MoveAnswer
<1>2. /\ c.unselected = FALSE /\ selected # None /\ c.filter \in Filters /\ c.ticket \in Tickets
    BY <1>1 DEF Fits, Typed, Calls, Moves
<1>3. TypeOK' /\ Displayed' /\ ToolOfWorkspace'
    BY DEF MoveAnswer, server, shown, IInv, TypeOK, Displayed, Cards, ToolOfWorkspace
<1>4. \A n \in Tickets \cup {None} : Good(LoadBoard(Rest(c), c.filter, FALSE, n), selected, workspace)
    BY <1>1, <1>2, LoadBoardGood DEF IInv
<1>5. Good(calls', selected', workspace')
    BY <1>1, <1>2, <1>4 DEF MoveAnswer, shown
<1> QED
    BY <1>3, <1>5 DEF IInv

LEMMA ApproveAnswerStep ==
    ASSUME IInv, NEW c \in calls, ApproveAnswer(c)
    PROVE  IInv'
<1>1. /\ Typed(c) /\ c \in Calls /\ Fits(c, selected, workspace)
      /\ Good(Rest(c), selected, workspace) /\ c.kind = "approve"
    BY RestGood DEF ApproveAnswer
<1>2. /\ c.unselected = FALSE /\ selected # None /\ c.filter \in Filters /\ c.ticket \in Tickets
    BY <1>1 DEF Fits, Typed, Calls
<1>3. TypeOK' /\ Displayed' /\ ToolOfWorkspace'
    BY DEF ApproveAnswer, Cleared, server, shown, IInv, TypeOK, Displayed, Cards, ToolOfWorkspace
<1>4. CASE c.at = "done" /\ c.current
    <2> DEFINE old == Call("workspace", c.ticket)
               d == [old EXCEPT !.then = "board", !.filter = c.filter, !.unselected = c.unselected]
    <2>1. old \in Calls /\ old.kind = "workspace" /\ old.at = "sent" /\ old.ticket = c.ticket
        BY <1>2, NewCall DEF IInv, Kinds, Call
    <2>2. /\ d \in Calls /\ d.kind = "workspace" /\ d.at = "sent" /\ d.ticket = c.ticket
          /\ d.unselected = FALSE
        BY <1>2, <2>1 DEF Calls
    <2>3. Typed(d) /\ Fits(d, selected, None)
        BY <1>2, <2>2 DEF Typed, Fits, Patches
    <2>4. /\ Good(Later(Rest(c), "workspace"), selected, None)
          /\ \A e \in Later(Rest(c), "workspace") : ~(e.kind = "workspace" /\ e.current)
        BY <1>1, LaterGood
    <2>5. calls' = Later(Rest(c), "workspace") \cup {d} /\ workspace' = None /\ selected' = selected
        BY <1>4 DEF ApproveAnswer, Cleared
    <2>6. Good(calls', selected', workspace')
        BY <2>3, <2>4, <2>5 DEF Good, OneLoad
    <2> QED
        BY <1>3, <2>6 DEF IInv
<1>5. CASE ~(c.at = "done" /\ c.current)
    BY <1>1, <1>3, <1>5 DEF ApproveAnswer, shown, IInv
<1> QED
    BY <1>4, <1>5

LEMMA PatchedTyped ==
    ASSUME NEW c, Typed(c), c.kind \in Patches, c.at = "done", c.workspace \in Workspace
    PROVE  Patched(c) \in Workspace /\ Patched(c).ticket = c.workspace.ticket
<1> DEFINE w == c.workspace
<1>1. w.saved \in Ticket /\ w.ticket \in Tickets
    BY DEF Workspace
<1>2. \A s \in Ticket : LET v == [w EXCEPT !.saved = s] IN v \in Workspace /\ v.ticket = w.ticket
    BY DEF Workspace
<1>3. CASE c.kind = "save"
    <2>1. c.answer.query \in Queries /\ c.answer.result \in Queries \cup {None}
        BY <1>3, TicketChanges DEF Typed
    <2>2. [w.saved EXCEPT !.query = c.answer.query, !.result = c.answer.result] \in Ticket
        BY <1>1, <2>1 DEF Ticket
    <2>3. Patched(c) = [w EXCEPT !.saved = [w.saved EXCEPT !.query = c.answer.query, !.result = c.answer.result]]
        BY <1>3 DEF Patched, Workspace
    <2> QED
        BY <1>2, <2>2, <2>3
<1>4. CASE c.kind = "execute"
    <2>1. [w.saved EXCEPT !.result = c.answer] \in Ticket
        BY <1>1, <1>4, TicketChanges DEF Typed
    <2>2. Patched(c) = [w EXCEPT !.saved = [w.saved EXCEPT !.result = c.answer]]
        BY <1>4 DEF Patched
    <2> QED
        BY <1>2, <2>1, <2>2
<1>5. CASE c.kind = "promote"
    <2>1. [w.saved EXCEPT !.marks[c.answer] = c.value] \in Ticket
        BY <1>1, <1>5, TicketChanges DEF Typed, Items
    <2>2. Patched(c) = [w EXCEPT !.saved = [w.saved EXCEPT !.marks[c.answer] = c.value]]
        BY <1>5 DEF Patched
    <2> QED
        BY <1>2, <2>1, <2>2
<1>6. CASE c.kind = "toggle"
    <2>1. [w.saved EXCEPT !.marks[c.item] = c.value] \in Ticket
        BY <1>1, <1>6, TicketChanges DEF Typed
    <2>2. Patched(c) = [w EXCEPT !.saved = [w.saved EXCEPT !.marks[c.item] = c.value]]
        BY <1>6 DEF Patched
    <2> QED
        BY <1>2, <2>1, <2>2
<1> QED
    BY <1>3, <1>4, <1>5, <1>6 DEF Patches

LEMMA PatchAnswerStep ==
    ASSUME IInv, NEW c \in calls, PatchAnswer(c)
    PROVE  IInv'
<1>1. /\ Typed(c) /\ c \in Calls /\ Fits(c, selected, workspace)
      /\ Good(Rest(c), selected, workspace) /\ c.kind \in Patches /\ selected # None
    BY RestGood DEF PatchAnswer, Fits, Patches
<1>2. workspace' = workspace
      \/ /\ workspace \in Workspace /\ workspace' \in Workspace
         /\ workspace'.ticket = workspace.ticket
    BY <1>1, PatchedTyped DEF PatchAnswer, Fits
<1>3. UNCHANGED <<server, filter, board, selected, tool, edited, dialog, approving, acts>> /\ calls' = Rest(c)
    BY DEF PatchAnswer
<1>4. TypeOK'
    BY <1>2, <1>3 DEF PatchAnswer, server, IInv, TypeOK
<1>5. Displayed' /\ ToolOfWorkspace'
    BY <1>1, <1>2, <1>3, NoneAssumption DEF IInv, Displayed, Cards, ToolOfWorkspace
<1>6. Good(calls', selected', workspace')
    BY <1>1, <1>2, <1>3, NoneAssumption DEF Good, Fits
<1> QED
    BY <1>4, <1>5, <1>6 DEF IInv
-----------------------------------------------------------------------------
LEMMA ServerStep ==
    ASSUME IInv, NEW c \in calls, Server(c)
    PROVE  IInv'
<1>1. Typed(c) /\ Fits(c, selected, workspace)
    BY RestGood
<1>2. saved' \in [Tickets -> Ticket]
    BY <1>1, ServerTyped DEF IInv
<1>3. PICK d : calls' = Rest(c) \cup {d} /\ Typed(d) /\ Continues(c, d)
    BY <1>1, ServerTyped DEF IInv
<1>4. UNCHANGED <<others, filter, board, selected, shown, flags, acts>>
    BY DEF Server, ReadBoard, ReadWorkspace, Move, ReviseQuery, StartQuery, RecordResult, Promote,
           Mark, Lose, Serve, server
<1>5. Good(calls', selected', workspace')
    BY <1>1, <1>3, <1>4, ContinuedFits, Replaced DEF IInv, Rest, Continues, shown
<1>6. TypeOK' /\ Displayed' /\ ToolOfWorkspace'
    BY <1>2, <1>4 DEF IInv, TypeOK, Displayed, Cards, ToolOfWorkspace, shown, flags
<1> QED
    BY <1>5, <1>6 DEF IInv

\* The invariant holds in every reachable state.
LEMMA NextIInv == IInv /\ [Next]_vars => IInv'
<1> SUFFICES ASSUME IInv, [Next]_vars PROVE IInv'
    OBVIOUS
<1>1. CASE Analyst
    BY <1>1, SelectTicketStep, AcknowledgeStep, QuickAdvanceStep, DialogStep, EscalateSubmitStep,
       ReturnToTriageStep, ApproveStep, EditQueryStep, QueryStep, PromoteEvidenceStep, ToggleStep,
       QueueStep DEF Analyst
<1>2. CASE Others
    BY <1>2, OthersStep
<1>3. CASE Refresh
    BY <1>3, QueueStep
<1>4. ASSUME NEW c \in calls, Server(c) \/ Handle(c) PROVE IInv'
    BY <1>4, ServerStep, BoardAnswerStep, WorkspaceAnswerStep, MoveAnswerStep, ApproveAnswerStep,
       PatchAnswerStep DEF Handle
<1>5. CASE UNCHANGED vars
    BY <1>5 DEF vars, server, shown, flags, IInv, TypeOK, Displayed, Cards, ToolOfWorkspace
<1> QED
    BY <1>1, <1>2, <1>3, <1>4, <1>5 DEF Next

\* The invariant holds in every reachable state.
THEOREM Inductive == Spec => []IInv
BY InitIInv, NextIInv, PTL DEF Spec

\* Every variable keeps its type, whatever the handlers bring together.
THEOREM TypeCorrect == Spec => []TypeOK
BY Inductive, PTL DEF IInv

\* A question typed in one ticket is never saved or executed in another.
THEOREM QuestionsStay == Spec => []ToolOfWorkspace
BY Inductive, PTL DEF IInv

Filed(s) == s.result \in {s.query, None}

\* Changes of one ticket keep or drop its result, or record the one of its question.
LEMMA ResultStep ==
    ASSUME IInv, ResultOfQuery, [Next]_vars
    PROVE  ResultOfQuery'
<1>1. saved \in [Tickets -> Ticket] /\ \A t \in Tickets : saved[t] \in Ticket /\ Filed(saved[t])
    BY DEF IInv, TypeOK, ResultOfQuery, Filed
<1>2. ASSUME NEW t \in Tickets, NEW s, Filed(s), saved' = [saved EXCEPT ![t] = s]
      PROVE  ResultOfQuery'
    BY <1>1, <1>2 DEF ResultOfQuery, Filed
<1>3. ASSUME UNCHANGED saved PROVE ResultOfQuery'
    BY <1>3 DEF ResultOfQuery
<1>4. \A s \in Ticket, q \in Queries : Filed(Revised(s, q))
    BY DEF Revised, Ticket, Filed
<1>5. ASSUME Others PROVE ResultOfQuery'
    <2>1. ASSUME NEW t \in Tickets, NEW x \in States, OtherMoves(t, x) PROVE ResultOfQuery'
        <3>1. Filed([saved[t] EXCEPT !.state = x])
            BY <1>1 DEF Ticket, Filed
        <3> QED
            BY <1>2, <2>1, <3>1 DEF OtherMoves
    <2>2. ASSUME NEW t \in Tickets, NEW q \in Queries, OtherRevises(t, q) PROVE ResultOfQuery'
        BY <1>1, <1>2, <1>4, <2>2 DEF OtherRevises
    <2> QED
        BY <1>5, <2>1, <2>2 DEF Others
<1>6. ASSUME NEW c \in calls, Server(c) PROVE ResultOfQuery'
    <2> DEFINE s == saved[c.ticket]
    <2>1. Typed(c)
        BY RestGood
    <2>2. ASSUME c.kind # "board" PROVE c.ticket \in Tickets /\ s \in Ticket /\ Filed(s)
        BY <1>1, <2>1, <2>2 DEF Typed
    <2>3. CASE ReadBoard(c) \/ ReadWorkspace(c) \/ StartQuery(c) \/ Lose(c)
        BY <1>3, <2>3 DEF ReadBoard, ReadWorkspace, StartQuery, Lose, server
    <2>4. CASE Move(c)
        <3>1. c.kind # "board" /\ saved' = [saved EXCEPT ![c.ticket] = Moved(c)]
            BY <2>4 DEF Move, Moves
        <3>2. Moved(c).result = s.result /\ Moved(c).query = s.query
            BY <2>2, <2>4, <3>1 DEF Move, Moves, Moved, Ticket
        <3>3. Filed(Moved(c))
            BY <2>2, <3>1, <3>2 DEF Filed
        <3> QED
            BY <1>2, <2>2, <3>1, <3>3
    <2>5. CASE ReviseQuery(c)
        <3>1. c.kind # "board" /\ c.value \in Queries
            BY <2>1, <2>5 DEF ReviseQuery, Typed
        <3> QED
            BY <1>2, <1>4, <2>2, <2>5, <3>1 DEF ReviseQuery
    <2>6. CASE RecordResult(c)
        <3>1. c.kind # "board" /\ s.query = c.answer /\ saved' = [saved EXCEPT ![c.ticket] = [s EXCEPT !.result = c.answer]]
            BY <2>6 DEF RecordResult
        <3>2. Filed([s EXCEPT !.result = c.answer])
            BY <2>2, <3>1 DEF Ticket, Filed
        <3> QED
            BY <1>2, <2>2, <3>1, <3>2
    <2>7. CASE Promote(c)
        <3> DEFINE marked == [s EXCEPT !.marks[s.result] = "accepted"]
        <3>1. c.kind # "board" /\ (UNCHANGED saved \/ saved' = [saved EXCEPT ![c.ticket] = marked])
            BY <2>7 DEF Promote
        <3>2. Filed(marked)
            BY <2>2, <3>1 DEF Ticket, Filed
        <3> QED
            BY <1>2, <1>3, <2>2, <3>1, <3>2
    <2>8. CASE Mark(c)
        <3>1. c.kind # "board" /\ saved' = [saved EXCEPT ![c.ticket] = [s EXCEPT !.marks[c.item] = c.value]]
            BY <2>8 DEF Mark
        <3>2. Filed([s EXCEPT !.marks[c.item] = c.value])
            BY <2>2, <3>1 DEF Ticket, Filed
        <3> QED
            BY <1>2, <2>2, <3>1, <3>2
    <2> QED
        BY <1>6, <2>3, <2>4, <2>5, <2>6, <2>7, <2>8 DEF Server
<1>7. ASSUME Analyst \/ Refresh \/ \E c \in calls : Handle(c) PROVE UNCHANGED saved
    BY <1>7 DEF Analyst, Refresh, Handle, ChangeFilter, SelectTicket, Acknowledge, QuickAdvance, OpenDialog,
       CloseDialog, EscalateSubmit, ReturnToTriage, Approve, EditQuery, SaveQuery, ExecuteQuery,
       PromoteEvidence, Toggle, Ask, BoardAnswer, WorkspaceAnswer, MoveAnswer, ApproveAnswer,
       PatchAnswer, server
<1> QED
    BY <1>3, <1>5, <1>6, <1>7 DEF Next, vars, server

\* A result is filed under the question it answers, whoever revises it meanwhile.
THEOREM ResultsAnswer == Spec => []ResultOfQuery
<1>1. Init => ResultOfQuery
    BY DEF Init, ResultOfQuery, Imported
<1>2. IInv /\ ResultOfQuery /\ [Next]_vars => ResultOfQuery'
    BY ResultStep
<1> QED
    BY <1>1, <1>2, Inductive, PTL DEF Spec

\* Only what the analyst does moves the selection: a load that may select a ticket
\* was asked for when none was selected, and is outdated by any selection.
THEOREM SelectionStays == Spec => SelectionKept
<1>1. ASSUME IInv, [Next]_vars, selected # None, acts' = acts
      PROVE  selected' = selected
    <2>1. ASSUME NEW c \in calls, BoardAnswer(c) PROVE selected' = selected
        <3>1. c.kind = "board" /\ Fits(c, selected, workspace)
            BY <1>1, <2>1, RestGood DEF BoardAnswer
        <3>2. ~(c.current /\ c.unselected)
            BY <1>1, <3>1 DEF Fits
        <3> QED
            BY <2>1, <3>2 DEF BoardAnswer
    <2>2. ASSUME NEW c \in calls, Handle(c), ~BoardAnswer(c) PROVE selected' = selected
        BY <2>2 DEF Handle, WorkspaceAnswer, MoveAnswer, ApproveAnswer, PatchAnswer
    <2>3. ASSUME NEW c \in calls, Server(c) PROVE selected' = selected
        BY <2>3 DEF Server, ReadBoard, ReadWorkspace, Move, ReviseQuery, StartQuery, RecordResult, Promote,
           Mark, Lose, Serve
    <2>4. ASSUME Refresh \/ Others PROVE selected' = selected
        BY <2>4 DEF Refresh, Others, Other, OtherMoves, OtherRevises
    <2>5. acts \in Nat
        BY <1>1, BoundsAssumption DEF IInv, TypeOK
    <2>6. ~Act
        BY <1>1, <2>5 DEF Act
    <2>7. ASSUME Analyst PROVE selected' = selected
        BY <2>6, <2>7 DEF Analyst, ChangeFilter, SelectTicket, Acknowledge, QuickAdvance, OpenDialog,
           CloseDialog, EscalateSubmit, ReturnToTriage, Approve, EditQuery, SaveQuery, ExecuteQuery,
           PromoteEvidence, Toggle, Ask
    <2> QED
        BY <1>1, <2>1, <2>2, <2>3, <2>4, <2>7 DEF Next, vars
<1>2. IInv /\ [Next]_vars => [selected # None /\ acts' = acts => selected' = selected]_vars
    BY <1>1
<1> QED
    BY <1>2, Inductive, PTL DEF Spec, SelectionKept
=============================================================================
