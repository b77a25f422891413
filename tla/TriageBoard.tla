----------------------------- MODULE TriageBoard -----------------------------
(***************************************************************************)
(* The triage board: a queue of tickets that is read again all the time,   *)
(* the workspace of the selected ticket, and the follow-up question of a   *)
(* ticket that is edited, executed and promoted to evidence.  A handler    *)
(* goes on after its request with what its render had in hand, while the   *)
(* analyst selects another ticket and other analysts work on the same one. *)
(*                                                                         *)
(* src/frontend/src/pages/TriageBoard.tsx and services/triage.ts; the      *)
(* server is modelled by what api/routes/triage.py and                     *)
(* persistence/triage.py do.                                               *)
(***************************************************************************)
EXTENDS Naturals, FiniteSets

CONSTANTS
    Tickets,
    Queries,      \* texts of the follow-up question, which is the same in each ticket
    None,
    Finding,      \* the finding a ticket was imported with
    Triage,       \* "Triage Team"
    Teams,        \* the others
    Filters,      \* bucket and search: each shows the tickets in some states
    First,        \* the filter and the question before anything changes
    MaxActs,      \* bound: what the analyst does
    MaxOthers     \* bound: what other analysts do

ASSUME FirstAssumption == First \in [filter : Filters, query : Queries]
ASSUME BoundsAssumption == MaxActs \in Nat /\ MaxOthers \in Nat

States == {"NEW", "IN_TRIAGE", "APP_TEAM", "RETURNED", "RESOLVED"}
Items == Queries \cup {Finding}
Statuses == {"absent", "proposed", "accepted", "rejected"}

VARIABLES
    saved,       \* the tickets with their investigation
    others,      \* what other analysts did so far
    filter,      \* activeBucket and searchQuery
    board,       \* liveBoard, or None
    selected,    \* selectedTicketId, or None
    workspace,   \* the workspace on display, or None
    tool,        \* selectedProposalId, by its ticket, or None
    edited,      \* editedQuery
    dialog,      \* showEscalateModal
    executing, promoting,
    approving,   \* approvingActionId, by its ticket, or None
    acts, calls

server == <<saved, others>>
shown == <<workspace, tool, edited>>
flags == <<dialog, executing, promoting, approving>>
vars == <<server, filter, board, selected, shown, flags, acts, calls>>

\* The run of a question is found again by its key, so it goes by the question's name.
Ticket == [state : States, team : Teams \cup {Triage}, owned : BOOLEAN, approved : BOOLEAN,
           query : Queries, result : Queries \cup {None}, marks : [Items -> Statuses]]
Workspace == [ticket : Tickets, saved : Ticket]
Card == [state : States, team : Teams \cup {Triage}, owned : BOOLEAN]

ASSUME NoneAssumption == None \notin Tickets /\ None \notin Queries /\ None \notin Workspace

-----------------------------------------------------------------------------
(* Requests.  A call keeps what the render of its handler had in hand, and *)
(* whether workspaceRequest (or boardRequest) is still that of its start.  *)

Patches == {"save", "execute", "promote", "toggle"}

Call(kind, t) ==
    [kind |-> kind, ticket |-> t, at |-> "sent", filter |-> filter, unselected |-> selected = None,
     current |-> TRUE, workspace |-> IF kind \in Patches THEN workspace ELSE None,
     value |-> None, team |-> None, item |-> None, then |-> None, answer |-> None]

\* A mutated form: the answers to loads are not compared with the counters.
LaterNever(cs, kind) == cs

\* A mutated form: the handlers do not compare workspaceRequest.
LaterLoadsOnly(cs, kind) ==
    LET outdated(c) == [c EXCEPT !.current = FALSE]
    IN  {IF c.kind = kind THEN outdated(c) ELSE c : c \in {c \in cs : c.kind # kind \/ c.then # None}}

\* Superseded loads do nothing more, unless their caller waits for them.
Later(cs, kind) ==
    LET outdated(c) == [c EXCEPT !.current = FALSE, !.workspace = None]
        affected(c) == c.kind = kind \/ (kind = "workspace" /\ c.kind \in Patches \cup {"approve"})
    IN  {IF affected(c) THEN outdated(c) ELSE c : c \in {c \in cs : c.kind # kind \/ c.then # None}}

LoadBoard(cs, f, unselected, then) ==
    Later(cs, "board") \cup
      {[Call("board", None) EXCEPT !.filter = f, !.unselected = unselected, !.then = then]}

LoadWorkspace(cs, t) == Later(cs, "workspace") \cup {Call("workspace", t)}

Cleared == workspace' = None /\ tool' = None /\ edited' = None

\* The effects of another selection: both loads.
Selecting(cs, t) == LoadWorkspace(LoadBoard(cs, filter, FALSE, None), t)

-----------------------------------------------------------------------------
(* The server.                                                             *)

Rest(c) == calls \ {c}

\* The request or its answer may be lost.
Serve(c, answer) ==
    /\ calls' = Rest(c) \cup {[c EXCEPT !.at = "done", !.answer = answer]}
    /\ UNCHANGED <<others, filter, board, selected, shown, flags, acts>>

Lose(c) ==
    /\ c.at # "lost"
    /\ calls' = Rest(c) \cup {[c EXCEPT !.at = "lost", !.answer = None]}
    /\ UNCHANGED <<server, filter, board, selected, shown, flags, acts>>

ReadBoard(c) ==
    /\ c.kind = "board" /\ c.at = "sent"
    /\ Serve(c, [t \in {t \in Tickets : saved[t].state \in c.filter} |->
                   [state |-> saved[t].state, team |-> saved[t].team, owned |-> saved[t].owned]])
    /\ UNCHANGED saved

ReadWorkspace(c) ==
    /\ c.kind = "workspace" /\ c.at = "sent"
    /\ Serve(c, saved[c.ticket])
    /\ UNCHANGED saved

\* The transitions of a ticket.  A card is advanced with the team it shows.
Moved(c) ==
    LET s == saved[c.ticket] IN
    CASE c.kind = "acknowledge" -> [s EXCEPT !.state = "IN_TRIAGE", !.owned = TRUE]
      [] c.kind = "advance" -> [s EXCEPT !.state = c.value, !.team = c.team]
      [] c.kind = "escalate" -> [s EXCEPT !.state = "APP_TEAM", !.team = c.team]
      [] c.kind = "return" -> [s EXCEPT !.state = "RETURNED", !.team = Triage]
      [] c.kind = "approve" -> [s EXCEPT !.approved = TRUE]

Moves == {"acknowledge", "advance", "escalate", "return", "approve"}

Move(c) ==
    /\ c.kind \in Moves /\ c.at = "sent"
    /\ saved' = [saved EXCEPT ![c.ticket] = Moved(c)]
    /\ Serve(c, None)

\* update_tool_proposal_query: the result of the former question is dropped.
Revised(s, q) == [s EXCEPT !.query = q, !.result = None]

\* Execute saves the question first, then asks for its execution.
ReviseQuery(c) ==
    /\ c.kind \in {"save", "execute"} /\ c.at = "sent"
    /\ saved' = [saved EXCEPT ![c.ticket] = Revised(@, c.value)]
    /\ IF c.kind = "save" THEN Serve(c, saved'[c.ticket])
       ELSE /\ calls' = Rest(c) \cup {[c EXCEPT !.at = "revised"]}
            /\ UNCHANGED <<others, filter, board, selected, shown, flags, acts>>

\* execute_tool_proposal reads the saved question; its run takes a while.
StartQuery(c) ==
    /\ c.kind = "execute" /\ c.at = "revised"
    /\ calls' = Rest(c) \cup {[c EXCEPT !.at = "running", !.answer = saved[c.ticket].query]}
    /\ UNCHANGED <<server, filter, board, selected, shown, flags, acts>>

\* A mutated form: without the expected query.
RecordAnyResult(c) ==
    /\ c.kind = "execute" /\ c.at = "running"
    /\ saved' = [saved EXCEPT ![c.ticket].result = c.answer]
    /\ Serve(c, c.answer)

\* record_tool_execution; a failed run loses the answer.
RecordResult(c) ==
    /\ c.kind = "execute" /\ c.at = "running"
    /\ saved[c.ticket].query = c.answer
    /\ saved' = [saved EXCEPT ![c.ticket].result = c.answer]
    /\ Serve(c, c.answer)

\* promote_result_to_evidence: once for each run.
Promote(c) ==
    LET run == saved[c.ticket].result IN
    /\ c.kind = "promote" /\ c.at = "sent" /\ run # None
    /\ saved' = IF saved[c.ticket].marks[run] # "absent" THEN saved
                ELSE [saved EXCEPT ![c.ticket].marks[run] = "accepted"]
    /\ calls' = Rest(c) \cup
         {[c EXCEPT !.at = "done", !.answer = run, !.value = saved'[c.ticket].marks[run]]}
    /\ UNCHANGED <<others, filter, board, selected, shown, flags, acts>>

Mark(c) ==
    /\ c.kind = "toggle" /\ c.at = "sent"
    /\ saved' = [saved EXCEPT ![c.ticket].marks[c.item] = c.value]
    /\ Serve(c, None)

Other ==
    /\ others < MaxOthers /\ others' = others + 1
    /\ UNCHANGED <<filter, board, selected, shown, flags, acts, calls>>

OtherMoves(t, s) ==
    /\ Other /\ saved[t].state # s
    /\ saved' = [saved EXCEPT ![t].state = s]

OtherRevises(t, q) ==
    /\ Other /\ saved[t].query # q
    /\ saved' = [saved EXCEPT ![t] = Revised(@, q)]

-----------------------------------------------------------------------------
(* What the analyst does.                                                  *)

Act == acts < MaxActs /\ acts' = acts + 1

\* The interval, and the button.
Refresh ==
    /\ \A c \in calls : c.kind = "board" => ~(c.current /\ c.filter = filter /\ c.at = "sent")
    /\ calls' = LoadBoard(calls, filter, selected = None, None)
    /\ UNCHANGED <<server, filter, board, selected, shown, flags, acts>>

ChangeFilter(f) ==
    /\ Act /\ f # filter
    /\ filter' = f
    /\ calls' = LoadBoard(calls, f, selected = None, None)
    /\ UNCHANGED <<server, board, selected, shown, flags>>

Cards == IF board = None THEN {} ELSE DOMAIN board.cards

SelectTicket(t) ==
    /\ Act /\ t \in Cards /\ t # selected
    /\ selected' = t
    /\ calls' = Selecting(calls, t)
    /\ Cleared
    /\ UNCHANGED <<server, filter, board, flags>>

\* The button of a card selects the ticket, too; the one of the workspace does not.
Acknowledge(t) ==
    /\ Act
    /\ \/ /\ t \in Cards /\ ~board.cards[t].owned
          /\ selected' = t
          /\ IF t = selected THEN calls' = calls \cup {Call("acknowledge", t)} /\ UNCHANGED shown
             ELSE calls' = Selecting(calls, t) \cup {Call("acknowledge", t)} /\ Cleared
       \/ /\ workspace # None /\ workspace.ticket = t /\ ~workspace.saved.owned
          /\ calls' = calls \cup {Call("acknowledge", t)}
          /\ UNCHANGED <<selected, shown>>
    /\ UNCHANGED <<server, filter, board, flags>>

NextStage(card) ==
    CASE card.state \in {"NEW", "RETURNED"} -> "IN_TRIAGE"
      [] card.state = "IN_TRIAGE" -> IF card.owned THEN "APP_TEAM" ELSE "IN_TRIAGE"
      [] card.state = "APP_TEAM" -> "RESOLVED"

\* A request that leaves the page as it is until its answer.
Ask(call, value) ==
    /\ Act
    /\ calls' = calls \cup {[call EXCEPT !.value = value]}
    /\ UNCHANGED <<server, filter, board, selected, shown>>

QuickAdvance(t) ==
    /\ t \in Cards /\ board.cards[t].state # "RESOLVED"
    /\ Ask([Call("advance", t) EXCEPT !.team = board.cards[t].team], NextStage(board.cards[t]))
    /\ UNCHANGED flags

\* The header of the workspace offers one of the two; both name the selected ticket.
OpenDialog ==
    /\ workspace # None /\ workspace.saved.owned /\ workspace.saved.state # "APP_TEAM" /\ ~dialog
    /\ dialog' = TRUE
    /\ UNCHANGED <<server, filter, board, selected, shown, executing, promoting, approving, acts, calls>>

CloseDialog ==
    /\ dialog
    /\ dialog' = FALSE
    /\ UNCHANGED <<server, filter, board, selected, shown, executing, promoting, approving, acts, calls>>

EscalateSubmit(team) ==
    /\ dialog /\ selected # None
    /\ Ask([Call("escalate", selected) EXCEPT !.team = team], None)
    /\ UNCHANGED flags

ReturnToTriage ==
    /\ selected # None /\ workspace # None
    /\ workspace.saved.owned /\ workspace.saved.state = "APP_TEAM"
    /\ Ask(Call("return", selected), workspace.saved.team)
    /\ UNCHANGED flags

Approve ==
    /\ workspace # None /\ ~workspace.saved.approved /\ approving # workspace.ticket
    /\ Ask(Call("approve", workspace.ticket), None)
    /\ approving' = workspace.ticket
    /\ UNCHANGED <<dialog, executing, promoting>>

\* The text area, "Reset to Template" and the tab of the tool.
EditQuery(q) ==
    /\ Act /\ workspace # None /\ tool # None /\ edited # q
    /\ edited' = q
    /\ UNCHANGED <<server, filter, board, selected, workspace, tool, flags, calls>>

SaveQuery ==
    /\ workspace # None /\ tool # None
    /\ Ask(Call("save", tool), edited)
    /\ UNCHANGED flags

ExecuteQuery ==
    /\ workspace # None /\ tool # None /\ ~executing
    /\ Ask(Call("execute", tool), edited)
    /\ executing' = TRUE
    /\ UNCHANGED <<dialog, promoting, approving>>

PromoteEvidence ==
    /\ workspace # None /\ tool # None /\ workspace.saved.result # None /\ ~promoting
    /\ Ask(Call("promote", tool), None)
    /\ promoting' = TRUE
    /\ UNCHANGED <<dialog, executing, approving>>

\* handleToggleEvidence and handleToggleFinding.
Toggle(i) ==
    /\ workspace # None /\ workspace.saved.marks[i] # "absent"
    /\ Ask([Call("toggle", workspace.ticket) EXCEPT !.item = i],
           IF workspace.saved.marks[i] = "accepted" THEN "rejected" ELSE "accepted")
    /\ UNCHANGED flags

-----------------------------------------------------------------------------
(* Answers.                                                                *)

Ended(c) == c.at \in {"done", "lost"}

\* loadBoard after its request, and the caller that waits for it.
BoardAnswer(c) ==
    LET read == c.current /\ c.at = "done"
        first == {t \in Tickets : read /\ c.unselected /\ t \in DOMAIN c.answer}
        go(cs) == IF c.then = None THEN cs ELSE LoadWorkspace(cs, c.then)
    IN  /\ c.kind = "board" /\ Ended(c)
        /\ board' = IF read THEN [filter |-> c.filter, cards |-> c.answer] ELSE board
        /\ \/ /\ first = {}
              /\ calls' = go(Rest(c))
              /\ IF c.then = None THEN UNCHANGED shown ELSE Cleared
              /\ UNCHANGED selected
           \/ \E t \in first :
                /\ selected' = t
                /\ IF t = selected THEN calls' = go(Rest(c)) /\ UNCHANGED shown
                   ELSE calls' = Selecting(go(Rest(c)), t) /\ Cleared
        /\ UNCHANGED <<server, filter, flags, acts>>

WorkspaceAnswer(c) ==
    /\ c.kind = "workspace" /\ Ended(c)
    /\ IF c.current /\ c.at = "done"
       THEN /\ workspace' = [ticket |-> c.ticket, saved |-> c.answer]
            /\ tool' = c.ticket /\ edited' = c.answer.query
       ELSE UNCHANGED shown
    /\ calls' = IF c.then = None THEN Rest(c) ELSE LoadBoard(Rest(c), c.filter, c.unselected, None)
    /\ UNCHANGED <<server, filter, board, selected, flags, acts>>

\* The board is read again, then the workspace of the ticket of the handler.
MoveAnswer(c) ==
    /\ c.kind \in Moves \ {"approve"} /\ Ended(c)
    /\ calls' = IF c.at = "lost" THEN Rest(c)
                ELSE LoadBoard(Rest(c), c.filter, c.unselected,
                               IF c.kind = "advance" THEN None ELSE c.ticket)
    /\ dialog' = (dialog /\ ~(c.kind = "escalate" /\ c.at = "done"))
    /\ UNCHANGED <<server, filter, board, selected, shown, executing, promoting, approving, acts>>

ApproveAnswer(c) ==
    /\ c.kind = "approve" /\ Ended(c)
    /\ IF c.at = "done" /\ c.current
       THEN /\ Cleared
            /\ calls' = Later(Rest(c), "workspace") \cup
                 {[Call("workspace", c.ticket) EXCEPT !.then = "board", !.filter = c.filter,
                                                      !.unselected = c.unselected]}
       ELSE calls' = Rest(c) /\ UNCHANGED shown
    /\ approving' = None
    /\ UNCHANGED <<server, filter, board, selected, dialog, executing, promoting, acts>>

\* The workspace of the render of the handler, with the change.
Patched(c) ==
    LET w == c.workspace IN
    CASE c.kind = "save" -> [w EXCEPT !.saved.query = c.answer.query, !.saved.result = c.answer.result]
      [] c.kind = "execute" -> [w EXCEPT !.saved.result = c.answer]
      [] c.kind = "promote" -> [w EXCEPT !.saved.marks[c.answer] = c.value]
      [] c.kind = "toggle" -> [w EXCEPT !.saved.marks[c.item] = c.value]

PatchAnswer(c) ==
    /\ c.kind \in Patches /\ Ended(c)
    /\ workspace' = IF c.at = "done" /\ c.current THEN Patched(c) ELSE workspace
    /\ calls' = Rest(c)
    /\ executing' = (executing /\ c.kind # "execute")
    /\ promoting' = (promoting /\ c.kind # "promote")
    /\ UNCHANGED <<server, filter, board, selected, tool, edited, dialog, approving, acts>>

-----------------------------------------------------------------------------
Imported == [state |-> "NEW", team |-> Triage, owned |-> FALSE, approved |-> FALSE,
             query |-> First.query, result |-> None,
             marks |-> [i \in Items |-> IF i = Finding THEN "proposed" ELSE "absent"]]

Init ==
    /\ saved = [t \in Tickets |-> Imported]
    /\ others = 0
    /\ filter = First.filter /\ board = None /\ selected = None
    /\ workspace = None /\ tool = None /\ edited = None
    /\ dialog = FALSE /\ executing = FALSE /\ promoting = FALSE /\ approving = None
    /\ acts = 0
    /\ calls = LoadBoard({}, filter, TRUE, None)

Server(c) ==
    \/ ReadBoard(c) \/ ReadWorkspace(c) \/ Move(c)
    \/ ReviseQuery(c) \/ StartQuery(c) \/ RecordResult(c) \/ Promote(c) \/ Mark(c)
    \/ Lose(c)

Others ==
    \/ \E t \in Tickets, s \in States : OtherMoves(t, s)
    \/ \E t \in Tickets, q \in Queries : OtherRevises(t, q)

Analyst ==
    \/ \E f \in Filters : ChangeFilter(f)
    \/ \E t \in Tickets : SelectTicket(t)
    \/ \E t \in Tickets : Acknowledge(t)
    \/ \E t \in Tickets : QuickAdvance(t)
    \/ OpenDialog
    \/ CloseDialog
    \/ \E team \in Teams : EscalateSubmit(team)
    \/ ReturnToTriage
    \/ Approve
    \/ \E q \in Queries : EditQuery(q)
    \/ SaveQuery
    \/ ExecuteQuery
    \/ PromoteEvidence
    \/ \E i \in Items : Toggle(i)

Handle(c) ==
    \/ BoardAnswer(c) \/ WorkspaceAnswer(c)
    \/ MoveAnswer(c) \/ ApproveAnswer(c) \/ PatchAnswer(c)

Next ==
    \/ Analyst
    \/ Others
    \/ Refresh
    \/ \E c \in calls : Server(c) \/ Handle(c)

Spec == Init /\ [][Next]_vars

-----------------------------------------------------------------------------
(* Properties.                                                             *)

\* The values each variable takes.
TypeOK ==
    /\ saved \in [Tickets -> Ticket] /\ others \in 0 .. MaxOthers
    /\ filter \in Filters
    /\ board # None => /\ board.filter \in Filters
                       /\ board.cards \in [DOMAIN board.cards -> Card]
    /\ selected \in Tickets \cup {None}
    /\ workspace \in Workspace \cup {None} /\ tool \in Tickets \cup {None}
    /\ edited \in Queries \cup {None}
    /\ dialog \in BOOLEAN /\ executing \in BOOLEAN /\ promoting \in BOOLEAN
    /\ approving \in Tickets \cup {None}
    /\ acts \in 0 .. MaxActs

\* The question in the editor is one of the workspace on display: a question typed
\* in one ticket is never saved or executed in another, although each handler ends
\* with the workspace of its own render (the counters that loadWorkspace and the
\* handlers compare).
ToolOfWorkspace ==
    /\ workspace = None <=> tool = None
    /\ workspace # None => tool = workspace.ticket

\* A saved result is the result of the saved question, although another analyst may
\* revise it while it runs (the expected query of record_tool_execution): what is
\* promoted to evidence answers the question it is filed under.
ResultOfQuery == \A t \in Tickets : saved[t].result \in {saved[t].query, None}

\* Only the analyst moves the selection: no refresh, and no answer that comes late,
\* takes the open ticket away.
SelectionKept == [][selected # None /\ acts' = acts => selected' = selected]_vars
=============================================================================
