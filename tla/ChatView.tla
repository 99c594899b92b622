------------------------------- MODULE ChatView -------------------------------
(***************************************************************************)
(* What the chat page displays: the thread (ui/components/                 *)
(* ChatInterface.tsx) with its persona markers, the selected turn, and the *)
(* inspector beside it (ui/components/TokenizationPanel.tsx).              *)
(*                                                                         *)
(* Every action is one of ChatPage with what it does to the display, but   *)
(* for Select, which is the display's own.  Turns and markers are shown by *)
(* their timestamps, which are the order in which they were appended.      *)
(***************************************************************************)
EXTENDS ChatPage

VARIABLE view    \* roleEvents and selectedTurnId; and a history of what was asked

viewVars == <<vars, view>>

NoTurn == 0

\* markers are persona markers with the number of turns above them; asked is history:
\* with which role a message was sent, and how many markers were on display then.
Cleared == [markers |-> << >>, selected |-> NoTurn, asked |-> {}]

ViewInit == Init /\ view = Cleared

\* The page is mounted, left or emptied.
Clears == (Mount \/ Leave \/ Reload \/ HandleNewChat) /\ view' = Cleared

ClearsByLogIn(role) == LogIn(role) /\ view' = Cleared

ViewSend ==
    /\ HandleSend
    /\ view' = [view EXCEPT !.asked = @ \cup {[n |-> sent + 1, jwt |-> page.jwt,
                                               seen |-> Len(view.markers)]}]

ViewAnswered(q) ==
    /\ Answered(q)
    /\ view' = IF Mine(q) THEN [view EXCEPT !.selected = q.msg.n] ELSE view

ViewFailed(q) ==
    /\ Failed(q)
    /\ view' = [view EXCEPT !.asked = {a \in @ : a.n # q.msg.n}]

Marker(role) == [role |-> role, above |-> Len(page.turns)]

\* Mutant: the marker appears with the click, before the token is there.
ViewRoleChangeMarks(role) ==
    /\ HandleRoleChange(role)
    /\ view' = [view EXCEPT !.markers = Append(@, Marker(role))]

ViewRoleChange(role) == HandleRoleChange(role) /\ UNCHANGED view

\* The marker appears with the token.
ViewRoleUpdated(w) ==
    /\ RoleUpdated(w)
    /\ view' = IF Mine(w)
               THEN [view EXCEPT !.markers = Append(@, Marker(w.role))]
               ELSE view

Select(i) ==
    /\ page.here
    /\ i \in DOMAIN page.turns
    /\ view.selected # page.turns[i].msg.n
    /\ view' = [view EXCEPT !.selected = page.turns[i].msg.n]
    /\ UNCHANGED vars

\* What is not displayed.
Unseen ==
    \/ RemoveDataset
    \/ \E w \in switching : RoleRefused(w)
    \/ \E f \in Files : HandleFile(f)
    \/ \E x \in reading : FileRead(x)

ViewNext ==
    \/ Clears \/ ViewSend
    \/ \E r \in Roles : ClearsByLogIn(r) \/ ViewRoleChange(r)
    \/ \E q \in waiting : ViewAnswered(q) \/ ViewFailed(q)
    \/ \E w \in switching : ViewRoleUpdated(w)
    \/ \E i \in 1 .. MaxSends : Select(i)
    \/ Unseen /\ UNCHANGED view

ViewSpec == ViewInit /\ [][ViewNext]_viewVars

\* The gateway answers every request, or the connection breaks.
FairViewSpec == ViewSpec /\ WF_viewVars(\E q \in waiting : ViewAnswered(q) \/ ViewFailed(q))

-------------------------------------------------------------------------------
(* What is displayed. *)

\* The markers above the i-th turn of the thread.
MarkersAbove(i) == Cardinality({k \in DOMAIN view.markers : view.markers[k].above < i})

\* The first user message of what the gateway tokenized for a turn.
TokenizedUserMsg(turn) == IF turn.after = << >> THEN turn.msg ELSE turn.after[1]

Inspected(turn) == [originalInput |-> turn.msg, llmReceived |-> TokenizedUserMsg(turn)]

-------------------------------------------------------------------------------
(* Properties. *)

\* ChatInterface.tsx, "Viewing as": a turn below a marker that was on display when its
\* message was sent was answered for the persona of that marker.
MarkerTells ==
    \A i \in DOMAIN page.turns : \A a \in view.asked :
        a.n = page.turns[i].msg.n /\ MarkersAbove(i) = a.seen /\ a.seen > 0
            => a.jwt = view.markers[a.seen].role

\* TokenizationPanel.tsx, "Click any message to inspect how PII was tokenized": what
\* the inspector says the LLM received is the selected message.
InspectsSelected ==
    \A i \in DOMAIN page.turns :
        view.selected = page.turns[i].msg.n
            => Inspected(page.turns[i]).llmReceived = Inspected(page.turns[i]).originalInput
===============================================================================
