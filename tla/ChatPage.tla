-------------------------------- MODULE ChatPage --------------------------------
(***************************************************************************)
(* The chat page in a browser tab: ui/app/chat/page.tsx with the upload    *)
(* strip, the message box, ui/lib/session.ts and ui/lib/api.ts.            *)
(*                                                                         *)
(* Handlers of user events run to their first await at once; what they     *)
(* await (a chat answer, a new token, a file) comes back later, in any     *)
(* order, and finds the page as it is by then: in another conversation,    *)
(* under another persona, or gone, and then only localStorage still takes  *)
(* what a handler writes.                                                  *)
(*                                                                         *)
(* Abstractions.  A JWT is its role.  The gateway may answer or refuse any *)
(* request, but it issues no privileged role (Gateway) and answers with    *)
(* the role of the JWT.  localStorage holds a session id; without one the *)
(* page sends the user away.  What is only displayed (the activity log,    *)
(* the role markers, the selected turn, error texts) is left out.          *)
(***************************************************************************)
EXTENDS Naturals, Sequences, FiniteSets

CONSTANTS
    Roles, PRIVILEGED_ROLES,
    Files,        \* datasets
    NoFile,
    MaxSends,     \* bounds: messages sent,
    MaxChats,     \*   conversations begun,
    MaxSwitches   \*   persona buttons clicked

ASSUME ChatPageAssumption ==
    /\ PRIVILEGED_ROLES \subseteq Roles
    /\ Roles # {}
    /\ NoFile \notin Files
    /\ MaxSends \in Nat /\ MaxChats \in Nat /\ MaxSwitches \in Nat

VARIABLES
    stored,     \* localStorage: JWT_KEY and ROLE_KEY
    page,       \* the React state of the page, and whether it is mounted
    waiting,    \* chat requests without an answer yet
    switching,  \* token requests without an answer yet
    reading,    \* files being read
    sent,       \* history: the number of messages sent,
    chat,       \*   of conversations begun,
    mounts,     \*   of times the page was mounted,
    switches,   \*   of persona clicks
    trouble     \* history: under this mount a token request was refused or overtaken

display == <<page, waiting>>
counts == <<sent, chat, mounts, switches>>
vars == <<stored, display, switching, reading, counts, trouble>>

Message == [n : Nat, chat : Nat]
Turn == [msg : Message, after : Seq(Message)]
Request == [msg : Message, after : Seq(Message), csv : Files \cup {NoFile},
            jwt : Roles, mount : Nat]
Switch == [n : Nat, role : Roles, mount : Nat]
Reading == [file : Files, mount : Nat]

Blank(here, jwt, role) ==
    [here |-> here, jwt |-> jwt, role |-> role, csv |-> NoFile, turns |-> << >>,
     loading |-> FALSE]

Init ==
    /\ stored \in {[jwt |-> r, role |-> r] : r \in Roles}
    /\ page = Blank(FALSE, stored.jwt, stored.role)
    /\ waiting = {} /\ switching = {} /\ reading = {}
    /\ sent = 0 /\ chat = 0 /\ mounts = 0 /\ switches = 0
    /\ trouble = FALSE

\* What was begun under this mount; the rest belongs to pages that are gone.
Mine(x) == page.here /\ x.mount = mounts

-------------------------------------------------------------------------------
(* The page comes and goes. *)

Mount ==
    /\ ~page.here
    /\ chat < MaxChats
    /\ page' = Blank(TRUE, stored.jwt, stored.role)
    /\ mounts' = mounts + 1
    /\ chat' = chat + 1
    /\ trouble' = FALSE
    /\ UNCHANGED <<stored, waiting, switching, reading, sent, switches>>

\* To the tokenizer, the admin console or setup.
Leave ==
    /\ page.here
    /\ page' = Blank(FALSE, page.jwt, page.role)
    /\ UNCHANGED <<stored, waiting, switching, reading, counts, trouble>>

\* A reload or a closed tab: what was under way comes back to nobody.
Reload ==
    /\ page' = Blank(FALSE, page.jwt, page.role)
    /\ waiting' = {} /\ switching' = {} /\ reading' = {}
    /\ UNCHANGED <<stored, counts, trouble>>

\* The login and register pages store the token and the role of the gateway's answer
\* and push /setup, though the user may have gone to the chat page meanwhile.
LogIn(role) ==
    /\ stored' = [jwt |-> role, role |-> role]
    /\ page' = Blank(FALSE, page.jwt, page.role)
    /\ UNCHANGED <<waiting, switching, reading, counts, trouble>>

-------------------------------------------------------------------------------
(* Conversations. *)

Messages(turns) == [i \in 1 .. Len(turns) |-> turns[i].msg]

Composed ==
    [msg |-> [n |-> sent + 1, chat |-> chat], after |-> Messages(page.turns),
     csv |-> page.csv, jwt |-> page.jwt, mount |-> mounts]

\* Mutant: a message may be sent while another one is under way.
HandleSendAgain ==
    /\ page.here
    /\ sent < MaxSends
    /\ page' = [page EXCEPT !.loading = TRUE]
    /\ waiting' = waiting \cup {Composed}
    /\ sent' = sent + 1
    /\ UNCHANGED <<stored, switching, reading, chat, mounts, switches, trouble>>

HandleSend ==
    /\ page.here
    /\ ~page.loading
    /\ sent < MaxSends
    /\ page' = [page EXCEPT !.loading = TRUE]
    /\ waiting' = waiting \cup {Composed}
    /\ sent' = sent + 1
    /\ UNCHANGED <<stored, switching, reading, chat, mounts, switches, trouble>>

\* Mutant: setTurns([...turns, turn]), with the turns of the click on Send.
ShowsOverOld(q) ==
    [page EXCEPT !.turns = [i \in 1 .. Len(q.after) |->
                                [msg |-> q.after[i], after |-> SubSeq(q.after, 1, i - 1)]]
                              \o <<[msg |-> q.msg, after |-> q.after]>>,
                 !.loading = FALSE]

\* A turn is shown at the end of what is on display by now.
Shows(q) ==
    [page EXCEPT !.turns = Append(@, [msg |-> q.msg, after |-> q.after]), !.loading = FALSE]

Answered(q) ==
    /\ q \in waiting
    /\ waiting' = waiting \ {q}
    /\ page' = IF Mine(q) THEN Shows(q) ELSE page
    /\ UNCHANGED <<stored, switching, reading, counts, trouble>>

\* Mutant: loading is only reset with an answer.
FailedLoading(q) ==
    /\ q \in waiting
    /\ waiting' = waiting \ {q}
    /\ UNCHANGED <<stored, page, switching, reading, counts, trouble>>

Failed(q) ==
    /\ q \in waiting
    /\ waiting' = waiting \ {q}
    /\ page' = IF Mine(q) THEN [page EXCEPT !.loading = FALSE] ELSE page
    /\ UNCHANGED <<stored, switching, reading, counts, trouble>>

\* Mutant: a new chat gives the message box back.
HandleNewChatReady ==
    /\ page.here
    /\ chat < MaxChats
    /\ page' = [page EXCEPT !.turns = << >>, !.csv = NoFile, !.loading = FALSE]
    /\ chat' = chat + 1
    /\ UNCHANGED <<stored, waiting, switching, reading, sent, mounts, switches, trouble>>

HandleNewChat ==
    /\ page.here
    /\ chat < MaxChats
    /\ page' = [page EXCEPT !.turns = << >>, !.csv = NoFile]
    /\ chat' = chat + 1
    /\ UNCHANGED <<stored, waiting, switching, reading, sent, mounts, switches, trouble>>

-------------------------------------------------------------------------------
(* Personas. *)

Asks(role) ==
    /\ switches < MaxSwitches
    /\ switches' = switches + 1
    /\ trouble' = (trouble \/ \E w \in switching : Mine(w))
    /\ switching' = switching \cup {[n |-> switches + 1, role |-> role, mount |-> mounts]}

\* Mutant: updateRole stores the role before it has the token.
HandleRoleChangeStores(role) ==
    /\ page.here
    /\ Asks(role)
    /\ page' = [page EXCEPT !.role = role]
    /\ stored' = [stored EXCEPT !.role = role]
    /\ UNCHANGED <<waiting, reading, sent, chat, mounts>>

HandleRoleChange(role) ==
    /\ page.here
    /\ Asks(role)
    /\ page' = [page EXCEPT !.role = role]
    /\ UNCHANGED <<stored, waiting, reading, sent, chat, mounts>>

\* Mutant: the page keeps the token it was mounted with.
RoleUpdatedStored(w) ==
    /\ w \in switching
    /\ w.role \notin PRIVILEGED_ROLES
    /\ switching' = switching \ {w}
    /\ stored' = [jwt |-> w.role, role |-> w.role]
    /\ UNCHANGED <<display, reading, counts, trouble>>

\* updateRole returns, and the page takes the token from localStorage.
RoleUpdated(w) ==
    /\ w \in switching
    /\ w.role \notin PRIVILEGED_ROLES
    /\ switching' = switching \ {w}
    /\ stored' = [jwt |-> w.role, role |-> w.role]
    /\ page' = IF Mine(w) THEN [page EXCEPT !.jwt = w.role] ELSE page
    /\ UNCHANGED <<waiting, reading, counts, trouble>>

\* updateRole throws, and nothing after it runs.
RoleRefused(w) ==
    /\ w \in switching
    /\ switching' = switching \ {w}
    /\ trouble' = (trouble \/ Mine(w))
    /\ UNCHANGED <<stored, display, reading, counts>>

-------------------------------------------------------------------------------
(* Datasets: the upload strip offers a file only while there is none. *)

HandleFile(f) ==
    /\ page.here
    /\ page.csv = NoFile
    /\ reading' = reading \cup {[file |-> f, mount |-> mounts]}
    /\ UNCHANGED <<stored, display, switching, counts, trouble>>

\* A file without a header row changes nothing.
FileRead(x) ==
    /\ x \in reading
    /\ reading' = reading \ {x}
    /\ \/ Mine(x) /\ page' = [page EXCEPT !.csv = x.file]
       \/ UNCHANGED page
    /\ UNCHANGED <<stored, waiting, switching, counts, trouble>>

RemoveDataset ==
    /\ page.here
    /\ page.csv # NoFile
    /\ page' = [page EXCEPT !.csv = NoFile]
    /\ UNCHANGED <<stored, waiting, switching, reading, counts, trouble>>

-------------------------------------------------------------------------------
Returns == \E q \in waiting : Answered(q) \/ Failed(q)

Next ==
    \/ Mount \/ Leave \/ Reload \/ HandleSend \/ HandleNewChat \/ RemoveDataset
    \/ Returns
    \/ \E r \in Roles : LogIn(r) \/ HandleRoleChange(r)
    \/ \E w \in switching : RoleUpdated(w) \/ RoleRefused(w)
    \/ \E f \in Files : HandleFile(f)
    \/ \E x \in reading : FileRead(x)

Spec == Init /\ [][Next]_vars

\* The gateway answers every request, or the connection breaks.
FairSpec == Spec /\ WF_vars(Returns)

-------------------------------------------------------------------------------
\* Type correctness of localStorage, the page, what is under way and the history.
TypeOK ==
    /\ stored \in [jwt : Roles, role : Roles]
    /\ page \in [here : BOOLEAN, jwt : Roles, role : Roles, csv : Files \cup {NoFile},
                 turns : Seq(Turn), loading : BOOLEAN]
    /\ waiting \subseteq Request
    /\ switching \subseteq Switch
    /\ reading \subseteq Reading
    /\ sent \in Nat /\ chat \in Nat /\ mounts \in Nat /\ switches \in Nat
    /\ trouble \in BOOLEAN

-------------------------------------------------------------------------------
(* Properties. *)

\* The message box is locked exactly while the page waits for an answer, and never
\* for two: whatever the user does meanwhile, answers cannot change places.
OneAtATime ==
    /\ \A p, q \in waiting : Mine(p) /\ Mine(q) => p = q
    /\ page.loading <=> \E q \in waiting : Mine(q)

\* What the LLM was told before a message is what the user sees above it: a turn of
\* this conversation was asked after exactly the turns on display before it.
ToldAsShown ==
    \A i \in 1 .. Len(page.turns) :
        page.turns[i].msg.chat = chat =>
            page.turns[i].after = [j \in 1 .. i - 1 |-> page.turns[j].msg]

\* An answer that was under way when the user clicked New Chat still appears, but
\* nothing else of an earlier conversation does.
StrayComesFirst ==
    \A i \in 1 .. Len(page.turns) : page.turns[i].msg.chat # chat => i = 1

\* Why the two hold.  An answer under way was asked after what is on display by now,
\* or New Chat has been clicked since and nothing is; and no message is of a
\* conversation yet to come.
ConversationInv ==
    /\ OneAtATime /\ ToldAsShown /\ StrayComesFirst
    /\ \A q \in waiting : Mine(q) =>
           \/ q.msg.chat = chat /\ q.after = Messages(page.turns)
           \/ q.msg.chat # chat /\ page.turns = << >>
    /\ \A q \in waiting : q.msg.chat <= chat /\ q.mount <= mounts
    /\ ~page.here => ~page.loading

\* page.tsx, handleNewChat: the conversation is cleared.  Nothing of an earlier
\* conversation is sent with a message of a new one.
NothingCarriedOver ==
    \A q \in waiting : \A i \in 1 .. Len(q.after) : q.after[i].chat = q.msg.chat

\* admin/page.tsx takes the role and the token from localStorage: whichever page or
\* late answer wrote last, they belong together.
StoredTogether == stored.role = stored.jwt

\* page.tsx, "Viewing as": once no token request is under way, messages are sent with
\* the persona on display, unless a request was refused or overtaken by another.
PersonaFollows ==
    page.here /\ ~trouble /\ (\A w \in switching : ~Mine(w)) => page.role = page.jwt

\* The message box comes back.
LoadingEnds == page.loading ~> ~page.loading
===============================================================================
