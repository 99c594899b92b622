------------------------------ MODULE ChatProofs ------------------------------
(* What the chat page shows and stores, and what its display adds, for any files,    *)
(* roles and bounds.                                                                 *)
EXTENDS ChatView, SequenceTheorems, TLAPS

-------------------------------------------------------------------------------
(* Types. *)

\* The messages of a list of turns are a list of messages.
LEMMA MessagesType ==
    ASSUME NEW t \in Seq(Turn) PROVE Messages(t) \in Seq(Message)
<1>1. t \in [1 .. Len(t) -> Turn] /\ Len(t) \in Nat
  OBVIOUS
<1>2. Messages(t) \in [1 .. Len(t) -> Message]
  BY <1>1 DEF Messages, Turn
<1> QED
  BY <1>1, <1>2, SeqDef

\* A page with nothing on display is a page.
LEMMA BlankType ==
    ASSUME NEW here \in BOOLEAN, NEW jwt \in Roles, NEW role \in Roles
    PROVE  Blank(here, jwt, role) \in
               [here : BOOLEAN, jwt : Roles, role : Roles, csv : Files \cup {NoFile},
                turns : Seq(Turn), loading : BOOLEAN]
<1>1. << >> \in Seq(Turn)
  OBVIOUS
<1> QED
  BY <1>1 DEF Blank

\* Every answer shown and every message under way keeps its shape.
THEOREM TypeCorrect == Spec => []TypeOK
<1>1. Init => TypeOK
  <2> SUFFICES ASSUME Init PROVE TypeOK
    OBVIOUS
  <2>1. stored \in [jwt : Roles, role : Roles]
    BY DEF Init
  <2>2. page \in [here : BOOLEAN, jwt : Roles, role : Roles, csv : Files \cup {NoFile},
                  turns : Seq(Turn), loading : BOOLEAN]
    BY <2>1, BlankType DEF Init
  <2> QED
    BY <2>1, <2>2 DEF Init, TypeOK
<1>2. TypeOK /\ [Next]_vars => TypeOK'
  <2> SUFFICES ASSUME TypeOK, [Next]_vars PROVE TypeOK'
    OBVIOUS
  <2>1. CASE Mount
    <3>1. page' = Blank(TRUE, stored.jwt, stored.role) /\ UNCHANGED stored
      BY <2>1 DEF Mount
    <3>2. mounts' \in Nat /\ chat' \in Nat /\ UNCHANGED <<sent, switches>>
      BY <2>1 DEF TypeOK, Mount
    <3>3. trouble' \in BOOLEAN /\ UNCHANGED <<waiting, switching, reading>>
      BY <2>1 DEF Mount
    <3> QED
      BY <3>1, <3>2, <3>3, BlankType DEF TypeOK
  <2>2. CASE Leave
    BY <2>2, BlankType DEF TypeOK, Leave, counts
  <2>3. CASE Reload
    BY <2>3, BlankType DEF TypeOK, Reload, counts
  <2>4. CASE HandleSend
    <3>1. Composed \in Request
      BY MessagesType DEF TypeOK, Composed, Request, Message
    <3>2. sent' \in Nat /\ UNCHANGED <<chat, mounts, switches, trouble>>
      BY <2>4 DEF TypeOK, HandleSend
    <3>3. page' = [page EXCEPT !.loading = TRUE] /\ waiting' = waiting \cup {Composed}
          /\ UNCHANGED <<stored, switching, reading>>
      BY <2>4 DEF HandleSend
    <3> QED
      BY <3>1, <3>2, <3>3 DEF TypeOK
  <2>5. CASE HandleNewChat
    <3>1. << >> \in Seq(Turn)
      OBVIOUS
    <3>2. chat' \in Nat /\ UNCHANGED <<sent, mounts, switches, trouble>>
      BY <2>5 DEF TypeOK, HandleNewChat
    <3>3. page' = [page EXCEPT !.turns = << >>, !.csv = NoFile]
          /\ UNCHANGED <<stored, waiting, switching, reading>>
      BY <2>5 DEF HandleNewChat
    <3> QED
      BY <3>1, <3>2, <3>3 DEF TypeOK
  <2>6. CASE RemoveDataset
    BY <2>6 DEF TypeOK, RemoveDataset, counts
  <2>7. ASSUME NEW q \in waiting, Answered(q) PROVE TypeOK'
    <3>1. [msg |-> q.msg, after |-> q.after] \in Turn
      BY DEF TypeOK, Request, Turn
    <3>2. Append(page.turns, [msg |-> q.msg, after |-> q.after]) \in Seq(Turn)
      BY <3>1 DEF TypeOK
    <3> QED
      BY <2>7, <3>2 DEF TypeOK, Answered, Shows, counts
  <2>8. ASSUME NEW q \in waiting, Failed(q) PROVE TypeOK'
    BY <2>8 DEF TypeOK, Failed, counts
  <2>9. ASSUME NEW r \in Roles, LogIn(r) PROVE TypeOK'
    BY <2>9, BlankType DEF TypeOK, LogIn, counts
  <2>10. ASSUME NEW r \in Roles, HandleRoleChange(r) PROVE TypeOK'
    <3>1. switches' \in Nat /\ trouble' \in BOOLEAN
      BY <2>10 DEF TypeOK, HandleRoleChange, Asks
    <3>2. switching' \subseteq Switch
      BY <2>10 DEF TypeOK, HandleRoleChange, Asks, Switch
    <3>3. page' = [page EXCEPT !.role = r] /\ UNCHANGED <<stored, waiting, reading, sent, chat, mounts>>
      BY <2>10 DEF HandleRoleChange
    <3> QED
      BY <3>1, <3>2, <3>3 DEF TypeOK
  <2>11. ASSUME NEW w \in switching, RoleUpdated(w) PROVE TypeOK'
    BY <2>11 DEF TypeOK, RoleUpdated, Switch, counts
  <2>12. ASSUME NEW w \in switching, RoleRefused(w) PROVE TypeOK'
    BY <2>12 DEF TypeOK, RoleRefused, counts, display, Mine
  <2>13. ASSUME NEW f \in Files, HandleFile(f) PROVE TypeOK'
    BY <2>13 DEF TypeOK, HandleFile, Reading, counts, display
  <2>14. ASSUME NEW x \in reading, FileRead(x) PROVE TypeOK'
    BY <2>14 DEF TypeOK, FileRead, Reading, counts
  <2>15. CASE UNCHANGED vars
    BY <2>15 DEF TypeOK, vars, display, counts
  <2> QED
    BY <2>1, <2>2, <2>3, <2>4, <2>5, <2>6, <2>7, <2>8, <2>9, <2>10, <2>11, <2>12, <2>13,
       <2>14, <2>15 DEF Next, Returns
<1> QED
  BY <1>1, <1>2, PTL DEF Spec

-------------------------------------------------------------------------------
(* What is on display was told. *)

\* Steps that touch neither what is on display nor what is under way.
LEMMA Aside ==
    ASSUME ConversationInv, UNCHANGED <<waiting, chat, mounts>>,
           page'.here = page.here, page'.turns = page.turns, page'.loading = page.loading
    PROVE  ConversationInv'
BY DEF ConversationInv, OneAtATime, ToldAsShown, StrayComesFirst, Mine, Messages

\* Steps that end with the page gone.
LEMMA Gone ==
    ASSUME ConversationInv, UNCHANGED <<chat, mounts>>, waiting' \subseteq waiting,
           ~page'.here, page'.turns = << >>, ~page'.loading
    PROVE  ConversationInv'
BY DEF ConversationInv, OneAtATime, ToldAsShown, StrayComesFirst, Mine

\* ConversationInv is inductive: it holds of every page, whatever comes back when.
LEMMA Conversations == Spec => []ConversationInv
<1>1. Init => ConversationInv
  BY DEF Init, Blank, ConversationInv, OneAtATime, ToldAsShown, StrayComesFirst, Mine
<1>2. TypeOK /\ TypeOK' /\ ConversationInv /\ [Next]_vars => ConversationInv'
  <2> SUFFICES ASSUME TypeOK, TypeOK', ConversationInv, [Next]_vars PROVE ConversationInv'
    OBVIOUS
  <2> USE DEF Mine
  <2>1. CASE Mount
    <3>1. page'.here /\ page'.turns = << >> /\ ~page'.loading
      BY <2>1 DEF Mount, Blank
    <3>2. waiting' = waiting /\ mounts' = mounts + 1 /\ chat' = chat + 1
      BY <2>1 DEF Mount
    <3>3. \A q \in waiting : /\ q.msg.chat <= chat /\ q.mount <= mounts
                             /\ q.msg.chat \in Nat /\ q.mount \in Nat
      BY DEF ConversationInv, TypeOK, Request, Message
    <3>4. \A q \in waiting' : /\ q.msg.chat <= chat' /\ q.mount <= mounts'
                              /\ q.mount # mounts'
      BY <3>2, <3>3 DEF TypeOK
    <3> QED
      BY <3>1, <3>2, <3>4 DEF ConversationInv, OneAtATime, ToldAsShown, StrayComesFirst
  <2>2. CASE Leave
    BY <2>2, Gone DEF Leave, Blank, counts
  <2>3. CASE Reload
    BY <2>3, Gone DEF Reload, Blank, counts
  <2>4. CASE HandleSend
    <3>1. /\ page'.turns = page.turns /\ page'.loading /\ page'.here = page.here
          /\ page.here /\ ~page.loading
      BY <2>4 DEF HandleSend, TypeOK
    <3> PICK new : new = Composed
      OBVIOUS
    <3>2. waiting' = waiting \cup {new} /\ UNCHANGED <<chat, mounts>>
      BY <2>4 DEF HandleSend
    <3>3. /\ new.msg.chat = chat /\ new.mount = mounts
          /\ new.after = Messages(page.turns)
      BY DEF Composed
    <3>4. Messages(page'.turns) = Messages(page.turns)
      BY <3>1 DEF Messages
    <3>5. \A q \in waiting' : Mine(q)' => q = new
      BY <3>1, <3>2 DEF ConversationInv, OneAtATime
    <3>6. Mine(new)'
      BY <3>1, <3>2, <3>3
    <3>7. OneAtATime'
      BY <3>1, <3>2, <3>5, <3>6 DEF OneAtATime
    <3>8. ToldAsShown' /\ StrayComesFirst'
      BY <3>1, <3>2 DEF ConversationInv, ToldAsShown, StrayComesFirst
    <3>9. \A q \in waiting' : q.msg.chat <= chat' /\ q.mount <= mounts'
      BY <3>2, <3>3 DEF ConversationInv, TypeOK
    <3> QED
      BY <3>1, <3>2, <3>3, <3>4, <3>5, <3>7, <3>8, <3>9 DEF ConversationInv
  <2>5. CASE HandleNewChat
    <3>1. /\ page'.turns = << >> /\ page'.loading = page.loading /\ page'.here = page.here
          /\ page.here
      BY <2>5 DEF HandleNewChat, TypeOK
    <3>2. waiting' = waiting /\ mounts' = mounts /\ chat' = chat + 1
      BY <2>5 DEF HandleNewChat
    <3>3. \A q \in waiting : q.msg.chat <= chat /\ q.msg.chat \in Nat
      BY DEF ConversationInv, TypeOK, Request, Message
    <3>4. \A q \in waiting' : q.msg.chat <= chat' /\ q.msg.chat # chat'
      BY <3>2, <3>3 DEF TypeOK
    <3>5. OneAtATime'
      BY <3>1, <3>2 DEF ConversationInv, OneAtATime
    <3>6. ToldAsShown' /\ StrayComesFirst'
      BY <3>1 DEF ToldAsShown, StrayComesFirst
    <3> QED
      BY <3>1, <3>2, <3>4, <3>5, <3>6 DEF ConversationInv
  <2>6. ASSUME NEW q \in waiting, Answered(q) PROVE ConversationInv'
    <3>1. CASE ~Mine(q)
      <4>1. page' = page /\ waiting' = waiting \ {q} /\ UNCHANGED <<chat, mounts>>
        BY <2>6, <3>1 DEF Answered, counts
      <4> QED
        BY <3>1, <4>1 DEF ConversationInv, OneAtATime, ToldAsShown, StrayComesFirst,
                          Messages
    <3>2. CASE Mine(q)
      <4> DEFINE t == page.turns
                 e == [msg |-> q.msg, after |-> q.after]
      <4>1. /\ page'.turns = Append(t, e) /\ ~page'.loading /\ page'.here = page.here
            /\ waiting' = waiting \ {q} /\ UNCHANGED <<chat, mounts>>
        BY <2>6, <3>2 DEF Answered, Shows, TypeOK, counts
      <4>2. t \in Seq(Turn) /\ e \in Turn
        BY DEF TypeOK, Request, Turn
      <4>3. /\ Len(page'.turns) = Len(t) + 1 /\ Len(t) \in Nat
            /\ page'.turns[Len(t) + 1] = e
            /\ \A i \in 1 .. Len(t) : page'.turns[i] = t[i]
        BY <4>1, <4>2, AppendProperties
      <4>4. \A p \in waiting' : ~Mine(p)'
        BY <3>2, <4>1 DEF ConversationInv, OneAtATime
      <4>5. \/ q.msg.chat = chat /\ q.after = Messages(t)
            \/ q.msg.chat # chat /\ t = << >>
        BY <3>2 DEF ConversationInv
      <4>6. ToldAsShown'
        <5> SUFFICES ASSUME NEW i \in 1 .. Len(page'.turns), page'.turns[i].msg.chat = chat
                     PROVE  page'.turns[i].after = [j \in 1 .. i - 1 |-> page'.turns[j].msg]
          BY <4>1 DEF ToldAsShown
        <5>1. CASE i \in 1 .. Len(t)
          <6>1. t[i].after = [j \in 1 .. i - 1 |-> t[j].msg]
            BY <4>3, <5>1 DEF ConversationInv, ToldAsShown
          <6>2. \A j \in 1 .. i - 1 : page'.turns[j] = t[j]
            BY <4>3, <5>1
          <6> QED
            BY <4>3, <5>1, <6>1, <6>2
        <5>2. CASE i = Len(t) + 1
          <6>1. page'.turns[i].after = [j \in 1 .. Len(t) |-> t[j].msg]
            BY <4>3, <4>5, <5>2 DEF Messages
          <6>2. i - 1 = Len(t)
            BY <4>3, <5>2
          <6> QED
            BY <4>3, <6>1, <6>2
        <5> QED
          BY <4>3, <5>1, <5>2
      <4>7. StrayComesFirst'
        <5> SUFFICES ASSUME NEW i \in 1 .. Len(page'.turns), page'.turns[i].msg.chat # chat
                     PROVE  i = 1
          BY <4>1 DEF StrayComesFirst
        <5>1. CASE i \in 1 .. Len(t)
          BY <4>3, <5>1 DEF ConversationInv, StrayComesFirst
        <5>2. CASE i = Len(t) + 1
          BY <4>3, <4>5, <5>2
        <5> QED
          BY <4>3, <5>1, <5>2
      <4>8. OneAtATime'
        BY <4>1, <4>4 DEF OneAtATime
      <4> QED
        BY <4>1, <4>4, <4>6, <4>7, <4>8 DEF ConversationInv
    <3> QED
      BY <3>1, <3>2
  <2>7. ASSUME NEW q \in waiting, Failed(q) PROVE ConversationInv'
    <3>1. /\ page'.turns = page.turns /\ page'.here = page.here
          /\ waiting' = waiting \ {q} /\ UNCHANGED <<chat, mounts>>
          /\ page'.loading = IF Mine(q) THEN FALSE ELSE page.loading
      BY <2>7 DEF Failed, counts, TypeOK
    <3>2. OneAtATime'
      BY <3>1 DEF ConversationInv, OneAtATime
    <3>3. ToldAsShown' /\ StrayComesFirst'
      BY <3>1 DEF ConversationInv, ToldAsShown, StrayComesFirst
    <3>4. Messages(page'.turns) = Messages(page.turns)
      BY <3>1 DEF Messages
    <3> QED
      BY <3>1, <3>2, <3>3, <3>4 DEF ConversationInv
  <2>8. ASSUME NEW r \in Roles, LogIn(r) PROVE ConversationInv'
    BY <2>8, Gone DEF LogIn, Blank, counts
  <2>9. CASE RemoveDataset
    BY <2>9, Aside DEF RemoveDataset, counts, TypeOK
  <2>10. ASSUME NEW r \in Roles, HandleRoleChange(r) PROVE ConversationInv'
    BY <2>10, Aside DEF HandleRoleChange, TypeOK
  <2>11. ASSUME NEW w \in switching, RoleUpdated(w) PROVE ConversationInv'
    BY <2>11, Aside DEF RoleUpdated, counts, TypeOK
  <2>12. ASSUME NEW w \in switching, RoleRefused(w) PROVE ConversationInv'
    BY <2>12, Aside DEF RoleRefused, counts, display
  <2>13. ASSUME NEW f \in Files, HandleFile(f) PROVE ConversationInv'
    BY <2>13, Aside DEF HandleFile, counts, display
  <2>14. ASSUME NEW x \in reading, FileRead(x) PROVE ConversationInv'
    BY <2>14, Aside DEF FileRead, counts, TypeOK
  <2>15. CASE UNCHANGED vars
    BY <2>15, Aside DEF vars, display, counts
  <2> QED
    BY <2>1, <2>2, <2>3, <2>4, <2>5, <2>6, <2>7, <2>8, <2>9, <2>10, <2>11, <2>12, <2>13,
       <2>14, <2>15 DEF Next, Returns
<1> QED
  BY <1>1, <1>2, TypeCorrect, PTL DEF Spec

\* handleSend, loading: the message box is locked for exactly one message under way, so
\* that answers cannot change places.
THEOREM AnswersInOrder == Spec => []OneAtATime
<1>1. ConversationInv => OneAtATime
  BY DEF ConversationInv
<1> QED
  BY <1>1, Conversations, PTL

\* What the LLM was told before a message is what is on display above it.
THEOREM DisplayTrue == Spec => []ToldAsShown
<1>1. ConversationInv => ToldAsShown
  BY DEF ConversationInv
<1> QED
  BY <1>1, Conversations, PTL

\* handleNewChat: at most one answer of an earlier conversation is on display, on top.
THEOREM StraysOnTop == Spec => []StrayComesFirst
<1>1. ConversationInv => StrayComesFirst
  BY DEF ConversationInv
<1> QED
  BY <1>1, Conversations, PTL

-------------------------------------------------------------------------------
(* Personas. *)

\* Without trouble at most one token request is under way, for the persona on display.
PersonaInv ==
    /\ StoredTogether /\ PersonaFollows
    /\ \A w \in switching : w.mount <= mounts
    /\ ~trouble => \A w \in switching : Mine(w) =>
           w.role = page.role /\ \A v \in switching : Mine(v) => v = w

\* PersonaInv is inductive: whatever else comes back late, and from whichever page.
LEMMA Personas == Spec => []PersonaInv
<1>1. Init => PersonaInv
  BY DEF Init, Blank, PersonaInv, StoredTogether, PersonaFollows, Mine
<1>2. TypeOK /\ PersonaInv /\ [Next]_vars => PersonaInv'
  <2> SUFFICES ASSUME TypeOK, PersonaInv, [Next]_vars PROVE PersonaInv'
    OBVIOUS
  <2> USE DEF Mine
  <2>1. CASE Mount
    <3>1. page'.here /\ page'.role = stored.role /\ page'.jwt = stored.jwt /\ stored' = stored
      BY <2>1 DEF Mount, Blank
    <3>2. switching' = switching /\ mounts' = mounts + 1
      BY <2>1 DEF Mount
    <3>3. \A w \in switching : w.mount <= mounts /\ w.mount \in Nat
      BY DEF PersonaInv, TypeOK, Switch
    <3>4. \A w \in switching' : w.mount <= mounts' /\ w.mount # mounts'
      BY <3>2, <3>3 DEF TypeOK
    <3> QED
      BY <3>1, <3>4 DEF PersonaInv, StoredTogether, PersonaFollows
  <2>2. CASE Leave
    BY <2>2 DEF Leave, Blank, counts, PersonaInv, StoredTogether, PersonaFollows
  <2>3. CASE Reload
    BY <2>3 DEF Reload, Blank, counts, PersonaInv, StoredTogether, PersonaFollows
  <2>4. ASSUME NEW r \in Roles, LogIn(r) PROVE PersonaInv'
    BY <2>4 DEF LogIn, Blank, counts, PersonaInv, StoredTogether, PersonaFollows
  <2>5. ASSUME NEW r \in Roles, HandleRoleChange(r) PROVE PersonaInv'
    <3> PICK new : new = [n |-> switches + 1, role |-> r, mount |-> mounts]
      OBVIOUS
    <3>1. /\ page.here /\ page'.here /\ page'.role = r
          /\ UNCHANGED <<stored, mounts>>
      BY <2>5 DEF HandleRoleChange, TypeOK
    <3>2. /\ switching' = switching \cup {new}
          /\ trouble' = (trouble \/ \E w \in switching : Mine(w))
      BY <2>5 DEF HandleRoleChange, Asks
    <3>3. new.role = r /\ new.mount = mounts
      OBVIOUS
    <3>4. ~trouble' => \A w \in switching' : Mine(w)' => w = new
      BY <3>1, <3>2
    <3>5. \A w \in switching' : w.mount <= mounts'
      BY <3>1, <3>2, <3>3 DEF PersonaInv, TypeOK
    <3>6. \E w \in switching' : Mine(w)'
      BY <3>1, <3>2, <3>3
    <3> QED
      BY <3>1, <3>3, <3>4, <3>5, <3>6 DEF PersonaInv, StoredTogether, PersonaFollows
  <2>6. ASSUME NEW w \in switching, RoleUpdated(w) PROVE PersonaInv'
    <3>1. /\ switching' = switching \ {w} /\ UNCHANGED <<mounts, trouble>>
          /\ stored'.role = stored'.jwt
          /\ page'.here = page.here /\ page'.role = page.role
          /\ page'.jwt = IF Mine(w) THEN w.role ELSE page.jwt
      BY <2>6 DEF RoleUpdated, TypeOK, counts
    <3>2. CASE Mine(w)
      BY <3>1, <3>2 DEF PersonaInv, StoredTogether, PersonaFollows
    <3>3. CASE ~Mine(w)
      BY <3>1, <3>3 DEF PersonaInv, StoredTogether, PersonaFollows
    <3> QED
      BY <3>2, <3>3
  <2>7. ASSUME NEW w \in switching, RoleRefused(w) PROVE PersonaInv'
    <3>1. /\ switching' = switching \ {w} /\ trouble' = (trouble \/ Mine(w))
          /\ UNCHANGED <<stored, page, mounts>>
      BY <2>7 DEF RoleRefused, counts, display
    <3> QED
      BY <3>1 DEF PersonaInv, StoredTogether, PersonaFollows
  <2>8. CASE UNCHANGED <<stored, switching, mounts, trouble>>
           /\ page'.here = page.here /\ page'.role = page.role /\ page'.jwt = page.jwt
    BY <2>8 DEF PersonaInv, StoredTogether, PersonaFollows
  <2>9. CASE HandleSend \/ HandleNewChat \/ RemoveDataset
    BY <2>8, <2>9 DEF HandleSend, HandleNewChat, RemoveDataset, TypeOK, counts
  <2>10. ASSUME NEW q \in waiting, Answered(q) \/ Failed(q) PROVE PersonaInv'
    BY <2>8, <2>10 DEF Answered, Failed, Shows, TypeOK, counts
  <2>11. ASSUME NEW f \in Files, HandleFile(f) PROVE PersonaInv'
    BY <2>8, <2>11 DEF HandleFile, counts, display
  <2>12. ASSUME NEW x \in reading, FileRead(x) PROVE PersonaInv'
    BY <2>8, <2>12 DEF FileRead, TypeOK, counts
  <2>13. CASE UNCHANGED vars
    BY <2>8, <2>13 DEF vars, display, counts
  <2> QED
    BY <2>1, <2>2, <2>3, <2>4, <2>5, <2>6, <2>7, <2>9, <2>10, <2>11, <2>12, <2>13
       DEF Next, Returns
<1> QED
  BY <1>1, <1>2, TypeCorrect, PTL DEF Spec

\* setToken, setRole: the role and the token in localStorage belong together, whichever
\* page or late answer wrote last.
THEOREM StoredTrue == Spec => []StoredTogether
<1>1. PersonaInv => StoredTogether
  BY DEF PersonaInv
<1> QED
  BY <1>1, Personas, PTL

\* Once no token request is under way messages are sent with the persona on display,
\* unless one was refused or overtaken.
THEOREM PersonaTrue == Spec => []PersonaFollows
<1>1. PersonaInv => PersonaFollows
  BY DEF PersonaInv
<1> QED
  BY <1>1, Personas, PTL

-------------------------------------------------------------------------------
(* The display is the chat page with more to see. *)

\* Every action of the display is one of the page, or leaves the page alone.
LEMMA ViewStep == [ViewNext]_viewVars => [Next]_vars
<1> SUFFICES ASSUME [ViewNext]_viewVars PROVE [Next]_vars
  OBVIOUS
<1>1. CASE Clears
  BY <1>1 DEF Clears, Next
<1>2. CASE ViewSend
  BY <1>2 DEF ViewSend, Next
<1>3. ASSUME NEW r \in Roles, ClearsByLogIn(r) \/ ViewRoleChange(r) PROVE Next
  BY <1>3 DEF ClearsByLogIn, ViewRoleChange, Next
<1>4. ASSUME NEW q \in waiting, ViewAnswered(q) \/ ViewFailed(q) PROVE Next
  BY <1>4 DEF ViewAnswered, ViewFailed, Next, Returns
<1>5. ASSUME NEW w \in switching, ViewRoleUpdated(w) PROVE Next
  BY <1>5 DEF ViewRoleUpdated, Next
<1>6. ASSUME NEW i \in 1 .. MaxSends, Select(i) PROVE UNCHANGED vars
  BY <1>6 DEF Select
<1>7. CASE Unseen
  BY <1>7 DEF Unseen, Next
<1>8. CASE UNCHANGED viewVars
  BY <1>8 DEF viewVars
<1> QED
  BY <1>1, <1>2, <1>3, <1>4, <1>5, <1>6, <1>7, <1>8 DEF ViewNext

\* The display changes nothing of what ChatPage says: all that is proved of the page
\* holds of the page with its display.
THEOREM DisplayRefines == ViewSpec => Spec
<1>1. ViewInit => Init
  BY DEF ViewInit
<1> QED
  BY <1>1, ViewStep, PTL DEF ViewSpec, Spec

-------------------------------------------------------------------------------
(* The persona markers. *)

Markers == Seq([role : Roles, above : Nat])
AskedView == [n : Nat, jwt : Roles, seen : Nat]

\* The last marker on display tells whose token the page holds, and a message was sent
\* with the token of the last marker of its time.
MarkerInv ==
    /\ view \in [markers : Markers, selected : Nat, asked : SUBSET AskedView]
    /\ view.markers # << >> => page.jwt = view.markers[Len(view.markers)].role
    /\ \A a \in view.asked :
           /\ a.seen <= Len(view.markers)
           /\ a.seen > 0 => a.jwt = view.markers[a.seen].role

\* An empty display says nothing.
LEMMA ClearedInv == ASSUME view' = Cleared PROVE MarkerInv'
<1>1. << >> \in Markers /\ Cleared.markers = << >> /\ Cleared.asked = {}
  BY DEF Cleared, Markers
<1>2. Cleared \in [markers : Markers, selected : Nat, asked : SUBSET AskedView]
  BY <1>1 DEF Cleared, NoTurn
<1> QED
  BY <1>1, <1>2 DEF MarkerInv

\* What changes neither the token nor the markers, and asks nothing new.
LEMMA MarkersKept ==
    ASSUME MarkerInv, page'.jwt = page.jwt,
           view'.markers = view.markers, view'.asked \subseteq view.asked,
           view' \in [markers : Markers, selected : Nat, asked : SUBSET AskedView]
    PROVE  MarkerInv'
BY DEF MarkerInv

\* Message by message, marker by marker.
LEMMA MarkerStep == TypeOK /\ MarkerInv /\ [ViewNext]_viewVars => MarkerInv'
<1> SUFFICES ASSUME TypeOK, MarkerInv, [ViewNext]_viewVars PROVE MarkerInv'
  OBVIOUS
<1>1. CASE Clears
  BY <1>1, ClearedInv DEF Clears
<1>2. CASE ViewSend
  <2> DEFINE new == [n |-> sent + 1, jwt |-> page.jwt, seen |-> Len(view.markers)]
  <2>1. Len(view.markers) \in Nat
    BY DEF MarkerInv, Markers
  <2>2. new \in AskedView
    BY <2>1 DEF TypeOK, AskedView
  <2>3. /\ view'.markers = view.markers /\ view'.asked = view.asked \cup {new}
        /\ view' \in [markers : Markers, selected : Nat, asked : SUBSET AskedView]
    BY <1>2, <2>2 DEF ViewSend, MarkerInv
  <2>4. page'.jwt = page.jwt
    BY <1>2 DEF ViewSend, HandleSend, TypeOK
  <2>5. new.seen = Len(view.markers) /\ new.jwt = page.jwt
    OBVIOUS
  <2>6. new.seen > 0 => new.jwt = view.markers[new.seen].role
    <3>1. Len(view.markers) > 0 => view.markers # << >>
      BY DEF MarkerInv, Markers
    <3> QED
      BY <3>1, <2>5 DEF MarkerInv
  <2> QED
    BY <2>1, <2>3, <2>4, <2>5, <2>6 DEF MarkerInv
<1>3. ASSUME NEW r \in Roles, ClearsByLogIn(r) \/ ViewRoleChange(r) PROVE MarkerInv'
  <2>1. CASE ClearsByLogIn(r)
    BY <2>1, ClearedInv DEF ClearsByLogIn
  <2>2. CASE ViewRoleChange(r)
    <3>1. page'.jwt = page.jwt /\ UNCHANGED view
      BY <2>2 DEF ViewRoleChange, HandleRoleChange, TypeOK
    <3> QED
      BY <3>1 DEF MarkerInv
  <2> QED
    BY <1>3, <2>1, <2>2
<1>4. ASSUME NEW q \in waiting, ViewAnswered(q) \/ ViewFailed(q) PROVE MarkerInv'
  <2>1. CASE ViewAnswered(q)
    <3>1. page'.jwt = page.jwt
      BY <2>1 DEF ViewAnswered, Answered, Shows, TypeOK
    <3>2. q.msg.n \in Nat
      BY DEF TypeOK, Request, Message
    <3>3. /\ view'.markers = view.markers /\ view'.asked = view.asked
          /\ view' \in [markers : Markers, selected : Nat, asked : SUBSET AskedView]
      BY <2>1, <3>2 DEF ViewAnswered, MarkerInv
    <3> QED
      BY <3>1, <3>3, MarkersKept
  <2>2. CASE ViewFailed(q)
    <3>1. page'.jwt = page.jwt
      BY <2>2 DEF ViewFailed, Failed, TypeOK
    <3>2. /\ view'.markers = view.markers /\ view'.asked \subseteq view.asked
          /\ view' \in [markers : Markers, selected : Nat, asked : SUBSET AskedView]
      BY <2>2 DEF ViewFailed, MarkerInv
    <3> QED
      BY <3>1, <3>2, MarkersKept
  <2> QED
    BY <1>4, <2>1, <2>2
<1>5. ASSUME NEW w \in switching, ViewRoleUpdated(w) PROVE MarkerInv'
  <2>1. CASE Mine(w)
    <3> DEFINE new == Marker(w.role)
    <3>1. Len(page.turns) \in Nat /\ w.role \in Roles
      BY DEF TypeOK, Switch
    <3>2. new \in [role : Roles, above : Nat] /\ new.role = w.role
      BY <3>1 DEF Marker
    <3>3. view'.markers = Append(view.markers, new) /\ view'.asked = view.asked
          /\ view'.selected = view.selected /\ view' = [view EXCEPT !.markers = Append(@, new)]
      BY <1>5, <2>1 DEF ViewRoleUpdated, MarkerInv
    <3>4. page'.jwt = w.role
      BY <1>5, <2>1 DEF ViewRoleUpdated, RoleUpdated, TypeOK
    <3>5. view.markers \in Seq([role : Roles, above : Nat])
      BY DEF MarkerInv, Markers
    <3>6. /\ Append(view.markers, new) \in Seq([role : Roles, above : Nat])
          /\ Len(view'.markers) = Len(view.markers) + 1 /\ Len(view.markers) \in Nat
          /\ view'.markers[Len(view'.markers)] = new
          /\ \A k \in 1 .. Len(view.markers) : view'.markers[k] = view.markers[k]
      BY <3>2, <3>3, <3>5
    <3>7. view' \in [markers : Markers, selected : Nat, asked : SUBSET AskedView]
      BY <3>3, <3>6 DEF MarkerInv, Markers
    <3>8. \A a \in view'.asked :
              /\ a.seen <= Len(view'.markers)
              /\ a.seen > 0 => a.jwt = view'.markers[a.seen].role
      BY <3>3, <3>6 DEF MarkerInv, AskedView
    <3> QED
      BY <3>2, <3>4, <3>6, <3>7, <3>8 DEF MarkerInv
  <2>2. CASE ~Mine(w)
    <3>1. page'.jwt = page.jwt /\ UNCHANGED view
      BY <1>5, <2>2 DEF ViewRoleUpdated, RoleUpdated
    <3> QED
      BY <3>1 DEF MarkerInv
  <2> QED
    BY <2>1, <2>2
<1>6. ASSUME NEW i \in 1 .. MaxSends, Select(i) PROVE MarkerInv'
  <2>1. page.turns[i].msg.n \in Nat
    <3>1. page.turns \in Seq(Turn)
      BY DEF TypeOK
    <3>2. page.turns[i] \in Turn
      BY <1>6, <3>1 DEF Select
    <3> QED
      BY <3>2 DEF Turn, Message
  <2>2. /\ view'.markers = view.markers /\ view'.asked = view.asked
        /\ view' \in [markers : Markers, selected : Nat, asked : SUBSET AskedView]
    BY <1>6, <2>1 DEF Select, MarkerInv
  <2>3. page'.jwt = page.jwt
    BY <1>6 DEF Select, vars, display
  <2> QED
    BY <2>2, <2>3, MarkersKept
<1>7. CASE Unseen /\ UNCHANGED view
  <2>1. page'.jwt = page.jwt
    BY <1>7 DEF Unseen, RemoveDataset, RoleRefused, HandleFile, FileRead, display, TypeOK
  <2> QED
    BY <1>7, <2>1 DEF MarkerInv
<1>8. CASE UNCHANGED viewVars
  BY <1>8 DEF viewVars, vars, display, MarkerInv
<1> QED
  BY <1>1, <1>2, <1>3, <1>4, <1>5, <1>6, <1>7, <1>8 DEF ViewNext

\* A turn right below a marker was answered for the persona of that marker.
THEOREM MarkersTrue == ViewSpec => []MarkerTells
<1>1. ViewInit => MarkerInv
  <2> SUFFICES ASSUME ViewInit PROVE MarkerInv
    OBVIOUS
  <2>1. << >> \in Markers /\ Cleared.markers = << >> /\ Cleared.asked = {}
    BY DEF Cleared, Markers
  <2>2. Cleared \in [markers : Markers, selected : Nat, asked : SUBSET AskedView]
    BY <2>1 DEF Cleared, NoTurn
  <2> QED
    BY <2>1, <2>2 DEF ViewInit, MarkerInv
<1>2. MarkerInv => MarkerTells
  BY DEF MarkerInv, MarkerTells
<1>3. ViewSpec => []TypeOK
  BY DisplayRefines, TypeCorrect, PTL
<1> QED
  BY <1>1, <1>2, <1>3, MarkerStep, PTL DEF ViewSpec
===============================================================================
