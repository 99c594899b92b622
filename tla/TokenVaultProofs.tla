--------------------------- MODULE TokenVaultProofs ---------------------------
(***************************************************************************)
(* Theorems about TokenVault, for any sets of sessions, requests, types    *)
(* and values, any prompts, serial and concurrent clients alike.           *)
(***************************************************************************)
EXTENDS TokenVault, TLAPS

-------------------------------------------------------------------------------
(* Dictionaries. *)

\* d[k] = v keeps a dictionary a dictionary.
LEMMA PutIsDict ==
    ASSUME NEW K, NEW V, NEW d, IsDict(d, K, V), NEW k \in K, NEW v \in V
    PROVE  IsDict(Put(d, k, v), K, V)
BY DEF IsDict, Put

\* d.update(e) keeps a dictionary a dictionary.
LEMMA UpdateIsDict ==
    ASSUME NEW K, NEW V, NEW d, IsDict(d, K, V), NEW e, IsDict(e, K, V)
    PROVE  IsDict(Update(d, e), K, V)
BY DEF IsDict, Update

\* A part of a dictionary is a dictionary.
LEMMA PickIsDict ==
    ASSUME NEW K, NEW V, NEW d, IsDict(d, K, V), NEW D
    PROVE  IsDict(Pick(d, D), K, V)
BY DEF IsDict, Pick, Restrict

\* The empty dictionary.
LEMMA EmptyIsDict ==
    ASSUME NEW K, NEW V
    PROVE  IsDict(Empty, K, V)
BY DEF IsDict, Empty

\* Replacing one dictionary of a family.
LEMMA ReplaceDict ==
    ASSUME NEW S, NEW K, NEW V, NEW f, IsDicts(f, S, K, V),
           NEW x \in S, NEW e, IsDict(e, K, V)
    PROVE  IsDicts([f EXCEPT ![x] = e], S, K, V)
BY DEF IsDicts

-------------------------------------------------------------------------------
(* Type correctness. *)

LEMMA TypeInit == Init => TypeOK
<1> SUFFICES ASSUME Init PROVE TypeOK
  OBVIOUS
<1>1. IsDicts([s \in Sessions |-> Empty], Sessions, Mention, Token)
  BY EmptyIsDict DEF IsDicts
<1>2. IsDicts([s \in Sessions |-> Empty], Sessions, Token, Values)
  BY EmptyIsDict DEF IsDicts
<1>3. IsDicts([s \in Sessions |-> Empty], Sessions, Token, Mention)
  BY EmptyIsDict DEF IsDicts
<1>4. IsDicts([r \in Requests |-> Empty], Requests, Token, Values)
  BY EmptyIsDict DEF IsDicts
<1> QED
  BY <1>1, <1>2, <1>3, <1>4 DEF Init, TypeOK, Labels

\* The head of the loop over the messages.
LEMMA NextMessageTypes ==
    ASSUME pc \in [Requests -> Labels], todo \in [Requests -> Seq(Seq(Mention))],
           msg \in [Requests -> Seq(Mention)],
           NEW r \in Requests, NEW ms \in Seq(Seq(Mention)), NextMessage(r, ms)
    PROVE  /\ pc' \in [Requests -> Labels]
           /\ todo' \in [Requests -> Seq(Seq(Mention))]
           /\ msg' \in [Requests -> Seq(Mention)]
<1>1. CASE ms = << >>
  BY <1>1 DEF NextMessage, Labels
<1>2. CASE ms # << >>
  <2>1. Head(ms) \in Seq(Mention) /\ Tail(ms) \in Seq(Seq(Mention))
    BY <1>2
  <2> QED
    BY <1>2, <2>1 DEF NextMessage, Labels
<1> QED
  BY <1>1, <1>2

LEMMA SpanTypes ==
    ASSUME TypeOK, NEW r \in Requests, msg[r] # << >>
    PROVE  /\ Span(r) \in Mention /\ Span(r).type \in Types /\ Span(r).value \in Values
           /\ Tail(msg[r]) \in Seq(Mention)
<1>1. msg[r] \in Seq(Mention)
  BY DEF TypeOK
<1>2. Head(msg[r]) \in Mention /\ Tail(msg[r]) \in Seq(Mention)
  BY <1>1
<1> QED
  BY <1>2 DEF Span, Mention

LEMMA NoteTypes ==
    ASSUME TypeOK, NEW r \in Requests, msg[r] # << >>, NEW t \in Token, Note(r, t)
    PROVE  /\ IsDicts(newTokens', Requests, Token, Values)
           /\ msg' \in [Requests -> Seq(Mention)]
<1>1. Span(r).value \in Values /\ Tail(msg[r]) \in Seq(Mention)
  BY SpanTypes
<1>2. IsDict(newTokens[r], Token, Values)
  BY DEF TypeOK, IsDicts
<1>3. IsDict(Put(newTokens[r], t, Span(r).value), Token, Values)
  BY <1>1, <1>2, PutIsDict
<1>4. IsDicts([newTokens EXCEPT ![r] = Put(newTokens[r], t, Span(r).value)],
              Requests, Token, Values)
  BY <1>3, ReplaceDict DEF TypeOK
<1> QED
  BY <1>1, <1>4 DEF Note, TypeOK

\* INCR mints a token.
LEMMA MintedToken ==
    ASSUME TypeOK, NEW r \in Requests, NEW m \in Mention
    PROVE  /\ SessionOf[r] \in Sessions
           /\ counters[SessionOf[r]] \in [Types -> Nat]
           /\ [type |-> m.type, n |-> counters[SessionOf[r]][m.type] + 1] \in Token
<1>1. SessionOf[r] \in Sessions
  BY VaultAssumption
<1>2. m.type \in Types
  BY DEF Mention
<1>3. counters[SessionOf[r]] \in [Types -> Nat]
  BY <1>1 DEF TypeOK
<1> QED
  BY <1>1, <1>2, <1>3 DEF Token

\* What the code relies on between the miss and the SETEX: there is a span, and
\* after INCR a token.  Each step's proof starts from it.
SpanReady ==
    \A r \in Requests :
        /\ pc[r] \in {"incr", "sethash"} => msg[r] # << >>
        /\ pc[r] = "sethash" => held[r] \in Token

LEMMA SpanReadyNext == TypeOK /\ SpanReady /\ [Next]_vars => SpanReady'
<1> SUFFICES ASSUME TypeOK, SpanReady, [Next]_vars PROVE SpanReady'
  OBVIOUS
<1> USE DEF SpanReady, keys, locals, answer, history
<1>1. ASSUME NEW r \in Requests, Start(r) PROVE SpanReady'
  BY <1>1 DEF Start, NextMessage, TypeOK
<1>2. ASSUME NEW r \in Requests, HashHit(r) PROVE SpanReady'
  BY <1>2 DEF HashHit, Note, InMessage, TypeOK
<1>3. ASSUME NEW r \in Requests, HashMiss(r) PROVE SpanReady'
  BY <1>3 DEF HashMiss, InMessage, TypeOK
<1>4. ASSUME NEW r \in Requests, IncrCounter(r) PROVE SpanReady'
  <2>1. held'[r] \in Token
    BY <1>4, SpanTypes, MintedToken DEF IncrCounter, TypeOK
  <2> QED
    BY <1>4, <2>1 DEF IncrCounter, TypeOK
<1>5. ASSUME NEW r \in Requests, SetHash(r) PROVE SpanReady'
  BY <1>5 DEF SetHash, Note, TypeOK
<1>6. ASSUME NEW r \in Requests, GetMap(r) PROVE SpanReady'
  BY <1>6 DEF GetMap, TypeOK
<1>7. ASSUME NEW r \in Requests, SetMap(r) PROVE SpanReady'
  BY <1>7 DEF SetMap, NextMessage, TypeOK
<1>8. ASSUME NEW r \in Requests, CallLlm(r) PROVE SpanReady'
  BY <1>8 DEF CallLlm, TypeOK
<1>9. ASSUME NEW r \in Requests, Respond(r) PROVE SpanReady'
  BY <1>9 DEF Respond, TypeOK
<1>10. ASSUME NEW r \in Requests, Fail(r) PROVE SpanReady'
  BY <1>10 DEF Fail, TypeOK
<1>11. CASE UNCHANGED vars
  BY <1>11 DEF vars
<1> QED
  BY <1>1, <1>2, <1>3, <1>4, <1>5, <1>6, <1>7, <1>8, <1>9, <1>10, <1>11
  DEF Next, Step

LEMMA TypeNext == TypeOK /\ SpanReady /\ [Next]_vars => TypeOK'
<1> SUFFICES ASSUME TypeOK, SpanReady, [Next]_vars PROVE TypeOK'
  OBVIOUS
<1> USE VaultAssumption DEF keys, locals, answer, history
<1>1. ASSUME NEW r \in Requests, Start(r) PROVE TypeOK'
  <2>1. PICK p \in Prompts : NextMessage(r, p)
    BY <1>1 DEF Start
  <2>2. /\ pc' \in [Requests -> Labels]
        /\ todo' \in [Requests -> Seq(Seq(Mention))]
        /\ msg' \in [Requests -> Seq(Mention)]
    BY <2>1, NextMessageTypes DEF TypeOK
  <2> QED
    BY <1>1, <2>2 DEF TypeOK, Start
<1>2. ASSUME NEW r \in Requests, HashHit(r) PROVE TypeOK'
  <2>1. hashes[SessionOf[r]][Span(r)] \in Token
    BY <1>2 DEF HashHit, TypeOK, IsDicts, IsDict
  <2>2. /\ IsDicts(newTokens', Requests, Token, Values)
        /\ msg' \in [Requests -> Seq(Mention)]
    BY <1>2, <2>1, NoteTypes DEF HashHit, InMessage
  <2> QED
    BY <1>2, <2>2 DEF TypeOK, HashHit
<1>3. ASSUME NEW r \in Requests, HashMiss(r) PROVE TypeOK'
  BY <1>3 DEF TypeOK, HashMiss, Labels
<1>4. ASSUME NEW r \in Requests, IncrCounter(r) PROVE TypeOK'
  <2> DEFINE s == SessionOf[r]
             m == Span(r)
             t == [type |-> m.type, n |-> counters[s][m.type] + 1]
  <2>2. m \in Mention /\ m.type \in Types
    BY <1>4, SpanTypes DEF IncrCounter, SpanReady
  <2>1. s \in Sessions /\ counters[s] \in [Types -> Nat] /\ t \in Token
    BY <2>2, MintedToken
  <2>5. counters' \in [Sessions -> [Types -> Nat]]
    BY <1>4, <2>1, <2>2 DEF IncrCounter, TypeOK
  <2>6. IsDict(Put(ledger[s], t, m), Token, Mention)
    BY <2>1, <2>2, PutIsDict DEF TypeOK, IsDicts
  <2>7. IsDicts(ledger', Sessions, Token, Mention)
    BY <1>4, <2>1, <2>6, ReplaceDict DEF IncrCounter, TypeOK
  <2>8. held' \in [Requests -> Token \cup {NoToken}] /\ pc' \in [Requests -> Labels]
    BY <1>4, <2>1 DEF IncrCounter, TypeOK, Labels
  <2> QED
    BY <1>4, <2>5, <2>7, <2>8 DEF IncrCounter, TypeOK
<1>5. ASSUME NEW r \in Requests, SetHash(r) PROVE TypeOK'
  <2>0. held[r] \in Token
    BY <1>5 DEF SetHash, SpanReady
  <2>1. /\ IsDicts(newTokens', Requests, Token, Values)
        /\ msg' \in [Requests -> Seq(Mention)]
    BY <1>5, <2>0, NoteTypes DEF SetHash, SpanReady
  <2>2. Span(r) \in Mention /\ SessionOf[r] \in Sessions
    BY <1>5, SpanTypes DEF SetHash, SpanReady
  <2>3. IsDict(Put(hashes[SessionOf[r]], Span(r), held[r]), Mention, Token)
    BY <2>0, <2>2, PutIsDict DEF TypeOK, IsDicts
  <2>4. IsDicts(hashes', Sessions, Mention, Token)
    BY <1>5, <2>2, <2>3, ReplaceDict DEF SetHash, TypeOK
  <2>5. held' \in [Requests -> Token \cup {NoToken}] /\ pc' \in [Requests -> Labels]
    BY <1>5 DEF SetHash, TypeOK, Labels
  <2> QED
    BY <1>5, <2>1, <2>4, <2>5 DEF SetHash, TypeOK
<1>6. ASSUME NEW r \in Requests, GetMap(r) PROVE TypeOK'
  <2>1. IsDict(vault[SessionOf[r]], Token, Values)
    BY DEF TypeOK, IsDicts
  <2>2. IsDicts(existing', Requests, Token, Values)
    BY <1>6, <2>1, ReplaceDict DEF GetMap, TypeOK
  <2> QED
    BY <1>6, <2>2 DEF GetMap, TypeOK, Labels
<1>7. ASSUME NEW r \in Requests, SetMap(r) PROVE TypeOK'
  <2>1. /\ pc' \in [Requests -> Labels]
        /\ todo' \in [Requests -> Seq(Seq(Mention))]
        /\ msg' \in [Requests -> Seq(Mention)]
    BY <1>7, NextMessageTypes DEF SetMap, TypeOK
  <2>2. /\ IsDict(existing[r], Token, Values)
        /\ IsDict(newTokens[r], Token, Values)
        /\ IsDict(allTokens[r], Token, Values)
        /\ IsDict(Empty, Token, Values)
    BY EmptyIsDict DEF TypeOK, IsDicts
  <2>3. IsDicts(vault', Sessions, Token, Values)
    BY <1>7, <2>2, UpdateIsDict, ReplaceDict DEF SetMap, TypeOK
  <2>4. IsDicts(allTokens', Requests, Token, Values)
    BY <1>7, <2>2, UpdateIsDict, ReplaceDict DEF SetMap, TypeOK
  <2>5. /\ IsDicts(newTokens', Requests, Token, Values)
        /\ IsDicts(existing', Requests, Token, Values)
    BY <1>7, <2>2, ReplaceDict DEF SetMap, TypeOK
  <2> QED
    BY <1>7, <2>1, <2>3, <2>4, <2>5 DEF SetMap, TypeOK
<1>8. ASSUME NEW r \in Requests, CallLlm(r) PROVE TypeOK'
  <2>1. DOMAIN ledger[SessionOf[r]] \subseteq Token
    BY DEF TypeOK, IsDicts, IsDict
  <2>2. {[type |-> ty, n |-> 1] : ty \in Types} \subseteq Token
    BY DEF Token
  <2>3. Utterances(r) \subseteq SUBSET Token
    BY <2>1, <2>2 DEF Utterances
  <2>4. said' \in [Requests -> SUBSET Token]
    BY <1>8, <2>3 DEF CallLlm, TypeOK
  <2> QED
    BY <1>8, <2>4 DEF CallLlm, TypeOK, Labels
<1>9. ASSUME NEW r \in Requests, Respond(r) PROVE TypeOK'
  <2>1. /\ IsDict(vault[SessionOf[r]], Token, Values)
        /\ IsDict(allTokens[r], Token, Values)
    BY DEF TypeOK, IsDicts
  <2>2. /\ IsDicts(text', Requests, Token, Values)
        /\ IsDicts(meta', Requests, Token, Values)
    BY <1>9, <2>1, PickIsDict, ReplaceDict DEF Respond, TypeOK
  <2> QED
    BY <1>9, <2>2 DEF Respond, TypeOK, Labels
<1>10. ASSUME NEW r \in Requests, Fail(r) PROVE TypeOK'
  <2>1. IsDict(Empty, Token, Values)
    BY EmptyIsDict
  <2>2. /\ IsDicts(newTokens', Requests, Token, Values)
        /\ IsDicts(existing', Requests, Token, Values)
        /\ IsDicts(allTokens', Requests, Token, Values)
    BY <1>10, <2>1, ReplaceDict DEF Fail, TypeOK
  <2> QED
    BY <1>10, <2>2 DEF Fail, TypeOK, Labels
<1>11. CASE UNCHANGED vars
  BY <1>11 DEF vars, TypeOK
<1> QED
  BY <1>1, <1>2, <1>3, <1>4, <1>5, <1>6, <1>7, <1>8, <1>9, <1>10, <1>11
  DEF Next, Step

\* TokenVault is type-correct: every key and variable always has the shape the
\* code assumes when it reads it back.
THEOREM TypeCorrect == Spec => [](TypeOK /\ SpanReady)
<1>1. Init => TypeOK /\ SpanReady
  BY TypeInit DEF Init, SpanReady
<1>2. TypeOK /\ SpanReady /\ [Next]_vars => TypeOK' /\ SpanReady'
  BY TypeNext, SpanReadyNext
<1> QED
  BY <1>1, <1>2, PTL DEF Spec

-------------------------------------------------------------------------------
(* Agreement with the ledger. *)

\* An entry that says what the ledger says keeps a dictionary in agreement.
LEMMA PutAgrees ==
    ASSUME NEW d, NEW l, AgreesWith(d, l), NEW t \in DOMAIN l
    PROVE  AgreesWith(Put(d, t, l[t].value), l)
BY DEF AgreesWith, Put

LEMMA UpdateAgrees ==
    ASSUME NEW d, NEW e, NEW l, AgreesWith(d, l), AgreesWith(e, l)
    PROVE  AgreesWith(Update(d, e), l)
BY DEF AgreesWith, Update

LEMMA PickAgrees ==
    ASSUME NEW d, NEW D, NEW l, AgreesWith(d, l)
    PROVE  AgreesWith(Pick(d, D), l)
BY DEF AgreesWith, Pick, Restrict

LEMMA EmptyAgrees ==
    ASSUME NEW l
    PROVE  AgreesWith(Empty, l)
BY DEF AgreesWith, Empty

\* Minting a new token takes nothing from what was agreed before.
LEMMA MintAgrees ==
    ASSUME NEW d, NEW l, AgreesWith(d, l), NEW t, t \notin DOMAIN l, NEW m
    PROVE  AgreesWith(d, Put(l, t, m))
BY DEF AgreesWith, Put

\* The ledger of every session only grows.
LedgerGrows ==
    \A s \in Sessions : \A t \in DOMAIN ledger[s] :
        t \in DOMAIN ledger'[s] /\ ledger'[s][t] = ledger[s][t]

\* INCR hands out a token that has no entry yet, and gives it one.
LEMMA FreshToken ==
    ASSUME TypeOK, SpanReady, LedgerBelowCounters, NEW r \in Requests, IncrCounter(r),
           NEW s, s = SessionOf[r], NEW m, m = Span(r),
           NEW t, t = [type |-> m.type, n |-> counters[s][m.type] + 1]
    PROVE  /\ s \in Sessions /\ m \in Mention /\ t \in Token /\ t.type = m.type
           /\ t \notin DOMAIN ledger[s]
           /\ ledger' = [ledger EXCEPT ![s] = Put(ledger[s], t, m)]
           /\ counters' = [counters EXCEPT ![s][m.type] = counters[s][m.type] + 1]
<1>1. m \in Mention /\ m.type \in Types
  BY SpanTypes DEF IncrCounter, SpanReady
<1>2. s \in Sessions /\ counters[s] \in [Types -> Nat] /\ t \in Token
  BY <1>1, MintedToken
<1>3. t.type = m.type /\ t.n = counters[s][m.type] + 1
  OBVIOUS
<1>4. t \notin DOMAIN ledger[s]
  BY <1>1, <1>2, <1>3 DEF LedgerBelowCounters
<1> QED
  BY <1>1, <1>2, <1>3, <1>4 DEF IncrCounter

\* The only step that writes the ledger.
LEMMA IncrConsistent ==
    ASSUME TypeOK, SpanReady, Consistent, NEW r \in Requests, IncrCounter(r)
    PROVE  Consistent' /\ LedgerGrows
<1> DEFINE s == SessionOf[r]
           m == Span(r)
           t == [type |-> m.type, n |-> counters[s][m.type] + 1]
<1>1. /\ s \in Sessions /\ m \in Mention /\ t \in Token /\ t.type = m.type
      /\ t \notin DOMAIN ledger[s]
      /\ ledger' = [ledger EXCEPT ![s] = Put(ledger[s], t, m)]
      /\ counters' = [counters EXCEPT ![s][m.type] = counters[s][m.type] + 1]
  BY FreshToken DEF Consistent
<1> HIDE DEF s, m, t
<1>2. ledger'[s] = Put(ledger[s], t, m) /\ \A x \in Sessions \ {s} : ledger'[x] = ledger[x]
  BY <1>1 DEF TypeOK, IsDicts
<1>3. DOMAIN ledger'[s] = DOMAIN ledger[s] \cup {t} /\ ledger'[s][t] = m
      /\ \A u \in DOMAIN ledger[s] : ledger'[s][u] = ledger[s][u]
  BY <1>1, <1>2 DEF Put
<1>4. LedgerGrows
  BY <1>2, <1>3 DEF LedgerGrows
<1>5. LedgerBelowCounters'
  <2> SUFFICES ASSUME NEW x \in Sessions, NEW u \in DOMAIN ledger'[x]
               PROVE  u.n <= counters'[x][u.type] /\ ledger'[x][u].type = u.type
    BY DEF LedgerBelowCounters
  <2>1. CASE x # s
    BY <2>1, <1>1, <1>2 DEF Consistent, LedgerBelowCounters, TypeOK
  <2>2. CASE x = s /\ u = t
    BY <2>2, <1>1, <1>3 DEF t, TypeOK, Mention
  <2>3. CASE x = s /\ u # t
    <3>1. u \in DOMAIN ledger[s] /\ u \in Token
      BY <2>3, <1>1, <1>3 DEF TypeOK, IsDicts, IsDict
    <3>2. u.n \in Nat /\ u.type \in Types /\ m.type \in Types
      BY <3>1, <1>1 DEF Token, Mention
    <3>3. u.n <= counters[s][u.type] /\ ledger[s][u].type = u.type
      BY <3>1, <1>1 DEF Consistent, LedgerBelowCounters
    <3>4. counters[s][u.type] <= counters'[s][u.type] /\ counters'[s][u.type] \in Nat
      BY <3>2, <1>1 DEF TypeOK
    <3>5. counters[s][u.type] \in Nat
      BY <3>2, <1>1 DEF TypeOK
    <3> QED
      BY <2>3, <3>1, <3>2, <3>3, <3>4, <3>5, <1>3
  <2> QED
    BY <2>1, <2>2, <2>3
<1>6. HashesAgree'
  BY <1>4 DEF IncrCounter, Consistent, HashesAgree, LedgerGrows
<1>7. VaultAgrees'
  <2> SUFFICES ASSUME NEW x \in Sessions PROVE AgreesWith(vault[x], ledger'[x])
    BY DEF VaultAgrees, IncrCounter
  <2> QED
    BY <1>1, <1>2, MintAgrees DEF Consistent, VaultAgrees
<1>8. ASSUME NEW q \in Requests PROVE RequestAgrees(q)'
  <2>1. RequestAgrees(q) /\ SessionOf[q] \in Sessions
    BY VaultAssumption DEF Consistent
  <2>2. ASSUME NEW d, AgreesWith(d, ledger[SessionOf[q]])
        PROVE  AgreesWith(d, ledger'[SessionOf[q]])
    BY <2>1, <2>2, <1>1, <1>2, MintAgrees
  <2> QED
    BY <2>1, <2>2 DEF RequestAgrees, IncrCounter, answer
<1>9. ASSUME NEW q \in Requests PROVE SpanInHand(q)'
  <2>1. SpanInHand(q) /\ SessionOf[q] \in Sessions
    BY VaultAssumption DEF Consistent
  <2>2. CASE q = r
    BY <2>2, <1>3 DEF SpanInHand, IncrCounter, TypeOK, SpanReady, Span, s, m, t
  <2>3. CASE q # r
    <3>1. pc'[q] = pc[q] /\ msg'[q] = msg[q] /\ held'[q] = held[q]
      BY <2>3 DEF IncrCounter, TypeOK
    <3> QED
      BY <2>1, <3>1, <1>4 DEF SpanInHand, Span, LedgerGrows
  <2> QED
    BY <2>2, <2>3
<1> QED
  BY <1>4, <1>5, <1>6, <1>7, <1>8, <1>9 DEF Consistent

\* What a request other than the one that moves has is not touched.
LEMMA OthersConsistent ==
    ASSUME TypeOK, Consistent, NEW r \in Requests, NEW q \in Requests, q # r,
           Step(r) \/ Start(r) \/ Fail(r), UNCHANGED ledger
    PROVE  RequestAgrees(q)' /\ SpanInHand(q)'
<1>1. /\ newTokens'[q] = newTokens[q] /\ existing'[q] = existing[q]
      /\ allTokens'[q] = allTokens[q] /\ text'[q] = text[q] /\ meta'[q] = meta[q]
  BY DEF TypeOK, IsDicts, Step, Start, Fail, HashHit, HashMiss, IncrCounter, SetHash,
    GetMap, SetMap, CallLlm, Respond, Note, locals, answer, history
<1>2. pc'[q] = pc[q] /\ msg'[q] = msg[q] /\ held'[q] = held[q]
  BY DEF TypeOK, Step, Start, Fail, HashHit, HashMiss, IncrCounter, SetHash,
    GetMap, SetMap, CallLlm, Respond, Note, NextMessage, locals, answer, history
<1>3. RequestAgrees(q) /\ SpanInHand(q)
  BY DEF Consistent
<1> QED
  BY <1>1, <1>2, <1>3 DEF RequestAgrees, SpanInHand, Span

\* Note puts a token in new_token_map: it must be one minted for the span.
LEMMA NoteAgrees ==
    ASSUME TypeOK, Consistent, NEW r \in Requests, NEW t \in DOMAIN ledger[SessionOf[r]],
           ledger[SessionOf[r]][t] = Span(r), Note(r, t)
    PROVE  AgreesWith(newTokens'[r], ledger[SessionOf[r]])
<1>1. AgreesWith(newTokens[r], ledger[SessionOf[r]])
  BY DEF Consistent, RequestAgrees
<1>2. newTokens'[r] = Put(newTokens[r], t, ledger[SessionOf[r]][t].value)
  BY DEF Note, TypeOK, IsDicts
<1> QED
  BY <1>1, <1>2, PutAgrees

LEMMA OwnConsistent ==
    ASSUME TypeOK, SpanReady, Consistent, NEW r \in Requests,
           Step(r) \/ Start(r) \/ Fail(r), UNCHANGED ledger
    PROVE  RequestAgrees(r)' /\ SpanInHand(r)'
<1> DEFINE l == ledger[SessionOf[r]]
<1>0. RequestAgrees(r) /\ SpanInHand(r) /\ SessionOf[r] \in Sessions
  BY VaultAssumption DEF Consistent
<1>1. CASE Start(r)
  BY <1>0, <1>1 DEF Start, NextMessage, RequestAgrees, SpanInHand, TypeOK, answer
<1>2. CASE HashHit(r)
  <2>1. AgreesWith(newTokens'[r], l)
    BY <1>0, <1>2, NoteAgrees DEF HashHit, Consistent, HashesAgree
  <2> QED
    BY <1>0, <1>2, <2>1 DEF HashHit, InMessage, RequestAgrees, SpanInHand, TypeOK, answer
<1>3. CASE HashMiss(r)
  BY <1>0, <1>3 DEF HashMiss, InMessage, RequestAgrees, SpanInHand, TypeOK, locals, answer, history
<1>4. CASE IncrCounter(r)
  <2>1. /\ SessionOf[r] \in Sessions
        /\ [type |-> Span(r).type, n |-> counters[SessionOf[r]][Span(r).type] + 1]
               \notin DOMAIN ledger[SessionOf[r]]
        /\ ledger' = [ledger EXCEPT ![SessionOf[r]] = Put(ledger[SessionOf[r]],
             [type |-> Span(r).type, n |-> counters[SessionOf[r]][Span(r).type] + 1],
             Span(r))]
    BY <1>4, FreshToken DEF Consistent
  <2> QED
    BY <2>1 DEF Put, TypeOK, IsDicts
<1>5. CASE SetHash(r)
  <2>1. AgreesWith(newTokens'[r], l)
    BY <1>0, <1>5, NoteAgrees DEF SetHash, SpanInHand
  <2> QED
    BY <1>0, <1>5, <2>1 DEF SetHash, RequestAgrees, SpanInHand, TypeOK, answer
<1>6. CASE GetMap(r)
  <2>1. existing'[r] = vault[SessionOf[r]]
    BY <1>6 DEF GetMap, TypeOK, IsDicts
  <2> QED
    BY <1>0, <1>6, <2>1 DEF GetMap, RequestAgrees, SpanInHand, Consistent, VaultAgrees,
      TypeOK, answer
<1>7. CASE SetMap(r)
  <2>1. /\ newTokens'[r] = Empty /\ existing'[r] = Empty
        /\ allTokens'[r] = Update(allTokens[r], newTokens[r])
    BY <1>7 DEF SetMap, TypeOK, IsDicts
  <2>2. /\ AgreesWith(newTokens'[r], l) /\ AgreesWith(existing'[r], l)
        /\ AgreesWith(allTokens'[r], l)
    BY <1>0, <2>1, EmptyAgrees, UpdateAgrees DEF RequestAgrees
  <2>3. pc'[r] \in {"llm", "lookup"}
    BY <1>7 DEF SetMap, NextMessage, TypeOK
  <2> QED
    BY <1>0, <1>7, <2>2, <2>3 DEF SetMap, RequestAgrees, SpanInHand, answer
<1>8. CASE CallLlm(r)
  BY <1>0, <1>8 DEF CallLlm, RequestAgrees, SpanInHand, TypeOK, locals
<1>9. CASE Respond(r)
  <2>1. /\ text'[r] = Pick(vault[SessionOf[r]], Permitted(r, said[r]))
        /\ meta'[r] = Pick(allTokens[r], Permitted(r, DOMAIN allTokens[r]))
    BY <1>9 DEF Respond, TypeOK, IsDicts
  <2>2. AgreesWith(text'[r], l) /\ AgreesWith(meta'[r], l)
    BY <1>0, <2>1, PickAgrees DEF RequestAgrees, Consistent, VaultAgrees
  <2> QED
    BY <1>0, <1>9, <2>2 DEF Respond, RequestAgrees, SpanInHand, TypeOK, locals
<1>10. CASE Fail(r)
  <2>1. newTokens'[r] = Empty /\ existing'[r] = Empty /\ allTokens'[r] = Empty
    BY <1>10 DEF Fail, TypeOK, IsDicts
  <2>2. /\ AgreesWith(newTokens'[r], l) /\ AgreesWith(existing'[r], l)
        /\ AgreesWith(allTokens'[r], l)
    BY <2>1, EmptyAgrees
  <2> QED
    BY <1>0, <1>10, <2>2 DEF Fail, RequestAgrees, SpanInHand, TypeOK
<1> QED
  BY <1>1, <1>2, <1>3, <1>4, <1>5, <1>6, <1>7, <1>8, <1>9, <1>10 DEF Step

\* The keys, when no token is minted.
LEMMA KeysConsistent ==
    ASSUME TypeOK, SpanReady, Consistent, NEW r \in Requests,
           Step(r) \/ Start(r) \/ Fail(r), ~IncrCounter(r)
    PROVE  UNCHANGED ledger /\ LedgerBelowCounters' /\ HashesAgree' /\ VaultAgrees'
<1>1. UNCHANGED <<ledger, counters>>
  BY DEF Step, Start, Fail, HashHit, HashMiss, SetHash, GetMap, SetMap, CallLlm,
    Respond, keys, history
<1>2. LedgerBelowCounters'
  BY <1>1 DEF Consistent, LedgerBelowCounters
<1>3. CASE SetHash(r)
  <2> DEFINE s == SessionOf[r]
  <2>1. held[r] \in DOMAIN ledger[s] /\ ledger[s][held[r]] = Span(r) /\ s \in Sessions
    BY <1>3, VaultAssumption DEF SetHash, Consistent, SpanInHand
  <2>2. /\ hashes' = [hashes EXCEPT ![s] = Put(hashes[s], Span(r), held[r])]
        /\ UNCHANGED vault
    BY <1>3 DEF SetHash
  <2>3. HashesAgree'
    BY <1>1, <2>1, <2>2 DEF Consistent, HashesAgree, Put, TypeOK, IsDicts
  <2> QED
    BY <1>1, <1>2, <2>2, <2>3 DEF Consistent, VaultAgrees
<1>4. CASE SetMap(r)
  <2>1. AgreesWith(Update(existing[r], newTokens[r]), ledger[SessionOf[r]])
    BY UpdateAgrees DEF Consistent, RequestAgrees
  <2>2. VaultAgrees'
    BY <1>1, <1>4, <2>1, VaultAssumption DEF SetMap, Consistent, VaultAgrees, TypeOK, IsDicts
  <2> QED
    BY <1>1, <1>2, <1>4, <2>2 DEF SetMap, Consistent, HashesAgree
<1>5. CASE ~SetHash(r) /\ ~SetMap(r)
  <2>1. UNCHANGED <<hashes, vault>>
    BY <1>5 DEF Step, Start, Fail, HashHit, HashMiss, GetMap, CallLlm, Respond, keys
  <2> QED
    BY <1>1, <1>2, <2>1 DEF Consistent, HashesAgree, VaultAgrees
<1> QED
  BY <1>3, <1>4, <1>5

LEMMA ConsistentNext ==
    TypeOK /\ SpanReady /\ Consistent /\ [Next]_vars => Consistent' /\ LedgerGrows
<1> SUFFICES ASSUME TypeOK, SpanReady, Consistent, [Next]_vars
             PROVE  Consistent' /\ LedgerGrows
  OBVIOUS
<1>1. ASSUME NEW r \in Requests, IncrCounter(r) PROVE Consistent' /\ LedgerGrows
  BY <1>1, IncrConsistent
<1>2. ASSUME NEW r \in Requests, Step(r) \/ Start(r) \/ Fail(r), ~IncrCounter(r)
      PROVE  Consistent' /\ LedgerGrows
  <2>1. UNCHANGED ledger /\ LedgerBelowCounters' /\ HashesAgree' /\ VaultAgrees'
    BY <1>2, KeysConsistent
  <2>2. \A q \in Requests : RequestAgrees(q)' /\ SpanInHand(q)'
    BY <1>2, <2>1, OthersConsistent, OwnConsistent
  <2> QED
    BY <2>1, <2>2 DEF Consistent, LedgerGrows
<1>3. CASE UNCHANGED vars
  BY <1>3 DEF vars, keys, locals, answer, history, Consistent, LedgerGrows, LedgerBelowCounters,
    HashesAgree, VaultAgrees, RequestAgrees, SpanInHand, Span
<1> QED
  BY <1>1, <1>2, <1>3 DEF Next, Step

-------------------------------------------------------------------------------
(* Theorems. *)

IInv == TypeOK /\ SpanReady /\ Consistent

LEMMA IInvInit == Init => IInv
<1> SUFFICES ASSUME Init PROVE IInv
  OBVIOUS
<1>1. TypeOK
  BY TypeInit
<1>2. SpanReady
  BY DEF Init, SpanReady
<1>3. Consistent
  BY VaultAssumption DEF Init, Consistent, LedgerBelowCounters, HashesAgree, VaultAgrees,
    RequestAgrees, SpanInHand, AgreesWith, Empty
<1> QED
  BY <1>1, <1>2, <1>3 DEF IInv

LEMMA IInvNext == IInv /\ [Next]_vars => IInv' /\ LedgerGrows
BY TypeNext, SpanReadyNext, ConsistentNext DEF IInv

\* The inductive invariant holds in every reachable state.
THEOREM Consistency == Spec => []IInv
BY IInvInit, IInvNext, PTL DEF Spec

\* However the requests of a session interleave and fail, a token never stands for
\* two values: in Redis, in a request's variables or in a response.
THEOREM Unambiguous == Spec => []TokensUnambiguous
<1>1. ASSUME IInv PROVE TokensUnambiguous
  <2> SUFFICES ASSUME NEW s \in Sessions PROVE \A u \in Uses(s) :
                 u[1] \in DOMAIN ledger[s] /\ u[2] = ledger[s][u[1]].value
    BY DEF TokensUnambiguous
  <2>1. ASSUME NEW d, AgreesWith(d, ledger[s]), NEW u \in Pairs(d)
        PROVE  u[1] \in DOMAIN ledger[s] /\ u[2] = ledger[s][u[1]].value
    BY <2>1 DEF AgreesWith, Pairs
  <2>2. ASSUME NEW u \in {<<hashes[s][m], m.value>> : m \in DOMAIN hashes[s]}
        PROVE  u[1] \in DOMAIN ledger[s] /\ u[2] = ledger[s][u[1]].value
    BY <1>1, <2>2 DEF IInv, Consistent, HashesAgree
  <2>3. AgreesWith(vault[s], ledger[s])
    BY <1>1 DEF IInv, Consistent, VaultAgrees
  <2>4. ASSUME NEW r \in Requests, SessionOf[r] = s
        PROVE  /\ AgreesWith(newTokens[r], ledger[s]) /\ AgreesWith(existing[r], ledger[s])
               /\ AgreesWith(allTokens[r], ledger[s]) /\ AgreesWith(text[r], ledger[s])
               /\ AgreesWith(meta[r], ledger[s])
    BY <1>1, <2>4 DEF IInv, Consistent, RequestAgrees
  <2> QED
    BY <2>1, <2>2, <2>3, <2>4 DEF Uses
<1> QED
  BY <1>1, Consistency, PTL

-------------------------------------------------------------------------------
(* TokenVault implements Pseudonyms. *)

answeredBar == {r \in Requests : pc[r] = "answered"}
disclosedBar == [r \in Requests |-> Update(text[r], meta[r])]

LEMMA MintStep ==
    ASSUME IInv, NEW r \in Requests, IncrCounter(r)
    PROVE  P!Next
<1> DEFINE s == SessionOf[r]
           m == Span(r)
           t == [type |-> m.type, n |-> counters[s][m.type] + 1]
<1>1. /\ s \in Sessions /\ m \in Mention /\ t \in Token /\ t.type = m.type
      /\ t \notin DOMAIN ledger[s]
      /\ ledger' = [ledger EXCEPT ![s] = Put(ledger[s], t, m)]
  BY FreshToken DEF IInv, Consistent
<1>2. pc \in [Requests -> Labels] /\ pc' = [pc EXCEPT ![r] = "sethash"] /\ pc[r] = "incr"
  BY DEF IInv, TypeOK, IncrCounter
<1>3. UNCHANGED <<answeredBar, disclosedBar>>
  BY <1>2 DEF answeredBar, disclosedBar, IncrCounter, answer
<1> HIDE DEF s, m, t
<1>4. t \in DOMAIN ledger'[s]
  BY <1>1 DEF Put, IInv, TypeOK, IsDicts
<1>5. P!Mint(s, t, m)
  BY <1>1, <1>3 DEF P!Mint, P!Token, Token, Put, answeredBar, disclosedBar
<1>6. m \in P!Mention
  BY <1>1 DEF Mention, P!Mention
<1> QED
  BY <1>1, <1>4, <1>5, <1>6 DEF P!Next

LEMMA DiscloseStep ==
    ASSUME IInv, NEW r \in Requests, Respond(r)
    PROVE  P!Next
<1> DEFINE s == SessionOf[r]
<1>0. PICK D : D = DOMAIN text'[r] \cup DOMAIN meta'[r]
  OBVIOUS
<1>1. /\ text' = [text EXCEPT ![r] = Pick(vault[s], Permitted(r, said[r]))]
      /\ meta' = [meta EXCEPT ![r] = Pick(allTokens[r], Permitted(r, DOMAIN allTokens[r]))]
      /\ pc' = [pc EXCEPT ![r] = "answered"] /\ pc[r] = "detokenize"
      /\ UNCHANGED ledger
  BY DEF Respond, history
<1>2. /\ pc \in [Requests -> Labels]
      /\ text = [x \in Requests |-> text[x]] /\ meta = [x \in Requests |-> meta[x]]
  BY DEF IInv, TypeOK, IsDicts
<1>3. text'[r] = Pick(vault[s], Permitted(r, said[r]))
      /\ meta'[r] = Pick(allTokens[r], Permitted(r, DOMAIN allTokens[r]))
  BY <1>1, <1>2
<1>4. AgreesWith(text'[r], ledger[s]) /\ AgreesWith(meta'[r], ledger[s])
  BY <1>3, PickAgrees, VaultAssumption DEF IInv, Consistent, VaultAgrees, RequestAgrees
<1>5. D \subseteq P!Permitted(r)
  BY <1>0, <1>3, <1>4 DEF P!Permitted, AgreesWith, Pick, Restrict, Permitted
<1>6. Update(text'[r], meta'[r]) = P!Meanings(r, D)
  BY <1>0, <1>4 DEF Update, P!Meanings, AgreesWith
<1>7. answeredBar' = answeredBar \cup {r} /\ r \notin answeredBar
  BY <1>1, <1>2 DEF answeredBar
<1>8. disclosedBar' = [disclosedBar EXCEPT ![r] = P!Meanings(r, D)]
  <2>1. \A q \in Requests : q # r => text'[q] = text[q] /\ meta'[q] = meta[q]
    BY <1>1, <1>2
  <2> QED
    BY <1>6, <2>1 DEF disclosedBar
<1>9. P!Disclose(r, D)
  BY <1>1, <1>5, <1>7, <1>8 DEF P!Disclose, answeredBar, disclosedBar
<1> QED
  BY <1>5, <1>9 DEF P!Next

\* TokenVault implements Pseudonyms: a token gets its meaning once, and a response
\* discloses only that meaning, and only for entity types the role may see.
THEOREM Refinement == Spec => ImplementsPseudonyms
<1>1. Init => P!Init
  BY DEF Init, P!Init, Empty, P!Empty, Update
<1>2. ASSUME IInv, [Next]_vars PROVE [P!Next]_P!vars
  <2>1. ASSUME NEW r \in Requests, IncrCounter(r) PROVE P!Next
    BY <1>2, <2>1, MintStep
  <2>2. ASSUME NEW r \in Requests, Respond(r) PROVE P!Next
    BY <1>2, <2>2, DiscloseStep
  <2>3. ASSUME NEW r \in Requests, Step(r) \/ Start(r) \/ Fail(r),
               ~IncrCounter(r), ~Respond(r)
        PROVE  UNCHANGED P!vars
    <3>1. UNCHANGED <<text, meta, ledger>>
      BY <2>3 DEF Step, Start, Fail, HashHit, HashMiss, SetHash, GetMap, SetMap,
        CallLlm, answer, history
    <3>2. \A q \in Requests : pc'[q] = "answered" <=> pc[q] = "answered"
      BY <1>2, <2>3 DEF IInv, TypeOK, Labels, Step, Start, Fail, HashHit, HashMiss,
        SetHash, GetMap, SetMap, CallLlm, NextMessage, InMessage, Active, Ended
    <3> QED
      BY <3>1, <3>2 DEF P!vars
  <2>4. CASE UNCHANGED vars
    BY <2>4 DEF vars, answer, history, P!vars
  <2> QED
    BY <1>2, <2>1, <2>2, <2>3, <2>4 DEF Next, Step
<1> QED
  BY <1>1, <1>2, Consistency, PTL DEF Spec, ImplementsPseudonyms, P!Spec

-------------------------------------------------------------------------------
(* Sessions whose client waits for each answer. *)

\* One request of the session is in flight at most.
Alone(s) ==
    \A q, r \in Requests :
        SessionOf[q] = s /\ SessionOf[r] = s /\ Active(q) /\ Active(r) => q = r

\* What d says of a token is what its hash key says.
HashedBy(d, h) ==
    \A t \in DOMAIN d :
        /\ [type |-> t.type, value |-> d[t]] \in DOMAIN h
        /\ h[[type |-> t.type, value |-> d[t]]] = t

LEMMA HashedEmpty ==
    ASSUME NEW h
    PROVE  HashedBy(Empty, h)
BY DEF HashedBy, Empty

\* A new hash key takes nothing away.
LEMMA HashedGrows ==
    ASSUME NEW d, NEW h, HashedBy(d, h), NEW m, m \notin DOMAIN h, NEW t
    PROVE  HashedBy(d, Put(h, m, t))
BY DEF HashedBy, Put

LEMMA HashedPut ==
    ASSUME NEW d, NEW h, HashedBy(d, h), NEW m \in DOMAIN h,
           m = [type |-> h[m].type, value |-> m.value]
    PROVE  HashedBy(Put(d, h[m], m.value), h)
BY DEF HashedBy, Put

LEMMA HashedUpdate ==
    ASSUME NEW d, NEW e, NEW h, HashedBy(d, h), HashedBy(e, h)
    PROVE  HashedBy(Update(d, e), h)
BY DEF HashedBy, Update

LEMMA HashedPick ==
    ASSUME NEW d, NEW D, NEW h, HashedBy(d, h)
    PROVE  HashedBy(Pick(d, D), h)
BY DEF HashedBy, Pick, Restrict

\* What a request has in its variables and its response is what the hash keys say;
\* between its miss and its SETEX nobody writes the key of its span.
RequestHashed(r) ==
    /\ HashedBy(newTokens[r], hashes[SessionOf[r]])
    /\ HashedBy(existing[r], hashes[SessionOf[r]])
    /\ HashedBy(allTokens[r], hashes[SessionOf[r]])
    /\ HashedBy(text[r], hashes[SessionOf[r]])
    /\ HashedBy(meta[r], hashes[SessionOf[r]])
    /\ pc[r] \in {"incr", "sethash"} => Span(r) \notin DOMAIN hashes[SessionOf[r]]

\* Nobody writes the vault between a request's two halves of update_token_map, so
\* the vault has every token the request has put in its prompt, and the answer's
\* text shows the tokens of its token_vault.
RequestKept(r) ==
    /\ pc[r] = "idle" => allTokens[r] = Empty
    /\ Active(r) => DOMAIN allTokens[r] \subseteq DOMAIN vault[SessionOf[r]]
    /\ pc[r] = "setmap" => existing[r] = vault[SessionOf[r]]
    /\ pc[r] = "answered" => DOMAIN meta[r] \cap said[r] \subseteq DOMAIN text[r]

Waiting(s) ==
    /\ Alone(s)
    /\ HashedBy(vault[s], hashes[s])
    /\ \A r \in Requests : SessionOf[r] = s => RequestHashed(r) /\ RequestKept(r)

WInv == \A s \in Sessions \ overlapped : Waiting(s)

LEMMA WaitingInit == Init => WInv
<1> SUFFICES ASSUME Init PROVE WInv
  OBVIOUS
<1>1. \A s \in Sessions : Alone(s)
  BY DEF Init, Alone, Active
<1>2. \A s \in Sessions : HashedBy(vault[s], hashes[s])
  BY HashedEmpty DEF Init
<1>3. \A r \in Requests : RequestHashed(r)
  BY VaultAssumption, HashedEmpty DEF Init, RequestHashed
<1>4. \A r \in Requests : RequestKept(r)
  BY DEF Init, RequestKept, Active, Ended
<1> QED
  BY <1>1, <1>2, <1>3, <1>4 DEF WInv, Waiting

\* A session in which r does not move.
LEMMA WaitingElsewhere ==
    ASSUME TypeOK, NEW r \in Requests, Step(r) \/ Start(r) \/ Fail(r),
           NEW s \in Sessions, s # SessionOf[r], Waiting(s)
    PROVE  Waiting(s)'
<1>1. vault'[s] = vault[s] /\ hashes'[s] = hashes[s]
  BY VaultAssumption DEF TypeOK, IsDicts, Step, Start, Fail, HashHit, HashMiss,
    IncrCounter, SetHash, GetMap, SetMap, CallLlm, Respond, keys
<1>2. ASSUME NEW q \in Requests, SessionOf[q] = s
      PROVE  /\ newTokens'[q] = newTokens[q] /\ existing'[q] = existing[q]
             /\ allTokens'[q] = allTokens[q] /\ text'[q] = text[q]
             /\ meta'[q] = meta[q] /\ said'[q] = said[q]
  BY <1>2 DEF TypeOK, IsDicts, Step, Start, Fail, HashHit, HashMiss, IncrCounter,
    SetHash, GetMap, SetMap, CallLlm, Respond, Note, locals, answer
<1>3. ASSUME NEW q \in Requests, SessionOf[q] = s
      PROVE  pc'[q] = pc[q] /\ msg'[q] = msg[q]
  BY <1>3 DEF TypeOK, Step, Start, Fail, HashHit, HashMiss, IncrCounter, SetHash,
    GetMap, SetMap, CallLlm, Respond, Note, NextMessage, locals
<1> QED
  BY <1>1, <1>2, <1>3 DEF Waiting, Alone, Active, Ended, RequestHashed, RequestKept, Span

\* Only Start makes a request active, and it does so alone or marks the session.
LEMMA AloneNext ==
    ASSUME TypeOK, NEW r \in Requests, Step(r) \/ Start(r) \/ Fail(r),
           SessionOf[r] \notin overlapped', Alone(SessionOf[r])
    PROVE  Alone(SessionOf[r])'
<1>1. ASSUME NEW q \in Requests, q # r PROVE pc'[q] = pc[q]
  BY <1>1 DEF TypeOK, Step, Start, Fail, HashHit, HashMiss, IncrCounter, SetHash,
    GetMap, SetMap, CallLlm, Respond, NextMessage
<1>2. CASE Start(r)
  <2>1. \A q \in Requests : SessionOf[q] = SessionOf[r] => ~Active(q)
    BY <1>2 DEF Start
  <2> QED
    BY <1>1, <2>1 DEF Alone, Active, Ended
<1>3. CASE Step(r) \/ Fail(r)
  <2>1. Active(r)
    BY <1>3 DEF Active, Ended, Step, Fail, HashHit, HashMiss, IncrCounter, SetHash,
      GetMap, SetMap, CallLlm, Respond, InMessage
  <2> QED
    BY <1>1, <2>1 DEF Alone, Active, Ended
<1> QED
  BY <1>2, <1>3

\* The others of the session are idle or have ended.
LEMMA OthersWait ==
    ASSUME TypeOK, NEW r \in Requests, Step(r) \/ Start(r) \/ Fail(r),
           SessionOf[r] \notin overlapped', Alone(SessionOf[r]),
           NEW q \in Requests, q # r, SessionOf[q] = SessionOf[r]
    PROVE  /\ ~Active(q) /\ pc'[q] = pc[q]
           /\ newTokens'[q] = newTokens[q] /\ existing'[q] = existing[q]
           /\ allTokens'[q] = allTokens[q] /\ text'[q] = text[q]
           /\ meta'[q] = meta[q] /\ said'[q] = said[q]
<1>1. ASSUME Start(r) PROVE ~Active(q)
  BY <1>1 DEF Start
<1>2. ASSUME Step(r) \/ Fail(r) PROVE ~Active(q)
  BY <1>2 DEF Alone, Active, Ended, Step, Fail, HashHit, HashMiss, IncrCounter,
    SetHash, GetMap, SetMap, CallLlm, Respond, InMessage
<1>3. ~Active(q)
  BY <1>1, <1>2
<1>4. pc'[q] = pc[q]
  BY DEF TypeOK, Step, Start, Fail, HashHit, HashMiss, IncrCounter, SetHash,
    GetMap, SetMap, CallLlm, Respond, NextMessage
<1>5. /\ newTokens'[q] = newTokens[q] /\ existing'[q] = existing[q]
      /\ allTokens'[q] = allTokens[q] /\ text'[q] = text[q]
      /\ meta'[q] = meta[q] /\ said'[q] = said[q]
  BY DEF TypeOK, IsDicts, Step, Start, Fail, HashHit, HashMiss, IncrCounter,
    SetHash, GetMap, SetMap, CallLlm, Respond, Note, locals, answer
<1> QED
  BY <1>3, <1>4, <1>5

\* The type of a span is the type of the token its hash key has.
LEMMA HashTyped ==
    ASSUME TypeOK, Consistent, NEW s \in Sessions, NEW m \in DOMAIN hashes[s]
    PROVE  m = [type |-> hashes[s][m].type, value |-> m.value]
<1>1. m \in Mention
  BY DEF TypeOK, IsDicts, IsDict
<1>2. hashes[s][m].type = m.type
  BY DEF Consistent, HashesAgree, LedgerBelowCounters
<1> QED
  BY <1>1, <1>2 DEF Mention

\* The hash keys of a session under a step of its only active request.
LEMMA HashedNext ==
    ASSUME IInv, NEW r \in Requests, Step(r) \/ Start(r) \/ Fail(r),
           NEW s, s = SessionOf[r], s \notin overlapped', Waiting(s)
    PROVE  /\ HashedBy(vault'[s], hashes'[s])
           /\ \A q \in Requests : SessionOf[q] = s => RequestHashed(q)'
<1>0. /\ s \in Sessions /\ TypeOK /\ Consistent /\ RequestHashed(r)
      /\ HashedBy(vault[s], hashes[s])
  BY VaultAssumption DEF IInv, Waiting
<1>1. ASSUME NEW q \in Requests, q # r, SessionOf[q] = s
      PROVE  /\ RequestHashed(q) /\ pc'[q] \notin {"incr", "sethash"}
             /\ newTokens'[q] = newTokens[q] /\ existing'[q] = existing[q]
             /\ allTokens'[q] = allTokens[q] /\ text'[q] = text[q]
             /\ meta'[q] = meta[q]
  BY <1>1, <1>0, OthersWait DEF Waiting, Active, Ended
<1>2. ASSUME hashes'[s] = hashes[s],
             HashedBy(vault'[s], hashes[s]), HashedBy(newTokens'[r], hashes[s]),
             HashedBy(existing'[r], hashes[s]), HashedBy(allTokens'[r], hashes[s]),
             HashedBy(text'[r], hashes[s]), HashedBy(meta'[r], hashes[s]),
             pc'[r] \in {"incr", "sethash"} => Head(msg'[r]) \notin DOMAIN hashes[s]
      PROVE  /\ HashedBy(vault'[s], hashes'[s])
             /\ \A q \in Requests : SessionOf[q] = s => RequestHashed(q)'
  BY <1>1, <1>2 DEF RequestHashed, Span
<1>3. CASE Start(r)
  BY <1>0, <1>2, <1>3 DEF Start, NextMessage, RequestHashed, TypeOK, keys, answer
<1>4. CASE HashHit(r)
  <2>1. newTokens'[r] = Put(newTokens[r], hashes[s][Span(r)], Span(r).value)
    BY <1>0, <1>4 DEF HashHit, Note, TypeOK, IsDicts
  <2>2. HashedBy(newTokens'[r], hashes[s])
    BY <1>0, <1>4, <2>1, HashedPut, HashTyped DEF HashHit, RequestHashed
  <2> QED
    BY <1>0, <1>2, <1>4, <2>2 DEF HashHit, InMessage, RequestHashed, TypeOK, keys, answer
<1>5. CASE HashMiss(r)
  BY <1>0, <1>2, <1>5 DEF HashMiss, RequestHashed, Span, TypeOK, keys, locals, answer
<1>6. CASE IncrCounter(r)
  BY <1>0, <1>2, <1>6 DEF IncrCounter, RequestHashed, Span, TypeOK, answer
<1>7. CASE SetHash(r)
  <2> DEFINE m == Span(r)
             h == Put(hashes[s], m, held[r])
  <2>1. m \notin DOMAIN hashes[s] /\ pc[r] = "sethash"
    BY <1>0, <1>7 DEF SetHash, RequestHashed
  <2>2. hashes'[s] = h
    BY <1>0, <1>7 DEF SetHash, TypeOK, IsDicts
  <2>3. ASSUME NEW d, HashedBy(d, hashes[s]) PROVE HashedBy(d, h)
    BY <2>1, <2>3, HashedGrows
  <2>4. held[r].type = m.type /\ m \in Mention
    BY <1>0, <2>1, SpanTypes DEF Consistent, SpanInHand, LedgerBelowCounters, IInv, SpanReady
  <2>5. m \in DOMAIN h /\ h[m] = held[r] /\ m = [type |-> h[m].type, value |-> m.value]
    BY <2>4 DEF Put, Mention
  <2>6. newTokens'[r] = Put(newTokens[r], h[m], m.value)
    BY <1>0, <1>7, <2>5 DEF SetHash, Note, TypeOK, IsDicts
  <2> HIDE DEF h, m
  <2>7. HashedBy(newTokens'[r], h)
    BY <1>0, <2>3, <2>5, <2>6, HashedPut DEF RequestHashed
  <2>8. /\ existing'[r] = existing[r] /\ allTokens'[r] = allTokens[r]
        /\ text'[r] = text[r] /\ meta'[r] = meta[r] /\ vault'[s] = vault[s]
        /\ pc'[r] = "lookup"
    BY <1>7 DEF SetHash, TypeOK, IInv, answer
  <2>9. RequestHashed(r)'
    BY <1>0, <2>2, <2>3, <2>7, <2>8 DEF RequestHashed
  <2>10. ASSUME NEW q \in Requests, q # r, SessionOf[q] = s PROVE RequestHashed(q)'
    BY <1>1, <2>2, <2>3, <2>10 DEF RequestHashed
  <2> QED
    BY <1>0, <2>2, <2>3, <2>8, <2>9, <2>10
<1>8. CASE GetMap(r)
  <2>1. existing'[r] = vault[s]
    BY <1>0, <1>8 DEF GetMap, TypeOK, IsDicts
  <2> QED
    BY <1>0, <1>2, <1>8, <2>1 DEF GetMap, RequestHashed, TypeOK, keys, answer
<1>9. CASE SetMap(r)
  <2>1. /\ newTokens'[r] = Empty /\ existing'[r] = Empty
        /\ allTokens'[r] = Update(allTokens[r], newTokens[r])
        /\ vault'[s] = Update(existing[r], newTokens[r])
    BY <1>0, <1>9 DEF SetMap, TypeOK, IsDicts
  <2>2. pc'[r] \in {"llm", "lookup"}
    BY <1>0, <1>9 DEF SetMap, NextMessage, TypeOK
  <2>3. /\ HashedBy(newTokens'[r], hashes[s]) /\ HashedBy(existing'[r], hashes[s])
        /\ HashedBy(allTokens'[r], hashes[s]) /\ HashedBy(vault'[s], hashes[s])
    BY <1>0, <2>1, HashedEmpty, HashedUpdate DEF RequestHashed
  <2> QED
    BY <1>0, <1>2, <1>9, <2>2, <2>3 DEF SetMap, RequestHashed, answer
<1>10. CASE CallLlm(r)
  BY <1>0, <1>2, <1>10 DEF CallLlm, RequestHashed, TypeOK, keys, locals
<1>11. CASE Respond(r)
  <2>1. /\ text'[r] = Pick(vault[s], Permitted(r, said[r]))
        /\ meta'[r] = Pick(allTokens[r], Permitted(r, DOMAIN allTokens[r]))
    BY <1>0, <1>11 DEF Respond, TypeOK, IsDicts
  <2>2. HashedBy(text'[r], hashes[s]) /\ HashedBy(meta'[r], hashes[s])
    BY <1>0, <2>1, HashedPick DEF RequestHashed
  <2> QED
    BY <1>0, <1>2, <1>11, <2>2 DEF Respond, RequestHashed, TypeOK, keys, locals
<1>12. CASE Fail(r)
  <2>1. newTokens'[r] = Empty /\ existing'[r] = Empty /\ allTokens'[r] = Empty
    BY <1>0, <1>12 DEF Fail, TypeOK, IsDicts
  <2>2. /\ HashedBy(newTokens'[r], hashes[s]) /\ HashedBy(existing'[r], hashes[s])
        /\ HashedBy(allTokens'[r], hashes[s])
    BY <2>1, HashedEmpty
  <2> QED
    BY <1>0, <1>2, <1>12, <2>2 DEF Fail, RequestHashed, TypeOK, keys
<1> QED
  BY <1>3, <1>4, <1>5, <1>6, <1>7, <1>8, <1>9, <1>10, <1>11, <1>12 DEF Step

\* What its only active request has is kept.
LEMMA KeptNext ==
    ASSUME IInv, NEW r \in Requests, Step(r) \/ Start(r) \/ Fail(r),
           NEW s, s = SessionOf[r], s \notin overlapped', Waiting(s)
    PROVE  \A q \in Requests : SessionOf[q] = s => RequestKept(q)'
<1>0. s \in Sessions /\ TypeOK /\ RequestKept(r)
  BY VaultAssumption DEF IInv, Waiting
<1>1. ASSUME NEW q \in Requests, q # r, SessionOf[q] = s PROVE RequestKept(q)'
  <2>1. RequestKept(q)
    BY <1>1 DEF Waiting
  <2>2. /\ ~Active(q) /\ pc'[q] = pc[q] /\ allTokens'[q] = allTokens[q]
        /\ text'[q] = text[q] /\ meta'[q] = meta[q] /\ said'[q] = said[q]
    BY <1>0, <1>1, OthersWait DEF Waiting
  <2> QED
    BY <2>1, <2>2 DEF RequestKept, Active, Ended
<1>2. ASSUME Start(r) PROVE RequestKept(r)'
  BY <1>0, <1>2 DEF Start, NextMessage, RequestKept, TypeOK, keys, answer, Empty
<1>3. ASSUME HashHit(r) \/ HashMiss(r) \/ IncrCounter(r) \/ SetHash(r) \/ CallLlm(r)
      PROVE  RequestKept(r)'
  <2>1. /\ vault'[s] = vault[s] /\ allTokens'[r] = allTokens[r]
        /\ pc[r] \in {"lookup", "incr", "sethash", "llm"}
        /\ pc'[r] \in {"lookup", "incr", "sethash", "detokenize"}
    BY <1>0, <1>3 DEF HashHit, HashMiss, IncrCounter, SetHash, CallLlm, InMessage,
      TypeOK, keys, locals
  <2> QED
    BY <1>0, <2>1 DEF RequestKept, Active, Ended
<1>4. ASSUME GetMap(r) PROVE RequestKept(r)'
  <2>1. /\ existing'[r] = vault[s] /\ vault'[s] = vault[s]
        /\ allTokens'[r] = allTokens[r] /\ pc[r] = "lookup" /\ pc'[r] = "setmap"
    BY <1>0, <1>4 DEF GetMap, TypeOK, IsDicts, keys
  <2> QED
    BY <1>0, <2>1 DEF RequestKept, Active, Ended
<1>5. ASSUME SetMap(r) PROVE RequestKept(r)'
  <2>1. /\ allTokens'[r] = Update(allTokens[r], newTokens[r])
        /\ vault'[s] = Update(existing[r], newTokens[r])
    BY <1>0, <1>5 DEF SetMap, TypeOK, IsDicts
  <2>2. pc[r] = "setmap" /\ pc'[r] \in {"llm", "lookup"}
    BY <1>0, <1>5 DEF SetMap, NextMessage, TypeOK
  <2>3. DOMAIN allTokens'[r] \subseteq DOMAIN vault'[s]
    BY <1>0, <2>1, <2>2 DEF RequestKept, Active, Ended, Update
  <2> QED
    BY <1>0, <2>2, <2>3 DEF RequestKept, Active, Ended
<1>6. ASSUME Respond(r) PROVE RequestKept(r)'
  <2>1. /\ text'[r] = Pick(vault[s], Permitted(r, said[r]))
        /\ meta'[r] = Pick(allTokens[r], Permitted(r, DOMAIN allTokens[r]))
        /\ said'[r] = said[r]
    BY <1>0, <1>6 DEF Respond, TypeOK, IsDicts
  <2>2. pc[r] = "detokenize" /\ pc'[r] = "answered"
    BY <1>0, <1>6 DEF Respond, TypeOK
  <2>3. DOMAIN meta'[r] \cap said'[r] \subseteq DOMAIN text'[r]
    BY <1>0, <2>1, <2>2 DEF RequestKept, Active, Ended, Pick, Restrict, Permitted
  <2> QED
    BY <1>0, <2>2, <2>3 DEF RequestKept, Active, Ended
<1>7. ASSUME Fail(r) PROVE RequestKept(r)'
  BY <1>0, <1>7 DEF Fail, RequestKept, Active, Ended, TypeOK
<1>8. RequestKept(r)'
  BY <1>2, <1>3, <1>4, <1>5, <1>6, <1>7 DEF Step
<1> QED
  BY <1>1, <1>8

LEMMA WaitingNext == IInv /\ WInv /\ [Next]_vars => WInv'
<1> SUFFICES ASSUME IInv, WInv, [Next]_vars PROVE WInv'
  OBVIOUS
<1>1. ASSUME NEW r \in Requests, Step(r) \/ Start(r) \/ Fail(r),
             NEW s \in Sessions \ overlapped'
      PROVE  Waiting(s)'
  <2>1. overlapped \subseteq overlapped'
    BY <1>1 DEF Step, Start, Fail, HashHit, HashMiss, IncrCounter, SetHash,
      GetMap, SetMap, CallLlm, Respond, history
  <2>2. Waiting(s) /\ TypeOK
    BY <2>1 DEF WInv, IInv
  <2>3. CASE s # SessionOf[r]
    BY <1>1, <2>2, <2>3, WaitingElsewhere
  <2>4. CASE s = SessionOf[r]
    <3>1. Alone(s)'
      BY <1>1, <2>2, <2>4, AloneNext DEF Waiting
    <3>2. /\ HashedBy(vault'[s], hashes'[s])
          /\ \A q \in Requests : SessionOf[q] = s => RequestHashed(q)'
      BY <1>1, <2>2, <2>4, HashedNext
    <3>3. \A q \in Requests : SessionOf[q] = s => RequestKept(q)'
      BY <1>1, <2>2, <2>4, KeptNext
    <3> QED
      BY <3>1, <3>2, <3>3 DEF Waiting
  <2> QED
    BY <2>3, <2>4
<1>2. CASE UNCHANGED vars
  BY <1>2 DEF vars, keys, locals, answer, history, WInv, Waiting, Alone, Active, Ended,
    RequestHashed, RequestKept, Span
<1> QED
  BY <1>1, <1>2 DEF WInv, Next

\* Whatever fails half-way, a client that waits for each answer has one token per
\* value of an entity type: the lookup and the SETEX of a hash key are as one.
THEOREM OneToken == Spec => []OneTokenIfWaiting
<1>1. ASSUME IInv, WInv PROVE OneTokenIfWaiting
  <2> SUFFICES ASSUME NEW s \in Sessions \ overlapped, NEW u \in Uses(s)
               PROVE  u[1] = hashes[s][[type |-> u[1].type, value |-> u[2]]]
    BY ZenonT(30) DEF OneTokenIfWaiting, OneTokenIn
  <2>1. Waiting(s) /\ TypeOK /\ Consistent
    BY <1>1 DEF WInv, IInv
  <2>2. ASSUME NEW d, HashedBy(d, hashes[s]), u \in Pairs(d)
        PROVE  u[1] = hashes[s][[type |-> u[1].type, value |-> u[2]]]
    BY <2>2 DEF HashedBy, Pairs
  <2>3. CASE u \in {<<hashes[s][m], m.value>> : m \in DOMAIN hashes[s]}
    BY <2>1, <2>3, HashTyped
  <2>4. CASE u \in Pairs(vault[s])
    BY <2>1, <2>2, <2>4 DEF Waiting
  <2>5. ASSUME NEW r \in Requests, SessionOf[r] = s,
               u \in Pairs(newTokens[r]) \cup Pairs(existing[r]) \cup Pairs(allTokens[r])
                       \cup Pairs(text[r]) \cup Pairs(meta[r])
        PROVE  u[1] = hashes[s][[type |-> u[1].type, value |-> u[2]]]
    BY <2>1, <2>2, <2>5 DEF Waiting, RequestHashed
  <2> QED
    BY <2>3, <2>4, <2>5 DEF Uses
<1>2. Spec => []WInv
  BY WaitingInit, WaitingNext, Consistency, PTL DEF Spec
<1> QED
  BY <1>1, <1>2, Consistency, PTL

\* Nor does it lose a token of a prompt it has sent: the stored vault can turn each
\* of them back, also after requests that failed between the halves of
\* update_token_map.
THEOREM Reversible == Spec => []ReversibleIfWaiting
<1>1. WInv => ReversibleIfWaiting
  BY VaultAssumption DEF WInv, Waiting, RequestKept, ReversibleIfWaiting, ReversibleFor,
    Active, Ended
<1>2. Spec => []WInv
  BY WaitingInit, WaitingNext, Consistency, PTL DEF Spec
<1> QED
  BY <1>1, <1>2, PTL

\* And of the tokens the model used, token_vault exposes no more than the text does.
THEOREM MetaShown == Spec => []MetaNoMoreThanText
<1>1. WInv => MetaNoMoreThanText
  BY VaultAssumption DEF WInv, Waiting, RequestKept, MetaNoMoreThanText
<1>2. Spec => []WInv
  BY WaitingInit, WaitingNext, Consistency, PTL DEF Spec
<1> QED
  BY <1>1, <1>2, PTL
===============================================================================
