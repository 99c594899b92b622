--------------------------- MODULE SessionTtlProofs ---------------------------
(***************************************************************************)
(* Theorems about SessionTtl, for any number of requests, any prompts and  *)
(* any TTL and bounds.                                                     *)
(***************************************************************************)
EXTENDS SessionTtl, TLAPS

USE TtlAssumption

-------------------------------------------------------------------------------
(* Type correctness. *)

LEMMA TypeInit == Init => TypeOK
BY DEF Init, TypeOK, Never, Until, Pairs, Labels

LEMMA FreshType == TypeOK => Fresh \in Nat
BY DEF TypeOK, Fresh

LEMMA PutType ==
    ASSUME NEW map \in Pairs, NEW n \in Nat, NEW v \in Values
    PROVE  Put(map, n, v) \in Pairs
BY DEF Put, Pairs

\* The loop over messages keeps the types of the variables it sets, and a request in
\* the loop has a message.
LEMMA NextMessageType ==
    ASSUME TypeOK, NEW r \in Requests, NEW messages \in Seq(Values),
           NextMessage(r, messages)
    PROVE  /\ pc' \in [Requests -> Labels]
           /\ began' \in [Requests -> Nat]
           /\ todo' \in [Requests -> Seq(Values)]
           /\ pc'[r] \in {"lookup", "llm"} /\ (pc'[r] = "lookup" => todo'[r] # << >>)
           /\ \A q \in Requests : q # r => pc'[q] = pc[q] /\ todo'[q] = todo[q]
           /\ \A q \in Requests : q # r => began'[q] = began[q]
           /\ pc'[r] = "lookup" => began'[r] = began[r]
<1> USE DEF TypeOK, NextMessage, Labels
<1>1. todo' \in [Requests -> Seq(Values)] /\ todo'[r] = messages
      /\ \A q \in Requests : q # r => todo'[q] = todo[q]
  OBVIOUS
<1>2. CASE messages = << >>
  <2>1. pc' = [pc EXCEPT ![r] = "llm"] /\ began' = [began EXCEPT ![r] = now]
    BY <1>2
  <2> QED
    BY <1>1, <2>1
<1>3. CASE messages # << >>
  <2>1. pc' = [pc EXCEPT ![r] = "lookup"] /\ began' = began
    BY <1>3
  <2> QED
    BY <1>1, <1>3, <2>1
<1> QED
  BY <1>2, <1>3

LEMMA TypeNext == TypeOK /\ [Next]_vars => TypeOK'
<1> SUFFICES ASSUME TypeOK, [Next]_vars PROVE TypeOK'
  OBVIOUS
<1> USE DEF session, pii, request, Labels, World
<1>1. CASE SetProvider
  BY <1>1, FreshType DEF SetProvider, TypeOK
<1>2. CASE SetOwner
  BY <1>2, FreshType DEF SetOwner, TypeOK
<1>3. CASE Tick
  BY <1>3 DEF Tick, TypeOK
<1>4. ASSUME NEW r \in Requests, Admit(r) PROVE TypeOK'
  BY <1>4 DEF Admit, TypeOK
<1>5. ASSUME NEW r \in Requests, CheckOwner(r) PROVE TypeOK'
  <2>1. CASE Live(owner)
    <3>1. PICK p \in Prompts : NextMessage(r, p)
      BY <1>5, <2>1 DEF CheckOwner
    <3> QED
      BY <1>5, <3>1, NextMessageType DEF CheckOwner, TypeOK
  <2>2. CASE ~Live(owner)
    BY <1>5, <2>2 DEF CheckOwner, TypeOK
  <2> QED
    BY <2>1, <2>2
<1>6. ASSUME NEW r \in Requests, Lookup(r) PROVE TypeOK'
  <2>1. Head(todo[r]) \in Values
    BY <1>6 DEF Lookup, TypeOK
  <2> QED
    BY <1>6, <2>1, ZenonT(30) DEF Lookup, TypeOK
<1>7. ASSUME NEW r \in Requests, Incr(r) PROVE TypeOK'
  <2>1. Number(counter) + 1 \in Nat
    BY DEF TypeOK, Number
  <2>2. (IF Live(counter.until) THEN counter.until ELSE NoExpiry) \in Until
    BY DEF TypeOK, Until
  <2> QED
    BY <1>7, <2>1, <2>2 DEF Incr, TypeOK
<1>8. ASSUME NEW r \in Requests, Expire(r) PROVE TypeOK'
  BY <1>8, FreshType DEF Expire, TypeOK, Until
<1>9. ASSUME NEW r \in Requests, SetHash(r) PROVE TypeOK'
  <2>1. Head(todo[r]) \in Values
    BY <1>9 DEF SetHash, TypeOK
  <2> QED
    BY <1>9, <2>1, FreshType DEF SetHash, TypeOK
<1>10. ASSUME NEW r \in Requests, GetMap(r) PROVE TypeOK'
  <2>1. Stored \in Pairs
    BY DEF Stored, TypeOK, Pairs
  <2> QED
    BY <1>10, <2>1 DEF GetMap, TypeOK
<1>11. ASSUME NEW r \in Requests, SetMap(r) PROVE TypeOK'
  <2>1. Head(todo[r]) \in Values /\ Tail(todo[r]) \in Seq(Values)
    BY <1>11 DEF SetMap, TypeOK
  <2>2. Put(existing[r], held[r], Head(todo[r])) \in Pairs
    BY <2>1, PutType DEF TypeOK
  <2>3. prompt[r] \cup {<<held[r], Head(todo[r])>>} \in Pairs
    BY <2>1 DEF TypeOK, Pairs
  <2>4. NextMessage(r, Tail(todo[r]))
    BY <1>11 DEF SetMap
  <2> QED
    BY <1>11, <2>1, <2>2, <2>3, <2>4, NextMessageType, FreshType DEF SetMap, TypeOK
<1>12. ASSUME NEW r \in Requests, Answer(r) PROVE TypeOK'
  <2>1. {p \in Stored : \E q \in prompt[r] : q[1] = p[1]} \in Pairs
    BY DEF Stored, TypeOK, Pairs
  <2> QED
    BY <1>12, <2>1 DEF Answer, TypeOK
<1>13. ASSUME NEW r \in Requests, Fail(r) PROVE TypeOK'
  BY <1>13 DEF Fail, TypeOK
<1>14. CASE UNCHANGED vars
  BY <1>14 DEF vars, TypeOK
<1> QED
  BY <1>1, <1>2, <1>3, <1>4, <1>5, <1>6, <1>7, <1>8, <1>9, <1>10, <1>11, <1>12, <1>13,
     <1>14 DEF Next, Step

\* The clock, every key and every request's variables always have their types.
THEOREM TypeCorrect == Spec => []TypeOK
BY TypeInit, TypeNext, PTL DEF Spec

-------------------------------------------------------------------------------
(* When keys expire. *)

\* Every key of the session is written with a fresh TTL while a request that was
\* admitted before the provider key expired is in its handler.
Clock ==
    /\ conf = "none" => /\ provider = Never /\ owner = Never
                        /\ counter.until = Never /\ vault.until = Never
                        /\ \A v \in Values : hashes[v].until = Never
    /\ conf # "none" => created <= now /\ provider = created + TTL
    /\ conf # "ready" => /\ \A r \in Requests : pc[r] = "idle"
                         /\ owner = Never
    /\ conf = "provider" => now <= created + MaxHandling
    /\ conf = "ready" => owner <= provider + MaxHandling
    /\ \A r \in Requests : Tokenizing(r) =>
          /\ began[r] <= now /\ now <= began[r] + MaxHandling
          /\ began[r] < provider

TtlInv == Clock /\ ProviderGoesFirst /\ RetentionBounded

\* What surrounds the session stays what it is.
LEMMA WorldType == TypeOK => MaxHandling \in Nat
BY DEF TypeOK, MaxHandling, World

LEMMA WorldStays == [Next]_vars => UNCHANGED MaxHandling
BY DEF MaxHandling, Next, Step, SetProvider, SetOwner, Tick, Admit, CheckOwner, Lookup,
  Incr, Expire, SetHash, GetMap, SetMap, Answer, Fail, vars, session

\* What a fresh TTL is, in a handler.
LEMMA FreshBounds ==
    ASSUME TypeOK, Clock, NEW r \in Requests, Tokenizing(r)
    PROVE  /\ conf = "ready"
           /\ provider <= Fresh /\ Fresh <= LastExpiry
<1>1. conf = "ready"
  BY DEF Clock, Tokenizing, TypeOK
<1>2. /\ created <= now /\ provider = created + TTL
      /\ now <= began[r] + MaxHandling /\ began[r] < provider
  BY <1>1 DEF Clock
<1>3. now \in Nat /\ created \in Nat /\ began[r] \in Nat /\ MaxHandling \in Nat
  BY WorldType DEF TypeOK
<1>4. provider <= Fresh
  BY <1>2, <1>3 DEF Fresh
<1>5. Fresh <= LastExpiry
  BY <1>2, <1>3 DEF Fresh, LastExpiry
<1> QED
  BY <1>1, <1>4, <1>5

LEMMA TtlInit == Init => TtlInv
BY TypeInit, WorldType DEF Init, TtlInv, Clock, ProviderGoesFirst, RetentionBounded, Outlives, Never,
       Tokenizing, LastExpiry

\* The handler's steps from the loop on leave the session's keys, and a step that
\* stays in the handler leaves its start.
LEMMA ClockNext == TypeOK /\ Clock /\ [Next]_vars => Clock'
<1> SUFFICES ASSUME TypeOK, Clock, [Next]_vars PROVE Clock'
  OBVIOUS
<1>0. MaxHandling' = MaxHandling /\ MaxHandling \in Nat
  BY WorldStays, WorldType
<1> USE <1>0 DEF Clock, Tokenizing, session, pii, request, Never
<1>1. CASE SetProvider
  BY <1>1 DEF SetProvider, TypeOK, Fresh
<1>2. CASE SetOwner
  BY <1>2 DEF SetOwner, TypeOK, Fresh
<1>3. CASE Tick
  BY <1>3 DEF Tick, TypeOK
<1>4. ASSUME NEW r \in Requests, Admit(r) PROVE Clock'
  <2>1. \A q \in Requests : q # r => pc'[q] = pc[q] /\ began'[q] = began[q]
    BY <1>4 DEF Admit, TypeOK
  <2>2. began'[r] = now /\ pc'[r] = IF Live(provider) THEN "owner" ELSE "notfound"
    BY <1>4 DEF Admit, TypeOK
  <2>3. Live(provider) => now < provider
    BY DEF Live, NoExpiry, TypeOK
  <2> QED
    BY <1>4, <2>1, <2>2, <2>3 DEF Admit, TypeOK
<1>5. ASSUME NEW r \in Requests, CheckOwner(r) PROVE Clock'
  <2>1. CASE Live(owner)
    <3>1. PICK p \in Prompts : NextMessage(r, p)
      BY <1>5, <2>1 DEF CheckOwner
    <3> QED
      BY <1>5, <3>1, NextMessageType DEF CheckOwner, TypeOK
  <2>2. CASE ~Live(owner)
    BY <1>5, <2>2 DEF CheckOwner, TypeOK
  <2> QED
    BY <2>1, <2>2
<1>6. ASSUME NEW r \in Requests,
             Lookup(r) \/ Incr(r) \/ Expire(r) \/ SetHash(r) \/ GetMap(r)
      PROVE  Clock'
  <2>1. /\ UNCHANGED <<now, session, began>>
        /\ Tokenizing(r) /\ \A q \in Requests : q # r => pc'[q] = pc[q]
    BY <1>6 DEF Lookup, Incr, Expire, SetHash, GetMap, TypeOK
  <2>2. conf = "ready"
    BY <2>1, FreshBounds
  <2> QED
    BY <2>1, <2>2
<1>7. ASSUME NEW r \in Requests, SetMap(r) PROVE Clock'
  <2>1. NextMessage(r, Tail(todo[r])) /\ Tail(todo[r]) \in Seq(Values)
    BY <1>7 DEF SetMap, TypeOK
  <2>2. conf = "ready"
    BY <1>7, FreshBounds DEF SetMap
  <2>3. UNCHANGED <<now, session, counter, hashes>> /\ Tokenizing(r)
    BY <1>7 DEF SetMap
  <2>4. \A q \in Requests : Tokenizing(q)' => Tokenizing(q) /\ began'[q] = began[q]
    BY <2>1, <2>3, NextMessageType
  <2>5. \A q \in Requests : Tokenizing(q)' =>
          began'[q] <= now' /\ now' <= began'[q] + MaxHandling /\ began'[q] < provider'
    BY <2>3, <2>4
  <2>6. conf' = "ready" /\ created' <= now' /\ provider' = created' + TTL
        /\ owner' <= provider' + MaxHandling
    BY <2>2, <2>3
  <2> QED
    BY <2>5, <2>6
<1>8. ASSUME NEW r \in Requests, Answer(r) \/ Fail(r) PROVE Clock'
  <2>1. /\ UNCHANGED <<now, session, counter, hashes, vault, began>>
        /\ pc[r] # "idle" /\ pc' \in {[pc EXCEPT ![r] = "answered"],
                                     [pc EXCEPT ![r] = "failed"]}
    BY <1>8 DEF Answer, Fail, Active
  <2>2. pc'[r] \in {"answered", "failed"} /\ \A q \in Requests : q # r => pc'[q] = pc[q]
    BY <2>1 DEF TypeOK
  <2>3. conf = "ready"
    BY <2>1 DEF TypeOK
  <2> QED
    BY <2>1, <2>2, <2>3
<1>9. CASE UNCHANGED vars
  BY <1>9 DEF vars
<1> QED
  BY <1>1, <1>2, <1>3, <1>4, <1>5, <1>6, <1>7, <1>8, <1>9 DEF Next, Step

LEMMA BoundsNext ==
    ASSUME TypeOK, TtlInv, [Next]_vars
    PROVE  ProviderGoesFirst' /\ RetentionBounded'
<1>0. MaxHandling' = MaxHandling /\ MaxHandling \in Nat
  BY WorldStays, WorldType
<1> USE <1>0 DEF TtlInv, ProviderGoesFirst, RetentionBounded, Outlives, LastExpiry,
                 session, pii, request
<1>1. CASE SetProvider
  BY <1>1 DEF SetProvider, TypeOK, Fresh, Clock, Never
<1>2. CASE SetOwner
  BY <1>2 DEF SetOwner, TypeOK, Fresh, Clock, Never
<1>3. ASSUME NEW r \in Requests, Incr(r) PROVE ProviderGoesFirst' /\ RetentionBounded'
  <2>1. counter'.until \in {counter.until, NoExpiry}
    BY <1>3 DEF Incr
  <2> QED
    BY <1>3, <2>1 DEF Incr, TypeOK, NoExpiry
<1>4. ASSUME NEW r \in Requests, Expire(r) PROVE ProviderGoesFirst' /\ RetentionBounded'
  <2>1. counter'.until \in {counter.until, Fresh}
    BY <1>4 DEF Expire, TypeOK
  <2> QED
    BY <1>4, <2>1, FreshBounds DEF Expire, Tokenizing
<1>5. ASSUME NEW r \in Requests, SetHash(r) PROVE ProviderGoesFirst' /\ RetentionBounded'
  <2>1. \A v \in Values : hashes'[v].until \in {hashes[v].until, Fresh}
    BY <1>5 DEF SetHash, TypeOK
  <2> QED
    BY <1>5, <2>1, FreshBounds DEF SetHash, Tokenizing
<1>6. ASSUME NEW r \in Requests, SetMap(r) PROVE ProviderGoesFirst' /\ RetentionBounded'
  <2>1. vault'.until = Fresh
    BY <1>6 DEF SetMap
  <2> QED
    BY <1>6, <2>1, FreshBounds DEF SetMap, Tokenizing
<1> QED
  BY <1>1, <1>2, <1>3, <1>4, <1>5, <1>6
  DEF Next, Step, Tick, Admit, CheckOwner, Lookup, GetMap, Answer, Fail, vars

LEMMA TtlInvariant == Spec => []TtlInv
<1>1. TypeOK /\ TtlInv /\ [Next]_vars => TtlInv'
  BY ClockNext, BoundsNext DEF TtlInv
<1> QED
  BY <1>1, TtlInit, TypeCorrect, PTL DEF Spec

\* As long as a session admits requests, no key they depend on has expired, whatever
\* overlaps, dies and takes how long.
THEOREM AdmittedMeansKept == Spec => []ProviderGoesFirst
BY TtlInvariant, PTL DEF TtlInv

\* Raw values leave Redis at most two TTLs and one handler after the session began.
THEOREM Retention == Spec => []RetentionBounded
BY TtlInvariant, PTL DEF TtlInv

\* The owner of a session is told that it belongs to somebody else only by a request
\* in whose handler the session ended, whatever overlaps, dies and takes how long.
THEOREM OwnerAdmitted == Spec => []OwnerRefusedAtTheEnd
<1>1. Init => OwnerRefusedAtTheEnd
  BY DEF Init, OwnerRefusedAtTheEnd
<1>2. TypeOK /\ TtlInv /\ OwnerRefusedAtTheEnd /\ [Next]_vars => OwnerRefusedAtTheEnd'
  <2> SUFFICES ASSUME TypeOK, TtlInv, OwnerRefusedAtTheEnd, [Next]_vars
               PROVE  OwnerRefusedAtTheEnd'
    OBVIOUS
  <2> USE DEF OwnerRefusedAtTheEnd, session, pii, request
  <2>0. MaxHandling' = MaxHandling
    BY WorldStays
  <2>1. ASSUME NEW r \in Requests, CheckOwner(r) PROVE OwnerRefusedAtTheEnd'
    <3>1. CASE Live(owner)
      <4>1. PICK p \in Prompts : NextMessage(r, p)
        BY <2>1, <3>1 DEF CheckOwner
      <4>2. \A q \in Requests : pc'[q] = "refused" => pc[q] = "refused" /\ q # r
        BY <2>1, <4>1, NextMessageType DEF CheckOwner
      <4>3. \A q \in Requests : q # r => began'[q] = began[q]
        BY <4>1 DEF NextMessage, TypeOK
      <4> QED
        BY <2>0, <2>1, <4>2, <4>3 DEF CheckOwner
    <3>2. CASE ~Live(owner)
      <4>1. Tokenizing(r) /\ Clock
        BY <2>1 DEF CheckOwner, Tokenizing, TtlInv
      <4>2. began[r] < provider /\ now <= began[r] + MaxHandling
        BY <4>1 DEF Clock
      <4>3. provider <= owner
        BY <4>1, FreshBounds DEF TtlInv, ProviderGoesFirst
      <4>4. owner <= now
        BY <3>2 DEF Live, TypeOK
      <4>5. provider <= now /\ provider <= began[r] + MaxHandling
        <5>1. /\ provider \in Nat /\ owner \in Nat /\ now \in Nat
              /\ began[r] \in Nat /\ MaxHandling \in Nat
          BY WorldType DEF TypeOK
        <5> QED
          BY <4>2, <4>3, <4>4, <5>1
      <4> QED
        BY <2>0, <2>1, <3>2, <4>2, <4>5 DEF CheckOwner, TypeOK
    <3> QED
      BY <3>1, <3>2
  <2>2. ASSUME NEW r \in Requests, SetMap(r) PROVE OwnerRefusedAtTheEnd'
    <3>1. NextMessage(r, Tail(todo[r])) /\ Tail(todo[r]) \in Seq(Values)
      BY <2>2 DEF SetMap, TypeOK
    <3>2. \A q \in Requests : pc'[q] = "refused" => pc[q] = "refused" /\ q # r
      BY <3>1, NextMessageType
    <3>3. \A q \in Requests : q # r => began'[q] = began[q]
      BY <3>1 DEF NextMessage, TypeOK
    <3> QED
      BY <2>0, <2>2, <3>2, <3>3 DEF SetMap
  <2>3. ASSUME NEW r \in Requests, Admit(r) PROVE OwnerRefusedAtTheEnd'
    BY <2>0, <2>3 DEF Admit, TypeOK
  <2>4. ASSUME NEW r \in Requests,
               \/ Lookup(r) \/ Incr(r) \/ Expire(r) \/ SetHash(r)
               \/ GetMap(r) \/ Answer(r) \/ Fail(r)
        PROVE  OwnerRefusedAtTheEnd'
    <3>1. UNCHANGED <<now, provider, began>>
      BY <2>4 DEF Lookup, Incr, Expire, SetHash, GetMap, Answer, Fail
    <3>2. \A q \in Requests : pc'[q] = "refused" => pc[q] = "refused"
      BY <2>4 DEF Lookup, Incr, Expire, SetHash, GetMap, Answer, Fail, TypeOK
    <3> QED
      BY <2>0, <3>1, <3>2
  <2>5. CASE Tick
    BY <2>0, <2>5 DEF Tick, TypeOK
  <2>6. CASE SetProvider \/ SetOwner
    <3>1. \A r \in Requests : pc[r] # "refused"
      BY <2>6 DEF SetProvider, SetOwner, TtlInv, Clock
    <3> QED
      BY <2>6, <3>1 DEF SetProvider, SetOwner
  <2>7. CASE UNCHANGED vars
    BY <2>0, <2>7 DEF vars
  <2> QED
    BY <2>1, <2>2, <2>3, <2>4, <2>5, <2>6, <2>7 DEF Next, Step
<1> QED
  BY <1>1, <1>2, TypeCorrect, TtlInvariant, PTL DEF Spec

-------------------------------------------------------------------------------
(* The counter's TTL. *)

\* Unless a request dies between INCR and EXPIRE, no counter stays without an expiry.
THEOREM CounterBounded == Spec => []CounterExpires
<1>1. Init => CounterExpires
  BY DEF Init, CounterExpires, Never, NoExpiry
<1>2. TypeOK /\ CounterExpires /\ [Next]_vars => CounterExpires'
  <2> SUFFICES ASSUME TypeOK, CounterExpires, [Next]_vars, ~Crashes', counter'.until = NoExpiry
               PROVE  \E r \in Requests : pc'[r] = "expire"
    BY DEF CounterExpires
  <2> USE DEF session, pii, request
  <2>0. ~Crashes
    BY DEF Crashes, Next, Step, SetProvider, SetOwner, Tick, Admit, CheckOwner, Lookup,
      Incr, Expire, SetHash, GetMap, SetMap, Answer, Fail, vars
  <2>1. ASSUME NEW r \in Requests, Incr(r) PROVE \E q \in Requests : pc'[q] = "expire"
    BY <2>1 DEF Incr, TypeOK
  <2>2. ASSUME NEW r \in Requests, Expire(r) PROVE FALSE
    <3>1. Fresh # NoExpiry
      BY FreshType DEF NoExpiry
    <3> QED
      BY <2>2, <3>1 DEF Expire, Live, TypeOK
  <2>3. ASSUME UNCHANGED counter, \A q \in Requests : pc[q] = "expire" => pc'[q] = "expire"
        PROVE  \E q \in Requests : pc'[q] = "expire"
    BY <2>0, <2>3 DEF CounterExpires
  <2>4. ASSUME NEW r \in Requests, CheckOwner(r) \/ SetMap(r)
        PROVE  \E q \in Requests : pc'[q] = "expire"
    <3>1. UNCHANGED counter /\ pc[r] # "expire"
      BY <2>4 DEF CheckOwner, SetMap
    <3>2. \A q \in Requests : q # r => pc'[q] = pc[q]
      BY <2>4 DEF CheckOwner, SetMap, NextMessage, TypeOK
    <3> QED
      BY <2>3, <3>1, <3>2
  <2>5. ASSUME NEW r \in Requests,
               \/ Admit(r) \/ Lookup(r) \/ SetHash(r) \/ GetMap(r) \/ Answer(r)
        PROVE  \E q \in Requests : pc'[q] = "expire"
    BY <2>3, <2>5 DEF Admit, Lookup, SetHash, GetMap, Answer, TypeOK
  <2>6. CASE SetProvider \/ SetOwner \/ Tick \/ UNCHANGED vars
    BY <2>3, <2>6 DEF SetProvider, SetOwner, Tick, vars
  <2> QED
    BY <2>0, <2>1, <2>2, <2>4, <2>5, <2>6 DEF Next, Step, Fail
<1> QED
  BY <1>1, <1>2, TypeCorrect, PTL DEF Spec

-------------------------------------------------------------------------------
(* A session that is calm: its client waits, its handlers are quick against the  *)
(* clock and do not die.                                                         *)

\* The session's hash key for v was written, with number n.
Denotes(n, v) == hashes[v].until # Never /\ hashes[v].n = n

Numbering ==
    /\ \A v, w \in Values : \A n \in Nat : Denotes(n, v) /\ Denotes(n, w) => v = w
    /\ \A v \in Values : hashes[v].until # Never =>
          counter.until # Never /\ hashes[v].n <= counter.n
    /\ \A p \in vault.map : Denotes(p[1], p[2])
    /\ vault.until = Never => vault.map = {}

\* What a request's handler may rely on, from phase to phase.
Relies(r) ==
    /\ \A p \in prompt[r] : Denotes(p[1], p[2])
    /\ pc[r] \in {"idle", "owner"} => prompt[r] = {}
    /\ Active(r) => prompt[r] \subseteq vault.map
    /\ pc[r] \in {"incr", "expire", "sethash"} => hashes[Head(todo[r])].until = Never
    /\ pc[r] \in {"expire", "sethash"} =>
          /\ held[r] = counter.n /\ counter.until # Never
          /\ \A v \in Values : hashes[v].until # Never => hashes[v].n < counter.n
    /\ pc[r] \in {"getmap", "setmap"} => Denotes(held[r], Head(todo[r]))
    /\ pc[r] = "setmap" => existing[r] = vault.map
    /\ pc[r] = "llm" => now <= began[r] + MaxLlm
    /\ pc[r] = "llm" /\ prompt[r] # {} => began[r] + TTL <= vault.until

OneActive == \A q, r \in Requests : Active(q) /\ Active(r) => q = r

CalmFacts == OneActive /\ Numbering /\ \A r \in Requests : Relies(r)

CalmInv == Calm => CalmFacts

LEMMA CalmStays == [Next]_vars => (Calm' <=> Calm)
BY DEF Calm, MaxHandling, SerialClient, Crashes, Next, Step, SetProvider, SetOwner, Tick,
  Admit, CheckOwner, Lookup, Incr, Expire, SetHash, GetMap, SetMap, Answer, Fail, vars,
  session

\* While a handler runs, a key is there if and only if it was ever written.
LEMMA WrittenIsLive ==
    ASSUME TypeOK, TtlInv, Calm, NEW r \in Requests, Tokenizing(r)
    PROVE  /\ Live(counter.until) <=> counter.until # Never
           /\ Live(vault.until) <=> vault.until # Never
           /\ \A v \in Values : Live(hashes[v].until) <=> hashes[v].until # Never
<1>1. now < provider /\ provider \in Nat /\ now \in Nat \ {0}
  BY DEF TtlInv, Clock, Calm, TypeOK
<1>2. ASSUME NEW until \in Until, Outlives(until) PROVE Live(until) <=> until # Never
  BY <1>1, <1>2 DEF Until, Outlives, Live, Never, NoExpiry
<1> QED
  BY <1>2 DEF TtlInv, ProviderGoesFirst, TypeOK, Until

LEMMA CalmInit == Init => CalmInv
<1> SUFFICES ASSUME Init PROVE CalmFacts
  BY DEF CalmInv
<1>1. OneActive
  BY DEF Init, OneActive, Active, Tokenizing
<1>2. Numbering
  BY DEF Init, Numbering, Denotes, Never
<1>3. \A r \in Requests : Relies(r)
  BY DEF Init, Relies, Active, Tokenizing
<1> QED
  BY <1>1, <1>2, <1>3 DEF CalmFacts

\* A step of the handler that is active: the other requests rely on no more than the
\* meaning of their prompts.
LEMMA OthersRely ==
    ASSUME TypeOK, CalmFacts, NEW r \in Requests, Step(r),
           \A v \in Values : \A n \in Nat : Denotes(n, v) => Denotes(n, v)',
           NEW q \in Requests, q # r
    PROVE  Relies(q)' /\ ~Active(q)'
<1> USE DEF session, pii, request
<1>1. Active(r)
  BY DEF Step, CheckOwner, Lookup, Incr, Expire, SetHash, GetMap, SetMap, Answer, Active,
    Tokenizing
<1>2. ~Active(q)
  BY <1>1 DEF CalmFacts, OneActive
<1>3. pc'[q] = pc[q]
  BY DEF Step, CheckOwner, Lookup, Incr, Expire, SetHash, GetMap, SetMap, Answer,
    NextMessage, TypeOK
<1>4. prompt'[q] = prompt[q]
  BY DEF Step, CheckOwner, Lookup, Incr, Expire, SetHash, GetMap, SetMap, Answer, TypeOK
<1>5. Relies(q) /\ prompt[q] \in SUBSET (Nat \X Values)
  BY DEF CalmFacts, TypeOK, Pairs
<1>6. \A p \in prompt'[q] : Denotes(p[1], p[2])'
  BY <1>4, <1>5 DEF Relies
<1> QED
  BY <1>2, <1>3, <1>4, <1>5, <1>6 DEF Relies, Active, Tokenizing

\* So it is enough to look at the request that moves.
LEMMA OneMoves ==
    ASSUME TypeOK, CalmFacts, NEW r \in Requests, Step(r),
           \A v \in Values : \A n \in Nat : Denotes(n, v) => Denotes(n, v)',
           Numbering', Relies(r)'
    PROVE  CalmFacts'
<1>1. \A q \in Requests : q # r => Relies(q)' /\ ~Active(q)'
  BY OthersRely
<1> QED
  BY <1>1 DEF CalmFacts, OneActive

LEMMA CheckOwnerCalm ==
    ASSUME TypeOK, CalmFacts, NEW r \in Requests, CheckOwner(r) PROVE CalmFacts'
<1>1. Numbering' /\ \A v \in Values : \A n \in Nat : Denotes(n, v) => Denotes(n, v)'
  BY DEF CheckOwner, CalmFacts, Numbering, Denotes, pii
<1>2. Relies(r) /\ prompt[r] = {} /\ pc[r] = "owner"
  BY DEF CalmFacts, Relies, CheckOwner
<1>3. prompt'[r] = {} /\ now' = now
  BY <1>2 DEF CheckOwner
<1>4. pc'[r] \in {"lookup", "llm", "refused"} /\ (pc'[r] = "llm" => began'[r] = now)
  BY DEF CheckOwner, NextMessage, TypeOK
<1>5. Relies(r)'
  BY <1>3, <1>4 DEF Relies, TypeOK
<1> QED
  BY <1>1, <1>5, OneMoves DEF Step

LEMMA LookupCalm ==
    ASSUME TypeOK, TtlInv, Calm, CalmFacts, NEW r \in Requests, Lookup(r)
    PROVE  CalmFacts'
<1>1. Numbering' /\ \A v \in Values : \A n \in Nat : Denotes(n, v) => Denotes(n, v)'
  BY DEF Lookup, CalmFacts, Numbering, Denotes, pii
<1>2. Relies(r) /\ Tokenizing(r) /\ Head(todo[r]) \in Values
  BY DEF CalmFacts, Lookup, Tokenizing, TypeOK
<1>3. prompt'[r] = prompt[r] /\ vault' = vault /\ hashes' = hashes /\ todo' = todo
  BY DEF Lookup, pii
<1>4. Live(hashes[Head(todo[r])].until) <=> hashes[Head(todo[r])].until # Never
  BY <1>2, WrittenIsLive
<1>5. \/ pc'[r] = "getmap" /\ held'[r] = hashes[Head(todo[r])].n
         /\ hashes[Head(todo[r])].until # Never
      \/ pc'[r] = "incr" /\ hashes[Head(todo[r])].until = Never
  BY <1>4 DEF Lookup, TypeOK
<1>6. Relies(r)'
  BY <1>2, <1>3, <1>5 DEF Relies, Denotes, Active, Tokenizing
<1> QED
  BY <1>1, <1>6, OneMoves DEF Step

LEMMA IncrCalm ==
    ASSUME TypeOK, TtlInv, Calm, CalmFacts, NEW r \in Requests, Incr(r)
    PROVE  CalmFacts'
<1>1. Relies(r) /\ Tokenizing(r) /\ Numbering /\ pc[r] = "incr"
  BY DEF CalmFacts, Incr, Tokenizing
<1>2. counter.until # Never => Number(counter) = counter.n
  BY <1>1, WrittenIsLive DEF Number
<1>3. \A v \in Values : hashes[v].until # Never => hashes[v].n <= Number(counter)
  BY <1>1, <1>2 DEF Numbering
<1>4. /\ counter'.n = Number(counter) + 1 /\ held'[r] = Number(counter) + 1
      /\ Number(counter) \in Nat /\ pc'[r] = "expire"
      /\ UNCHANGED <<hashes, vault, todo, prompt>>
  BY DEF Incr, TypeOK, Number
<1>5. counter'.until # Never
  BY DEF Incr, Live, Never, NoExpiry, TypeOK
<1>6. Numbering' /\ \A v \in Values : \A n \in Nat : Denotes(n, v) => Denotes(n, v)'
  BY <1>1, <1>3, <1>4, <1>5 DEF Numbering, Denotes, TypeOK
<1>7. Relies(r)'
  BY <1>1, <1>3, <1>4, <1>5 DEF Relies, Denotes, Active, Tokenizing, TypeOK
<1> QED
  BY <1>6, <1>7, OneMoves DEF Step

LEMMA ExpireCalm ==
    ASSUME TypeOK, CalmFacts, NEW r \in Requests, Expire(r) PROVE CalmFacts'
<1>1. Relies(r) /\ Numbering /\ pc[r] = "expire"
  BY DEF CalmFacts, Expire
<1>2. /\ counter'.n = counter.n /\ counter'.until \in {counter.until, Fresh}
      /\ pc'[r] = "sethash" /\ UNCHANGED <<hashes, vault, todo, held, prompt>>
  BY DEF Expire, TypeOK
<1>3. counter'.until # Never
  BY <1>1, <1>2 DEF Relies, Fresh, Never, TypeOK
<1>4. Numbering' /\ \A v \in Values : \A n \in Nat : Denotes(n, v) => Denotes(n, v)'
  BY <1>1, <1>2, <1>3 DEF Numbering, Denotes
<1>5. Relies(r)'
  BY <1>1, <1>2, <1>3 DEF Relies, Denotes, Active, Tokenizing
<1> QED
  BY <1>4, <1>5, OneMoves DEF Step

\* The number in hand is above all others.
LEMMA SetHashCalm ==
    ASSUME TypeOK, CalmFacts, NEW r \in Requests, SetHash(r) PROVE CalmFacts'
<1> DEFINE x == Head(todo[r])
<1>1. Relies(r) /\ Numbering /\ pc[r] = "sethash" /\ x \in Values
  BY DEF CalmFacts, SetHash, TypeOK
<1>2. /\ hashes[x].until = Never /\ held[r] = counter.n /\ counter.until # Never
      /\ \A v \in Values : hashes[v].until # Never => hashes[v].n < counter.n
  BY <1>1 DEF Relies
<1>3. /\ hashes'[x] = [n |-> held[r], until |-> Fresh]
      /\ \A v \in Values : v # x => hashes'[v] = hashes[v]
      /\ UNCHANGED <<counter, vault, prompt, todo, held>> /\ pc'[r] = "getmap"
  BY <1>1 DEF SetHash, TypeOK
<1>4. Fresh # Never
  BY DEF Fresh, Never, TypeOK
<1>5. \A v \in Values : \A n \in Nat : Denotes(n, v) => Denotes(n, v)'
  BY <1>2, <1>3 DEF Denotes
<1>6. Numbering'
  <2>1. \A p \in vault.map : p[1] \in Nat /\ p[2] \in Values
    BY DEF TypeOK, Pairs
  <2>0. /\ hashes'[x].n = counter.n /\ counter.n \in Nat
        /\ \A v \in Values : hashes[v].n \in Nat
    BY <1>2, <1>3 DEF TypeOK
  <2> HIDE DEF x
  <2>2. ASSUME NEW v \in Values, hashes'[v].until # Never
        PROVE  counter'.until # Never /\ hashes'[v].n <= counter'.n
    <3>1. CASE v = x
      BY <1>2, <1>3, <2>0, <3>1
    <3>2. CASE v # x
      BY <1>2, <1>3, <2>0, <2>2, <3>2
    <3> QED
      BY <3>1, <3>2
  <2>3. ASSUME NEW v \in Values, NEW w \in Values, NEW n \in Nat,
               hashes'[v].until # Never, hashes'[v].n = n,
               hashes'[w].until # Never, hashes'[w].n = n
        PROVE  v = w
    <3>1. CASE v # x /\ w # x
      BY <1>1, <1>3, <2>3, <3>1 DEF Numbering, Denotes
    <3>2. CASE v = x /\ w # x
      BY <1>2, <1>3, <2>0, <2>3, <3>2
    <3>3. CASE v # x /\ w = x
      BY <1>2, <1>3, <2>0, <2>3, <3>3
    <3> QED
      BY <3>1, <3>2, <3>3
  <2>4. \A p \in vault'.map : Denotes(p[1], p[2])'
    <3>1. ASSUME NEW p \in vault.map PROVE Denotes(p[1], p[2])'
      BY <1>1, <1>2, <1>3, <2>1 DEF Numbering, Denotes
    <3> QED
      BY <1>3, <3>1 DEF Denotes
  <2> QED
    BY <1>1, <1>3, <2>2, <2>3, <2>4 DEF Numbering, Denotes
<1>7. Relies(r)'
  <2>1. \A p \in prompt[r] : p[1] \in Nat /\ p[2] \in Values
    BY DEF TypeOK, Pairs
  <2>2. \A p \in prompt[r] : Denotes(p[1], p[2])'
    BY <1>1, <1>2, <1>3, <2>1 DEF Relies, Denotes
  <2>3. hashes'[x].until # Never /\ hashes'[x].n = held[r]
    BY <1>3, <1>4
  <2> QED
    BY <1>1, <1>3, <2>2, <2>3 DEF Relies, Denotes, Active, Tokenizing
<1> QED
  BY <1>5, <1>6, <1>7, OneMoves DEF Step

LEMMA GetMapCalm ==
    ASSUME TypeOK, TtlInv, Calm, CalmFacts, NEW r \in Requests, GetMap(r)
    PROVE  CalmFacts'
<1>1. Relies(r) /\ Tokenizing(r) /\ Numbering /\ pc[r] = "getmap"
  BY DEF CalmFacts, GetMap, Tokenizing
<1>2. Stored = vault.map
  BY <1>1, WrittenIsLive DEF Stored, Numbering
<1>3. /\ existing'[r] = vault.map /\ pc'[r] = "setmap"
      /\ UNCHANGED <<counter, hashes, vault, todo, held, prompt>>
  BY <1>2 DEF GetMap, TypeOK, pii
<1>4. Numbering' /\ \A v \in Values : \A n \in Nat : Denotes(n, v) => Denotes(n, v)'
  BY <1>1, <1>3 DEF Numbering, Denotes
<1>5. Relies(r)'
  BY <1>1, <1>3 DEF Relies, Denotes, Active, Tokenizing
<1> QED
  BY <1>4, <1>5, OneMoves DEF Step

\* The map has the pair of the message, and still those of the messages before.
LEMMA SetMapCalm ==
    ASSUME TypeOK, CalmFacts, NEW r \in Requests, SetMap(r) PROVE CalmFacts'
<1> DEFINE x == Head(todo[r])
           n == held[r]
<1>1. /\ Relies(r) /\ Numbering /\ pc[r] = "setmap" /\ x \in Values /\ n \in Nat
      /\ Tail(todo[r]) \in Seq(Values)
  BY DEF CalmFacts, SetMap, TypeOK
<1>2. Denotes(n, x) /\ existing[r] = vault.map /\ prompt[r] \subseteq vault.map
  BY <1>1 DEF Relies, Active, Tokenizing
<1>3. vault.map \in SUBSET (Nat \X Values) /\ \A p \in vault.map : Denotes(p[1], p[2])
  BY <1>1 DEF Numbering, TypeOK, Pairs
<1>4. vault'.map = Put(vault.map, n, x) /\ vault'.until = Fresh /\ UNCHANGED <<counter, hashes>>
  BY <1>2 DEF SetMap
<1>5. prompt'[r] = prompt[r] \cup {<<n, x>>}
  BY DEF SetMap, TypeOK
<1>6. /\ pc'[r] \in {"lookup", "llm"}
      /\ pc'[r] = "llm" => began'[r] = now
      /\ now' = now
  BY <1>1, NextMessageType DEF SetMap, NextMessage, TypeOK
<1>7. \A p \in vault.map : p[1] = n => p = <<n, x>>
  <2>1. \A v, w \in Values : \A k \in Nat : Denotes(k, v) /\ Denotes(k, w) => v = w
    BY <1>1 DEF Numbering
  <2> QED
    BY <1>1, <1>2, <1>3, <2>1
<1>8. \A p \in vault'.map : Denotes(p[1], p[2])
  BY <1>2, <1>3, <1>4 DEF Put
<1>9. prompt'[r] \subseteq vault'.map
  BY <1>2, <1>4, <1>5, <1>7 DEF Put
<1>10. Fresh # Never /\ Fresh = now + TTL
  BY DEF Fresh, Never, TypeOK
<1>11. \A v \in Values : \A k \in Nat : Denotes(k, v) <=> Denotes(k, v)'
  BY <1>4 DEF Denotes
<1>12. Numbering'
  BY <1>1, <1>4, <1>8, <1>10 DEF Numbering, Denotes
<1>13. Relies(r)'
  <2>1. \A p \in prompt'[r] : Denotes(p[1], p[2])'
    BY <1>4, <1>8, <1>9 DEF Denotes
  <2> HIDE DEF x, n
  <2> QED
    BY <1>4, <1>6, <1>9, <1>10, <2>1 DEF Relies, TypeOK
<1> QED
  BY <1>11, <1>12, <1>13, OneMoves DEF Step

LEMMA AnswerCalm ==
    ASSUME TypeOK, CalmFacts, NEW r \in Requests, Answer(r) PROVE CalmFacts'
<1>1. Relies(r) /\ Numbering
  BY DEF CalmFacts
<1>2. pc'[r] = "answered" /\ UNCHANGED <<counter, hashes, vault, prompt>>
  BY DEF Answer, TypeOK, pii
<1>3. Numbering' /\ \A v \in Values : \A n \in Nat : Denotes(n, v) => Denotes(n, v)'
  BY <1>1, <1>2 DEF Numbering, Denotes
<1>4. Relies(r)'
  BY <1>1, <1>2 DEF Relies, Denotes, Active, Tokenizing
<1> QED
  BY <1>3, <1>4, OneMoves DEF Step

LEMMA AdmitCalm ==
    ASSUME TypeOK, Calm, CalmFacts, NEW r \in Requests, Admit(r) PROVE CalmFacts'
<1>1. \A q \in Requests : ~Active(q)
  BY DEF Admit, Calm
<1>2. /\ pc[r] = "idle" /\ pc'[r] \in {"owner", "notfound"}
      /\ \A q \in Requests : q # r => pc'[q] = pc[q]
      /\ UNCHANGED <<counter, hashes, vault, prompt>>
  BY DEF Admit, TypeOK, pii
<1>3. Numbering' /\ OneActive'
  BY <1>1, <1>2 DEF CalmFacts, Numbering, Denotes, OneActive, Active, Tokenizing
<1>4. ASSUME NEW q \in Requests PROVE Relies(q)'
  BY <1>1, <1>2 DEF CalmFacts, Relies, Denotes, Active, Tokenizing
<1> QED
  BY <1>3, <1>4 DEF CalmFacts

LEMMA CalmNext == TypeOK /\ TtlInv /\ CalmInv /\ [Next]_vars => CalmInv'
<1> SUFFICES ASSUME TypeOK, TtlInv, Calm, CalmFacts, [Next]_vars PROVE CalmFacts'
  BY CalmStays DEF CalmInv
<1>1. ASSUME NEW r \in Requests, Step(r) PROVE CalmFacts'
  BY <1>1, CheckOwnerCalm, LookupCalm, IncrCalm, ExpireCalm, SetHashCalm, GetMapCalm,
     SetMapCalm, AnswerCalm DEF Step
<1>2. ASSUME NEW r \in Requests, Admit(r) PROVE CalmFacts'
  BY <1>2, AdmitCalm
<1>3. CASE Tick
  <2>1. /\ now' = now + 1 /\ UNCHANGED <<counter, hashes, vault, pc, began, todo, held,
                                         existing, prompt>>
        /\ \A r \in Requests : pc[r] = "llm" => now < began[r] + MaxLlm
    BY <1>3 DEF Tick, pii, request
  <2>2. OneActive' /\ Numbering'
    BY <2>1 DEF CalmFacts, OneActive, Active, Tokenizing, Numbering, Denotes
  <2>3. ASSUME NEW r \in Requests PROVE Relies(r)'
    <3>1. Relies(r) /\ began[r] \in Nat /\ now \in Nat
      BY DEF CalmFacts, TypeOK
    <3> QED
      BY <2>1, <3>1 DEF Relies, Denotes, Active, Tokenizing
  <2> QED
    BY <2>2, <2>3 DEF CalmFacts
<1>4. CASE SetProvider \/ SetOwner \/ UNCHANGED vars
  <2>1. UNCHANGED <<now, counter, hashes, vault, pc, began, todo, held, existing, prompt>>
    BY <1>4 DEF SetProvider, SetOwner, vars, pii, request
  <2> QED
    BY <2>1 DEF CalmFacts, OneActive, Active, Tokenizing, Numbering, Denotes, Relies
<1>5. ~\E r \in Requests : Fail(r)
  BY DEF Fail, Calm
<1> QED
  BY <1>1, <1>2, <1>3, <1>4, <1>5 DEF Next

LEMMA CalmInvariant == Spec => []CalmInv
BY CalmInit, CalmNext, TypeCorrect, TtlInvariant, PTL DEF Spec

\* In a calm session the tokens of a prompt are unambiguous, although the counter, the
\* hash keys and the map expire at different times.
THEOREM PromptClear == Spec => []PromptUnambiguous
<1>1. ASSUME TypeOK, CalmInv PROVE PromptUnambiguous
  <2> SUFFICES ASSUME CalmFacts, NEW r \in Requests, NEW p \in prompt[r], NEW q \in prompt[r],
                      p[1] = q[1]
               PROVE  p[2] = q[2]
    BY <1>1 DEF CalmInv, PromptUnambiguous
  <2>1. p[1] \in Nat /\ p[2] \in Values /\ q[2] \in Values
    BY <1>1 DEF TypeOK, Pairs
  <2>2. Denotes(p[1], p[2]) /\ Denotes(p[1], q[2])
    BY DEF CalmFacts, Relies
  <2> QED
    BY <2>1, <2>2 DEF CalmFacts, Numbering
<1> QED
  BY <1>1, CalmInvariant, TypeCorrect, PTL

\* And the answer can be given back the values of the prompt and no others, if the
\* LLM's timeout is shorter than the TTL.
THEOREM AnswerTrue ==
    ASSUME MaxLlm < TTL
    PROVE  Spec => []AnswerMeansPrompt
<1>1. Init => AnswerMeansPrompt
  BY DEF Init, AnswerMeansPrompt
<1>2. TypeOK /\ CalmInv /\ AnswerMeansPrompt /\ [Next]_vars => AnswerMeansPrompt'
  <2> SUFFICES ASSUME TypeOK, CalmFacts, [Next]_vars, Calm,
                      \A r \in Requests : pc[r] = "answered" => answer[r] = prompt[r],
                      NEW r \in Requests, pc'[r] = "answered"
               PROVE  answer'[r] = prompt'[r]
    BY CalmStays DEF CalmInv, AnswerMeansPrompt
  <2> USE DEF session, pii, request
  <2>1. CASE Answer(r)
    <3>1. /\ answer'[r] = {p \in Stored : \E q \in prompt[r] : q[1] = p[1]}
          /\ prompt'[r] = prompt[r] /\ pc[r] = "llm"
      BY <2>1 DEF Answer, TypeOK
    <3>2. Relies(r) /\ Numbering
      BY DEF CalmFacts
    <3>3. prompt[r] \in SUBSET (Nat \X Values) /\ vault.map \in SUBSET (Nat \X Values)
      BY DEF TypeOK, Pairs
    <3>4. CASE prompt[r] = {}
      BY <3>1, <3>4
    <3>5. CASE prompt[r] # {}
      <4>1. began[r] + TTL <= vault.until /\ now <= began[r] + MaxLlm
        BY <3>1, <3>2, <3>5 DEF Relies
      <4>2. Live(vault.until)
        BY <4>1 DEF Live, TypeOK
      <4>3. Stored = vault.map /\ prompt[r] \subseteq vault.map
        BY <3>1, <3>2, <4>2 DEF Stored, Relies, Active
      <4>4. ASSUME NEW p \in vault.map, NEW q \in prompt[r], q[1] = p[1] PROVE p = q
        <5>1. Denotes(p[1], p[2]) /\ Denotes(p[1], q[2])
          BY <3>2, <4>3, <4>4 DEF Numbering
        <5>2. p[1] \in Nat /\ p[2] \in Values /\ q[2] \in Values
          BY <3>3, <4>4
        <5>3. p[2] = q[2]
          BY <3>2, <5>1, <5>2 DEF Numbering
        <5> QED
          BY <3>3, <4>4, <5>3
      <4> QED
        BY <3>1, <4>3, <4>4
    <3> QED
      BY <3>4, <3>5
  <2>2. CASE ~Answer(r)
    <3>1. pc[r] = "answered"
      <4>1. ASSUME NEW q \in Requests, CheckOwner(q) \/ SetMap(q) PROVE pc[r] = "answered"
        <5>1. q = r => pc'[r] # "answered"
          BY <4>1 DEF CheckOwner, SetMap, NextMessage, TypeOK
        <5>2. q # r => pc'[r] = pc[r]
          BY <4>1 DEF CheckOwner, SetMap, NextMessage, TypeOK
        <5> QED
          BY <5>1, <5>2
      <4>2. ASSUME NEW q \in Requests, Admit(q) \/ Fail(q) \/ Answer(q)
            PROVE  pc[r] = "answered"
        BY <2>2, <4>2 DEF Admit, Fail, Answer, TypeOK
      <4>3. ASSUME NEW q \in Requests,
                   Lookup(q) \/ Incr(q) \/ Expire(q) \/ SetHash(q) \/ GetMap(q)
            PROVE  pc[r] = "answered"
        BY <4>3 DEF Lookup, Incr, Expire, SetHash, GetMap, TypeOK
      <4>4. CASE SetProvider \/ SetOwner \/ Tick \/ UNCHANGED vars
        BY <4>4 DEF SetProvider, SetOwner, Tick, vars
      <4> QED
        BY <4>1, <4>2, <4>3, <4>4 DEF Next, Step
    <3>2. answer'[r] = answer[r] /\ prompt'[r] = prompt[r]
      BY <2>2, <3>1 DEF Next, Step, SetProvider, SetOwner, Tick, Admit, CheckOwner,
        Lookup, Incr, Expire, SetHash, GetMap, SetMap, Answer, Fail, vars, TypeOK
    <3> QED
      BY <3>1, <3>2
  <2> QED
    BY <2>1, <2>2
<1> QED
  BY <1>1, <1>2, CalmInvariant, TypeCorrect, PTL DEF Spec
===============================================================================
