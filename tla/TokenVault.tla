------------------------------ MODULE TokenVault ------------------------------
(***************************************************************************)
(* The PII vault of a session: gateway/redis_store.py as chat_completions  *)
(* (gateway/main.py) drives it through run_tokenize and run_detokenize.    *)
(*                                                                         *)
(* Requests of one session run concurrently.  Every Redis command is an    *)
(* await, so it is an action of its own: GET and SETEX of a hash key, INCR *)
(* of a counter, GET and SETEX of the encrypted token map.  Between two    *)
(* awaits a request only touches its own variables.                        *)
(*                                                                         *)
(* Abstractions.  A detected span is a mention: its entity type and its    *)
(* text.  A hash key stands for the mention it hashes, a token for the     *)
(* entity type and the number in {{SHORT_n}} (ENTITY_SHORT is injective).  *)
(* Fernet and JSON round trips are in the scope of other modules; the keys *)
(* of a session do not expire here (SessionTtl has the clock).             *)
(***************************************************************************)
EXTENDS Naturals, Sequences, FiniteSets, Functions

CONSTANTS
    Sessions,     \* session ids
    Requests,     \* chat requests
    Types,        \* PII entity types
    Values,       \* the strings found in messages
    SessionOf,    \* the session a request names in X-Session-ID
    Allowed,      \* the entity types the role of a request's caller may see
    Prompts       \* bodies: sequences of messages, each the mentions found in
                  \*   it in the order run_tokenize replaces them

Mention == [type : Types, value : Values]
Token == [type : Types, n : Nat]

ASSUME VaultAssumption ==
    /\ SessionOf \in [Requests -> Sessions]
    /\ Allowed \in [Requests -> SUBSET Types]
    /\ Prompts \subseteq Seq(Seq(Mention))

VARIABLES
    hashes,     \* session:{id}:hash:{h}      hashes[s]: mention |-> token
    counters,   \* session:{id}:counter:{type}
    vault,      \* session:{id}:tokens        vault[s]: token |-> value
    pc,         \* the next await of each request
    todo,       \* the messages after the current one
    msg,        \* the mentions left in the current message
    held,       \* the token between INCR and SETEX of its hash key
    newTokens,  \* new_token_map of the current message
    existing,   \* the map update_token_map read
    allTokens,  \* all_tokens
    said,       \* the tokens in the LLM's answer
    text,       \* the tokens run_detokenize replaced in it, and by what
    meta,       \* _meta.token_vault of the response
    ledger,     \* history: the mention each token was minted for,
    overlapped  \*   and the sessions whose client did not wait for an answer
                \*   before it sent again, as the chat page does (ChatPage)

keys == <<hashes, counters, vault>>
locals == <<todo, msg, held, newTokens, existing, allTokens>>
answer == <<said, text, meta>>
history == <<ledger, overlapped>>
vars == <<keys, pc, locals, answer, history>>

-------------------------------------------------------------------------------
(* Python dictionaries. *)

Empty == [x \in {} |-> x]

\* d after d.update(e), and after d[k] = v; the items of d with a key in K.  (Not
\* @@ and :>, which tlapm cannot expand.)
Update(d, e) ==
    [k \in DOMAIN d \cup DOMAIN e |-> IF k \in DOMAIN e THEN e[k] ELSE d[k]]
Put(d, k, v) ==
    [j \in DOMAIN d \cup {k} |-> IF j = k THEN v ELSE d[j]]
Pick(d, K) == Restrict(d, K \cap DOMAIN d)

-------------------------------------------------------------------------------
NoToken == [type |-> "none", n |-> 0]

Init ==
    /\ hashes = [s \in Sessions |-> Empty]
    /\ counters = [s \in Sessions |-> [t \in Types |-> 0]]
    /\ vault = [s \in Sessions |-> Empty]
    /\ pc = [r \in Requests |-> "idle"]
    /\ todo = [r \in Requests |-> << >>]
    /\ msg = [r \in Requests |-> << >>]
    /\ held = [r \in Requests |-> NoToken]
    /\ newTokens = [r \in Requests |-> Empty]
    /\ existing = [r \in Requests |-> Empty]
    /\ allTokens = [r \in Requests |-> Empty]
    /\ said = [r \in Requests |-> {}]
    /\ text = [r \in Requests |-> Empty]
    /\ meta = [r \in Requests |-> Empty]
    /\ ledger = [s \in Sessions |-> Empty]
    /\ overlapped = {}

Ended(r) == pc[r] \in {"answered", "blocked"}
Active(r) == pc[r] # "idle" /\ ~Ended(r)

\* The span run_tokenize replaces next.
InMessage(r) == pc[r] = "lookup" /\ msg[r] # << >>
Span(r) == Head(msg[r])

\* new_token_map[token] = original_value, and on to the next span.
Note(r, t) ==
    /\ newTokens' = [newTokens EXCEPT ![r] = Put(@, t, Span(r).value)]
    /\ msg' = [msg EXCEPT ![r] = Tail(@)]

\* The head of the loop over the messages ms.
NextMessage(r, ms) ==
    IF ms = << >>
      THEN /\ pc' = [pc EXCEPT ![r] = "llm"]
           /\ UNCHANGED <<todo, msg>>
      ELSE /\ pc' = [pc EXCEPT ![r] = "lookup"]
           /\ msg' = [msg EXCEPT ![r] = Head(ms)]
           /\ todo' = [todo EXCEPT ![r] = Tail(ms)]

\* The request has passed authentication and the ownership check.
Start(r) ==
    /\ pc[r] = "idle"
    /\ \E p \in Prompts : NextMessage(r, p)
    /\ overlapped' = overlapped \cup {s \in {SessionOf[r]} :
                                       \E q \in Requests : SessionOf[q] = s /\ Active(q)}
    /\ UNCHANGED <<keys, held, newTokens, existing, allTokens, answer, ledger>>

\* get_or_create_token_for_hash: the GET finds a token ...
HashHit(r) ==
    /\ InMessage(r)
    /\ Span(r) \in DOMAIN hashes[SessionOf[r]]
    /\ Note(r, hashes[SessionOf[r]][Span(r)])
    /\ UNCHANGED <<keys, pc, todo, held, existing, allTokens, answer, history>>

\* ... or none.
HashMiss(r) ==
    /\ InMessage(r)
    /\ Span(r) \notin DOMAIN hashes[SessionOf[r]]
    /\ pc' = [pc EXCEPT ![r] = "incr"]
    /\ UNCHANGED <<keys, locals, answer, history>>

\* Mutant: number tokens by counting the hash keys, which is right as long as
\* nobody else is between its miss and its SETEX.
IncrCounterByKeys(r) ==
    LET s == SessionOf[r]
        m == Span(r)
        n == Cardinality({k \in DOMAIN hashes[s] : k.type = m.type}) + 1
        t == [type |-> m.type, n |-> n]
    IN /\ pc[r] = "incr"
       /\ counters' = [counters EXCEPT ![s][m.type] = n]
       /\ held' = [held EXCEPT ![r] = t]
       /\ ledger' = [ledger EXCEPT ![s] = Put(@, t, m)]
       /\ pc' = [pc EXCEPT ![r] = "sethash"]
       /\ UNCHANGED <<hashes, vault, todo, msg, newTokens, existing, allTokens, answer,
                      overlapped>>

\* INCR (and EXPIRE, which changes nothing modelled here).
IncrCounter(r) ==
    LET s == SessionOf[r]
        m == Span(r)
        t == [type |-> m.type, n |-> counters[s][m.type] + 1]
    IN /\ pc[r] = "incr"
       /\ counters' = [counters EXCEPT ![s][m.type] = @ + 1]
       /\ held' = [held EXCEPT ![r] = t]
       /\ ledger' = [ledger EXCEPT ![s] = Put(@, t, m)]
       /\ pc' = [pc EXCEPT ![r] = "sethash"]
       /\ UNCHANGED <<hashes, vault, todo, msg, newTokens, existing, allTokens, answer,
                      overlapped>>

\* Mutant: the hash key is not written.
SetHashForgets(r) ==
    /\ pc[r] = "sethash"
    /\ Note(r, held[r])
    /\ held' = [held EXCEPT ![r] = NoToken]
    /\ pc' = [pc EXCEPT ![r] = "lookup"]
    /\ UNCHANGED <<keys, todo, existing, allTokens, answer, history>>

\* SETEX of the hash key, whatever it holds by now.
SetHash(r) ==
    LET s == SessionOf[r]
    IN /\ pc[r] = "sethash"
       /\ hashes' = [hashes EXCEPT ![s] = Put(@, Span(r), held[r])]
       /\ Note(r, held[r])
       /\ held' = [held EXCEPT ![r] = NoToken]
       /\ pc' = [pc EXCEPT ![r] = "lookup"]
       /\ UNCHANGED <<counters, vault, todo, existing, allTokens, answer, history>>

\* update_token_map: the read half ...
GetMap(r) ==
    /\ pc[r] = "lookup"
    /\ msg[r] = << >>
    /\ existing' = [existing EXCEPT ![r] = vault[SessionOf[r]]]
    /\ pc' = [pc EXCEPT ![r] = "setmap"]
    /\ UNCHANGED <<keys, todo, msg, held, newTokens, allTokens, answer, history>>

\* Mutant: set_token_map(new_tokens) without the merge.
SetMapOverwrites(r) ==
    /\ pc[r] = "setmap"
    /\ vault' = [vault EXCEPT ![SessionOf[r]] = newTokens[r]]
    /\ allTokens' = [allTokens EXCEPT ![r] = Update(@, newTokens[r])]
    /\ newTokens' = [newTokens EXCEPT ![r] = Empty]
    /\ existing' = [existing EXCEPT ![r] = Empty]
    /\ NextMessage(r, todo[r])
    /\ UNCHANGED <<hashes, counters, held, answer, history>>

\* ... and the write half, with the end of the loop's body.
SetMap(r) ==
    /\ pc[r] = "setmap"
    /\ vault' = [vault EXCEPT ![SessionOf[r]] = Update(existing[r], newTokens[r])]
    /\ allTokens' = [allTokens EXCEPT ![r] = Update(@, newTokens[r])]
    /\ newTokens' = [newTokens EXCEPT ![r] = Empty]
    /\ existing' = [existing EXCEPT ![r] = Empty]
    /\ NextMessage(r, todo[r])
    /\ UNCHANGED <<hashes, counters, held, answer, history>>

\* The model was sent the tokens of allTokens; it answers with any tokens, also
\* with ones it saw in an earlier turn or made up by counting on.
Utterances(r) ==
    SUBSET (DOMAIN ledger[SessionOf[r]]
              \cup {[type |-> ty, n |-> 1] : ty \in Types})

CallLlm(r) ==
    /\ pc[r] = "llm"
    /\ \E T \in Utterances(r) : said' = [said EXCEPT ![r] = T]
    /\ pc' = [pc EXCEPT ![r] = "detokenize"]
    /\ UNCHANGED <<keys, locals, text, meta, history>>

\* get_token_map, run_detokenize and the response.
Permitted(r, T) == {t \in T : t.type \in Allowed[r]}

\* Mutant: token_vault is not filtered by role.
RespondUnfiltered(r) ==
    /\ pc[r] = "detokenize"
    /\ text' = [text EXCEPT ![r] =
                   Pick(vault[SessionOf[r]], Permitted(r, said[r]))]
    /\ meta' = [meta EXCEPT ![r] = allTokens[r]]
    /\ pc' = [pc EXCEPT ![r] = "answered"]
    /\ UNCHANGED <<keys, locals, said, history>>

Respond(r) ==
    /\ pc[r] = "detokenize"
    /\ text' = [text EXCEPT ![r] =
                   Pick(vault[SessionOf[r]], Permitted(r, said[r]))]
    /\ meta' = [meta EXCEPT ![r] =
                   Pick(allTokens[r], Permitted(r, DOMAIN allTokens[r]))]
    /\ pc' = [pc EXCEPT ![r] = "answered"]
    /\ UNCHANGED <<keys, locals, said, history>>

\* An await raises (Redis, the analyzer, the provider) or the process dies: the
\* request's variables are gone, what it wrote to Redis stays.
Fail(r) ==
    /\ Active(r)
    /\ pc' = [pc EXCEPT ![r] = "blocked"]
    /\ todo' = [todo EXCEPT ![r] = << >>]
    /\ msg' = [msg EXCEPT ![r] = << >>]
    /\ held' = [held EXCEPT ![r] = NoToken]
    /\ newTokens' = [newTokens EXCEPT ![r] = Empty]
    /\ existing' = [existing EXCEPT ![r] = Empty]
    /\ allTokens' = [allTokens EXCEPT ![r] = Empty]
    /\ said' = [said EXCEPT ![r] = {}]
    /\ UNCHANGED <<keys, text, meta, history>>

Step(r) ==
    \/ HashHit(r) \/ HashMiss(r) \/ IncrCounter(r) \/ SetHash(r)
    \/ GetMap(r) \/ SetMap(r) \/ CallLlm(r) \/ Respond(r)

Next == \E r \in Requests : Start(r) \/ Step(r) \/ Fail(r)

Spec == Init /\ [][Next]_vars

-------------------------------------------------------------------------------
IsDict(d, K, V) == DOMAIN d \subseteq K /\ d \in [DOMAIN d -> V]
IsDicts(f, S, K, V) ==
    f = [x \in S |-> f[x]] /\ \A x \in S : IsDict(f[x], K, V)

Labels == {"idle", "lookup", "incr", "sethash", "setmap", "llm", "detokenize",
           "answered", "blocked"}

\* Type correctness of the keys, of every request's variables and of the history.
TypeOK ==
    /\ IsDicts(hashes, Sessions, Mention, Token)
    /\ counters \in [Sessions -> [Types -> Nat]]
    /\ IsDicts(vault, Sessions, Token, Values)
    /\ pc \in [Requests -> Labels]
    /\ todo \in [Requests -> Seq(Seq(Mention))]
    /\ msg \in [Requests -> Seq(Mention)]
    /\ held \in [Requests -> Token \cup {NoToken}]
    /\ IsDicts(newTokens, Requests, Token, Values)
    /\ IsDicts(existing, Requests, Token, Values)
    /\ IsDicts(allTokens, Requests, Token, Values)
    /\ IsDicts(text, Requests, Token, Values)
    /\ IsDicts(meta, Requests, Token, Values)
    /\ said \in [Requests -> SUBSET Token]
    /\ IsDicts(ledger, Sessions, Token, Mention)
    /\ overlapped \subseteq Sessions

-------------------------------------------------------------------------------
(* Properties. *)

Pairs(d) == {<<t, d[t]>> : t \in DOMAIN d}

\* Every use of a token in session s, with the value it stands for there: in a
\* hash key, in the vault, in a request's variables, in a response.
Uses(s) ==
    {<<hashes[s][m], m.value>> : m \in DOMAIN hashes[s]}
      \cup Pairs(vault[s])
      \cup UNION {Pairs(newTokens[r]) \cup Pairs(existing[r]) \cup Pairs(allTokens[r])
                    \cup Pairs(text[r]) \cup Pairs(meta[r]) :
                  r \in {q \in Requests : SessionOf[q] = s}}

\* However the requests of a session interleave and fail, a token never stands
\* for two values: no answer puts one person's data in another's place.
TokensUnambiguous ==
    \A s \in Sessions : \A u, v \in Uses(s) : u[1] = v[1] => u[2] = v[2]

\* Why: everything written about a token agrees with the ledger, and INCR hands
\* out numbers the ledger does not have yet.
AgreesWith(d, l) ==
    \A t \in DOMAIN d : t \in DOMAIN l /\ d[t] = l[t].value

LedgerBelowCounters ==
    \A s \in Sessions : \A t \in DOMAIN ledger[s] :
        t.n <= counters[s][t.type] /\ ledger[s][t].type = t.type

HashesAgree ==
    \A s \in Sessions : \A m \in DOMAIN hashes[s] :
        hashes[s][m] \in DOMAIN ledger[s] /\ ledger[s][hashes[s][m]] = m

VaultAgrees == \A s \in Sessions : AgreesWith(vault[s], ledger[s])

RequestAgrees(r) ==
    /\ AgreesWith(newTokens[r], ledger[SessionOf[r]])
    /\ AgreesWith(existing[r], ledger[SessionOf[r]])
    /\ AgreesWith(allTokens[r], ledger[SessionOf[r]])
    /\ AgreesWith(text[r], ledger[SessionOf[r]])
    /\ AgreesWith(meta[r], ledger[SessionOf[r]])

\* Between the miss and the SETEX a request keeps its span, and after INCR it
\* holds the token minted for it.
SpanInHand(r) ==
    /\ pc[r] \in {"incr", "sethash"} => msg[r] # << >>
    /\ pc[r] = "sethash" => /\ held[r] \in DOMAIN ledger[SessionOf[r]]
                            /\ ledger[SessionOf[r]][held[r]] = Span(r)

\* The inductive invariant: with TypeOK it holds initially, every step keeps it,
\* and it implies TokensUnambiguous.
Consistent ==
    /\ LedgerBelowCounters
    /\ HashesAgree
    /\ VaultAgrees
    /\ \A r \in Requests : RequestAgrees(r) /\ SpanInHand(r)

\* README "Deterministic tokens": within a session a value of one entity type
\* always has the same token.
OneTokenIn(s) ==
    \A u, v \in Uses(s) : u[1].type = v[1].type /\ u[2] = v[2] => u[1] = v[1]

OneTokenPerValue == \A s \in Sessions : OneTokenIn(s)

\* When the prompt has been sent, the stored vault can turn each of its tokens
\* back: update_token_map lost none of them, nor did a failed request before.
ReversibleFor(r) ==
    pc[r] \in {"llm", "detokenize"} => DOMAIN allTokens[r] \subseteq DOMAIN vault[SessionOf[r]]

PromptReversible == \A r \in Requests : ReversibleFor(r)

\* Both hold for a client that waits for each answer, whatever fails half-way.
OneTokenIfWaiting == \A s \in Sessions \ overlapped : OneTokenIn(s)

ReversibleIfWaiting == \A r \in Requests : SessionOf[r] \notin overlapped => ReversibleFor(r)

\* main.py, the comment on token_vault: of the tokens the model used, the
\* response's vault exposes no more than the detokenized text shows.
MetaNoMoreThanText ==
    \A r \in Requests : pc[r] = "answered" /\ SessionOf[r] \notin overlapped =>
        DOMAIN meta[r] \cap said[r] \subseteq DOMAIN text[r]

\* The vault keeps the promise of Pseudonyms: a token gets its meaning once, and
\* responses disclose only that meaning, to roles allowed to see it.
P == INSTANCE Pseudonyms
        WITH answered <- {r \in Requests : pc[r] = "answered"},
             disclosed <- [r \in Requests |-> Update(text[r], meta[r])]

ImplementsPseudonyms == P!Spec
===============================================================================
