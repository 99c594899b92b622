------------------------------ MODULE SessionTtl ------------------------------
(***************************************************************************)
(* The clock of a session: when its Redis keys expire (gateway/            *)
(* redis_store.py) and what chat_completions (gateway/main.py) does with   *)
(* the ones it still finds.                                                *)
(*                                                                         *)
(* configure_session sets the provider and owner keys once; nothing ever   *)
(* refreshes them, so they end the session.  The counter gets its TTL      *)
(* after every INCR, a hash key when its token is minted and the map on    *)
(* every update.  Time passes between any two awaits: a request may        *)
(* straddle the end of its session.                                        *)
(*                                                                         *)
(* Abstractions.  One session, one entity type.  A message has one         *)
(* mention, which stands for its value (TokenVault has several of them,    *)
(* several types and sessions).  A token is the number in {{SHORT_n}}.     *)
(***************************************************************************)
EXTENDS Integers, Sequences, FiniteSets

CONSTANTS
    Requests,     \* chat requests of the session's owner
    Values,       \* the values they mention
    Prompts,      \* bodies: sequences of values, one per message
    TTL,          \* SessionStore.TTL
    MaxLlm,       \* ticks an LLM call takes at most: assumed of the provider
    Worlds        \* what may surround a session

\* handling: ticks a handler takes, but for its LLM call; serial: the client waits
\* for an answer before it sends again; crashes: a request may die at any await;
\* horizon: a bound on the clock.
World == [handling : Nat, serial : BOOLEAN, crashes : BOOLEAN, horizon : Nat]

ASSUME TtlAssumption ==
    /\ Prompts \subseteq Seq(Values)
    /\ TTL \in Nat \ {0}
    /\ MaxLlm \in Nat
    /\ Worlds \subseteq World

VARIABLES
    now,
    world,     \* one of Worlds, which stays what it is
    conf,      \* configure_session: "none", "provider" set, "ready"
    created,   \* history: when it began
    provider,  \* session:{id}:provider, as the time it expires
    owner,     \* session:{id}:owner, likewise
    counter,   \* session:{id}:counter:{type}
    hashes,    \* session:{id}:hash:{h}
    vault,     \* session:{id}:tokens
    pc,        \* the next await of each request
    began,     \* when it entered the phase it is in
    todo,      \* the values of the messages it has not finished
    held,      \* the number it minted or found for the first of them
    existing,  \* the map update_token_map read
    prompt,    \* the pairs <<number, value>> of the prompt so far
    answer     \* the pairs run_detokenize could use in the answer

session == <<world, conf, created, provider, owner>>
pii == <<counter, hashes, vault>>
request == <<pc, began, todo, held, existing, prompt, answer>>
vars == <<now, session, pii, request>>

MaxHandling == world.handling
SerialClient == world.serial
Crashes == world.crashes

-------------------------------------------------------------------------------
(* Keys with an expiry time: Never for a key that was never written or never     *)
(* will be, NoExpiry for one that INCR created and EXPIRE has not reached.       *)

Never == 0
NoExpiry == -1
Live(until) == until = NoExpiry \/ now < until
Fresh == now + TTL

Number(c) == IF Live(c.until) THEN c.n ELSE 0
Stored == IF Live(vault.until) THEN vault.map ELSE {}

\* dict.update of one item, on a set of pairs.
Put(map, n, value) == {p \in map : p[1] # n} \cup {<<n, value>>}

Init ==
    /\ now = 1
    /\ world \in Worlds
    /\ conf = "none"
    /\ created = 0
    /\ provider = Never
    /\ owner = Never
    /\ counter = [n |-> 0, until |-> Never]
    /\ hashes = [v \in Values |-> [n |-> 0, until |-> Never]]
    /\ vault = [map |-> {}, until |-> Never]
    /\ pc = [r \in Requests |-> "idle"]
    /\ began = [r \in Requests |-> 0]
    /\ todo = [r \in Requests |-> << >>]
    /\ held = [r \in Requests |-> 0]
    /\ existing = [r \in Requests |-> {}]
    /\ prompt = [r \in Requests |-> {}]
    /\ answer = [r \in Requests |-> {}]

Tokenizing(r) == pc[r] \in {"owner", "lookup", "incr", "expire", "sethash",
                            "getmap", "setmap"}
Active(r) == Tokenizing(r) \/ pc[r] = "llm"

-------------------------------------------------------------------------------
(* configure_session.  Its session id is in no request before it returns. *)

SetProvider ==
    /\ conf = "none"
    /\ created' = now
    /\ provider' = Fresh
    /\ conf' = "provider"
    /\ UNCHANGED <<now, world, owner, pii, request>>

SetOwner ==
    /\ conf = "provider"
    /\ owner' = Fresh
    /\ conf' = "ready"
    /\ UNCHANGED <<now, world, created, provider, pii, request>>

-------------------------------------------------------------------------------
(* chat_completions *)

\* Mutant: reading the configuration keeps the session alive.
AdmitRefreshes(r) ==
    /\ pc[r] = "idle"
    /\ conf = "ready"
    /\ SerialClient => \A q \in Requests : ~Active(q)
    /\ began' = [began EXCEPT ![r] = now]
    /\ pc' = [pc EXCEPT ![r] = IF Live(provider) THEN "owner" ELSE "notfound"]
    /\ provider' = IF Live(provider) THEN Fresh ELSE provider
    /\ UNCHANGED <<now, world, conf, created, owner, pii, todo, held, existing, prompt,
                   answer>>

\* get_provider_config, or 404.
Admit(r) ==
    /\ pc[r] = "idle"
    /\ conf = "ready"
    /\ SerialClient => \A q \in Requests : ~Active(q)
    /\ began' = [began EXCEPT ![r] = now]
    /\ pc' = [pc EXCEPT ![r] = IF Live(provider) THEN "owner" ELSE "notfound"]
    /\ UNCHANGED <<now, session, pii, todo, held, existing, prompt, answer>>

\* The head of the loop over the messages.
NextMessage(r, messages) ==
    /\ todo' = [todo EXCEPT ![r] = messages]
    /\ IF messages = << >>
         THEN /\ pc' = [pc EXCEPT ![r] = "llm"]
              /\ began' = [began EXCEPT ![r] = now]
         ELSE /\ pc' = [pc EXCEPT ![r] = "lookup"]
              /\ UNCHANGED began

\* get_session_owner, or 403.
CheckOwner(r) ==
    /\ pc[r] = "owner"
    /\ IF Live(owner)
         THEN \E p \in Prompts : NextMessage(r, p)
         ELSE /\ pc' = [pc EXCEPT ![r] = "refused"]
              /\ UNCHANGED <<began, todo>>
    /\ UNCHANGED <<now, session, pii, held, existing, prompt, answer>>

\* GET of the hash key.
Lookup(r) ==
    LET key == hashes[Head(todo[r])]
    IN /\ pc[r] = "lookup"
       /\ IF Live(key.until)
            THEN /\ pc' = [pc EXCEPT ![r] = "getmap"]
                 /\ held' = [held EXCEPT ![r] = key.n]
            ELSE /\ pc' = [pc EXCEPT ![r] = "incr"]
                 /\ UNCHANGED held
       /\ UNCHANGED <<now, session, pii, began, todo, existing, prompt, answer>>

\* INCR keeps the expiry of a key it finds and gives none to one it creates.
Incr(r) ==
    /\ pc[r] = "incr"
    /\ counter' = [n |-> Number(counter) + 1,
                   until |-> IF Live(counter.until) THEN counter.until ELSE NoExpiry]
    /\ held' = [held EXCEPT ![r] = Number(counter) + 1]
    /\ pc' = [pc EXCEPT ![r] = "expire"]
    /\ UNCHANGED <<now, session, hashes, vault, began, todo, existing, prompt, answer>>

\* Mutants: the TTL is shorter than that of the hash keys; it is not set.
ExpireShort(r) ==
    /\ pc[r] = "expire"
    /\ counter' = IF Live(counter.until) THEN [counter EXCEPT !.until = now + 1]
                                         ELSE counter
    /\ pc' = [pc EXCEPT ![r] = "sethash"]
    /\ UNCHANGED <<now, session, hashes, vault, began, todo, held, existing, prompt,
                   answer>>

ExpireForgotten(r) ==
    /\ pc[r] = "expire"
    /\ pc' = [pc EXCEPT ![r] = "sethash"]
    /\ UNCHANGED <<now, session, pii, began, todo, held, existing, prompt, answer>>

\* EXPIRE does nothing to a key that is gone.
Expire(r) ==
    /\ pc[r] = "expire"
    /\ counter' = IF Live(counter.until) THEN [counter EXCEPT !.until = Fresh]
                                         ELSE counter
    /\ pc' = [pc EXCEPT ![r] = "sethash"]
    /\ UNCHANGED <<now, session, hashes, vault, began, todo, held, existing, prompt,
                   answer>>

\* SETEX of the hash key.
SetHash(r) ==
    /\ pc[r] = "sethash"
    /\ hashes' = [hashes EXCEPT ![Head(todo[r])] = [n |-> held[r], until |-> Fresh]]
    /\ pc' = [pc EXCEPT ![r] = "getmap"]
    /\ UNCHANGED <<now, session, counter, vault, began, todo, held, existing, prompt,
                   answer>>

\* update_token_map: GET ...
GetMap(r) ==
    /\ pc[r] = "getmap"
    /\ existing' = [existing EXCEPT ![r] = Stored]
    /\ pc' = [pc EXCEPT ![r] = "setmap"]
    /\ UNCHANGED <<now, session, pii, began, todo, held, prompt, answer>>

\* Mutants: SETEX of a live map keeps the expiry of its first write; it adds to it.
SetMapKeepsTtl(r) ==
    /\ pc[r] = "setmap"
    /\ vault' = [map |-> Put(existing[r], held[r], Head(todo[r])),
                 until |-> IF Live(vault.until) THEN vault.until ELSE Fresh]
    /\ prompt' = [prompt EXCEPT ![r] = @ \cup {<<held[r], Head(todo[r])>>}]
    /\ NextMessage(r, Tail(todo[r]))
    /\ UNCHANGED <<now, session, counter, hashes, held, existing, answer>>

SetMapAddsTtl(r) ==
    /\ pc[r] = "setmap"
    /\ vault' = [map |-> Put(existing[r], held[r], Head(todo[r])),
                 until |-> IF Live(vault.until) THEN vault.until + TTL ELSE Fresh]
    /\ prompt' = [prompt EXCEPT ![r] = @ \cup {<<held[r], Head(todo[r])>>}]
    /\ NextMessage(r, Tail(todo[r]))
    /\ UNCHANGED <<now, session, counter, hashes, held, existing, answer>>

\* ... and SETEX; the message joins the prompt.
SetMap(r) ==
    /\ pc[r] = "setmap"
    /\ vault' = [map |-> Put(existing[r], held[r], Head(todo[r])), until |-> Fresh]
    /\ prompt' = [prompt EXCEPT ![r] = @ \cup {<<held[r], Head(todo[r])>>}]
    /\ NextMessage(r, Tail(todo[r]))
    /\ UNCHANGED <<now, session, counter, hashes, held, existing, answer>>

\* The LLM has answered, with any of the tokens it was sent; get_token_map.
Answer(r) ==
    /\ pc[r] = "llm"
    /\ answer' = [answer EXCEPT ![r] = {p \in Stored : \E q \in prompt[r] : q[1] = p[1]}]
    /\ pc' = [pc EXCEPT ![r] = "answered"]
    /\ UNCHANGED <<now, session, pii, began, todo, held, existing, prompt>>

\* An await raises or the process dies.
Fail(r) ==
    /\ Crashes
    /\ Active(r)
    /\ pc' = [pc EXCEPT ![r] = "failed"]
    /\ UNCHANGED <<now, session, pii, began, todo, held, existing, prompt, answer>>

-------------------------------------------------------------------------------
\* Time passes, from the first SETEX on, but no handler takes longer than its bounds.
\* The timeouts of llm_router.py (120 s, 300 s for Ollama) are httpx's, which bound
\* each connect, read and write: that a call has a bound is an assumption.
Tick ==
    /\ now < world.horizon
    /\ conf # "none"
    /\ conf = "provider" => now < created + MaxHandling
    /\ \A r \in Requests :
          /\ Tokenizing(r) => now < began[r] + MaxHandling
          /\ pc[r] = "llm" => now < began[r] + MaxLlm
    /\ now' = now + 1
    /\ UNCHANGED <<session, pii, request>>

Step(r) ==
    \/ CheckOwner(r) \/ Lookup(r) \/ Incr(r) \/ Expire(r) \/ SetHash(r)
    \/ GetMap(r) \/ SetMap(r) \/ Answer(r)

Next ==
    \/ SetProvider \/ SetOwner \/ Tick
    \/ \E r \in Requests : Admit(r) \/ Step(r) \/ Fail(r)

Spec == Init /\ [][Next]_vars

-------------------------------------------------------------------------------
Until == Nat \cup {NoExpiry}
Pairs == SUBSET (Nat \X Values)
Labels == {"idle", "owner", "lookup", "incr", "expire", "sethash", "getmap", "setmap",
           "llm", "answered", "notfound", "refused", "failed"}

\* Type correctness of the clock, the keys and every request's variables.
TypeOK ==
    /\ now \in Nat \ {0}
    /\ world \in Worlds
    /\ conf \in {"none", "provider", "ready"}
    /\ created \in Nat /\ provider \in Nat /\ owner \in Nat
    /\ counter \in [n : Nat, until : Until]
    /\ hashes \in [Values -> [n : Nat, until : Nat]]
    /\ vault \in [map : Pairs, until : Nat]
    /\ pc \in [Requests -> Labels]
    /\ began \in [Requests -> Nat]
    /\ todo \in [Requests -> Seq(Values)]
    /\ held \in [Requests -> Nat]
    /\ existing \in [Requests -> Pairs]
    /\ prompt \in [Requests -> Pairs]
    /\ answer \in [Requests -> Pairs]
    /\ \A r \in Requests :
          pc[r] \in {"lookup", "incr", "expire", "sethash", "getmap", "setmap"}
             => todo[r] # << >>

-------------------------------------------------------------------------------
(* Properties. *)

\* The provider key is the first to go: as long as a request is admitted, every
\* key of the session that was ever written is there, so the session's tokens
\* keep their meaning until its last admitted request.
Outlives(until) == until \in {Never, NoExpiry} \/ provider <= until

ProviderGoesFirst ==
    /\ conf = "ready" => provider <= owner
    /\ Outlives(counter.until)
    /\ \A v \in Values : Outlives(hashes[v].until)
    /\ Outlives(vault.until)

\* Nobody extends a session: raw values are out of Redis one TTL after the last
\* request it can admit, however busy its client.  A counter whose EXPIRE never
\* ran stays, but holds no value.
LastExpiry == created + TTL + MaxHandling + TTL

RetentionBounded ==
    /\ provider <= LastExpiry /\ owner <= LastExpiry
    /\ counter.until <= LastExpiry
    /\ \A v \in Values : hashes[v].until <= LastExpiry
    /\ vault.until <= LastExpiry

\* A client that waits, handlers that are quick against the clock, no crash.
Calm == MaxHandling = 0 /\ SerialClient /\ ~Crashes

\* llm_router.py, the system prompt: the same token always refers to the same
\* individual.
PromptUnambiguous ==
    Calm => \A r \in Requests : \A p, q \in prompt[r] : p[1] = q[1] => p[2] = q[2]

\* main.py tells the owner of a session whose owner key is gone that the session
\* belongs to somebody else.  That happens only to a request that read the provider
\* before the session ended and the owner after: not to one that finishes its reads
\* before the end or begins after it, and not when both reads fall into one tick.
\* However the other requests overlap and die.
OwnerRefusedAtTheEnd ==
    \A r \in Requests : pc[r] = "refused" =>
        /\ began[r] < provider /\ provider <= now
        /\ provider <= began[r] + MaxHandling

\* The answer can be given back the values of the prompt, and no others.
AnswerMeansPrompt ==
    Calm => \A r \in Requests : pc[r] = "answered" => answer[r] = prompt[r]

\* redis_store.py sets the TTL of a counter in a command of its own: only a crash
\* between the two leaves a counter that stays in Redis for ever.
CounterExpires ==
    ~Crashes /\ counter.until = NoExpiry => \E r \in Requests : pc[r] = "expire"
===============================================================================
