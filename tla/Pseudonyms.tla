------------------------------ MODULE Pseudonyms ------------------------------
(***************************************************************************)
(* What the token vault promises to whoever reads a response.              *)
(*                                                                         *)
(* Every session has a ledger of the tokens minted in it.  An entry is     *)
(* written once, for a token nobody has used before, and is never changed  *)
(* or removed.  An answer discloses the values behind some tokens: always  *)
(* the value of the session's own ledger, and only for the entity types    *)
(* the caller's role may see.  TokenVault implements this specification    *)
(* although its Redis keys are read and written in separate awaits.        *)
(***************************************************************************)
EXTENDS Naturals

CONSTANTS
    Sessions,   \* session ids
    Requests,   \* chat requests
    Types,      \* PII entity types
    Values,     \* the strings found in messages
    SessionOf,  \* the session a request names in X-Session-ID
    Allowed     \* the entity types the role of a request's caller may see

VARIABLES
    ledger,     \* ledger[s]: token |-> the mention it was minted for
    answered,   \* the requests that got a response
    disclosed   \* disclosed[r]: token |-> value, as r's response shows it

vars == <<ledger, answered, disclosed>>

Mention == [type : Types, value : Values]
Token == [type : Types, n : Nat]
Empty == [x \in {} |-> x]

Init ==
    /\ ledger = [s \in Sessions |-> Empty]
    /\ answered = {}
    /\ disclosed = [r \in Requests |-> Empty]

\* A token nobody has used in the session gets its one meaning.
Mint(s, t, m) ==
    /\ t \in Token
    /\ t \notin DOMAIN ledger[s]
    /\ t.type = m.type
    /\ ledger' = [ledger EXCEPT ![s] =
                     [u \in DOMAIN ledger[s] \cup {t} |->
                         IF u = t THEN m ELSE ledger[s][u]]]
    /\ UNCHANGED <<answered, disclosed>>

\* What the response to r may say about the tokens in D.
Meanings(r, D) == [t \in D |-> ledger[SessionOf[r]][t].value]

Permitted(r) ==
    {t \in DOMAIN ledger[SessionOf[r]] : t.type \in Allowed[r]}

Disclose(r, D) ==
    /\ r \notin answered
    /\ D \subseteq Permitted(r)
    /\ answered' = answered \cup {r}
    /\ disclosed' = [disclosed EXCEPT ![r] = Meanings(r, D)]
    /\ UNCHANGED ledger

\* The minted token is looked for among those the step adds: Token is infinite.
Next ==
    \/ \E s \in Sessions, m \in Mention :
          \E t \in DOMAIN ledger'[s] : Mint(s, t, m)
    \/ \E r \in Requests : \E D \in SUBSET Permitted(r) : Disclose(r, D)

Spec == Init /\ [][Next]_vars
===============================================================================
