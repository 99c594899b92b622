# VaultEx in TLA+

A verification project for VaultEx (`vaultex-core`): a FastAPI gateway that
replaces personal data in chat messages by tokens before an LLM sees them, and a
Next.js web client. The modules in this directory model the parts of the program
that have state and run concurrently; TLC checks them on small instances, and the
TLA+ proof system proves the safety properties of these runs for every value of the
constants.

Paths below are relative to the repository. Contents:

1. [The system](#1-the-system)
2. [Modules](#2-modules)
3. [Runs: what is checked](#3-runs-what-is-checked)
4. [Proofs: what is proved](#4-proofs-what-is-proved)
5. [Where the code disagrees with its documentation](#5-where-the-code-disagrees-with-its-documentation)
6. [What is not modelled](#6-what-is-not-modelled)
7. [Plan](#7-plan)

How to run it, in this directory:

```
tlc -config TokenVaultRequests.cfg MCTokenVault     # any pair of section 3
tlapm TokenVaultProofs.tla                          # any *Proofs module
```

## 1. The system

### Parts, their state and their operations

| part | code | state | operations |
|---|---|---|---|
| Session store and PII vault | `gateway/redis_store.py` | Redis, per session: `provider`, `owner`, `tokens` (the encrypted token map), `hash:{h}`, `counter:{type}`, each with a TTL of an hour | `set_/get_provider_config`, `set_/get_session_owner`, `set_/get_/update_token_map`, `get_or_create_token_for_hash` |
| Audit log | `gateway/audit.py` | Redis, per tenant and day: the list, `chain_head`, `seq`, the signed `watermark` | `log_event`, `get_logs`, `verify_chain` |
| Routes | `gateway/main.py` | none of its own | `get_auth_token`, `register`, `login`, `configure_session`, `get_audit_logs`, `chat_completions` |
| Tokens, denylist | `gateway/auth.py`, `revocation.py` | `revoked_jti:{jti}` in Redis | `issue_token`, `validate_token`, `revoke`, `is_revoked` |
| Roles | `gateway/rbac.py` | none | which types a role sees, which roles are privileged |
| User accounts | `gateway/users.py`, `database.py` | the `users` table | `create_user`, `authenticate_user` |
| PII detection, replacement and its reverse | `gateway/tokenizer.py`, `detokenizer.py` | none | `run_tokenize`, `run_detokenize` |
| LLM router | `gateway/llm_router.py` | none | `route_to_llm`, one HTTP call |
| Keys, settings, secrets, governance client | `config.py`, `secrets.py`, `governance_client.py` | read at start-up | |
| Chat page, thread, inspector | `ui/app/chat/page.tsx`, `ui/components/ChatInterface.tsx`, `TokenizationPanel.tsx`, `CsvUpload.tsx` | React state: turns, markers, selection, loading, persona, dataset | send, new chat, persona switch, dataset in and out, select a turn |
| Browser session and API client | `ui/lib/session.ts`, `api.ts` | localStorage: JWT, role, session id, username | `updateRole`, `initSession`, `sendChat`, `configureSession`, ... |
| Login and registration | `ui/app/login/page.tsx`, `register/page.tsx` | their forms | submit |
| Setup wizard | `ui/app/setup/page.tsx` | step, provider, model, address, model list, ping result | choose, list models, test, Launch |
| Admin console | `ui/app/admin/page.tsx` | access, date, entries | change the date, refresh |
| Browser tokenizer and its page | `ui/lib/tokenizer.ts`, `ui/app/tokenize/page.tsx` | a vault of tokens, the last result | tokenize, copy, reset |
| Settings panel | `ui/components/SettingsPanel.tsx`, `ThemeInit.tsx` | panel, localStorage, the document's classes | theme, switches, reset |
| Landing page, walkthrough | `ui/app/page.tsx`, `ui/components/ProductDemo.tsx` | preview, waitlist form, step, bar, two intervals | run, play, pause, go to a step |
| Other pages and components | `ui/app/*`, `ui/components/*` | none that matters | |

`PROJECT.json` lists the same parts, with those that are not modelled and why.

### How the parts interact

A browser tab holds a JWT and a session id in localStorage, written by sign-in, by the
wizard's Launch and by the chat page's persona buttons. The chat page sends a
message, with the conversation on display as history, to `/v1/chat/completions`.
The route validates the JWT, consults the denylist, reads the session's provider
record and owner, and then, message by message, replaces what Presidio found by
tokens, taking numbers from Redis counters, and merges the new tokens into the
session's map. It logs the finding, calls the LLM, reads the map again, puts back
the values the caller's role may see, logs the request and returns. Every call of
Redis, of the database pool, of Presidio's thread and of the provider is an
`await`: requests of one session, one tenant and one user interleave there, and
nothing in the gateway takes a lock or a Redis transaction across two of them,
except the pipeline at the end of `log_event`.

In the browser a handler runs to its first `await` at once. What it awaits comes back
later, in any order, also when its page has been replaced: then its React state is
gone, but what it writes to localStorage and the route it pushes still take effect.
No request is ever cancelled; those of the wizard for models and its ping have a time
limit, the others have none.

### What is hard

* **Interleaving at awaits.** Read, then write: the hash key of a value, the token
  map, the chain head.
* **Partial failure.** A request that raises, or a process that dies, between two
  commands leaves what the first one wrote: a number without an entry, a hash
  without its token in the map, a counter without a TTL, a session without the token
  that was to go with it.
* **Expiry.** A session consists of keys with TTLs of their own, set at different
  moments; a request may straddle the end of its session.
* **Checked early, used late.** Denylist and ownership are checked at the start of a
  request and hold, or not, when the prompt leaves.
* **Answers to a page that has moved on.** New Chat, a persona switch, a file, another
  date, another model, a reload: what was under way comes back later, in any order.
* **State kept twice.** The role beside the token it belongs to, the panel beside the
  document, the bar beside the interval, the vault beside the results made with it.

`PROJECT.json` lists these under `hazards`, each with its line and the properties
that would catch it. Those without a property have a note.

### What makes the parts correct

* Vault: a token has one meaning in its session for ever; a response shows values
  only by that meaning and only for permitted types; a value has one token; the
  stored map can reverse every prompt that was sent.
* Lifetimes: whoever is admitted finds the keys admission stands for; nobody
  extends a session; everything expires.
* Audit log: `verify_chain` says broken exactly if the list is not what was appended; a
  caller goes on only after its event is on record.
* Routes: only a session's creator gets prompts through it; no success, and no refusal
  the code logs, is returned before it is on record; no privilege without a grant; a
  revoked token gets nothing; an admin reads what is filed under the tenant of the token.
* Chat page: the model is told exactly what is on display; one message at a time;
  the persona on display is the one messages are sent with; a marker tells for whom the
  turns below it were answered.
* The pages together: localStorage never mixes two identities; a Launch ends on the
  chat page with the session it configured; what is on display (model, date, settings)
  is what it says it is.
* Browser tokenizer: within a vault one token per value and type and one value per
  token; every result reads back; a value of the vault is left in a result only where
  a match was passed over, for a phrase that is no name or a more specific pattern.

## 2. Modules

| module | models | variables correspond to |
|---|---|---|
| `Pseudonyms` | the promise of the vault: a ledger of tokens written once, disclosures that follow it | abstract |
| `TokenVault` | `get_or_create_token_for_hash`, `update_token_map` and `chat_completions`' use of them | `hashes`, `counters`, `vault`: Redis; `newTokens`, `existing`, `allTokens`, `held`: Python locals; `text`, `meta`: the response; `ledger`, `overlapped`: history |
| `AuditChain` | `AuditLogger` of one tenant and day | `log`, `head`, `seq`, `mark`: Redis; `prev`, `num`, `copy`: locals; `history`, `truth`, `tampers`, `met`: history |
| `SessionTtl` | the keys of one session with their expiry against a clock | keys carry the time they expire; `began`: when a request entered its phase; `world`: what surrounds the session |
| `Gateway` | the routes, one step per await | `users`, `revoked`, `provider`, `owner`, `audit`: stores; `at`, `call`: where each call is and what it is about |
| `ChatPage` | the chat page of one tab with localStorage | `page`: React state; `stored`: localStorage; `waiting`, `switching`, `reading`: promises under way |
| `ChatView` | what it displays: markers, the selected turn, the inspector | `view`: `roleEvents`, `selectedTurnId` |
| `BrowserTab` | what the other pages share | `stored`: localStorage; `page`: the mounted page; `calls`: requests under way; `route`: a pushed route; `look`: `documentElement` |
| `SignIn`, `SetupWizard`, `AdminConsole`, `TokenizePage`, `Settings`, `LandingPage` | one page or panel each, over `BrowserTab` | fields of `page` |
| `BrowserTokenizer` | `ui/lib/tokenizer.ts` as operators | a vault and a text are values |
| `Portal` | these pages over one localStorage: links, pushed routes, reloads | |
| `MC*` | instances for TLC | |
| `*Proofs` | theorems (section 4) | |

**Composition.** `TokenVault` implements `Pseudonyms` by the refinement mapping at its
end (`answered`, `disclosed` from `pc`, `text`, `meta`). `ChatView` extends `ChatPage`:
each action of the page with what it does to the display, and `ChatView`'s
specification implies the page's. `Portal` composes the six pages; each adds its
`Next` over the shared variables. The rest meet where the code does: `Gateway` takes
from `SessionTtl` that an owner key may be gone while the provider key is still there,
and has tokenization and `log_event` as one step each, whose own awaits are in
`TokenVault` and `AuditChain`; `ChatPage` and `Portal` take from `Gateway` that no
privileged role is issued by `/api/auth/token` nor registered, and `Portal` that
`configure_session` wants a token (`RequiresToken`).

**Actions.** An action is the code from one `await` to the next, whatever it does to
local variables included. In `TokenVault`, `HashHit`/`HashMiss` are the two outcomes
of the GET in `get_or_create_token_for_hash`, `IncrCounter` its INCR, `SetHash` its
SETEX, `GetMap` and `SetMap` the two halves of `update_token_map`, `CallLlm` the
provider's answer, `Respond` everything after it. `AuditChain` has `ReadHead`,
`Incr`, `Pipeline` for `log_event` and `Scan`, `CheckMark` for `verify_chain`. In
`Gateway` the first step of a call (`Arrives`) is the code up to the first await, and
`log_event` is an await that remembers where its caller goes on. In the browser's
modules an event handler runs to its first await at once and its continuation is an
action of its own (`Answered`, `RoleUpdated`, `FileRead`, `ModelsListed`, `SignedIn`,
...), which finds the page as it is by then: a call carries what its closure holds
(`about`) and whether the page that sent it is still mounted (`mine`).

**Failure.** `Fail`, `Crash` and `Raise` are the exception of an await, or the death of
the process, at any point; what was written stays. `AuditChain` also has the case that a
command took effect and its reply got lost (`Reply`). The audit list may be tampered
with at any time (`Tamper`), which is what `verify_chain` is there for: an entry is
removed, its body is altered, a whole entry is put in again at any place, the watermark
is deleted. In `Gateway` tokens expire, are put on the denylist by an operator and fall
off it again when the TTL the operator chose ends (`Lapse`). In the browser every call
may fail at any time, or never be answered unless it has a time limit.

**Abstractions.** A token `{{SHORT_n}}` is its entity type and number (the short names
differ); a hash is the mention it hashes; an audit entry's hash is the call that wrote
it, and recomputing it finds whether the stored body is `intact`; a JWT is its claims,
or in `ChatPage` its role; passwords are right or wrong. The LLM answers with any set of
tokens, among them ones from earlier turns or ones it made up by counting on. In
`BrowserTokenizer` a text is a sequence of fragments and tokens, and a structured
pattern (an e-mail address, a loan number) the set of runs of fragments it matches, a
constant; PERSON is what it does, two to four capitalised words; case is a function.
`startsWith` compares characters and a fragment has none, so which runs of words begin
like one of `NON_NAMES` is a constant too (`NonNames`): among those of the run, one that
begins with a phrase whose last word is only the start of a word. The code's loops are
folds over the positions of a text: `Scan` is `regex.exec` again and again,
`CopyOrReplace` the output from left to right. Order of patterns, claimed characters,
skipped phrases and numbering are the code's. The landing page's preview has its own
patterns (`ENTITY_PATTERNS`, `DemoMatches`) and works from right to left. Fernet, JSON
and wording are left out: nothing here depends on them.

`PROJECT.json` maps every definition to the lines it models. Definitions named as a
*mutant* in their comment are wrong on purpose: each replaces the definition it
follows, to show that a property would notice that bug.

## 3. Runs: what is checked

| run | module, configuration | what it asks |
|---|---|---|
| `vault_requests` | `MCTokenVault`, `TokenVaultRequests.cfg` | Two requests of a session, at once or in turn, failing anywhere: tokens keep one meaning (`TokensUnambiguous`), `Pseudonyms` is implemented; and, if the client waits for answers, a value has one token (`OneTokenIfWaiting`), prompts are reversible (`ReversibleIfWaiting`), the response's vault shows no more than its text (`MetaNoMoreThanText`) |
| `vault_race` | `TokenVaultRace.cfg` | violated: `OneTokenPerValue`, with concurrent requests |
| `vault_lost_update` | `TokenVaultLostUpdate.cfg` | violated: `PromptReversible`, with concurrent requests |
| `audit_appends` | `MCAuditChain`, `AuditTroubles.cfg` | Three `log_event`s, a verification, deaths and tampering: `OkMeansComplete`, `NoFalseAlarm` (see below); an event is on record once before its caller goes on (`RecordedOnce`), entries link back (`LinksPointBack`), pages are capped (`PageCapped`) |
| `audit_fork` | `AuditFork.cfg` | violated: a broken chain means tampering, when calls overlap |
| `ttl_worlds` | `MCSessionTtl`, `SessionTtlWorlds.cfg` | Two requests in three worlds (below): `ProviderGoesFirst`, `RetentionBounded`, `OwnerRefusedAtTheEnd`, `CounterExpires`; for a calm session `PromptUnambiguous`, `AnswerMeansPrompt` |
| `gateway_routes` | `MCGateway`, `GatewayRoutes.cfg` | Two calls of all six routes, three tokens of two tenants, one granted admin: `OnlyOwners`, `LoggedFirst`, `PiiLogged`, `RevokedShutOut`, `TenantScoped`, `PrivilegeGranted` |
| `chat_page` | `MCChatPage`, `ChatPageTab.cfg` | Three messages, two conversations, two persona clicks, a dataset, coming and going: `OneAtATime`, `ToldAsShown`, `StrayComesFirst`, `StoredTogether`, `PersonaFollows`, `MarkerTells`, `LoadingEnds` |
| `chat_cleared` | `ChatPageCleared.cfg` | violated: nothing of an earlier conversation is sent with a new one |
| `chat_inspector` | `ChatPageInspector.cfg` | violated: the inspector shows the selected turn's message as what the LLM received |
| `portal` | `MCPortal`, `PortalTab.cfg` | All pages of a tab: `StoredIdentity`, `LaunchOpensItsSession`, `ChoiceKept`, `DateShown`, `SettingsTell`, `OneClock`, `SpinnersEnd`; the tokenizer's `SameValueSameToken`, `ReadsBack`, `MaskedUnlessPassedOver`; `TypeOK` |
| `portal_refused` | `PortalRefused.cfg` | violated: a gateway that answers the ping does not refuse the Launch |

Every property of a passing run has a mutant in `PROJECT.json`: a plausible bug that
the run finds. The type invariants of the other modules, and the inductive invariants,
are theorems (section 4).

`portal` sets `RequiresToken = FALSE`, a gateway that lets the wizard's Launch through:
the pages behind a Launch would be unreachable otherwise. `portal_refused` sets
it to `TRUE`, which is this gateway.

**What the audit log's verdicts are worth.** `AuditChain` remembers in `met` which
troubles have occurred: two `log_event`s overlapped, one died half-way, a
verification ran while a `log_event` was under way, the watermark was deleted.

| troubles so far | "ok" means the list is what was appended (`OkMeansComplete`) | "broken" means it is not (`NoFalseAlarm`) |
|---|---|---|
| none | yes | yes |
| the watermark deleted | its last entries may be missing, nothing else | yes |
| a death | yes | no: its number was used, so the next watermark is one ahead |
| a verification during an append | yes | no: the list and the watermark are read in two commands |
| an overlap | no: pipelines in the other order set the watermark back, and a list cut short can match it | no (`audit_fork`) |

The two properties therefore say nothing about overlaps, and `NoFalseAlarm` nothing
about deaths and verifications during an append; what the table denies is what
the code does.

**What is on record.** `LoggedFirst` covers every success of the six routes and the 401
and 403 of logins, grants and of chat requests with a bearer. The code logs none of these:
refusals of `_require_auth` and `_require_admin` (`main.py:122-140`, before
`configure_session` and `get_audit_logs`), a chat request without a bearer, and the other
4xx and 5xx. A chat request with an expired or forged bearer is logged before its tenant
is known, in the default tenant (396-403). `Belongs` says where an entry may stand, and
`TenantScoped` that a page has no others: the default tenant's administrator also reads
these refusals.

**The worlds of a session.** `SessionTtl` chooses one at the start: handlers that take
time, overlap and die (`handling` 1, `crashes`, clock to 5); a client that waits, with
handlers that are quick against the clock and survive, over four TTLs (clock to 8); one
that does not wait (clock to 5). `Calm` is the second. With `handling` 1 the counter can
expire between the two halves of a request that straddles the end of its session; a new
count then starts at 1 while a hash key still has its token 1, and `PromptUnambiguous`
would fail; an owner whose two reads lie on either side of the end is refused as if the
session were somebody else's, and `OwnerRefusedAtTheEnd` says that this happens to no
other request. An hour against milliseconds makes this a matter of bad luck at the end
of a session; the properties separate what holds anyway from what holds because handlers
are quick.

**Waiting clients.** `overlapped` in `TokenVault` remembers the sessions in which a
request was sent before the last one was answered. The chat page waits within one mount
(`OneAtATime`, proved); leaving and coming back during a request, or a second tab, makes
requests of one session concurrent, and then `vault_race` and `vault_lost_update` apply.

### Bounds and why they are enough

* *Two requests* per session, in the vault, in `SessionTtl` and in `Gateway`: every
  interference is between a read of one and a write of another; a third repeats the
  role of one of them. The proofs have no such bound.
* *Two entity types, two values*, and three mentions of them: two values of one type,
  one value of two types, a repeated value. Bodies have up to two messages, so that
  the loop of `chat_completions` is entered again with the map of its first round.
* *Three `log_event`s, one verification*: an entry before, one during, one after
  another; a chain of three has an inner entry to lose. *Two acts of tampering*, so that
  an entry can be moved, and one act can hide another. Page limits of -1, 1 and 3 around a
  cap of 2. The two calls that are no administrator's are symmetric: nothing names them.
* *TTL* of 2 ticks, LLM calls of up to 1, clocks beyond the last expiry: every order of
  two expiries and a request.
* *Two calls* of `Gateway`, of any routes: one creates, the other uses. Of a third,
  already made, there are the tokens in `Minted` and the user in `Granted`.
* `ChatPage`: `MaxSends` 3, `MaxChats` 2, `MaxSwitches` 2. The second message has a
  history, the third meets a second conversation; two switches may be overtaken.
* `Portal` runs in one of four `Bounds`: *four requests* of any pages (two Launches, a
  Launch and a login, three dates of the console, ...); *three texts* of the tokenizer
  out of eight, and any output pasted as input; *two requests and the settings*, a
  Launch and what the panel does on the chat page behind it; *the landing page*, with 3
  steps of 3 ticks; its two intervals tick in any order, any number of times. The parts
  share localStorage only through requests, so the tokenizer and the landing page have
  no request to share a behaviour with. Two models at two addresses, two dates, two
  accounts of which one is an admin, two themes.

Numbers that only grow (counters, `seq`, message and request numbers) are bounded by
these.

`CHECK_DEADLOCK FALSE`: in all models the clients may stop, and with the bounds
reached nothing is left to do. That nothing hangs on display is what the liveness
properties check.

### Fairness

* `ChatView`, for `LoadingEnds`: weak fairness of *some* answer or failure coming back:
  `fetch` resolves or rejects, and the gateway's provider call has a timeout
  (`httpx.AsyncClient(timeout=...)` in `gateway/llm_router.py`).
* `Portal`, for `SpinnersEnd`: weak fairness of the answers with a time limit, each by
  its number (`AbortSignal.timeout` in `ui/lib/api.ts` ends the wizard's requests for
  models and its ping), and of the two-second `setTimeout` behind the Copied badge.
  Login, Launch and the console's requests have no time limit and no fairness: a
  gateway that never answers leaves their spinners on.

The other specifications state safety only.

## 4. Proofs: what is proved

All of these hold for every value of the constants that satisfies the modules' named
assumptions (`VaultAssumption`, `AuditAssumption`, `TtlAssumption`, `GatewayAssumption`,
`ChatPageAssumption`, `BrowserTabAssumption`, `BrowserTokenizerAssumption`, ...), which
state what kind of thing each constant is; TLC evaluates them in the runs. The
tokenizer's theorems hold whatever the structured patterns match, whichever words are
capitalised and whichever runs of them are no names.

| theorem | module | says |
|---|---|---|
| `TypeCorrect` | each but `TokenizerProofs`, `PortalPagesProofs` | the type invariant |
| `Consistency`, `Unambiguous` | `TokenVaultProofs` | whatever requests overlap and fail, a token never stands for two values of a session |
| `Refinement` | `TokenVaultProofs` | `Spec => Pseudonyms!Spec` |
| `OneToken`, `Reversible`, `MetaShown` | `TokenVaultProofs` | for a client that waits: one token per value, no token of a prompt lost, `token_vault` no wider than the text |
| `EntriesFormATree` | `AuditChainProofs` | whatever overlaps and dies, entries link back, and head and watermark name the last one |
| `LossDetected` | `AuditChainProofs` | without overlaps, "ok" means the list is what was appended (a prefix of it, once the watermark was deleted) |
| `AlarmsAreReal` | `AuditChainProofs` | without overlaps, deaths and verifications during an append, "broken" means that it is not |
| `EventsFiled`, `PagesCapped` | `AuditChainProofs` | an awaited event is on record once; a page respects cap and limit |
| `AdmittedMeansKept`, `Retention` | `SessionTtlProofs` | no key expires before the provider key that admits requests; every value is gone two TTLs and a handler after the session began |
| `OwnerAdmitted`, `CounterBounded` | `SessionTtlProofs` | an owner is refused only by a request that straddles the end of the session; without a death every counter expires |
| `PromptClear`, `AnswerTrue` | `SessionTtlProofs` | in a calm session tokens are unambiguous, and answers mean the prompt (for LLM calls that take less than the TTL) |
| `SentByOwner` | `GatewayProofs` | prompts are sent only for the identity that created the session |
| `PrivilegesGranted`, `TenantsApart`, `RecordFirst`, `FindingFirst`, `RevokedGetsNothing` | `GatewayProofs` | no privileged role without a grant; a page has the entries filed under the token's tenant, and those belong there; successes, refusals (those of section 3) and findings are logged first; a token gets nothing while it is on the denylist |
| `AnswersInOrder`, `DisplayTrue`, `StraysOnTop` | `ChatProofs` | one message at a time; told as shown; a stray answer only at the top |
| `StoredTrue`, `PersonaTrue` | `ChatProofs` | stored role and token belong together; persona shown is persona sent |
| `DisplayRefines`, `MarkersTrue` | `ChatProofs` | `ViewSpec => Spec`; markers tell for whom the turns below were answered |
| `IdentityTrue`, `SettingsTrue` | `PortalProofs` | localStorage holds one identity; the settings panel tells what the document is |
| `LaunchTrue`, `ChoiceTrue`, `DateTrue`, `ClockTrue` | `PortalPagesProofs` | a Launch opens its session; a choice of model stays; entries are of the date shown; the walkthrough has one clock |
| `TokensTrue`, `ReadsBackTrue`, `MaskingTrue` | `PortalPagesProofs` | on the tokenizer's page, for texts of any length: one token per value and type and one value per token; results and previews read back; a value with a token is legible only where a match was passed over |

**The arguments.**

*Vault.* `TokensUnambiguous` compares two uses of a token; nothing in the state says
where they came from. The history variable `ledger` does: `IncrCounter` enters the
token it mints. `Consistent` says every hash key, map, local variable and response
agrees with the ledger, that ledger numbers are at most the counters (so INCR always
mints a fresh token: this is where atomicity of INCR carries the concurrency), and
that a request between its miss and its SETEX still holds the span and the token that
go together. With the type invariant this is inductive; two uses then agree because
both agree with the ledger. A lost update of the map drops tokens but never changes
one, which is why `TokensUnambiguous` survives the races that `OneTokenPerValue` and
`PromptReversible` do not. `Refinement` uses the same invariant: `IncrCounter` maps to
`Mint`, `Respond` to `Disclose`, every other step to a stutter.

*Waiting clients.* `WInv`, for sessions not in `overlapped`: at most one request is
active; whatever anybody has about a token is what its hash key says (`HashedBy`), so the
hash keys, a function of type and value, decide every use; the key of a span that missed
is still absent at its SETEX; the map read is still the map stored when it is
written back, so the map covers every token put in a prompt.

*Audit log.* The invariants hold as long as `met` does not contain certain troubles, and
are proved as implications (`SerialInv`, `QuietInv`); a step that adds the trouble makes
the implication vacuous, any other step has its hypothesis. `SerialInv`: without overlap
what was appended is one whole chain, at most one call is between its first GET and its
pipeline, its number is the counter, and the watermark, if it is there, counts at least
the appended entries. Every entry of the list that is intact was appended (`Genuine`),
and none was appended twice (`RecordedOnce`). A list whose links and hashes are right is
then a prefix of what was appended: by induction over its positions, each entry is the
appended one with this predecessor (`ChainIsPrefix`). A prefix that is shorter is also
shorter than the watermark says. `QuietInv` adds that the watermark is exact when no
call is in between. `EntriesFormATree` and `EventsFiled` need neither.

*Lifetimes.* All keys get the same TTL. `ProviderGoesFirst` is by clock alone: every
other key is written after the provider key. `RetentionBounded` needs that a request
past admission entered before the provider key expired and that a phase takes no longer
than its bound (`Clock`). `OwnerAdmitted` is the same two facts at the moment of the
refusal: the provider key was read before its end, the owner key, which lives at least
as long, was gone. In a calm session these two make expiry invisible: while a handler
runs, a key is there if and only if it was ever written (`WrittenIsLive`). `CalmFacts`
is then about writing only: numbers in use are at most the counter's, hash keys are
injective and each is written once, and map and prompt say what they say. Only after the
prompt has left may time pass, and then the map, written last, outlives the LLM's call.

*Gateway.* `Located` says which variables a call at each await has set. *Ownership*:
between the check and the prompt the owner key may expire and the token be revoked; the
invariant (`Owned`, `Cleared`) says that an owner key, if there is one, is the identity
of the call that configured the session, and that a call past its check has this
identity, a fact about two calls that no later step changes. *Privileges*: every token
made and every row of `users` is rightful, since login passes on only what the table
has. *Log order* (`Logging`): what a call must have logged is on record or is the entry
it is about to log, from the await that decides the outcome to the end; the log only
grows and a call keeps its token, so what is on record stays so. *Tenants* (`Tenancy`):
an entry is placed where it belongs before and after it is appended, and a token that
has expired stays so; a page is filled from one list. *Denylist*: a token that was
barred when its call came is still on the list, or the call is no longer called barred,
so a barred call is at the check or over.

*Chat page.* `ConversationInv`: an answer under way was asked after exactly what is on
display, or New Chat was clicked since and the display is empty; this needs that only
one is under way, and that nothing refers to a conversation or a mount yet to come.
`PersonaInv`: without trouble, at most one switch is under way and it is for the
persona on display. `MarkerInv`: the token of the last render is of the role of the last
marker, and every message asked below a marker was asked with its role.

*Pages.* `Base` has for each request which page could have sent it; every other
invariant uses it to know that a step of one page leaves the fields of another alone.
`SettingsInv`: panel, localStorage and document agree for the switches touched.
`DateInv`: unless a request was sent while another was under way, all pending ones are
for the date on display. `ChoiceInv`: after a choice no request is pending whose closure
had an empty model. `LaunchPage`, `LaunchWire`: between its two answers and until its
route is mounted the session of a Launch is the stored one and a token is there; with
one Launch at a time nothing else stores a session. `ClockInv`: for each of the two
kinds the ref names the interval that runs, and no other runs.

*Tokenizer.* `TokenizerProofs` is about the folds. A fold is a CHOOSE of a recursive
function, so first the function is shown to exist (`FoldExists`). Then what holds after
each position is shown. Both go by induction, where the predicate is a set of naturals
that has 0 and is closed under successor (`Induction`, from the library's facts about
well-founded relations), so that no operator is passed to a theorem. `ScanFinds`: a
scan finds disjoint matches, as long as they can be, and every place where one could
begin lies in one of them. `MatchesClaim`: what `RawMatches` leaves out begins with a
phrase that is no name or lies over a match of another pattern. The invariant of a
vault is `Consistent`: numbers are at most the counters (`Numbered`), keys and tokens
are one to one (`OneToOne`), and each token is listed once with an original of its key
(`Listed`). `ReadIs` says that one pass over a text keeps it, and that every match has
the token of its key.

*Reading back.* `Expand` substitutes a list of tokens one after the other. Every
substitution maps each fragment to itself and a concatenation to the concatenation
(`ExpandConcat`), so output and text expand alike if they do piece by piece; a token
and the match it stands for do up to case, because they share a key (`SameToken`,
`ReadsTrue`). The preview works from right to left and gives a new token each time;
there every state of the loop expands to the text (`Marked`). *Masking*: fragments that
stand together in the output stand together in the text, outside all matches
(`Runs`). A legible value is such a run; it was matched once, so it is in its pattern's
language, a scan has a match where it begins, and this match is not among those
replaced (`ReadMasks`). *The page*: `TokenizeInv` has for each result since the last reset
a vault it was made with whose keys the page's vault still has (`MadeOf`).

**Model-checked only.** Liveness (`LoadingEnds`, `SpinnersEnd`): the prover handles
neither fairness nor ENABLED. All other properties of the passing runs are proved. The
modules have no recursive operators: their loops are folds, which the prover can reason
about.

## 5. Where the code disagrees with its documentation

The six runs that end in a violation, as listed under `findings`:

1. `vault_race`: `gateway/redis_store.py:108` reads a hash key and writes it ten lines
   later; two concurrent requests of a session mint two tokens for one value. README
   "Deterministic tokens" promises one.
2. `vault_lost_update`: `gateway/redis_store.py:94` reads, merges and writes back the
   map; of two concurrent requests one loses its tokens, and its answer keeps
   `{{...}}` where a value should be.
3. `audit_fork`: `gateway/audit.py:160` reads the chain head two awaits before it is
   replaced; two overlapping events of a tenant fork the chain, and `verify_chain`
   reports tampering for the rest of the day.
4. `chat_cleared`: New Chat neither cancels nor disowns a request under way; its answer
   opens the new conversation and goes to the LLM with the next message.
5. `chat_inspector`: the gateway returns every message of the request, history included,
   and the panel shows the first one a user wrote (`TokenizationPanel.tsx:138`): below
   every later turn the inspector shows the conversation's first message as what the LLM
   received.
6. `portal_refused`: `configureSession` (`ui/lib/api.ts:38`) sends no token and
   `configure_session` requires one: the wizard reports "Gateway reachable — ready to go"
   and its Launch is refused.

Other observations made while modelling, which no run has as a property of its own.

Gateway:

* A process that dies between INCR and the pipeline of `log_event` makes the next
  verification fail without tampering (allow `"death"` in `NoFalseAlarm` to see it).
* With the watermark deleted, entries missing from the end go unnoticed until the next
  append: `verify_chain` passes a log without a watermark (`gateway/audit.py:277`).
* A chat request with an expired or forged token is logged under the default tenant
  (`gateway/main.py:396-403`), also when the expired token names another one.
* A request that straddles the end of its session is told "This session does not belong
  to the authenticated caller" (`gateway/main.py:444`), which is not what happened.
* `revoke` takes the TTL of the denylist entry from whoever calls it
  (`gateway/revocation.py:19-21`); nothing but its docstring ("for at least its
  remaining lifetime") ties it to the token's `exp`, and a token whose entry ends first is
  valid again.
* The refusals of `_require_auth` and `_require_admin` are not logged, those of the
  chat route are.
* `get_logs` with a limit of 0 or below returns more than the cap; `PageCapped`
  therefore speaks of positive limits.
* `_meta.token_vault` holds the tokens of the current request only, the text is
  detokenized from the whole session's map: the response's vault may show less than
  its text, never more (for a client that waits).
* Setting a dedicated encryption secret drops the JWT secret from the vault's keys
  (`gateway/config.py:40-48`): what was written before becomes unreadable.

Chat page and panel:

* `get_auth_token` refuses privileged roles, so `ui/app/admin/page.tsx:229`, "Switch your
  role to Admin in the chat page", cannot be followed; the persona stays on display
  after the refusal while messages go out with the old token (`trouble` in `ChatPage`).
  The register form offers `vp_risk` and `admin`, which the gateway always refuses.
* An answer that arrives after a later persona click is displayed under the new marker,
  though it was answered for the old persona (`MarkerTells` speaks of messages asked below
  a marker); the panel masks by the current persona, not the turn's
  (`TokenizationPanel.tsx:310`).
* `ui/components/CsvUpload.tsx:323` announces that all rows are injected; the text sent
  is cut at 200 (66-67).
* `SettingsPanel.tsx:212-216`, "Also resets the product guide": `ProductGuide` is mounted
  nowhere. The animation and compact preferences are stored, but a new document applies
  the theme only, and no stylesheet uses their classes.

Wizard, tokenizer, landing page:

* `ui/app/setup/page.tsx:101`, a comment, reloads the models when the "URL changes"; the
  effect does not depend on it (122), and the list of another address stays on display.
* A login or Launch that answers late still pushes its page and moves the user away from
  wherever they are by then (`login/page.tsx:30`, `setup/page.tsx:145`).
* A capitalised run that begins with a non-name phrase is passed over whole: "Credit Score
  Jane Smith" leaves the name (`ui/lib/tokenizer.ts:145-151`), where
  `ui/app/tokenize/page.tsx:276` and 378-382 promise that a known value always gets its
  token. A value is also left in part where a match over it lies over one of a more
  specific pattern. `MaskedUnlessPassedOver` names both cases, and `MaskingTrue` shows
  that there is no other.
* The landing page's preview gives a repeated value a new token each time, where its FAQ
  speaks of deterministic tokens; its waitlist form reports "You are on the list!" after
  opening a mail draft; Restart while the walkthrough plays empties the bar and keeps
  the interval, so the bar does not fill for that step. The Copied badge of the
  tokenizer survives Reset.

## 6. What is not modelled

* **Outside the program:** Presidio's recognizers, the providers, Redis, Fernet, the
  database; they appear by what the code does with their answers.
* **Without state:** logging, CORS, settings checks, secrets stubs, the waitlist route,
  the static marketing pages, the activity log, the explainer's animation; the product
  guide, which no page mounts.
* **In a library:** slowapi's rate limits. A refused request is one that never came.
* **Not called:** `governance_client.py`, which no code of the gateway uses yet.
* **Third-party tooling:** the prompt scripts under `ui/`.
* **Not yet:** section 7.

Limits of what is modelled: one tenant and day in `AuditChain`, whose head and counter
nobody tampers with and whose watermark is deleted but not put back as it was before;
one entity type and one session in `SessionTtl`, where a bound on an LLM call is an
assumption (`MaxLlm`): the timeouts of `llm_router.py`, 120 s and 300 s for Ollama, are
httpx's and bound each connect, read and write, not the call. In `Gateway` the check for
an existing email or username and the insert are one step, as they are in the single
process the Docker image runs; usernames are not kept, so that any registration may meet
a taken one once there is a user; an expiry is looked at when a request arrives, as in
the code, so a denylist entry that ends together with its token may lapse while a
request admitted just before is at the check. The gateway's texts are never looked into,
so overlapping spans and values that contain tokens are not covered. One tab in
`ChatPage` and `Portal`; of the chat page `Portal` has only what it takes from
localStorage, the panel and the persona switch, `ChatPage` and `ChatView` the rest.

## 7. Plan

Done: the vault, which is what the product promises; the audit log, on which its
compliance rests; the routes, which tie them together; the chat page and its display;
the other pages of the web client; and the proofs of all safety properties of the
passing runs.

Next:

1. **`KeyRotation`**: the current and previous JWT and encryption secrets of a series of
   configurations, restarts, tokens and vaults that are alive meanwhile. Property:
   under rotations that keep the last secret, everything alive stays readable. The
   configuration of `config.py:40-48` is expected to violate it. Theorem: `[]Readable`.
2. **`PiiText`**: pure operators for the gateway's texts. Which spans win
   (`tokenizer.py:180-188`), what is left uncovered, what nested replacement does
   (`detokenizer.py:39`), each against a reference definition.
3. **`UserRegistry`**: the check and the insert with several workers (`main.py:297`); the
   commit before the log. **`GovernanceClient`**, once something calls it: `aclose`
   against a post under way.
4. **Composition**: `Gateway` with `AuditChain`'s `log_event` and `TokenVault`'s awaits in
   place of single steps, for one property that crosses them: no value found in a
   message is in a prompt, and its finding is in a chain that verifies.
5. **Smaller hazards without a module**: an entry's day against its timestamp around
   midnight (`audit.py:159`), a file read that completes after another
   (`CsvUpload.tsx:158`).
