------------------------------ MODULE AuditChain ------------------------------
(***************************************************************************)
(* The hash-chained audit log of one tenant and day: AuditLogger in        *)
(* gateway/audit.py.                                                       *)
(*                                                                         *)
(* log_event is three awaits: GET of the chain head, INCR of the append    *)
(* counter, and a MULTI/EXEC pipeline that pushes the entry and sets the   *)
(* head and the signed watermark.  verify_chain is two: LRANGE of the list *)
(* and GET of the watermark.  All handlers share one AuditLogger, so calls *)
(* interleave at every await, and a call may die at any of them.  The list *)
(* may also be tampered with, which is what verify_chain is for: entries   *)
(* are removed, altered and put in again, and the watermark is deleted.    *)
(*                                                                         *)
(* Abstractions.  Only the gateway has the HMAC key, and an entry's body   *)
(* has a fresh uuid: the stored entry_hash is the call that wrote the      *)
(* entry, and "intact" says that recomputing it over the stored body gives *)
(* it.  An entry made up without the key is one that was altered.  Lists   *)
(* of other days and tenants have their own keys.  All keys of a day       *)
(* expire together, 30 days after the last append, which is not modelled.  *)
(***************************************************************************)
EXTENDS Integers, Sequences, SequencesExt

CONSTANTS
    Calls,        \* calls of log_event
    Admins,       \* those made by get_audit_logs, which then reads a page
    Verifiers,    \* calls of verify_chain
    Limits,       \* limit parameters admins pass
    PageCap,      \* 500 in the code
    MaxTampers,   \* bound: how often the keys are tampered with
    GENESIS_SENTINEL

ASSUME AuditAssumption ==
    /\ Admins \subseteq Calls
    /\ Limits \subseteq Int
    /\ PageCap \in Nat \ {0}
    /\ MaxTampers \in Nat
    /\ GENESIS_SENTINEL \notin Calls

VARIABLES
    log,      \* audit:{tenant}:{day}
    head,     \* ...:chain_head, the hash of the last entry appended
    seq,      \* ...:seq
    mark,     \* ...:watermark
    pc,       \* the next await of each call
    prev,     \* prev_hash
    num,      \* the value INCR returned
    page,     \* what an admin got, with the limit asked for
    vpc,      \* the next await of each verify_chain
    copy,     \* its parsed entries
    verdict,  \* its "ok"
    history,  \* history: every entry ever appended, in list order
    truth,    \* history: all of them when verify_chain read the list
    tampers,  \* history: how often the keys were tampered with
    met       \* history: what has happened so far, of Troubles

keys == <<log, head, seq, mark>>
writing == <<pc, prev, num, page>>
reading == <<vpc, copy, verdict, truth>>
vars == <<keys, writing, reading, history, tampers, met>>

Hash == Calls \cup {GENESIS_SENTINEL}
Entry == [id : Calls, prev : Hash, intact : BOOLEAN]
NoMark == [n |-> 0, last |-> GENESIS_SENTINEL]
NoPage == [limit |-> 0, entries |-> << >>]

\* Two calls of log_event overlapped; a call died half-way; a verification and a call
\* of log_event overlapped; the watermark was deleted.
Troubles == {"overlap", "death", "race", "unmarked"}

Init ==
    /\ log = << >>
    /\ head = GENESIS_SENTINEL
    /\ seq = 0
    /\ mark = NoMark
    /\ pc = [c \in Calls |-> "idle"]
    /\ prev = [c \in Calls |-> GENESIS_SENTINEL]
    /\ num = [c \in Calls |-> 0]
    /\ page = [c \in Calls |-> NoPage]
    /\ vpc = [v \in Verifiers |-> "idle"]
    /\ copy = [v \in Verifiers |-> << >>]
    /\ verdict = [v \in Verifiers |-> "none"]
    /\ history = << >>
    /\ truth = [v \in Verifiers |-> << >>]
    /\ tampers = 0
    /\ met = {}

Appending(c) == pc[c] \in {"incr", "pipeline"}
Verifying(v) == vpc[v] = "scanned"

Meets(trouble, happens) == IF happens THEN {trouble} ELSE {}

-------------------------------------------------------------------------------
(* log_event *)

\* _get_prev_hash: GET of the chain head.
ReadHead(c) ==
    /\ pc[c] = "idle"
    /\ met' = met \cup Meets("overlap", \E d \in Calls : Appending(d))
                  \cup Meets("race", \E v \in Verifiers : Verifying(v))
    /\ prev' = [prev EXCEPT ![c] = head]
    /\ pc' = [pc EXCEPT ![c] = "incr"]
    /\ UNCHANGED <<keys, num, page, reading, history, tampers>>

\* The reply of a command that changed Redis may not arrive: the call is dead, and
\* what it did stays.
Reply(c, next) ==
    \/ pc' = [pc EXCEPT ![c] = next] /\ UNCHANGED met
    \/ pc' = [pc EXCEPT ![c] = "dead"] /\ met' = met \cup {"death"}

\* Mutant: the head is set as soon as the entry has a number.
IncrSetsHead(c) ==
    /\ pc[c] = "incr"
    /\ seq' = seq + 1
    /\ head' = c
    /\ num' = [num EXCEPT ![c] = seq + 1]
    /\ Reply(c, "pipeline")
    /\ UNCHANGED <<log, mark, prev, page, reading, history, tampers>>

\* INCR of the append counter.
Incr(c) ==
    /\ pc[c] = "incr"
    /\ seq' = seq + 1
    /\ num' = [num EXCEPT ![c] = seq + 1]
    /\ Reply(c, "pipeline")
    /\ UNCHANGED <<log, head, mark, prev, page, reading, history, tampers>>

\* Mutant: the mark counts the entries before this one.
WatermarkBehind(n, hash) == [n |-> n - 1, last |-> hash]

\* The signed high-water mark.
Watermark(n, hash) == [n |-> n, last |-> hash]

\* pipe.execute(): one transaction.
Pipeline(c) ==
    LET entry == [id |-> c, prev |-> prev[c], intact |-> TRUE]
    IN /\ pc[c] = "pipeline"
       /\ log' = Append(log, entry)
       /\ head' = c
       /\ mark' = Watermark(num[c], c)
       /\ Reply(c, "logged")
       /\ history' = Append(history, entry)
       /\ UNCHANGED <<seq, prev, num, page, reading, tampers>>

\* Mutant: the caller goes on as if the event had been logged.
CrashSwallowed(c) ==
    /\ Appending(c)
    /\ pc' = [pc EXCEPT ![c] = "logged"]
    /\ met' = met \cup {"death"}
    /\ UNCHANGED <<keys, prev, num, page, reading, history, tampers>>

\* The call raises, or its process dies, before its next command reaches Redis.
Crash(c) ==
    /\ Appending(c)
    /\ pc' = [pc EXCEPT ![c] = "dead"]
    /\ met' = met \cup {"death"}
    /\ UNCHANGED <<keys, prev, num, page, reading, history, tampers>>

-------------------------------------------------------------------------------
(* get_audit_logs: the access is logged before the log is read. *)

\* Redis LRANGE s start -1, with its zero-based and from-the-end indices.
LRange(s, start) ==
    LET from == IF start >= 0 THEN start
                ELSE IF Len(s) + start >= 0 THEN Len(s) + start ELSE 0
    IN SubSeq(s, from + 1, Len(s))

\* Mutant: no cap.
get_logs_uncapped(s, limit) == LRange(s, -limit)

get_logs(s, limit) == LRange(s, -(IF limit <= PageCap THEN limit ELSE PageCap))

ReadPage(c) ==
    /\ c \in Admins
    /\ pc[c] = "logged"
    /\ \E limit \in Limits :
          page' = [page EXCEPT ![c] = [limit |-> limit,
                                       entries |-> get_logs(log, limit)]]
    /\ pc' = [pc EXCEPT ![c] = "served"]
    /\ UNCHANGED <<keys, prev, num, reading, history, tampers, met>>

-------------------------------------------------------------------------------
(* verify_chain *)

\* Mutant: the entries' own hashes are not recomputed.
LinkedUnhashed(s) ==
    \A i \in 1 .. Len(s) :
        s[i].prev = IF i = 1 THEN GENESIS_SENTINEL ELSE s[i - 1].id

Linked(s) ==
    \A i \in 1 .. Len(s) :
        /\ s[i].prev = IF i = 1 THEN GENESIS_SENTINEL ELSE s[i - 1].id
        /\ s[i].intact

LastHash(s) == IF s = << >> THEN GENESIS_SENTINEL ELSE Last(s).id

\* LRANGE; a broken link or hash is reported without looking at the watermark.
Scan(v) ==
    /\ vpc[v] = "idle"
    /\ met' = met \cup Meets("race", \E c \in Calls : Appending(c))
    /\ copy' = [copy EXCEPT ![v] = log]
    /\ truth' = [truth EXCEPT ![v] = history]
    /\ IF Linked(log)
         THEN /\ vpc' = [vpc EXCEPT ![v] = "scanned"]
              /\ UNCHANGED verdict
         ELSE /\ vpc' = [vpc EXCEPT ![v] = "done"]
              /\ verdict' = [verdict EXCEPT ![v] = "broken"]
    /\ UNCHANGED <<keys, writing, history, tampers>>

\* GET of the watermark; a log without one passes.
Matches(m, s) == m = NoMark \/ (m.n = Len(s) /\ m.last = LastHash(s))

CheckMark(v) ==
    /\ vpc[v] = "scanned"
    /\ vpc' = [vpc EXCEPT ![v] = "done"]
    /\ verdict' = [verdict EXCEPT ![v] =
                      IF Matches(mark, copy[v]) THEN "ok" ELSE "broken"]
    /\ UNCHANGED <<keys, writing, copy, truth, history, tampers, met>>

-------------------------------------------------------------------------------
(* Tampering with the keys. *)

\* An entry disappears (LREM, LTRIM, a restored backup).
Lose(i) ==
    /\ log' = RemoveAt(log, i)
    /\ UNCHANGED <<mark, met>>

\* An entry's body is rewritten (LSET).
Alter(i) ==
    /\ log[i].intact
    /\ log' = [log EXCEPT ![i].intact = FALSE]
    /\ UNCHANGED <<mark, met>>

\* An entry the gateway once wrote is put in again, at any place (LINSERT, RPUSH).
Repeat(e, i) ==
    /\ log' = InsertAt(log, i, e)
    /\ UNCHANGED <<mark, met>>

\* The watermark is deleted.
LoseMark ==
    /\ mark # NoMark
    /\ mark' = NoMark
    /\ met' = met \cup {"unmarked"}
    /\ UNCHANGED log

Tamper ==
    /\ tampers < MaxTampers
    /\ tampers' = tampers + 1
    /\ \/ \E i \in 1 .. Len(log) : Lose(i) \/ Alter(i)
       \/ \E e \in Range(history), i \in 1 .. Len(log) + 1 : Repeat(e, i)
       \/ LoseMark
    /\ UNCHANGED <<head, seq, writing, reading, history>>

CallStep(c) == ReadHead(c) \/ Incr(c) \/ Pipeline(c) \/ ReadPage(c)
VerifierStep(v) == Scan(v) \/ CheckMark(v)

Next ==
    \/ \E c \in Calls : CallStep(c) \/ Crash(c)
    \/ \E v \in Verifiers : VerifierStep(v)
    \/ Tamper

Spec == Init /\ [][Next]_vars

-------------------------------------------------------------------------------
\* Type correctness of the keys, of every call's variables and of the history.
TypeOK ==
    /\ log \in Seq(Entry)
    /\ head \in Hash
    /\ seq \in Nat
    /\ mark \in [n : Nat, last : Hash]
    /\ pc \in [Calls -> {"idle", "incr", "pipeline", "logged", "served", "dead"}]
    /\ prev \in [Calls -> Hash]
    /\ num \in [Calls -> Nat]
    /\ page \in [Calls -> [limit : Limits \cup {0}, entries : Seq(Entry)]]
    /\ vpc \in [Verifiers -> {"idle", "scanned", "done"}]
    /\ copy \in [Verifiers -> Seq(Entry)]
    /\ verdict \in [Verifiers -> {"none", "ok", "broken"}]
    /\ history \in Seq(Entry)
    /\ truth \in [Verifiers -> Seq(Entry)]
    /\ tampers \in Nat
    /\ met \subseteq Troubles

-------------------------------------------------------------------------------
(* Properties. *)

\* audit.py, verify_chain: a broken chain is a tamper signal.  Calls that neither
\* overlap nor die and verifications between them: a verification fails only if the
\* list it read is not the list of the entries appended.
FalseAlarm == \E v \in Verifiers : verdict[v] = "broken" /\ copy[v] = truth[v]

NoFalseAlarm == met \subseteq {"unmarked"} => ~FalseAlarm

\* The same of calls that may overlap, as they do whenever two requests of a tenant
\* are in flight.
BrokenMeansTampered == met \subseteq {"overlap", "unmarked"} => ~FalseAlarm

\* audit.py, module docstring: what happened to the list is detectable.  If calls of
\* log_event have not overlapped, the list a verification passes is the entries
\* appended before it: none removed, altered, put in again or moved, also when calls
\* died, or ran during the verification.  With the watermark deleted it can only
\* miss the last ones.
OkMeansComplete ==
    "overlap" \notin met =>
        \A v \in Verifiers : verdict[v] = "ok" =>
            /\ IsPrefix(copy[v], truth[v])
            /\ "unmarked" \notin met => copy[v] = truth[v]

\* An awaited log_event has put its event on record, once, before its caller goes
\* on: an admin is served no page before the access is in the log.
RecordedOnce ==
    \A c \in Calls :
        LET at == {i \in 1 .. Len(history) : history[i].id = c}
        IN /\ pc[c] \in {"logged", "served"} => \E i \in at : at = {i}
           /\ pc[c] \in {"idle", "incr", "pipeline"} => at = {}
           /\ \A i, j \in at : i = j

\* However the calls overlap, an entry is linked to one appended before it, so the
\* appended entries form a tree with its root at the sentinel, and the head and the
\* watermark (if it is there) are those of the last entry.
Known(hash, s) == hash = GENESIS_SENTINEL \/ \E i \in 1 .. Len(s) : s[i].id = hash

LinksPointBack ==
    /\ \A i \in 1 .. Len(history) :
          \/ history[i].prev = GENESIS_SENTINEL
          \/ \E j \in 1 .. i - 1 : history[j].id = history[i].prev
    /\ head = LastHash(history)
    /\ mark = NoMark \/ mark.last = LastHash(history)
    /\ \A c \in Calls : Known(prev[c], history)

\* audit.py, get_logs: the number of entries returned is capped, and is the limit
\* asked for when that is lower.  A limit that is not positive escapes the cap.
PageCapped ==
    \A c \in Calls :
        LET n == Len(page[c].entries)
        IN page[c].limit > 0 => n <= PageCap /\ n <= page[c].limit

-------------------------------------------------------------------------------
(* Why the verdicts can be trusted. *)

\* The chain of what was appended is whole as long as calls do not overlap.
ChainWhole ==
    /\ Linked(history)
    /\ head = LastHash(history)
    /\ \A c \in Calls : Appending(c) => prev[c] = head
    /\ \A c, d \in Calls : Appending(c) /\ Appending(d) => c = d

\* The counter and the watermark then never run behind the entries.
CountersCover ==
    /\ mark.n <= seq /\ Len(history) <= seq
    /\ "unmarked" \notin met => Len(history) <= mark.n
    /\ \A c \in Calls : pc[c] = "pipeline" => num[c] = seq /\ Len(history) < seq

\* What is intact the gateway wrote.
Genuine ==
    \A i \in 1 .. Len(log) :
        log[i].intact => \E j \in 1 .. Len(history) : log[i] = history[j]

SerialFacts ==
    /\ ChainWhole
    /\ CountersCover
    /\ \A v \in Verifiers :
          /\ Len(truth[v]) <= Len(history)
          /\ Verifying(v) => IsPrefix(copy[v], truth[v])
          /\ verdict[v] # "none" => vpc[v] = "done"

\* Inductive with Genuine and RecordedOnce, for OkMeansComplete.
SerialInv == "overlap" \notin met => SerialFacts

\* The watermark is exact, if it is there, when in addition no call dies.
MarkExact ==
    /\ mark = NoMark \/ mark = [n |-> Len(history), last |-> LastHash(history)]
    /\ \A c \in Calls : pc[c] = "pipeline" => num[c] = Len(history) + 1
    /\ seq = Len(history) + (IF \E c \in Calls : pc[c] = "pipeline" THEN 1 ELSE 0)

QuietFacts ==
    /\ ChainWhole
    /\ MarkExact
    /\ \A v \in Verifiers :
          /\ Verifying(v) => truth[v] = history /\ \A c \in Calls : ~Appending(c)
          /\ verdict[v] # "none" => vpc[v] = "done"

\* Inductive, for NoFalseAlarm.
QuietInv == met \subseteq {"unmarked"} => QuietFacts
===============================================================================
