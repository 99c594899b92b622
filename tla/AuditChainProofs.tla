--------------------------- MODULE AuditChainProofs ---------------------------
(***************************************************************************)
(* Theorems about AuditChain, for any number of calls and verifications.   *)
(***************************************************************************)
EXTENDS AuditChain, SequenceTheorems, WellFoundedInduction, TLAPS

USE AuditAssumption

-------------------------------------------------------------------------------
(* Sequences. *)

\* Deleting one element of a sequence.
LEMMA RemoveAtProperties ==
    ASSUME NEW S, NEW s \in Seq(S), NEW i \in 1 .. Len(s)
    PROVE  /\ RemoveAt(s, i) \in Seq(S)
           /\ \A k \in 1 .. Len(RemoveAt(s, i)) :
                 \E j \in 1 .. Len(s) : RemoveAt(s, i)[k] = s[j]
<1> DEFINE a == SubSeq(s, 1, i - 1)
           b == SubSeq(s, i + 1, Len(s))
<1>1. a \in Seq(S) /\ \A k \in 1 .. Len(a) : a[k] = s[k] /\ k \in 1 .. Len(s)
  BY SubSeqProperties
<1>2. b \in Seq(S) /\ \A k \in 1 .. Len(b) : b[k] = s[i + k] /\ i + k \in 1 .. Len(s)
  BY SubSeqProperties
<1>3. RemoveAt(s, i) = a \o b
  BY DEF RemoveAt
<1> HIDE DEF a, b
<1>4. /\ a \o b \in Seq(S) /\ Len(a \o b) = Len(a) + Len(b)
      /\ Len(a) \in Nat /\ Len(b) \in Nat
      /\ \A k \in 1 .. Len(a) + Len(b) :
            (a \o b)[k] = IF k <= Len(a) THEN a[k] ELSE b[k - Len(a)]
  BY <1>1, <1>2, ConcatProperties, LenProperties
<1>5. ASSUME NEW k \in 1 .. Len(a \o b) PROVE \E j \in 1 .. Len(s) : (a \o b)[k] = s[j]
  <2>1. CASE k <= Len(a)
    BY <1>1, <1>4, <1>5, <2>1
  <2>2. CASE k > Len(a)
    <3>1. k - Len(a) \in 1 .. Len(b) /\ (a \o b)[k] = b[k - Len(a)]
      BY <1>4, <1>5, <2>2
    <3> QED
      BY <1>2, <3>1
  <2> QED
    BY <1>4, <1>5, <2>1, <2>2
<1> QED
  BY <1>3, <1>4, <1>5

\* Inserting an element into a sequence.
LEMMA InsertAtProperties ==
    ASSUME NEW S, NEW s \in Seq(S), NEW i \in 1 .. Len(s) + 1, NEW e \in S
    PROVE  /\ InsertAt(s, i, e) \in Seq(S)
           /\ \A k \in 1 .. Len(InsertAt(s, i, e)) :
                 \/ InsertAt(s, i, e)[k] = e
                 \/ \E j \in 1 .. Len(s) : InsertAt(s, i, e)[k] = s[j]
<1> DEFINE a == SubSeq(s, 1, i - 1)
           b == <<e>>
           c == SubSeq(s, i, Len(s))
<1>1. a \in Seq(S) /\ \A k \in 1 .. Len(a) : a[k] = s[k] /\ k \in 1 .. Len(s)
  BY SubSeqProperties
<1>2. c \in Seq(S) /\ \A k \in 1 .. Len(c) : c[k] = s[i + k - 1] /\ i + k - 1 \in 1 .. Len(s)
  BY SubSeqProperties
<1>3. b \in Seq(S) /\ Len(b) = 1 /\ b[1] = e
  OBVIOUS
<1>4. InsertAt(s, i, e) = (a \o b) \o c
  BY DEF InsertAt
<1> HIDE DEF a, b, c
<1>5. /\ a \o b \in Seq(S) /\ Len(a \o b) = Len(a) + 1 /\ Len(a) \in Nat
      /\ \A k \in 1 .. Len(a) + 1 : (a \o b)[k] = IF k <= Len(a) THEN a[k] ELSE e
  <2>1. /\ a \o b \in Seq(S) /\ Len(a \o b) = Len(a) + Len(b) /\ Len(a) \in Nat
        /\ \A k \in 1 .. Len(a) + Len(b) :
              (a \o b)[k] = IF k <= Len(a) THEN a[k] ELSE b[k - Len(a)]
    BY <1>1, <1>3, ConcatProperties, LenProperties
  <2>2. ASSUME NEW k \in 1 .. Len(a) + 1
        PROVE  (a \o b)[k] = IF k <= Len(a) THEN a[k] ELSE e
    <3>1. CASE k <= Len(a)
      BY <1>3, <2>1, <3>1
    <3>2. CASE ~(k <= Len(a))
      <4>1. k - Len(a) = 1
        BY <2>1, <3>2
      <4> QED
        BY <1>3, <2>1, <3>2, <4>1
    <3> QED
      BY <3>1, <3>2
  <2> QED
    BY <1>3, <2>1, <2>2
<1>6. /\ (a \o b) \o c \in Seq(S) /\ Len((a \o b) \o c) = Len(a \o b) + Len(c)
      /\ Len(c) \in Nat
      /\ \A k \in 1 .. Len(a \o b) + Len(c) :
            ((a \o b) \o c)[k] = IF k <= Len(a \o b) THEN (a \o b)[k] ELSE c[k - Len(a \o b)]
  <2> DEFINE d == a \o b
  <2>1. d \in Seq(S)
    BY <1>5
  <2> HIDE DEF d
  <2>2. /\ d \o c \in Seq(S) /\ Len(d \o c) = Len(d) + Len(c) /\ Len(c) \in Nat
        /\ \A k \in 1 .. Len(d) + Len(c) :
              (d \o c)[k] = IF k <= Len(d) THEN d[k] ELSE c[k - Len(d)]
    BY <1>2, <2>1, ConcatProperties, LenProperties
  <2> QED
    BY <2>2 DEF d
<1>7. ASSUME NEW k \in 1 .. Len((a \o b) \o c)
      PROVE  \/ ((a \o b) \o c)[k] = e
             \/ \E j \in 1 .. Len(s) : ((a \o b) \o c)[k] = s[j]
  <2>1. CASE k <= Len(a)
    <3>1. k \in 1 .. Len(a) /\ ((a \o b) \o c)[k] = a[k]
      BY <1>5, <1>6, <1>7, <2>1
    <3> QED
      BY <1>1, <3>1
  <2>2. CASE k = Len(a) + 1
    BY <1>5, <1>6, <1>7, <2>2
  <2>3. CASE k > Len(a) + 1
    <3>1. k - Len(a \o b) \in 1 .. Len(c) /\ ((a \o b) \o c)[k] = c[k - Len(a \o b)]
      BY <1>5, <1>6, <1>7, <2>3
    <3> QED
      BY <1>2, <3>1
  <2> QED
    BY <1>5, <1>6, <1>7, <2>1, <2>2, <2>3
<1> QED
  BY <1>4, <1>6, <1>7

\* A page is a sequence of entries of the log.
LEMMA PageType ==
    ASSUME NEW S, NEW s \in Seq(S), NEW limit \in Limits
    PROVE  get_logs(s, limit) \in Seq(S)
<1>1. \A start \in Int : LRange(s, start) \in Seq(S)
  <2> SUFFICES ASSUME NEW start \in Int PROVE LRange(s, start) \in Seq(S)
    OBVIOUS
  <2>1. \A from \in Nat : SubSeq(s, from + 1, Len(s)) \in Seq(S)
    OBVIOUS
  <2> QED
    BY <2>1 DEF LRange
<1>2. -(IF limit <= PageCap THEN limit ELSE PageCap) \in Int
  OBVIOUS
<1> QED
  BY <1>1, <1>2 DEF get_logs

-------------------------------------------------------------------------------
(* Type correctness. *)

LEMMA TypeInit == Init => TypeOK
BY DEF Init, TypeOK, Hash, NoMark, NoPage

\* A reply moves its call on or leaves it dead, and no other call.
LEMMA ReplyEffect ==
    ASSUME TypeOK, NEW c \in Calls, NEW next \in {"pipeline", "logged"}, Reply(c, next)
    PROVE  /\ pc' \in [Calls -> {"idle", "incr", "pipeline", "logged", "served", "dead"}]
           /\ \A d \in Calls : d # c => pc'[d] = pc[d]
           /\ pc'[c] \in {next, "dead"}
           /\ met' \subseteq Troubles
           /\ "death" \notin met' => pc'[c] = next
BY ZenonT(30) DEF TypeOK, Reply, Troubles

\* What has happened is not forgotten.
LEMMA MetGrows == ASSUME [Next]_vars PROVE met \subseteq met'
BY DEF Next, CallStep, VerifierStep, ReadHead, Incr, Reply, Pipeline, Crash, ReadPage,
  Scan, CheckMark, Tamper, Lose, Alter, Repeat, LoseMark, vars

\* The appended entries are a sequence in which positions name their entries.
LEMMA RangeIs ==
    ASSUME NEW S, NEW s \in Seq(S)
    PROVE  Range(s) = {s[i] : i \in 1 .. Len(s)} /\ Range(s) \subseteq S
BY DEF Range

\* Tampering changes the list and the watermark, and only within their types.
LEMMA TamperEffect ==
    ASSUME TypeOK, Tamper
    PROVE  /\ log' \in Seq(Entry)
           /\ mark' \in {mark, NoMark}
           /\ met' \in {met, met \cup {"unmarked"}}
           /\ mark' # mark => "unmarked" \in met'
           /\ UNCHANGED <<head, seq, writing, reading, history>>
           /\ tampers' \in Nat
<1>1. UNCHANGED <<head, seq, writing, reading, history>> /\ tampers' \in Nat
  BY DEF Tamper, TypeOK
<1>2. ASSUME NEW i \in 1 .. Len(log), Lose(i) PROVE log' \in Seq(Entry)
  BY <1>2, RemoveAtProperties DEF Lose, TypeOK
<1>3. ASSUME NEW i \in 1 .. Len(log), Alter(i) PROVE log' \in Seq(Entry)
  <2>1. log[i] \in Entry /\ log \in Seq(Entry)
    BY DEF TypeOK
  <2>2. [log[i] EXCEPT !.intact = FALSE] \in Entry
    BY <2>1 DEF Entry
  <2>3. log' = [log EXCEPT ![i] = [log[i] EXCEPT !.intact = FALSE]]
    BY <1>3 DEF Alter
  <2> QED
    BY <2>1, <2>2, <2>3, ExceptSeq
<1>4. ASSUME NEW e \in Range(history), NEW i \in 1 .. Len(log) + 1, Repeat(e, i)
      PROVE  log' \in Seq(Entry)
  <2>1. e \in Entry /\ log \in Seq(Entry)
    BY RangeIs DEF TypeOK
  <2> QED
    BY <1>4, <2>1, InsertAtProperties DEF Repeat
<1>5. LoseMark => log' \in Seq(Entry)
  BY DEF LoseMark, TypeOK
<1> QED
  BY <1>1, <1>2, <1>3, <1>4, <1>5 DEF Tamper, Lose, Alter, Repeat, LoseMark

LEMMA TypeNext == TypeOK /\ [Next]_vars => TypeOK'
<1> SUFFICES ASSUME TypeOK, [Next]_vars PROVE TypeOK'
  OBVIOUS
<1> USE DEF keys, writing, reading, Meets, Troubles
<1>1. ASSUME NEW c \in Calls, ReadHead(c) PROVE TypeOK'
  BY <1>1 DEF ReadHead, TypeOK
<1>2. ASSUME NEW c \in Calls, Incr(c) PROVE TypeOK'
  BY <1>2, ReplyEffect DEF Incr, TypeOK
<1>3. ASSUME NEW c \in Calls, Pipeline(c) PROVE TypeOK'
  <2>1. [id |-> c, prev |-> prev[c], intact |-> TRUE] \in Entry
    BY DEF TypeOK, Entry
  <2> QED
    BY <1>3, <2>1, ReplyEffect DEF Pipeline, Watermark, TypeOK, Hash
<1>4. ASSUME NEW c \in Calls, Crash(c) PROVE TypeOK'
  BY <1>4 DEF Crash, TypeOK
<1>5. ASSUME NEW c \in Calls, ReadPage(c) PROVE TypeOK'
  <2>1. PICK limit \in Limits :
          page' = [page EXCEPT ![c] = [limit |-> limit, entries |-> get_logs(log, limit)]]
    BY <1>5 DEF ReadPage
  <2>2. get_logs(log, limit) \in Seq(Entry)
    BY PageType DEF TypeOK
  <2>3. page' \in [Calls -> [limit : Limits \cup {0}, entries : Seq(Entry)]]
    BY <2>1, <2>2 DEF TypeOK
  <2> QED
    BY <1>5, <2>3 DEF ReadPage, TypeOK
<1>6. ASSUME NEW v \in Verifiers, Scan(v) PROVE TypeOK'
  BY <1>6 DEF Scan, TypeOK
<1>7. ASSUME NEW v \in Verifiers, CheckMark(v) PROVE TypeOK'
  BY <1>7 DEF CheckMark, TypeOK
<1>8. CASE Tamper
  <2>1. mark' \in [n : Nat, last : Hash]
    BY <1>8, TamperEffect DEF TypeOK, NoMark, Hash
  <2> QED
    BY <1>8, <2>1, TamperEffect DEF TypeOK
<1>9. CASE UNCHANGED vars
  BY <1>9 DEF vars, TypeOK
<1> QED
  BY <1>1, <1>2, <1>3, <1>4, <1>5, <1>6, <1>7, <1>8, <1>9
  DEF Next, CallStep, VerifierStep

\* Every key and every call's variables always have their types.
THEOREM TypeCorrect == Spec => []TypeOK
BY TypeInit, TypeNext, PTL DEF Spec

-------------------------------------------------------------------------------
(* Whatever overlaps and dies. *)

\* Appending an entry with a known predecessor keeps the tree a tree.
LEMMA LinksNext == TypeOK /\ LinksPointBack /\ [Next]_vars => LinksPointBack'
<1> SUFFICES ASSUME TypeOK, LinksPointBack, [Next]_vars PROVE LinksPointBack'
  OBVIOUS
<1> USE DEF LinksPointBack, Known, keys, writing, reading
<1>1. ASSUME NEW c \in Calls, ReadHead(c) PROVE LinksPointBack'
  <2>1. Known(head, history)
    <3>1. CASE history = << >>
      BY <3>1 DEF LastHash
    <3>2. CASE history # << >>
      <4>1. Len(history) \in 1 .. Len(history)
        BY <3>2 DEF TypeOK
      <4> QED
        BY <3>2, <4>1 DEF LastHash, Last
    <3> QED
      BY <3>1, <3>2
  <2>2. \A d \in Calls : prev'[d] = IF d = c THEN head ELSE prev[d]
    BY <1>1 DEF ReadHead, TypeOK
  <2> QED
    BY <1>1, <2>1, <2>2 DEF ReadHead
<1>2. ASSUME NEW c \in Calls, Pipeline(c) PROVE LinksPointBack'
  <2> DEFINE e == [id |-> c, prev |-> prev[c], intact |-> TRUE]
  <2>1. history \in Seq(Entry) /\ e \in Entry
    BY DEF TypeOK, Entry
  <2>2. history' = Append(history, e)
    BY <1>2 DEF Pipeline, Watermark
  <2>3. /\ Len(history) \in Nat /\ Len(history') = Len(history) + 1
        /\ \A i \in 1 .. Len(history) : history'[i] = history[i]
        /\ history'[Len(history) + 1] = e
    BY <2>1, <2>2
  <2>4. history' # << >> /\ LastHash(history') = c
    BY <2>1, <2>2, <2>3 DEF LastHash, Last
  <2>5. ASSUME NEW i \in 1 .. Len(history')
        PROVE  \/ history'[i].prev = GENESIS_SENTINEL
               \/ \E j \in 1 .. i - 1 : history'[j].id = history'[i].prev
    <3>1. CASE i \in 1 .. Len(history)
      <4>1. \A j \in 1 .. i - 1 : j \in 1 .. Len(history)
        BY <2>3, <3>1
      <4> QED
        BY <2>3, <3>1, <4>1
    <3>2. CASE i = Len(history) + 1
      <4>1. history'[i].prev = prev[c] /\ i - 1 = Len(history)
        BY <2>3, <3>2
      <4> QED
        BY <2>3, <4>1
    <3> QED
      BY <2>3, <3>1, <3>2
  <2>6. \A d \in Calls : Known(prev[d], history')
    BY <2>3
  <2> QED
    BY <1>2, <2>4, <2>5, <2>6 DEF Pipeline, Watermark
<1>3. CASE Tamper
  BY <1>3, TamperEffect
<1> QED
  BY <1>1, <1>2, <1>3 DEF Next, CallStep, VerifierStep, Incr, Crash, ReadPage, Scan,
    CheckMark, vars

\* The appended entries form a tree rooted at the sentinel, and the head and the
\* watermark are those of the last one, however calls overlap and die.
THEOREM EntriesFormATree == Spec => []LinksPointBack
<1>1. Init => LinksPointBack
  BY DEF Init, LinksPointBack, Known, LastHash, NoMark
<1> QED
  BY <1>1, LinksNext, TypeCorrect, PTL DEF Spec

-------------------------------------------------------------------------------
(* An awaited event is on record, once. *)

\* Where the entry of call c is in the appended ones.
At(c) == {i \in 1 .. Len(history) : history[i].id = c}

Filed(c) ==
    /\ pc[c] \in {"logged", "served"} => \E i \in At(c) : At(c) = {i}
    /\ pc[c] \in {"idle", "incr", "pipeline"} => At(c) = {}
    /\ \A i, j \in At(c) : i = j

LEMMA FiledIsRecorded == RecordedOnce <=> \A c \in Calls : Filed(c)
BY DEF RecordedOnce, Filed, At

LEMMA FiledNext ==
    ASSUME TypeOK, \A c \in Calls : Filed(c), [Next]_vars
    PROVE  \A c \in Calls : Filed(c)'
<1> USE DEF keys, writing, reading
\* A step that appends nothing and makes of a call no more than was promised of it.
<1>1. ASSUME UNCHANGED history,
             \A c \in Calls : \/ pc'[c] = pc[c]
                              \/ pc'[c] = "dead"
                              \/ pc'[c] \in {"incr", "pipeline"} /\ pc[c] \in {"idle", "incr"}
                              \/ pc'[c] = "served" /\ pc[c] = "logged"
      PROVE  \A c \in Calls : Filed(c)'
  <2> SUFFICES ASSUME NEW c \in Calls PROVE Filed(c)'
    OBVIOUS
  <2>1. At(c)' = At(c)
    BY <1>1 DEF At
  <2>2. Filed(c)
    OBVIOUS
  <2> QED
    BY <1>1, <2>1, <2>2 DEF Filed
<1>2. ASSUME NEW c \in Calls, ReadHead(c) PROVE \A d \in Calls : Filed(d)'
  BY <1>1, <1>2 DEF ReadHead, TypeOK
<1>3. ASSUME NEW c \in Calls, Incr(c) PROVE \A d \in Calls : Filed(d)'
  <2>1. /\ pc'[c] \in {"pipeline", "dead"} /\ pc[c] = "incr" /\ UNCHANGED history
        /\ \A d \in Calls : d # c => pc'[d] = pc[d]
    BY <1>3, ReplyEffect DEF Incr
  <2> QED
    BY <1>1, <2>1
<1>4. ASSUME NEW c \in Calls, Pipeline(c) PROVE \A d \in Calls : Filed(d)'
  <2> DEFINE e == [id |-> c, prev |-> prev[c], intact |-> TRUE]
  <2>1. e \in Entry /\ e.id = c
    BY DEF TypeOK, Entry
  <2>2. history' = Append(history, e) /\ pc[c] = "pipeline"
    BY <1>4 DEF Pipeline
  <2>3. pc'[c] \in {"logged", "dead"} /\ \A d \in Calls : d # c => pc'[d] = pc[d]
    BY <1>4, ReplyEffect DEF Pipeline
  <2> HIDE DEF e
  <2>4. /\ Len(history') = Len(history) + 1 /\ Len(history) \in Nat
        /\ history'[Len(history) + 1] = e
        /\ \A i \in 1 .. Len(history) : history'[i] = history[i]
    BY <2>1, <2>2 DEF TypeOK
  <2>5. At(c)' = {Len(history) + 1}
    <3>1. At(c) = {}
      BY <2>2 DEF Filed
    <3> QED
      BY <2>1, <2>4, <3>1 DEF At
  <2>6. Filed(c)'
    BY <2>3, <2>5 DEF Filed
  <2>7. ASSUME NEW d \in Calls, d # c PROVE Filed(d)'
    <3>1. At(d)' = At(d)
      BY <2>1, <2>4, <2>7 DEF At
    <3>2. Filed(d)
      OBVIOUS
    <3> QED
      BY <2>3, <2>7, <3>1, <3>2 DEF Filed
  <2> QED
    BY <2>6, <2>7
<1>5. ASSUME NEW c \in Calls, Crash(c) PROVE \A d \in Calls : Filed(d)'
  BY <1>1, <1>5 DEF Crash, TypeOK
<1>6. ASSUME NEW c \in Calls, ReadPage(c) PROVE \A d \in Calls : Filed(d)'
  BY <1>1, <1>6 DEF ReadPage, TypeOK
<1>7. ASSUME NEW v \in Verifiers, VerifierStep(v) PROVE \A d \in Calls : Filed(d)'
  BY <1>1, <1>7 DEF VerifierStep, Scan, CheckMark
<1>8. CASE Tamper
  BY <1>1, <1>8, TamperEffect
<1>9. CASE UNCHANGED vars
  BY <1>1, <1>9 DEF vars
<1> QED
  BY <1>2, <1>3, <1>4, <1>5, <1>6, <1>7, <1>8, <1>9 DEF Next, CallStep

\* An awaited log_event has put its event on record, exactly once, before its caller
\* goes on; one that has not got to its pipeline has put nothing there.
THEOREM EventsFiled == Spec => []RecordedOnce
<1>1. Init => RecordedOnce
  BY DEF Init, RecordedOnce
<1>2. TypeOK /\ RecordedOnce /\ [Next]_vars => RecordedOnce'
  <2> SUFFICES ASSUME TypeOK, RecordedOnce, [Next]_vars PROVE RecordedOnce'
    OBVIOUS
  <2>1. \A c \in Calls : Filed(c)
    BY FiledIsRecorded
  <2>2. \A c \in Calls : Filed(c)'
    BY <2>1, FiledNext
  <2> QED
    BY <2>2 DEF RecordedOnce, Filed, At
<1> QED
  BY <1>1, <1>2, TypeCorrect, PTL DEF Spec

-------------------------------------------------------------------------------
(* Induction over positions, from the library's facts about well-founded        *)
(* relations.                                                                    *)

\* A set of numbers has a least one.
LEMMA NatMin ==
    ASSUME NEW T \in SUBSET Nat, T # {}
    PROVE  \E n \in T : \A m \in T : n <= m
<1> DEFINE R == OpToRel(<, Nat)
<1>1. IsWellFoundedOn(R, Nat)
  BY NatLessThanWellFounded
<1>2. PICK x \in T : \A y \in T : <<y, x>> \notin R
  <2> HIDE DEF R
  <2> QED
    BY <1>1, WFMin
<1>3. \A y \in T : y < x => <<y, x>> \in R
  BY DEF OpToRel
<1>4. \A y \in T : ~(y < x) /\ x \in Nat /\ y \in Nat
  BY <1>2, <1>3
<1> HIDE DEF R
<1> QED
  BY <1>4

\* The numbers up to n, one after the other.
LEMMA Induction ==
    ASSUME NEW n \in Nat, NEW S, 0 \in S, \A i \in 0 .. n - 1 : i \in S => i + 1 \in S
    PROVE  \A i \in 0 .. n : i \in S
<1> SUFFICES ASSUME (0 .. n) \ S # {} PROVE FALSE
  OBVIOUS
<1>1. (0 .. n) \ S \in SUBSET Nat
  OBVIOUS
<1>2. PICK i \in (0 .. n) \ S : \A j \in (0 .. n) \ S : i <= j
  BY <1>1, NatMin
<1>3. i # 0 /\ i - 1 \in 0 .. n - 1 /\ (i - 1) + 1 = i
  BY <1>2
<1>4. i - 1 \in S
  BY <1>2, <1>3
<1> QED
  BY <1>2, <1>3, <1>4

-------------------------------------------------------------------------------
(* As long as calls of log_event have not overlapped, a verification that passes *)
(* has seen everything, also when calls died and when it overlapped with them.   *)

\* No two entries have the same hash.
Distinct(t) == \A i, j \in 1 .. Len(t) : t[i].id = t[j].id => i = j

\* A whole chain of entries of another whole chain is a prefix of it: the first entry
\* of either is the one linked to the sentinel, and the next is the one linked to it.
LEMMA ChainIsPrefix ==
    ASSUME NEW s \in Seq(Entry), NEW t \in Seq(Entry), Linked(s), Linked(t), Distinct(t),
           \A i \in 1 .. Len(s) : \E j \in 1 .. Len(t) : s[i] = t[j]
    PROVE  IsPrefix(s, t)
<1> DEFINE S == {i \in 0 .. Len(s) : i <= Len(t) /\ (i > 0 => s[i] = t[i])}
<1>0. Len(s) \in Nat /\ Len(t) \in Nat
  BY LenProperties
<1>1. 0 \in S
  BY <1>0
<1>2. ASSUME NEW i \in 0 .. Len(s) - 1, i \in S PROVE i + 1 \in S
  <2>1. i + 1 \in 1 .. Len(s)
    BY <1>0
  <2>2. PICK j \in 1 .. Len(t) : s[i + 1] = t[j]
    BY <2>1
  <2>3. \A k \in 1 .. Len(t) : t[k].id # GENESIS_SENTINEL
    <3>1. \A k \in 1 .. Len(t) : t[k] \in Entry
      OBVIOUS
    <3> QED
      BY <3>1 DEF Entry
  <2>4. t[j].prev = IF j = 1 THEN GENESIS_SENTINEL ELSE t[j - 1].id
    BY DEF Linked
  <2>5. s[i + 1].prev = IF i + 1 = 1 THEN GENESIS_SENTINEL ELSE s[(i + 1) - 1].id
    BY <2>1 DEF Linked
  <2>6. CASE i = 0
    <3>1. j = 1
      <4> SUFFICES ASSUME j # 1 PROVE FALSE
        OBVIOUS
      <4>1. j - 1 \in 1 .. Len(t)
        BY <1>0
      <4> QED
        BY <2>2, <2>3, <2>4, <2>5, <2>6, <4>1
    <3> QED
      BY <1>0, <2>1, <2>2, <2>6, <3>1
  <2>7. CASE i > 0
    <3>1. i \in 1 .. Len(t) /\ s[i] = t[i] /\ (i + 1) - 1 = i /\ i + 1 # 1
      BY <1>0, <1>2, <2>7
    <3>2. t[j].prev = t[i].id
      BY <2>2, <2>5, <3>1
    <3>3. j # 1
      BY <2>3, <2>4, <3>1, <3>2
    <3>4. j - 1 \in 1 .. Len(t) /\ t[j - 1].id = t[i].id
      BY <1>0, <2>4, <3>2, <3>3
    <3>5. j - 1 = i
      BY <3>1, <3>4 DEF Distinct
    <3> QED
      BY <1>0, <2>1, <2>2, <3>5
  <2> QED
    BY <2>6, <2>7
<1>3. \A i \in 0 .. Len(s) : i \in S
  <2> HIDE DEF S
  <2> QED
    BY <1>0, <1>1, <1>2, Induction
<1>4. Len(s) <= Len(t)
  <2>1. Len(s) \in 0 .. Len(s)
    BY <1>0
  <2> QED
    BY <1>3, <2>1
<1>5. \A i \in 1 .. Len(s) : s[i] = t[i] /\ i \in 1 .. Len(t)
  <2> TAKE i \in 1 .. Len(s)
  <2>1. i \in 0 .. Len(s) /\ i > 0
    BY <1>0
  <2> QED
    BY <1>0, <1>3, <1>4, <2>1
<1> HIDE DEF S
<1>6. SubSeq(s, 1, Len(s)) = SubSeq(t, 1, Len(s))
  BY <1>0, <1>4, <1>5
<1> QED
  BY <1>4, <1>6 DEF IsPrefix

\* A prefix that is not shorter is the whole.
LEMMA WholePrefix ==
    ASSUME NEW s \in Seq(Entry), NEW t \in Seq(Entry), IsPrefix(s, t), Len(t) <= Len(s)
    PROVE  s = t
<1>0. Len(s) \in Nat /\ Len(t) \in Nat
  BY LenProperties
<1>1. Len(s) = Len(t) /\ SubSeq(s, 1, Len(s)) = SubSeq(t, 1, Len(t))
  BY <1>0 DEF IsPrefix
<1>2. SubSeq(s, 1, Len(s)) = s /\ SubSeq(t, 1, Len(t)) = t
  BY <1>0
<1> QED
  BY <1>1, <1>2

\* Nobody can make an entry whose hash is right.
LEMMA GenuineNext == TypeOK /\ Genuine /\ [Next]_vars => Genuine'
<1> SUFFICES ASSUME TypeOK, Genuine, [Next]_vars PROVE Genuine'
  OBVIOUS
<1> USE DEF keys, writing, reading
<1>0. log \in Seq(Entry) /\ history \in Seq(Entry)
  BY DEF TypeOK
<1>1. ASSUME NEW c \in Calls, Pipeline(c) PROVE Genuine'
  <2> DEFINE e == [id |-> c, prev |-> prev[c], intact |-> TRUE]
  <2>1. e \in Entry /\ log' = Append(log, e) /\ history' = Append(history, e)
    BY <1>1 DEF Pipeline, TypeOK, Entry
  <2> HIDE DEF e
  <2>2. /\ Len(log') = Len(log) + 1 /\ log'[Len(log) + 1] = e
        /\ \A i \in 1 .. Len(log) : log'[i] = log[i]
        /\ Len(history') = Len(history) + 1 /\ history'[Len(history) + 1] = e
        /\ \A i \in 1 .. Len(history) : history'[i] = history[i]
        /\ Len(log) \in Nat /\ Len(history) \in Nat
    BY <1>0, <2>1
  <2>3. ASSUME NEW i \in 1 .. Len(log'), log'[i].intact
        PROVE  \E j \in 1 .. Len(history') : log'[i] = history'[j]
    <3>1. CASE i \in 1 .. Len(log)
      <4>1. PICK j \in 1 .. Len(history) : log[i] = history[j]
        BY <2>2, <2>3, <3>1 DEF Genuine
      <4> QED
        BY <2>2, <3>1, <4>1
    <3>2. CASE i = Len(log) + 1
      <4>1. Len(history) + 1 \in 1 .. Len(history')
        BY <2>2
      <4> QED
        BY <2>2, <3>2, <4>1
    <3> QED
      BY <2>2, <3>1, <3>2
  <2> QED
    BY <2>3 DEF Genuine
<1>2. CASE Tamper
  <2>0. history' = history
    BY <1>2, TamperEffect
  <2>1. ASSUME NEW i \in 1 .. Len(log), Lose(i) PROVE Genuine'
    <3>0. log' = RemoveAt(log, i)
      BY <2>1 DEF Lose
    <3>1. \A k \in 1 .. Len(log') : \E j \in 1 .. Len(log) : log'[k] = log[j]
      <4>1. \A k \in 1 .. Len(RemoveAt(log, i)) :
              \E j \in 1 .. Len(log) : RemoveAt(log, i)[k] = log[j]
        BY <1>0, RemoveAtProperties
      <4> QED
        BY <3>0, <4>1
    <3> QED
      BY <2>0, <3>1 DEF Genuine
  <2>2. ASSUME NEW i \in 1 .. Len(log), Alter(i) PROVE Genuine'
    <3>1. /\ Len(log') = Len(log) /\ ~log'[i].intact
          /\ \A k \in 1 .. Len(log) : k # i => log'[k] = log[k]
      <4>1. log' = [log EXCEPT ![i] = [log[i] EXCEPT !.intact = FALSE]]
        BY <2>2 DEF Alter
      <4>2. log[i] \in Entry
        BY <1>0
      <4>3. [log[i] EXCEPT !.intact = FALSE] \in Entry
        BY <4>2 DEF Entry
      <4>4. [log[i] EXCEPT !.intact = FALSE].intact = FALSE
        BY <4>2 DEF Entry
      <4> QED
        BY <1>0, <4>1, <4>3, <4>4, ExceptSeq
    <3> QED
      BY <2>0, <3>1 DEF Genuine
  <2>3. ASSUME NEW e \in Range(history), NEW i \in 1 .. Len(log) + 1, Repeat(e, i)
        PROVE  Genuine'
    <3>1. e \in Entry /\ \E j \in 1 .. Len(history) : e = history[j]
      BY <1>0, RangeIs
    <3>2. \A k \in 1 .. Len(log') : \/ log'[k] = e
                                    \/ \E j \in 1 .. Len(log) : log'[k] = log[j]
      BY <1>0, <2>3, <3>1, InsertAtProperties DEF Repeat
    <3> QED
      BY <2>0, <3>1, <3>2 DEF Genuine
  <2>4. LoseMark => Genuine'
    BY <2>0 DEF LoseMark, Genuine
  <2> QED
    BY <1>2, <2>1, <2>2, <2>3, <2>4 DEF Tamper
<1>3. CASE UNCHANGED <<log, history>>
  BY <1>3 DEF Genuine
<1> QED
  BY <1>1, <1>2, <1>3 DEF Next, CallStep, VerifierStep, ReadHead, Incr, Crash, ReadPage,
    Scan, CheckMark, vars

\* An entry linked to the last one extends the chain.
LEMMA AppendLinked ==
    ASSUME NEW s \in Seq(Entry), Linked(s), NEW c \in Calls
    PROVE  /\ Linked(Append(s, [id |-> c, prev |-> LastHash(s), intact |-> TRUE]))
           /\ LastHash(Append(s, [id |-> c, prev |-> LastHash(s), intact |-> TRUE])) = c
<1> DEFINE e == [id |-> c, prev |-> LastHash(s), intact |-> TRUE]
           t == Append(s, e)
<1>1. /\ Len(s) \in Nat /\ Len(t) = Len(s) + 1
      /\ t[Len(s) + 1] = e /\ \A i \in 1 .. Len(s) : t[i] = s[i]
  OBVIOUS
<1>2. t # << >> /\ Last(t) = e
  BY <1>1 DEF Last
<1>3. s # << >> => LastHash(s) = s[Len(s)].id
  BY DEF LastHash, Last
<1>4. ASSUME NEW i \in 1 .. Len(t)
      PROVE  /\ t[i].prev = IF i = 1 THEN GENESIS_SENTINEL ELSE t[i - 1].id
             /\ t[i].intact
  <2>1. CASE i \in 1 .. Len(s)
    BY <1>1, <2>1 DEF Linked
  <2>2. CASE i = Len(s) + 1 /\ s = << >>
    BY <1>1, <2>2 DEF LastHash
  <2>3. CASE i = Len(s) + 1 /\ s # << >>
    <3>1. Len(s) > 0
      BY <2>3
    <3>2. t[i].prev = LastHash(s) /\ t[i - 1] = s[Len(s)] /\ t[i].intact
      BY <1>1, <2>3, <3>1
    <3> QED
      BY <1>1, <1>3, <2>3, <3>1, <3>2
  <2> QED
    BY <1>1, <2>1, <2>2, <2>3
<1>5. Linked(t)
  BY <1>4 DEF Linked
<1>6. LastHash(t) = c
  BY <1>2 DEF LastHash
<1> QED
  BY <1>5, <1>6

\* Calls that do not overlap extend the chain of what was appended.
LEMMA ChainNext ==
    ASSUME TypeOK, ChainWhole, [Next]_vars, "overlap" \notin met'
    PROVE  ChainWhole'
<1> USE DEF ChainWhole, Appending, keys, writing, reading
<1>1. ASSUME NEW c \in Calls, ReadHead(c) PROVE ChainWhole'
  BY <1>1 DEF ReadHead, Meets, TypeOK
<1>2. ASSUME NEW c \in Calls, Incr(c) PROVE ChainWhole'
  BY <1>2, ReplyEffect DEF Incr
<1>3. ASSUME NEW c \in Calls, Pipeline(c) PROVE ChainWhole'
  <2>1. prev[c] = LastHash(history)
    BY <1>3 DEF Pipeline
  <2>2. history' = Append(history, [id |-> c, prev |-> LastHash(history), intact |-> TRUE])
    BY <1>3, <2>1 DEF Pipeline
  <2>3. Linked(history') /\ LastHash(history') = c
    BY <2>2, AppendLinked DEF TypeOK
  <2>4. \A d \in Calls : pc'[d] \notin {"incr", "pipeline"}
    BY <1>3, ReplyEffect DEF Pipeline
  <2> QED
    BY <1>3, <2>3, <2>4 DEF Pipeline
<1>4. ASSUME NEW c \in Calls, Crash(c) PROVE ChainWhole'
  BY <1>4 DEF Crash, TypeOK
<1>5. ASSUME NEW c \in Calls, ReadPage(c) PROVE ChainWhole'
  BY <1>5 DEF ReadPage, TypeOK
<1>6. CASE Tamper
  BY <1>6, TamperEffect
<1> QED
  BY <1>1, <1>2, <1>3, <1>4, <1>5, <1>6 DEF Next, CallStep, VerifierStep, Scan, CheckMark, vars

LEMMA CoverNext ==
    ASSUME TypeOK, ChainWhole, CountersCover, [Next]_vars, "overlap" \notin met'
    PROVE  CountersCover'
<1> USE DEF CountersCover, ChainWhole, Appending, keys, writing, reading
<1>0. Len(history) \in Nat /\ mark.n \in Nat /\ seq \in Nat
  BY DEF TypeOK
<1>1. ASSUME NEW c \in Calls, ReadHead(c) PROVE CountersCover'
  BY <1>1 DEF ReadHead, Meets, TypeOK
<1>2. ASSUME NEW c \in Calls, Incr(c) PROVE CountersCover'
  <2>1. \A d \in Calls : pc[d] = "pipeline" => d = c
    BY <1>2 DEF Incr
  <2>2. \A d \in Calls : pc'[d] = "pipeline" => d = c
    BY <1>2, <2>1, ReplyEffect DEF Incr
  <2>3. num'[c] = seq' /\ Len(history) < seq' /\ mark.n <= seq'
    BY <1>0, <1>2 DEF Incr, TypeOK
  <2> QED
    BY <1>0, <1>2, <2>2, <2>3, MetGrows DEF Incr
<1>3. ASSUME NEW c \in Calls, Pipeline(c) PROVE CountersCover'
  <2>1. Len(history') = Len(history) + 1
    BY <1>3 DEF Pipeline, TypeOK
  <2>2. \A d \in Calls : pc'[d] \notin {"incr", "pipeline"}
    BY <1>3, ReplyEffect DEF Pipeline
  <2> QED
    BY <1>0, <1>3, <2>1, <2>2 DEF Pipeline, Watermark
<1>4. ASSUME NEW c \in Calls, Crash(c) \/ ReadPage(c) PROVE CountersCover'
  BY <1>4 DEF Crash, ReadPage, TypeOK
<1>5. CASE Tamper
  BY <1>0, <1>5, TamperEffect DEF NoMark
<1> QED
  BY <1>1, <1>2, <1>3, <1>4, <1>5, MetGrows
  DEF Next, CallStep, VerifierStep, Scan, CheckMark, vars

LEMMA SerialNext ==
    ASSUME TypeOK, Genuine, Distinct(history), SerialFacts, [Next]_vars,
           "overlap" \notin met'
    PROVE  SerialFacts'
<1> USE DEF SerialFacts, Verifying, keys, writing, reading
<1>0. ChainWhole' /\ CountersCover'
  BY ChainNext, CoverNext
<1>1. ASSUME NEW v \in Verifiers, Scan(v) PROVE SerialFacts'
  <2>1. \A w \in Verifiers : w # v =>
          /\ copy'[w] = copy[w] /\ truth'[w] = truth[w]
          /\ verdict'[w] = verdict[w] /\ vpc'[w] = vpc[w]
    BY <1>1 DEF Scan, TypeOK
  <2>2. verdict'[v] # "none" => vpc'[v] = "done"
    BY <1>1 DEF Scan, TypeOK
  <2>3. copy'[v] = log /\ truth'[v] = history /\ Len(history) \in Nat
    BY <1>1 DEF Scan, TypeOK
  <2>4. vpc'[v] = "scanned" => IsPrefix(log, history)
    <3> SUFFICES ASSUME Linked(log) PROVE IsPrefix(log, history)
      BY <1>1 DEF Scan, TypeOK
    <3>1. \A i \in 1 .. Len(log) : \E j \in 1 .. Len(history) : log[i] = history[j]
      BY DEF Linked, Genuine
    <3> QED
      BY <3>1, ChainIsPrefix DEF ChainWhole, TypeOK
  <2> QED
    BY <1>0, <1>1, <2>1, <2>2, <2>3, <2>4 DEF Scan
<1>2. ASSUME NEW v \in Verifiers, CheckMark(v) PROVE SerialFacts'
  BY <1>0, <1>2 DEF CheckMark, TypeOK
<1>3. CASE Len(history') >= Len(history) /\ UNCHANGED <<vpc, copy, verdict, truth>>
  <2>1. \A v \in Verifiers : Len(truth[v]) \in Nat
    BY DEF TypeOK
  <2>2. Len(history) \in Nat /\ Len(history') \in Nat
    BY TypeNext DEF TypeOK
  <2> QED
    BY <1>0, <1>3, <2>1, <2>2
<1>4. ASSUME NEW c \in Calls, Pipeline(c) PROVE SerialFacts'
  BY <1>3, <1>4 DEF Pipeline, TypeOK
<1>5. CASE Tamper
  BY <1>3, <1>5, TamperEffect DEF TypeOK
<1>6. CASE UNCHANGED <<history, vpc, copy, verdict, truth>>
  BY <1>3, <1>6 DEF TypeOK
<1> QED
  BY <1>1, <1>2, <1>4, <1>5, <1>6
  DEF Next, CallStep, VerifierStep, ReadHead, Incr, Crash, ReadPage, vars

AllSeen ==
    \A v \in Verifiers : verdict[v] = "ok" =>
        /\ IsPrefix(copy[v], truth[v])
        /\ "unmarked" \notin met => copy[v] = truth[v]

\* The watermark a verification compares with counts at least what was appended
\* when it read the list.
LEMMA OkNext ==
    ASSUME TypeOK, SerialFacts, AllSeen, [Next]_vars
    PROVE  AllSeen'
<1> USE DEF AllSeen, keys, writing, reading
<1>1. ASSUME NEW v \in Verifiers, CheckMark(v) PROVE AllSeen'
  <2>1. /\ copy[v] \in Seq(Entry) /\ truth[v] \in Seq(Entry) /\ history \in Seq(Entry)
        /\ mark.n \in Nat
    BY DEF TypeOK
  <2>2. Len(truth[v]) <= Len(history) /\ IsPrefix(copy[v], truth[v])
    BY <1>1 DEF SerialFacts, CheckMark, Verifying
  <2>3. ASSUME Matches(mark, copy[v]), "unmarked" \notin met PROVE copy[v] = truth[v]
    <3>1. Len(history) <= mark.n
      BY <2>3 DEF SerialFacts, CountersCover
    <3>2. mark.n <= Len(copy[v])
      BY <2>1, <2>3 DEF Matches, NoMark
    <3>3. Len(copy[v]) \in Nat /\ Len(truth[v]) \in Nat /\ Len(history) \in Nat
      BY <2>1
    <3>4. Len(truth[v]) <= Len(copy[v])
      BY <2>1, <2>2, <3>1, <3>2, <3>3
    <3> QED
      BY <2>1, <2>2, <3>4, WholePrefix
  <2>4. \A w \in Verifiers : w # v => verdict'[w] = verdict[w]
    BY <1>1 DEF CheckMark, TypeOK
  <2>5. verdict'[v] = "ok" => Matches(mark, copy[v])
    BY <1>1 DEF CheckMark, TypeOK
  <2> QED
    BY <1>1, <2>2, <2>3, <2>4, <2>5 DEF CheckMark
<1>2. ASSUME NEW v \in Verifiers, Scan(v) PROVE AllSeen'
  <2>1. /\ \A w \in Verifiers : w # v => /\ copy'[w] = copy[w] /\ truth'[w] = truth[w]
                                        /\ verdict'[w] = verdict[w]
        /\ verdict'[v] = verdict[v] \/ verdict'[v] = "broken"
    BY <1>2 DEF Scan, TypeOK
  <2>2. verdict[v] = "none"
    BY <1>2 DEF Scan, SerialFacts, TypeOK
  <2> QED
    BY <1>2, <2>1, <2>2, MetGrows DEF Scan
<1>3. CASE UNCHANGED <<copy, truth, verdict>>
  BY <1>3, MetGrows
<1> QED
  BY <1>1, <1>2, <1>3, TamperEffect DEF Next, CallStep, VerifierStep, ReadHead, Incr,
    Pipeline, Crash, ReadPage, vars

\* As long as calls of log_event have not overlapped, verify_chain misses nothing that
\* was done to the list: not when calls die half-way, and not when it overlaps with an
\* append.  With the watermark deleted it may miss a lost end, and nothing else.
THEOREM LossDetected == Spec => [](Genuine /\ SerialInv /\ OkMeansComplete)
<1>1. Init => Genuine /\ SerialInv /\ OkMeansComplete
  BY DEF Init, Genuine, SerialInv, SerialFacts, ChainWhole, Linked, LastHash,
    CountersCover, OkMeansComplete, Appending, Verifying, NoMark
<1>2. TypeOK /\ RecordedOnce /\ Genuine /\ SerialInv /\ OkMeansComplete /\ [Next]_vars
        => Genuine' /\ SerialInv' /\ OkMeansComplete'
  <2> SUFFICES ASSUME TypeOK, RecordedOnce, Genuine, SerialInv, OkMeansComplete,
                      [Next]_vars, "overlap" \notin met'
               PROVE  SerialFacts' /\ AllSeen'
    BY GenuineNext DEF SerialInv, OkMeansComplete, AllSeen
  <2>1. SerialFacts /\ AllSeen
    BY MetGrows DEF SerialInv, OkMeansComplete, AllSeen
  <2>2. Distinct(history)
    <3>1. \A i \in 1 .. Len(history) : history[i] \in Entry
      BY DEF TypeOK
    <3>2. \A i \in 1 .. Len(history) : history[i].id \in Calls
      BY <3>1 DEF Entry
    <3> QED
      BY <3>2 DEF RecordedOnce, Distinct
  <2> QED
    BY <2>1, <2>2, SerialNext, OkNext
<1> QED
  BY <1>1, <1>2, TypeCorrect, EventsFiled, PTL DEF Spec

-------------------------------------------------------------------------------
(* If in addition no call died and verifications were quiet, a verification      *)
(* fails only over a list that was tampered with.                                *)

LEMMA ExactNext ==
    ASSUME TypeOK, ChainWhole, MarkExact, [Next]_vars, met' \subseteq {"unmarked"}
    PROVE  MarkExact'
<1> USE DEF MarkExact, ChainWhole, Appending, keys, writing, reading
<1>0. Len(history) \in Nat /\ seq \in Nat
  BY DEF TypeOK
<1>1. ASSUME NEW c \in Calls, ReadHead(c) PROVE MarkExact'
  BY <1>1 DEF ReadHead, TypeOK
<1>2. ASSUME NEW c \in Calls, Incr(c) PROVE MarkExact'
  <2>1. \A d \in Calls : pc[d] # "pipeline"
    BY <1>2 DEF Incr
  <2>2. seq = Len(history)
    BY <2>1, <1>0
  <2>3. pc'[c] = "pipeline" /\ \A d \in Calls : d # c => pc'[d] = pc[d]
    BY <1>2, ReplyEffect DEF Incr
  <2>4. num'[c] = Len(history) + 1 /\ seq' = Len(history) + 1
    BY <1>2, <2>2 DEF Incr, TypeOK
  <2> QED
    BY <1>2, <2>1, <2>3, <2>4 DEF Incr
<1>3. ASSUME NEW c \in Calls, Pipeline(c) PROVE MarkExact'
  <2>1. num[c] = Len(history) + 1
    BY <1>3 DEF Pipeline
  <2>2. history' # << >> /\ Len(history') = Len(history) + 1 /\ LastHash(history') = c
    BY <1>3 DEF Pipeline, TypeOK, LastHash, Last
  <2>3. mark' = [n |-> Len(history'), last |-> LastHash(history')]
    BY <1>3, <2>1, <2>2 DEF Pipeline, Watermark
  <2>4. \A d \in Calls : pc'[d] \notin {"incr", "pipeline"}
    BY <1>3, ReplyEffect DEF Pipeline
  <2>5. seq' = Len(history')
    BY <1>3, <2>2, <1>0 DEF Pipeline
  <2> QED
    BY <2>3, <2>4, <2>5
<1>4. ASSUME NEW c \in Calls, ReadPage(c) PROVE MarkExact'
  BY <1>4 DEF ReadPage, TypeOK
<1>5. CASE Tamper
  BY <1>5, TamperEffect
<1>6. ASSUME NEW c \in Calls, Crash(c) PROVE FALSE
  BY <1>6 DEF Crash
<1>7. CASE UNCHANGED <<seq, mark, pc, num, history>>
  BY <1>7
<1> QED
  BY <1>1, <1>2, <1>3, <1>4, <1>5, <1>6, <1>7 DEF Next, CallStep, VerifierStep, Scan,
    CheckMark, vars

LEMMA QuietNext ==
    ASSUME TypeOK, QuietFacts, [Next]_vars, met' \subseteq {"unmarked"}
    PROVE  QuietFacts'
<1> USE DEF QuietFacts, Verifying, Appending, keys, writing, reading
<1>0. ChainWhole' /\ MarkExact'
  BY ChainNext, ExactNext
<1>1. ASSUME NEW c \in Calls, ReadHead(c) PROVE QuietFacts'
  BY <1>0, <1>1 DEF ReadHead, Meets, TypeOK
<1>2. ASSUME NEW c \in Calls, Incr(c) PROVE QuietFacts'
  BY <1>0, <1>2 DEF Incr, TypeOK
<1>3. ASSUME NEW c \in Calls, Pipeline(c) PROVE QuietFacts'
  BY <1>0, <1>3 DEF Pipeline
<1>4. ASSUME NEW c \in Calls, ReadPage(c) PROVE QuietFacts'
  BY <1>0, <1>4 DEF ReadPage, TypeOK
<1>5. ASSUME NEW v \in Verifiers, Scan(v) PROVE QuietFacts'
  <2>1. \A w \in Verifiers : w # v => truth'[w] = truth[w] /\ vpc'[w] = vpc[w]
    BY <1>5 DEF Scan, TypeOK
  <2>2. truth'[v] = history /\ UNCHANGED <<pc, history>>
    BY <1>5 DEF Scan, TypeOK
  <2>3. \A c \in Calls : ~(pc[c] \in {"incr", "pipeline"})
    BY <1>5 DEF Scan, Meets
  <2>4. \A w \in Verifiers : verdict'[w] # "none" => vpc'[w] = "done"
    BY <1>5 DEF Scan, TypeOK
  <2> QED
    BY <1>0, <2>1, <2>2, <2>3, <2>4
<1>6. ASSUME NEW v \in Verifiers, CheckMark(v) PROVE QuietFacts'
  BY <1>0, <1>6 DEF CheckMark, TypeOK
<1>7. CASE Tamper
  BY <1>0, <1>7, TamperEffect
<1>8. CASE UNCHANGED vars
  BY <1>0, <1>8 DEF vars
<1> QED
  BY <1>1, <1>2, <1>3, <1>4, <1>5, <1>6, <1>7, <1>8
  DEF Next, CallStep, VerifierStep, Crash

LEMMA AlarmNext ==
    ASSUME TypeOK, QuietFacts, ~FalseAlarm, [Next]_vars
    PROVE  ~FalseAlarm'
<1> USE DEF FalseAlarm, keys, writing, reading
<1>1. ASSUME NEW v \in Verifiers, Scan(v) PROVE ~FalseAlarm'
  <2>1. Linked(history)
    BY DEF QuietFacts, ChainWhole
  <2>2. copy'[v] = log /\ truth'[v] = history
    BY <1>1 DEF Scan, TypeOK
  <2>3. verdict'[v] = "broken" => ~Linked(log) \/ verdict[v] = "broken"
    BY <1>1 DEF Scan, TypeOK
  <2>4. \A w \in Verifiers : w # v =>
          verdict'[w] = verdict[w] /\ copy'[w] = copy[w] /\ truth'[w] = truth[w]
    BY <1>1 DEF Scan, TypeOK
  <2>5. verdict[v] = "none"
    BY <1>1 DEF Scan, QuietFacts, TypeOK
  <2> QED
    BY <2>1, <2>2, <2>3, <2>4, <2>5
<1>2. ASSUME NEW v \in Verifiers, CheckMark(v) PROVE ~FalseAlarm'
  <2>1. copy[v] = truth[v] => Matches(mark, copy[v])
    BY <1>2 DEF CheckMark, QuietFacts, Verifying, MarkExact, Matches
  <2>2. verdict'[v] = "broken" => ~Matches(mark, copy[v])
    BY <1>2 DEF CheckMark, TypeOK
  <2>3. \A w \in Verifiers : w # v => verdict'[w] = verdict[w]
    BY <1>2 DEF CheckMark, TypeOK
  <2> QED
    BY <1>2, <2>1, <2>2, <2>3 DEF CheckMark
<1>3. CASE Tamper
  BY <1>3, TamperEffect
<1> QED
  BY <1>1, <1>2, <1>3 DEF Next, CallStep, VerifierStep, ReadHead, Incr, Pipeline, Crash,
    ReadPage, vars

\* As long as calls have neither overlapped nor died, and verifications came between
\* them: a verification fails only if the list it read is not what was appended.
THEOREM AlarmsAreReal == Spec => [](QuietInv /\ NoFalseAlarm)
<1>1. Init => QuietInv /\ NoFalseAlarm
  BY DEF Init, QuietInv, QuietFacts, ChainWhole, MarkExact, Appending, Verifying, Linked,
    LastHash, NoFalseAlarm, FalseAlarm
<1>2. TypeOK /\ QuietInv /\ NoFalseAlarm /\ [Next]_vars => QuietInv' /\ NoFalseAlarm'
  <2> SUFFICES ASSUME TypeOK, QuietInv, NoFalseAlarm, [Next]_vars,
                      met' \subseteq {"unmarked"}
               PROVE  QuietFacts' /\ ~FalseAlarm'
    BY DEF QuietInv, NoFalseAlarm
  <2>1. met \subseteq {"unmarked"}
    BY MetGrows
  <2>2. QuietFacts /\ ~FalseAlarm
    BY <2>1 DEF QuietInv, NoFalseAlarm
  <2> QED
    BY <2>2, QuietNext, AlarmNext
<1> QED
  BY <1>1, <1>2, TypeCorrect, PTL DEF Spec

-------------------------------------------------------------------------------
(* Pages. *)

\* LRANGE with a negative start returns the last elements, that many at most.
LEMMA TailLength ==
    ASSUME NEW S, NEW s \in Seq(S), NEW k \in Nat \ {0}
    PROVE  Len(LRange(s, -k)) <= k
<1>1. Len(s) \in Nat /\ -k \in Int /\ ~(-k >= 0) /\ Len(s) + (-k) = Len(s) - k
  <2>1. Len(s) \in Nat
    BY LenProperties
  <2> QED
    BY <2>1
<1>2. CASE Len(s) - k >= 0
  <2>1. LRange(s, -k) = SubSeq(s, Len(s) - k + 1, Len(s))
    BY <1>1, <1>2 DEF LRange
  <2>2. Len(SubSeq(s, Len(s) - k + 1, Len(s))) = k
    BY <1>1, <1>2, SubSeqProperties
  <2> QED
    BY <2>1, <2>2
<1>3. CASE ~(Len(s) - k >= 0)
  <2>0. 0 + 1 = 1 /\ ~(Len(s) + (-k) >= 0)
    BY <1>1, <1>3
  <2>1. LRange(s, -k) = SubSeq(s, 1, Len(s))
    BY <1>1, <2>0, Zenon DEF LRange
  <2>2. Len(SubSeq(s, 1, Len(s))) = Len(s)
    <3>1. \A i \in 1 .. Len(s) : s[i] \in S
      OBVIOUS
    <3>2. Len(SubSeq(s, 1, Len(s))) = IF 1 <= Len(s) THEN Len(s) - 1 + 1 ELSE 0
      BY <1>1, <3>1, SubSeqProperties
    <3> QED
      BY <1>1, <3>2
  <2> QED
    BY <1>1, <1>3, <2>1, <2>2
<1> QED
  BY <1>2, <1>3

LEMMA PageNext == TypeOK /\ PageCapped /\ [Next]_vars => PageCapped'
<1> SUFFICES ASSUME TypeOK, PageCapped, [Next]_vars PROVE PageCapped'
  OBVIOUS
<1> USE DEF keys, writing, reading
<1>1. ASSUME NEW c \in Calls, ReadPage(c) PROVE PageCapped'
  <2>1. PICK limit \in Limits :
          page' = [page EXCEPT ![c] = [limit |-> limit, entries |-> get_logs(log, limit)]]
    BY <1>1 DEF ReadPage
  <2> DEFINE k == IF limit <= PageCap THEN limit ELSE PageCap
  <2>2. page'[c].limit = limit /\ page'[c].entries = LRange(log, -k)
    BY <2>1 DEF TypeOK, get_logs
  <2>3. \A d \in Calls : d # c => page'[d] = page[d]
    BY <2>1 DEF TypeOK
  <2>4. limit > 0 => k \in Nat \ {0} /\ k <= PageCap /\ k <= limit
    OBVIOUS
  <2>5. limit > 0 => Len(LRange(log, -k)) <= k /\ Len(LRange(log, -k)) \in Nat
    <3>1. get_logs(log, limit) \in Seq(Entry)
      BY PageType DEF TypeOK
    <3>2. Len(LRange(log, -k)) \in Nat
      BY <3>1 DEF get_logs
    <3> QED
      BY <2>4, <3>2, TailLength DEF TypeOK
  <2>6. limit > 0 => Len(page'[c].entries) <= PageCap /\ Len(page'[c].entries) <= limit
    <3> HIDE DEF k
    <3> QED
      BY <2>2, <2>4, <2>5
  <2> QED
    BY <2>2, <2>3, <2>6 DEF PageCapped
<1>2. CASE UNCHANGED page
  BY <1>2 DEF PageCapped
<1> QED
  BY <1>1, <1>2, TamperEffect DEF Next, CallStep, VerifierStep, ReadHead, Incr, Pipeline,
    Crash, Scan, CheckMark, vars

\* A page has no more entries than the cap and the limit asked for, whatever the log
\* has grown to, as long as that limit is positive.
THEOREM PagesCapped == Spec => []PageCapped
<1>1. Init => PageCapped
  BY DEF Init, PageCapped, NoPage
<1> QED
  BY <1>1, PageNext, TypeCorrect, PTL DEF Spec
===============================================================================
