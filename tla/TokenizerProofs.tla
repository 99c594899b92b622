---------------------------- MODULE TokenizerProofs ----------------------------
(***************************************************************************)
(* What the browser's tokenizer computes, for any texts, patterns and      *)
(* vaults.                                                                 *)
(*                                                                         *)
(* Its loops are folds, which are functions on the sets of positions.      *)
(* What a fold computes is shown by induction, and induction from the      *)
(* library's facts about well-founded relations: a set of numbers with 0   *)
(* in it that is closed under successor has them all.                      *)
(***************************************************************************)
EXTENDS LandingPage, WellFoundedInduction, SequenceTheorems, TLAPS

-------------------------------------------------------------------------------
(* Induction. *)

\* A set of numbers has a least one.
LEMMA NatMin ==
    ASSUME NEW T \in SUBSET Nat, T # {}
    PROVE  \E n \in T : \A m \in T : n <= m
<1> DEFINE R == OpToRel(<, Nat)
<1>1. IsWellFoundedOn(R, Nat)
  BY NatLessThanWellFounded
<1>2. PICK x \in T : \A y \in T : <<y, x>> \notin R
  <2> HIDE DEF R
  <2> QED
    BY <1>1, WFMin
<1>3. \A y \in T : y < x => <<y, x>> \in R
  BY DEF OpToRel
<1>4. \A y \in T : ~(y < x) /\ x \in Nat /\ y \in Nat
  BY <1>2, <1>3
<1> HIDE DEF R
<1> QED
  BY <1>4

\* The numbers up to n, one after the other.
LEMMA Induction ==
    ASSUME NEW n \in Nat, NEW S, 0 \in S, \A i \in 0 .. n - 1 : i \in S => i + 1 \in S
    PROVE  \A i \in 0 .. n : i \in S
<1> SUFFICES ASSUME (0 .. n) \ S # {} PROVE FALSE
  OBVIOUS
<1>1. (0 .. n) \ S \in SUBSET Nat
  OBVIOUS
<1>2. PICK i \in (0 .. n) \ S : \A j \in (0 .. n) \ S : i <= j
  BY <1>1, NatMin
<1>3. i # 0 /\ i - 1 \in 0 .. n - 1 /\ (i - 1) + 1 = i
  BY <1>2
<1>4. i - 1 \in S
  BY <1>2, <1>3
<1> QED
  BY <1>2, <1>3, <1>4

LEMMA MaxIn ==
    ASSUME NEW n \in Nat, NEW s \in SUBSET (1 .. n), s # {}
    PROVE  Max(s) \in s /\ \A x \in s : x <= Max(s)
<1> DEFINE T == {n - x : x \in s}
<1>1. \A x \in s : x \in Nat /\ x <= n
  OBVIOUS
<1>2. T \in SUBSET Nat /\ T # {}
  <2>1. \A x \in s : n - x \in Nat
    BY <1>1
  <2>2. PICK z \in s : TRUE
    OBVIOUS
  <2>3. n - z \in T
    OBVIOUS
  <2> QED
    BY <2>1, <2>3
<1>3. PICK d \in T : \A m \in T : d <= m
  BY <1>2, NatMin
<1>4. PICK y \in s : d = n - y
  OBVIOUS
<1>5. \A x \in s : y >= x
  BY <1>1, <1>3, <1>4
<1> QED
  BY <1>1, <1>5 DEF Max

-------------------------------------------------------------------------------
(* Folds. *)

\* The function on the sets of positions that a fold unfolds to.
Unfolds(h, n, base, g, seq) ==
    \A s \in SUBSET (1 .. n) :
        h[s] = IF s = {} THEN base ELSE g[<<h[s \ {Max(s)}], seq[Max(s)]>>]

LEMMA FoldExists ==
    ASSUME NEW V, NEW E, NEW base \in V, NEW n \in Nat, NEW seq, \A i \in 1 .. n : seq[i] \in E,
           NEW g \in [V \X E -> V]
    PROVE  \E h \in [SUBSET (1 .. n) -> V] : Unfolds(h, n, base, g, seq)
<1> DEFINE Has(k) == \E h \in [SUBSET (1 .. k) -> V] : Unfolds(h, k, base, g, seq)
           S == {k \in Nat : Has(k)}
<1>1. Has(0)
  <2> DEFINE h == [s \in SUBSET (1 .. 0) |-> base]
  <2>1. \A s \in SUBSET (1 .. 0) : s = {} /\ h[s] = base
    OBVIOUS
  <2>2. h \in [SUBSET (1 .. 0) -> V]
    OBVIOUS
  <2> HIDE DEF h
  <2>3. Unfolds(h, 0, base, g, seq)
    BY <2>1 DEF Unfolds
  <2> QED
    BY <2>2, <2>3
<1>2. ASSUME NEW k \in 0 .. n - 1, Has(k) PROVE Has(k + 1)
  <2>1. PICK h \in [SUBSET (1 .. k) -> V] : Unfolds(h, k, base, g, seq)
    BY <1>2
  <2> DEFINE hh == [s \in SUBSET (1 .. k + 1) |->
                       IF k + 1 \in s THEN g[<<h[s \ {k + 1}], seq[k + 1]>>] ELSE h[s]]
  <2>2. \A s \in SUBSET (1 .. k + 1) : k + 1 \notin s => s \in SUBSET (1 .. k)
    OBVIOUS
  <2>3. \A s \in SUBSET (1 .. k + 1) : s \ {k + 1} \in SUBSET (1 .. k)
    OBVIOUS
  <2>4. seq[k + 1] \in E
    OBVIOUS
  <2>5. hh \in [SUBSET (1 .. k + 1) -> V]
    <3> SUFFICES ASSUME NEW s \in SUBSET (1 .. k + 1) PROVE hh[s] \in V
      OBVIOUS
    <3>1. CASE k + 1 \in s
      <4>1. <<h[s \ {k + 1}], seq[k + 1]>> \in V \X E
        BY <2>3, <2>4
      <4> QED
        BY <3>1, <4>1
    <3>2. CASE k + 1 \notin s
      BY <3>2, <2>2
    <3> QED
      BY <3>1, <3>2
  <2>6. ASSUME NEW s \in SUBSET (1 .. k + 1)
        PROVE  hh[s] = IF s = {} THEN base ELSE g[<<hh[s \ {Max(s)}], seq[Max(s)]>>]
    <3>1. CASE k + 1 \in s
      <4>1. Max(s) = k + 1
        <5>1. k + 1 \in Nat /\ s # {}
          BY <3>1
        <5>2. Max(s) \in s /\ \A x \in s : x <= Max(s)
          BY <5>1, MaxIn
        <5>3. Max(s) \in 1 .. k + 1 /\ k + 1 <= Max(s)
          BY <3>1, <5>2
        <5> QED
          BY <5>3
      <4>2. s \ {k + 1} \in SUBSET (1 .. k + 1) /\ hh[s \ {k + 1}] = h[s \ {k + 1}]
        BY <2>3
      <4> QED
        BY <3>1, <4>1, <4>2
    <3>2. CASE k + 1 \notin s
      <4>1. s \in SUBSET (1 .. k) /\ s \ {Max(s)} \in SUBSET (1 .. k)
        BY <3>2, <2>2
      <4>2. hh[s] = h[s] /\ hh[s \ {Max(s)}] = h[s \ {Max(s)}]
        BY <3>2, <4>1
      <4> HIDE DEF hh
      <4> QED
        BY <4>1, <4>2, <2>1 DEF Unfolds
    <3> QED
      BY <3>1, <3>2
  <2> HIDE DEF hh
  <2>7. Unfolds(hh, k + 1, base, g, seq)
    BY <2>6 DEF Unfolds
  <2> QED
    BY <2>5, <2>7
<1> HIDE DEF Has
<1>3. 0 \in S /\ \A k \in 0 .. n - 1 : k \in S => k + 1 \in S
  BY <1>1, <1>2
<1>4. \A k \in 0 .. n : k \in S
  <2> HIDE DEF S
  <2> QED
    BY <1>3, Induction
<1>5. Has(n)
  BY <1>4
<1> QED
  BY <1>5 DEF Has

\* The intervals a fold goes through.
LEMMA Upto ==
    ASSUME NEW n \in Nat, NEW i \in 1 .. n
    PROVE  /\ 1 .. i \in SUBSET (1 .. n) /\ 1 .. i # {}
           /\ Max(1 .. i) = i /\ (1 .. i) \ {i} = 1 .. i - 1
<1>1. 1 .. i \in SUBSET (1 .. n) /\ i \in 1 .. i /\ (1 .. i) \ {i} = 1 .. i - 1
  OBVIOUS
<1>2. Max(1 .. i) \in 1 .. i /\ \A x \in 1 .. i : x <= Max(1 .. i)
  BY <1>1, MaxIn
<1>3. Max(1 .. i) \in Nat /\ Max(1 .. i) <= i /\ i <= Max(1 .. i)
  BY <1>1, <1>2
<1> QED
  BY <1>1, <1>3

\* Every step of such a function takes elements of the two types.
Unrolls(h, n, V, E, base, g, seq) ==
    /\ h \in [SUBSET (1 .. n) -> V] /\ h[{}] = base
    /\ \A s \in SUBSET (1 .. n) : s # {} =>
           /\ h[s \ {Max(s)}] \in V /\ seq[Max(s)] \in E
           /\ h[s] = g[<<h[s \ {Max(s)}], seq[Max(s)]>>]

LEMMA Unrolled ==
    ASSUME NEW V, NEW E, NEW base \in V, NEW n \in Nat, NEW seq, \A i \in 1 .. n : seq[i] \in E,
           NEW g \in [V \X E -> V]
    PROVE  \E h : Unrolls(h, n, V, E, base, g, seq)
<1>1. PICK h \in [SUBSET (1 .. n) -> V] : Unfolds(h, n, base, g, seq)
  BY FoldExists
<1>2. ASSUME NEW s \in SUBSET (1 .. n), s # {}
      PROVE  /\ h[s \ {Max(s)}] \in V /\ seq[Max(s)] \in E
             /\ h[s] = g[<<h[s \ {Max(s)}], seq[Max(s)]>>]
  <2>1. Max(s) \in 1 .. n
    BY <1>2, MaxIn
  <2> QED
    BY <1>1, <1>2, <2>1 DEF Unfolds
<1>3. h[{}] = base
  BY <1>1 DEF Unfolds
<1> QED
  BY <1>2, <1>3 DEF Unrolls

\* A fold, element after element.
FoldTrace(f, h, n, V, E, base, g, seq) ==
    /\ f \in [0 .. n -> V] /\ f[0] = base /\ f[n] = h[1 .. n]
    /\ \A i \in 1 .. n : f[i - 1] \in V /\ seq[i] \in E /\ f[i] = g[<<f[i - 1], seq[i]>>]

LEMMA Traced ==
    ASSUME NEW V, NEW E, NEW base \in V, NEW n \in Nat, NEW seq, \A i \in 1 .. n : seq[i] \in E,
           NEW g \in [V \X E -> V], NEW h, h[{}] = base,
           \A i \in 1 .. n : h[1 .. i - 1] \in V => h[1 .. i] = g[<<h[1 .. i - 1], seq[i]>>]
    PROVE  \E f : FoldTrace(f, h, n, V, E, base, g, seq)
<1> DEFINE S == {i \in Nat : h[1 .. i] \in V}
           f == [i \in 0 .. n |-> h[1 .. i]]
<1>1. 1 .. 0 = {}
  OBVIOUS
<1>2. 0 \in S
  BY <1>1
<1>3. \A k \in 0 .. n - 1 : k \in S => k + 1 \in S
  <2> SUFFICES ASSUME NEW k \in 0 .. n - 1, h[1 .. k] \in V PROVE h[1 .. k + 1] \in V
    OBVIOUS
  <2>1. k + 1 \in 1 .. n /\ (k + 1) - 1 = k
    OBVIOUS
  <2>2. h[1 .. k + 1] = g[<<h[1 .. k], seq[k + 1]>>] /\ seq[k + 1] \in E
    BY <2>1
  <2> QED
    BY <2>2
<1> HIDE DEF S
<1>4. \A i \in 0 .. n : i \in S
  BY <1>2, <1>3, Induction
<1>5. \A i \in 0 .. n : h[1 .. i] \in V
  BY <1>4 DEF S
<1>6. f \in [0 .. n -> V] /\ f[0] = base /\ f[n] = h[1 .. n]
  BY <1>1, <1>5
<1>7. \A i \in 1 .. n : f[i - 1] \in V /\ f[i] = g[<<f[i - 1], seq[i]>>]
  BY <1>5
<1> HIDE DEF f
<1> QED
  BY <1>6, <1>7 DEF FoldTrace

-------------------------------------------------------------------------------
(* A pattern's matches. *)

Spans(type, text) ==
    UNION {{Span(type, text, i, j) : j \in DOMAIN text} : i \in DOMAIN text}

LEMMA SpanIs ==
    ASSUME NEW type, NEW text \in Text, NEW i \in DOMAIN text, NEW j \in DOMAIN text
    PROVE  /\ Span(type, text, i, j) \in Spans(type, text)
           /\ Span(type, text, i, j).type = type
           /\ Span(type, text, i, j).original = SubSeq(text, i, j)
           /\ Span(type, text, i, j).start = i
           /\ Span(type, text, i, j).end = j
<1>1. Span(type, text, i, j) \in Spans(type, text)
  BY DEF Spans
<1> QED
  BY <1>1 DEF Span

\* The last position at which a match from i can end.
LEMMA EndsMax ==
    ASSUME NEW text \in Text, NEW language, NEW i \in DOMAIN text,
           NEW ends, ends = {j \in i .. Len(text) : SubSeq(text, i, j) \in language}, ends # {}
    PROVE  /\ Max(ends) \in DOMAIN text /\ i <= Max(ends)
           /\ SubSeq(text, i, Max(ends)) \in language
           /\ \A j \in ends : j <= Max(ends)
<1>1. Len(text) \in Nat /\ DOMAIN text = 1 .. Len(text)
  BY DEF Text
<1>2. ends \in SUBSET (1 .. Len(text))
  BY <1>1
<1>3. Max(ends) \in ends /\ \A j \in ends : j <= Max(ends)
  BY <1>1, <1>2, MaxIn
<1> QED
  BY <1>1, <1>3

LEMMA ScanAtTyped ==
    ASSUME NEW type, NEW language, NEW text \in Text, NEW i \in DOMAIN text,
           NEW found \in SUBSET Spans(type, text)
    PROVE  ScanAt(type, language, text, found, i) \in SUBSET Spans(type, text)
<1> DEFINE ends == {j \in i .. Len(text) : SubSeq(text, i, j) \in language}
<1>1. CASE ends = {} \/ \E m \in found : i <= m.end
  BY <1>1 DEF ScanAt
<1>2. CASE ends # {} /\ ~\E m \in found : i <= m.end
  <2>1. Max(ends) \in DOMAIN text
    BY <1>2, EndsMax
  <2>2. Span(type, text, i, Max(ends)) \in Spans(type, text)
    BY <2>1, SpanIs
  <2> QED
    BY <1>2, <2>2 DEF ScanAt
<1> QED
  BY <1>1, <1>2

\* The scan, position after position.
ScanTrace(f, type, language, text) ==
    /\ f \in [0 .. Len(text) -> SUBSET Spans(type, text)]
    /\ f[0] = {} /\ f[Len(text)] = Scan(type, language, text)
    /\ \A i \in 1 .. Len(text) : f[i] = ScanAt(type, language, text, f[i - 1], i)

LEMMA ScanSteps ==
    ASSUME NEW type, NEW language, NEW text \in Text
    PROVE  \E f : ScanTrace(f, type, language, text)
<1> DEFINE n == Len(text)
           E == DOMAIN text
           V == SUBSET Spans(type, text)
           seq == [i \in DOMAIN text |-> i]
           Op(v, e) == ScanAt(type, language, text, v, e)
           base == {}
           g == [p \in V \X E |-> Op(p[1], p[2])]
           Rec(h) == h = [s \in SUBSET DOMAIN seq |->
                             IF s = {} THEN base ELSE Op(h[s \ {Max(s)}], seq[Max(s)])]
<1>1. n \in Nat /\ DOMAIN seq = 1 .. n /\ \A i \in 1 .. n : seq[i] \in E
  BY DEF Text
<1>2. \A v \in V, e \in E : Op(v, e) \in V
  BY ScanAtTyped
<1>3. base \in V
  OBVIOUS
<1> HIDE DEF n, E, V, seq, Op, base
<1>4. g \in [V \X E -> V] /\ \A v \in V, e \in E : g[<<v, e>>] = Op(v, e)
  BY <1>2
<1> HIDE DEF g
<1>5. \E h : Rec(h)
  <2>1. PICK h : Unrolls(h, n, V, E, base, g, seq)
    BY <1>1, <1>3, <1>4, Unrolled
  <2>2. \A s \in SUBSET (1 .. n) :
            h[s] = IF s = {} THEN base ELSE Op(h[s \ {Max(s)}], seq[Max(s)])
    BY <1>4, <2>1 DEF Unrolls
  <2>3. Rec(h)
    BY <1>1, <2>1, <2>2 DEF Unrolls
  <2> QED
    BY <2>3
<1>6. PICK h : Rec(h) /\ Scan(type, language, text) = h[DOMAIN seq]
  <2>1. Scan(type, language, text) = (CHOOSE h : Rec(h))[DOMAIN seq]
    BY DEF Scan, FoldLeftDomain, FoldLeft, MapThenFoldSet, Op, seq, base
  <2> QED
    BY <2>1, <1>5
<1>7. h[{}] = base
  BY <1>1, <1>6
<1>8. ASSUME NEW i \in 1 .. n PROVE h[1 .. i] = Op(h[1 .. i - 1], seq[i])
  <2>1. /\ 1 .. i \in SUBSET DOMAIN seq /\ 1 .. i # {}
        /\ Max(1 .. i) = i /\ (1 .. i) \ {i} = 1 .. i - 1
    BY <1>1, Upto
  <2>2. h[1 .. i] = Op(h[(1 .. i) \ {Max(1 .. i)}], seq[Max(1 .. i)])
    BY <1>6, <2>1
  <2> QED
    BY <1>1, <2>1, <2>2
<1>9. \A i \in 1 .. n : h[1 .. i - 1] \in V => h[1 .. i] = g[<<h[1 .. i - 1], seq[i]>>]
  BY <1>1, <1>4, <1>8
<1>10. PICK f : FoldTrace(f, h, n, V, E, base, g, seq)
  BY <1>1, <1>3, <1>4, <1>7, <1>9, Traced
<1>11. /\ f \in [0 .. n -> V] /\ f[0] = base /\ f[n] = Scan(type, language, text)
       /\ \A i \in 1 .. n : f[i] = Op(f[i - 1], seq[i])
  BY <1>1, <1>4, <1>6, <1>10 DEF FoldTrace
<1> QED
  BY <1>1, <1>11 DEF n, V, base, seq, Op, ScanTrace

\* What the scan has found, up to i: matches that lie beside one another, one over the
\* beginning of whatever the pattern matches.
FoundUpTo(type, language, text, found, i) ==
    /\ \A m \in found : /\ m \in Spans(type, text) /\ m.type = type
                        /\ m.start \in 1 .. i /\ m.end \in m.start .. Len(text)
                        /\ m.original = SubSeq(text, m.start, m.end) /\ m.original \in language
    /\ \A m, other \in found : Overlaps(m, other) => m = other
    /\ \A p \in 1 .. i : \A q \in p .. Len(text) :
           SubSeq(text, p, q) \in language => \E m \in found : m.start <= p /\ p <= m.end

LEMMA FoundAt ==
    ASSUME NEW type, NEW language, NEW text \in Text, NEW i \in 1 .. Len(text),
           NEW found, FoundUpTo(type, language, text, found, i - 1)
    PROVE  FoundUpTo(type, language, text, ScanAt(type, language, text, found, i), i)
<1> DEFINE n == Len(text)
           ends == {j \in i .. n : SubSeq(text, i, j) \in language}
           found2 == ScanAt(type, language, text, found, i)
<1>1. n \in Nat /\ DOMAIN text = 1 .. n
  BY DEF Text
<1>2. \A m \in found : /\ m \in Spans(type, text) /\ m.type = type
                       /\ m.start \in 1 .. i - 1 /\ m.end \in m.start .. n
                       /\ m.original = SubSeq(text, m.start, m.end) /\ m.original \in language
  BY DEF FoundUpTo
<1>3. \A m, other \in found : Overlaps(m, other) => m = other
  BY DEF FoundUpTo
<1>4. \A p \in 1 .. i - 1 : \A q \in p .. n :
          SubSeq(text, p, q) \in language => \E m \in found : m.start <= p /\ p <= m.end
  BY DEF FoundUpTo
<1>5. CASE ends = {} \/ \E m \in found : i <= m.end
  <2>1. found2 = found
    BY <1>5 DEF ScanAt
  <2>2. \A m \in found : m.start \in 1 .. i
    BY <1>2
  <2>3. ASSUME NEW p \in 1 .. i, NEW q \in p .. n, SubSeq(text, p, q) \in language
        PROVE  \E m \in found : m.start <= p /\ p <= m.end
    <3>1. CASE p = i
      <4>1. q \in ends
        BY <2>3, <3>1
      <4>2. PICK m \in found : i <= m.end
        BY <4>1, <1>5
      <4>3. m.start <= i
        BY <1>2
      <4> QED
        BY <3>1, <4>2, <4>3
    <3>2. CASE p # i
      <4>1. p \in 1 .. i - 1
        BY <3>2
      <4> QED
        BY <4>1, <2>3, <1>4
    <3> QED
      BY <3>1, <3>2
  <2> QED
    BY <2>1, <2>2, <2>3, <1>2, <1>3 DEF FoundUpTo
<1>6. CASE ends # {} /\ ~\E m \in found : i <= m.end
  <2> DEFINE last == Max(ends)
             new == Span(type, text, i, last)
  <2>1. found2 = found \cup {new}
    BY <1>6 DEF ScanAt
  <2>2. last \in DOMAIN text /\ i <= last /\ SubSeq(text, i, last) \in language
    <3>1. i \in DOMAIN text
      BY <1>1
    <3>2. ends = {j \in i .. Len(text) : SubSeq(text, i, j) \in language} /\ ends # {}
      BY <1>6
    <3> HIDE DEF ends
    <3> QED
      BY <3>1, <3>2, EndsMax, Zenon
  <2> HIDE DEF last
  <2>3. /\ new \in Spans(type, text) /\ new.type = type
        /\ new.original = SubSeq(text, i, last) /\ new.start = i /\ new.end = last
    <3>1. i \in DOMAIN text
      BY <1>1
    <3>2. new \in Spans(type, text)
      BY <3>1, <2>2, SpanIs
    <3> QED
      BY <3>2 DEF Span
  <2> HIDE DEF new
  <2>4. ASSUME NEW m \in found2
        PROVE  /\ m \in Spans(type, text) /\ m.type = type
               /\ m.start \in 1 .. i /\ m.end \in m.start .. n
               /\ m.original = SubSeq(text, m.start, m.end) /\ m.original \in language
    <3>1. CASE m \in found
      BY <1>2, <3>1
    <3>2. CASE m = new
      <4>1. /\ m \in Spans(type, text) /\ m.type = type /\ m.original = SubSeq(text, i, last)
            /\ m.start = i /\ m.end = last
        BY <2>3, <3>2
      <4>2. m.start \in 1 .. i /\ m.end \in m.start .. n
        BY <4>1, <1>1, <2>2
      <4> QED
        BY <4>1, <4>2, <2>2
    <3> QED
      BY <2>1, <2>4, <3>1, <3>2
  <2>5. \A m \in found : m.start \in Nat /\ m.end \in Nat /\ m.end < i
    BY <1>1, <1>2, <1>6
  <2>6. \A m \in found : ~Overlaps(m, new) /\ ~Overlaps(new, m)
    BY <2>3, <2>5, <1>1 DEF Overlaps
  <2>7. \A m, other \in found2 : Overlaps(m, other) => m = other
    BY <1>3, <2>1, <2>6
  <2>8. ASSUME NEW p \in 1 .. i, NEW q \in p .. n, SubSeq(text, p, q) \in language
        PROVE  \E m \in found2 : m.start <= p /\ p <= m.end
    <3>1. CASE p = i
      BY <2>1, <2>2, <2>3, <3>1
    <3>2. CASE p # i
      <4>1. p \in 1 .. i - 1
        BY <3>2
      <4> QED
        BY <4>1, <2>8, <1>4, <2>1
    <3> QED
      BY <3>1, <3>2
  <2> HIDE DEF found2
  <2>9. FoundUpTo(type, language, text, found2, i)
    BY <2>4, <2>7, <2>8 DEF FoundUpTo
  <2> QED
    BY <2>9 DEF found2
<1> QED
  BY <1>5, <1>6

\* A pattern's matches do not overlap, and wherever the pattern matches, one of them lies
\* over the first fragment.
LEMMA ScanFinds ==
    ASSUME NEW type, NEW language, NEW text \in Text
    PROVE  FoundUpTo(type, language, text, Scan(type, language, text), Len(text))
<1> DEFINE n == Len(text)
<1>1. n \in Nat
  BY DEF Text
<1>2. PICK f : ScanTrace(f, type, language, text)
  BY ScanSteps
<1> DEFINE S == {i \in Nat : FoundUpTo(type, language, text, f[i], i)}
<1>3. 0 \in S
  BY <1>2 DEF FoundUpTo, ScanTrace
<1>4. \A i \in 0 .. n - 1 : i \in S => i + 1 \in S
  <2> SUFFICES ASSUME NEW i \in 0 .. n - 1, FoundUpTo(type, language, text, f[i], i)
               PROVE  FoundUpTo(type, language, text, f[i + 1], i + 1)
    OBVIOUS
  <2>1. i + 1 \in 1 .. n /\ (i + 1) - 1 = i
    BY <1>1
  <2>2. f[i + 1] = ScanAt(type, language, text, f[i], i + 1)
    BY <1>2, <2>1 DEF ScanTrace
  <2> QED
    BY <2>1, <2>2, FoundAt
<1>5. \A i \in 0 .. n : i \in S
  <2> HIDE DEF S
  <2> QED
    BY <1>1, <1>3, <1>4, Induction
<1> QED
  BY <1>1, <1>2, <1>5 DEF ScanTrace

-------------------------------------------------------------------------------
(* The matches of a text. *)

AllSpans(text) == UNION {Spans(type, text) : type \in EntityTypes}
Found(type, text) == Scan(type, Language(type), text)

LEMMA PatternsIs ==
    /\ Len(PATTERNS) = 8 /\ DOMAIN PATTERNS = 1 .. 8
    /\ \A i \in 1 .. 8 : PATTERNS[i] \in EntityTypes
    /\ \A type \in EntityTypes : \E i \in 1 .. 8 : PATTERNS[i] = type
    /\ \A i, j \in 1 .. 8 : PATTERNS[i] = PATTERNS[j] => i = j
<1>1. Len(PATTERNS) = 8 /\ DOMAIN PATTERNS = 1 .. 8
  BY DEF PATTERNS
<1>2. \A i \in 1 .. 8 : PATTERNS[i] \in EntityTypes
  BY <1>1 DEF EntityTypes, Range
<1>3. \A type \in EntityTypes : \E i \in 1 .. 8 : PATTERNS[i] = type
  BY <1>1 DEF EntityTypes, Range
<1>4. \A i, j \in 1 .. 8 : PATTERNS[i] = PATTERNS[j] => i = j
  BY DEF PATTERNS
<1> QED
  BY <1>1, <1>2, <1>3, <1>4

LEMMA ClaimTyped ==
    ASSUME NEW text \in Text, NEW claimed \in SUBSET AllSpans(text), NEW type \in EntityTypes
    PROVE  Claim(claimed, Found(type, text)) \in SUBSET AllSpans(text)
<1>1. FoundUpTo(type, Language(type), text, Found(type, text), Len(text))
  BY ScanFinds DEF Found
<1>2. \A m \in Found(type, text) : m \in AllSpans(text)
  BY <1>1 DEF FoundUpTo, AllSpans
<1> QED
  BY <1>2 DEF Claim

\* The patterns' claims, one pattern after the other.
RawTrace(f, text) ==
    /\ f \in [0 .. Len(PATTERNS) -> SUBSET AllSpans(text)]
    /\ f[0] = {} /\ f[Len(PATTERNS)] = RawMatches(text)
    /\ \A i \in 1 .. Len(PATTERNS) : f[i] = Claim(f[i - 1], Found(PATTERNS[i], text))

LEMMA RawSteps ==
    ASSUME NEW text \in Text
    PROVE  \E f : RawTrace(f, text)
<1> DEFINE n == Len(PATTERNS)
           E == EntityTypes
           V == SUBSET AllSpans(text)
           seq == PATTERNS
           Op(v, e) == Claim(v, Found(e, text))
           base == {}
           g == [p \in V \X E |-> Op(p[1], p[2])]
           Rec(h) == h = [s \in SUBSET DOMAIN seq |->
                             IF s = {} THEN base ELSE Op(h[s \ {Max(s)}], seq[Max(s)])]
<1>1. n \in Nat /\ DOMAIN seq = 1 .. n /\ \A i \in 1 .. n : seq[i] \in E
  BY PatternsIs
<1>2. \A v \in V, e \in E : Op(v, e) \in V
  BY ClaimTyped
<1>3. base \in V
  OBVIOUS
<1> HIDE DEF n, E, V, seq, Op, base
<1>4. g \in [V \X E -> V] /\ \A v \in V, e \in E : g[<<v, e>>] = Op(v, e)
  BY <1>2
<1> HIDE DEF g
<1>5. \E h : Rec(h)
  <2>1. PICK h : Unrolls(h, n, V, E, base, g, seq)
    BY <1>1, <1>3, <1>4, Unrolled
  <2>2. \A s \in SUBSET (1 .. n) :
            h[s] = IF s = {} THEN base ELSE Op(h[s \ {Max(s)}], seq[Max(s)])
    BY <1>4, <2>1 DEF Unrolls
  <2>3. Rec(h)
    BY <1>1, <2>1, <2>2 DEF Unrolls
  <2> QED
    BY <2>3
<1>6. PICK h : Rec(h) /\ RawMatches(text) = h[DOMAIN seq]
  <2>1. RawMatches(text) = (CHOOSE h : Rec(h))[DOMAIN seq]
    BY DEF RawMatches, Found, FoldLeft, MapThenFoldSet, Op, seq, base
  <2> QED
    BY <2>1, <1>5
<1>7. h[{}] = base
  BY <1>1, <1>6
<1>8. ASSUME NEW i \in 1 .. n PROVE h[1 .. i] = Op(h[1 .. i - 1], seq[i])
  <2>1. /\ 1 .. i \in SUBSET DOMAIN seq /\ 1 .. i # {}
        /\ Max(1 .. i) = i /\ (1 .. i) \ {i} = 1 .. i - 1
    BY <1>1, Upto
  <2>2. h[1 .. i] = Op(h[(1 .. i) \ {Max(1 .. i)}], seq[Max(1 .. i)])
    BY <1>6, <2>1
  <2> QED
    BY <1>1, <2>1, <2>2
<1>9. \A i \in 1 .. n : h[1 .. i - 1] \in V => h[1 .. i] = g[<<h[1 .. i - 1], seq[i]>>]
  BY <1>1, <1>4, <1>8
<1>10. PICK f : FoldTrace(f, h, n, V, E, base, g, seq)
  BY <1>1, <1>3, <1>4, <1>7, <1>9, Traced
<1>11. /\ f \in [0 .. n -> V] /\ f[0] = base /\ f[n] = RawMatches(text)
       /\ \A i \in 1 .. n : f[i] = Op(f[i - 1], seq[i])
  BY <1>1, <1>4, <1>6, <1>10 DEF FoldTrace
<1> QED
  BY <1>1, <1>11 DEF n, V, base, seq, Op, RawTrace

\* What the first k patterns have claimed: matches that do not overlap, of which every
\* other match is no name or overlaps one of another pattern.
ClaimedUpTo(text, claimed, k) ==
    /\ \A m \in claimed : m.type \in EntityTypes /\ m \in Found(m.type, text)
                         /\ \E i \in 1 .. k : m.type = PATTERNS[i]
    /\ \A m, other \in claimed : Overlaps(m, other) => m = other
    /\ \A i \in 1 .. k : \A m \in Found(PATTERNS[i], text) :
           \/ m \in claimed \/ NoName(m)
           \/ \E other \in claimed : other.type # m.type /\ Overlaps(m, other)

LEMMA OverlapsBack == \A m, other : Overlaps(m, other) <=> Overlaps(other, m)
BY DEF Overlaps

LEMMA ClaimedNext ==
    ASSUME NEW text \in Text, NEW k \in 1 .. 8, NEW claimed, ClaimedUpTo(text, claimed, k - 1)
    PROVE  ClaimedUpTo(text, Claim(claimed, Found(PATTERNS[k], text)), k)
<1> DEFINE type == PATTERNS[k]
           found == Found(type, text)
           new == {m \in found : ~NoName(m) /\ \A other \in claimed : ~Overlaps(m, other)}
           claimed2 == Claim(claimed, found)
<1>1. claimed2 = claimed \cup new
  BY DEF Claim
<1>2. type \in EntityTypes
  BY PatternsIs
<1>3. FoundUpTo(type, Language(type), text, found, Len(text))
  BY ScanFinds DEF Found
<1>4. \A m \in found : m.type = type
  BY <1>3 DEF FoundUpTo
<1>5. \A m, other \in found : Overlaps(m, other) => m = other
  BY <1>3 DEF FoundUpTo
<1>6. \A m \in claimed : m.type \in EntityTypes /\ m \in Found(m.type, text)
                        /\ \E i \in 1 .. k - 1 : m.type = PATTERNS[i]
  BY DEF ClaimedUpTo
<1>7. \A m, other \in claimed : Overlaps(m, other) => m = other
  BY DEF ClaimedUpTo
<1>8. \A i \in 1 .. k - 1 : \A m \in Found(PATTERNS[i], text) :
           \/ m \in claimed \/ NoName(m)
           \/ \E other \in claimed : other.type # m.type /\ Overlaps(m, other)
  BY DEF ClaimedUpTo
<1>9. \A m \in claimed : m.type # type
  <2> SUFFICES ASSUME NEW m \in claimed PROVE m.type # type
    OBVIOUS
  <2>1. PICK i \in 1 .. k - 1 : m.type = PATTERNS[i]
    BY <1>6
  <2>2. i \in 1 .. 8 /\ i # k
    OBVIOUS
  <2> QED
    BY <2>1, <2>2, PatternsIs
<1> HIDE DEF type, found, claimed2
<1>10. ASSUME NEW m \in claimed2
       PROVE  m.type \in EntityTypes /\ m \in Found(m.type, text)
              /\ \E i \in 1 .. k : m.type = PATTERNS[i]
  <2>1. CASE m \in claimed
    <3>1. PICK i \in 1 .. k - 1 : m.type = PATTERNS[i]
      BY <2>1, <1>6
    <3>2. i \in 1 .. k
      OBVIOUS
    <3> QED
      BY <2>1, <1>6, <3>1, <3>2
  <2>2. CASE m \in new
    <3>1. m.type = PATTERNS[k] /\ k \in 1 .. k
      BY <2>2, <1>4 DEF type
    <3> QED
      BY <2>2, <1>2, <1>4, <3>1 DEF found
  <2> QED
    BY <1>1, <2>1, <2>2
<1>11. \A m, other \in claimed2 : Overlaps(m, other) => m = other
  <2> SUFFICES ASSUME NEW m \in claimed2, NEW other \in claimed2, Overlaps(m, other)
               PROVE  m = other
    OBVIOUS
  <2>1. Overlaps(other, m)
    BY OverlapsBack
  <2>2. CASE m \in claimed /\ other \in claimed
    BY <1>7, <2>2
  <2>3. CASE m \in new
    BY <1>1, <1>5, <2>1, <2>3
  <2>4. CASE other \in new
    BY <1>1, <1>5, <2>1, <2>4
  <2> QED
    BY <1>1, <2>2, <2>3, <2>4
<1>12. ASSUME NEW i \in 1 .. k, NEW m \in Found(PATTERNS[i], text)
       PROVE  \/ m \in claimed2 \/ NoName(m)
              \/ \E other \in claimed2 : other.type # m.type /\ Overlaps(m, other)
  <2>1. CASE i = k
    BY <2>1, <1>1, <1>4, <1>9 DEF type, found
  <2>2. CASE i # k
    <3>1. i \in 1 .. k - 1
      BY <2>2
    <3> QED
      BY <3>1, <1>1, <1>8
  <2> QED
    BY <2>1, <2>2
<1>13. ClaimedUpTo(text, claimed2, k)
  BY <1>10, <1>11, <1>12 DEF ClaimedUpTo
<1> QED
  BY <1>13 DEF claimed2, found, type

\* The matches of a text do not overlap, and whatever a pattern finds besides them is
\* no name or overlaps one of another pattern.
LEMMA MatchesClaim ==
    ASSUME NEW text \in Text
    PROVE  ClaimedUpTo(text, RawMatches(text), 8)
<1>1. PICK f : RawTrace(f, text)
  BY RawSteps
<1> DEFINE S == {i \in Nat : ClaimedUpTo(text, f[i], i)}
<1>2. 0 \in S
  <2>1. f[0] = {}
    BY <1>1 DEF RawTrace
  <2> QED
    BY <2>1 DEF ClaimedUpTo
<1>3. \A i \in 0 .. 8 - 1 : i \in S => i + 1 \in S
  <2> SUFFICES ASSUME NEW i \in 0 .. 7, ClaimedUpTo(text, f[i], i)
               PROVE  ClaimedUpTo(text, f[i + 1], i + 1)
    OBVIOUS
  <2>1. i + 1 \in 1 .. 8 /\ (i + 1) - 1 = i
    OBVIOUS
  <2>2. f[i + 1] = Claim(f[i], Found(PATTERNS[i + 1], text))
    BY <1>1, <2>1, PatternsIs DEF RawTrace
  <2> QED
    BY <2>1, <2>2, ClaimedNext
<1>4. \A i \in 0 .. 8 : i \in S
  <2> HIDE DEF S
  <2> QED
    BY <1>2, <1>3, Induction
<1> QED
  BY <1>1, <1>4, PatternsIs DEF RawTrace

-------------------------------------------------------------------------------
(* Matches are made of fragments. *)

LEMMA LanguageWords ==
    ASSUME NEW type \in EntityTypes
    PROVE  Language(type) \subseteq Seq(Fragments)
<1>1. CASE type = "PERSON"
  <2>1. ASSUME NEW name \in Names PROVE name \in Seq(Fragments)
    <3>1. PICK n \in 2 .. 4 : name \in [1 .. n -> Title]
      BY DEF Names
    <3>2. n \in Nat /\ name \in [1 .. n -> Fragments]
      BY <3>1, BrowserTokenizerAssumption
    <3> QED
      BY <3>2
  <2> QED
    BY <1>1, <2>1 DEF Language
<1>2. CASE type # "PERSON"
  BY <1>2, BrowserTokenizerAssumption DEF Language
<1> QED
  BY <1>1, <1>2

LEMMA WordsAreText == Seq(Fragments) \subseteq Text
BY DEF Text

LEMMA LoweredTyped ==
    /\ \A text \in Text : Lowered(text) \in Text /\ DOMAIN Lowered(text) = DOMAIN text
    /\ \A text \in Seq(Fragments) : Lowered(text) \in Seq(Fragments)
<1>1. ASSUME NEW text \in Text PROVE Lowered(text) \in Text /\ DOMAIN Lowered(text) = DOMAIN text
  <2>1. \A i \in DOMAIN text : (IF text[i] \in Fragments THEN Lower[text[i]] ELSE text[i])
                                  \in Fragments \cup Tokens
    BY BrowserTokenizerAssumption DEF Text
  <2>2. DOMAIN text = 1 .. Len(text) /\ Len(text) \in Nat
    BY DEF Text
  <2> QED
    BY <2>1, <2>2 DEF Lowered, Text
<1>2. ASSUME NEW text \in Seq(Fragments) PROVE Lowered(text) \in Seq(Fragments)
  <2>1. \A i \in DOMAIN text : (IF text[i] \in Fragments THEN Lower[text[i]] ELSE text[i])
                                  \in Fragments
    BY BrowserTokenizerAssumption
  <2>2. DOMAIN text = 1 .. Len(text) /\ Len(text) \in Nat
    OBVIOUS
  <2> QED
    BY <2>1, <2>2 DEF Lowered
<1> QED
  BY <1>1, <1>2

\* What can be found in a text.
IsMatch(m, text) ==
    /\ m.type \in EntityTypes /\ m.original \in Language(m.type) /\ m.original \in Seq(Fragments)
    /\ m.start \in 1 .. Len(text) /\ m.end \in m.start .. Len(text)
    /\ m.original = SubSeq(text, m.start, m.end) /\ Len(m.original) = m.end - m.start + 1

LEMMA FoundIs ==
    ASSUME NEW text \in Text, NEW type \in EntityTypes, NEW m \in Found(type, text)
    PROVE  IsMatch(m, text) /\ m.type = type
<1>1. /\ m.type = type /\ m.start \in 1 .. Len(text) /\ m.end \in m.start .. Len(text)
      /\ m.original = SubSeq(text, m.start, m.end) /\ m.original \in Language(type)
  BY ScanFinds DEF Found, FoundUpTo
<1>2. Len(text) \in Nat /\ text \in Seq(Fragments \cup Tokens)
  BY DEF Text
<1>3. Len(SubSeq(text, m.start, m.end)) = m.end - m.start + 1
  <2> DEFINE a == m.start
             b == m.end
  <2>1. a \in 1 .. Len(text) /\ b \in a .. Len(text)
    BY <1>1
  <2> HIDE DEF a, b
  <2>2. Len(SubSeq(text, a, b)) = b - a + 1
    BY <1>2, <2>1
  <2> QED
    BY <2>2 DEF a, b
<1> QED
  BY <1>1, <1>3, LanguageWords DEF IsMatch

LEMMA MatchIs ==
    ASSUME NEW text \in Text, NEW m \in RawMatches(text)
    PROVE  IsMatch(m, text) /\ m \in Found(m.type, text)
<1>1. m.type \in EntityTypes /\ m \in Found(m.type, text)
  BY MatchesClaim DEF ClaimedUpTo
<1> QED
  BY <1>1, FoundIs

-------------------------------------------------------------------------------
(* The vault. *)

Keys == EntityTypes \X Text
Entries == [token : Tokens, original : Text]
Pairs == [key : Keys, token : Tokens]
Vaults == [tokenToOrig : Seq(Entries), keyToToken : SUBSET Pairs, counters : [EntityTypes -> Nat]]

\* A token stands for one key and a key for one token, numbered within its type; what a
\* token is replaced by has its key.
Numbered(v) ==
    \A e \in v.keyToToken : e.token.type = e.key[1] /\ e.token.n \in 1 .. v.counters[e.key[1]]
OneToOne(v) ==
    \A e, other \in v.keyToToken : e.key = other.key <=> e.token = other.token
Listed(v) ==
    /\ \A i \in DOMAIN v.tokenToOrig :
           LET e == v.tokenToOrig[i]
           IN  /\ e.token.type \in EntityTypes
               /\ e.original \in Language(e.token.type) /\ Len(e.original) > 0
               /\ [key |-> <<e.token.type, Lowered(e.original)>>, token |-> e.token]
                      \in v.keyToToken
    /\ \A i, j \in DOMAIN v.tokenToOrig :
           v.tokenToOrig[i].token = v.tokenToOrig[j].token => i = j
    /\ \A e \in v.keyToToken : \E i \in DOMAIN v.tokenToOrig : v.tokenToOrig[i].token = e.token
Consistent(v) == v \in Vaults /\ Numbered(v) /\ OneToOne(v) /\ Listed(v)

LEMMA EmptyVault == Consistent(createVault)
<1>1. createVault \in Vaults
  BY DEF createVault, Vaults
<1>2. createVault.keyToToken = {} /\ createVault.tokenToOrig = << >>
  BY DEF createVault
<1> QED
  BY <1>1, <1>2 DEF Consistent, Numbered, OneToOne, Listed

\* What is assigned to a match: its key's token, in a vault that has kept what it had.
Assigned(m, v, token, v2) ==
    /\ token \in Tokens /\ Consistent(v2)
    /\ [key |-> Key(m), token |-> token] \in v2.keyToToken
    /\ v.keyToToken \subseteq v2.keyToToken

LEMMA AssignKnown ==
    ASSUME NEW v, Consistent(v), NEW m, Known(m, v) # {}
    PROVE  Assigned(m, v, assignToken(m, v)[1], assignToken(m, v)[2])
<1> DEFINE e == CHOOSE e \in Known(m, v) : TRUE
<1>1. e \in Known(m, v)
  OBVIOUS
<1> HIDE DEF e
<1>2. assignToken(m, v)[1] = e.token /\ assignToken(m, v)[2] = v
  BY DEF assignToken, e
<1>3. e \in v.keyToToken /\ e.key = Key(m) /\ e \in Pairs
  BY <1>1 DEF Known, Consistent, Vaults
<1>4. e = [key |-> Key(m), token |-> e.token] /\ e.token \in Tokens
  BY <1>3 DEF Pairs
<1> QED
  BY <1>2, <1>3, <1>4 DEF Assigned

LEMMA AssignNew ==
    ASSUME NEW v, Consistent(v), NEW text \in Text, NEW m, IsMatch(m, text), Known(m, v) = {}
    PROVE  Assigned(m, v, assignToken(m, v)[1], assignToken(m, v)[2])
<1> DEFINE n == v.counters[m.type] + 1
           token == [type |-> m.type, n |-> n]
           pair == [key |-> Key(m), token |-> token]
           entry == [token |-> token, original |-> m.original]
           v2 == [tokenToOrig |-> Append(v.tokenToOrig, entry),
                  keyToToken |-> v.keyToToken \cup {pair},
                  counters |-> [v.counters EXCEPT ![m.type] = @ + 1]]
<1>1. assignToken(m, v)[1] = token /\ assignToken(m, v)[2] = v2
  BY DEF assignToken
<1>2. /\ v.tokenToOrig \in Seq(Entries) /\ v.keyToToken \in SUBSET Pairs
      /\ v.counters \in [EntityTypes -> Nat]
  BY DEF Consistent, Vaults
<1>3. /\ m.type \in EntityTypes /\ m.original \in Language(m.type)
      /\ m.original \in Seq(Fragments) /\ Len(m.original) > 0
  <2>1. m.start \in 1 .. Len(text) /\ m.end \in m.start .. Len(text)
        /\ Len(m.original) = m.end - m.start + 1
    BY DEF IsMatch
  <2> QED
    BY <2>1 DEF IsMatch
<1>4. token \in Tokens /\ token.type = m.type /\ token.n = n /\ n \in Nat
      /\ v.counters[m.type] \in Nat
  BY <1>2, <1>3 DEF Tokens
<1>5. m.original \in Text /\ Lowered(m.original) \in Text
  BY <1>3, WordsAreText, LoweredTyped
<1>6. Key(m) = <<m.type, Lowered(m.original)>> /\ Key(m)[1] = m.type /\ Key(m) \in Keys
  BY <1>3, <1>5 DEF Key, Keys
<1> HIDE DEF n, token
<1>7. pair \in Pairs /\ pair.key = Key(m) /\ pair.token = token
  BY <1>4, <1>6 DEF Pairs
<1>8. entry \in Entries /\ entry.token = token /\ entry.original = m.original
  BY <1>4, <1>5 DEF Entries
<1> HIDE DEF pair, entry
<1>9. /\ v2.tokenToOrig = Append(v.tokenToOrig, entry)
       /\ v2.keyToToken = v.keyToToken \cup {pair}
       /\ v2.counters = [v.counters EXCEPT ![m.type] = @ + 1]
  OBVIOUS
<1>10. v2 \in Vaults
  BY <1>2, <1>3, <1>7, <1>8 DEF Vaults
<1> HIDE DEF v2
<1>11. v2.counters[m.type] = n
       /\ \A type \in EntityTypes : type # m.type => v2.counters[type] = v.counters[type]
  BY <1>2, <1>3, <1>9 DEF n
<1>12. \A e \in v.keyToToken : /\ e.key # Key(m)
                               /\ e.token.type = e.key[1] /\ e.key[1] \in EntityTypes
                               /\ e.token.n \in 1 .. v.counters[e.key[1]]
  <2>1. \A e \in v.keyToToken : e.key # Key(m)
    BY DEF Known
  <2>2. \A e \in v.keyToToken : e.key[1] \in EntityTypes
    BY <1>2 DEF Pairs, Keys
  <2> QED
    BY <2>1, <2>2 DEF Consistent, Numbered
<1>13. \A e \in v.keyToToken : e.token # token
  <2> SUFFICES ASSUME NEW e \in v.keyToToken, e.token = token PROVE FALSE
    OBVIOUS
  <2>1. e.key[1] = m.type /\ e.token.n = n
    BY <1>4, <1>12
  <2>2. n \in 1 .. v.counters[m.type]
    BY <1>12, <2>1
  <2> QED
    BY <2>2, <1>4 DEF n
<1>14. Numbered(v2)
  <2> SUFFICES ASSUME NEW e \in v2.keyToToken
               PROVE  e.token.type = e.key[1] /\ e.token.n \in 1 .. v2.counters[e.key[1]]
    BY DEF Numbered
  <2>1. CASE e \in v.keyToToken
    <3>1. e.token.type = e.key[1] /\ e.key[1] \in EntityTypes
          /\ e.token.n \in 1 .. v.counters[e.key[1]]
      BY <1>12, <2>1
    <3>2. CASE e.key[1] = m.type
      <4>1. e.token.n \in 1 .. v.counters[m.type]
        BY <3>1, <3>2
      <4>2. e.token.n \in 1 .. n
        BY <4>1, <1>4 DEF n
      <4> QED
        BY <3>1, <3>2, <4>2, <1>11
    <3>3. CASE e.key[1] # m.type
      BY <3>1, <3>3, <1>11
    <3> QED
      BY <3>2, <3>3
  <2>2. CASE e = pair
    <3>1. n \in 1 .. n
      BY <1>4 DEF n
    <3> QED
      BY <2>2, <3>1, <1>4, <1>6, <1>7, <1>11
  <2> QED
    BY <2>1, <2>2, <1>9
<1>15. OneToOne(v2)
  <2>1. \A e, other \in v.keyToToken : e.key = other.key <=> e.token = other.token
    BY DEF Consistent, OneToOne
  <2> QED
    BY <2>1, <1>7, <1>9, <1>12, <1>13 DEF OneToOne
<1>16. Listed(v2)
  <2> DEFINE list == v.tokenToOrig
             list2 == v2.tokenToOrig
  <2>1. /\ Len(list) \in Nat /\ DOMAIN list = 1 .. Len(list) /\ DOMAIN list2 = 1 .. Len(list) + 1
        /\ \A i \in DOMAIN list : list2[i] = list[i] /\ i \in DOMAIN list2
        /\ list2[Len(list) + 1] = entry
    BY <1>2, <1>8, <1>9
  <2>2. \A i \in DOMAIN list2 : i \in DOMAIN list \/ i = Len(list) + 1
    BY <2>1
  <2>3. /\ \A i \in DOMAIN list :
               LET e == list[i]
               IN  /\ e.token.type \in EntityTypes
                   /\ e.original \in Language(e.token.type) /\ Len(e.original) > 0
                   /\ [key |-> <<e.token.type, Lowered(e.original)>>, token |-> e.token]
                          \in v.keyToToken
        /\ \A i, j \in DOMAIN list : list[i].token = list[j].token => i = j
        /\ \A e \in v.keyToToken : \E i \in DOMAIN list : list[i].token = e.token
    BY DEF Consistent, Listed
  <2> HIDE DEF list, list2
  <2>4. ASSUME NEW i \in DOMAIN list2
        PROVE  LET e == list2[i]
               IN  /\ e.token.type \in EntityTypes
                   /\ e.original \in Language(e.token.type) /\ Len(e.original) > 0
                   /\ [key |-> <<e.token.type, Lowered(e.original)>>, token |-> e.token]
                          \in v2.keyToToken
    <3>1. CASE i \in DOMAIN list
      BY <3>1, <2>1, <2>3, <1>9
    <3>2. CASE i = Len(list) + 1
      <4>1. list2[i] = entry
        BY <2>1, <3>2
      <4>2. [key |-> <<token.type, Lowered(m.original)>>, token |-> token] = pair
        BY <1>4, <1>6 DEF pair
      <4> QED
        BY <4>1, <4>2, <1>3, <1>4, <1>8, <1>9
    <3> QED
      BY <2>2, <3>1, <3>2
  <2>5. \A i \in DOMAIN list : list[i].token # token
    <3> SUFFICES ASSUME NEW i \in DOMAIN list PROVE list[i].token # token
      OBVIOUS
    <3>1. PICK p \in v.keyToToken : p.token = list[i].token
      <4> DEFINE p == [key |-> <<list[i].token.type, Lowered(list[i].original)>>,
                       token |-> list[i].token]
      <4>1. p \in v.keyToToken /\ p.token = list[i].token
        BY <2>3
      <4> QED
        BY <4>1
    <3> QED
      BY <3>1, <1>13
  <2>6. \A i, j \in DOMAIN list2 : list2[i].token = list2[j].token => i = j
    BY <2>1, <2>2, <2>3, <2>5, <1>8
  <2>7. \A e \in v2.keyToToken : \E i \in DOMAIN list2 : list2[i].token = e.token
    <3> SUFFICES ASSUME NEW e \in v2.keyToToken
                 PROVE  \E i \in DOMAIN list2 : list2[i].token = e.token
      OBVIOUS
    <3>1. CASE e \in v.keyToToken
      BY <3>1, <2>1, <2>3
    <3>2. CASE e = pair
      <4>1. Len(list) + 1 \in DOMAIN list2
        BY <2>1
      <4> QED
        BY <3>2, <4>1, <2>1, <1>7, <1>8
    <3> QED
      BY <3>1, <3>2, <1>9
  <2> QED
    BY <2>4, <2>6, <2>7 DEF Listed, list2
<1>17. Consistent(v2) /\ pair \in v2.keyToToken /\ v.keyToToken \subseteq v2.keyToToken
  BY <1>9, <1>10, <1>14, <1>15, <1>16 DEF Consistent
<1> QED
  BY <1>1, <1>4, <1>17 DEF Assigned, pair

LEMMA Assigns ==
    ASSUME NEW v, Consistent(v), NEW text \in Text, NEW m, IsMatch(m, text)
    PROVE  Assigned(m, v, assignToken(m, v)[1], assignToken(m, v)[2])
BY AssignKnown, AssignNew

-------------------------------------------------------------------------------
(* tokenize. *)

Here(text, i) == {m \in RawMatches(text) : m.start <= i /\ i <= m.end}
Copied(d, x) == [d EXCEPT !.tokenized = Append(@, x)]

\* What stands at i is copied, replaced, or has been replaced.
LEMMA CopyCases ==
    ASSUME NEW text \in Text, NEW i \in DOMAIN text, NEW d
    PROVE  LET d2 == CopyOrReplace(RawMatches(text), text, d, i)
           IN  \/ Here(text, i) = {} /\ d2 = Copied(d, text[i])
               \/ \E m \in RawMatches(text) : Here(text, i) = {m} /\ m.start = i /\ d2 = Replaced(m, d)
               \/ \E m \in RawMatches(text) : Here(text, i) = {m} /\ m.start < i /\ d2 = d
<1> DEFINE matches == RawMatches(text)
           here == Here(text, i)
           d2 == CopyOrReplace(matches, text, d, i)
<1>1. here = {m \in matches : m.start <= i /\ i <= m.end}
  BY DEF Here
<1>2. CASE here = {}
  <2>1. d2 = Copied(d, text[i])
    BY <1>1, <1>2 DEF CopyOrReplace, Copied
  <2> QED
    BY <1>2, <2>1
<1>3. CASE here # {}
  <2>1. PICK m \in matches : m.start <= i /\ i <= m.end
    BY <1>1, <1>3
  <2>2. \A other \in here : other = m
    <3> SUFFICES ASSUME NEW other \in here PROVE other = m
      OBVIOUS
    <3>1. other \in matches /\ other.start <= i /\ i <= other.end
      BY <1>1
    <3>2. /\ m.start \in Nat /\ m.end \in Nat /\ other.start \in Nat /\ other.end \in Nat
          /\ i \in Nat
      BY <2>1, <3>1, MatchIs DEF IsMatch, Text
    <3>3. Overlaps(other, m)
      BY <2>1, <3>1, <3>2 DEF Overlaps
    <3> QED
      BY <2>1, <3>1, <3>3, MatchesClaim DEF ClaimedUpTo
  <2>3. here = {m}
    BY <1>1, <2>1, <2>2
  <2>4. m.start \in Nat /\ i \in Nat
    BY <2>1, MatchIs DEF IsMatch, Text
  <2> HIDE DEF matches, here
  <2>5. CASE m.start = i
    <3>1. (CHOOSE x \in here : x.start = i) = m
      BY <2>3, <2>5
    <3>2. d2 = Replaced(CHOOSE x \in here : x.start = i, d)
      BY <1>1, <2>3, <2>5 DEF CopyOrReplace
    <3> QED
      BY <2>1, <2>3, <2>5, <3>1, <3>2 DEF matches, here
  <2>6. CASE m.start # i
    <3>1. d2 = d
      BY <1>1, <2>3, <2>6 DEF CopyOrReplace
    <3>2. m.start < i
      BY <2>1, <2>4, <2>6
    <3> QED
      BY <2>1, <2>3, <3>1, <3>2 DEF matches, here
  <2> QED
    BY <2>5, <2>6
<1> QED
  BY <1>2, <1>3

Dones(text) ==
    [tokenized : Text, entities : Seq([match : RawMatches(text), token : Tokens]),
     vault : {v \in Vaults : Consistent(v)}]

LEMMA CopiedIs ==
    ASSUME NEW text \in Text, NEW d \in Dones(text), NEW x \in Fragments \cup Tokens
    PROVE  /\ Copied(d, x) \in Dones(text)
           /\ Copied(d, x).tokenized = Append(d.tokenized, x)
           /\ Copied(d, x).entities = d.entities /\ Copied(d, x).vault = d.vault
<1>1. d.tokenized \in Seq(Fragments \cup Tokens)
  BY DEF Dones, Text
<1>2. Append(d.tokenized, x) \in Text
  BY <1>1 DEF Text
<1> QED
  BY <1>2 DEF Dones, Copied

TokenOf(m, d) == assignToken(m, d.vault)[1]

LEMMA ReplacedIs ==
    ASSUME NEW text \in Text, NEW d \in Dones(text), NEW m \in RawMatches(text)
    PROVE  /\ Replaced(m, d) \in Dones(text)
           /\ TokenOf(m, d) \in Tokens
           /\ Replaced(m, d).tokenized = Append(d.tokenized, TokenOf(m, d))
           /\ Replaced(m, d).entities
                  = Append(d.entities, [match |-> m, token |-> TokenOf(m, d)])
           /\ [key |-> Key(m), token |-> TokenOf(m, d)] \in Replaced(m, d).vault.keyToToken
           /\ d.vault.keyToToken \subseteq Replaced(m, d).vault.keyToToken
<1> DEFINE a == assignToken(m, d.vault)
           token == a[1]
           v2 == a[2]
           d2 == Replaced(m, d)
<1>1. /\ d.tokenized \in Seq(Fragments \cup Tokens) /\ Consistent(d.vault)
      /\ d.entities \in Seq([match : RawMatches(text), token : Tokens])
  BY DEF Dones, Text
<1>2. Assigned(m, d.vault, token, v2)
  BY <1>1, MatchIs, Assigns
<1>3. d2 = [tokenized |-> Append(d.tokenized, token),
            entities |-> Append(d.entities, [match |-> m, token |-> token]), vault |-> v2]
  BY DEF Replaced
<1> HIDE DEF a, d2
<1>4. token \in Tokens /\ v2 \in {v \in Vaults : Consistent(v)}
  BY <1>2 DEF Assigned, Consistent
<1>5. [match |-> m, token |-> token] \in [match : RawMatches(text), token : Tokens]
  BY <1>4
<1>6. Append(d.tokenized, token) \in Text
  BY <1>1, <1>4 DEF Text
<1>7. Append(d.entities, [match |-> m, token |-> token])
          \in Seq([match : RawMatches(text), token : Tokens])
  BY <1>1, <1>5
<1>8. d2 \in Dones(text)
  BY <1>3, <1>4, <1>6, <1>7 DEF Dones
<1>9. /\ d2.tokenized = Append(d.tokenized, token)
      /\ d2.entities = Append(d.entities, [match |-> m, token |-> token])
      /\ d2.vault = v2
  BY <1>3
<1>10. /\ [key |-> Key(m), token |-> token] \in v2.keyToToken
       /\ d.vault.keyToToken \subseteq v2.keyToToken
  BY <1>2 DEF Assigned
<1> QED
  BY <1>4, <1>8, <1>9, <1>10 DEF a, d2, TokenOf

LEMMA CopyOrReplaceTyped ==
    ASSUME NEW text \in Text, NEW d \in Dones(text), NEW i \in DOMAIN text
    PROVE  CopyOrReplace(RawMatches(text), text, d, i) \in Dones(text)
<1>1. text[i] \in Fragments \cup Tokens
  BY DEF Text
<1>2. Copied(d, text[i]) \in Dones(text)
  BY <1>1, CopiedIs
<1>3. \A m \in RawMatches(text) : Replaced(m, d) \in Dones(text)
  BY ReplacedIs
<1> QED
  BY <1>2, <1>3, CopyCases

LEMMA KeysKept ==
    ASSUME NEW text \in Text, NEW d \in Dones(text), NEW i \in DOMAIN text
    PROVE  d.vault.keyToToken
               \subseteq CopyOrReplace(RawMatches(text), text, d, i).vault.keyToToken
<1> DEFINE d2 == CopyOrReplace(RawMatches(text), text, d, i)
<1>1. text[i] \in Fragments \cup Tokens
  BY DEF Text
<1>2. Copied(d, text[i]).vault = d.vault
  BY <1>1, CopiedIs
<1>3. \A m \in RawMatches(text) : d.vault.keyToToken \subseteq Replaced(m, d).vault.keyToToken
  BY ReplacedIs
<1>4. \/ d2 = Copied(d, text[i])
      \/ \E m \in RawMatches(text) : d2 = Replaced(m, d)
      \/ d2 = d
  BY CopyCases
<1> QED
  BY <1>2, <1>3, <1>4

Unread(vault) == [tokenized |-> << >>, entities |-> << >>, vault |-> vault]
Read(text, vault) ==
    FoldLeftDomain(LAMBDA d, i : CopyOrReplace(RawMatches(text), text, d, i), Unread(vault), text)

\* The text, position after position.
ReadTrace(f, text, vault) ==
    /\ f \in [0 .. Len(text) -> Dones(text)]
    /\ f[0] = Unread(vault) /\ f[Len(text)] = Read(text, vault)
    /\ \A i \in 1 .. Len(text) : f[i] = CopyOrReplace(RawMatches(text), text, f[i - 1], i)

LEMMA ReadSteps ==
    ASSUME NEW text \in Text, NEW vault, Consistent(vault)
    PROVE  \E f : ReadTrace(f, text, vault)
<1> DEFINE n == Len(text)
           E == DOMAIN text
           V == Dones(text)
           seq == [i \in DOMAIN text |-> i]
           Op(v, e) == CopyOrReplace(RawMatches(text), text, v, e)
           base == Unread(vault)
           g == [p \in V \X E |-> Op(p[1], p[2])]
           Rec(h) == h = [s \in SUBSET DOMAIN seq |->
                             IF s = {} THEN base ELSE Op(h[s \ {Max(s)}], seq[Max(s)])]
<1>1. n \in Nat /\ DOMAIN seq = 1 .. n /\ \A i \in 1 .. n : seq[i] \in E
  BY DEF Text
<1>2. \A v \in V, e \in E : Op(v, e) \in V
  BY CopyOrReplaceTyped
<1>3. base \in V
  BY DEF Unread, Dones, Text, Consistent
<1> HIDE DEF n, E, V, seq, Op, base
<1>4. g \in [V \X E -> V] /\ \A v \in V, e \in E : g[<<v, e>>] = Op(v, e)
  BY <1>2
<1> HIDE DEF g
<1>5. \E h : Rec(h)
  <2>1. PICK h : Unrolls(h, n, V, E, base, g, seq)
    BY <1>1, <1>3, <1>4, Unrolled
  <2>2. \A s \in SUBSET (1 .. n) :
            h[s] = IF s = {} THEN base ELSE Op(h[s \ {Max(s)}], seq[Max(s)])
    BY <1>4, <2>1 DEF Unrolls
  <2>3. Rec(h)
    BY <1>1, <2>1, <2>2 DEF Unrolls
  <2> QED
    BY <2>3
<1>6. PICK h : Rec(h) /\ Read(text, vault) = h[DOMAIN seq]
  <2>1. Read(text, vault) = (CHOOSE h : Rec(h))[DOMAIN seq]
    BY DEF Read, FoldLeftDomain, FoldLeft, MapThenFoldSet, Op, seq, base
  <2> QED
    BY <2>1, <1>5
<1>7. h[{}] = base
  BY <1>1, <1>6
<1>8. ASSUME NEW i \in 1 .. n PROVE h[1 .. i] = Op(h[1 .. i - 1], seq[i])
  <2>1. /\ 1 .. i \in SUBSET DOMAIN seq /\ 1 .. i # {}
        /\ Max(1 .. i) = i /\ (1 .. i) \ {i} = 1 .. i - 1
    BY <1>1, Upto
  <2>2. h[1 .. i] = Op(h[(1 .. i) \ {Max(1 .. i)}], seq[Max(1 .. i)])
    BY <1>6, <2>1
  <2> QED
    BY <1>1, <2>1, <2>2
<1>9. \A i \in 1 .. n : h[1 .. i - 1] \in V => h[1 .. i] = g[<<h[1 .. i - 1], seq[i]>>]
  BY <1>1, <1>4, <1>8
<1>10. PICK f : FoldTrace(f, h, n, V, E, base, g, seq)
  BY <1>1, <1>3, <1>4, <1>7, <1>9, Traced
<1>11. /\ f \in [0 .. n -> V] /\ f[0] = base /\ f[n] = Read(text, vault)
       /\ \A i \in 1 .. n : f[i] = Op(f[i - 1], seq[i])
  BY <1>1, <1>4, <1>6, <1>10 DEF FoldTrace
<1> QED
  BY <1>1, <1>11 DEF n, V, base, seq, Op, ReadTrace

LEMMA TokenizeIs ==
    ASSUME NEW text, NEW vault
    PROVE  LET d == Read(text, vault)
           IN  /\ tokenize(text, vault).vault = d.vault
               /\ tokenize(text, vault).result
                      = [original |-> text, tokenized |-> d.tokenized, entities |-> d.entities]
BY DEF tokenize, Read, Unread

\* Every match up to i has its entity, the token of its key.
Entered(text, d, i) ==
    /\ \A k \in DOMAIN d.entities :
           LET e == d.entities[k]
           IN  [key |-> Key(e.match), token |-> e.token] \in d.vault.keyToToken
    /\ \A m \in RawMatches(text) :
           m.start <= i => \E k \in DOMAIN d.entities : d.entities[k].match = m

\* Fragments that stand together in the output stand together in the text, in no match.
Stretch(text, out, a, b, i) ==
    \E p \in 1 .. i :
        /\ \A k \in a .. b : /\ p + (k - a) \in 1 .. i /\ out[k] = text[p + (k - a)]
                             /\ Here(text, p + (k - a)) = {}
        /\ b = Len(out) => p + (b - a) = i
Runs(text, out, i) ==
    /\ \A a \in 1 .. Len(out) : \A b \in a .. Len(out) :
           (\A k \in a .. b : out[k] \in Fragments) => Stretch(text, out, a, b, i)
    /\ i > 0 /\ Here(text, i) # {} => Len(out) > 0 /\ out[Len(out)] \notin Fragments

LEMMA EnteredNext ==
    ASSUME NEW text \in Text, NEW i \in DOMAIN text, NEW d \in Dones(text), Entered(text, d, i - 1)
    PROVE  Entered(text, CopyOrReplace(RawMatches(text), text, d, i), i)
<1> DEFINE d2 == CopyOrReplace(RawMatches(text), text, d, i)
<1>1. i \in Nat /\ i > 0 /\ text[i] \in Fragments \cup Tokens
  BY DEF Text
<1>2. \A m \in RawMatches(text) : /\ m.start \in Nat /\ m.end \in Nat /\ m.start <= m.end
                                  /\ (m.start <= i /\ m.start # i => m.start <= i - 1)
                                  /\ (m.start = i => m \in Here(text, i))
  <2> SUFFICES ASSUME NEW m \in RawMatches(text)
               PROVE  /\ m.start \in Nat /\ m.end \in Nat /\ m.start <= m.end
                      /\ (m.start <= i /\ m.start # i => m.start <= i - 1)
                      /\ (m.start = i => m \in Here(text, i))
    OBVIOUS
  <2>1. m.start \in Nat /\ m.end \in Nat /\ m.start <= m.end
    BY MatchIs DEF IsMatch, Text
  <2> QED
    BY <1>1, <2>1 DEF Here
<1>3. /\ \A k \in DOMAIN d.entities :
             [key |-> Key(d.entities[k].match), token |-> d.entities[k].token]
                 \in d.vault.keyToToken
      /\ \A m \in RawMatches(text) :
             m.start <= i - 1 => \E k \in DOMAIN d.entities : d.entities[k].match = m
  BY DEF Entered
<1> HIDE DEF d2
<1>4. ASSUME Here(text, i) = {}, d2 = Copied(d, text[i])
      PROVE  Entered(text, d2, i)
  <2>1. d2.entities = d.entities /\ d2.vault = d.vault
    BY <1>1, <1>4, CopiedIs
  <2>2. \A m \in RawMatches(text) : m.start <= i => m.start <= i - 1
    BY <1>2, <1>4
  <2> QED
    BY <1>3, <2>1, <2>2 DEF Entered
<1>5. ASSUME NEW m \in RawMatches(text), Here(text, i) = {m}, m.start = i, d2 = Replaced(m, d)
      PROVE  Entered(text, d2, i)
  <2> DEFINE token == TokenOf(m, d)
  <2>1. /\ token \in Tokens
        /\ Replaced(m, d).entities = Append(d.entities, [match |-> m, token |-> token])
        /\ [key |-> Key(m), token |-> token] \in Replaced(m, d).vault.keyToToken
    BY ReplacedIs
  <2> HIDE DEF token
  <2>2. /\ d2.entities = Append(d.entities, [match |-> m, token |-> token])
        /\ [key |-> Key(m), token |-> token] \in d2.vault.keyToToken
    BY <1>5, <2>1
  <2>3. d.vault.keyToToken \subseteq d2.vault.keyToToken
    BY <1>5, ReplacedIs
  <2> DEFINE list == d.entities
             list2 == d2.entities
             entity == [match |-> m, token |-> token]
  <2>4. list \in Seq([match : RawMatches(text), token : Tokens]) /\ list2 = Append(list, entity)
        /\ entity.match = m /\ entity.token = token
    BY <2>2 DEF Dones
  <2> HIDE DEF list, list2, entity
  <2>5. /\ Len(list) \in Nat /\ DOMAIN list = 1 .. Len(list) /\ DOMAIN list2 = 1 .. Len(list) + 1
        /\ \A k \in DOMAIN list : list2[k] = list[k] /\ k \in DOMAIN list2
        /\ list2[Len(list) + 1] = entity
    BY <2>4
  <2>6. \A k \in DOMAIN list2 : k \in DOMAIN list \/ k = Len(list) + 1
    BY <2>5
  <2>7. \A k \in DOMAIN list2 : [key |-> Key(list2[k].match), token |-> list2[k].token]
                                    \in d2.vault.keyToToken
    <3> SUFFICES ASSUME NEW k \in DOMAIN list2
                 PROVE  [key |-> Key(list2[k].match), token |-> list2[k].token]
                            \in d2.vault.keyToToken
      OBVIOUS
    <3>1. CASE k \in DOMAIN list
      BY <3>1, <2>3, <2>5, <1>3 DEF list
    <3>2. CASE k = Len(list) + 1
      BY <3>2, <2>2, <2>4, <2>5
    <3> QED
      BY <2>6, <3>1, <3>2
  <2>8. ASSUME NEW other \in RawMatches(text), other.start <= i
        PROVE  \E k \in DOMAIN list2 : list2[k].match = other
    <3>1. CASE other.start = i
      <4>1. other = m
        BY <3>1, <1>2, <1>5
      <4>2. Len(list) + 1 \in DOMAIN list2 /\ list2[Len(list) + 1].match = m
        BY <2>4, <2>5
      <4> QED
        BY <4>1, <4>2
    <3>2. CASE other.start # i
      <4>1. other.start <= i - 1
        BY <3>2, <2>8, <1>2
      <4>2. PICK k \in DOMAIN list : list[k].match = other
        BY <4>1, <1>3 DEF list
      <4> QED
        BY <4>2, <2>5
    <3> QED
      BY <3>1, <3>2
  <2> QED
    BY <2>7, <2>8 DEF Entered, list2
<1>6. ASSUME NEW m \in RawMatches(text), Here(text, i) = {m}, m.start < i, d2 = d
      PROVE  Entered(text, d2, i)
  <2>1. \A other \in RawMatches(text) : other.start <= i => other.start <= i - 1
    BY <1>1, <1>2, <1>6
  <2> QED
    BY <1>3, <1>6, <2>1 DEF Entered
<1>7. \/ Here(text, i) = {} /\ d2 = Copied(d, text[i])
      \/ \E m \in RawMatches(text) : Here(text, i) = {m} /\ m.start = i /\ d2 = Replaced(m, d)
      \/ \E m \in RawMatches(text) : Here(text, i) = {m} /\ m.start < i /\ d2 = d
  BY CopyCases DEF d2
<1> QED
  BY <1>4, <1>5, <1>6, <1>7 DEF d2

\* What is in the output already stays where it is when more is put behind it.
LEMMA StretchKept ==
    ASSUME NEW text \in Text, NEW out \in Text, NEW i \in 1 .. Len(text),
           NEW a \in 1 .. Len(out), NEW b \in a .. Len(out), Stretch(text, out, a, b, i - 1),
           NEW out2 \in Text, \A k \in 1 .. Len(out) : out2[k] = out[k], b # Len(out2)
    PROVE  Stretch(text, out2, a, b, i)
<1>1. PICK p \in 1 .. i - 1 : \A k \in a .. b : /\ p + (k - a) \in 1 .. i - 1
                                                /\ out[k] = text[p + (k - a)]
                                                /\ Here(text, p + (k - a)) = {}
  BY DEF Stretch
<1>2. i \in Nat /\ Len(out) \in Nat
  BY DEF Text
<1>3. p \in 1 .. i /\ \A k \in a .. b : p + (k - a) \in 1 .. i /\ k \in 1 .. Len(out)
  BY <1>1, <1>2
<1> QED
  BY <1>1, <1>3 DEF Stretch

LEMMA StretchGrows ==
    ASSUME NEW text \in Text, NEW out, NEW n \in Nat, n = Len(out),
           NEW i \in 1 .. Len(text), Here(text, i) = {},
           NEW out2, Len(out2) = n + 1, out2[n + 1] = text[i],
           \A k \in 1 .. n : out2[k] = out[k],
           NEW a \in 1 .. n + 1, a <= n => Stretch(text, out, a, n, i - 1)
    PROVE  Stretch(text, out2, a, n + 1, i)
<1>1. i \in Nat /\ i > 0
  BY DEF Text
<1>2. CASE a = n + 1
  <2>1. \A k \in a .. n + 1 : k = n + 1 /\ i + (k - a) = i
    BY <1>1, <1>2
  <2>2. i \in 1 .. i /\ i + (n + 1 - a) = i
    BY <1>1, <1>2
  <2> QED
    BY <2>1, <2>2, <1>1 DEF Stretch
<1>3. CASE a # n + 1
  <2>1. a \in 1 .. n
    BY <1>3
  <2>2. PICK p \in 1 .. i - 1 :
            /\ \A k \in a .. n : /\ p + (k - a) \in 1 .. i - 1 /\ out[k] = text[p + (k - a)]
                                 /\ Here(text, p + (k - a)) = {}
            /\ p + (n - a) = i - 1
    <3>1. Stretch(text, out, a, n, i - 1)
      BY <2>1
    <3>2. PICK p \in 1 .. i - 1 :
              /\ \A k \in a .. n : /\ p + (k - a) \in 1 .. i - 1 /\ out[k] = text[p + (k - a)]
                                   /\ Here(text, p + (k - a)) = {}
              /\ n = Len(out) => p + (n - a) = i - 1
      BY <3>1, Zenon DEF Stretch
    <3> QED
      BY <3>2, Zenon
  <2>3. p \in Nat /\ a \in Nat /\ p \in 1 .. i /\ p + ((n + 1) - a) = i
    <3>1. p \in Int /\ a \in Int /\ n \in Int /\ i \in Int /\ p + (n - a) = i - 1
      BY <1>1, <2>2
    <3> QED
      BY <3>1, <1>1
  <2>4. ASSUME NEW k \in a .. n + 1
        PROVE  /\ p + (k - a) \in 1 .. i /\ out2[k] = text[p + (k - a)]
               /\ Here(text, p + (k - a)) = {}
    <3>1. CASE k = n + 1
      BY <3>1, <2>3, <1>1
    <3>2. CASE k # n + 1
      <4>1. k \in a .. n /\ k \in 1 .. n
        BY <3>2, <1>1, <2>1
      <4>2. p + (k - a) \in 1 .. i
        BY <4>1, <2>2, <1>1
      <4> QED
        BY <4>1, <4>2, <2>2, <1>1
    <3> QED
      BY <3>1, <3>2
  <2> QED
    BY <2>3, <2>4 DEF Stretch
<1> QED
  BY <1>2, <1>3

\* A token, or a fragment that stands in no match, is put behind the output.
LEMMA RunsGrow ==
    ASSUME NEW text \in Text, NEW out \in Text, NEW i \in 1 .. Len(text), Runs(text, out, i - 1),
           NEW x \in Fragments \cup Tokens, NEW out2, out2 = Append(out, x),
           x \in Fragments => x = text[i] /\ Here(text, i) = {}
    PROVE  Runs(text, out2, i)
<1> DEFINE n == Len(out)
<1>1. /\ n \in Nat /\ out2 \in Text /\ Len(out2) = n + 1 /\ out2[n + 1] = x
      /\ \A k \in 1 .. n : out2[k] = out[k]
  BY DEF Text
<1> HIDE DEF n
<1>2. ASSUME NEW a \in 1 .. n + 1, NEW b \in a .. n + 1, \A k \in a .. b : out2[k] \in Fragments
      PROVE  Stretch(text, out2, a, b, i)
  <2>1. ASSUME NEW c \in a .. b, c \in 1 .. n, a \in 1 .. n
        PROVE  Stretch(text, out, a, c, i - 1)
    <3>1. \A k \in a .. c : k \in a .. b /\ k \in 1 .. n
      BY <1>1, <2>1
    <3>2. \A k \in a .. c : out[k] \in Fragments
      BY <1>1, <1>2, <3>1
    <3>3. c \in a .. n
      BY <1>1, <2>1
    <3> QED
      BY <2>1, <3>2, <3>3 DEF Runs, n
  <2>2. CASE b # n + 1
    <3>1. a \in 1 .. n /\ b \in a .. n /\ b \in a .. b /\ b \in 1 .. n
      BY <1>1, <2>2
    <3>2. Stretch(text, out, a, b, i - 1)
      BY <2>1, <3>1
    <3> QED
      BY <3>1, <3>2, <2>2, <1>1, StretchKept DEF n
  <2>3. CASE b = n + 1
    <3>1. b \in a .. b
      BY <1>1
    <3>2. x = text[i] /\ Here(text, i) = {}
      BY <3>1, <1>1, <1>2, <2>3
    <3>3. a <= n => a \in 1 .. n /\ n \in 1 .. n /\ n \in a .. b
      BY <1>1, <2>3
    <3>4. a <= n => Stretch(text, out, a, n, i - 1)
      BY <2>1, <3>3
    <3> QED
      BY <3>2, <3>4, <2>3, <1>1, StretchGrows DEF n
  <2> QED
    BY <2>2, <2>3
<1>3. Here(text, i) # {} => x \notin Fragments
  OBVIOUS
<1> QED
  BY <1>1, <1>2, <1>3 DEF Runs

LEMMA RunsNext ==
    ASSUME NEW text \in Text, NEW i \in DOMAIN text, NEW d \in Dones(text),
           Runs(text, d.tokenized, i - 1)
    PROVE  Runs(text, CopyOrReplace(RawMatches(text), text, d, i).tokenized, i)
<1> DEFINE d2 == CopyOrReplace(RawMatches(text), text, d, i)
<1>1. \/ Here(text, i) = {} /\ d2 = Copied(d, text[i])
      \/ \E m \in RawMatches(text) : Here(text, i) = {m} /\ m.start = i /\ d2 = Replaced(m, d)
      \/ \E m \in RawMatches(text) : Here(text, i) = {m} /\ m.start < i /\ d2 = d
  BY CopyCases
<1> HIDE DEF d2
<1>2. /\ i \in 1 .. Len(text) /\ i \in Nat /\ i > 0 /\ text[i] \in Fragments \cup Tokens
      /\ d.tokenized \in Text /\ Len(d.tokenized) \in Nat
  BY DEF Dones, Text
<1>3. ASSUME Here(text, i) = {}, d2 = Copied(d, text[i])
      PROVE  Runs(text, d2.tokenized, i)
  <2>1. Copied(d, text[i]).tokenized = Append(d.tokenized, text[i])
    BY <1>2, CopiedIs
  <2> QED
    BY <1>2, <1>3, <2>1, RunsGrow
<1>4. ASSUME NEW m \in RawMatches(text), d2 = Replaced(m, d)
      PROVE  Runs(text, d2.tokenized, i)
  <2>1. /\ TokenOf(m, d) \in Tokens
        /\ Replaced(m, d).tokenized = Append(d.tokenized, TokenOf(m, d))
    BY ReplacedIs
  <2>2. TokenOf(m, d) \notin Fragments
    BY <2>1, BrowserTokenizerAssumption
  <2> QED
    BY <1>2, <1>4, <2>1, <2>2, RunsGrow
<1>5. ASSUME NEW m \in RawMatches(text), Here(text, i) = {m}, m.start < i, d2 = d
      PROVE  Runs(text, d2.tokenized, i)
  <2> DEFINE out == d.tokenized
             n == Len(out)
  <2>1. m \in Here(text, i - 1) /\ i - 1 > 0
    <3>1. m.start \in Nat /\ m.start > 0 /\ m.end \in Nat
      BY MatchIs DEF IsMatch, Text
    <3>2. i <= m.end
      BY <1>5 DEF Here
    <3> QED
      BY <3>1, <3>2, <1>2, <1>5 DEF Here
  <2>2. n > 0 /\ out[n] \notin Fragments /\ n \in Nat /\ out \in Text
    BY <2>1, <1>2 DEF Runs
  <2> HIDE DEF n
  <2>3. ASSUME NEW a \in 1 .. n, NEW b \in a .. n, \A k \in a .. b : out[k] \in Fragments
        PROVE  Stretch(text, out, a, b, i)
    <3>1. b # n
      <4>1. b \in a .. b
        BY <2>2
      <4> QED
        BY <4>1, <2>2, <2>3
    <3>2. Stretch(text, out, a, b, i - 1)
      BY <2>3 DEF Runs, n
    <3> HIDE DEF out
    <3> QED
      BY <1>2, <2>2, <3>1, <3>2, StretchKept DEF n
  <2> QED
    BY <1>5, <2>2, <2>3 DEF Runs, n
<1> QED
  BY <1>1, <1>3, <1>4, <1>5 DEF d2

\* What has been read of a text: its matches are entered, its other fragments copied, and
\* the vault has kept what it had.
LEMMA ReadIs ==
    ASSUME NEW text \in Text, NEW vault, Consistent(vault)
    PROVE  /\ Read(text, vault) \in Dones(text)
           /\ Entered(text, Read(text, vault), Len(text))
           /\ Runs(text, Read(text, vault).tokenized, Len(text))
           /\ vault.keyToToken \subseteq Read(text, vault).vault.keyToToken
<1> DEFINE n == Len(text)
           Good(d, i) == /\ Entered(text, d, i) /\ Runs(text, d.tokenized, i)
                         /\ vault.keyToToken \subseteq d.vault.keyToToken
<1>1. PICK f : ReadTrace(f, text, vault)
  BY ReadSteps
<1>2. n \in Nat /\ DOMAIN text = 1 .. n
  BY DEF Text
<1>3. /\ f \in [0 .. n -> Dones(text)] /\ f[0] = Unread(vault) /\ f[n] = Read(text, vault)
      /\ \A i \in 1 .. n : f[i] = CopyOrReplace(RawMatches(text), text, f[i - 1], i)
  BY <1>1 DEF ReadTrace
<1> HIDE DEF n
<1> DEFINE S == {i \in Nat : Good(f[i], i)}
<1>4. 0 \in S
  <2>1. \A m \in RawMatches(text) : ~(m.start <= 0)
    <3> SUFFICES ASSUME NEW m \in RawMatches(text) PROVE ~(m.start <= 0)
      OBVIOUS
    <3>1. m.start \in 1 .. Len(text)
      BY MatchIs DEF IsMatch
    <3> QED
      BY <3>1
  <2>2. f[0].tokenized = << >> /\ f[0].entities = << >> /\ f[0].vault = vault
    BY <1>3 DEF Unread
  <2>3. Entered(text, f[0], 0)
    BY <2>1, <2>2 DEF Entered
  <2>4. Runs(text, f[0].tokenized, 0)
    BY <2>2 DEF Runs
  <2> QED
    BY <2>2, <2>3, <2>4
<1>5. \A i \in 0 .. n - 1 : i \in S => i + 1 \in S
  <2> SUFFICES ASSUME NEW i \in 0 .. n - 1, Good(f[i], i) PROVE Good(f[i + 1], i + 1)
    OBVIOUS
  <2>1. i + 1 \in 1 .. n /\ (i + 1) - 1 = i /\ i \in 0 .. n
    BY <1>2
  <2>2. f[i] \in Dones(text) /\ f[i + 1] = CopyOrReplace(RawMatches(text), text, f[i], i + 1)
    BY <1>3, <2>1
  <2>3. Entered(text, f[i + 1], i + 1)
    BY <1>2, <2>1, <2>2, EnteredNext
  <2>4. Runs(text, f[i + 1].tokenized, i + 1)
    BY <1>2, <2>1, <2>2, RunsNext
  <2>5. f[i].vault.keyToToken \subseteq f[i + 1].vault.keyToToken
    BY <1>2, <2>1, <2>2, KeysKept
  <2> QED
    BY <2>3, <2>4, <2>5
<1>6. \A i \in 0 .. n : i \in S
  <2> HIDE DEF S
  <2> QED
    BY <1>2, <1>4, <1>5, Induction
<1>7. Good(f[n], n) /\ f[n] \in Dones(text)
  BY <1>2, <1>3, <1>6
<1> QED
  BY <1>3, <1>7 DEF n

\* Where a value of one of the languages can be read in the output it stands in the text,
\* and its first fragment in a match that was passed over.
LEMMA ReadMasks ==
    ASSUME NEW text \in Text, NEW vault, Consistent(vault), NEW type \in EntityTypes,
           NEW value \in Language(type), Len(value) > 0,
           NEW a \in DOMAIN Read(text, vault).tokenized,
           NEW b \in DOMAIN Read(text, vault).tokenized,
           SubSeq(Read(text, vault).tokenized, a, b) = value
    PROVE  \E i, j \in DOMAIN text :
               /\ SubSeq(text, i, j) = value
               /\ \E m \in Found(type, text) :
                      /\ m.start <= i /\ i <= m.end
                      /\ \/ NoName(m)
                         \/ \E k \in DOMAIN Read(text, vault).entities :
                                LET r == Read(text, vault).entities[k]
                                IN  r.match.type # m.type /\ Overlaps(m, r.match)
<1> DEFINE d == Read(text, vault)
           out == d.tokenized
           n == Len(text)
<1>1. d \in Dones(text) /\ Entered(text, d, n) /\ Runs(text, out, n)
  BY ReadIs
<1>2. /\ text \in Seq(Fragments \cup Tokens) /\ n \in Nat /\ DOMAIN text = 1 .. n
      /\ out \in Seq(Fragments \cup Tokens) /\ DOMAIN out = 1 .. Len(out) /\ Len(out) \in Nat
  BY <1>1 DEF Text, Dones
<1>3. SubSeq(out, a, b) = value /\ a \in 1 .. Len(out) /\ b \in 1 .. Len(out)
  BY <1>2
<1>4. value \in Seq(Fragments)
  BY LanguageWords
<1> HIDE DEF d, out, n
<1>5. b \in a .. Len(out) /\ Len(value) = b - a + 1
  <2>1. a <= b
    <3>1. CASE b < a
      <4>1. Len(SubSeq(out, a, b)) = 0
        BY <1>2, <1>3, <3>1
      <4> QED
        BY <4>1, <1>3
    <3> QED
      BY <3>1, <1>2, <1>3
  <2> QED
    BY <2>1, <1>2, <1>3
<1>6. \A k \in a .. b : k - a + 1 \in 1 .. Len(value) /\ out[k] = value[k - a + 1]
  <2> SUFFICES ASSUME NEW k \in a .. b
               PROVE  k - a + 1 \in 1 .. Len(value) /\ out[k] = value[k - a + 1]
    OBVIOUS
  <2>1. k - a + 1 \in 1 .. b - a + 1 /\ a + (k - a + 1) - 1 = k
    BY <1>2, <1>3, <1>5
  <2>2. SubSeq(out, a, b)[k - a + 1] = out[a + (k - a + 1) - 1]
    BY <1>2, <1>3, <1>5, <2>1
  <2> QED
    BY <1>3, <1>5, <2>1, <2>2
<1>7. \A k \in a .. b : out[k] \in Fragments
  <2>1. \A j \in 1 .. Len(value) : value[j] \in Fragments
    BY <1>4, ElementOfSeq
  <2> QED
    BY <2>1, <1>6
<1>8. Stretch(text, out, a, b, n)
  BY <1>1, <1>3, <1>5, <1>7 DEF Runs
<1>9. PICK p \in 1 .. n : \A k \in a .. b : /\ p + (k - a) \in 1 .. n
                                            /\ out[k] = text[p + (k - a)]
                                            /\ Here(text, p + (k - a)) = {}
  BY <1>8 DEF Stretch
<1> DEFINE q == p + (b - a)
<1>10. q \in 1 .. n /\ p <= q /\ Here(text, p) = {} /\ q - p + 1 = Len(value)
  <2>1. a \in a .. b /\ b \in a .. b /\ p + (a - a) = p /\ p <= p + (b - a)
    BY <1>3, <1>5
  <2> QED
    BY <2>1, <1>5, <1>9
<1>11. SubSeq(text, p, q) = value
  <2>1. SubSeq(text, p, q) \in Seq(Fragments \cup Tokens) /\ Len(SubSeq(text, p, q)) = Len(value)
    BY <1>2, <1>10
  <2>2. ASSUME NEW k \in 1 .. Len(value) PROVE SubSeq(text, p, q)[k] = value[k]
    <3>1. (a + k) - 1 \in a .. b /\ ((a + k) - 1) - a + 1 = k
          /\ p + (((a + k) - 1) - a) = (p + k) - 1
      BY <1>3, <1>5
    <3>2. out[(a + k) - 1] = value[k] /\ out[(a + k) - 1] = text[(p + k) - 1]
      BY <3>1, <1>6, <1>9
    <3>3. SubSeq(text, p, q)[k] = text[(p + k) - 1]
      BY <1>2, <1>10
    <3> QED
      BY <3>2, <3>3
  <2> HIDE DEF q
  <2> QED
    BY <2>1, <2>2, <1>4
<1> HIDE DEF q
<1>12. PICK m \in Found(type, text) : m.start <= p /\ p <= m.end
  <2>1. p \in 1 .. n /\ q \in p .. n /\ SubSeq(text, p, q) \in Language(type)
    BY <1>2, <1>10, <1>11
  <2>2. FoundUpTo(type, Language(type), text, Found(type, text), n)
    BY ScanFinds DEF Found, n
  <2> QED
    BY <2>1, <2>2 DEF FoundUpTo, n
<1>13. m \notin RawMatches(text)
  BY <1>10, <1>12 DEF Here
<1>14. m.type = type
  BY <1>12, FoundIs
<1>15. NoName(m) \/ \E other \in RawMatches(text) : other.type # m.type /\ Overlaps(m, other)
  <2>1. PICK i \in 1 .. 8 : PATTERNS[i] = type
    BY PatternsIs
  <2> QED
    BY <2>1, <1>13, MatchesClaim DEF ClaimedUpTo
<1>16. ASSUME NEW other \in RawMatches(text)
       PROVE  \E k \in DOMAIN d.entities : d.entities[k].match = other
  <2>1. other.start <= n
    BY MatchIs, <1>2 DEF IsMatch, n
  <2> QED
    BY <2>1, <1>1 DEF Entered
<1>17. NoName(m) \/ \E k \in DOMAIN d.entities : /\ d.entities[k].match.type # m.type
                                                 /\ Overlaps(m, d.entities[k].match)
  BY <1>15, <1>16
<1>18. p \in DOMAIN text /\ q \in DOMAIN text
  BY <1>2, <1>10
<1> QED
  BY <1>11, <1>12, <1>17, <1>18 DEF d

-------------------------------------------------------------------------------
(* Substitution. *)

\* What holds of the empty sequence and goes on holding as a sequence grows holds of all.
LEMMA Growth ==
    ASSUME NEW A, NEW text \in Seq(A), NEW S, << >> \in S,
           \A c \in Seq(A), x \in A : c \in S => Append(c, x) \in S
    PROVE  text \in S
<1> DEFINE n == Len(text)
           I == {i \in Nat : SubSeq(text, 1, i) \in S}
<1>1. n \in Nat /\ DOMAIN text = 1 .. n /\ \A i \in 1 .. n : text[i] \in A
  BY LenProperties, ElementOfSeq
<1> HIDE DEF n
<1>2. 0 \in I
  <2>1. SubSeq(text, 1, 0) = << >>
    BY SubSeqEmpty
  <2> QED
    BY <2>1
<1>3. \A i \in 0 .. n - 1 : i \in I => i + 1 \in I
  <2> SUFFICES ASSUME NEW i \in 0 .. n - 1, SubSeq(text, 1, i) \in S
               PROVE  SubSeq(text, 1, i + 1) \in S
    OBVIOUS
  <2> DEFINE c == SubSeq(text, 1, i)
             x == text[i + 1]
  <2>1. i + 1 \in 1 .. n /\ i \in Int /\ \A k \in 1 .. i : k \in 1 .. n
    BY <1>1
  <2>2. c \in Seq(A) /\ x \in A
    <3>1. \A k \in 1 .. i : text[k] \in A
      BY <1>1, <2>1
    <3> QED
      BY <1>1, <2>1, <3>1, SubSeqProperties
  <2>3. SubSeq(text, 1, i + 1) = c \o <<x>>
    <3>1. 1 \in 1 .. Len(text) /\ i + 1 \in 1 .. Len(text) /\ (i + 1) - 1 = i
      BY <1>1, <2>1 DEF n
    <3>2. SubSeq(text, 1, i + 1) = SubSeq(text, 1, (i + 1) - 1) \o <<text[i + 1]>>
      BY <3>1, SubSeqRecursiveSecond
    <3> QED
      BY <3>1, <3>2
  <2> HIDE DEF c, x
  <2>4. Append(c, x) = c \o <<x>>
    BY <2>2, AppendIsConcat
  <2>5. c \in S
    BY DEF c
  <2> QED
    BY <2>2, <2>3, <2>4, <2>5
<1>4. \A i \in 0 .. n : i \in I
  <2> HIDE DEF I
  <2> QED
    BY <1>1, <1>2, <1>3, Induction
<1>5. SubSeq(text, 1, n) = text
  BY SubSeqFull DEF n
<1>6. n \in I
  BY <1>1, <1>4
<1> QED
  BY <1>5, <1>6

LEMMA TextAssoc ==
    ASSUME NEW a \in Text, NEW b \in Text, NEW c \in Text
    PROVE  (a \o b) \o c = a \o (b \o c)
<1> DEFINE A == Fragments \cup Tokens
<1>1. Text = Seq(A)
  BY DEF Text
<1> HIDE DEF A
<1> QED
  BY <1>1, ConcatAssociative

LEMMA TextIs ==
    /\ << >> \in Text
    /\ \A x \in Fragments \cup Tokens : <<x>> \in Text /\ << >> \o <<x>> = <<x>>
    /\ \A a \in Text, x \in Fragments \cup Tokens : Append(a, x) = a \o <<x>> /\ Append(a, x) \in Text
    /\ \A a, b \in Text : a \o b \in Text /\ a \o << >> = a /\ << >> \o a = a
<1> DEFINE A == Fragments \cup Tokens
<1>1. Text = Seq(A) /\ << >> \in Text
  BY DEF Text
<1> HIDE DEF A
<1>2. \A x \in A : <<x>> \in Text /\ << >> \o <<x>> = <<x>>
  <2>1. \A x \in A : <<x>> \in Text
    BY <1>1
  <2> QED
    BY <2>1, <1>1, ConcatEmptySeq
<1>3. \A a \in Text, x \in A : Append(a, x) = a \o <<x>> /\ Append(a, x) \in Text
  BY <1>1, AppendIsConcat, AppendProperties
<1>4. \A a, b \in Text : a \o b \in Text /\ a \o << >> = a /\ << >> \o a = a
  BY <1>1, ConcatProperties, ConcatEmptySeq
<1> QED
  BY <1>1, <1>2, <1>3, <1>4 DEF A

Image(e, x) == IF x = e.token THEN e.original ELSE <<x>>

LEMMA ImageTyped ==
    ASSUME NEW e \in Entries, NEW x \in Fragments \cup Tokens
    PROVE  Image(e, x) \in Text
BY TextIs DEF Image, Entries

\* A substitution, element after element.
SubTrace(f, text, e) ==
    /\ f \in [0 .. Len(text) -> Text]
    /\ f[0] = << >> /\ f[Len(text)] = Substitute(text, e)
    /\ \A i \in 1 .. Len(text) : f[i] = f[i - 1] \o Image(e, text[i])

LEMMA SubSteps ==
    ASSUME NEW text \in Text, NEW e \in Entries
    PROVE  \E f : SubTrace(f, text, e)
<1> DEFINE n == Len(text)
           E == Fragments \cup Tokens
           V == Text
           seq == text
           Op(v, x) == v \o Image(e, x)
           base == << >>
           g == [p \in V \X E |-> Op(p[1], p[2])]
           Rec(h) == h = [s \in SUBSET DOMAIN seq |->
                             IF s = {} THEN base ELSE Op(h[s \ {Max(s)}], seq[Max(s)])]
<1>1. n \in Nat /\ DOMAIN seq = 1 .. n /\ \A i \in 1 .. n : seq[i] \in E
  BY DEF Text
<1>2. \A v \in V, x \in E : Op(v, x) \in V
  BY ImageTyped, TextIs
<1>3. base \in V
  BY TextIs
<1> HIDE DEF n, E, V, seq, Op, base
<1>4. g \in [V \X E -> V] /\ \A v \in V, x \in E : g[<<v, x>>] = Op(v, x)
  BY <1>2
<1> HIDE DEF g
<1>5. \E h : Rec(h)
  <2>1. PICK h : Unrolls(h, n, V, E, base, g, seq)
    BY <1>1, <1>3, <1>4, Unrolled
  <2>2. \A s \in SUBSET (1 .. n) :
            h[s] = IF s = {} THEN base ELSE Op(h[s \ {Max(s)}], seq[Max(s)])
    BY <1>4, <2>1 DEF Unrolls
  <2>3. Rec(h)
    BY <1>1, <2>1, <2>2 DEF Unrolls
  <2> QED
    BY <2>3
<1>6. PICK h : Rec(h) /\ Substitute(text, e) = h[DOMAIN seq]
  <2>1. Substitute(text, e) = (CHOOSE h : Rec(h))[DOMAIN seq]
    BY DEF Substitute, Image, FoldLeft, MapThenFoldSet, Op, seq, base
  <2> QED
    BY <2>1, <1>5
<1>7. h[{}] = base
  BY <1>1, <1>6
<1>8. ASSUME NEW i \in 1 .. n PROVE h[1 .. i] = Op(h[1 .. i - 1], seq[i])
  <2>1. /\ 1 .. i \in SUBSET DOMAIN seq /\ 1 .. i # {}
        /\ Max(1 .. i) = i /\ (1 .. i) \ {i} = 1 .. i - 1
    BY <1>1, Upto
  <2>2. h[1 .. i] = Op(h[(1 .. i) \ {Max(1 .. i)}], seq[Max(1 .. i)])
    BY <1>6, <2>1
  <2> QED
    BY <1>1, <2>1, <2>2
<1>9. \A i \in 1 .. n : h[1 .. i - 1] \in V => h[1 .. i] = g[<<h[1 .. i - 1], seq[i]>>]
  BY <1>1, <1>4, <1>8
<1>10. PICK f : FoldTrace(f, h, n, V, E, base, g, seq)
  BY <1>1, <1>3, <1>4, <1>7, <1>9, Traced
<1>11. /\ f \in [0 .. n -> V] /\ f[0] = base /\ f[n] = Substitute(text, e)
       /\ \A i \in 1 .. n : f[i] = Op(f[i - 1], seq[i])
  BY <1>1, <1>4, <1>6, <1>10 DEF FoldTrace
<1> QED
  BY <1>1, <1>11 DEF n, V, base, seq, Op, SubTrace

LEMMA SubAppend ==
    ASSUME NEW text \in Text, NEW x \in Fragments \cup Tokens, NEW e \in Entries
    PROVE  Substitute(Append(text, x), e) = Substitute(text, e) \o Image(e, x)
<1> DEFINE n == Len(text)
           more == Append(text, x)
<1>1. /\ n \in Nat /\ more \in Text /\ Len(more) = n + 1 /\ more[n + 1] = x
      /\ \A i \in 1 .. n : more[i] = text[i]
  BY DEF Text
<1> HIDE DEF n, more
<1>2. PICK f : SubTrace(f, text, e)
  BY SubSteps
<1>3. PICK h : SubTrace(h, more, e)
  BY <1>1, SubSteps
<1>4. /\ f[0] = << >> /\ f[n] = Substitute(text, e)
      /\ \A i \in 1 .. n : f[i] = f[i - 1] \o Image(e, text[i])
  BY <1>2 DEF SubTrace, n
<1>5. /\ h[0] = << >> /\ h[n + 1] = Substitute(more, e)
      /\ \A i \in 1 .. n + 1 : h[i] = h[i - 1] \o Image(e, more[i])
  BY <1>1, <1>3 DEF SubTrace
<1> DEFINE S == {i \in Nat : h[i] = f[i]}
<1>6. 0 \in S
  BY <1>4, <1>5
<1>7. \A i \in 0 .. n - 1 : i \in S => i + 1 \in S
  <2> SUFFICES ASSUME NEW i \in 0 .. n - 1, h[i] = f[i] PROVE h[i + 1] = f[i + 1]
    OBVIOUS
  <2>1. i + 1 \in 1 .. n /\ i + 1 \in 1 .. n + 1 /\ (i + 1) - 1 = i
    BY <1>1
  <2> QED
    BY <2>1, <1>1, <1>4, <1>5
<1>8. \A i \in 0 .. n : i \in S
  <2> HIDE DEF S
  <2> QED
    BY <1>1, <1>6, <1>7, Induction
<1>9. h[n] = f[n]
  BY <1>1, <1>8
<1>10. n + 1 \in 1 .. n + 1 /\ (n + 1) - 1 = n
  BY <1>1
<1> QED
  BY <1>1, <1>4, <1>5, <1>9, <1>10 DEF more

LEMMA SubEmpty == ASSUME NEW e \in Entries PROVE Substitute(<< >>, e) = << >>
<1>1. << >> \in Text /\ Len(<< >>) = 0
  BY TextIs
<1>2. PICK f : SubTrace(f, << >>, e)
  BY <1>1, SubSteps
<1> QED
  BY <1>1, <1>2 DEF SubTrace

LEMMA SubTyped ==
    ASSUME NEW text \in Text, NEW e \in Entries PROVE Substitute(text, e) \in Text
<1>1. PICK f : SubTrace(f, text, e)
  BY SubSteps
<1>2. Len(text) \in 0 .. Len(text)
  BY DEF Text
<1> QED
  BY <1>1, <1>2 DEF SubTrace

LEMMA SubOne ==
    ASSUME NEW x \in Fragments \cup Tokens, NEW e \in Entries
    PROVE  Substitute(<<x>>, e) = Image(e, x)
<1>1. Append(<< >>, x) = <<x>> /\ << >> \in Text
  BY TextIs
<1>2. Substitute(Append(<< >>, x), e) = << >> \o Image(e, x)
  BY <1>1, SubAppend, SubEmpty
<1>3. << >> \o Image(e, x) = Image(e, x)
  BY ImageTyped, TextIs
<1> QED
  BY <1>1, <1>2, <1>3

\* Texts that stand beside one another are substituted beside one another.
LEMMA SubConcat ==
    ASSUME NEW a \in Text, NEW b \in Text, NEW e \in Entries
    PROVE  Substitute(a \o b, e) = Substitute(a, e) \o Substitute(b, e)
<1> DEFINE S == {c \in Text : Substitute(a \o c, e) = Substitute(a, e) \o Substitute(c, e)}
           A == Fragments \cup Tokens
<1>1. << >> \in S
  BY TextIs, SubEmpty, SubTyped
<1>2. ASSUME NEW c \in Text, NEW x \in A, c \in S
      PROVE  Append(c, x) \in S
  <2>1. Append(c, x) \in Text /\ Append(c, x) = c \o <<x>> /\ <<x>> \in Text
    BY TextIs
  <2>2. a \o Append(c, x) = Append(a \o c, x) /\ a \o c \in Text
    <3>1. a \o c \in Text /\ Append(a \o c, x) = (a \o c) \o <<x>>
      BY TextIs
    <3>2. (a \o c) \o <<x>> = a \o (c \o <<x>>)
      BY <2>1, TextAssoc
    <3> QED
      BY <2>1, <3>1, <3>2
  <2>3. Substitute(Append(a \o c, x), e) = Substitute(a \o c, e) \o Image(e, x)
    BY <2>2, SubAppend
  <2>4. Substitute(Append(c, x), e) = Substitute(c, e) \o Image(e, x)
    BY SubAppend
  <2>5. (Substitute(a, e) \o Substitute(c, e)) \o Image(e, x)
            = Substitute(a, e) \o (Substitute(c, e) \o Image(e, x))
    <3>1. Substitute(a, e) \in Text /\ Substitute(c, e) \in Text /\ Image(e, x) \in Text
      BY SubTyped, ImageTyped
    <3> QED
      BY <3>1, TextAssoc
  <2> QED
    BY <1>2, <2>1, <2>2, <2>3, <2>4, <2>5
<1> HIDE DEF S
<1>3. b \in S
  <2>1. Text = Seq(A)
    BY DEF Text
  <2> HIDE DEF A
  <2> QED
    BY <1>1, <1>2, <2>1, Growth
<1> QED
  BY <1>3 DEF S

LEMMA SubWords ==
    ASSUME NEW words \in Seq(Fragments), NEW e \in Entries
    PROVE  Substitute(words, e) = words
<1> DEFINE S == {c \in Seq(Fragments) : Substitute(c, e) = c}
<1>1. << >> \in S
  BY SubEmpty
<1>2. ASSUME NEW c \in Seq(Fragments), NEW x \in Fragments, c \in S
      PROVE  Append(c, x) \in S
  <2>1. c \in Text /\ x \in Fragments \cup Tokens /\ Append(c, x) \in Seq(Fragments)
    BY WordsAreText
  <2>2. Image(e, x) = <<x>>
    BY BrowserTokenizerAssumption DEF Image, Entries
  <2>3. Substitute(Append(c, x), e) = c \o <<x>>
    BY <1>2, <2>1, <2>2, SubAppend
  <2> QED
    BY <2>1, <2>3, TextIs
<1> HIDE DEF S
<1>3. words \in S
  BY <1>1, <1>2, Growth
<1> QED
  BY <1>3 DEF S

Expand(text, list) == FoldLeft(Substitute, text, list)

\* The substitutions of a list, one after the other.
ExpandTrace(f, text, list) ==
    /\ f \in [0 .. Len(list) -> Text]
    /\ f[0] = text /\ f[Len(list)] = Expand(text, list)
    /\ \A i \in 1 .. Len(list) : f[i] = Substitute(f[i - 1], list[i])

LEMMA ExpandSteps ==
    ASSUME NEW text \in Text, NEW list \in Seq(Entries)
    PROVE  \E f : ExpandTrace(f, text, list)
<1> DEFINE n == Len(list)
           E == Entries
           V == Text
           seq == list
           Op(v, e) == Substitute(v, e)
           base == text
           g == [p \in V \X E |-> Op(p[1], p[2])]
           Rec(h) == h = [s \in SUBSET DOMAIN seq |->
                             IF s = {} THEN base ELSE Op(h[s \ {Max(s)}], seq[Max(s)])]
<1>1. n \in Nat /\ DOMAIN seq = 1 .. n /\ \A i \in 1 .. n : seq[i] \in E
  OBVIOUS
<1>2. \A v \in V, e \in E : Op(v, e) \in V
  BY SubTyped
<1>3. base \in V
  OBVIOUS
<1> HIDE DEF n, E, V, seq, Op, base
<1>4. g \in [V \X E -> V] /\ \A v \in V, e \in E : g[<<v, e>>] = Op(v, e)
  BY <1>2
<1> HIDE DEF g
<1>5. \E h : Rec(h)
  <2>1. PICK h : Unrolls(h, n, V, E, base, g, seq)
    BY <1>1, <1>3, <1>4, Unrolled
  <2>2. \A s \in SUBSET (1 .. n) :
            h[s] = IF s = {} THEN base ELSE Op(h[s \ {Max(s)}], seq[Max(s)])
    BY <1>4, <2>1 DEF Unrolls
  <2>3. Rec(h)
    BY <1>1, <2>1, <2>2 DEF Unrolls
  <2> QED
    BY <2>3
<1>6. PICK h : Rec(h) /\ Expand(text, list) = h[DOMAIN seq]
  <2>1. Expand(text, list) = (CHOOSE h : Rec(h))[DOMAIN seq]
    BY DEF Expand, FoldLeft, MapThenFoldSet, Op, seq, base
  <2> QED
    BY <2>1, <1>5
<1>7. h[{}] = base
  BY <1>1, <1>6
<1>8. ASSUME NEW i \in 1 .. n PROVE h[1 .. i] = Op(h[1 .. i - 1], seq[i])
  <2>1. /\ 1 .. i \in SUBSET DOMAIN seq /\ 1 .. i # {}
        /\ Max(1 .. i) = i /\ (1 .. i) \ {i} = 1 .. i - 1
    BY <1>1, Upto
  <2>2. h[1 .. i] = Op(h[(1 .. i) \ {Max(1 .. i)}], seq[Max(1 .. i)])
    BY <1>6, <2>1
  <2> QED
    BY <1>1, <2>1, <2>2
<1>9. \A i \in 1 .. n : h[1 .. i - 1] \in V => h[1 .. i] = g[<<h[1 .. i - 1], seq[i]>>]
  BY <1>1, <1>4, <1>8
<1>10. PICK f : FoldTrace(f, h, n, V, E, base, g, seq)
  BY <1>1, <1>3, <1>4, <1>7, <1>9, Traced
<1>11. /\ f \in [0 .. n -> V] /\ f[0] = base /\ f[n] = Expand(text, list)
       /\ \A i \in 1 .. n : f[i] = Op(f[i - 1], seq[i])
  BY <1>1, <1>4, <1>6, <1>10 DEF FoldTrace
<1> QED
  BY <1>1, <1>11 DEF n, V, base, seq, Op, ExpandTrace

LEMMA ExpandTyped ==
    ASSUME NEW text \in Text, NEW list \in Seq(Entries) PROVE Expand(text, list) \in Text
<1>1. PICK f : ExpandTrace(f, text, list)
  BY ExpandSteps
<1>2. Len(list) \in 0 .. Len(list)
  OBVIOUS
<1> QED
  BY <1>1, <1>2 DEF ExpandTrace

LEMMA ExpandConcat ==
    ASSUME NEW a \in Text, NEW b \in Text, NEW list \in Seq(Entries)
    PROVE  Expand(a \o b, list) = Expand(a, list) \o Expand(b, list)
<1> DEFINE n == Len(list)
<1>1. n \in Nat /\ \A i \in 1 .. n : list[i] \in Entries
  OBVIOUS
<1>2. a \o b \in Text
  BY TextIs
<1>3. PICK f : ExpandTrace(f, a, list)
  BY ExpandSteps
<1>4. PICK g : ExpandTrace(g, b, list)
  BY ExpandSteps
<1>5. PICK h : ExpandTrace(h, a \o b, list)
  BY <1>2, ExpandSteps
<1>6. /\ f[0] = a /\ g[0] = b /\ h[0] = a \o b
      /\ f[n] = Expand(a, list) /\ g[n] = Expand(b, list) /\ h[n] = Expand(a \o b, list)
      /\ f \in [0 .. n -> Text] /\ g \in [0 .. n -> Text]
      /\ \A i \in 1 .. n : f[i] = Substitute(f[i - 1], list[i])
      /\ \A i \in 1 .. n : g[i] = Substitute(g[i - 1], list[i])
      /\ \A i \in 1 .. n : h[i] = Substitute(h[i - 1], list[i])
  BY <1>3, <1>4, <1>5 DEF ExpandTrace
<1> HIDE DEF n
<1> DEFINE P(i) == h[i] = f[i] \o g[i]
           S == {i \in Nat : P(i)}
<1>7. P(0)
  BY <1>6
<1>8. ASSUME NEW i \in 0 .. n - 1, P(i) PROVE P(i + 1)
  <2>1. i + 1 \in 1 .. n /\ (i + 1) - 1 = i /\ i \in 0 .. n
    BY <1>1
  <2>2. f[i] \in Text /\ g[i] \in Text /\ list[i + 1] \in Entries
    BY <1>1, <1>6, <2>1
  <2>3. Substitute(f[i] \o g[i], list[i + 1])
            = Substitute(f[i], list[i + 1]) \o Substitute(g[i], list[i + 1])
    BY <2>2, SubConcat
  <2>4. h[i] = f[i] \o g[i] /\ h[i + 1] = Substitute(h[i], list[i + 1])
    BY <1>6, <1>8, <2>1
  <2>5. f[i + 1] = Substitute(f[i], list[i + 1]) /\ g[i + 1] = Substitute(g[i], list[i + 1])
    BY <1>6, <2>1
  <2> QED
    BY <2>3, <2>4, <2>5
<1> HIDE DEF P
<1>9. 0 \in S /\ \A i \in 0 .. n - 1 : i \in S => i + 1 \in S
  BY <1>7, <1>8
<1>10. \A i \in 0 .. n : i \in S
  <2> HIDE DEF S
  <2> QED
    BY <1>1, <1>9, Induction
<1>11. P(n)
  BY <1>1, <1>10
<1> QED
  BY <1>6, <1>11 DEF P

LEMMA ExpandWords ==
    ASSUME NEW words \in Seq(Fragments), NEW list \in Seq(Entries)
    PROVE  Expand(words, list) = words
<1> DEFINE n == Len(list)
<1>1. n \in Nat /\ \A i \in 1 .. n : list[i] \in Entries
  OBVIOUS
<1>2. PICK f : ExpandTrace(f, words, list)
  BY WordsAreText, ExpandSteps
<1>3. /\ f[0] = words /\ f[n] = Expand(words, list)
      /\ \A i \in 1 .. n : f[i] = Substitute(f[i - 1], list[i])
  BY <1>2 DEF ExpandTrace
<1> HIDE DEF n
<1> DEFINE S == {i \in Nat : f[i] = words}
<1>4. 0 \in S
  BY <1>3
<1>5. \A i \in 0 .. n - 1 : i \in S => i + 1 \in S
  <2> SUFFICES ASSUME NEW i \in 0 .. n - 1, f[i] = words PROVE f[i + 1] = words
    OBVIOUS
  <2>1. i + 1 \in 1 .. n /\ (i + 1) - 1 = i
    BY <1>1
  <2> QED
    BY <1>1, <1>3, <2>1, SubWords
<1>6. \A i \in 0 .. n : i \in S
  <2> HIDE DEF S
  <2> QED
    BY <1>1, <1>4, <1>5, Induction
<1> QED
  BY <1>1, <1>3, <1>6

\* A list in which no token comes twice, of originals made of fragments.
Legend(list) ==
    /\ list \in Seq(Entries)
    /\ \A i \in DOMAIN list : list[i].original \in Seq(Fragments)
    /\ \A i, j \in DOMAIN list : list[i].token = list[j].token => i = j

\* With such a list a token is replaced by its own original.
LEMMA ExpandToken ==
    ASSUME NEW list, Legend(list), NEW k \in DOMAIN list
    PROVE  Expand(<<list[k].token>>, list) = list[k].original
<1> DEFINE n == Len(list)
           token == list[k].token
           words == list[k].original
<1>1. /\ n \in Nat /\ DOMAIN list = 1 .. n /\ \A i \in 1 .. n : list[i] \in Entries
      /\ list \in Seq(Entries) /\ k \in 1 .. n
  BY DEF Legend
<1>2. /\ words \in Seq(Fragments) /\ \A i \in 1 .. n : i # k => list[i].token # token
  BY <1>1 DEF Legend
<1>3. token \in Fragments \cup Tokens /\ <<token>> \in Text
  <2>1. token \in Tokens
    BY <1>1 DEF Entries
  <2> QED
    BY <2>1, TextIs
<1> HIDE DEF n, token, words
<1>4. PICK f : ExpandTrace(f, <<token>>, list)
  BY <1>1, <1>3, ExpandSteps
<1>5. /\ f[0] = <<token>> /\ f[n] = Expand(<<token>>, list)
      /\ \A i \in 1 .. n : f[i] = Substitute(f[i - 1], list[i])
  BY <1>4 DEF ExpandTrace, n
<1> DEFINE S == {i \in Nat : f[i] = IF i < k THEN <<token>> ELSE words}
<1>6. 0 \in S
  BY <1>1, <1>5
<1>7. \A i \in 0 .. n - 1 : i \in S => i + 1 \in S
  <2> SUFFICES ASSUME NEW i \in 0 .. n - 1, f[i] = IF i < k THEN <<token>> ELSE words
               PROVE  f[i + 1] = IF i + 1 < k THEN <<token>> ELSE words
    OBVIOUS
  <2>1. /\ i + 1 \in 1 .. n /\ (i + 1) - 1 = i /\ list[i + 1] \in Entries
        /\ f[i + 1] = Substitute(f[i], list[i + 1])
    BY <1>1, <1>5
  <2>2. Substitute(<<token>>, list[i + 1]) = Image(list[i + 1], token)
    BY <1>3, <2>1, SubOne
  <2>3. CASE i + 1 < k
    <3>1. f[i] = <<token>> /\ list[i + 1].token # token
      BY <1>1, <1>2, <2>1, <2>3
    <3>2. Image(list[i + 1], token) = <<token>>
      BY <3>1 DEF Image
    <3> QED
      BY <2>1, <2>2, <2>3, <3>1, <3>2
  <2>4. CASE i + 1 = k
    <3>1. f[i] = <<token>>
      BY <1>1, <2>4
    <3>2. Image(list[i + 1], token) = words
      BY <2>4 DEF Image, token, words
    <3> QED
      BY <2>1, <2>2, <2>4, <3>1, <3>2, <1>1
  <2>5. CASE i + 1 > k
    <3>1. f[i] = words /\ ~(i + 1 < k)
      BY <1>1, <2>5
    <3> QED
      BY <2>1, <3>1, <1>2, SubWords
  <2> QED
    BY <1>1, <2>3, <2>4, <2>5
<1>8. \A i \in 0 .. n : i \in S
  <2> HIDE DEF S
  <2> QED
    BY <1>1, <1>6, <1>7, Induction
<1>9. f[n] = words
  BY <1>1, <1>8
<1> QED
  BY <1>5, <1>9 DEF token, words

-------------------------------------------------------------------------------
(* Reading back. *)

LEMMA SameUpto == ASSUME NEW m \in Nat, NEW n \in Nat, 1 .. m = 1 .. n PROVE m = n
<1>1. CASE m < n
  <2>1. n \in 1 .. n /\ n \notin 1 .. m
    BY <1>1
  <2> QED
    BY <2>1
<1>2. CASE n < m
  <2>1. m \in 1 .. m /\ m \notin 1 .. n
    BY <1>2
  <2> QED
    BY <2>1
<1> QED
  BY <1>1, <1>2

LEMMA LoweredConcat ==
    ASSUME NEW a \in Text, NEW b \in Text
    PROVE  Lowered(a \o b) = Lowered(a) \o Lowered(b)
<1> DEFINE A == Fragments \cup Tokens
           x == Lowered(a)
           y == Lowered(b)
           z == Lowered(a \o b)
<1>1. Text = Seq(A) /\ a \o b \in Text
  BY TextIs DEF Text
<1>2. x \in Text /\ y \in Text /\ z \in Text
  BY <1>1, LoweredTyped
<1>3. DOMAIN x = DOMAIN a /\ DOMAIN y = DOMAIN b /\ DOMAIN z = DOMAIN (a \o b)
  BY <1>1, LoweredTyped
<1>4. /\ \A i \in DOMAIN a : x[i] = IF a[i] \in Fragments THEN Lower[a[i]] ELSE a[i]
      /\ \A i \in DOMAIN b : y[i] = IF b[i] \in Fragments THEN Lower[b[i]] ELSE b[i]
      /\ \A i \in DOMAIN (a \o b) :
             z[i] = IF (a \o b)[i] \in Fragments THEN Lower[(a \o b)[i]] ELSE (a \o b)[i]
  BY DEF Lowered
<1> HIDE DEF A, x, y, z
<1>5. /\ Len(a) \in Nat /\ Len(b) \in Nat /\ Len(x) = Len(a) /\ Len(y) = Len(b)
      /\ DOMAIN a = 1 .. Len(a) /\ DOMAIN b = 1 .. Len(b)
      /\ Len(a \o b) = Len(a) + Len(b) /\ DOMAIN (a \o b) = 1 .. Len(a) + Len(b)
      /\ Len(z) = Len(a) + Len(b)
  <2>1. /\ Len(a) \in Nat /\ DOMAIN a = 1 .. Len(a) /\ Len(b) \in Nat /\ DOMAIN b = 1 .. Len(b)
        /\ Len(x) \in Nat /\ DOMAIN x = 1 .. Len(x) /\ Len(y) \in Nat /\ DOMAIN y = 1 .. Len(y)
        /\ Len(z) \in Nat /\ DOMAIN z = 1 .. Len(z)
        /\ DOMAIN (a \o b) = 1 .. Len(a \o b)
    BY <1>1, <1>2, LenProperties
  <2>2. Len(a \o b) = Len(a) + Len(b)
    BY <1>1, ConcatProperties
  <2>3. 1 .. Len(x) = 1 .. Len(a) /\ 1 .. Len(y) = 1 .. Len(b) /\ 1 .. Len(z) = 1 .. Len(a) + Len(b)
    BY <2>1, <2>2, <1>3
  <2>4. Len(x) = Len(a) /\ Len(y) = Len(b)
    BY <2>1, <2>3, SameUpto
  <2>5. Len(z) = Len(a) + Len(b)
    <3>1. Len(a) + Len(b) \in Nat /\ Len(z) \in Nat
      BY <2>1
    <3> QED
      BY ONLY <3>1, <2>3, SameUpto
  <2> QED
    BY <2>1, <2>2, <2>4, <2>5
<1>6. x \o y \in Seq(A) /\ Len(x \o y) = Len(a) + Len(b)
      /\ \A i \in 1 .. Len(a) + Len(b) : (x \o y)[i] = IF i <= Len(a) THEN x[i] ELSE y[i - Len(a)]
  <2>1. x \in Seq(A) /\ y \in Seq(A)
    BY <1>1, <1>2
  <2>2. /\ x \o y \in Seq(A) /\ Len(x \o y) = Len(x) + Len(y)
        /\ \A i \in 1 .. Len(x) + Len(y) : (x \o y)[i] = IF i <= Len(x) THEN x[i] ELSE y[i - Len(x)]
    BY ONLY <2>1, ConcatProperties
  <2>3. Len(x) = Len(a) /\ Len(y) = Len(b)
    BY <1>5
  <2> QED
    BY ONLY <2>2, <2>3
<1>7. \A i \in 1 .. Len(a) + Len(b) : (a \o b)[i] = IF i <= Len(a) THEN a[i] ELSE b[i - Len(a)]
  BY <1>1, <1>5, ConcatProperties
<1>8. ASSUME NEW i \in 1 .. Len(a) + Len(b) PROVE z[i] = (x \o y)[i]
  <2>1. CASE i <= Len(a)
    <3>1. i \in 1 .. Len(a)
      BY <2>1, <1>5
    <3> QED
      BY <2>1, <3>1, <1>4, <1>5, <1>6, <1>7
  <2>2. CASE ~(i <= Len(a))
    <3>1. i - Len(a) \in 1 .. Len(b)
      BY <2>2, <1>5
    <3> QED
      BY <2>2, <3>1, <1>4, <1>5, <1>6, <1>7
  <2> QED
    BY <2>1, <2>2
<1>9. z = x \o y
  BY <1>1, <1>2, <1>5, <1>6, <1>8, SeqEqual
<1> QED
  BY <1>9 DEF x, y, z

\* Two texts that a list expands to the same, up to the case of a fragment.
Same(a, b, list) == Lowered(Expand(a, list)) = Lowered(Expand(b, list))

LEMMA SameConcat ==
    ASSUME NEW list \in Seq(Entries), NEW a \in Text, NEW b \in Text, NEW c \in Text, NEW d \in Text,
           Same(a, b, list), Same(c, d, list)
    PROVE  Same(a \o c, b \o d, list)
<1> DEFINE ea == Expand(a, list)
           eb == Expand(b, list)
           ec == Expand(c, list)
           ed == Expand(d, list)
<1>1. ea \in Text /\ eb \in Text /\ ec \in Text /\ ed \in Text
  BY ExpandTyped
<1>2. Expand(a \o c, list) = ea \o ec /\ Expand(b \o d, list) = eb \o ed
  BY ExpandConcat
<1>3. Lowered(ea) = Lowered(eb) /\ Lowered(ec) = Lowered(ed)
  BY DEF Same
<1> HIDE DEF ea, eb, ec, ed
<1>4. Lowered(ea \o ec) = Lowered(ea) \o Lowered(ec) /\ Lowered(eb \o ed) = Lowered(eb) \o Lowered(ed)
  BY <1>1, LoweredConcat
<1> QED
  BY <1>2, <1>3, <1>4 DEF Same

LEMMA VaultLegend == ASSUME NEW v, Consistent(v) PROVE Legend(v.tokenToOrig)
<1>1. v.tokenToOrig \in Seq(Entries)
  BY DEF Consistent, Vaults
<1>2. \A i \in DOMAIN v.tokenToOrig : v.tokenToOrig[i].original \in Seq(Fragments)
  BY LanguageWords DEF Consistent, Listed
<1> QED
  BY <1>1, <1>2 DEF Legend, Consistent, Listed

\* A match's token expands to what the match does, up to its case.
LEMMA SameToken ==
    ASSUME NEW v, Consistent(v), NEW text \in Text, NEW m, IsMatch(m, text), NEW token \in Tokens,
           [key |-> Key(m), token |-> token] \in v.keyToToken
    PROVE  Same(<<token>>, m.original, v.tokenToOrig)
<1> DEFINE pair == [key |-> Key(m), token |-> token]
           list == v.tokenToOrig
<1>1. PICK k \in DOMAIN list : list[k].token = token
  <2>1. \A e \in v.keyToToken : \E i \in DOMAIN list : list[i].token = e.token
    BY DEF Consistent, Listed
  <2>2. pair.token = token
    OBVIOUS
  <2> QED
    BY <2>1, <2>2
<1> DEFINE e == list[k]
           other == [key |-> <<e.token.type, Lowered(e.original)>>, token |-> e.token]
<1>2. other \in v.keyToToken
  BY DEF Consistent, Listed
<1>3. other.key = pair.key
  <2>1. pair \in v.keyToToken /\ other.token = pair.token
    BY <1>1
  <2> HIDE DEF pair, other
  <2> QED
    BY <1>2, <2>1 DEF Consistent, OneToOne
<1>4. Lowered(e.original) = Lowered(m.original)
  BY <1>3 DEF Key
<1>5. Legend(list)
  BY VaultLegend
<1>6. Expand(<<token>>, list) = e.original
  BY <1>1, <1>5, ExpandToken
<1>7. Expand(m.original, list) = m.original
  <2>1. m.original \in Seq(Fragments) /\ list \in Seq(Entries)
    BY <1>5 DEF IsMatch, Legend
  <2> QED
    BY <2>1, ExpandWords
<1> QED
  BY <1>4, <1>6, <1>7 DEF Same

\* How much of the text the output stands for after i.
Reached(text, i, j) ==
    \/ Here(text, i) = {} /\ j = i
    \/ \E m \in Here(text, i) : j = m.end

StandsFor(out, text, i, list) ==
    \A j \in 0 .. Len(text) : Reached(text, i, j) => Same(out, SubSeq(text, 1, j), list)

LEMMA ReachedBefore ==
    ASSUME NEW text \in Text, NEW i \in DOMAIN text,
           \A m \in Here(text, i) : m.start = i
    PROVE  Reached(text, i - 1, i - 1)
<1>1. i \in Nat
  BY DEF Text
<1>2. CASE Here(text, i - 1) = {}
  BY <1>2 DEF Reached
<1>3. ASSUME NEW m \in Here(text, i - 1) PROVE Reached(text, i - 1, i - 1)
  <2>1. m \in RawMatches(text) /\ m.start <= i - 1 /\ i - 1 <= m.end
    BY DEF Here
  <2>2. m.start \in Nat /\ m.end \in Nat
    BY <2>1, MatchIs DEF IsMatch, Text
  <2>3. ~(i <= m.end)
    <3> SUFFICES ASSUME i <= m.end PROVE FALSE
      OBVIOUS
    <3>1. m \in Here(text, i)
      BY <1>1, <2>1, <2>2 DEF Here
    <3> QED
      BY <3>1, <1>1, <2>1, <2>2
  <2>4. m.end = i - 1
    BY <1>1, <2>1, <2>2, <2>3
  <2> QED
    BY <2>4 DEF Reached
<1> QED
  BY <1>2, <1>3

LEMMA PrefixIs ==
    ASSUME NEW text \in Text, NEW i \in 1 .. Len(text), NEW j \in i .. Len(text)
    PROVE  /\ SubSeq(text, 1, j) = SubSeq(text, 1, i - 1) \o SubSeq(text, i, j)
           /\ SubSeq(text, 1, i - 1) \in Text /\ SubSeq(text, i, j) \in Text
           /\ SubSeq(text, i, i) = <<text[i]>> /\ text[i] \in Fragments \cup Tokens
<1> DEFINE A == Fragments \cup Tokens
<1>1. Text = Seq(A) /\ Len(text) \in Nat /\ \A k \in 1 .. Len(text) : text[k] \in A
  BY DEF Text
<1> HIDE DEF A
<1>2. 1 \in 1 .. Len(text) + 1 /\ i - 1 \in 1 - 1 .. Len(text) /\ j \in i - 1 .. Len(text)
      /\ (i - 1) + 1 = i
  BY <1>1
<1>3. SubSeq(text, 1, i - 1) \o SubSeq(text, (i - 1) + 1, j) = SubSeq(text, 1, j)
  BY <1>1, <1>2, ConcatAdjacentSubSeq
<1>4. SubSeq(text, 1, i - 1) \in Seq(A)
  <2>1. i - 1 \in Int /\ 1 \in Int /\ \A k \in 1 .. i - 1 : text[k] \in A
    BY <1>1
  <2> QED
    BY <2>1, SubSeqProperties
<1>5. SubSeq(text, i, j) \in Seq(A)
  <2>1. i \in Int /\ j \in Int /\ \A k \in i .. j : text[k] \in A
    BY <1>1
  <2> QED
    BY <2>1, SubSeqProperties
<1>6. SubSeq(text, i, i) = <<text[i]>>
  <2>1. i \in i .. Len(text) /\ SubSeq(text, i, i - 1) = << >>
    BY <1>1, SubSeqEmpty
  <2>2. SubSeq(text, i, i) = SubSeq(text, i, i - 1) \o <<text[i]>>
    BY <1>1, <2>1, SubSeqRecursiveSecond
  <2>3. << >> \o <<text[i]>> = <<text[i]>>
    BY <1>1, TextIs DEF A
  <2> QED
    BY <2>1, <2>2, <2>3
<1> QED
  BY <1>1, <1>2, <1>3, <1>4, <1>5, <1>6 DEF A

LEMMA StandsNext ==
    ASSUME NEW text \in Text, NEW i \in DOMAIN text, NEW d \in Dones(text), NEW v, Consistent(v),
           CopyOrReplace(RawMatches(text), text, d, i).vault.keyToToken \subseteq v.keyToToken,
           StandsFor(d.tokenized, text, i - 1, v.tokenToOrig)
    PROVE  StandsFor(CopyOrReplace(RawMatches(text), text, d, i).tokenized, text, i, v.tokenToOrig)
<1> DEFINE d2 == CopyOrReplace(RawMatches(text), text, d, i)
           list == v.tokenToOrig
           out == d.tokenized
<1>1. \/ Here(text, i) = {} /\ d2 = Copied(d, text[i])
      \/ \E m \in RawMatches(text) : Here(text, i) = {m} /\ m.start = i /\ d2 = Replaced(m, d)
      \/ \E m \in RawMatches(text) : Here(text, i) = {m} /\ m.start < i /\ d2 = d
  BY CopyCases
<1> HIDE DEF d2
<1>2. /\ i \in 1 .. Len(text) /\ Len(text) \in Nat /\ text[i] \in Fragments \cup Tokens
      /\ i - 1 \in 0 .. Len(text) /\ out \in Text
  BY DEF Dones, Text
<1>3. list \in Seq(Entries) /\ d2.vault.keyToToken \subseteq v.keyToToken
  BY VaultLegend DEF Legend, d2
<1> HIDE DEF list, out
\* What is put behind the output stands for what comes next in the text.
<1>4. ASSUME \A m \in Here(text, i) : m.start = i, NEW j \in i .. Len(text),
             NEW x \in Fragments \cup Tokens, Same(<<x>>, SubSeq(text, i, j), list)
      PROVE  Same(Append(out, x), SubSeq(text, 1, j), list)
  <2>1. Reached(text, i - 1, i - 1)
    BY <1>4, ReachedBefore
  <2>2. Same(out, SubSeq(text, 1, i - 1), list)
    BY <1>2, <2>1 DEF StandsFor, list, out
  <2>3. /\ SubSeq(text, 1, j) = SubSeq(text, 1, i - 1) \o SubSeq(text, i, j)
        /\ SubSeq(text, 1, i - 1) \in Text /\ SubSeq(text, i, j) \in Text
    BY <1>2, PrefixIs
  <2>4. Append(out, x) = out \o <<x>> /\ <<x>> \in Text
    BY <1>2, TextIs
  <2>5. Same(out \o <<x>>, SubSeq(text, 1, i - 1) \o SubSeq(text, i, j), list)
    BY <1>2, <1>3, <1>4, <2>2, <2>3, <2>4, SameConcat
  <2> QED
    BY <2>3, <2>4, <2>5
<1>5. ASSUME Here(text, i) = {}, d2 = Copied(d, text[i])
      PROVE  StandsFor(d2.tokenized, text, i, list)
  <2>1. d2.tokenized = Append(out, text[i])
    BY <1>2, <1>5, CopiedIs DEF out
  <2>2. SubSeq(text, i, i) = <<text[i]>> /\ i \in i .. Len(text)
    BY <1>2, PrefixIs
  <2>3. Same(<<text[i]>>, SubSeq(text, i, i), list)
    BY <2>2 DEF Same
  <2>4. Same(Append(out, text[i]), SubSeq(text, 1, i), list)
    BY <1>2, <1>4, <1>5, <2>2, <2>3
  <2>5. \A j : Reached(text, i, j) => j = i
    BY <1>5 DEF Reached
  <2> QED
    BY <2>1, <2>4, <2>5 DEF StandsFor
<1>6. ASSUME NEW m \in RawMatches(text), Here(text, i) = {m}, m.start = i, d2 = Replaced(m, d)
      PROVE  StandsFor(d2.tokenized, text, i, list)
  <2> DEFINE token == TokenOf(m, d)
  <2>1. /\ token \in Tokens /\ Replaced(m, d).tokenized = Append(d.tokenized, token)
        /\ [key |-> Key(m), token |-> token] \in Replaced(m, d).vault.keyToToken
    BY ReplacedIs
  <2> HIDE DEF token
  <2>2. [key |-> Key(m), token |-> token] \in v.keyToToken /\ d2.tokenized = Append(out, token)
    BY <1>3, <1>6, <2>1 DEF out
  <2>3. IsMatch(m, text)
    BY MatchIs
  <2>4. m.original = SubSeq(text, i, m.end) /\ m.end \in i .. Len(text)
    BY <1>6, <2>3 DEF IsMatch
  <2>5. Same(<<token>>, m.original, list)
    BY <2>1, <2>2, <2>3, SameToken DEF list
  <2>6. Same(Append(out, token), SubSeq(text, 1, m.end), list)
    BY <1>4, <1>6, <2>1, <2>4, <2>5
  <2>7. \A j : Reached(text, i, j) => j = m.end
    BY <1>6 DEF Reached
  <2> QED
    BY <2>2, <2>6, <2>7 DEF StandsFor
<1>7. ASSUME NEW m \in RawMatches(text), Here(text, i) = {m}, m.start < i, d2 = d
      PROVE  StandsFor(d2.tokenized, text, i, list)
  <2>1. m \in Here(text, i - 1)
    <3>1. m.start \in Nat /\ m.end \in Nat
      BY MatchIs DEF IsMatch, Text
    <3>2. i <= m.end
      BY <1>7 DEF Here
    <3> QED
      BY <3>1, <3>2, <1>2, <1>7 DEF Here
  <2>2. \A j : Reached(text, i, j) => Reached(text, i - 1, j)
    BY <1>7, <2>1 DEF Reached
  <2>3. StandsFor(out, text, i - 1, list)
    BY DEF out, list
  <2> QED
    BY <1>7, <2>2, <2>3 DEF StandsFor, out
<1> QED
  BY <1>1, <1>5, <1>6, <1>7 DEF d2, list

\* Whatever vault has the tokens of a result, it reads the result back as the text.
LEMMA ReadsTrue ==
    ASSUME NEW text \in Text, NEW vault, Consistent(vault), NEW v, Consistent(v),
           Read(text, vault).vault.keyToToken \subseteq v.keyToToken
    PROVE  Same(Read(text, vault).tokenized, text, v.tokenToOrig)
<1> DEFINE n == Len(text)
           list == v.tokenToOrig
<1>1. PICK f : ReadTrace(f, text, vault)
  BY ReadSteps
<1>2. n \in Nat /\ DOMAIN text = 1 .. n
  BY DEF Text
<1>3. /\ f \in [0 .. n -> Dones(text)] /\ f[0] = Unread(vault) /\ f[n] = Read(text, vault)
      /\ \A i \in 1 .. n : f[i] = CopyOrReplace(RawMatches(text), text, f[i - 1], i)
  BY <1>1 DEF ReadTrace
<1> HIDE DEF n
<1> DEFINE P(i) == f[i].vault.keyToToken \subseteq v.keyToToken
                       => StandsFor(f[i].tokenized, text, i, list)
           S == {i \in Nat : P(i)}
<1>4. P(0)
  <2>1. ASSUME NEW j, Reached(text, 0, j) PROVE j = 0
    <3>1. ASSUME NEW m \in Here(text, 0) PROVE FALSE
      <4>1. m \in RawMatches(text) /\ m.start <= 0
        BY DEF Here
      <4>2. m.start \in 1 .. Len(text)
        BY <4>1, MatchIs DEF IsMatch
      <4> QED
        BY <4>1, <4>2
    <3> QED
      BY <2>1, <3>1 DEF Reached
  <2>2. SubSeq(text, 1, 0) = << >> /\ f[0].tokenized = << >>
    BY <1>3, SubSeqEmpty DEF Unread
  <2>3. Same(<< >>, << >>, list)
    BY DEF Same
  <2> QED
    BY <2>1, <2>2, <2>3 DEF StandsFor
<1>5. ASSUME NEW i \in 0 .. n - 1, P(i) PROVE P(i + 1)
  <2> SUFFICES ASSUME f[i + 1].vault.keyToToken \subseteq v.keyToToken
               PROVE  StandsFor(f[i + 1].tokenized, text, i + 1, list)
    OBVIOUS
  <2>1. i + 1 \in 1 .. n /\ (i + 1) - 1 = i /\ i \in 0 .. n /\ i + 1 \in DOMAIN text
    BY <1>2
  <2>2. f[i] \in Dones(text) /\ f[i + 1] = CopyOrReplace(RawMatches(text), text, f[i], i + 1)
    BY <1>3, <2>1
  <2>3. f[i].vault.keyToToken \subseteq f[i + 1].vault.keyToToken
    BY <2>1, <2>2, KeysKept
  <2>4. StandsFor(f[i].tokenized, text, i, list)
    BY <1>5, <2>3
  <2> QED
    BY <2>1, <2>2, <2>4, StandsNext
<1> HIDE DEF P
<1>6. 0 \in S /\ \A i \in 0 .. n - 1 : i \in S => i + 1 \in S
  BY <1>4, <1>5
<1>7. \A i \in 0 .. n : i \in S
  <2> HIDE DEF S
  <2> QED
    BY <1>2, <1>6, Induction
<1>8. P(n)
  BY <1>2, <1>7
<1>9. StandsFor(Read(text, vault).tokenized, text, n, list)
  BY <1>3, <1>8 DEF P
<1>10. Reached(text, n, n)
  <2>1. CASE Here(text, n) = {}
    BY <2>1 DEF Reached
  <2>2. ASSUME NEW m \in Here(text, n) PROVE Reached(text, n, n)
    <3>1. m \in RawMatches(text) /\ n <= m.end
      BY DEF Here
    <3>2. m.start \in Nat /\ m.end \in m.start .. n
      BY <3>1, MatchIs DEF IsMatch, n
    <3>3. m.end = n
      BY <3>1, <3>2, <1>2
    <3> QED
      BY <3>3 DEF Reached
  <2> QED
    BY <2>1, <2>2
<1>11. SubSeq(text, 1, n) = text
  BY SubSeqFull DEF n, Text
<1>12. n \in 0 .. Len(text)
  BY <1>2 DEF n
<1> QED
  BY <1>9, <1>10, <1>11, <1>12 DEF StandsFor

-------------------------------------------------------------------------------
(* The landing page's preview. *)

LEMMA MinIn == ASSUME NEW T \in SUBSET Nat, T # {} PROVE Min(T) \in T
<1>1. PICK n \in T : \A m \in T : n <= m
  BY NatMin
<1> QED
  BY <1>1 DEF Min

PreviewTypes == Range(ENTITY_PATTERNS)

LEMMA PreviewTypesAre ==
    /\ DOMAIN ENTITY_PATTERNS = 1 .. 6
    /\ \A k \in 1 .. 6 : ENTITY_PATTERNS[k] \in PreviewTypes
    /\ \A type \in PreviewTypes, n \in Nat : [type |-> type, n |-> n] \in Tokens
<1>1. DOMAIN ENTITY_PATTERNS = 1 .. 6
  BY DEF ENTITY_PATTERNS
<1>2. \A k \in 1 .. 6 : ENTITY_PATTERNS[k] \in PreviewTypes
  BY <1>1 DEF PreviewTypes, Range
<1>3. \A k \in 1 .. 6 : ENTITY_PATTERNS[k] \in EntityTypes \cup {"EMAIL", "PHONE", "ACCT", "LOAN"}
  <2>1. PATTERNS[1] = "SSN" /\ PATTERNS[8] = "PERSON"
    BY DEF PATTERNS
  <2>2. "SSN" \in EntityTypes /\ "PERSON" \in EntityTypes
    BY <2>1, PatternsIs
  <2> QED
    BY <2>2 DEF ENTITY_PATTERNS
<1>4. \A type \in PreviewTypes : type \in EntityTypes \cup {"EMAIL", "PHONE", "ACCT", "LOAN"}
  BY <1>1, <1>3 DEF PreviewTypes, Range
<1> QED
  BY <1>1, <1>2, <1>4 DEF Tokens

\* What one of its patterns finds.
PreviewMatch(m, text) ==
    /\ m.type \in PreviewTypes /\ m.original \in Seq(Fragments)
    /\ m.start \in 1 .. Len(text) /\ m.end \in m.start .. Len(text)
    /\ m.original = SubSeq(text, m.start, m.end)

\* All the entries of hits are in the list.
Among(hits, list) == \A k \in DOMAIN hits : \E j \in DOMAIN list : list[j] = hits[k]

\* The text up to what has been used is as it was, and with every list that has the hits
\* the output expands to what the text does.
Marked(text) ==
    {d \in [out : Text, hits : Seq(Entries), counters : [PreviewTypes -> Nat],
            used : 1 .. Len(text) + 1] :
        /\ d.used <= Len(d.out) + 1
        /\ \A k \in 1 .. d.used - 1 : d.out[k] = text[k]
        /\ Legend(d.hits)
        /\ \A k \in DOMAIN d.hits : /\ d.hits[k].token.type \in PreviewTypes
                                    /\ d.hits[k].token.n \in 1 .. d.counters[d.hits[k].token.type]
        /\ \A list : Legend(list) /\ Among(d.hits, list)
                         => Expand(d.out, list) = Expand(text, list)}

\* A text cut in three.
LEMMA CutInThree ==
    ASSUME NEW out \in Text, NEW a \in 1 .. Len(out), NEW b \in a .. Len(out)
    PROVE  /\ SubSeq(out, 1, a - 1) \in Text /\ SubSeq(out, a, b) \in Text
           /\ SubSeq(out, b + 1, Len(out)) \in Text
           /\ (SubSeq(out, 1, a - 1) \o SubSeq(out, a, b)) \o SubSeq(out, b + 1, Len(out)) = out
           /\ Len(SubSeq(out, 1, a - 1)) = a - 1
           /\ \A k \in 1 .. a - 1 : SubSeq(out, 1, a - 1)[k] = out[k]
<1> DEFINE A == Fragments \cup Tokens
           n == Len(out)
<1>1. Text = Seq(A) /\ out \in Seq(A) /\ n \in Nat /\ \A k \in 1 .. n : out[k] \in A
  BY DEF Text
<1> HIDE DEF A
<1>2. a \in Nat /\ b \in Nat /\ a >= 1 /\ a <= b /\ b <= n
  BY <1>1
<1>3. SubSeq(out, a, b) \in Text
  BY <1>1, PrefixIs
<1>4. /\ SubSeq(out, 1, a - 1) \in Text /\ Len(SubSeq(out, 1, a - 1)) = a - 1
      /\ \A k \in 1 .. a - 1 : SubSeq(out, 1, a - 1)[k] = out[k]
  <2>1. 1 \in Int /\ a - 1 \in Int /\ \A k \in 1 .. a - 1 : out[k] \in A
    BY <1>1, <1>2
  <2>2. /\ SubSeq(out, 1, a - 1) \in Seq(A)
        /\ Len(SubSeq(out, 1, a - 1)) = IF 1 <= a - 1 THEN (a - 1) - 1 + 1 ELSE 0
        /\ \A k \in 1 .. (a - 1) - 1 + 1 : SubSeq(out, 1, a - 1)[k] = out[1 + k - 1]
    BY ONLY <2>1, SubSeqProperties
  <2>3. \A k \in 1 .. a - 1 : 1 + k - 1 = k /\ k \in 1 .. (a - 1) - 1 + 1
    BY <1>2
  <2> QED
    BY <1>1, <1>2, <2>2, <2>3
<1>5. SubSeq(out, b + 1, n) \in Text
  <2>1. b + 1 \in Int /\ n \in Int /\ \A k \in b + 1 .. n : out[k] \in A
    BY <1>1, <1>2
  <2> QED
    BY <1>1, <2>1, SubSeqProperties
<1>6. SubSeq(out, 1, a - 1) \o SubSeq(out, (a - 1) + 1, b) = SubSeq(out, 1, b)
  <2>1. 1 \in 1 .. n + 1 /\ a - 1 \in 1 - 1 .. n /\ b \in a - 1 .. n
    BY <1>2, <1>1
  <2> QED
    BY <1>1, <2>1, ConcatAdjacentSubSeq
<1>7. SubSeq(out, 1, b) \o SubSeq(out, b + 1, n) = SubSeq(out, 1, n)
  <2>1. 1 \in 1 .. n + 1 /\ b \in 1 - 1 .. n /\ n \in b .. n
    BY <1>2, <1>1
  <2> QED
    BY <1>1, <2>1, ConcatAdjacentSubSeq
<1>8. SubSeq(out, 1, n) = out /\ (a - 1) + 1 = a
  BY <1>1, <1>2, SubSeqFull
<1> QED
  BY <1>3, <1>4, <1>5, <1>6, <1>7, <1>8

\* Putting a token for its own value in the middle of a text leaves what it expands to.
LEMMA ExpandMark ==
    ASSUME NEW list, Legend(list), NEW j \in DOMAIN list,
           NEW front \in Text, NEW rest \in Text
    PROVE  Expand((front \o <<list[j].token>>) \o rest, list)
               = Expand((front \o list[j].original) \o rest, list)
<1> DEFINE token == list[j].token
           words == list[j].original
<1>1. list \in Seq(Entries) /\ words \in Seq(Fragments) /\ list[j] \in Entries
  BY DEF Legend
<1>2. words \in Text /\ <<token>> \in Text
  BY <1>1, WordsAreText, TextIs DEF Entries
<1>3. Expand(<<token>>, list) = words /\ Expand(words, list) = words
  BY <1>1, ExpandToken, ExpandWords
<1> HIDE DEF token, words
<1>4. ASSUME NEW x \in Text, NEW y \in Text
      PROVE  /\ x \o y \in Text /\ Expand(x \o y, list) = Expand(x, list) \o Expand(y, list)
  <2>1. x \o y \in Text
    BY TextIs, Zenon
  <2> QED
    BY <1>1, <2>1, ExpandConcat, Zenon
<1>5. front \o <<token>> \in Text /\ front \o words \in Text
  BY <1>2, <1>4
<1>6. /\ Expand((front \o <<token>>) \o rest, list)
             = Expand(front \o <<token>>, list) \o Expand(rest, list)
      /\ Expand((front \o words) \o rest, list)
             = Expand(front \o words, list) \o Expand(rest, list)
  BY <1>4, <1>5
<1>7. Expand(front \o <<token>>, list) = Expand(front \o words, list)
  <2>1. /\ Expand(front \o <<token>>, list) = Expand(front, list) \o Expand(<<token>>, list)
        /\ Expand(front \o words, list) = Expand(front, list) \o Expand(words, list)
    BY <1>2, <1>4
  <2> QED
    BY <1>3, <2>1
<1> QED
  BY <1>6, <1>7 DEF token, words

LEMMA MarkedNext ==
    ASSUME NEW text \in Text, NEW d \in Marked(text), NEW m, PreviewMatch(m, text), m.end < d.used
    PROVE  Mark(d, m) \in Marked(text)
<1> DEFINE n == Len(text)
           out == d.out
           a == m.start
           b == m.end
           type == m.type
           token == [type |-> type, n |-> d.counters[type] + 1]
           hit == [token |-> token, original |-> m.original]
           front == SubSeq(out, 1, a - 1)
           rest == SubSeq(out, b + 1, Len(out))
           hits == Append(d.hits, hit)
           counters == [d.counters EXCEPT ![type] = @ + 1]
           out2 == front \o <<token>> \o rest
           d2 == [out |-> out2, hits |-> hits, counters |-> counters, used |-> a]
<1>1. Mark(d, m) = d2
  BY DEF Mark
<1>2. /\ out \in Text /\ text \in Text /\ n \in Nat /\ Len(out) \in Nat
      /\ d.used \in 1 .. n + 1 /\ d.used <= Len(out) + 1
      /\ \A k \in 1 .. d.used - 1 : out[k] = text[k]
      /\ d.hits \in Seq(Entries) /\ Legend(d.hits) /\ d.counters \in [PreviewTypes -> Nat]
  BY DEF Marked, Text
<1>3. /\ \A k \in DOMAIN d.hits : /\ d.hits[k].token.type \in PreviewTypes
                                  /\ d.hits[k].token.n \in 1 .. d.counters[d.hits[k].token.type]
      /\ \A list : Legend(list) /\ Among(d.hits, list) => Expand(out, list) = Expand(text, list)
  BY DEF Marked
<1>4. /\ type \in PreviewTypes /\ m.original \in Seq(Fragments)
      /\ a \in 1 .. n /\ b \in a .. n /\ m.original = SubSeq(text, a, b) /\ b < d.used
  BY DEF PreviewMatch
<1>5. token \in Tokens /\ token.type = type /\ token.n = d.counters[type] + 1
      /\ d.counters[type] \in Nat
  <2>1. type \in PreviewTypes /\ d.counters[type] \in Nat
    BY <1>2, <1>4
  <2>2. d.counters[type] + 1 \in Nat
    BY <2>1
  <2>3. token \in Tokens
    BY <2>1, <2>2, PreviewTypesAre
  <2> QED
    BY <2>1, <2>3
<1>6. hit \in Entries /\ hit.token = token /\ hit.original = m.original
  BY <1>4, <1>5, WordsAreText DEF Entries
<1> HIDE DEF n, out, a, b, type, token, hit, front, rest, hits, counters, out2
<1>7. a \in 1 .. Len(out) /\ b \in a .. Len(out) /\ a <= b /\ b <= d.used - 1
  BY <1>2, <1>4
<1>8. /\ front \in Text /\ SubSeq(out, a, b) \in Text /\ rest \in Text
      /\ (front \o SubSeq(out, a, b)) \o rest = out
      /\ Len(front) = a - 1 /\ \A k \in 1 .. a - 1 : front[k] = out[k]
  BY <1>2, <1>7, CutInThree DEF front, rest
\* What is replaced is what was matched.
<1>9. SubSeq(out, a, b) = m.original
  <2>1. \A k \in a .. b : out[k] = text[k]
    BY <1>2, <1>4, <1>7
  <2>2. /\ \A k \in a .. b : out[k] \in Fragments \cup Tokens
        /\ \A k \in a .. b : text[k] \in Fragments \cup Tokens
    BY <1>2, <1>4, <1>7 DEF Text, n
  <2> DEFINE A == Fragments \cup Tokens
             x == SubSeq(out, a, b)
             y == SubSeq(text, a, b)
  <2>3. a \in Int /\ b \in Int /\ a <= b
    BY <1>2, <1>4, <1>7
  <2> HIDE DEF A
  <2>4. /\ x \in Seq(A) /\ Len(x) = b - a + 1 /\ \A k \in 1 .. b - a + 1 : x[k] = out[a + k - 1]
    BY <2>2, <2>3, SubSeqProperties DEF A
  <2>5. /\ y \in Seq(A) /\ Len(y) = b - a + 1 /\ \A k \in 1 .. b - a + 1 : y[k] = text[a + k - 1]
    BY <2>2, <2>3, SubSeqProperties DEF A
  <2>6. \A k \in 1 .. b - a + 1 : a + k - 1 \in a .. b
    BY <2>3
  <2> HIDE DEF x, y
  <2>7. Len(x) = Len(y) /\ \A k \in 1 .. Len(x) : x[k] = y[k]
    BY <2>1, <2>4, <2>5, <2>6
  <2>8. x = y
    BY <2>4, <2>5, <2>7, SeqEqual
  <2> QED
    BY <2>8, <1>4 DEF x, y
<1>10. /\ out2 \in Text /\ a <= Len(out2) + 1 /\ \A k \in 1 .. a - 1 : out2[k] = text[k]
  <2> DEFINE A == Fragments \cup Tokens
             head == front \o <<token>>
  <2>1. Text = Seq(A) /\ <<token>> \in Text /\ out2 = head \o rest
    BY <1>5, TextIs DEF Text, out2
  <2> HIDE DEF A, head
  <2>2. /\ head \in Seq(A) /\ Len(head) = Len(front) + Len(<<token>>)
        /\ \A k \in 1 .. Len(front) + Len(<<token>>) :
               head[k] = IF k <= Len(front) THEN front[k] ELSE <<token>>[k - Len(front)]
    BY <1>8, <2>1, ConcatProperties DEF head
  <2>3. /\ out2 \in Seq(A) /\ Len(out2) = Len(head) + Len(rest)
        /\ \A k \in 1 .. Len(head) + Len(rest) :
               out2[k] = IF k <= Len(head) THEN head[k] ELSE rest[k - Len(head)]
    <3>1. head \in Seq(A) /\ rest \in Seq(A) /\ out2 = head \o rest
      BY <1>8, <2>1, <2>2
    <3> QED
      BY ONLY <3>1, ConcatProperties
  <2>4. Len(rest) \in Nat /\ Len(<<token>>) = 1 /\ a \in Nat /\ Len(front) = a - 1
    BY <1>4, <1>8, <2>1, LenProperties
  <2>5. ASSUME NEW k \in 1 .. a - 1 PROVE out2[k] = front[k]
    <3>1. Len(head) = a /\ k \in 1 .. Len(head) + Len(rest) /\ k <= Len(head)
          /\ k \in 1 .. Len(front) + Len(<<token>>) /\ k <= Len(front)
      BY <2>2, <2>4
    <3> QED
      BY <3>1, <2>2, <2>3
  <2>6. \A k \in 1 .. a - 1 : k \in 1 .. d.used - 1
    BY <1>2, <1>4, <1>7
  <2>7. a <= Len(out2) + 1
    BY <2>2, <2>3, <2>4
  <2> QED
    BY <1>2, <1>8, <2>1, <2>3, <2>5, <2>6, <2>7
<1>11. hits \in Seq(Entries) /\ DOMAIN hits = 1 .. Len(d.hits) + 1 /\ DOMAIN d.hits = 1 .. Len(d.hits)
       /\ (\A k \in 1 .. Len(d.hits) : hits[k] = d.hits[k]) /\ hits[Len(d.hits) + 1] = hit
       /\ Len(d.hits) \in Nat
  BY <1>2, <1>6, AppendProperties, LenProperties DEF hits
<1>12. /\ counters \in [PreviewTypes -> Nat] /\ counters[type] = d.counters[type] + 1
       /\ \A t \in PreviewTypes : d.counters[t] <= counters[t]
  BY <1>2, <1>4, <1>5 DEF counters
<1>13. \A k \in DOMAIN hits : /\ hits[k].token.type \in PreviewTypes
                              /\ hits[k].token.n \in 1 .. counters[hits[k].token.type]
  <2>1. ASSUME NEW k \in 1 .. Len(d.hits)
        PROVE  /\ hits[k].token.type \in PreviewTypes
               /\ hits[k].token.n \in 1 .. counters[hits[k].token.type]
    <3> DEFINE t == d.hits[k].token.type
    <3>1. t \in PreviewTypes /\ d.hits[k].token.n \in 1 .. d.counters[t] /\ hits[k] = d.hits[k]
      BY <1>3, <1>11
    <3> HIDE DEF t
    <3>2. d.counters[t] \in Nat /\ counters[t] \in Nat /\ d.counters[t] <= counters[t]
      BY <1>2, <1>12, <3>1
    <3>3. d.hits[k].token.n \in 1 .. counters[t]
      BY <3>1, <3>2
    <3> QED
      BY <3>1, <3>3 DEF t
  <2>2. hit.token.type \in PreviewTypes /\ hit.token.n \in 1 .. counters[hit.token.type]
    BY <1>4, <1>5, <1>6, <1>12
  <2> QED
    BY <1>11, <2>1, <2>2
\* The new token is none of those before.
<1>14. \A k \in DOMAIN d.hits : d.hits[k].token # token
  <2> SUFFICES ASSUME NEW k \in DOMAIN d.hits, d.hits[k].token = token PROVE FALSE
    OBVIOUS
  <2>1. token.n \in 1 .. d.counters[type]
    BY <1>3, <1>5
  <2> QED
    BY <1>5, <2>1
<1>15. Legend(hits)
  <2> DEFINE k == Len(d.hits)
  <2>1. /\ \A i \in 1 .. k : hits[i].original \in Seq(Fragments)
        /\ \A i, j \in 1 .. k : hits[i].token = hits[j].token => i = j
        /\ \A i \in 1 .. k : hits[i].token # token
    BY <1>2, <1>11, <1>14 DEF Legend
  <2>2. hits[k + 1].original \in Seq(Fragments) /\ hits[k + 1].token = token
    BY <1>4, <1>6, <1>11
  <2>3. k \in Nat /\ \A i \in DOMAIN hits : i \in 1 .. k \/ i = k + 1
    BY <1>11
  <2> HIDE DEF k
  <2>4. \A i \in DOMAIN hits : hits[i].original \in Seq(Fragments)
    BY <2>1, <2>2, <2>3
  <2>5. \A i, j \in DOMAIN hits : hits[i].token = hits[j].token => i = j
    BY <2>1, <2>2, <2>3
  <2> QED
    BY <1>11, <2>4, <2>5 DEF Legend
<1>16. ASSUME NEW list, Legend(list), Among(hits, list)
       PROVE  Expand(out2, list) = Expand(text, list)
  <2>1. Among(d.hits, list)
    BY <1>11, <1>16 DEF Among
  <2>2. PICK j \in DOMAIN list : list[j] = hit
    BY <1>11, <1>16 DEF Among
  <2>3. list[j].token = token /\ list[j].original = m.original
    BY <1>6, <2>2
  <2>4. Expand((front \o <<list[j].token>>) \o rest, list)
            = Expand((front \o list[j].original) \o rest, list)
    BY <1>8, <1>16, ExpandMark
  <2>5. Expand(out2, list) = Expand(out, list)
    BY <1>8, <1>9, <2>3, <2>4 DEF out2
  <2> QED
    BY <1>3, <1>16, <2>1, <2>5
<1>17. d2.used \in 1 .. n + 1
  BY <1>2, <1>4
<1> HIDE DEF d2
<1>18. /\ d2.out = out2 /\ d2.hits = hits /\ d2.counters = counters /\ d2.used = a
       /\ d2 \in [out : Text, hits : Seq(Entries), counters : [PreviewTypes -> Nat],
                  used : 1 .. Len(text) + 1]
  BY <1>10, <1>11, <1>12, <1>17 DEF d2, n
<1> QED
  BY <1>1, <1>10, <1>13, <1>15, <1>16, <1>18 DEF Marked

PreviewFound(text) == UNION {Scan(type, DemoMatches[type], text) : type \in PreviewTypes}

LEMMA PreviewFoundIs ==
    ASSUME NEW text \in Text, NEW m \in PreviewFound(text)
    PROVE  PreviewMatch(m, text)
<1>1. PICK type \in PreviewTypes : m \in Scan(type, DemoMatches[type], text)
  BY DEF PreviewFound
<1>2. /\ m.type = type /\ m.start \in 1 .. Len(text) /\ m.end \in m.start .. Len(text)
      /\ m.original = SubSeq(text, m.start, m.end) /\ m.original \in DemoMatches[type]
  BY <1>1, ScanFinds DEF FoundUpTo
<1>3. DemoMatches[type] \subseteq Seq(Fragments)
  BY <1>1, LandingPageAssumption DEF PreviewTypes
<1> QED
  BY <1>1, <1>2, <1>3 DEF PreviewMatch

LEMMA MarkAtMarked ==
    ASSUME NEW text \in Text, NEW d \in Marked(text), NEW i
    PROVE  MarkAt(PreviewFound(text), d, i) \in Marked(text)
<1> DEFINE found == PreviewFound(text)
           At(k) == {m \in found : m.type = ENTITY_PATTERNS[k] /\ m.start = i /\ m.end < d.used}
           fits == {k \in DOMAIN ENTITY_PATTERNS : At(k) # {}}
           m == CHOOSE x \in At(Min(fits)) : TRUE
<1>1. CASE fits = {}
  <2>1. MarkAt(found, d, i) = d
    BY <1>1 DEF MarkAt
  <2> QED
    BY <2>1
<1>2. CASE fits # {}
  <2>1. MarkAt(found, d, i) = Mark(d, m)
    BY <1>2 DEF MarkAt
  <2>2. fits \in SUBSET Nat
    BY PreviewTypesAre
  <2>3. Min(fits) \in fits
    <3> HIDE DEF fits
    <3> QED
      BY <1>2, <2>2, MinIn
  <2>4. m \in At(Min(fits))
    BY <2>3
  <2>5. m \in PreviewFound(text) /\ m.end < d.used
    BY <2>4
  <2> HIDE DEF m
  <2>6. Mark(d, m) \in Marked(text)
    BY <2>5, PreviewFoundIs, MarkedNext
  <2> QED
    BY <2>1, <2>6
<1> QED
  BY <1>1, <1>2

Unmarked(text) == [out |-> text, hits |-> << >>, counters |-> [t \in PreviewTypes |-> 0],
                   used |-> Len(text) + 1]
Previewed(text) ==
    FoldLeftDomain(LAMBDA d, k : MarkAt(PreviewFound(text), d, Len(text) + 1 - k),
                   Unmarked(text), text)

LEMMA UnmarkedMarked == ASSUME NEW text \in Text PROVE Unmarked(text) \in Marked(text)
<1> DEFINE d == Unmarked(text)
<1>1. Len(text) \in Nat /\ Len(text) + 1 \in 1 .. Len(text) + 1
  BY DEF Text
<1>2. /\ d.out = text /\ d.hits = << >> /\ d.used = Len(text) + 1
      /\ d \in [out : Text, hits : Seq(Entries), counters : [PreviewTypes -> Nat],
                used : 1 .. Len(text) + 1]
  BY <1>1 DEF Unmarked
<1> HIDE DEF d
<1>3. DOMAIN d.hits = {} /\ Legend(d.hits)
  BY <1>2 DEF Legend
<1>4. d.used <= Len(d.out) + 1 /\ \A k \in 1 .. d.used - 1 : d.out[k] = text[k]
  BY <1>1, <1>2
<1>5. \A k \in DOMAIN d.hits : /\ d.hits[k].token.type \in PreviewTypes
                               /\ d.hits[k].token.n \in 1 .. d.counters[d.hits[k].token.type]
  BY <1>3
<1> QED
  BY <1>2, <1>3, <1>4, <1>5 DEF Marked, d

LEMMA PreviewedMarked == ASSUME NEW text \in Text PROVE Previewed(text) \in Marked(text)
<1> DEFINE n == Len(text)
           E == DOMAIN text
           V == Marked(text)
           seq == [i \in DOMAIN text |-> i]
           Op(v, k) == MarkAt(PreviewFound(text), v, Len(text) + 1 - k)
           base == Unmarked(text)
           g == [p \in V \X E |-> Op(p[1], p[2])]
           Rec(h) == h = [s \in SUBSET DOMAIN seq |->
                             IF s = {} THEN base ELSE Op(h[s \ {Max(s)}], seq[Max(s)])]
<1>1. n \in Nat /\ DOMAIN seq = 1 .. n /\ \A i \in 1 .. n : seq[i] \in E
  BY DEF Text
<1>2. \A v \in V, e \in E : Op(v, e) \in V
  BY MarkAtMarked
<1>3. base \in V
  BY UnmarkedMarked
<1> HIDE DEF n, E, V, seq, Op, base
<1>4. g \in [V \X E -> V] /\ \A v \in V, e \in E : g[<<v, e>>] = Op(v, e)
  BY <1>2
<1> HIDE DEF g
<1>5. \E h : Rec(h)
  <2>1. PICK h : Unrolls(h, n, V, E, base, g, seq)
    BY <1>1, <1>3, <1>4, Unrolled
  <2>2. \A s \in SUBSET (1 .. n) :
            h[s] = IF s = {} THEN base ELSE Op(h[s \ {Max(s)}], seq[Max(s)])
    BY <1>4, <2>1 DEF Unrolls
  <2>3. Rec(h)
    BY <1>1, <2>1, <2>2 DEF Unrolls
  <2> QED
    BY <2>3
<1>6. PICK h : Rec(h) /\ Previewed(text) = h[DOMAIN seq]
  <2>1. Previewed(text) = (CHOOSE h : Rec(h))[DOMAIN seq]
    BY DEF Previewed, FoldLeftDomain, FoldLeft, MapThenFoldSet, Op, seq, base
  <2> QED
    BY <2>1, <1>5
<1>7. h[{}] = base
  BY <1>1, <1>6
<1>8. ASSUME NEW i \in 1 .. n PROVE h[1 .. i] = Op(h[1 .. i - 1], seq[i])
  <2>1. /\ 1 .. i \in SUBSET DOMAIN seq /\ 1 .. i # {}
        /\ Max(1 .. i) = i /\ (1 .. i) \ {i} = 1 .. i - 1
    BY <1>1, Upto
  <2>2. h[1 .. i] = Op(h[(1 .. i) \ {Max(1 .. i)}], seq[Max(1 .. i)])
    BY <1>6, <2>1
  <2> QED
    BY <1>1, <2>1, <2>2
<1>9. \A i \in 1 .. n : h[1 .. i - 1] \in V => h[1 .. i] = g[<<h[1 .. i - 1], seq[i]>>]
  BY <1>1, <1>4, <1>8
<1>10. PICK f : FoldTrace(f, h, n, V, E, base, g, seq)
  BY <1>1, <1>3, <1>4, <1>7, <1>9, Traced
<1>11. f \in [0 .. n -> V] /\ f[n] = Previewed(text) /\ n \in 0 .. n
  BY <1>1, <1>6, <1>10 DEF FoldTrace
<1> QED
  BY <1>11 DEF V

\* The preview's hits read its output back as the text, exactly.
LEMMA PreviewReadsBack ==
    ASSUME NEW text \in Text
    PROVE  LET r == clientTokenize(text)
           IN  FoldLeft(Substitute, r.out, r.hits) = FoldLeft(Substitute, r.original, r.hits)
<1> DEFINE d == Previewed(text)
           r == clientTokenize(text)
<1>1. r.original = text /\ r.out = d.out /\ r.hits = d.hits
  BY DEF clientTokenize, Previewed, PreviewFound, PreviewTypes, Unmarked
<1>2. d \in Marked(text)
  BY PreviewedMarked
<1> HIDE DEF d, r
<1>3. Legend(d.hits) /\ Among(d.hits, d.hits)
  BY <1>2 DEF Marked, Among
<1>4. Expand(d.out, d.hits) = Expand(text, d.hits)
  BY <1>2, <1>3 DEF Marked
<1> QED
  BY <1>1, <1>4 DEF Expand, r
===============================================================================
