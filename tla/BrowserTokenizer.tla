--------------------------- MODULE BrowserTokenizer ---------------------------
(***************************************************************************)
(* ui/lib/tokenizer.ts: the tokenizer that runs in the browser.            *)
(*                                                                         *)
(* A text is a sequence of fragments and of tokens, a fragment being a     *)
(* word, or a part of one that a pattern can match by itself.  What each   *)
(* structured pattern matches is a constant; PERSON is modelled by what it *)
(* does, a run of two to four capitalised words.                           *)
(***************************************************************************)
EXTENDS Naturals, Sequences, FiniteSets, SequencesExt

CONSTANTS
    Fragments,
    Lower,       \* toLowerCase
    Title,       \* the capitalised words
    Matches,     \* what each structured pattern matches
    NonNames     \* the runs of words, in lower case, whose characters begin with one of
                 \* NON_NAMES, be it in the middle of a word

\* By specificity.
PATTERNS == <<"SSN", "CREDIT_CARD", "EMAIL_ADDRESS", "LOAN_ID", "ACCOUNT_NUMBER",
              "PHONE_NUMBER", "DATE_TIME", "PERSON">>
EntityTypes == Range(PATTERNS)

\* The landing page's preview has names of its own for some.
Tokens == [type : EntityTypes \cup {"EMAIL", "PHONE", "ACCT", "LOAN"}, n : Nat]
Text == Seq(Fragments \cup Tokens)

ASSUME BrowserTokenizerAssumption ==
    /\ \A f \in Fragments : f \notin Tokens
    /\ Lower \in [Fragments -> Fragments]
    /\ Title \subseteq Fragments
    /\ Matches \in [EntityTypes \ {"PERSON"} -> SUBSET Seq(Fragments)]
    /\ NonNames \subseteq Seq(Fragments)

Lowered(text) == [i \in DOMAIN text |-> IF text[i] \in Fragments THEN Lower[text[i]] ELSE text[i]]

-------------------------------------------------------------------------------
(* Detection. *)

Names == UNION {[1 .. n -> Title] : n \in 2 .. 4}
Language(type) == IF type = "PERSON" THEN Names ELSE Matches[type]

Span(type, text, first, last) ==
    [type |-> type, original |-> SubSeq(text, first, last), start |-> first, end |-> last]

\* Mutant: only the first match is found, as by a pattern without the g flag.
ScanAtOnce(type, language, text, found, i) ==
    LET ends == {j \in i .. Len(text) : SubSeq(text, i, j) \in language}
    IN  IF ends = {} \/ found # {} THEN found
        ELSE found \cup {Span(type, text, i, Max(ends))}

\* A match at i, as long as it can be, behind those found so far.
ScanAt(type, language, text, found, i) ==
    LET ends == {j \in i .. Len(text) : SubSeq(text, i, j) \in language}
    IN  IF ends = {} \/ \E m \in found : i <= m.end THEN found
        ELSE found \cup {Span(type, text, i, Max(ends))}

\* regex.exec, again and again.
Scan(type, language, text) ==
    FoldLeftDomain(LAMBDA found, i : ScanAt(type, language, text, found, i), {}, text)

NoName(m) == m.type = "PERSON" /\ Lowered(m.original) \in NonNames

Overlaps(m, other) == m.start <= other.end /\ other.start <= m.end

\* Mutant: a match may lie over one of a more specific pattern.
ClaimAll(claimed, matches) == claimed \cup {m \in matches : ~NoName(m)}

Claim(claimed, matches) ==
    claimed \cup {m \in matches : ~NoName(m) /\ \A other \in claimed : ~Overlaps(m, other)}

RawMatches(text) ==
    FoldLeft(LAMBDA claimed, type : Claim(claimed, Scan(type, Language(type), text)), {}, PATTERNS)

-------------------------------------------------------------------------------
(* The vault: tokenToOrig in the order of assignment, keyToToken, counters. *)

createVault == [tokenToOrig |-> << >>, keyToToken |-> {}, counters |-> [t \in EntityTypes |-> 0]]

Key(m) == <<m.type, Lowered(m.original)>>

Known(m, vault) == {e \in vault.keyToToken : e.key = Key(m)}

\* Mutant: the counter starts again with every text.
assignTokenRestart(m, vault) ==
    IF Known(m, vault) # {}
    THEN <<(CHOOSE e \in Known(m, vault) : TRUE).token, vault>>
    ELSE LET token == [type |-> m.type, n |-> 1]
         IN  <<token, [tokenToOrig |-> Append(vault.tokenToOrig,
                                              [token |-> token, original |-> m.original]),
                       keyToToken |-> vault.keyToToken \cup {[key |-> Key(m), token |-> token]},
                       counters |-> vault.counters]>>

assignToken(m, vault) ==
    IF Known(m, vault) # {}
    THEN <<(CHOOSE e \in Known(m, vault) : TRUE).token, vault>>
    ELSE LET token == [type |-> m.type, n |-> vault.counters[m.type] + 1]
         IN  <<token, [tokenToOrig |-> Append(vault.tokenToOrig,
                                              [token |-> token, original |-> m.original]),
                       keyToToken |-> vault.keyToToken \cup {[key |-> Key(m), token |-> token]},
                       counters |-> [vault.counters EXCEPT ![m.type] = @ + 1]]>>

-------------------------------------------------------------------------------
(* tokenize and detokenize. *)

Replaced(m, done) ==
    LET assigned == assignToken(m, done.vault)
    IN  [tokenized |-> Append(done.tokenized, assigned[1]),
         entities  |-> Append(done.entities, [match |-> m, token |-> assigned[1]]),
         vault     |-> assigned[2]]

\* From left to right: a match becomes its token where it begins, and what is between
\* matches is copied.
CopyOrReplace(matches, text, done, i) ==
    LET here == {m \in matches : m.start <= i /\ i <= m.end}
    IN  IF here = {} THEN [done EXCEPT !.tokenized = Append(@, text[i])]
        ELSE IF \E m \in here : m.start = i
             THEN Replaced(CHOOSE m \in here : m.start = i, done)
             ELSE done

tokenize(text, vault) ==
    LET matches == RawMatches(text)
        done == FoldLeftDomain(LAMBDA d, i : CopyOrReplace(matches, text, d, i),
                               [tokenized |-> << >>, entities |-> << >>, vault |-> vault], text)
    IN  [result |-> [original  |-> text,
                     tokenized |-> done.tokenized,
                     entities  |-> done.entities],
         vault  |-> done.vault]

\* split and join.
Substitute(text, e) ==
    FoldLeft(LAMBDA out, x : out \o (IF x = e.token THEN e.original ELSE <<x>>), << >>, text)

detokenize(text, vault) == FoldLeft(Substitute, text, vault.tokenToOrig)
===============================================================================
