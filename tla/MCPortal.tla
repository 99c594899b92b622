------------------------------- MODULE MCPortal -------------------------------
(* Portal on small instances. *)
EXTENDS Portal, TLC

CONSTANTS ann, bob, cyan, rose, m1, m2, u1, u2, d1, d2,
          Jane, Smith, Credit, Score, Scoreby, jane, smith, credit, score, scoreby,
          LOAN, loan, ssn, word

MCAccounts == (ann :> admin) @@ (bob :> junior_analyst)
MCOffers == (u1 :> <<m1, m2>>) @@ (u2 :> <<m2>>)

\* The pages that send requests, the tokenizer, the settings of a launched session and
\* the landing page, each to the full.
MCBounds == {
    [calls |-> 4, texts |-> 0, displays |-> {}],
    [calls |-> 0, texts |-> 3, displays |-> {}],
    [calls |-> 2, texts |-> 0, displays |-> {"settings"}],
    [calls |-> 0, texts |-> 0, displays |-> {"landing"}]}

MCFragments == {Jane, Smith, Credit, Score, Scoreby, jane, smith, credit, score, scoreby,
                LOAN, loan, ssn, word}
MCTitle == {Jane, Smith, Credit, Score, Scoreby}
MCLower ==
    (Jane :> jane) @@ (Smith :> smith) @@ (Credit :> credit) @@ (Score :> score)
        @@ (Scoreby :> scoreby) @@ (LOAN :> loan) @@ [f \in MCFragments |-> f]
MCMatches ==
    ("SSN" :> {<<ssn>>}) @@ ("LOAN_ID" :> {<<LOAN, word>>, <<loan, word>>, <<LOAN, ssn>>})
        @@ ("DATE_TIME" :> {<<ssn, word>>, <<word, loan>>}) @@ [t \in EntityTypes \ {"PERSON"} |-> {}]

\* By its characters, "credit scoreby" begins with "credit score" too.
MCNonNames ==
    {run \in UNION {[1 .. n -> {MCLower[f] : f \in MCTitle}] : n \in 2 .. 4} :
         IsPrefix(<<credit, score>>, run) \/ IsPrefix(<<credit, scoreby>>, run)}

MCSample == <<Jane, Smith, ssn>>
MCTexts == {
    MCSample,
    <<Jane, Smith, word, Jane, Smith>>,
    <<Credit, Score, word, Smith, Jane>>,
    <<Credit, Scoreby, Score, Jane, Smith>>,
    <<Smith, Jane, Smith, Jane, Smith, word, loan>>,
    <<LOAN, word, loan, word>>,
    <<LOAN, ssn, word, loan>>,
    <<[type |-> "PERSON", n |-> 2], word>>}

MCDemoMatches ==
    ("SSN" :> {<<ssn>>}) @@ ("LOAN" :> {<<LOAN, word>>, <<LOAN, ssn>>})
        @@ ("PERSON" :> {<<Jane, Smith>>}) @@ [t \in Range(ENTITY_PATTERNS) |-> {}]
MCDemoTexts == {MCSample, <<Jane, Smith, word, Jane, Smith>>, <<LOAN, ssn, word, ssn>>}
===============================================================================
