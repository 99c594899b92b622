------------------------------ MODULE LandingPage ------------------------------
(***************************************************************************)
(* The landing page (ui/app/page.tsx): the preview of a tokenizer of its   *)
(* own, the waitlist form, and the walkthrough                             *)
(* (ui/components/ProductDemo.tsx) with the intervals that drive it.       *)
(*                                                                         *)
(* The walkthrough has two intervals, one for the bar and one for the      *)
(* steps.  Each fires by itself, at any time: how often the one fires      *)
(* between two ticks of the other is left open.                            *)
(***************************************************************************)
EXTENDS BrowserTab, BrowserTokenizer

CONSTANTS
    DEMO_SAMPLE, DemoTexts,
    DemoMatches,     \* what each of ENTITY_PATTERNS matches
    NoPreview,
    TOTAL,           \* steps of the walkthrough
    STEP_TICKS       \* STEP_DURATION in ticks of the bar, which are its length

ENTITY_PATTERNS == <<"SSN", "EMAIL", "PHONE", "ACCT", "LOAN", "PERSON">>

ASSUME LandingPageAssumption ==
    /\ DemoMatches \in [Range(ENTITY_PATTERNS) -> SUBSET Seq(Fragments)]
    /\ DemoTexts \cup {DEMO_SAMPLE} \subseteq Text
    /\ TOTAL \in Nat \ {0} /\ STEP_TICKS \in Nat \ {0}

-------------------------------------------------------------------------------
(* clientTokenize: from the right to the left, a number for every match.   *)

Mark(done, m) ==
    LET token == [type |-> m.type, n |-> done.counters[m.type] + 1]
    IN  [out      |-> SubSeq(done.out, 1, m.start - 1) \o <<token>>
                          \o SubSeq(done.out, m.end + 1, Len(done.out)),
         hits     |-> Append(done.hits, [token |-> token, original |-> m.original]),
         counters |-> [done.counters EXCEPT ![m.type] = @ + 1],
         used     |-> m.start]

\* The sort is stable and what is used begins further right: of the matches at i that end
\* before it the first in the order of the patterns is kept.
MarkAt(found, done, i) ==
    LET At(k) == {m \in found : m.type = ENTITY_PATTERNS[k] /\ m.start = i /\ m.end < done.used}
        fits == {k \in DOMAIN ENTITY_PATTERNS : At(k) # {}}
    IN  IF fits = {} THEN done ELSE Mark(done, CHOOSE m \in At(Min(fits)) : TRUE)

clientTokenize(text) ==
    LET found == UNION {Scan(type, DemoMatches[type], text) : type \in Range(ENTITY_PATTERNS)}
        done == FoldLeftDomain(LAMBDA d, k : MarkAt(found, d, Len(text) + 1 - k),
                               [out |-> text, hits |-> << >>,
                                counters |-> [t \in Range(ENTITY_PATTERNS) |-> 0],
                                used |-> Len(text) + 1],
                               text)
    IN  [original |-> text, out |-> done.out, hits |-> done.hits]

-------------------------------------------------------------------------------
Intervals == {"bar", "step"}

\* preview is demoText and demoResult; refs is what progressRef and intervalRef hold.
Landing ==
    [at |-> "landing",
     preview |-> [text |-> DEMO_SAMPLE, result |-> NoPreview],
     waitlist |-> "idle",
     demo |-> [current |-> 1, playing |-> TRUE, progress |-> 0,
               running |-> [kind \in Intervals |-> {1}],
               refs |-> [kind \in Intervals |-> 1]]]

OnLanding == page.at = "landing" /\ "landing" \in bound.displays

besides == <<stored, wire, route, look, tangled, bound>>

EditDemo(text) ==
    /\ OnLanding
    /\ text # page.preview.text
    /\ page' = [page EXCEPT !.preview = [text |-> text, result |-> NoPreview]]
    /\ UNCHANGED besides

RunDemo ==
    /\ OnLanding
    /\ page' = [page EXCEPT !.preview.result = clientTokenize(page.preview.text)]
    /\ UNCHANGED besides

ResetDemo ==
    /\ OnLanding
    /\ page' = [page EXCEPT !.preview = [text |-> DEMO_SAMPLE, result |-> NoPreview]]
    /\ UNCHANGED besides

FormShown == OnLanding /\ page.waitlist = "idle"

\* A mail is composed for the user to send; the form is gone until the page is mounted
\* again.
SubmitWaitlist ==
    /\ FormShown
    /\ page' = [page EXCEPT !.waitlist = "success"]
    /\ UNCHANGED besides

-------------------------------------------------------------------------------
(* The walkthrough. *)

ClearTimers(demo) ==
    [demo EXCEPT !.running = [kind \in Intervals |-> @[kind] \ {demo.refs[kind]}]]

Fresh(ids) == CHOOSE n \in 1 .. Cardinality(ids) + 1 : n \notin ids

StartTimers(demo) ==
    LET left == ClearTimers(demo).running
        refs == [kind \in Intervals |-> Fresh(left[kind])]
    IN  [demo EXCEPT !.progress = 0, !.refs = refs,
                     !.running = [kind \in Intervals |-> left[kind] \cup {refs[kind]}]]

\* The bar grows, until it is full.
BarTick(demo) ==
    IF demo.progress < STEP_TICKS THEN [demo EXCEPT !.progress = @ + 1] ELSE demo

\* The step changes, and the effect on it empties the bar.
StepTick(demo) ==
    LET next == (demo.current % TOTAL) + 1
    IN  [demo EXCEPT !.current = next,
                     !.progress = IF next = demo.current THEN @ ELSE 0]

Plays ==
    /\ OnLanding
    /\ \/ page.demo.running["bar"] # {} /\ page' = [page EXCEPT !.demo = BarTick(@)]
       \/ page.demo.running["step"] # {} /\ page' = [page EXCEPT !.demo = StepTick(@)]
    /\ UNCHANGED besides

\* Mutant: the timers are started although the walkthrough is paused.
GoToPlays(i) ==
    /\ OnLanding
    /\ page' = [page EXCEPT !.demo = StartTimers([@ EXCEPT !.current = i])]
    /\ UNCHANGED besides

GoTo(i) ==
    /\ OnLanding
    /\ LET moved == [page.demo EXCEPT !.current = i, !.progress = 0]
       IN  page' = [page EXCEPT !.demo = IF @.playing THEN StartTimers(moved)
                                                      ELSE ClearTimers(moved)]
    /\ UNCHANGED besides

\* The effect on playing starts the timers, or clears them.
TogglePlay ==
    /\ OnLanding
    /\ page' = [page EXCEPT !.demo =
                    IF @.playing THEN ClearTimers([@ EXCEPT !.playing = FALSE])
                                 ELSE StartTimers([@ EXCEPT !.playing = TRUE])]
    /\ UNCHANGED besides

\* While it plays, playing does not change, and the timers go on.
Restart ==
    /\ OnLanding
    /\ LET first == [page.demo EXCEPT !.current = 1, !.progress = 0, !.playing = TRUE]
       IN  page' = [page EXCEPT !.demo = IF @.playing THEN first ELSE StartTimers(first)]
    /\ UNCHANGED besides

StepTabs == \E i \in 1 .. TOTAL : GoTo(i)
Controls == TogglePlay \/ Restart
Preview == (\E text \in DemoTexts : EditDemo(text)) \/ RunDemo \/ ResetDemo

LandingNext == Preview \/ SubmitWaitlist \/ Plays \/ StepTabs \/ Controls
===============================================================================
