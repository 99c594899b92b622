----------------------------- MODULE TokenizePage -----------------------------
(***************************************************************************)
(* The tokenizer's page (ui/app/tokenize/page.tsx).  Its vault is React    *)
(* state: it lasts until a reset, or until the page is left.               *)
(***************************************************************************)
EXTENDS BrowserTab, BrowserTokenizer

CONSTANTS
    SAMPLE, Texts,   \* what is typed or pasted
    NoResult

ASSUME TokenizePageAssumption == Texts \cup {SAMPLE} \subseteq Text

\* made is history: the results since the vault was empty.
Tokenizer ==
    [at |-> "tokenize", input |-> SAMPLE, vault |-> createVault, result |-> NoResult,
     copied |-> FALSE, timers |-> 0, made |-> {}]

OnTokenizer == page.at = "tokenize"

elsewhere == <<stored, wire, route, look, tangled, bound>>

\* The output may be pasted as the next input.
EditInput(text) ==
    /\ OnTokenizer
    /\ text # page.input
    /\ page' = [page EXCEPT !.input = text]
    /\ UNCHANGED elsewhere

HandleTokenize ==
    /\ OnTokenizer
    /\ Cardinality(page.made) < bound.texts
    /\ LET done == tokenize(page.input, page.vault)
       IN  page' = [page EXCEPT !.result = done.result, !.vault = done.vault,
                                !.made = @ \cup {done.result}]
    /\ UNCHANGED elsewhere

HandleCopy ==
    /\ OnTokenizer
    /\ page.result # NoResult
    /\ page.timers < bound.texts
    /\ page' = [page EXCEPT !.copied = TRUE, !.timers = @ + 1]
    /\ UNCHANGED elsewhere

\* What is displayed of a result and of the vault.
EntityTable(result) == Range(result.entities)
VaultTable == Range(page.vault.tokenToOrig)

\* setTimeout, two seconds after a copy.
CopyTimeout ==
    /\ OnTokenizer
    /\ page.timers > 0
    /\ page' = [page EXCEPT !.copied = FALSE, !.timers = @ - 1]
    /\ UNCHANGED elsewhere

HandleReset ==
    /\ OnTokenizer
    /\ page' = [page EXCEPT !.vault = createVault, !.result = NoResult, !.input = SAMPLE,
                            !.made = {}]
    /\ UNCHANGED elsewhere

TokenizeNext ==
    \/ \E text \in Texts : EditInput(text)
    \/ OnTokenizer /\ page.result # NoResult /\ EditInput(page.result.tokenized)
    \/ HandleTokenize \/ HandleCopy \/ CopyTimeout \/ HandleReset
===============================================================================
