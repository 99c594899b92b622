-------------------------------- MODULE Portal --------------------------------
(***************************************************************************)
(* The pages of one browser tab together: sign-in, setup and console over  *)
(* one localStorage, with requests that outlive the page that sent them.   *)
(*                                                                         *)
(* Links and the browser's back and forward keep the document, and with it *)
(* everything under way; a reload or a typed address starts a new one.     *)
(***************************************************************************)
EXTENDS SignIn, SetupWizard, AdminConsole, TokenizePage, Settings, LandingPage

\* The landing page stands for the other marketing pages too, which keep nothing.
Pages == SignInPages \cup {"setup", "admin", "chat", "tokenize", "landing"}

Chat(launched) ==
    [at |-> "chat", session |-> stored.session, jwt |-> stored.jwt, role |-> stored.role,
     panel |-> Panel, launched |-> launched]

\* The chat page replaces itself by setup without a session or a JWT.
Shown(p, launched) ==
    CASE p \in SignInPages -> SignInPage(p)
      [] p = "setup" -> SetupPage(NoSession)
      [] p = "admin" -> Console("denied")
      [] p = "chat" -> IF stored.session # NoSession /\ stored.jwt # NoJWT
                       THEN Chat(launched) ELSE SetupPage(launched)
      [] p = "tokenize" -> Tokenizer
      [] p = "landing" -> Landing

\* A page is mounted; left is what is still under way.
Mounts(p, launched, left) ==
    IF p = "admin" /\ Admits
    THEN /\ asked < bound.calls
         /\ asked' = asked + 1
         /\ calls' = left \cup {Call("logs", LogsOf(Today, stored.jwt))}
         /\ page' = Console("ok")
    ELSE /\ page' = Shown(p, launched)
         /\ calls' = left
         /\ UNCHANGED asked

Init ==
    /\ stored = [session |-> NoSession, jwt |-> NoJWT, role |-> None, user |-> None,
                prefs |-> NoPrefs]
    /\ page = Landing
    /\ look = Plain
    /\ calls = {} /\ asked = 0
    /\ route = NoRoute
    /\ tangled = FALSE
    /\ bound \in Bounds

Go(p) ==
    /\ p # page.at
    /\ Mounts(p, NoSession, Orphans)
    /\ route' = NoRoute
    /\ UNCHANGED <<stored, look, tangled, bound>>

\* The pushed route is mounted, unless its page is there already.
Arrive ==
    /\ route.to # None
    /\ \/ page.at # route.to /\ Mounts(route.to, route.launch, Orphans)
       \/ page.at = route.to /\ UNCHANGED <<page, wire>>
    /\ route' = NoRoute
    /\ UNCHANGED <<stored, look, tangled, bound>>

Reload(p) ==
    /\ Mounts(p, NoSession, {})
    /\ route' = NoRoute
    /\ look' = initTheme
    /\ UNCHANGED <<stored, tangled, bound>>

Next ==
    \/ SignInNext \/ SetupNext \/ AdminNext \/ TokenizeNext \/ SettingsNext \/ LandingNext
    \/ Arrive
    \/ \E p \in Pages : Go(p) \/ Reload(p)

Spec == Init /\ [][Next]_vars

\* Only the wizard's requests for models and its ping have a time limit
\* (AbortSignal.timeout): the browser ends them if nobody else does; and its timers fire.
FairSpec ==
    /\ Spec
    /\ \A b \in Bounds : \A n \in 1 .. b.calls :
           WF_vars(\E c \in calls : c.n = n /\ TimedAnswers(c))
    /\ WF_vars(CopyTimeout)

-------------------------------------------------------------------------------
\* Type correctness of localStorage, the page, the requests and the route.
TypeOK ==
    /\ stored \in Stored
    /\ page.at \in Pages
    /\ asked \in Nat
    /\ \A c \in calls :
           /\ c.n \in 1 .. asked
           /\ c.mine \in BOOLEAN
           /\ c.kind \in SignInPages => c.about \in Users
           /\ c.kind = "role" => c.about \in Roles
           /\ c.kind = "logs" => c.about \in [date : Dates, jwt : JWTs \cup {NoJWT}]
           /\ c.kind \in {"configure", "token"} => c.about \in 1 .. asked
    /\ route \in [to : Pages \cup {None}, launch : Nat]
    /\ look \in [theme : Themes, animations : BOOLEAN, compact : BOOLEAN,
                 touched : SUBSET {"animations", "compact"}]
    /\ tangled \in BOOLEAN
    /\ bound \in Bounds

-------------------------------------------------------------------------------
(* Properties. *)

Occurs(part, text) == \E i, j \in DOMAIN text : SubSeq(text, i, j) = part

\* Whichever login, Launch or persona switch wrote last, localStorage holds the role of
\* its token, and the token of an account only beside that account's name.
StoredIdentity ==
    /\ stored.role = stored.jwt.role
    /\ stored.jwt.sub \in Users => stored.user = stored.jwt.sub

\* A Launch never bounces back to setup: it ends on the chat page, and with the session
\* it configured, unless another Launch was under way at the same time.
LaunchOpensItsSession ==
    page.at \in {"setup", "chat"} /\ page.launched # NoSession =>
        page.at = "chat" /\ (page.session = page.launched \/ tangled)

\* The model a user has picked or typed stays what a Launch sends: a list that comes
\* late does not replace it, unless it was under way when the user chose.
ChoiceKept ==
    page.at = "setup" /\ page.chosen # NoModel => page.model = page.chosen

\* The entries on display are those of the date on display, once nothing is loading,
\* unless the request failed or was sent while another was under way.
DateShown ==
    page.at = "admin" /\ page.access = "ok" /\ ~page.loading /\ ~page.error /\ ~page.crossed
        => page.logs = page.date

\* page.tsx, "Gateway reachable — ready to go": a gateway that has just answered the
\* ping does not refuse the Launch.
ReadyToGo ==
    page.at = "setup" /\ page.testResult = "ok" => page.error # "refused"

\* page.tsx, "it will get the same token": within one vault a value, up to its case, and
\* its type have one token, whichever texts they come from, and no two share one.
SameValueSameToken ==
    page.at = "tokenize" =>
        \A r, q \in page.made : \A a \in EntityTable(r), b \in EntityTable(q) :
            a.token = b.token <=> Key(a.match) = Key(b.match)

\* Every result since the last reset, not only the last one, reads back as its text, up
\* to the case of a value, and the last one is among them; and the landing page's preview
\* reads back as its text.
ReadsBack ==
    /\ page.at = "tokenize" =>
           \A r \in page.made \cup ({page.result} \ {NoResult}) :
               Lowered(detokenize(r.tokenized, page.vault))
                   = Lowered(detokenize(r.original, page.vault))
    /\ page.at = "landing" /\ page.preview.result # NoPreview =>
           LET r == page.preview.result
           IN  FoldLeft(Substitute, r.out, r.hits) = FoldLeft(Substitute, r.original, r.hits)

\* page.tsx, "Jane Smith will always be {{PERSON_1}} until you reset": where a value of
\* the vault can still be read in a result, its first word stands in a match of its
\* own pattern that was passed over: a run of capitalised words that begins like a phrase
\* that is no name, or a match over one of another pattern, which is replaced.
PassedOver(m, result) ==
    \/ NoName(m)
    \/ \E r \in EntityTable(result) : r.match.type # m.type /\ Overlaps(m, r.match)

MaskedUnlessPassedOver ==
    page.at = "tokenize" /\ page.result # NoResult =>
        \A e \in VaultTable :
            Occurs(e.original, page.result.tokenized) =>
                \E i, j \in DOMAIN page.result.original :
                    /\ SubSeq(page.result.original, i, j) = e.original
                    /\ \E m \in Scan(e.token.type, Language(e.token.type),
                                   page.result.original) :
                           m.start <= i /\ i <= m.end /\ PassedOver(m, page.result)

\* The settings panel tells what the document looks like, whichever pages and reloads lie
\* between: the theme always, a switch once it has been used in this document (a new
\* document takes the theme from localStorage, the switches it does not).
SettingsTell ==
    page.at = "chat" =>
        /\ page.panel.theme = look.theme
        /\ \A switch \in look.touched : page.panel[switch] = look[switch]

\* The walkthrough has one interval for the bar and one for the steps while it plays,
\* those that the refs can clear, and none while it is paused, whatever was clicked.
OneClock ==
    page.at = "landing" =>
        \A kind \in Intervals :
            page.demo.running[kind] =
                IF page.demo.playing THEN {page.demo.refs[kind]} ELSE {}

\* Fetching models and the ping come to an end, whether or not anybody answers, and so
\* does the Copied badge.
SpinnersEnd ==
    /\ (page.at = "setup" /\ page.loadingModels) ~> ~(page.at = "setup" /\ page.loadingModels)
    /\ (page.at = "setup" /\ page.testing) ~> ~(page.at = "setup" /\ page.testing)
    /\ (page.at = "tokenize" /\ page.copied) ~> ~(page.at = "tokenize" /\ page.copied)
===============================================================================
