----------------------------- MODULE SetupWizard -----------------------------
(***************************************************************************)
(* The setup wizard (ui/app/setup/page.tsx): a provider, its model, a ping *)
(* and the Launch of a session.                                            *)
(*                                                                         *)
(* PROVIDERS marks Anthropic and OpenAI proOnly and disables their         *)
(* buttons, so the only provider that can be chosen is ollama, which needs *)
(* no key and has no default model.  The key inputs are left out.          *)
(***************************************************************************)
EXTENDS BrowserTab

CONSTANTS
    Models,
    NoModel,          \* ""
    Offers,           \* the models an Ollama URL serves
    DefaultUrl,       \* http://localhost:11434
    RequiresToken     \* the gateway configures no session without a JWT, as main.py does;
                      \* the wizard, which sends none, is written for one that does

Urls == DOMAIN Offers

ASSUME SetupWizardAssumption ==
    /\ NoModel \notin Models
    /\ Offers \in [Urls -> Seq(Models)]
    /\ DefaultUrl \in Urls
    /\ RequiresToken \in BOOLEAN

PROVIDERS ==
    [anthropic |-> [proOnly |-> TRUE], openai |-> [proOnly |-> TRUE],
     ollama |-> [proOnly |-> FALSE]]

\* chosen is history: the model the user has picked or typed, unless a list was under
\* way then; launched is the session of the Launch that led here.
SetupPage(launched) ==
    [at |-> "setup", step |-> 1, provider |-> None, model |-> NoModel, url |-> DefaultUrl,
     listed |-> << >>, loadingModels |-> FALSE, modelError |-> FALSE, testing |-> FALSE,
     testResult |-> None, configuring |-> FALSE, error |-> None,
     chosen |-> NoModel, launched |-> launched]

OnStep(s) == page.at = "setup" /\ page.step = s

-------------------------------------------------------------------------------
(* Step 1: the provider. *)

\* The effect on provider sets its default model, and ollama's is empty.
ChooseProvider(p) ==
    /\ OnStep(1)
    /\ ~PROVIDERS[p].proOnly
    /\ page.provider # p
    /\ page' = [page EXCEPT !.provider = p, !.model = NoModel, !.chosen = NoModel]
    /\ UNCHANGED <<stored, wire, route, look, tangled, bound>>

-------------------------------------------------------------------------------
(* Step 2: the model.  Entering it, and the Refresh button, ask for the    *)
(* models of the URL, with the model of that moment in the closure.        *)

FetchOllamaModels(step) ==
    /\ Asks("models", [url |-> page.url, model |-> page.model])
    /\ page' = [page EXCEPT !.step = step, !.loadingModels = TRUE, !.modelError = FALSE]
    /\ UNCHANGED <<stored, route, look, tangled, bound>>

EnterModels ==
    /\ \/ OnStep(1) /\ page.provider # None
       \/ OnStep(3)
    /\ FetchOllamaModels(2)

Refresh ==
    /\ OnStep(2)
    /\ FetchOllamaModels(2)

EditUrl(url) ==
    /\ OnStep(2)
    /\ url # page.url
    /\ page' = [page EXCEPT !.url = url]
    /\ UNCHANGED <<stored, wire, route, look, tangled, bound>>

\* From the list when there is one; as text when it could not be had.
EnterModel(m) ==
    /\ OnStep(2)
    /\ ~page.loadingModels
    /\ IF page.modelError THEN m \in Models \cup {NoModel}
                          ELSE \E i \in DOMAIN page.listed : m = page.listed[i]
    /\ m # page.model
    /\ page' = [page EXCEPT !.model = m,
                            !.chosen = IF Pending("models") = {} THEN m ELSE NoModel]
    /\ UNCHANGED <<stored, wire, route, look, tangled, bound>>

Back ==
    /\ OnStep(2)
    /\ page' = [page EXCEPT !.step = 1]
    /\ UNCHANGED <<stored, wire, route, look, tangled, bound>>

NextStep ==
    /\ OnStep(2)
    /\ page.model # NoModel
    /\ page' = [page EXCEPT !.step = 3]
    /\ UNCHANGED <<stored, wire, route, look, tangled, bound>>

\* Mutant: the first model of a list is taken whatever the model was.
FilledInAlways(list, asked_with) == IF list # << >> THEN list[1] ELSE page.model

\* A list that comes fills in its first model if the model was empty when it was asked for.
FilledIn(list, asked_with) ==
    IF list # << >> /\ asked_with = NoModel THEN list[1] ELSE page.model

\* The gateway refuses a request without a JWT, so the list comes from Ollama itself; an
\* Ollama may have no models.
ModelsListed(c) ==
    /\ c.kind = "models"
    /\ \E list \in {<< >>, Offers[c.about.url]} :
           Comes(c, [page EXCEPT !.listed = list, !.loadingModels = FALSE,
                                 !.model = FilledIn(list, c.about.model)])
    /\ UNCHANGED <<stored, asked, route, look, tangled, bound>>

\* Mutant: loadingModels is only reset with a list.
ModelsFailedLoading(c) ==
    /\ c.kind = "models"
    /\ Comes(c, [page EXCEPT !.modelError = TRUE])
    /\ UNCHANGED <<stored, asked, route, look, tangled, bound>>

\* Both paths failed or took more than five seconds.
ModelsFailed(c) ==
    /\ c.kind = "models"
    /\ Comes(c, [page EXCEPT !.modelError = TRUE, !.loadingModels = FALSE])
    /\ UNCHANGED <<stored, asked, route, look, tangled, bound>>

-------------------------------------------------------------------------------
(* Step 3: the ping and the Launch. *)

HandleTest ==
    /\ OnStep(3)
    /\ ~page.testing
    /\ Asks("health", None)
    /\ page' = [page EXCEPT !.testing = TRUE, !.testResult = None]
    /\ UNCHANGED <<stored, route, look, tangled, bound>>

\* healthCheck gives up after four seconds, and never throws.
Tested(c) ==
    /\ c.kind = "health"
    /\ \E result \in {"ok", "fail"} :
           Comes(c, [page EXCEPT !.testResult = result, !.testing = FALSE])
    /\ UNCHANGED <<stored, asked, route, look, tangled, bound>>

Launches == {c \in calls : c.kind \in {"configure", "token"}}

HandleFinish ==
    /\ OnStep(3)
    /\ ~page.configuring
    /\ page.provider # None /\ page.model # NoModel
    /\ Asks("configure", asked + 1)
    /\ page' = [page EXCEPT !.configuring = TRUE, !.error = None]
    /\ tangled' = (Launches # {} \/ route.launch # NoSession)
    /\ UNCHANGED <<stored, route, look, bound>>

\* Mutant: the chat page is pushed without waiting for initSession.
ConfiguredPushes(c) ==
    /\ c.kind = "configure"
    /\ ~RequiresToken
    /\ stored' = SessionStored(c.about)
    /\ calls' = (calls \ {c}) \cup {[c EXCEPT !.kind = "token"]}
    /\ route' = Pushed("chat", c.about)
    /\ UNCHANGED <<page, asked, look, tangled, bound>>

\* configureSession returns, which it does only from a gateway that asks for no JWT: the
\* session is stored, and a token asked for.
Configured(c) ==
    /\ c.kind = "configure"
    /\ ~RequiresToken
    /\ stored' = SessionStored(c.about)
    /\ calls' = (calls \ {c}) \cup {[c EXCEPT !.kind = "token"]}
    /\ UNCHANGED <<page, asked, route, look, tangled, bound>>

\* initSession returns: the token is stored and the chat page pushed.  configuring stays.
Launched(c) ==
    /\ c.kind = "token"
    /\ stored' = Minted(junior_analyst)
    /\ route' = Pushed("chat", c.about)
    /\ Comes(c, page)
    /\ UNCHANGED <<asked, look, tangled, bound>>

\* Either request is refused, or the connection breaks.
LaunchFailed(c) ==
    /\ c \in Launches
    /\ Comes(c, [page EXCEPT !.configuring = FALSE,
                     !.error = IF c.kind = "configure" /\ RequiresToken
                               THEN "refused" ELSE "failed"])
    /\ UNCHANGED <<stored, asked, route, look, tangled, bound>>

-------------------------------------------------------------------------------
TimedAnswers(c) == ModelsListed(c) \/ ModelsFailed(c) \/ Tested(c)

SetupNext ==
    \/ \E p \in DOMAIN PROVIDERS : ChooseProvider(p)
    \/ EnterModels \/ Refresh \/ Back \/ NextStep \/ HandleTest \/ HandleFinish
    \/ \E url \in Urls : EditUrl(url)
    \/ \E m \in Models \cup {NoModel} : EnterModel(m)
    \/ \E c \in calls :
           TimedAnswers(c) \/ Configured(c) \/ Launched(c) \/ LaunchFailed(c)
===============================================================================
