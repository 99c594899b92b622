----------------------------- MODULE PortalProofs -----------------------------
(***************************************************************************)
(* The portal for any users, models, dates, themes and texts.              *)
(*                                                                         *)
(* The React state of a page is its own: an action of one module changes   *)
(* only its own page, and the answer to a request changes the page only if *)
(* it is the one that asked.  That is Base, and every property about one   *)
(* page needs to look at that page's actions only.                         *)
(***************************************************************************)
EXTENDS Portal, TLAPS

\* A page sends its own kinds of requests.
AskedFrom(kind, at) ==
    \/ kind \in SignInPages /\ at = kind
    \/ kind = "role" /\ at = "chat"
    \/ kind \in {"models", "health", "configure", "token"} /\ at = "setup"
    \/ kind = "logs" /\ at = "admin"

Base ==
    /\ "at" \in DOMAIN page /\ page.at \in Pages
    /\ \A c \in calls :
           /\ DOMAIN c = {"n", "kind", "mine", "about"}
           /\ c.mine \in BOOLEAN
           /\ c.mine => AskedFrom(c.kind, page.at)

-------------------------------------------------------------------------------
(* Requests. *)

\* A request of the mounted page.
LEMMA AsksBase ==
    ASSUME Base, NEW kind, NEW about, Asks(kind, about), AskedFrom(kind, page.at),
           "at" \in DOMAIN page', page'.at = page.at
    PROVE  Base'
<1> DEFINE new == Call(kind, about)
<1>1. /\ DOMAIN new = {"n", "kind", "mine", "about"} /\ new.mine = TRUE
      /\ new.kind = kind
  BY DEF Call
<1>2. AskedFrom(new.kind, page'.at)
  BY <1>1
<1>3. calls' = calls \cup {new}
  BY DEF Asks
<1> HIDE DEF new
<1> QED
  BY <1>1, <1>2, <1>3 DEF Base

\* The answer to one of them.
LEMMA ComesBase ==
    ASSUME Base, NEW c \in calls, NEW shown, Comes(c, shown),
           c.mine => "at" \in DOMAIN shown /\ shown.at = page.at
    PROVE  Base' /\ "at" \in DOMAIN page' /\ page'.at = page.at
BY DEF Base, Comes

\* Nothing is sent or answered.
LEMMA QuietBase ==
    ASSUME Base, calls' = calls, "at" \in DOMAIN page', page'.at = page.at
    PROVE  Base'
BY DEF Base

-------------------------------------------------------------------------------
(* Each module changes its own page. *)

LEMMA SignInOwn ==
    ASSUME Base, SignInNext
    PROVE  /\ Base' /\ page'.at = page.at
           /\ page' = page \/ page.at \in SignInPages \cup {"chat"}
<1>1. CASE SubmitIncomplete
  BY <1>1, QuietBase DEF SubmitIncomplete, wire, Base
<1>2. ASSUME NEW u \in Users, HandleSubmit(u)
      PROVE  Base' /\ page'.at = page.at /\ page.at \in SignInPages
  <2>1. "at" \in DOMAIN page' /\ page'.at = page.at /\ page.at \in SignInPages
    BY <1>2 DEF HandleSubmit, Base
  <2> QED
    BY <1>2, <2>1, AsksBase DEF HandleSubmit, AskedFrom
<1>3. ASSUME NEW role \in Roles, SwitchPersona(role)
      PROVE  Base' /\ page'.at = page.at /\ page.at = "chat"
  <2>1. "at" \in DOMAIN page' /\ page'.at = page.at /\ page.at = "chat"
    BY <1>3 DEF SwitchPersona, Base
  <2> QED
    BY <1>3, <2>1, AsksBase DEF SwitchPersona, AskedFrom
<1>4. ASSUME NEW c \in calls, SignInAnswers(c) PROVE Base' /\ page'.at = page.at
                      /\ (page' = page \/ page.at \in SignInPages \cup {"chat"})
  <2>1. c.mine /\ c.kind \in SignInPages \cup {"role"} => page.at \in SignInPages \cup {"chat"}
    BY DEF Base, AskedFrom, SignInPages
  <2>2. CASE SignedIn(c)
    <3> DEFINE shown == [page EXCEPT !.loading = FALSE]
    <3>1. "at" \in DOMAIN shown /\ shown.at = page.at
      BY DEF Base
    <3>2. Comes(c, shown) /\ c.kind \in SignInPages
      BY <2>2 DEF SignedIn, Admitted
    <3> QED
      BY <2>1, <3>1, <3>2, ComesBase DEF Comes
  <2>3. CASE SignInFailed(c)
    <3> DEFINE shown == [page EXCEPT !.loading = FALSE, !.error = TRUE]
    <3>1. "at" \in DOMAIN shown /\ shown.at = page.at
      BY DEF Base
    <3>2. Comes(c, shown) /\ c.kind \in SignInPages
      BY <2>3 DEF SignInFailed
    <3> QED
      BY <2>1, <3>1, <3>2, ComesBase DEF Comes
  <2>4. CASE PersonaSwitched(c)
    <3> DEFINE shown == [page EXCEPT !.jwt = stored'.jwt]
    <3>1. "at" \in DOMAIN shown /\ shown.at = page.at
      BY DEF Base
    <3>2. Comes(c, shown) /\ c.kind = "role"
      BY <2>4 DEF PersonaSwitched
    <3> QED
      BY <2>1, <3>1, <3>2, ComesBase DEF Comes
  <2>5. CASE PersonaRefused(c)
    BY <2>5, ComesBase DEF PersonaRefused, Comes, Base
  <2> QED
    BY <1>4, <2>2, <2>3, <2>4, <2>5 DEF SignInAnswers
<1> QED
  BY <1>1, <1>2, <1>3, <1>4 DEF SignInNext, SubmitIncomplete

LEMMA SetupOwn ==
    ASSUME Base, SetupNext
    PROVE  /\ Base' /\ page'.at = page.at
           /\ page' = page \/ page.at = "setup"
<1>1. ASSUME page.at = "setup", "at" \in DOMAIN page', page'.at = page.at,
             \/ UNCHANGED wire
             \/ \E about : \E kind \in {"models", "health", "configure"} : Asks(kind, about)
      PROVE  Base' /\ page'.at = page.at /\ page.at = "setup"
  <2>1. CASE UNCHANGED wire
    BY <1>1, <2>1, QuietBase DEF wire
  <2>2. ASSUME NEW about, NEW kind \in {"models", "health", "configure"}, Asks(kind, about)
        PROVE  Base'
    BY <1>1, <2>2, AsksBase DEF AskedFrom
  <2> QED
    BY <1>1, <2>1, <2>2
<1>2. ASSUME NEW p \in DOMAIN PROVIDERS, ChooseProvider(p)
      PROVE  Base' /\ page'.at = page.at /\ page.at = "setup"
  <2>1. page.at = "setup" /\ "at" \in DOMAIN page' /\ page'.at = page.at /\ UNCHANGED wire
    BY <1>2 DEF ChooseProvider, OnStep, Base
  <2> QED
    BY <1>1, <2>1
<1>3. ASSUME NEW s \in {2}, page.at = "setup", FetchOllamaModels(s)
      PROVE  Base' /\ page'.at = page.at /\ page.at = "setup"
  <2>1. "at" \in DOMAIN page' /\ page'.at = page.at
    BY <1>3 DEF FetchOllamaModels, Base
  <2>2. \E about : \E kind \in {"models", "health", "configure"} : Asks(kind, about)
    BY <1>3 DEF FetchOllamaModels
  <2> QED
    BY <1>1, <1>3, <2>1, <2>2
<1>4. CASE EnterModels \/ Refresh
  BY <1>3, <1>4 DEF EnterModels, Refresh, OnStep
<1>5. CASE Back \/ NextStep
  <2>1. page.at = "setup" /\ "at" \in DOMAIN page' /\ page'.at = page.at /\ UNCHANGED wire
    BY <1>5 DEF Back, NextStep, OnStep, Base
  <2> QED
    BY <1>1, <2>1
<1>6. CASE HandleTest
  <2>1. page.at = "setup" /\ "at" \in DOMAIN page' /\ page'.at = page.at
    BY <1>6 DEF HandleTest, OnStep, Base
  <2>2. Asks("health", None)
    BY <1>6 DEF HandleTest
  <2> QED
    BY <1>1, <2>1, <2>2
<1>7. CASE HandleFinish
  <2>1. page.at = "setup" /\ "at" \in DOMAIN page' /\ page'.at = page.at
    BY <1>7 DEF HandleFinish, OnStep, Base
  <2>2. Asks("configure", asked + 1)
    BY <1>7 DEF HandleFinish
  <2> QED
    BY <1>1, <2>1, <2>2
<1>8. ASSUME NEW url \in Urls, EditUrl(url) PROVE Base' /\ page'.at = page.at /\ page.at = "setup"
  <2>1. page.at = "setup" /\ "at" \in DOMAIN page' /\ page'.at = page.at /\ UNCHANGED wire
    BY <1>8 DEF EditUrl, OnStep, Base
  <2> QED
    BY <1>1, <2>1
<1>9. ASSUME NEW m \in Models \cup {NoModel}, EnterModel(m)
      PROVE  Base' /\ page'.at = page.at /\ page.at = "setup"
  <2>1. page.at = "setup" /\ "at" \in DOMAIN page' /\ page'.at = page.at /\ UNCHANGED wire
    BY <1>9 DEF EnterModel, OnStep, Base
  <2> QED
    BY <1>1, <2>1
<1>10. ASSUME NEW c \in calls, NEW shown, Comes(c, shown),
              c.kind \in {"models", "health", "configure", "token"},
              "at" \in DOMAIN shown, shown.at = page.at
       PROVE  Base' /\ page'.at = page.at /\ (page' = page \/ page.at = "setup")
  <2>1. c.mine => page.at = "setup"
    BY <1>10 DEF Base, AskedFrom, SignInPages
  <2> QED
    BY <1>10, <2>1, ComesBase DEF Comes
<1>11. ASSUME NEW c \in calls, TimedAnswers(c) \/ Launched(c) \/ LaunchFailed(c)
       PROVE  Base' /\ page'.at = page.at /\ (page' = page \/ page.at = "setup")
  <2>1. CASE ModelsListed(c)
    <3>1. PICK list \in {<< >>, Offers[c.about.url]} :
              Comes(c, [page EXCEPT !.listed = list, !.loadingModels = FALSE,
                                    !.model = FilledIn(list, c.about.model)])
      BY <2>1 DEF ModelsListed
    <3> QED
      BY <2>1, <3>1, <1>10 DEF ModelsListed, Base
  <2>2. CASE ModelsFailed(c)
    BY <2>2, <1>10 DEF ModelsFailed, Base
  <2>3. CASE Tested(c)
    <3>1. PICK result \in {"ok", "fail"} :
              Comes(c, [page EXCEPT !.testResult = result, !.testing = FALSE])
      BY <2>3 DEF Tested
    <3> QED
      BY <2>3, <3>1, <1>10 DEF Tested, Base
  <2>4. CASE Launched(c)
    BY <2>4, <1>10 DEF Launched, Base
  <2>5. CASE LaunchFailed(c)
    BY <2>5, <1>10 DEF LaunchFailed, Launches, Base
  <2> QED
    BY <1>11, <2>1, <2>2, <2>3, <2>4, <2>5 DEF TimedAnswers
<1>12. ASSUME NEW c \in calls, Configured(c) PROVE Base' /\ page' = page
  BY <1>12 DEF Configured, Base, AskedFrom, SignInPages
<1> QED
  BY <1>2, <1>4, <1>5, <1>6, <1>7, <1>8, <1>9, <1>11, <1>12 DEF SetupNext

LEMMA AdminOwn ==
    ASSUME Base, AdminNext
    PROVE  /\ Base' /\ page'.at = page.at
           /\ page' = page \/ page.at = "admin"
<1>1. ASSUME NEW date, NEW jwt, page.at = "admin", FetchLogs(date, jwt)
      PROVE  Base' /\ page'.at = page.at /\ page.at = "admin"
  <2>1. "at" \in DOMAIN page' /\ page'.at = page.at
    BY <1>1 DEF FetchLogs, Base
  <2> QED
    BY <1>1, <2>1, AsksBase DEF FetchLogs, AskedFrom
<1>2. ASSUME NEW date \in Dates, ChangeDate(date)
      PROVE  Base' /\ page'.at = page.at /\ page.at = "admin"
  <2>1. CASE FetchLogs(date, stored.jwt)
    BY <1>1, <1>2, <2>1 DEF ChangeDate, OnConsole
  <2>2. CASE ~FetchLogs(date, stored.jwt)
    <3>1. page.at = "admin" /\ "at" \in DOMAIN page' /\ page'.at = page.at /\ UNCHANGED wire
      BY <1>2, <2>2 DEF ChangeDate, OnConsole, Base
    <3> QED
      BY <3>1, QuietBase DEF wire
  <2> QED
    BY <2>1, <2>2
<1>3. CASE RefreshLogs
  BY <1>1, <1>3 DEF RefreshLogs, OnConsole
<1>4. ASSUME NEW c \in calls, LogsListed(c) \/ LogsFailed(c)
      PROVE  Base' /\ page'.at = page.at /\ (page' = page \/ page.at = "admin")
  <2>1. c.kind = "logs" /\ (c.mine => page.at = "admin")
    BY <1>4 DEF LogsListed, LogsFailed, Base, AskedFrom, SignInPages
  <2>2. ASSUME NEW shown, Comes(c, shown), "at" \in DOMAIN shown, shown.at = page.at
        PROVE  Base' /\ page'.at = page.at /\ (page' = page \/ page.at = "admin")
    BY <2>1, <2>2, ComesBase DEF Comes
  <2>3. CASE LogsListed(c)
    BY <2>2, <2>3 DEF LogsListed, Base
  <2>4. CASE LogsFailed(c)
    BY <2>2, <2>4 DEF LogsFailed, Base
  <2> QED
    BY <1>4, <2>3, <2>4
<1> QED
  BY <1>2, <1>3, <1>4 DEF AdminNext

\* The pages that ask the gateway nothing.
LEMMA QuietOwn ==
    ASSUME Base, TokenizeNext \/ SettingsNext \/ LandingNext
    PROVE  /\ Base' /\ page'.at = page.at
           /\ TokenizeNext => page.at = "tokenize"
           /\ SettingsNext => page.at = "chat"
           /\ LandingNext => page.at = "landing"
<1> DEFINE Quiet(at) ==
      page.at = at /\ "at" \in DOMAIN page' /\ page'.at = page.at /\ UNCHANGED calls
<1>1. TokenizeNext => Quiet("tokenize")
  <2>1. (\E text : EditInput(text)) => Quiet("tokenize")
    BY DEF EditInput, OnTokenizer, elsewhere, wire, Base
  <2>2. HandleTokenize => Quiet("tokenize")
    BY DEF HandleTokenize, OnTokenizer, elsewhere, wire, Base
  <2>3. HandleCopy \/ CopyTimeout \/ HandleReset => Quiet("tokenize")
    BY DEF HandleCopy, CopyTimeout, HandleReset, OnTokenizer, elsewhere, wire, Base
  <2> QED
    BY <2>1, <2>2, <2>3 DEF TokenizeNext
<1>2. SettingsNext => Quiet("chat")
  BY DEF SettingsNext, SelectTheme, ToggleAnimations, ToggleCompact, ResetSettings, OnPanel,
         UnchangedBySettings, wire, Base
<1>3. LandingNext => Quiet("landing")
  <2>1. Preview \/ SubmitWaitlist => Quiet("landing")
    BY DEF Preview, EditDemo, RunDemo, ResetDemo, SubmitWaitlist, FormShown, OnLanding,
           besides, wire, Base
  <2>2. Plays => Quiet("landing")
    BY DEF Plays, OnLanding, besides, wire, Base
  <2>3. StepTabs \/ Controls => Quiet("landing")
    BY DEF StepTabs, Controls, GoTo, TogglePlay, Restart, OnLanding, besides, wire, Base
  <2> QED
    BY <2>1, <2>2, <2>3 DEF LandingNext
<1> QED
  BY <1>1, <1>2, <1>3, QuietBase

\* What is under way when a page is replaced is not the new page's.
LEMMA OrphansOwn ==
    ASSUME Base, NEW c \in Orphans
    PROVE  /\ DOMAIN c = {"n", "kind", "mine", "about"} /\ c.mine = FALSE
           /\ \E d \in calls : c.n = d.n /\ c.kind = d.kind /\ c.about = d.about
BY DEF Orphans, Base

\* What a mounted page begins with.
LEMMA MountOwn ==
    ASSUME Base, NEW p \in Pages, NEW launched, NEW left \in {Orphans, {}},
           Mounts(p, launched, left)
    PROVE  /\ Base'
           /\ page'.at = "landing" => page' = Landing
           /\ page'.at = "tokenize" => page' = Tokenizer
           /\ page'.at = "chat" =>
                  /\ page' = Chat(launched)
                  /\ stored.session # NoSession /\ stored.jwt # NoJWT
           /\ page'.at = "setup" =>
                  \/ page' = SetupPage(NoSession)
                  \/ /\ page' = SetupPage(launched)
                     /\ stored.session = NoSession \/ stored.jwt = NoJWT
           /\ page'.at = "admin" => page' = Console("ok") \/ page' = Console("denied")
<1>0. \A c \in left : DOMAIN c = {"n", "kind", "mine", "about"} /\ c.mine = FALSE
  BY OrphansOwn
<1>1. CASE p = "admin" /\ Admits
  <2>1. page' = Console("ok") /\ page'.at = "admin" /\ "at" \in DOMAIN page'
    BY <1>1 DEF Mounts, Console
  <2> DEFINE new == Call("logs", LogsOf(Today, stored.jwt))
  <2>2. DOMAIN new = {"n", "kind", "mine", "about"} /\ new.mine = TRUE /\ new.kind = "logs"
    BY DEF Call
  <2>3. calls' = left \cup {new}
    BY <1>1 DEF Mounts
  <2> HIDE DEF new
  <2> QED
    BY <1>0, <2>1, <2>2, <2>3 DEF Base, AskedFrom, Pages
<1>2. CASE ~(p = "admin" /\ Admits)
  <2>1. page' = Shown(p, launched)
    BY <1>2 DEF Mounts
  <2>2. "at" \in DOMAIN page' /\ page'.at \in Pages => Base'
    BY <1>0, <1>2 DEF Mounts, Base
  <2>3. CASE p \in SignInPages
    <3>1. page' = SignInPage(p)
      BY <2>1, <2>3 DEF Shown, SignInPages
    <3>2. "at" \in DOMAIN page' /\ page'.at = p
      BY <2>3, <3>1 DEF SignInPage
    <3> QED
      BY <2>2, <2>3, <3>1, <3>2 DEF Pages, SignInPages
  <2>4. CASE p = "setup"
    <3>1. page' = SetupPage(NoSession)
      BY <2>1, <2>4 DEF Shown, SignInPages
    <3>2. "at" \in DOMAIN page' /\ page'.at = p
      BY <2>4, <3>1 DEF SetupPage
    <3> QED
      BY <2>2, <2>4, <3>1, <3>2 DEF Pages, SignInPages
  <2>5. CASE p = "admin"
    <3>1. page' = Console("denied")
      BY <2>1, <2>5 DEF Shown, SignInPages
    <3>2. "at" \in DOMAIN page' /\ page'.at = p
      BY <2>5, <3>1 DEF Console
    <3> QED
      BY <2>2, <2>5, <3>1, <3>2 DEF Pages, SignInPages
  <2>6. CASE p = "chat" /\ stored.session # NoSession /\ stored.jwt # NoJWT
    <3>1. page' = Chat(launched)
      BY <2>1, <2>6 DEF Shown, SignInPages
    <3>2. "at" \in DOMAIN page' /\ page'.at = p
      BY <2>6, <3>1 DEF Chat
    <3> QED
      BY <2>2, <2>6, <3>1, <3>2 DEF Pages, SignInPages
  <2>7. CASE p = "chat" /\ ~(stored.session # NoSession /\ stored.jwt # NoJWT)
    <3>1. page' = SetupPage(launched)
      BY <2>1, <2>7 DEF Shown, SignInPages
    <3>2. "at" \in DOMAIN page' /\ page'.at = "setup"
      BY <2>7, <3>1 DEF SetupPage
    <3> QED
      BY <2>2, <2>7, <3>1, <3>2 DEF Pages, SignInPages
  <2>8. CASE p = "tokenize"
    <3>1. page' = Tokenizer
      BY <2>1, <2>8 DEF Shown, SignInPages
    <3>2. "at" \in DOMAIN page' /\ page'.at = p
      BY <2>8, <3>1 DEF Tokenizer
    <3> QED
      BY <2>2, <2>8, <3>1, <3>2 DEF Pages, SignInPages
  <2>9. CASE p = "landing"
    <3>1. page' = Landing
      BY <2>1, <2>9 DEF Shown, SignInPages
    <3>2. "at" \in DOMAIN page' /\ page'.at = p
      BY <2>9, <3>1 DEF Landing
    <3> QED
      BY <2>2, <2>9, <3>1, <3>2 DEF Pages, SignInPages
  <2> QED
    BY <2>3, <2>4, <2>5, <2>6, <2>7, <2>8, <2>9 DEF Pages
<1> QED
  BY <1>1, <1>2

LEMMA BaseStep == ASSUME Base, route.to \in Pages \cup {None}, [Next]_vars PROVE Base'
<1>1. CASE SignInNext \/ SetupNext \/ AdminNext \/ TokenizeNext \/ SettingsNext \/ LandingNext
  BY <1>1, SignInOwn, SetupOwn, AdminOwn, QuietOwn
<1>2. CASE Arrive
  <2>1. CASE UNCHANGED <<page, wire>>
    BY <2>1, QuietBase DEF wire, Base
  <2>2. CASE Mounts(route.to, route.launch, Orphans)
    BY <1>2, <2>2, MountOwn DEF Arrive
  <2> QED
    BY <1>2, <2>1, <2>2 DEF Arrive
<1>3. ASSUME NEW p \in Pages, Go(p) PROVE Base'
  BY <1>3, MountOwn DEF Go
<1>4. ASSUME NEW p \in Pages, Reload(p) PROVE Base'
  BY <1>4, MountOwn DEF Reload
<1>5. CASE UNCHANGED vars
  BY <1>5, QuietBase DEF vars, wire, Base
<1> QED
  BY <1>1, <1>2, <1>3, <1>4, <1>5 DEF Next

-------------------------------------------------------------------------------
(* The settings panel tells what the document looks like. *)

\* The preferences in localStorage are what both the panel and the document show.
SettingsInv ==
    /\ look.theme = Or(stored.prefs.theme, DefaultTheme)
    /\ "animations" \in look.touched => look.animations = Panel.animations
    /\ "compact" \in look.touched => look.compact = Panel.compact
    /\ page.at = "chat" => "panel" \in DOMAIN page /\ page.panel = Panel

\* Only the panel writes preferences, and only the panel and a reload the document.
LEMMA SettingsElsewhere ==
    ASSUME Base, stored \in Stored,
           SignInNext \/ SetupNext \/ AdminNext \/ TokenizeNext \/ LandingNext
    PROVE  /\ look' = look /\ stored'.prefs = stored.prefs
           /\ page.at = "chat" /\ "panel" \in DOMAIN page
                  => "panel" \in DOMAIN page' /\ page'.panel = page.panel
<1> DEFINE Kept ==
      "panel" \in DOMAIN page => "panel" \in DOMAIN page' /\ page'.panel = page.panel
<1>1. CASE SignInNext
  <2>1. CASE SubmitIncomplete
    BY <2>1 DEF SubmitIncomplete
  <2>2. ASSUME NEW u \in Users, HandleSubmit(u) PROVE look' = look /\ stored' = stored /\ Kept
    BY <2>2 DEF HandleSubmit
  <2>3. ASSUME NEW role \in Roles, SwitchPersona(role)
        PROVE  look' = look /\ stored' = stored /\ Kept
    BY <2>3 DEF SwitchPersona
  <2>4. ASSUME NEW c \in calls, SignInAnswers(c)
        PROVE  look' = look /\ stored'.prefs = stored.prefs /\ Kept
    <3>1. CASE SignedIn(c)
      BY <3>1 DEF SignedIn, Comes, Stored
    <3>2. CASE SignInFailed(c)
      BY <3>2 DEF SignInFailed, Comes
    <3>3. CASE PersonaSwitched(c)
      BY <3>3 DEF PersonaSwitched, Comes, Minted, Stored
    <3>4. CASE PersonaRefused(c)
      BY <3>4 DEF PersonaRefused, Comes
    <3> QED
      BY <2>4, <3>1, <3>2, <3>3, <3>4 DEF SignInAnswers
  <2> QED
    BY <1>1, <2>1, <2>2, <2>3, <2>4 DEF SignInNext
<1>2. CASE SetupNext
  <2>1. ASSUME NEW c \in calls, Configured(c) \/ Launched(c)
        PROVE  look' = look /\ stored'.prefs = stored.prefs
    BY <2>1 DEF Configured, Launched, SessionStored, Minted, Stored
  <2>2. ASSUME NEW c \in calls, TimedAnswers(c) \/ LaunchFailed(c)
        PROVE  look' = look /\ stored' = stored
    BY <2>2 DEF TimedAnswers, ModelsListed, ModelsFailed, Tested, LaunchFailed
  <2>3. EnterModels \/ Refresh \/ Back \/ NextStep \/ HandleTest \/ HandleFinish
            => look' = look /\ stored' = stored
    BY DEF EnterModels, Refresh, FetchOllamaModels, Back, NextStep, HandleTest, HandleFinish
  <2>4. (\E p \in DOMAIN PROVIDERS : ChooseProvider(p)) \/ (\E url \in Urls : EditUrl(url))
            \/ (\E m \in Models \cup {NoModel} : EnterModel(m))
            => look' = look /\ stored' = stored
    BY DEF ChooseProvider, EditUrl, EnterModel
  <2> QED
    BY <1>2, <2>1, <2>2, <2>3, <2>4, SetupOwn DEF SetupNext
<1>3. CASE AdminNext
  <2>1. look' = look /\ stored' = stored
    BY <1>3 DEF AdminNext, ChangeDate, RefreshLogs, FetchLogs, LogsListed, LogsFailed
  <2> QED
    BY <1>3, <2>1, AdminOwn
<1>4. CASE TokenizeNext
  <2>1. look' = look /\ stored' = stored
    BY <1>4 DEF TokenizeNext, EditInput, HandleTokenize, HandleCopy, CopyTimeout, HandleReset,
                elsewhere
  <2> QED
    BY <1>4, <2>1, QuietOwn
<1>5. CASE LandingNext
  <2>1. look' = look /\ stored' = stored
    BY <1>5 DEF LandingNext, Preview, EditDemo, RunDemo, ResetDemo, SubmitWaitlist, Plays,
                StepTabs, GoTo, Controls, TogglePlay, Restart, besides
  <2> QED
    BY <1>5, <2>1, QuietOwn
<1> QED
  BY <1>1, <1>2, <1>3, <1>4, <1>5

LEMMA SettingsStep ==
    ASSUME Base, TypeOK, SettingsInv, [Next]_vars
    PROVE  SettingsInv'
<1>1. stored \in Stored /\ look \in [theme : Themes, animations : BOOLEAN, compact : BOOLEAN,
                                     touched : SUBSET {"animations", "compact"}]
  BY DEF TypeOK
<1>2. CASE SignInNext \/ SetupNext \/ AdminNext \/ TokenizeNext \/ LandingNext
  <2>1. page'.at = page.at
    BY <1>2, SignInOwn, SetupOwn, AdminOwn, QuietOwn
  <2> QED
    BY <1>1, <1>2, <2>1, SettingsElsewhere DEF SettingsInv, Panel
<1>3. CASE SettingsNext
  <2>1. page.at = "chat" /\ "panel" \in DOMAIN page /\ page.panel = Panel
    BY <1>3, QuietOwn DEF SettingsInv
  <2>2. /\ stored.prefs \in Prefs /\ DefaultTheme \in Themes
        /\ None \notin Themes /\ None \notin BOOLEAN
    BY <1>1, BrowserTabAssumption DEF Stored
  <2>3. ASSUME NEW t \in Themes, SelectTheme(t) PROVE SettingsInv'
    <3> DEFINE new == [theme |-> t, animations |-> Panel.animations, compact |-> Panel.compact]
    <3>1. "panel" \in DOMAIN page' /\ page'.panel = new
      BY <2>1, <2>3 DEF SelectTheme, Panel
    <3>2. stored'.prefs = [stored.prefs EXCEPT !.theme = t]
      BY <1>1, <2>3 DEF SelectTheme, Stored
    <3>3. look' = [look EXCEPT !.theme = t]
      BY <2>3 DEF SelectTheme
    <3>4. /\ Or(stored'.prefs.theme, DefaultTheme) = t
          /\ Or(stored'.prefs.animations, TRUE) = Or(stored.prefs.animations, TRUE)
          /\ Or(stored'.prefs.compact, FALSE) = Or(stored.prefs.compact, FALSE)
      BY <2>2, <3>2 DEF Or, Prefs
    <3>5. Panel' = new
      BY <3>4 DEF Panel
    <3>6. look'.theme = Or(stored'.prefs.theme, DefaultTheme)
      BY <1>1, <3>3, <3>4 DEF SettingsInv
    <3>7. /\ "animations" \in look'.touched => look'.animations = Panel.animations
          /\ "compact" \in look'.touched => look'.compact = Panel.compact
      BY <1>1, <3>3 DEF SettingsInv, Panel
    <3> QED
      BY <3>1, <3>5, <3>6, <3>7 DEF SettingsInv
  <2>4. CASE ToggleAnimations
    <3> DEFINE val == ~page.panel.animations
    <3>0. val \in BOOLEAN
      OBVIOUS
    <3> DEFINE new == [theme |-> Panel.theme, animations |-> val, compact |-> Panel.compact]
    <3>1. "panel" \in DOMAIN page' /\ page'.panel = new
      BY <2>1, <2>4 DEF ToggleAnimations, Panel
    <3>2. stored'.prefs = [stored.prefs EXCEPT !.animations = val]
      BY <1>1, <2>4 DEF ToggleAnimations, Stored
    <3>3. look' = [look EXCEPT !.animations = val, !.touched = @ \cup {"animations"}]
      BY <2>4 DEF ToggleAnimations
    <3> HIDE DEF val
    <3>4. /\ Or(stored'.prefs.theme, DefaultTheme) = Or(stored.prefs.theme, DefaultTheme)
          /\ Or(stored'.prefs.animations, TRUE) = val
          /\ Or(stored'.prefs.compact, FALSE) = Or(stored.prefs.compact, FALSE)
      BY <2>2, <3>2, <3>0 DEF Or, Prefs
    <3>5. Panel' = new
      BY <3>4 DEF Panel
    <3>6. look'.theme = Or(stored'.prefs.theme, DefaultTheme)
      BY <1>1, <3>3, <3>4 DEF SettingsInv
    <3>7. /\ "animations" \in look'.touched => look'.animations = val
          /\ "compact" \in look'.touched => look'.compact = Panel.compact
      BY <1>1, <3>3 DEF SettingsInv, Panel
    <3> QED
      BY <3>1, <3>5, <3>6, <3>7 DEF SettingsInv
  <2>5. CASE ToggleCompact
    <3> DEFINE val == ~page.panel.compact
    <3>0. val \in BOOLEAN
      OBVIOUS
    <3> DEFINE new == [theme |-> Panel.theme, animations |-> Panel.animations, compact |-> val]
    <3>1. "panel" \in DOMAIN page' /\ page'.panel = new
      BY <2>1, <2>5 DEF ToggleCompact, Panel
    <3>2. stored'.prefs = [stored.prefs EXCEPT !.compact = val]
      BY <1>1, <2>5 DEF ToggleCompact, Stored
    <3>3. look' = [look EXCEPT !.compact = val, !.touched = @ \cup {"compact"}]
      BY <2>5 DEF ToggleCompact
    <3> HIDE DEF val
    <3>4. /\ Or(stored'.prefs.theme, DefaultTheme) = Or(stored.prefs.theme, DefaultTheme)
          /\ Or(stored'.prefs.animations, TRUE) = Or(stored.prefs.animations, TRUE)
          /\ Or(stored'.prefs.compact, FALSE) = val
      BY <2>2, <3>2, <3>0 DEF Or, Prefs
    <3>5. Panel' = new
      BY <3>4 DEF Panel
    <3>6. look'.theme = Or(stored'.prefs.theme, DefaultTheme)
      BY <1>1, <3>3, <3>4 DEF SettingsInv
    <3>7. /\ "animations" \in look'.touched => look'.animations = Panel.animations
          /\ "compact" \in look'.touched => look'.compact = val
      BY <1>1, <3>3 DEF SettingsInv, Panel
    <3> QED
      BY <3>1, <3>5, <3>6, <3>7 DEF SettingsInv
  <2>6. CASE ResetSettings
    <3> DEFINE default == [theme |-> DefaultTheme, animations |-> TRUE, compact |-> FALSE]
    <3>1. "panel" \in DOMAIN page' /\ page'.panel = default
      BY <2>1, <2>6 DEF ResetSettings
    <3>2. stored'.prefs = [NoPrefs EXCEPT !.theme = DefaultTheme]
      BY <1>1, <2>6 DEF ResetSettings, Stored
    <3>3. look'.theme = DefaultTheme /\ look'.animations = TRUE /\ look'.compact = FALSE
          /\ look'.touched = {"animations", "compact"}
      BY <2>6 DEF ResetSettings, Plain
    <3>4. /\ Or(stored'.prefs.theme, DefaultTheme) = DefaultTheme
          /\ Or(stored'.prefs.animations, TRUE) = TRUE
          /\ Or(stored'.prefs.compact, FALSE) = FALSE
      BY <3>2 DEF Or, NoPrefs
    <3>5. Panel' = default
      BY <3>4 DEF Panel
    <3>6. /\ "animations" \in look'.touched => look'.animations = TRUE
          /\ "compact" \in look'.touched => look'.compact = FALSE
      BY <3>3
    <3> QED
      BY <3>1, <3>3, <3>4, <3>5, <3>6 DEF SettingsInv
  <2> QED
    BY <1>3, <2>3, <2>4, <2>5, <2>6 DEF SettingsNext
<1>4. ASSUME NEW p \in Pages, NEW launched, NEW left \in {Orphans, {}},
             Mounts(p, launched, left), stored' = stored, look' \in {look, initTheme}
      PROVE  SettingsInv'
  <2>1. page'.at = "chat" => "panel" \in DOMAIN page' /\ page'.panel = Panel
    <3>1. page'.at = "chat" => page' = Chat(launched)
      BY <1>4, MountOwn
    <3> QED
      BY <3>1 DEF Chat
  <2>2. look' = initTheme => look'.theme = Or(stored.prefs.theme, DefaultTheme) /\ look'.touched = {}
    BY DEF initTheme, Plain
  <2>3. Panel' = Panel
    BY <1>4 DEF Panel
  <2> QED
    BY <1>4, <2>1, <2>2, <2>3 DEF SettingsInv
<1>5. CASE Arrive
  <2>1. CASE UNCHANGED <<page, wire>>
    BY <1>5, <2>1 DEF Arrive, SettingsInv, Panel
  <2>2. CASE Mounts(route.to, route.launch, Orphans)
    BY <1>4, <1>5, <2>2 DEF Arrive, TypeOK
  <2> QED
    BY <1>5, <2>1, <2>2 DEF Arrive
<1>6. ASSUME NEW p \in Pages, Go(p) \/ Reload(p) PROVE SettingsInv'
  <2>1. CASE Go(p)
    BY <1>4, <2>1 DEF Go
  <2>2. CASE Reload(p)
    BY <1>4, <2>2 DEF Reload
  <2> QED
    BY <1>6, <2>1, <2>2
<1>7. CASE UNCHANGED vars
  BY <1>7 DEF vars, SettingsInv, Panel
<1> QED
  BY <1>2, <1>3, <1>5, <1>6, <1>7 DEF Next

-------------------------------------------------------------------------------
(* Types. *)

CallTyped(c, n) ==
    /\ c.n \in 1 .. n
    /\ c.mine \in BOOLEAN
    /\ c.kind \in SignInPages => c.about \in Users
    /\ c.kind = "role" => c.about \in Roles
    /\ c.kind = "logs" => c.about \in [date : Dates, jwt : JWTs \cup {NoJWT}]
    /\ c.kind \in {"configure", "token"} => c.about \in 1 .. n

WireTyped == asked \in Nat /\ \A c \in calls : CallTyped(c, asked)

\* The console sends the date and the token it holds.
ConsoleTyped ==
    page.at = "admin" =>
        /\ {"date", "jwt"} \subseteq DOMAIN page
        /\ page.date \in Dates /\ page.jwt \in JWTs \cup {NoJWT}

RestTyped ==
    /\ stored \in Stored
    /\ route \in [to : Pages \cup {None}, launch : Nat]
    /\ look \in [theme : Themes, animations : BOOLEAN, compact : BOOLEAN,
                 touched : SUBSET {"animations", "compact"}]
    /\ tangled \in BOOLEAN
    /\ bound \in Bounds

LEMMA TypeParts == ASSUME Base PROVE TypeOK <=> WireTyped /\ RestTyped
BY DEF Base, TypeOK, WireTyped, RestTyped, CallTyped

LEMMA AsksTyped ==
    ASSUME WireTyped, NEW kind, NEW about, Asks(kind, about),
           kind \in SignInPages => about \in Users,
           kind = "role" => about \in Roles,
           kind = "logs" => about \in [date : Dates, jwt : JWTs \cup {NoJWT}],
           kind \in {"configure", "token"} => about \in 1 .. asked + 1
    PROVE  WireTyped'
<1> DEFINE new == Call(kind, about)
<1>1. new.n = asked + 1 /\ new.mine = TRUE /\ new.kind = kind /\ new.about = about
  BY DEF Call
<1> HIDE DEF new
<1>0. asked + 1 \in 1 .. asked + 1 /\ TRUE \in BOOLEAN
  BY DEF WireTyped
<1>2. CallTyped(new, asked + 1)
  BY <1>0, <1>1 DEF CallTyped
<1>3. \A c \in calls : CallTyped(c, asked + 1)
  BY DEF CallTyped, WireTyped
<1>4. calls' = calls \cup {new} /\ asked' = asked + 1
  BY DEF Asks, new
<1> QED
  BY <1>2, <1>3, <1>4 DEF WireTyped

LEMMA ComesTyped ==
    ASSUME WireTyped, calls' \subseteq calls, asked' = asked
    PROVE  WireTyped'
BY DEF WireTyped

LEMMA OrphansTyped ==
    ASSUME Base, WireTyped, NEW c \in Orphans
    PROVE  CallTyped(c, asked)
BY OrphansOwn DEF WireTyped, CallTyped

LEMMA MountTyped ==
    ASSUME Base, WireTyped, stored \in Stored, NEW p \in Pages, NEW launched,
           NEW left \in {Orphans, {}}, Mounts(p, launched, left)
    PROVE  WireTyped' /\ (stored' = stored => ConsoleTyped')
<1>1. \A c \in left : CallTyped(c, asked)
  BY OrphansTyped
<1>2. WireTyped'
  <2>1. CASE p = "admin" /\ Admits
    <3> DEFINE new == Call("logs", LogsOf(Today, stored.jwt))
    <3>1. stored.jwt \in JWTs \cup {NoJWT} /\ Today \in Dates
      BY AdminConsoleAssumption DEF Stored
    <3>2. LogsOf(Today, stored.jwt) \in [date : Dates, jwt : JWTs \cup {NoJWT}]
      BY <3>1 DEF LogsOf
    <3>3. /\ new.n = asked + 1 /\ new.mine = TRUE /\ new.kind = "logs"
          /\ new.about = LogsOf(Today, stored.jwt)
      BY DEF Call
    <3> HIDE DEF new
    <3>0. asked + 1 \in 1 .. asked + 1 /\ TRUE \in BOOLEAN
      BY DEF WireTyped
    <3>4. CallTyped(new, asked + 1)
      BY <3>0, <3>2, <3>3 DEF CallTyped, SignInPages
    <3>5. \A c \in left : CallTyped(c, asked + 1)
      BY <1>1 DEF CallTyped, WireTyped
    <3>6. calls' = left \cup {new} /\ asked' = asked + 1
      BY <2>1 DEF Mounts, new
    <3> QED
      BY <3>4, <3>5, <3>6 DEF WireTyped
  <2>2. CASE ~(p = "admin" /\ Admits)
    BY <1>1, <2>2 DEF Mounts, WireTyped
  <2> QED
    BY <2>1, <2>2
<1>3. page'.at = "admin" => page' = Console("ok") \/ page' = Console("denied")
  BY MountOwn
<1>4. page'.at = "admin" => {"date", "jwt"} \subseteq DOMAIN page' /\ page'.date = Today
                            /\ page'.jwt = stored.jwt
  BY <1>3 DEF Console
<1>5. stored.jwt \in JWTs \cup {NoJWT} /\ Today \in Dates
  BY AdminConsoleAssumption DEF Stored
<1> QED
  BY <1>2, <1>4, <1>5 DEF ConsoleTyped

LEMMA SignInTyped ==
    ASSUME Base, WireTyped, RestTyped, ConsoleTyped, SignInNext
    PROVE  WireTyped' /\ RestTyped' /\ ConsoleTyped'
<1>1. CASE SubmitIncomplete
  BY <1>1 DEF SubmitIncomplete, wire, WireTyped, RestTyped, ConsoleTyped, SignInPages
<1>2. ASSUME NEW u \in Users, HandleSubmit(u) PROVE WireTyped' /\ RestTyped' /\ ConsoleTyped'
  <2>1. WireTyped'
    BY <1>2, AsksTyped DEF HandleSubmit, SignInPages
  <2> QED
    BY <1>2, <2>1 DEF HandleSubmit, RestTyped, ConsoleTyped, SignInPages, Base
<1>3. ASSUME NEW role \in Roles, SwitchPersona(role) PROVE WireTyped' /\ RestTyped' /\ ConsoleTyped'
  <2>1. WireTyped'
    BY <1>3, AsksTyped DEF SwitchPersona, SignInPages
  <2> QED
    BY <1>3, <2>1 DEF SwitchPersona, RestTyped, ConsoleTyped, Base
<1>4. ASSUME NEW c \in calls, SignInAnswers(c) PROVE WireTyped' /\ RestTyped' /\ ConsoleTyped'
  <2>1. CallTyped(c, asked)
    BY DEF WireTyped
  <2>2. calls' \subseteq calls /\ asked' = asked
    BY <1>4 DEF SignInAnswers, SignedIn, SignInFailed, PersonaSwitched, PersonaRefused, Comes
  <2>3. WireTyped'
    BY <2>2, ComesTyped
  <2>4. CASE SignedIn(c)
    <3>1. c.about \in Users /\ Accounts[c.about] \in Roles
      BY <2>1, <2>4, BrowserTabAssumption DEF SignedIn, Admitted, CallTyped
    <3>2. stored' \in Stored
      BY <2>4, <3>1 DEF SignedIn, RestTyped, Stored, JWTs
    <3>3. route' \in [to : Pages \cup {None}, launch : Nat]
      BY <2>4 DEF SignedIn, Pushed, NoSession, Pages
    <3>4. ConsoleTyped'
      BY <2>4 DEF SignedIn, Comes, ConsoleTyped, Base
    <3> QED
      BY <2>3, <2>4, <3>2, <3>3, <3>4 DEF SignedIn, RestTyped
  <2>5. CASE SignInFailed(c)
    BY <2>3, <2>5 DEF SignInFailed, Comes, RestTyped, ConsoleTyped, Base
  <2>6. CASE PersonaSwitched(c)
    <3>1. c.about \in Roles
      BY <2>1, <2>6 DEF PersonaSwitched, CallTyped
    <3>2. stored' \in Stored
      BY <2>6, <3>1 DEF PersonaSwitched, Minted, RestTyped, Stored, JWTs
    <3>3. ConsoleTyped'
      BY <2>6, <3>2 DEF PersonaSwitched, Comes, ConsoleTyped, Base, Stored
    <3> QED
      BY <2>3, <2>6, <3>2, <3>3 DEF PersonaSwitched, RestTyped
  <2>7. CASE PersonaRefused(c)
    BY <2>3, <2>7 DEF PersonaRefused, Comes, RestTyped, ConsoleTyped, Base
  <2> QED
    BY <1>4, <2>4, <2>5, <2>6, <2>7 DEF SignInAnswers
<1> QED
  BY <1>1, <1>2, <1>3, <1>4 DEF SignInNext

LEMMA SetupTyped ==
    ASSUME Base, WireTyped, RestTyped, ConsoleTyped, SetupNext
    PROVE  WireTyped' /\ RestTyped' /\ ConsoleTyped'
<1>1. ConsoleTyped'
  BY SetupOwn DEF ConsoleTyped
<1>2. ASSUME UNCHANGED <<stored, route, look, bound>>, tangled' \in BOOLEAN PROVE RestTyped'
  BY <1>2 DEF RestTyped
<1>3. ASSUME NEW kind \in {"models", "health", "configure"}, NEW about,
             kind = "configure" => about \in 1 .. asked + 1, Asks(kind, about)
      PROVE  WireTyped'
  BY <1>3, AsksTyped DEF SignInPages
<1>4. EnterModels \/ Refresh => WireTyped' /\ RestTyped'
  BY <1>2, <1>3 DEF EnterModels, Refresh, FetchOllamaModels, RestTyped
<1>5. Back \/ NextStep => WireTyped' /\ RestTyped'
  BY <1>2 DEF Back, NextStep, wire, WireTyped, RestTyped
<1>6. HandleTest => WireTyped' /\ RestTyped'
  BY <1>2, <1>3 DEF HandleTest, RestTyped
<1>7. HandleFinish => WireTyped' /\ RestTyped'
  <2>1. asked + 1 \in 1 .. asked + 1
    BY DEF WireTyped
  <2>2. HandleFinish => tangled' \in BOOLEAN
    BY DEF HandleFinish
  <2> QED
    BY <1>2, <1>3, <2>1, <2>2 DEF HandleFinish
<1>8. ASSUME NEW p \in DOMAIN PROVIDERS, ChooseProvider(p) PROVE WireTyped' /\ RestTyped'
  BY <1>2, <1>8 DEF ChooseProvider, wire, WireTyped, RestTyped
<1>9. ASSUME NEW url \in Urls, EditUrl(url) PROVE WireTyped' /\ RestTyped'
  BY <1>2, <1>9 DEF EditUrl, wire, WireTyped, RestTyped
<1>10. ASSUME NEW m \in Models \cup {NoModel}, EnterModel(m) PROVE WireTyped' /\ RestTyped'
  BY <1>2, <1>10 DEF EnterModel, wire, WireTyped, RestTyped
<1>11. ASSUME NEW c \in calls, TimedAnswers(c) \/ LaunchFailed(c) PROVE WireTyped' /\ RestTyped'
  <2>1. calls' \subseteq calls /\ asked' = asked /\ UNCHANGED <<stored, route, look, tangled, bound>>
    BY <1>11 DEF TimedAnswers, ModelsListed, ModelsFailed, Tested, LaunchFailed, Comes
  <2> QED
    BY <2>1, ComesTyped DEF RestTyped
<1>12. ASSUME NEW c \in calls, Configured(c) PROVE WireTyped' /\ RestTyped'
  <2> DEFINE new == [c EXCEPT !.kind = "token"]
  <2>1. CallTyped(c, asked) /\ c.kind = "configure" /\ c.about \in Nat
    BY <1>12 DEF Configured, WireTyped, CallTyped
  <2>2. new.n = c.n /\ new.mine = c.mine /\ new.kind = "token" /\ new.about = c.about
    BY DEF Base
  <2>3. calls' = (calls \ {c}) \cup {new} /\ asked' = asked
    BY <1>12 DEF Configured
  <2> HIDE DEF new
  <2>4. CallTyped(new, asked)
    BY <2>1, <2>2 DEF CallTyped, SignInPages
  <2>5. WireTyped'
    BY <2>3, <2>4 DEF WireTyped
  <2>6. stored' \in Stored
    BY <1>12, <2>1 DEF Configured, SessionStored, RestTyped, Stored
  <2> QED
    BY <1>12, <2>5, <2>6 DEF Configured, RestTyped
<1>13. ASSUME NEW c \in calls, Launched(c) PROVE WireTyped' /\ RestTyped'
  <2>1. c.about \in Nat
    BY <1>13 DEF Launched, WireTyped, CallTyped
  <2>2. stored' \in Stored
    BY <1>13, BrowserTabAssumption DEF Launched, Minted, RestTyped, Stored, JWTs
  <2>3. route' \in [to : Pages \cup {None}, launch : Nat]
    BY <1>13, <2>1 DEF Launched, Pushed, Pages
  <2>4. WireTyped'
    BY <1>13, ComesTyped DEF Launched, Comes
  <2> QED
    BY <1>13, <2>2, <2>3, <2>4 DEF Launched, RestTyped
<1> QED
  BY <1>1, <1>4, <1>5, <1>6, <1>7, <1>8, <1>9, <1>10, <1>11, <1>12, <1>13 DEF SetupNext

LEMMA AdminTyped ==
    ASSUME Base, WireTyped, RestTyped, ConsoleTyped, AdminNext
    PROVE  WireTyped' /\ RestTyped' /\ ConsoleTyped'
<1>1. stored.jwt \in JWTs \cup {NoJWT}
  BY DEF RestTyped, Stored
<1>2. UNCHANGED <<stored, route, look, tangled, bound>>
  BY DEF AdminNext, ChangeDate, RefreshLogs, FetchLogs, LogsListed, LogsFailed
<1>3. RestTyped'
  BY <1>2 DEF RestTyped
<1>4. ASSUME page.at = "admin", NEW date \in Dates, NEW jwt \in JWTs \cup {NoJWT},
             FetchLogs(date, jwt)
      PROVE  WireTyped' /\ ConsoleTyped'
  <2>1. LogsOf(date, jwt) \in [date : Dates, jwt : JWTs \cup {NoJWT}]
    BY <1>4 DEF LogsOf
  <2>2. WireTyped'
    BY <1>4, <2>1, AsksTyped DEF FetchLogs, SignInPages
  <2> QED
    BY <1>1, <1>4, <2>2 DEF FetchLogs, ConsoleTyped
<1>5. ASSUME NEW date \in Dates, ChangeDate(date) PROVE WireTyped' /\ ConsoleTyped'
  <2>1. CASE FetchLogs(date, stored.jwt)
    BY <1>1, <1>4, <1>5, <2>1 DEF ChangeDate, OnConsole
  <2>2. CASE ~FetchLogs(date, stored.jwt)
    BY <1>1, <1>5, <2>2 DEF ChangeDate, OnConsole, wire, WireTyped, ConsoleTyped
  <2> QED
    BY <2>1, <2>2
<1>6. RefreshLogs => WireTyped' /\ ConsoleTyped'
  BY <1>4 DEF RefreshLogs, OnConsole, ConsoleTyped
<1>7. ASSUME NEW c \in calls, LogsListed(c) \/ LogsFailed(c) PROVE WireTyped' /\ ConsoleTyped'
  <2>1. calls' \subseteq calls /\ asked' = asked
    BY <1>7 DEF LogsListed, LogsFailed, Comes
  <2>2. WireTyped'
    BY <2>1, ComesTyped
  <2>3. CASE LogsListed(c)
    BY <1>1, <2>2, <2>3 DEF LogsListed, Comes, ConsoleTyped, Base
  <2>4. CASE LogsFailed(c)
    BY <1>1, <2>2, <2>4 DEF LogsFailed, Comes, ConsoleTyped, Base
  <2> QED
    BY <1>7, <2>3, <2>4
<1> QED
  BY <1>3, <1>5, <1>6, <1>7 DEF AdminNext

\* The pages that ask nothing write neither requests nor identities.
LEMMA QuietTyped ==
    ASSUME Base, WireTyped, RestTyped, ConsoleTyped, SettingsInv,
           TokenizeNext \/ SettingsNext \/ LandingNext
    PROVE  WireTyped' /\ RestTyped' /\ ConsoleTyped'
<1>1. ConsoleTyped'
  BY QuietOwn DEF ConsoleTyped
<1>2. CASE TokenizeNext
  <2>1. UNCHANGED elsewhere
    BY <1>2 DEF TokenizeNext, EditInput, HandleTokenize, HandleCopy, CopyTimeout, HandleReset
  <2> QED
    BY <1>1, <2>1 DEF elsewhere, wire, WireTyped, RestTyped
<1>3. CASE LandingNext
  <2>1. UNCHANGED besides
    BY <1>3 DEF LandingNext, Preview, EditDemo, RunDemo, ResetDemo, SubmitWaitlist, Plays,
                StepTabs, GoTo, Controls, TogglePlay, Restart
  <2> QED
    BY <1>1, <2>1 DEF besides, wire, WireTyped, RestTyped
<1>4. CASE SettingsNext
  <2>1. WireTyped' /\ UNCHANGED <<route, tangled, bound>>
    BY <1>4 DEF SettingsNext, SelectTheme, ToggleAnimations, ToggleCompact, ResetSettings,
                UnchangedBySettings, wire, WireTyped
  <2>2. /\ stored \in Stored /\ DefaultTheme \in Themes
        /\ look \in [theme : Themes, animations : BOOLEAN, compact : BOOLEAN,
                     touched : SUBSET {"animations", "compact"}]
    BY BrowserTabAssumption DEF RestTyped
  <2>3. ASSUME NEW t \in Themes, SelectTheme(t) PROVE RestTyped'
    <3>1. stored' \in Stored
      BY <2>2, <2>3 DEF SelectTheme, Stored, Prefs
    <3> QED
      BY <2>1, <2>2, <2>3, <3>1 DEF SelectTheme, RestTyped
  <2>4. CASE ToggleAnimations
    <3> DEFINE val == ~page.panel.animations
    <3>1. /\ stored' = [stored EXCEPT !.prefs.animations = val]
          /\ look' = [look EXCEPT !.animations = val, !.touched = @ \cup {"animations"}]
      BY <2>4 DEF ToggleAnimations
    <3>2. val \in BOOLEAN
      OBVIOUS
    <3> HIDE DEF val
    <3>3. stored' \in Stored
      BY <2>2, <3>1, <3>2 DEF Stored, Prefs
    <3> QED
      BY <1>1, <2>1, <2>2, <3>1, <3>2, <3>3 DEF RestTyped
  <2>5. CASE ToggleCompact
    <3> DEFINE val == ~page.panel.compact
    <3>1. /\ stored' = [stored EXCEPT !.prefs.compact = val]
          /\ look' = [look EXCEPT !.compact = val, !.touched = @ \cup {"compact"}]
      BY <2>5 DEF ToggleCompact
    <3>2. val \in BOOLEAN
      OBVIOUS
    <3> HIDE DEF val
    <3>3. stored' \in Stored
      BY <2>2, <3>1, <3>2 DEF Stored, Prefs
    <3> QED
      BY <1>1, <2>1, <2>2, <3>1, <3>2, <3>3 DEF RestTyped
  <2>6. CASE ResetSettings
    <3>1. stored' \in Stored
      BY <2>2, <2>6 DEF ResetSettings, NoPrefs, Stored, Prefs
    <3>2. look' \in [theme : Themes, animations : BOOLEAN, compact : BOOLEAN,
                     touched : SUBSET {"animations", "compact"}]
      BY <2>2, <2>6 DEF ResetSettings, Plain
    <3> QED
      BY <1>1, <2>1, <3>1, <3>2 DEF RestTyped
  <2> QED
    BY <1>1, <1>4, <2>1, <2>3, <2>4, <2>5, <2>6 DEF SettingsNext
<1> QED
  BY <1>2, <1>3, <1>4

LEMMA TypedStep ==
    ASSUME Base, WireTyped, RestTyped, ConsoleTyped, SettingsInv, [Next]_vars
    PROVE  WireTyped' /\ RestTyped' /\ ConsoleTyped'
<1>1. CASE SignInNext \/ SetupNext \/ AdminNext \/ TokenizeNext \/ SettingsNext \/ LandingNext
  BY <1>1, SignInTyped, SetupTyped, AdminTyped, QuietTyped
<1>2. stored \in Stored
  BY DEF RestTyped
<1>3. ASSUME NEW p \in Pages, NEW launched, NEW left \in {Orphans, {}},
             Mounts(p, launched, left), UNCHANGED <<stored, tangled, bound>>,
             look' \in {look, initTheme}, route' = NoRoute
      PROVE  WireTyped' /\ RestTyped' /\ ConsoleTyped'
  <2>1. WireTyped' /\ ConsoleTyped'
    BY <1>2, <1>3, MountTyped
  <2>2. NoRoute \in [to : Pages \cup {None}, launch : Nat]
    BY DEF NoRoute, NoSession
  <2>3. initTheme \in [theme : Themes, animations : BOOLEAN, compact : BOOLEAN,
                       touched : SUBSET {"animations", "compact"}]
    BY <1>2, BrowserTabAssumption DEF initTheme, Plain, Or, Stored, Prefs
  <2> QED
    BY <1>3, <2>1, <2>2, <2>3 DEF RestTyped
<1>4. CASE Arrive
  <2>1. CASE UNCHANGED <<page, wire>>
    BY <1>4, <2>1 DEF Arrive, NoRoute, NoSession, wire, WireTyped, RestTyped, ConsoleTyped
  <2>2. CASE Mounts(route.to, route.launch, Orphans)
    <3>1. route.to \in Pages
      BY <1>4 DEF Arrive, RestTyped
    <3> QED
      BY <1>3, <1>4, <2>2, <3>1 DEF Arrive
  <2> QED
    BY <1>4, <2>1, <2>2 DEF Arrive
<1>5. ASSUME NEW p \in Pages, Go(p) PROVE WireTyped' /\ RestTyped' /\ ConsoleTyped'
  BY <1>3, <1>5 DEF Go
<1>6. ASSUME NEW p \in Pages, Reload(p) PROVE WireTyped' /\ RestTyped' /\ ConsoleTyped'
  BY <1>3, <1>6 DEF Reload
<1>7. CASE UNCHANGED vars
  BY <1>7 DEF vars, wire, WireTyped, RestTyped, ConsoleTyped
<1> QED
  BY <1>1, <1>4, <1>5, <1>6, <1>7 DEF Next

-------------------------------------------------------------------------------
(* Whose token localStorage holds. *)

LEMMA IdentityStep ==
    ASSUME Base, stored \in Stored, StoredIdentity, [Next]_vars
    PROVE  StoredIdentity'
<1>1. ASSUME stored'.jwt = stored.jwt, stored'.role = stored.role, stored'.user = stored.user
      PROVE  StoredIdentity'
  BY <1>1 DEF StoredIdentity
<1>2. ASSUME NEW role, stored' = Minted(role) PROVE StoredIdentity'
  BY <1>2, BrowserTabAssumption DEF Minted, StoredIdentity, Stored
<1>3. CASE SignInNext
  <2>1. ASSUME NEW c \in calls, SignedIn(c) PROVE StoredIdentity'
    BY <2>1 DEF SignedIn, StoredIdentity, Stored
  <2>2. ASSUME NEW c \in calls, PersonaSwitched(c) PROVE StoredIdentity'
    BY <1>2, <2>2 DEF PersonaSwitched
  <2>3. ASSUME NEW c \in calls, SignInFailed(c) \/ PersonaRefused(c) PROVE StoredIdentity'
    BY <1>1, <2>3 DEF SignInFailed, PersonaRefused
  <2>4. CASE SubmitIncomplete \/ (\E u \in Users : HandleSubmit(u))
             \/ (\E role \in Roles : SwitchPersona(role))
    BY <1>1, <2>4 DEF SubmitIncomplete, HandleSubmit, SwitchPersona
  <2> QED
    BY <1>3, <2>1, <2>2, <2>3, <2>4 DEF SignInNext, SignInAnswers
<1>4. CASE SetupNext
  <2>1. ASSUME NEW c \in calls, Configured(c) PROVE StoredIdentity'
    BY <1>1, <2>1 DEF Configured, SessionStored, Stored
  <2>2. ASSUME NEW c \in calls, Launched(c) PROVE StoredIdentity'
    BY <1>2, <2>2 DEF Launched
  <2>3. ASSUME NEW c \in calls, TimedAnswers(c) \/ LaunchFailed(c) PROVE StoredIdentity'
    BY <1>1, <2>3 DEF TimedAnswers, ModelsListed, ModelsFailed, Tested, LaunchFailed
  <2>4. CASE EnterModels \/ Refresh \/ Back \/ NextStep \/ HandleTest \/ HandleFinish
    BY <1>1, <2>4 DEF EnterModels, Refresh, FetchOllamaModels, Back, NextStep, HandleTest,
                      HandleFinish
  <2>5. CASE (\E p \in DOMAIN PROVIDERS : ChooseProvider(p)) \/ (\E url \in Urls : EditUrl(url))
             \/ (\E m \in Models \cup {NoModel} : EnterModel(m))
    BY <1>1, <2>5 DEF ChooseProvider, EditUrl, EnterModel
  <2> QED
    BY <1>4, <2>1, <2>2, <2>3, <2>4, <2>5 DEF SetupNext
<1>5. CASE AdminNext
  BY <1>1, <1>5 DEF AdminNext, ChangeDate, RefreshLogs, FetchLogs, LogsListed, LogsFailed
<1>6. CASE TokenizeNext
  BY <1>1, <1>6 DEF TokenizeNext, EditInput, HandleTokenize, HandleCopy, CopyTimeout,
                    HandleReset, elsewhere
<1>7. CASE LandingNext
  BY <1>1, <1>7 DEF LandingNext, Preview, EditDemo, RunDemo, ResetDemo, SubmitWaitlist, Plays,
                    StepTabs, GoTo, Controls, TogglePlay, Restart, besides
<1>8. CASE SettingsNext
  BY <1>1, <1>8 DEF SettingsNext, SelectTheme, ToggleAnimations, ToggleCompact, ResetSettings,
                    Stored
<1>9. CASE Arrive \/ (\E p \in Pages : Go(p) \/ Reload(p)) \/ UNCHANGED vars
  BY <1>1, <1>9 DEF Arrive, Go, Reload, vars
<1> QED
  BY <1>3, <1>4, <1>5, <1>6, <1>7, <1>8, <1>9 DEF Next

-------------------------------------------------------------------------------
(* Theorems. *)

PortalInv == Base /\ WireTyped /\ RestTyped /\ ConsoleTyped /\ SettingsInv /\ StoredIdentity

LEMMA PortalInit == Init => PortalInv
<1> SUFFICES ASSUME Init PROVE PortalInv
  OBVIOUS
<1>1. Base /\ WireTyped /\ ConsoleTyped
  BY DEF Init, Landing, Base, Pages, WireTyped, ConsoleTyped
<1>2. RestTyped
  <2>1. stored \in Stored
    BY DEF Init, NoSession, NoPrefs, Stored, Prefs, NoJWT
  <2> QED
    BY <2>1, BrowserTabAssumption DEF Init, RestTyped, NoRoute, NoSession, Plain
<1>3. SettingsInv
  BY DEF Init, SettingsInv, NoPrefs, Plain, Or, Landing
<1>4. StoredIdentity
  BY BrowserTabAssumption DEF Init, StoredIdentity, NoJWT
<1> QED
  BY <1>1, <1>2, <1>3, <1>4 DEF PortalInv

LEMMA PortalStep == PortalInv /\ [Next]_vars => PortalInv'
<1> SUFFICES ASSUME PortalInv, [Next]_vars PROVE PortalInv'
  OBVIOUS
<1> USE DEF PortalInv
<1>1. Base'
  BY BaseStep DEF RestTyped
<1>2. SettingsInv'
  BY SettingsStep, TypeParts
<1>3. StoredIdentity'
  BY IdentityStep DEF RestTyped
<1> QED
  BY <1>1, <1>2, <1>3, TypedStep

THEOREM PortalAlways == Spec => []PortalInv
BY PortalInit, PortalStep, PTL DEF Spec

\* localStorage, the page, the requests and the document always have their types.
THEOREM TypeCorrect == Spec => []TypeOK
<1>1. PortalInv => TypeOK
  BY TypeParts DEF PortalInv
<1> QED
  BY <1>1, PortalAlways, PTL

\* Whichever login, Launch or persona switch answers last, and on whichever page, the
\* stored role is the token's, and an account's token lies beside the account's name.
THEOREM IdentityTrue == Spec => []StoredIdentity
<1>1. PortalInv => StoredIdentity
  BY DEF PortalInv
<1> QED
  BY <1>1, PortalAlways, PTL

\* Whichever pages and reloads lie between, the settings panel tells what the document
\* looks like.
THEOREM SettingsTrue == Spec => []SettingsTell
<1>1. PortalInv => SettingsTell
  <2> SUFFICES ASSUME PortalInv, page.at = "chat" PROVE SettingsTell
    BY DEF SettingsTell
  <2>1. page.panel = Panel /\ look.theme = Or(stored.prefs.theme, DefaultTheme)
    BY DEF PortalInv, SettingsInv
  <2>2. /\ "animations" \in look.touched => page.panel.animations = look.animations
        /\ "compact" \in look.touched => page.panel.compact = look.compact
    BY <2>1 DEF PortalInv, SettingsInv
  <2>3. look.touched \subseteq {"animations", "compact"}
    BY DEF PortalInv, RestTyped
  <2>4. page.panel.theme = look.theme
    BY <2>1 DEF Panel
  <2> QED
    BY <2>2, <2>3, <2>4 DEF SettingsTell
<1> QED
  BY <1>1, PortalAlways, PTL
===============================================================================
