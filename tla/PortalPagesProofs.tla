--------------------------- MODULE PortalPagesProofs ---------------------------
(***************************************************************************)
(* The portal's pages one by one: the walkthrough, the console, the wizard *)
(* and the session it launches, for any users, models, dates and texts.    *)
(***************************************************************************)
EXTENDS PortalProofs, TokenizerProofs, FiniteSetTheorems

-------------------------------------------------------------------------------
(* The walkthrough of the landing page. *)

ClockFields == {"current", "playing", "progress", "running", "refs"}

\* An interval of either kind, which the refs hold, while it plays; none while it is
\* paused.
Clocked(demo) ==
    /\ DOMAIN demo = ClockFields
    /\ demo.playing \in BOOLEAN
    /\ \A kind \in Intervals :
           demo.running[kind] = IF demo.playing THEN {demo.refs[kind]} ELSE {}

ClockInv == page.at = "landing" => "demo" \in DOMAIN page /\ Clocked(page.demo)

\* What runs, the refs can clear.
Clearable(demo) ==
    /\ DOMAIN demo = ClockFields
    /\ \A kind \in Intervals : demo.running[kind] \subseteq {demo.refs[kind]}

LEMMA ClockedClearable == ASSUME NEW demo, Clocked(demo) PROVE Clearable(demo)
BY DEF Clocked, Clearable

\* Clearing leaves nothing, and starting leaves one interval of either kind.
LEMMA Cleared ==
    ASSUME NEW demo, Clearable(demo)
    PROVE  /\ DOMAIN ClearTimers(demo) = ClockFields
           /\ \A kind \in Intervals : ClearTimers(demo).running[kind] = {}
           /\ ClearTimers(demo).playing = demo.playing
BY DEF ClearTimers, Clearable, ClockFields

LEMMA Started ==
    ASSUME NEW demo, Clearable(demo), demo.playing = TRUE
    PROVE  Clocked(StartTimers(demo))
<1> DEFINE left == ClearTimers(demo).running
           refs == [kind \in Intervals |-> Fresh(left[kind])]
           running == [kind \in Intervals |-> left[kind] \cup {refs[kind]}]
           new == [demo EXCEPT !.progress = 0, !.refs = refs, !.running = running]
<1>1. StartTimers(demo) = new
  BY DEF StartTimers
<1>2. \A kind \in Intervals : running[kind] = {refs[kind]}
  BY Cleared
<1> HIDE DEF refs, running
<1>3. /\ DOMAIN new = ClockFields /\ new.playing = TRUE
      /\ new.refs = refs /\ new.running = running
  BY DEF Clearable, ClockFields
<1> QED
  BY <1>1, <1>2, <1>3 DEF Clocked

\* A change that concerns neither the intervals nor the flag.
LEMMA ClockedStill ==
    ASSUME NEW demo, NEW new, Clocked(demo), DOMAIN new = DOMAIN demo,
           new.playing = demo.playing, new.running = demo.running, new.refs = demo.refs
    PROVE  Clocked(new)
BY DEF Clocked

LEMMA LandingClocked == "demo" \in DOMAIN Landing /\ Clocked(Landing.demo)
<1>1. /\ "demo" \in DOMAIN Landing /\ DOMAIN Landing.demo = ClockFields
      /\ Landing.demo.playing = TRUE
      /\ Landing.demo.running = [kind \in Intervals |-> {1}]
      /\ Landing.demo.refs = [kind \in Intervals |-> 1]
  BY DEF Landing, ClockFields
<1> QED
  BY <1>1 DEF Clocked

LEMMA ClockStep ==
    ASSUME Base, ClockInv, route.to \in Pages \cup {None}, [Next]_vars
    PROVE  ClockInv'
<1>1. CASE SignInNext \/ SetupNext \/ AdminNext \/ TokenizeNext \/ SettingsNext
  BY <1>1, SignInOwn, SetupOwn, AdminOwn, QuietOwn DEF ClockInv, SignInPages
<1>2. CASE LandingNext
  <2>1. page.at = "landing" /\ page'.at = page.at /\ "demo" \in DOMAIN page /\ Clocked(page.demo)
    BY <1>2, QuietOwn DEF ClockInv
  <2>2. Clearable(page.demo) /\ page.demo.playing \in BOOLEAN
    BY <2>1, ClockedClearable DEF Clocked
  <2>3. DOMAIN page.demo = ClockFields
    BY <2>2 DEF Clearable
  <2>4. CASE Preview \/ SubmitWaitlist
    <3>1. "demo" \in DOMAIN page' /\ page'.demo = page.demo
      BY <2>1, <2>4 DEF Preview, EditDemo, RunDemo, ResetDemo, SubmitWaitlist
    <3> QED
      BY <2>1, <3>1 DEF ClockInv
  <2>5. CASE Plays
    <3>1. PICK new \in {BarTick(page.demo), StepTick(page.demo)} :
             page' = [page EXCEPT !.demo = new]
      BY <2>5 DEF Plays
    <3>2. /\ DOMAIN new = DOMAIN page.demo /\ new.playing = page.demo.playing
          /\ new.running = page.demo.running /\ new.refs = page.demo.refs
      BY <2>3, <3>1 DEF BarTick, StepTick, ClockFields
    <3>3. Clocked(new)
      BY <2>1, <3>2, ClockedStill
    <3>4. "demo" \in DOMAIN page' /\ page'.demo = new
      BY <2>1, <3>1
    <3> QED
      BY <3>3, <3>4 DEF ClockInv
  <2>6. ASSUME NEW i \in 1 .. TOTAL, GoTo(i) PROVE ClockInv'
    <3> DEFINE moved == [page.demo EXCEPT !.current = i, !.progress = 0]
    <3>1. /\ DOMAIN moved = DOMAIN page.demo /\ moved.playing = page.demo.playing
          /\ moved.running = page.demo.running /\ moved.refs = page.demo.refs
      BY <2>3 DEF ClockFields
    <3>2. page' = [page EXCEPT !.demo = IF page.demo.playing THEN StartTimers(moved)
                                                             ELSE ClearTimers(moved)]
      BY <2>6 DEF GoTo
    <3> HIDE DEF moved
    <3>3. Clearable(moved)
      BY <2>2, <3>1 DEF Clearable
    <3>4. CASE page.demo.playing
      <4>1. Clocked(StartTimers(moved))
        BY <2>2, <3>1, <3>3, <3>4, Started
      <4>2. "demo" \in DOMAIN page' /\ page'.demo = StartTimers(moved)
        BY <2>1, <3>2, <3>4
      <4> QED
        BY <4>1, <4>2 DEF ClockInv
    <3>5. CASE ~page.demo.playing
      <4>1. Clocked(ClearTimers(moved))
        BY <2>2, <3>1, <3>3, <3>5, Cleared DEF Clocked
      <4>2. "demo" \in DOMAIN page' /\ page'.demo = ClearTimers(moved)
        BY <2>1, <3>2, <3>5
      <4> QED
        BY <4>1, <4>2 DEF ClockInv
    <3> QED
      BY <3>4, <3>5
  <2>7. ASSUME NEW b \in BOOLEAN, NEW demo, demo = [page.demo EXCEPT !.playing = b]
        PROVE  Clearable(demo) /\ demo.playing = b
    BY <2>2, <2>3, <2>7 DEF Clearable, ClockFields
  <2>8. CASE TogglePlay
    <3>1. CASE page.demo.playing
      <4> DEFINE paused == [page.demo EXCEPT !.playing = FALSE]
      <4>1. "demo" \in DOMAIN page' /\ page'.demo = ClearTimers(paused)
        BY <2>1, <2>8, <3>1 DEF TogglePlay
      <4>2. Clearable(paused) /\ paused.playing = FALSE
        BY <2>7
      <4> HIDE DEF paused
      <4>3. Clocked(ClearTimers(paused))
        BY <4>2, Cleared DEF Clocked
      <4> QED
        BY <4>1, <4>3 DEF ClockInv
    <3>2. CASE ~page.demo.playing
      <4> DEFINE resumed == [page.demo EXCEPT !.playing = TRUE]
      <4>1. "demo" \in DOMAIN page' /\ page'.demo = StartTimers(resumed)
        BY <2>1, <2>8, <3>2 DEF TogglePlay
      <4>2. Clearable(resumed) /\ resumed.playing = TRUE
        BY <2>7
      <4> HIDE DEF resumed
      <4> QED
        BY <4>1, <4>2, Started DEF ClockInv
    <3> QED
      BY <3>1, <3>2
  <2>9. CASE Restart
    <3> DEFINE first == [page.demo EXCEPT !.current = 1, !.progress = 0, !.playing = TRUE]
    <3>1. /\ DOMAIN first = DOMAIN page.demo /\ first.playing = TRUE
          /\ first.running = page.demo.running /\ first.refs = page.demo.refs
      BY <2>3 DEF ClockFields
    <3>2. page' = [page EXCEPT !.demo = IF page.demo.playing THEN first ELSE StartTimers(first)]
      BY <2>9 DEF Restart
    <3> HIDE DEF first
    <3>3. CASE page.demo.playing
      <4>1. Clocked(first)
        BY <2>1, <2>2, <3>1, <3>3, ClockedStill
      <4>2. "demo" \in DOMAIN page' /\ page'.demo = first
        BY <2>1, <3>2, <3>3
      <4> QED
        BY <4>1, <4>2 DEF ClockInv
    <3>4. CASE ~page.demo.playing
      <4>1. "demo" \in DOMAIN page' /\ page'.demo = StartTimers(first)
        BY <2>1, <3>2, <3>4
      <4>2. Clearable(first)
        BY <2>2, <3>1 DEF Clearable
      <4> QED
        BY <3>1, <4>1, <4>2, Started DEF ClockInv
    <3> QED
      BY <3>3, <3>4
  <2> QED
    BY <1>2, <2>4, <2>5, <2>6, <2>8, <2>9 DEF LandingNext, StepTabs, Controls
<1>3. ASSUME NEW p \in Pages, NEW launched, NEW left \in {Orphans, {}}, Mounts(p, launched, left)
      PROVE  ClockInv'
  <2>1. page'.at = "landing" => page' = Landing
    BY <1>3, MountOwn
  <2> QED
    BY <2>1, LandingClocked DEF ClockInv
<1>4. CASE Arrive
  <2>1. CASE UNCHANGED <<page, wire>>
    BY <2>1 DEF ClockInv
  <2>2. CASE Mounts(route.to, route.launch, Orphans)
    BY <1>3, <1>4, <2>2 DEF Arrive
  <2> QED
    BY <1>4, <2>1, <2>2 DEF Arrive
<1>5. ASSUME NEW p \in Pages, Go(p) \/ Reload(p) PROVE ClockInv'
  BY <1>3, <1>5 DEF Go, Reload
<1>6. CASE UNCHANGED vars
  BY <1>6 DEF vars, ClockInv
<1> QED
  BY <1>1, <1>2, <1>4, <1>5, <1>6 DEF Next

\* Whatever is clicked, and whenever either interval fires, the walkthrough has one of
\* each while it plays, which the refs can clear, and none while it is paused.
THEOREM ClockTrue == Spec => []OneClock
<1>1. Init => ClockInv
  BY LandingClocked DEF Init, ClockInv
<1>2. PortalInv /\ ClockInv /\ [Next]_vars => ClockInv'
  BY ClockStep DEF PortalInv, RestTyped
<1>3. ClockInv => OneClock
  BY DEF ClockInv, Clocked, OneClock
<1> QED
  BY <1>1, <1>2, <1>3, PortalAlways, PTL DEF Spec

-------------------------------------------------------------------------------
(* The date and the entries of the console. *)

ConsoleFields == {"access", "date", "loading", "logs", "error", "crossed"}

\* The requests for logs that still count are for the date on display.
DateInv ==
    page.at = "admin" =>
        /\ ConsoleFields \subseteq DOMAIN page
        /\ page.access = "ok" /\ ~page.crossed =>
               /\ \A c \in Pending("logs") : c.about.date = page.date
               /\ ~page.loading /\ ~page.error => page.logs = page.date

LEMMA FetchDate ==
    ASSUME Base, DateInv, page.at = "admin", NEW date, NEW jwt, FetchLogs(date, jwt)
    PROVE  DateInv'
<1> DEFINE new == Call("logs", LogsOf(date, jwt))
<1>1. new.kind = "logs" /\ new.mine = TRUE /\ new.about.date = date
  BY DEF Call, LogsOf
<1>2. /\ ConsoleFields \subseteq DOMAIN page' /\ page'.at = page.at
      /\ page'.date = date /\ page'.loading = TRUE
      /\ page'.crossed = (Pending("logs") # {})
  BY DEF FetchLogs, DateInv, ConsoleFields
<1>3. calls' = calls \cup {new}
  BY DEF FetchLogs, Asks
<1> HIDE DEF new
<1>4. \A c \in Pending("logs")' : c \in Pending("logs") \/ c = new
  BY <1>3 DEF Pending
<1>5. ~page'.crossed => \A c \in Pending("logs")' : c.about.date = page'.date
  BY <1>1, <1>2, <1>4
<1> QED
  BY <1>2, <1>5 DEF DateInv

LEMMA DateStep ==
    ASSUME Base, WireTyped, DateInv, route.to \in Pages \cup {None}, [Next]_vars
    PROVE  DateInv'
<1>1. CASE SetupNext \/ TokenizeNext \/ SettingsNext \/ LandingNext \/ UNCHANGED vars
  <2>1. CASE page.at = "admin"
    <3>1. page' = page /\ page'.at = "admin"
      BY <1>1, <2>1, SetupOwn, QuietOwn DEF vars
    <3>2. \A c \in calls' : c.kind = "logs" /\ c.mine => c \in calls
      <4>1. CASE UNCHANGED vars
        BY <4>1 DEF vars, wire
      <4>2. CASE SetupNext
        <5>1. ~OnStep(1) /\ ~OnStep(2) /\ ~OnStep(3)
          BY <2>1 DEF OnStep
        <5>2. PICK c \in calls : TimedAnswers(c) \/ Configured(c) \/ Launched(c) \/ LaunchFailed(c)
          BY <4>2, <5>1 DEF SetupNext, ChooseProvider, EnterModels, Refresh, Back, NextStep,
                            HandleTest, HandleFinish, EditUrl, EnterModel
        <5>3. CASE Configured(c)
          <6>1. [c EXCEPT !.kind = "token"].kind = "token"
            BY DEF Base
          <6> QED
            BY <5>3, <6>1 DEF Configured
        <5>4. CASE ~Configured(c)
          BY <5>2, <5>4 DEF TimedAnswers, ModelsListed, ModelsFailed, Tested, Launched,
                            LaunchFailed, Comes
        <5> QED
          BY <5>3, <5>4
      <4> QED
        BY <1>1, <2>1, <4>1, <4>2, QuietOwn
    <3>3. Pending("logs")' \subseteq Pending("logs")
      BY <3>2 DEF Pending
    <3> QED
      BY <2>1, <3>1, <3>3 DEF DateInv
  <2>2. CASE page.at # "admin"
    BY <1>1, <2>2, SetupOwn, QuietOwn DEF vars, DateInv
  <2> QED
    BY <2>1, <2>2
<1>2. CASE SignInNext
  <2>1. CASE page.at = "admin"
    <3>1. page' = page /\ page'.at = "admin"
      BY <1>2, <2>1, SignInOwn DEF SignInPages
    <3>2. calls' \subseteq calls
      BY <1>2, <2>1 DEF SignInNext, SubmitIncomplete, HandleSubmit, SwitchPersona, SignInPages,
                  SignInAnswers, SignedIn, SignInFailed, PersonaSwitched, PersonaRefused, Comes
    <3>3. Pending("logs")' \subseteq Pending("logs")
      BY <3>2 DEF Pending
    <3> QED
      BY <2>1, <3>1, <3>3 DEF DateInv
  <2>2. CASE page.at # "admin"
    BY <1>2, <2>2, SignInOwn DEF DateInv
  <2> QED
    BY <2>1, <2>2
<1>3. CASE AdminNext
  <2>1. ASSUME NEW date \in Dates, ChangeDate(date) PROVE DateInv'
    <3>1. CASE FetchLogs(date, stored.jwt)
      BY <2>1, <3>1, FetchDate DEF ChangeDate, OnConsole
    <3>2. CASE ~FetchLogs(date, stored.jwt)
      <4>1. ConsoleFields \subseteq DOMAIN page' /\ page'.access = "denied"
        BY <2>1, <3>2 DEF ChangeDate, OnConsole, DateInv, ConsoleFields
      <4> QED
        BY <4>1 DEF DateInv
    <3> QED
      BY <3>1, <3>2
  <2>2. CASE RefreshLogs
    BY <2>2, FetchDate DEF RefreshLogs, OnConsole
  <2>3. ASSUME NEW c \in calls, LogsListed(c) PROVE DateInv'
    <3>1. c.kind = "logs" /\ calls' = calls \ {c}
      BY <2>3 DEF LogsListed, Comes
    <3>2. Pending("logs")' \subseteq Pending("logs")
      BY <3>1 DEF Pending
    <3>3. CASE c.mine
      <4>1. page.at = "admin" /\ c \in Pending("logs")
        BY <3>1, <3>3 DEF Base, AskedFrom, SignInPages, Pending
      <4>2. /\ ConsoleFields \subseteq DOMAIN page' /\ page'.at = "admin"
            /\ page'.logs = c.about.date /\ page'.date = page.date
            /\ page'.access = page.access /\ page'.crossed = page.crossed
        BY <2>3, <3>3, <4>1 DEF LogsListed, Comes, DateInv, ConsoleFields
      <4> QED
        BY <3>2, <4>1, <4>2 DEF DateInv
    <3>4. CASE ~c.mine
      <4>1. page' = page
        BY <2>3, <3>4 DEF LogsListed, Comes
      <4> QED
        BY <3>2, <4>1 DEF DateInv
    <3> QED
      BY <3>3, <3>4
  <2>4. ASSUME NEW c \in calls, LogsFailed(c) PROVE DateInv'
    <3>1. c.kind = "logs" /\ calls' = calls \ {c}
      BY <2>4 DEF LogsFailed, Comes
    <3>2. Pending("logs")' \subseteq Pending("logs")
      BY <3>1 DEF Pending
    <3>3. CASE c.mine
      <4>1. page.at = "admin"
        BY <3>1, <3>3 DEF Base, AskedFrom, SignInPages
      <4>2. /\ ConsoleFields \subseteq DOMAIN page' /\ page'.at = "admin"
            /\ page'.error = TRUE /\ page'.date = page.date
            /\ page'.access = page.access /\ page'.crossed = page.crossed
        BY <2>4, <3>3, <4>1 DEF LogsFailed, Comes, DateInv, ConsoleFields
      <4> QED
        BY <3>2, <4>1, <4>2 DEF DateInv
    <3>4. CASE ~c.mine
      <4>1. page' = page
        BY <2>4, <3>4 DEF LogsFailed, Comes
      <4> QED
        BY <3>2, <4>1 DEF DateInv
    <3> QED
      BY <3>3, <3>4
  <2> QED
    BY <1>3, <2>1, <2>2, <2>3, <2>4 DEF AdminNext
<1>4. ASSUME NEW p \in Pages, NEW launched, NEW left \in {Orphans, {}}, Mounts(p, launched, left)
      PROVE  DateInv'
  <2>1. CASE page'.at = "admin" /\ page'.access = "ok"
    <3>1. page' = Console("ok") \/ page' = Console("denied")
      BY <1>4, <2>1, MountOwn
    <3>1a. Console("denied").access = "denied"
      BY DEF Console
    <3>1b. page' = Console("ok")
      BY <2>1, <3>1, <3>1a
    <3>2. /\ ConsoleFields \subseteq DOMAIN page' /\ page'.access = "ok"
          /\ page'.date = Today /\ page'.loading
      BY <3>1b DEF Console, ConsoleFields
    <3>3. p = "admin" /\ Admits
      <4>1. SUFFICES ASSUME ~(p = "admin" /\ Admits) PROVE FALSE
        OBVIOUS
      <4>2. page' = Shown(p, launched)
        BY <1>4, <4>1 DEF Mounts
      <4>3. Shown(p, launched) # Console("ok")
        BY DEF Shown, SignInPage, SetupPage, Console, Chat, Tokenizer, Landing, SignInPages, Pages
      <4> QED
        BY <2>1, <3>1, <4>2, <4>3 DEF Console
    <3> DEFINE new == Call("logs", LogsOf(Today, stored.jwt))
    <3>4. calls' = left \cup {new}
      BY <1>4, <3>3 DEF Mounts
    <3>5. new.about.date = Today
      BY DEF Call, LogsOf
    <3> HIDE DEF new
    <3>6. \A c \in left : c.mine = FALSE
      BY <1>4, OrphansOwn
    <3>7. \A c \in Pending("logs")' : c = new
      BY <3>4, <3>6 DEF Pending
    <3> QED
      BY <3>2, <3>5, <3>7 DEF DateInv
  <2>2. CASE page'.at = "admin" /\ page'.access # "ok"
    <3>1. page' = Console("ok") \/ page' = Console("denied")
      BY <1>4, <2>2, MountOwn
    <3>2. ConsoleFields \subseteq DOMAIN page'
      BY <3>1 DEF Console, ConsoleFields
    <3> QED
      BY <2>2, <3>2 DEF DateInv
  <2>3. CASE page'.at # "admin"
    BY <2>3 DEF DateInv
  <2> QED
    BY <2>1, <2>2, <2>3
<1>5. CASE Arrive
  <2>1. CASE UNCHANGED <<page, wire>>
    BY <2>1 DEF wire, DateInv, Pending
  <2>2. CASE Mounts(route.to, route.launch, Orphans)
    BY <1>4, <1>5, <2>2 DEF Arrive
  <2> QED
    BY <1>5, <2>1, <2>2 DEF Arrive
<1>6. ASSUME NEW p \in Pages, Go(p) \/ Reload(p) PROVE DateInv'
  BY <1>4, <1>6 DEF Go, Reload
<1> QED
  BY <1>1, <1>2, <1>3, <1>5, <1>6 DEF Next

\* Once nothing is loading, the entries on display are those of the date on display.
THEOREM DateTrue == Spec => []DateShown
<1>1. Init => DateInv
  BY DEF Init, DateInv, Landing
<1>2. PortalInv /\ DateInv /\ [Next]_vars => DateInv'
  BY DateStep DEF PortalInv, RestTyped
<1>3. DateInv => DateShown
  BY DEF DateInv, DateShown
<1> QED
  BY <1>1, <1>2, <1>3, PortalAlways, PTL DEF Spec

-------------------------------------------------------------------------------
(* The model of the wizard. *)

WizardFields == {"step", "provider", "model", "url", "chosen", "configuring", "launched"}

\* No list under way was asked for with an empty model, once the user has chosen one.
ChoiceInv ==
    page.at = "setup" =>
        /\ WizardFields \subseteq DOMAIN page
        /\ page.chosen # NoModel =>
               /\ page.model = page.chosen
               /\ \A c \in Pending("models") : c.about.model # NoModel

\* Requests for models answered, the model and the choice left alone.
LEMMA ChoiceKeeps ==
    ASSUME ChoiceInv, page.at = "setup", WizardFields \subseteq DOMAIN page',
           page'.model = page.model, page'.chosen = page.chosen,
           Pending("models")' \subseteq Pending("models")
    PROVE  ChoiceInv'
BY DEF ChoiceInv

LEMMA ChoiceFetch ==
    ASSUME ChoiceInv, page.at = "setup", FetchOllamaModels(2)
    PROVE  ChoiceInv'
<1> DEFINE new == Call("models", [url |-> page.url, model |-> page.model])
<1>1. new.about.model = page.model
  BY DEF Call
<1>2. /\ WizardFields \subseteq DOMAIN page'
      /\ page'.model = page.model /\ page'.chosen = page.chosen
  BY DEF FetchOllamaModels, ChoiceInv, WizardFields
<1>3. calls' = calls \cup {new}
  BY DEF FetchOllamaModels, Asks
<1> HIDE DEF new
<1>4. \A c \in Pending("models")' : c \in Pending("models") \/ c = new
  BY <1>3 DEF Pending
<1> QED
  BY <1>1, <1>2, <1>4 DEF ChoiceInv

\* Its own request sent, of another kind.
LEMMA ChoiceAsks ==
    ASSUME ChoiceInv, page.at = "setup", WizardFields \subseteq DOMAIN page',
           page'.model = page.model, page'.chosen = page.chosen,
           NEW kind, kind # "models", NEW about, Asks(kind, about)
    PROVE  ChoiceInv'
<1> DEFINE new == Call(kind, about)
<1>1. new.kind # "models"
  BY DEF Call
<1>2. calls' = calls \cup {new}
  BY DEF Asks
<1> HIDE DEF new
<1>3. Pending("models")' \subseteq Pending("models")
  BY <1>1, <1>2 DEF Pending
<1> QED
  BY <1>3, ChoiceKeeps

LEMMA ChoiceStep ==
    ASSUME Base, ChoiceInv, route.to \in Pages \cup {None}, [Next]_vars
    PROVE  ChoiceInv'
<1>1. CASE SignInNext \/ AdminNext \/ TokenizeNext \/ SettingsNext \/ LandingNext \/ UNCHANGED vars
  <2>1. CASE page.at = "setup"
    <3>1. page' = page
      BY <1>1, <2>1, SignInOwn, AdminOwn, QuietOwn DEF SignInPages, vars
    <3>2. calls' \subseteq calls
      <4>1. SignInNext => calls' \subseteq calls
        BY <2>1 DEF SignInNext, SubmitIncomplete, HandleSubmit, SwitchPersona, SignInPages,
                    SignInAnswers, SignedIn, SignInFailed, PersonaSwitched, PersonaRefused, Comes
      <4>2. AdminNext => calls' \subseteq calls
        BY <2>1 DEF AdminNext, ChangeDate, RefreshLogs, OnConsole, LogsListed, LogsFailed, Comes
      <4> QED
        BY <1>1, <2>1, <4>1, <4>2, QuietOwn DEF vars, wire
    <3>3. Pending("models")' \subseteq Pending("models")
      BY <3>2 DEF Pending
    <3> QED
      BY <2>1, <3>1, <3>3 DEF ChoiceInv
  <2>2. CASE page.at # "setup"
    BY <1>1, <2>2, SignInOwn, AdminOwn, QuietOwn DEF vars, ChoiceInv
  <2> QED
    BY <2>1, <2>2
<1>2. CASE SetupNext
  <2>1. page.at # "setup" => ChoiceInv'
    BY <1>2, SetupOwn DEF ChoiceInv
  <2>2. ASSUME NEW p \in DOMAIN PROVIDERS, ChooseProvider(p) PROVE ChoiceInv'
    <3>1. WizardFields \subseteq DOMAIN page' /\ page'.chosen = NoModel
      BY <2>2 DEF ChooseProvider, OnStep, ChoiceInv, WizardFields
    <3> QED
      BY <3>1 DEF ChoiceInv
  <2>3. CASE EnterModels \/ Refresh
    BY <2>3, ChoiceFetch DEF EnterModels, Refresh, OnStep
  <2>4. CASE Back \/ NextStep
    <3>1. /\ page.at = "setup" /\ WizardFields \subseteq DOMAIN page'
          /\ page'.model = page.model /\ page'.chosen = page.chosen
      BY <2>4 DEF Back, NextStep, OnStep, ChoiceInv, WizardFields
    <3>2. Pending("models")' \subseteq Pending("models")
      BY <2>4 DEF Back, NextStep, wire, Pending
    <3> QED
      BY <3>1, <3>2, ChoiceKeeps
  <2>5. CASE HandleTest
    <3>1. /\ page.at = "setup" /\ WizardFields \subseteq DOMAIN page'
          /\ page'.model = page.model /\ page'.chosen = page.chosen
      BY <2>5 DEF HandleTest, OnStep, ChoiceInv, WizardFields
    <3> QED
      BY <2>5, <3>1, ChoiceAsks DEF HandleTest
  <2>6. CASE HandleFinish
    <3>1. /\ page.at = "setup" /\ WizardFields \subseteq DOMAIN page'
          /\ page'.model = page.model /\ page'.chosen = page.chosen
      BY <2>6 DEF HandleFinish, OnStep, ChoiceInv, WizardFields
    <3> QED
      BY <2>6, <3>1, ChoiceAsks DEF HandleFinish
  <2>7. ASSUME NEW url \in Urls, EditUrl(url) PROVE ChoiceInv'
    <3>1. /\ page.at = "setup" /\ WizardFields \subseteq DOMAIN page'
          /\ page'.model = page.model /\ page'.chosen = page.chosen
      BY <2>7 DEF EditUrl, OnStep, ChoiceInv, WizardFields
    <3>2. Pending("models")' \subseteq Pending("models")
      BY <2>7 DEF EditUrl, wire, Pending
    <3> QED
      BY <3>1, <3>2, ChoiceKeeps
  <2>8. ASSUME NEW m \in Models \cup {NoModel}, EnterModel(m) PROVE ChoiceInv'
    <3>1. /\ page.at = "setup" /\ WizardFields \subseteq DOMAIN page' /\ page'.model = m
          /\ page'.chosen = IF Pending("models") = {} THEN m ELSE NoModel
      BY <2>8 DEF EnterModel, OnStep, ChoiceInv, WizardFields
    <3>2. Pending("models")' = Pending("models")
      BY <2>8 DEF EnterModel, wire, Pending
    <3> QED
      BY <3>1, <3>2 DEF ChoiceInv
  <2>9. ASSUME NEW c \in calls, ModelsListed(c), page.at = "setup" PROVE ChoiceInv'
    <3>1. PICK list \in {<< >>, Offers[c.about.url]} :
              Comes(c, [page EXCEPT !.listed = list, !.loadingModels = FALSE,
                                    !.model = FilledIn(list, c.about.model)])
      BY <2>9 DEF ModelsListed
    <3>2. Pending("models")' \subseteq Pending("models")
      BY <3>1 DEF Comes, Pending
    <3>3. CASE c.mine
      <4>1. /\ WizardFields \subseteq DOMAIN page' /\ page'.chosen = page.chosen
            /\ page'.model = FilledIn(list, c.about.model)
        BY <2>9, <3>1, <3>3 DEF Comes, ChoiceInv, WizardFields
      <4>2. page.chosen # NoModel => FilledIn(list, c.about.model) = page.model
        BY <2>9, <3>3 DEF ModelsListed, ChoiceInv, Pending, FilledIn
      <4> QED
        BY <2>9, <3>2, <4>1, <4>2 DEF ChoiceInv
    <3>4. CASE ~c.mine
      <4>1. page' = page
        BY <3>1, <3>4 DEF Comes
      <4> QED
        BY <2>9, <3>2, <4>1 DEF ChoiceInv
    <3> QED
      BY <3>3, <3>4
  <2>10. ASSUME NEW c \in calls, NEW shown, Comes(c, shown), page.at = "setup",
                DOMAIN shown = DOMAIN page, shown.model = page.model,
                shown.chosen = page.chosen
         PROVE  ChoiceInv'
    <3>1. Pending("models")' \subseteq Pending("models")
      BY <2>10 DEF Comes, Pending
    <3>2. /\ WizardFields \subseteq DOMAIN page'
          /\ page'.model = page.model /\ page'.chosen = page.chosen
      BY <2>10 DEF Comes, ChoiceInv
    <3> QED
      BY <2>10, <3>1, <3>2, ChoiceKeeps
  <2>11. ASSUME NEW c \in calls, page.at = "setup",
                ModelsFailed(c) \/ Tested(c) \/ Launched(c) \/ LaunchFailed(c)
         PROVE  ChoiceInv'
    <3>0. "model" \in DOMAIN page /\ "chosen" \in DOMAIN page
      BY <2>11 DEF ChoiceInv, WizardFields
    <3>1. CASE ModelsFailed(c)
      BY <2>10, <2>11, <3>0, <3>1 DEF ModelsFailed
    <3>2. CASE Tested(c)
      <4>1. PICK result \in {"ok", "fail"} :
                Comes(c, [page EXCEPT !.testResult = result, !.testing = FALSE])
        BY <3>2 DEF Tested
      <4> QED
        BY <2>10, <2>11, <3>0, <4>1
    <3>3. CASE Launched(c)
      BY <2>10, <2>11, <3>0, <3>3 DEF Launched
    <3>4. CASE LaunchFailed(c)
      BY <2>10, <2>11, <3>0, <3>4 DEF LaunchFailed
    <3> QED
      BY <2>11, <3>1, <3>2, <3>3, <3>4
  <2>12. ASSUME NEW c \in calls, Configured(c), page.at = "setup" PROVE ChoiceInv'
    <3>1. [c EXCEPT !.kind = "token"].kind = "token"
      BY DEF Base
    <3>2. Pending("models")' \subseteq Pending("models")
      BY <2>12, <3>1 DEF Configured, Pending
    <3>3. page' = page
      BY <2>12 DEF Configured
    <3> QED
      BY <2>12, <3>2, <3>3 DEF ChoiceInv
  <2> QED
    BY <1>2, <2>1, <2>2, <2>3, <2>4, <2>5, <2>6, <2>7, <2>8, <2>9, <2>11, <2>12
    DEF SetupNext, TimedAnswers
<1>3. ASSUME NEW p \in Pages, NEW launched, NEW left \in {Orphans, {}}, Mounts(p, launched, left)
      PROVE  ChoiceInv'
  <2>1. page'.at = "setup" => page' = SetupPage(NoSession) \/ page' = SetupPage(launched)
    BY <1>3, MountOwn
  <2>2. page'.at = "setup" => WizardFields \subseteq DOMAIN page' /\ page'.chosen = NoModel
    BY <2>1 DEF SetupPage, WizardFields
  <2> QED
    BY <2>2 DEF ChoiceInv
<1>4. CASE Arrive
  <2>1. CASE UNCHANGED <<page, wire>>
    BY <2>1 DEF wire, ChoiceInv, Pending
  <2>2. CASE Mounts(route.to, route.launch, Orphans)
    BY <1>3, <1>4, <2>2 DEF Arrive
  <2> QED
    BY <1>4, <2>1, <2>2 DEF Arrive
<1>5. ASSUME NEW p \in Pages, Go(p) \/ Reload(p) PROVE ChoiceInv'
  BY <1>3, <1>5 DEF Go, Reload
<1> QED
  BY <1>1, <1>2, <1>4, <1>5 DEF Next

\* A list of models that comes late does not replace the model the user has chosen.
THEOREM ChoiceTrue == Spec => []ChoiceKept
<1>1. Init => ChoiceInv
  BY DEF Init, ChoiceInv, Landing
<1>2. PortalInv /\ ChoiceInv /\ [Next]_vars => ChoiceInv'
  BY ChoiceStep DEF PortalInv, RestTyped
<1>3. ChoiceInv => ChoiceKept
  BY DEF ChoiceInv, ChoiceKept
<1> QED
  BY <1>1, <1>2, <1>3, PortalAlways, PTL DEF Spec

-------------------------------------------------------------------------------
(* The session a Launch opens. *)

\* The chat page a Launch led to has the session of the Launch; no Launch leads to setup.
LaunchPage ==
    /\ page.at = "setup" => "launched" \in DOMAIN page /\ page.launched = NoSession
    /\ page.at = "chat" =>
           /\ {"launched", "session"} \subseteq DOMAIN page
           /\ page.launched # NoSession => page.session = page.launched \/ tangled

\* Between its two answers and until its route is mounted, the session of a Launch is the
\* stored one, and its token is there when the route is.
LaunchWire ==
    /\ route.launch # NoSession =>
           /\ route.to = "chat" /\ stored.session # NoSession /\ stored.jwt # NoJWT
           /\ tangled \/ stored.session = route.launch
    /\ \A c \in calls : c.kind = "token" =>
           stored.session # NoSession /\ (tangled \/ stored.session = c.about)
    /\ ~tangled => /\ \A c, d \in Launches : c = d
                   /\ Launches # {} => route.launch = NoSession

\* No Launch begins, and none gets an answer that is not a failure.
LEMMA LaunchWireKept ==
    ASSUME LaunchWire, tangled' = tangled,
           route' = route \/ route'.launch = NoSession,
           stored'.session = stored.session, stored'.jwt = stored.jwt \/ stored'.jwt # NoJWT,
           \A c \in Launches' : \E d \in Launches : c.kind = d.kind /\ c.about = d.about,
           (\A c, d \in Launches : c = d) => \A c, d \in Launches' : c = d
    PROVE  LaunchWire'
<1>1. \A c \in calls' : c.kind = "token" => c \in Launches'
  BY DEF Launches
<1>2. \A d \in Launches : d.kind = "token" => d \in calls
  BY DEF Launches
<1>3. \A c \in calls' : c.kind = "token" =>
          stored'.session # NoSession /\ (tangled' \/ stored'.session = c.about)
  BY <1>1, <1>2 DEF LaunchWire
<1>4. Launches' # {} => Launches # {}
  OBVIOUS
<1> QED
  BY <1>3, <1>4 DEF LaunchWire

LEMMA LaunchWireFewer ==
    ASSUME LaunchWire, tangled' = tangled,
           route' = route \/ route'.launch = NoSession,
           stored'.session = stored.session, stored'.jwt = stored.jwt \/ stored'.jwt # NoJWT,
           Launches' \subseteq Launches
    PROVE  LaunchWire'
BY LaunchWireKept

LEMMA AsksNoLaunch ==
    ASSUME NEW kind, NEW about, Asks(kind, about), kind \notin {"configure", "token"}
    PROVE  Launches' \subseteq Launches
<1> DEFINE new == Call(kind, about)
<1>1. new.kind = kind
  BY DEF Call
<1>2. calls' = calls \cup {new}
  BY DEF Asks
<1> HIDE DEF new
<1> QED
  BY <1>1, <1>2 DEF Launches

LEMMA SignInWire ==
    ASSUME stored \in Stored, LaunchWire, SignInNext, WireTyped
    PROVE  LaunchWire' /\ tangled' = tangled
<1>1. tangled' = tangled
  BY DEF SignInNext, SubmitIncomplete, HandleSubmit, SwitchPersona, SignInAnswers, SignedIn,
         SignInFailed, PersonaSwitched, PersonaRefused
<1>2. CASE SubmitIncomplete
  BY <1>1, <1>2, LaunchWireFewer DEF SubmitIncomplete, wire, Launches
<1>3. ASSUME NEW u \in Users, HandleSubmit(u) PROVE LaunchWire'
  <2>1. Launches' \subseteq Launches
    BY <1>3, AsksNoLaunch DEF HandleSubmit, SignInPages
  <2> QED
    BY <1>1, <1>3, <2>1, LaunchWireFewer DEF HandleSubmit
<1>4. ASSUME NEW role \in Roles, SwitchPersona(role) PROVE LaunchWire'
  <2>1. Launches' \subseteq Launches
    BY <1>4, AsksNoLaunch DEF SwitchPersona
  <2> QED
    BY <1>1, <1>4, <2>1, LaunchWireFewer DEF SwitchPersona
<1>5. ASSUME NEW c \in calls, SignInAnswers(c) PROVE LaunchWire'
  <2>1. Launches' \subseteq Launches
    BY <1>5 DEF SignInAnswers, SignedIn, SignInFailed, PersonaSwitched, PersonaRefused, Comes,
                Launches
  <2>2. CASE SignedIn(c)
    <3>1. c.about \in Users
      BY <2>2 DEF SignedIn, Admitted, WireTyped, CallTyped
    <3>2. stored'.session = stored.session /\ stored'.jwt.sub = c.about
      BY <2>2 DEF SignedIn, Stored
    <3>3. stored'.jwt # NoJWT
      BY <3>1, <3>2, BrowserTabAssumption DEF NoJWT
    <3>4. route'.launch = NoSession
      BY <2>2 DEF SignedIn, Pushed
    <3> QED
      BY <1>1, <2>1, <3>2, <3>3, <3>4, LaunchWireFewer
  <2>3. CASE PersonaSwitched(c)
    <3>1. stored'.session = stored.session /\ stored'.jwt.sub = ui_user
      BY <2>3 DEF PersonaSwitched, Minted, Stored
    <3>2. stored'.jwt # NoJWT
      BY <3>1, BrowserTabAssumption DEF NoJWT
    <3> QED
      BY <1>1, <2>1, <2>3, <3>1, <3>2, LaunchWireFewer DEF PersonaSwitched
  <2>4. CASE SignInFailed(c) \/ PersonaRefused(c)
    BY <1>1, <2>1, <2>4, LaunchWireFewer DEF SignInFailed, PersonaRefused
  <2> QED
    BY <1>5, <2>2, <2>3, <2>4 DEF SignInAnswers
<1> QED
  BY <1>1, <1>2, <1>3, <1>4, <1>5 DEF SignInNext

LEMMA SetupWire ==
    ASSUME Base, WireTyped, stored \in Stored, LaunchWire, SetupNext
    PROVE  LaunchWire'
<1>1. ASSUME UNCHANGED <<stored, route, tangled>>, Launches' \subseteq Launches PROVE LaunchWire'
  BY <1>1, LaunchWireFewer
<1>2. CASE EnterModels \/ Refresh
  <2>1. FetchOllamaModels(2)
    BY <1>2 DEF EnterModels, Refresh
  <2>2. Launches' \subseteq Launches
    BY <2>1, AsksNoLaunch DEF FetchOllamaModels
  <2> QED
    BY <1>1, <2>1, <2>2 DEF FetchOllamaModels
<1>3. CASE HandleTest
  <2>1. Launches' \subseteq Launches
    BY <1>3, AsksNoLaunch DEF HandleTest
  <2> QED
    BY <1>1, <1>3, <2>1 DEF HandleTest
<1>4. CASE Back \/ NextStep \/ (\E p \in DOMAIN PROVIDERS : ChooseProvider(p))
           \/ (\E url \in Urls : EditUrl(url)) \/ (\E m \in Models \cup {NoModel} : EnterModel(m))
  <2>1. UNCHANGED <<stored, route, tangled, calls>>
    BY <1>4 DEF Back, NextStep, ChooseProvider, EditUrl, EnterModel, wire
  <2> QED
    BY <1>1, <2>1 DEF Launches
<1>5. ASSUME NEW c \in calls, TimedAnswers(c) \/ LaunchFailed(c) PROVE LaunchWire'
  <2>1. UNCHANGED <<stored, route, tangled>> /\ calls' = calls \ {c}
    BY <1>5 DEF TimedAnswers, ModelsListed, ModelsFailed, Tested, LaunchFailed, Comes
  <2> QED
    BY <1>1, <2>1 DEF Launches
<1>6. CASE HandleFinish
  <2> DEFINE new == Call("configure", asked + 1)
  <2>1. new.kind = "configure"
    BY DEF Call
  <2>2. calls' = calls \cup {new} /\ UNCHANGED <<stored, route>>
        /\ tangled' = (Launches # {} \/ route.launch # NoSession)
    BY <1>6 DEF HandleFinish, Asks
  <2> HIDE DEF new
  <2>3. Launches' = Launches \cup {new}
    BY <2>1, <2>2 DEF Launches
  <2>4. ~tangled' => Launches = {} /\ route.launch = NoSession
    BY <2>2
  <2>5. \A c \in calls' : c.kind = "token" => c \in Launches /\ c \in calls
    BY <2>1, <2>2 DEF Launches
  <2> QED
    BY <2>2, <2>3, <2>4, <2>5 DEF LaunchWire
<1>7. ASSUME NEW c \in calls, Configured(c) PROVE LaunchWire'
  <2> DEFINE new == [c EXCEPT !.kind = "token"]
  <2>1. new.kind = "token" /\ new.about = c.about
    BY DEF Base
  <2>2. c.about \in Nat /\ c.about # NoSession /\ c \in Launches
    BY <1>7 DEF Configured, WireTyped, CallTyped, NoSession, Launches
  <2>3. calls' = (calls \ {c}) \cup {new} /\ UNCHANGED <<route, tangled>>
    BY <1>7 DEF Configured
  <2>4. stored'.session = c.about /\ stored'.jwt = stored.jwt
    BY <1>7 DEF Configured, SessionStored, Stored
  <2> HIDE DEF new
  <2>5. Launches' = (Launches \ {c}) \cup {new}
    BY <2>1, <2>3 DEF Launches
  <2>6. ~tangled => Launches = {c} /\ route.launch = NoSession
    BY <2>2 DEF LaunchWire
  <2>7. \A d \in calls' : d.kind = "token" => d = new \/ d \in Launches \ {c}
    BY <2>1, <2>3 DEF Launches
  <2>8. \A d \in calls' : d.kind = "token" =>
            stored'.session # NoSession /\ (tangled' \/ stored'.session = d.about)
    BY <2>1, <2>2, <2>3, <2>4, <2>6, <2>7
  <2>9. ~tangled' => (\A d, e \in Launches' : d = e) /\ route'.launch = NoSession
    BY <2>3, <2>5, <2>6
  <2> QED
    BY <2>2, <2>3, <2>4, <2>8, <2>9 DEF LaunchWire
<1>8. ASSUME NEW c \in calls, Launched(c) PROVE LaunchWire'
  <2>1. c.kind = "token" /\ c \in Launches
    BY <1>8 DEF Launched, Launches
  <2>2. stored'.session = stored.session /\ stored'.jwt.sub = ui_user
    BY <1>8 DEF Launched, Minted, Stored
  <2>3. stored'.jwt # NoJWT
    BY <2>2, BrowserTabAssumption DEF NoJWT
  <2>4. calls' = calls \ {c} /\ tangled' = tangled
        /\ route'.to = "chat" /\ route'.launch = c.about
    BY <1>8 DEF Launched, Comes, Pushed
  <2>5. stored.session # NoSession /\ (tangled \/ stored.session = c.about)
    BY <2>1 DEF LaunchWire
  <2>6. Launches' = Launches \ {c}
    BY <2>4 DEF Launches
  <2>7. ~tangled => Launches' = {}
    BY <2>1, <2>6 DEF LaunchWire
  <2>8. \A d \in calls' : d.kind = "token" =>
            stored'.session # NoSession /\ (tangled' \/ stored'.session = d.about)
    BY <2>2, <2>4 DEF LaunchWire
  <2> QED
    BY <2>2, <2>3, <2>4, <2>5, <2>7, <2>8 DEF LaunchWire
<1> QED
  BY <1>2, <1>3, <1>4, <1>5, <1>6, <1>7, <1>8 DEF SetupNext

\* The pages that know of no Launch.
LEMMA OtherWire ==
    ASSUME Base, stored \in Stored, LaunchWire,
           AdminNext \/ TokenizeNext \/ SettingsNext \/ LandingNext \/ UNCHANGED vars
    PROVE  LaunchWire' /\ tangled' = tangled
<1>1. UNCHANGED <<route, tangled>> /\ stored'.session = stored.session /\ stored'.jwt = stored.jwt
  <2>1. AdminNext => UNCHANGED <<stored, route, tangled>>
    BY DEF AdminNext, ChangeDate, RefreshLogs, FetchLogs, LogsListed, LogsFailed
  <2>2. TokenizeNext => UNCHANGED <<stored, route, tangled>>
    BY DEF TokenizeNext, EditInput, HandleTokenize, HandleCopy, CopyTimeout, HandleReset, elsewhere
  <2>3. LandingNext => UNCHANGED <<stored, route, tangled>>
    BY DEF LandingNext, Preview, EditDemo, RunDemo, ResetDemo, SubmitWaitlist, Plays, StepTabs,
           GoTo, Controls, TogglePlay, Restart, besides
  <2>4. SettingsNext => /\ UNCHANGED <<route, tangled>>
                        /\ stored'.session = stored.session /\ stored'.jwt = stored.jwt
    BY DEF SettingsNext, SelectTheme, ToggleAnimations, ToggleCompact, ResetSettings,
           UnchangedBySettings, Stored
  <2> QED
    BY <2>1, <2>2, <2>3, <2>4 DEF vars
<1>2. Launches' \subseteq Launches
  <2>1. ASSUME NEW date, NEW jwt, FetchLogs(date, jwt) PROVE Launches' \subseteq Launches
    BY <2>1, AsksNoLaunch DEF FetchLogs
  <2>2. ASSUME calls' \subseteq calls PROVE Launches' \subseteq Launches
    BY <2>2 DEF Launches
  <2>3. ASSUME NEW date \in Dates, ChangeDate(date) PROVE Launches' \subseteq Launches
    BY <2>1, <2>2, <2>3 DEF ChangeDate, wire
  <2>4. CASE RefreshLogs
    BY <2>1, <2>4 DEF RefreshLogs
  <2>5. ASSUME NEW c \in calls, LogsListed(c) \/ LogsFailed(c) PROVE Launches' \subseteq Launches
    BY <2>2, <2>5 DEF LogsListed, LogsFailed, Comes
  <2>6. CASE TokenizeNext
    BY <2>2, <2>6 DEF TokenizeNext, EditInput, HandleTokenize, HandleCopy, CopyTimeout,
                      HandleReset, elsewhere, wire
  <2>7. CASE SettingsNext
    BY <2>2, <2>7 DEF SettingsNext, SelectTheme, ToggleAnimations, ToggleCompact, ResetSettings,
                      UnchangedBySettings, wire
  <2>8. CASE LandingNext
    BY <2>2, <2>8 DEF LandingNext, Preview, EditDemo, RunDemo, ResetDemo, SubmitWaitlist, Plays,
                      StepTabs, GoTo, Controls, TogglePlay, Restart, besides, wire
  <2> QED
    BY <2>2, <2>3, <2>4, <2>5, <2>6, <2>7, <2>8 DEF AdminNext, vars, wire
<1> QED
  BY <1>1, <1>2, LaunchWireFewer

LEMMA MountWire ==
    ASSUME Base, LaunchWire, NEW p \in Pages, NEW launched, NEW left \in {Orphans, {}},
           Mounts(p, launched, left), UNCHANGED <<stored, tangled>>, route' = NoRoute
    PROVE  LaunchWire'
<1>1. \A c \in left : c.kind \in {"configure", "token"} =>
          \E d \in Launches : c = [d EXCEPT !.mine = FALSE]
  BY DEF Orphans, Launches, Base
<1>2. \A c \in calls' : c \in left \/ c.kind = "logs"
  <2> DEFINE new == Call("logs", LogsOf(Today, stored.jwt))
  <2>1. new.kind = "logs"
    BY DEF Call
  <2>2. calls' = left \/ calls' = left \cup {new}
    BY DEF Mounts
  <2> HIDE DEF new
  <2> QED
    BY <2>1, <2>2
<1>3. \A c \in Launches' : \E d \in Launches : c = [d EXCEPT !.mine = FALSE]
  BY <1>1, <1>2 DEF Launches
<1>4. \A d \in Launches : [d EXCEPT !.mine = FALSE].kind = d.kind
                          /\ [d EXCEPT !.mine = FALSE].about = d.about
  BY DEF Base, Launches
<1>5. \A c \in Launches' : \E d \in Launches : c.kind = d.kind /\ c.about = d.about
  BY <1>3, <1>4
<1>6. (\A c, d \in Launches : c = d) => \A c, d \in Launches' : c = d
  BY <1>3
<1>7. route'.launch = NoSession
  BY DEF NoRoute
<1> QED
  BY <1>5, <1>6, <1>7, LaunchWireKept

LEMMA MountPage ==
    ASSUME Base, NEW p \in Pages, NEW launched, NEW left \in {Orphans, {}},
           Mounts(p, launched, left), tangled' = tangled,
           launched # NoSession => /\ p = "chat" /\ stored.session # NoSession
                                   /\ stored.jwt # NoJWT
                                   /\ tangled \/ stored.session = launched
    PROVE  LaunchPage'
<1>1. CASE page'.at = "setup"
  <2>1. page' = SetupPage(NoSession) \/ (page' = SetupPage(launched) /\ launched = NoSession)
    BY <1>1, MountOwn
  <2> QED
    BY <1>1, <2>1 DEF SetupPage, LaunchPage
<1>2. CASE page'.at = "chat"
  <2>1. page' = Chat(launched)
    BY <1>2, MountOwn
  <2>2. {"launched", "session"} \subseteq DOMAIN page' /\ page'.launched = launched
        /\ page'.session = stored.session
    BY <2>1 DEF Chat
  <2> QED
    BY <1>2, <2>2 DEF LaunchPage
<1>3. CASE page'.at \notin {"setup", "chat"}
  BY <1>3 DEF LaunchPage
<1> QED
  BY <1>1, <1>2, <1>3

\* No page changes what it was mounted with.
LEMMA OwnPage ==
    ASSUME Base, LaunchPage, SignInNext \/ SetupNext \/ SettingsNext
    PROVE  \A field \in {"launched", "session"} \cap DOMAIN page :
               page.at \in {"setup", "chat"} =>
                   field \in DOMAIN page' /\ page'[field] = page[field]
<1> DEFINE Kept == \A field \in {"launched", "session"} \cap DOMAIN page :
                       field \in DOMAIN page' /\ page'[field] = page[field]
<1>1. CASE SignInNext
  <2>1. CASE SubmitIncomplete
    BY <2>1 DEF SubmitIncomplete
  <2>2. ASSUME NEW u \in Users, HandleSubmit(u) PROVE Kept
    BY <2>2 DEF HandleSubmit
  <2>3. ASSUME NEW role \in Roles, SwitchPersona(role) PROVE Kept
    BY <2>3 DEF SwitchPersona
  <2>4. ASSUME NEW c \in calls, SignInAnswers(c) PROVE Kept
    <3>1. CASE SignedIn(c)
      BY <3>1 DEF SignedIn, Comes
    <3>2. CASE SignInFailed(c)
      BY <3>2 DEF SignInFailed, Comes
    <3>3. CASE PersonaSwitched(c)
      BY <3>3 DEF PersonaSwitched, Comes
    <3>4. CASE PersonaRefused(c)
      BY <3>4 DEF PersonaRefused, Comes
    <3> QED
      BY <2>4, <3>1, <3>2, <3>3, <3>4 DEF SignInAnswers
  <2> QED
    BY <1>1, <2>1, <2>2, <2>3, <2>4 DEF SignInNext
<1>2. CASE SetupNext
  <2>1. CASE EnterModels \/ Refresh
    BY <2>1 DEF EnterModels, Refresh, FetchOllamaModels
  <2>2. CASE Back \/ NextStep \/ HandleTest \/ HandleFinish
    BY <2>2 DEF Back, NextStep, HandleTest, HandleFinish
  <2>3. ASSUME NEW p \in DOMAIN PROVIDERS, ChooseProvider(p) PROVE Kept
    BY <2>3 DEF ChooseProvider
  <2>4. ASSUME NEW url \in Urls, EditUrl(url) PROVE Kept
    BY <2>4 DEF EditUrl
  <2>5. ASSUME NEW m \in Models \cup {NoModel}, EnterModel(m) PROVE Kept
    BY <2>5 DEF EnterModel
  <2>6. ASSUME NEW c \in calls, ModelsListed(c) PROVE Kept
    <3>1. PICK list \in {<< >>, Offers[c.about.url]} :
              Comes(c, [page EXCEPT !.listed = list, !.loadingModels = FALSE,
                                    !.model = FilledIn(list, c.about.model)])
      BY <2>6 DEF ModelsListed
    <3> QED
      BY <3>1 DEF Comes
  <2>7. ASSUME NEW c \in calls, Tested(c) PROVE Kept
    <3>1. PICK result \in {"ok", "fail"} :
              Comes(c, [page EXCEPT !.testResult = result, !.testing = FALSE])
      BY <2>7 DEF Tested
    <3> QED
      BY <3>1 DEF Comes
  <2>8. ASSUME NEW c \in calls, ModelsFailed(c) PROVE Kept
    BY <2>8 DEF ModelsFailed, Comes
  <2>9. ASSUME NEW c \in calls, LaunchFailed(c) PROVE Kept
    BY <2>9 DEF LaunchFailed, Comes
  <2>10. ASSUME NEW c \in calls, Configured(c) \/ Launched(c) PROVE Kept
    BY <2>10 DEF Configured, Launched, Comes
  <2> QED
    BY <1>2, <2>1, <2>2, <2>3, <2>4, <2>5, <2>6, <2>7, <2>8, <2>9, <2>10
    DEF SetupNext, TimedAnswers
<1>3. CASE SettingsNext
  BY <1>3 DEF SettingsNext, SelectTheme, ToggleAnimations, ToggleCompact, ResetSettings
<1> QED
  BY <1>1, <1>2, <1>3

LEMMA LaunchStep ==
    ASSUME Base, WireTyped, RestTyped, LaunchPage, LaunchWire, [Next]_vars
    PROVE  LaunchPage' /\ LaunchWire'
<1>1. stored \in Stored /\ route.to \in Pages \cup {None}
  BY DEF RestTyped
<1>2. CASE SignInNext \/ SettingsNext
  <2>1. LaunchWire' /\ tangled' = tangled /\ page'.at = page.at
    BY <1>1, <1>2, SignInWire, OtherWire, SignInOwn, QuietOwn
  <2> QED
    BY <1>2, <2>1, OwnPage DEF LaunchPage
<1>3. CASE SetupNext
  <2>1. LaunchWire' /\ page'.at = page.at
    BY <1>1, <1>3, SetupWire, SetupOwn
  <2>2. CASE page.at = "setup"
    BY <1>3, <2>1, <2>2, OwnPage DEF LaunchPage
  <2>3. CASE page.at = "chat"
    <3>1. ~HandleFinish /\ page' = page
      BY <1>3, <2>3, SetupOwn DEF HandleFinish, OnStep
    <3>2. tangled' = tangled
      BY <1>3, <3>1 DEF SetupNext, ChooseProvider, EnterModels, Refresh, FetchOllamaModels, Back,
                        NextStep, HandleTest, EditUrl, EnterModel, TimedAnswers, ModelsListed,
                        ModelsFailed, Tested, Configured, Launched, LaunchFailed
    <3> QED
      BY <2>1, <3>1, <3>2 DEF LaunchPage
  <2>4. CASE page.at \notin {"setup", "chat"}
    BY <2>1, <2>4 DEF LaunchPage
  <2> QED
    BY <2>2, <2>3, <2>4
<1>4. CASE AdminNext \/ TokenizeNext \/ LandingNext \/ UNCHANGED vars
  <2>1. LaunchWire' /\ tangled' = tangled
    BY <1>1, <1>4, OtherWire
  <2>2. page' = page \/ page'.at \notin {"setup", "chat"}
    BY <1>4, AdminOwn, QuietOwn DEF vars
  <2> QED
    BY <2>1, <2>2 DEF LaunchPage
<1>5. ASSUME NEW p \in Pages, Go(p) \/ Reload(p) PROVE LaunchPage' /\ LaunchWire'
  BY <1>5, MountWire, MountPage DEF Go, Reload
<1>6. CASE Arrive
  <2>1. CASE UNCHANGED <<page, wire>>
    <3>1. Launches' = Launches /\ route'.launch = NoSession /\ UNCHANGED <<stored, tangled>>
      BY <1>6, <2>1 DEF Arrive, wire, Launches, NoRoute
    <3> QED
      BY <2>1, <3>1, LaunchWireFewer DEF LaunchPage
  <2>2. CASE Mounts(route.to, route.launch, Orphans)
    <3>1. /\ route.to \in Pages /\ route' = NoRoute /\ UNCHANGED <<stored, tangled>>
      BY <1>1, <1>6 DEF Arrive
    <3>2. route.launch # NoSession =>
              /\ route.to = "chat" /\ stored.session # NoSession /\ stored.jwt # NoJWT
              /\ tangled \/ stored.session = route.launch
      BY DEF LaunchWire
    <3> QED
      BY <2>2, <3>1, <3>2, MountWire, MountPage
  <2> QED
    BY <1>6, <2>1, <2>2 DEF Arrive
<1> QED
  BY <1>2, <1>3, <1>4, <1>5, <1>6 DEF Next

\* A Launch never bounces back to setup: it ends on the chat page, with the session it
\* configured unless another Launch was under way.
THEOREM LaunchTrue == Spec => []LaunchOpensItsSession
<1>1. Init => LaunchPage /\ LaunchWire
  BY DEF Init, LaunchPage, LaunchWire, Landing, NoRoute, Launches
<1>2. PortalInv /\ LaunchPage /\ LaunchWire /\ [Next]_vars => LaunchPage' /\ LaunchWire'
  BY LaunchStep DEF PortalInv
<1>3. LaunchPage => LaunchOpensItsSession
  BY DEF LaunchPage, LaunchOpensItsSession
<1> QED
  BY <1>1, <1>2, <1>3, PortalAlways, PTL DEF Spec

-------------------------------------------------------------------------------
(* The tokenizer's page and the landing page's preview. *)

\* A result whose tokens the vault still has.
MadeOf(r, v) ==
    \E text \in Text, vault \in Vaults :
        /\ Consistent(vault)
        /\ r = tokenize(text, vault).result
        /\ Read(text, vault).vault.keyToToken \subseteq v.keyToToken

LEMMA ResultIs ==
    ASSUME NEW text, NEW vault, NEW r, r = tokenize(text, vault).result
    PROVE  /\ r.original = text /\ r.tokenized = Read(text, vault).tokenized
           /\ r.entities = Read(text, vault).entities
<1>1. r = [original |-> text, tokenized |-> Read(text, vault).tokenized,
           entities |-> Read(text, vault).entities]
  BY TokenizeIs
<1> QED
  BY <1>1

LEMMA MadeKept ==
    ASSUME NEW r, NEW v, MadeOf(r, v), NEW v2, v.keyToToken \subseteq v2.keyToToken
    PROVE  MadeOf(r, v2)
BY DEF MadeOf

LEMMA MadeNow ==
    ASSUME NEW text \in Text, NEW v, Consistent(v)
    PROVE  LET done == tokenize(text, v)
           IN  /\ Consistent(done.vault) /\ v.keyToToken \subseteq done.vault.keyToToken
               /\ MadeOf(done.result, done.vault)
<1> DEFINE d == Read(text, v)
           done == tokenize(text, v)
<1>1. d \in Dones(text) /\ v.keyToToken \subseteq d.vault.keyToToken
  BY ReadIs
<1>2. done.vault = d.vault
  BY TokenizeIs
<1>3. Consistent(d.vault)
  BY <1>1 DEF Dones
<1>4. MadeOf(done.result, d.vault)
  BY DEF MadeOf, Consistent
<1> HIDE DEF d, done
<1> QED
  BY <1>1, <1>2, <1>3, <1>4 DEF done

LEMMA MadeTyped ==
    ASSUME NEW r, NEW v, MadeOf(r, v)
    PROVE  r.original \in Text /\ r.tokenized \in Text
<1>1. PICK text \in Text, vault \in Vaults : Consistent(vault) /\ r = tokenize(text, vault).result
  BY DEF MadeOf
<1>2. r.original = text /\ r.tokenized = Read(text, vault).tokenized
  BY <1>1, ResultIs
<1>3. Read(text, vault) \in Dones(text)
  BY <1>1, ReadIs
<1> QED
  BY <1>2, <1>3 DEF Dones

\* Every entity has the token its key has in the vault.
LEMMA MadeEntities ==
    ASSUME NEW r, NEW v, MadeOf(r, v), NEW a \in EntityTable(r)
    PROVE  [key |-> Key(a.match), token |-> a.token] \in v.keyToToken
<1>1. PICK text \in Text, vault \in Vaults : /\ Consistent(vault) /\ r = tokenize(text, vault).result
                                  /\ Read(text, vault).vault.keyToToken \subseteq v.keyToToken
  BY DEF MadeOf
<1> DEFINE d == Read(text, vault)
<1>2. Entered(text, d, Len(text))
  BY <1>1, ReadIs
<1>3. r.entities = d.entities
  BY <1>1, ResultIs
<1>4. PICK k \in DOMAIN d.entities : a = d.entities[k]
  BY <1>3 DEF EntityTable, Range
<1> QED
  BY <1>1, <1>2, <1>4 DEF Entered

TokenizeInv ==
    page.at = "tokenize" =>
        /\ {"input", "vault", "result", "made"} \subseteq DOMAIN page
        /\ page.input \in Text /\ Consistent(page.vault)
        /\ \A r \in page.made : MadeOf(r, page.vault)
        /\ page.result = NoResult \/ page.result \in page.made

PreviewInv ==
    page.at = "landing" =>
        /\ "preview" \in DOMAIN page /\ DOMAIN page.preview = {"text", "result"}
        /\ page.preview.text \in Text
        /\ \/ page.preview.result = NoPreview
           \/ \E text \in Text : page.preview.result = clientTokenize(text)

LEMMA TokenizerFresh ==
    /\ {"input", "vault", "result", "made"} \subseteq DOMAIN Tokenizer
    /\ Tokenizer.at = "tokenize" /\ Tokenizer.input \in Text /\ Consistent(Tokenizer.vault)
    /\ Tokenizer.made = {} /\ Tokenizer.result = NoResult
<1>1. /\ {"input", "vault", "result", "made"} \subseteq DOMAIN Tokenizer
      /\ Tokenizer.at = "tokenize" /\ Tokenizer.input = SAMPLE /\ Tokenizer.vault = createVault
      /\ Tokenizer.made = {} /\ Tokenizer.result = NoResult
  BY DEF Tokenizer
<1> QED
  BY <1>1, EmptyVault, TokenizePageAssumption

LEMMA LandingFresh ==
    /\ "preview" \in DOMAIN Landing /\ DOMAIN Landing.preview = {"text", "result"}
    /\ Landing.preview.text \in Text /\ Landing.preview.result = NoPreview
BY LandingPageAssumption DEF Landing

LEMMA TokenizeOwnStep ==
    ASSUME TokenizeInv, TokenizeNext PROVE TokenizeInv'
<1>1. /\ page.at = "tokenize" /\ {"input", "vault", "result", "made"} \subseteq DOMAIN page
      /\ page.input \in Text /\ Consistent(page.vault)
      /\ \A r \in page.made : MadeOf(r, page.vault)
      /\ page.result = NoResult \/ page.result \in page.made
  <2>1. page.at = "tokenize"
    BY DEF TokenizeNext, EditInput, HandleTokenize, HandleCopy, CopyTimeout, HandleReset,
           OnTokenizer
  <2> QED
    BY <2>1 DEF TokenizeInv
<1>2. ASSUME NEW text \in Text, EditInput(text) PROVE TokenizeInv'
  <2>1. page' = [page EXCEPT !.input = text]
    BY <1>2 DEF EditInput
  <2>2. /\ DOMAIN page' = DOMAIN page /\ page'.input = text /\ page'.vault = page.vault
        /\ page'.result = page.result /\ page'.made = page.made
    BY <1>1, <2>1
  <2> QED
    BY <1>1, <2>2 DEF TokenizeInv
<1>3. CASE \E text \in Texts : EditInput(text)
  BY <1>2, <1>3, TokenizePageAssumption
<1>4. CASE page.result # NoResult /\ EditInput(page.result.tokenized)
  <2>1. page.result.tokenized \in Text
    BY <1>1, <1>4, MadeTyped
  <2> QED
    BY <1>2, <1>4, <2>1
<1>5. CASE HandleTokenize
  <2> DEFINE done == tokenize(page.input, page.vault)
  <2>1. page' = [page EXCEPT !.result = done.result, !.vault = done.vault,
                             !.made = page.made \cup {done.result}]
    BY <1>5 DEF HandleTokenize
  <2>2. /\ Consistent(done.vault) /\ page.vault.keyToToken \subseteq done.vault.keyToToken
        /\ MadeOf(done.result, done.vault)
    BY <1>1, MadeNow
  <2> HIDE DEF done
  <2>3. /\ DOMAIN page' = DOMAIN page /\ page'.input = page.input /\ page'.vault = done.vault
        /\ page'.result = done.result /\ page'.made = page.made \cup {done.result}
    BY <1>1, <2>1
  <2>4. \A r \in page.made : MadeOf(r, done.vault)
    BY <1>1, <2>2, MadeKept
  <2> QED
    BY <1>1, <2>2, <2>3, <2>4 DEF TokenizeInv
<1>6. CASE HandleCopy \/ CopyTimeout
  <2>1. /\ DOMAIN page' = DOMAIN page /\ page'.input = page.input /\ page'.vault = page.vault
        /\ page'.result = page.result /\ page'.made = page.made
    BY <1>1, <1>6 DEF HandleCopy, CopyTimeout
  <2> QED
    BY <1>1, <2>1 DEF TokenizeInv
<1>7. CASE HandleReset
  <2>1. /\ DOMAIN page' = DOMAIN page /\ page'.input = SAMPLE /\ page'.vault = createVault
        /\ page'.result = NoResult /\ page'.made = {}
    BY <1>1, <1>7 DEF HandleReset
  <2> QED
    BY <1>1, <2>1, EmptyVault, TokenizePageAssumption DEF TokenizeInv
<1> QED
  BY <1>3, <1>4, <1>5, <1>6, <1>7 DEF TokenizeNext

LEMMA PreviewOwnStep ==
    ASSUME PreviewInv, LandingNext PROVE PreviewInv'
<1>1. /\ page.at = "landing"
      /\ "preview" \in DOMAIN page /\ DOMAIN page.preview = {"text", "result"}
      /\ page.preview.text \in Text
      /\ \/ page.preview.result = NoPreview
         \/ \E text \in Text : page.preview.result = clientTokenize(text)
  <2>1. page.at = "landing"
    BY DEF LandingNext, Preview, EditDemo, RunDemo, ResetDemo, SubmitWaitlist, FormShown, Plays,
           StepTabs, GoTo, Controls, TogglePlay, Restart, OnLanding
  <2> QED
    BY <2>1 DEF PreviewInv
<1>2. ASSUME NEW text \in Text,
             page' = [page EXCEPT !.preview = [text |-> text, result |-> NoPreview]]
      PROVE  PreviewInv'
  <2>1. /\ "preview" \in DOMAIN page' /\ DOMAIN page'.preview = {"text", "result"}
        /\ page'.preview.text = text /\ page'.preview.result = NoPreview
    BY <1>1, <1>2
  <2> QED
    BY <2>1 DEF PreviewInv
<1>3. CASE (\E text \in DemoTexts : EditDemo(text)) \/ ResetDemo
  <2>1. \A text \in DemoTexts \cup {DEMO_SAMPLE} : text \in Text
    BY LandingPageAssumption
  <2> QED
    BY <1>2, <1>3, <2>1 DEF EditDemo, ResetDemo
<1>4. CASE RunDemo
  <2> DEFINE shown == clientTokenize(page.preview.text)
  <2>1. page' = [page EXCEPT !.preview = [page.preview EXCEPT !.result = shown]]
    BY <1>1, <1>4 DEF RunDemo
  <2>2. \E text \in Text : shown = clientTokenize(text)
    BY <1>1
  <2> HIDE DEF shown
  <2>3. /\ "preview" \in DOMAIN page' /\ DOMAIN page'.preview = {"text", "result"}
        /\ page'.preview.text = page.preview.text /\ page'.preview.result = shown
    BY <1>1, <2>1
  <2> QED
    BY <1>1, <2>2, <2>3 DEF PreviewInv
<1>5. CASE SubmitWaitlist \/ Plays \/ StepTabs \/ Controls
  <2>1. DOMAIN page' = DOMAIN page /\ page'.preview = page.preview
    BY <1>1, <1>5 DEF SubmitWaitlist, Plays, StepTabs, GoTo, Controls, TogglePlay, Restart
  <2> QED
    BY <1>1, <2>1 DEF PreviewInv
<1> QED
  BY <1>3, <1>4, <1>5 DEF LandingNext, Preview

LEMMA TokenizeStep ==
    ASSUME Base, TokenizeInv, PreviewInv, route.to \in Pages \cup {None}, [Next]_vars
    PROVE  TokenizeInv' /\ PreviewInv'
<1>1. CASE SignInNext \/ SetupNext \/ AdminNext \/ SettingsNext
  <2>1. page' = page \/ page'.at \notin {"tokenize", "landing"}
    BY <1>1, SignInOwn, SetupOwn, AdminOwn, QuietOwn DEF SignInPages
  <2> QED
    BY <2>1 DEF TokenizeInv, PreviewInv
<1>2. CASE TokenizeNext
  <2>1. page'.at = "tokenize"
    BY <1>2, QuietOwn
  <2> QED
    BY <1>2, <2>1, TokenizeOwnStep DEF PreviewInv
<1>3. CASE LandingNext
  <2>1. page'.at = "landing"
    BY <1>3, QuietOwn
  <2> QED
    BY <1>3, <2>1, PreviewOwnStep DEF TokenizeInv
<1>4. ASSUME NEW p \in Pages, NEW launched, NEW left \in {Orphans, {}}, Mounts(p, launched, left)
      PROVE  TokenizeInv' /\ PreviewInv'
  <2>1. /\ page'.at = "landing" => page' = Landing
        /\ page'.at = "tokenize" => page' = Tokenizer
    BY <1>4, MountOwn
  <2> QED
    BY <2>1, TokenizerFresh, LandingFresh DEF TokenizeInv, PreviewInv
<1>5. CASE Arrive
  <2>1. CASE UNCHANGED <<page, wire>>
    BY <2>1 DEF TokenizeInv, PreviewInv
  <2>2. CASE Mounts(route.to, route.launch, Orphans)
    BY <1>4, <1>5, <2>2 DEF Arrive
  <2> QED
    BY <1>5, <2>1, <2>2 DEF Arrive
<1>6. ASSUME NEW p \in Pages, Go(p) \/ Reload(p) PROVE TokenizeInv' /\ PreviewInv'
  BY <1>4, <1>6 DEF Go, Reload
<1>7. CASE UNCHANGED vars
  BY <1>7 DEF vars, TokenizeInv, PreviewInv
<1> QED
  BY <1>1, <1>2, <1>3, <1>5, <1>6, <1>7 DEF Next

THEOREM TokenizerAlways == Spec => [](TokenizeInv /\ PreviewInv)
<1>1. Init => TokenizeInv /\ PreviewInv
  <2> SUFFICES ASSUME Init PROVE TokenizeInv /\ PreviewInv
    OBVIOUS
  <2>1. page = Landing /\ page.at = "landing"
    BY DEF Init, Landing
  <2> QED
    BY <2>1, LandingFresh DEF TokenizeInv, PreviewInv
<1>2. PortalInv /\ (TokenizeInv /\ PreviewInv) /\ [Next]_vars => (TokenizeInv /\ PreviewInv)'
  BY TokenizeStep DEF PortalInv, RestTyped
<1> QED
  BY <1>1, <1>2, PortalAlways, PTL DEF Spec

\* Within one vault a value, up to its case, and its type have one token, and a token has
\* one value and type, however many texts were tokenized with it.
THEOREM TokensTrue == Spec => []SameValueSameToken
<1>1. TokenizeInv => SameValueSameToken
  <2> SUFFICES ASSUME TokenizeInv, page.at = "tokenize", NEW r \in page.made, NEW q \in page.made,
                      NEW a \in EntityTable(r), NEW b \in EntityTable(q)
               PROVE  a.token = b.token <=> Key(a.match) = Key(b.match)
    BY DEF SameValueSameToken
  <2>1. Consistent(page.vault) /\ MadeOf(r, page.vault) /\ MadeOf(q, page.vault)
    BY DEF TokenizeInv
  <2> DEFINE one == [key |-> Key(a.match), token |-> a.token]
             other == [key |-> Key(b.match), token |-> b.token]
  <2>2. one \in page.vault.keyToToken /\ other \in page.vault.keyToToken
    BY <2>1, MadeEntities
  <2>3. /\ one.key = Key(a.match) /\ one.token = a.token
        /\ other.key = Key(b.match) /\ other.token = b.token
    OBVIOUS
  <2> HIDE DEF one, other
  <2>4. one.key = other.key <=> one.token = other.token
    BY <2>1, <2>2 DEF Consistent, OneToOne
  <2> QED
    BY <2>3, <2>4
<1> QED
  BY <1>1, TokenizerAlways, PTL

\* Every result since the vault was empty reads back with it as its text, up to the case of
\* a value, and the preview reads back as its text.
THEOREM ReadsBackTrue == Spec => []ReadsBack
<1>1. TokenizeInv /\ PreviewInv => ReadsBack
  <2> SUFFICES ASSUME TokenizeInv, PreviewInv PROVE ReadsBack
    OBVIOUS
  <2>1. ASSUME page.at = "tokenize", NEW r \in page.made \cup ({page.result} \ {NoResult})
        PROVE  Lowered(detokenize(r.tokenized, page.vault))
                   = Lowered(detokenize(r.original, page.vault))
    <3>1. Consistent(page.vault) /\ MadeOf(r, page.vault)
      BY <2>1 DEF TokenizeInv
    <3>2. PICK text \in Text, vault \in Vaults :
              /\ Consistent(vault) /\ r = tokenize(text, vault).result
              /\ Read(text, vault).vault.keyToToken \subseteq page.vault.keyToToken
      BY <3>1 DEF MadeOf
    <3>3. Same(Read(text, vault).tokenized, text, page.vault.tokenToOrig)
      BY <3>1, <3>2, ReadsTrue
    <3>4. r.original = text /\ r.tokenized = Read(text, vault).tokenized
      BY <3>2, ResultIs
    <3> QED
      BY <3>3, <3>4 DEF Same, Expand, detokenize
  <2>2. ASSUME page.at = "landing", page.preview.result # NoPreview
        PROVE  LET r == page.preview.result
               IN  FoldLeft(Substitute, r.out, r.hits) = FoldLeft(Substitute, r.original, r.hits)
    <3>1. PICK text \in Text : page.preview.result = clientTokenize(text)
      BY <2>2 DEF PreviewInv
    <3> QED
      BY <3>1, PreviewReadsBack
  <2> QED
    BY <2>1, <2>2 DEF ReadsBack
<1> QED
  BY <1>1, TokenizerAlways, PTL

\* A value of the vault can be read in a result only where its first word stands in a match
\* of its own pattern that was passed over.
THEOREM MaskingTrue == Spec => []MaskedUnlessPassedOver
<1>1. TokenizeInv => MaskedUnlessPassedOver
  <2> SUFFICES ASSUME TokenizeInv, page.at = "tokenize", page.result # NoResult,
                      NEW e \in VaultTable, Occurs(e.original, page.result.tokenized)
               PROVE  \E i, j \in DOMAIN page.result.original :
                          /\ SubSeq(page.result.original, i, j) = e.original
                          /\ \E m \in Scan(e.token.type, Language(e.token.type),
                                        page.result.original) :
                                 /\ m.start <= i /\ i <= m.end
                                 /\ PassedOver(m, page.result)
    BY DEF MaskedUnlessPassedOver
  <2> DEFINE r == page.result
             value == e.original
             type == e.token.type
  <2>1. Consistent(page.vault) /\ MadeOf(r, page.vault)
    BY DEF TokenizeInv
  <2>2. type \in EntityTypes /\ value \in Language(type) /\ Len(value) > 0
    <3>1. PICK k \in DOMAIN page.vault.tokenToOrig : e = page.vault.tokenToOrig[k]
      BY DEF VaultTable, Range
    <3> QED
      BY <2>1, <3>1 DEF Consistent, Listed
  <2>3. PICK text \in Text, vault \in Vaults : Consistent(vault) /\ r = tokenize(text, vault).result
    BY <2>1 DEF MadeOf
  <2> DEFINE d == Read(text, vault)
  <2>4. r.original = text /\ r.tokenized = d.tokenized /\ r.entities = d.entities
    BY <2>3, ResultIs
  <2>5. PICK a, b \in DOMAIN d.tokenized : SubSeq(d.tokenized, a, b) = value
    BY <2>4 DEF Occurs
  <2> HIDE DEF r, value, type
  <2>6. PICK i, j \in DOMAIN text :
            /\ SubSeq(text, i, j) = value
            /\ \E m \in Found(type, text) :
                   /\ m.start <= i /\ i <= m.end
                   /\ \/ NoName(m)
                      \/ \E k \in DOMAIN d.entities :
                             d.entities[k].match.type # m.type /\ Overlaps(m, d.entities[k].match)
    BY <2>2, <2>3, <2>5, ReadMasks
  <2>7. PICK m \in Found(type, text) :
            /\ m.start <= i /\ i <= m.end
            /\ \/ NoName(m)
               \/ \E k \in DOMAIN d.entities :
                      d.entities[k].match.type # m.type /\ Overlaps(m, d.entities[k].match)
    BY <2>6
  <2>8. PassedOver(m, r)
    <3>1. \A k \in DOMAIN d.entities : d.entities[k] \in EntityTable(r)
      BY <2>4 DEF EntityTable, Range
    <3> QED
      BY <2>7, <3>1 DEF PassedOver
  <2> QED
    BY <2>4, <2>6, <2>7, <2>8 DEF Found, r, value, type
<1> QED
  BY <1>1, TokenizerAlways, PTL
===============================================================================
