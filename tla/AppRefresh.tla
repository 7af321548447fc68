----------------------------- MODULE AppRefresh -----------------------------
(***************************************************************************)
(* The React application of the Windows program (App.tsx) and what it      *)
(* shows of the back end: restoring the saved choices, switching the       *)
(* scoring model, the universe and the regime scoring, and the polls for   *)
(* the opportunity rows.  Each is an async function, and at each await     *)
(* another may run.                                                        *)
(*                                                                         *)
(* A command takes effect where it is issued: the back end's commands run  *)
(* one after the other on its main thread, and nothing else changes what   *)
(* is kept of it here.  Small replies arrive in the order of their calls   *)
(* (`replies`); the reply with the rows is large and may be overtaken.     *)
(* Rows are what they were computed from.                                  *)
(***************************************************************************)
EXTENDS Integers, Sequences

CONSTANTS
  Models,            \* scoring models
  DefaultModel,      \* aggressive_v3
  Profiles,          \* canonical names of universe profiles
  DefaultProfile,    \* sp500
  QaProfile,         \* qa
  Starts,            \* model bound: what the page may find when it is loaded: [saved, page,
                     \* regime] in its storage, [model, universe, locked] in the back end,
                     \* and how often the user then chooses and a call fails
  None               \* nothing saved, no rows, no answer

ASSUME AppAssumption ==
  /\ DefaultModel \in Models /\ DefaultProfile \in Profiles /\ QaProfile \in Profiles
  /\ QaProfile # DefaultProfile
  /\ None \notin Models \cup Profiles
  /\ Starts \subseteq [saved : Models \cup {None}, page : Profiles \cup {None},
                       regime : BOOLEAN, model : Models, universe : Profiles, locked : BOOLEAN,
                       clicks : Nat, failures : Nat]

VARIABLES
  backend,           \* [model, universe, regime, locked] of AppState
  replies,           \* small replies on their way: [to, ok]
  scoringModel, requestedModel, modelSwitching, dataGeneration,
  select,            \* selectScoringModel: [at, target, backendModel, initial, asked, rows]
  universeProfile, universeGeneration, universeSwitching, profileLocked, savedUniverse,
  change,            \* handleUniverseChange: [at, generation, name]
  boot,              \* the effect that restores the universe: [at, generation, name]
  regimeScoring, savedRegime,
  toggle,            \* toggleRegimeScoring: [at, next, generation, rows]
  restore,           \* the effect that restores the model: [at, model]
  polls,             \* refreshes in flight: [generation, rows, status]
  rows,              \* what the list shows: [publisher, of], the publisher for the properties
  clicks, failures,  \* how many are left
  untold             \* choices that a failed call left unknown to the back end or the page

modelVars == <<scoringModel, requestedModel, modelSwitching, dataGeneration, select>>
universeVars == <<universeProfile, universeGeneration, universeSwitching, profileLocked,
                  savedUniverse, change, boot>>
regimeVars == <<regimeScoring, savedRegime, toggle>>
vars == <<backend, replies, modelVars, universeVars, regimeVars, restore, polls, rows, clicks,
          failures, untold>>

IdleSelect == [at |-> "idle", target |-> None, backendModel |-> None, initial |-> 0,
               asked |-> 0, rows |-> None]
IdleChange == [at |-> "idle", generation |-> 0, name |-> None]
IdleToggle == [at |-> "idle", next |-> FALSE, generation |-> <<0, 0>>, rows |-> None]

\* A fresh start, or the page loaded anew.  The saved model is given to the back
\* end, or its own is asked for.
Init ==
  \E s \in Starts, told \in BOOLEAN :
    /\ told \/ s.failures > 0
    /\ failures = IF told THEN s.failures ELSE s.failures - 1
    /\ clicks = s.clicks
    /\ replies = <<[to |-> "restore", ok |-> told]>>
    /\ backend = [model |-> IF told /\ s.saved # None THEN s.saved ELSE s.model,
                  universe |-> s.universe, regime |-> TRUE, locked |-> s.locked]
    /\ restore = [at |-> "model", model |-> IF s.saved # None THEN s.saved ELSE s.model]
    /\ scoringModel = IF s.saved # None THEN s.saved ELSE DefaultModel
    /\ requestedModel = scoringModel
    /\ modelSwitching = FALSE /\ dataGeneration = 0 /\ select = IdleSelect
    /\ savedUniverse = s.page
    /\ universeProfile = IF s.page # None THEN s.page ELSE DefaultProfile
    /\ universeGeneration = 0 /\ universeSwitching = FALSE /\ profileLocked = FALSE
    /\ change = IdleChange /\ boot = [IdleChange EXCEPT !.at = "none"]
    /\ savedRegime = s.regime /\ regimeScoring = s.regime /\ toggle = IdleToggle
    /\ polls = {} /\ rows = None /\ untold = {}

-----------------------------------------------------------------------------
(* Calls *)

Outcome(ok) == /\ ok \/ failures > 0
               /\ failures' = IF ok THEN failures ELSE failures - 1

Arrives(task) == replies # <<>> /\ Head(replies).to = task
Succeeds == Head(replies).ok

Issue(task, ok) == replies' = Append(replies, [to |-> task, ok |-> ok])
IssueNext(task, ok) == replies' = Append(Tail(replies), [to |-> task, ok |-> ok])
NoFurtherCall == replies' = Tail(replies)

\* get_opportunities: one coherent view under the screener lock.
OpportunityRows(b) == [model |-> b.model, universe |-> b.universe, regime |-> b.regime]
Asked(b, ok) == IF ok THEN OpportunityRows(b) ELSE None

By(who, r) == [publisher |-> who, of |-> r]

-----------------------------------------------------------------------------
(* createGenerationRefresh *)

\* Mutant: the scoring model is not part of the generation.
DataOnlyGeneration == <<0, universeGeneration>>

generation == <<dataGeneration, universeGeneration>>
canRefresh == ~modelSwitching /\ ~universeSwitching

IsCurrentPoll(p) == p.generation = generation /\ canRefresh

\* The last part of an action that calls refresh(): a poll unless one of the
\* generation is in flight.  A failed half of a poll is None.
refresh ==
  IF canRefresh' /\ \A p \in polls : p.generation # generation'
  THEN \E gotRows, gotStatus \in BOOLEAN :
         /\ Outcome(gotRows /\ gotStatus)
         /\ polls' = polls \cup {[generation |-> generation', rows |-> Asked(backend', gotRows),
                                  status |-> IF gotStatus THEN backend'.universe ELSE None]}
  ELSE UNCHANGED <<polls, failures>>

\* The timer and the refresh button.
Poll ==
  /\ canRefresh /\ \A p \in polls : p.generation # generation
  /\ UNCHANGED <<backend, replies, modelVars, universeVars, regimeVars, restore, rows, clicks,
                 untold>>
  /\ refresh

\* Mutant: only the rows of a poll are published, not the status.
PublishRowsOnly(p) ==
  /\ rows' = IF p.rows # None THEN By("poll", p.rows) ELSE rows
  /\ UNCHANGED <<universeProfile, profileLocked>>

\* Each half that succeeded is shown.
publish(p) ==
  /\ rows' = IF p.rows # None THEN By("poll", p.rows) ELSE rows
  /\ universeProfile' = IF p.status # None THEN p.status ELSE universeProfile
  /\ profileLocked' = IF p.status # None THEN backend.locked ELSE profileLocked

PollArrives ==
  \E p \in polls :
    /\ polls' = polls \ {p}
    /\ IF IsCurrentPoll(p) THEN publish(p)
       ELSE UNCHANGED <<rows, universeProfile, profileLocked>>
    /\ UNCHANGED <<backend, replies, modelVars, universeGeneration, universeSwitching,
                   savedUniverse, change, boot, regimeVars, restore, clicks, failures, untold>>

-----------------------------------------------------------------------------
(* Restoring the model and the regime scoring *)

RestoreModel ==
  /\ restore.at = "model" /\ Arrives("restore")
  /\ IF Succeeds
     THEN scoringModel' = restore.model /\ requestedModel' = restore.model /\ UNCHANGED untold
     ELSE untold' = untold \cup {"model"} /\ UNCHANGED <<scoringModel, requestedModel>>
  /\ \E ok \in BOOLEAN :
       /\ Outcome(ok) /\ IssueNext("restore", ok)
       /\ backend' = IF ok THEN [backend EXCEPT !.regime = savedRegime] ELSE backend
  /\ restore' = [restore EXCEPT !.at = IF savedRegime THEN "on" ELSE "off"]
  /\ UNCHANGED <<modelSwitching, dataGeneration, select, universeVars, regimeVars, polls, rows,
                 clicks>>

RestoreRegime ==
  /\ restore.at \in {"on", "off"} /\ Arrives("restore")
  /\ IF Succeeds
     THEN /\ regimeScoring' = (restore.at = "on") /\ savedRegime' = regimeScoring'
          /\ UNCHANGED untold
     ELSE untold' = untold \cup {"regime"} /\ UNCHANGED <<regimeScoring, savedRegime>>
  /\ restore' = [restore EXCEPT !.at = "ready"]
  /\ NoFurtherCall
  /\ UNCHANGED <<backend, modelVars, universeVars, toggle, polls, rows, clicks, failures>>

-----------------------------------------------------------------------------
(* selectScoringModel *)

\* Mutant: a universe change during the switch is not noticed.
PublishAnyRows == TRUE

canPublishModelRows ==
  /\ select.initial = select.asked /\ select.asked = universeGeneration
  /\ ~universeSwitching

SetModel(s, model) ==
  \E ok \in BOOLEAN :
    /\ Outcome(ok) /\ IssueNext("select", ok)
    /\ backend' = IF ok THEN [backend EXCEPT !.model = model] ELSE backend
    /\ select' = s
    /\ UNCHANGED <<scoringModel, requestedModel, modelSwitching, polls, rows>>

\* The switch ends; a poll makes up for rows that could not be published.
EndSwitch(missed) ==
  /\ modelSwitching' = FALSE
  /\ select' = IdleSelect
  /\ UNCHANGED <<backend, dataGeneration, universeGeneration, universeSwitching>>
  /\ IF missed \/ select.initial # universeGeneration THEN refresh
     ELSE UNCHANGED <<polls, failures>>

\* A turn of the loop: the back end is told of another model, or has it
\* already, and its rows are asked for unless they are shown.
Turn(backendModel) ==
  LET s == [select EXCEPT !.target = requestedModel, !.backendModel = backendModel]
  IN  \/ /\ requestedModel # backendModel
         /\ SetModel([s EXCEPT !.at = "set"], requestedModel)
      \/ /\ requestedModel = backendModel /\ requestedModel = scoringModel
         /\ NoFurtherCall /\ EndSwitch(FALSE)
         /\ UNCHANGED <<scoringModel, requestedModel, rows>>
      \/ /\ requestedModel = backendModel /\ requestedModel # scoringModel
         /\ \E ok \in BOOLEAN :
              /\ Outcome(ok) /\ NoFurtherCall
              /\ select' = [s EXCEPT !.at = "rows", !.asked = universeGeneration,
                                     !.rows = Asked(backend, ok)]
         /\ UNCHANGED <<backend, scoringModel, requestedModel, modelSwitching, polls, rows>>

selectScoringModel(next) ==
  /\ clicks > 0 /\ clicks' = clicks - 1
  /\ next # requestedModel \/ (~modelSwitching /\ next # scoringModel)
  /\ requestedModel' = next
  /\ IF modelSwitching \/ next = scoringModel
     THEN UNCHANGED <<backend, replies, modelSwitching, dataGeneration, select, failures>>
     ELSE /\ modelSwitching' = TRUE /\ dataGeneration' = dataGeneration + 1
          /\ \E ok \in BOOLEAN :
               /\ Outcome(ok) /\ Issue("select", ok)
               /\ backend' = IF ok THEN [backend EXCEPT !.model = next] ELSE backend
          /\ select' = [IdleSelect EXCEPT !.at = "set", !.target = next,
                          !.backendModel = scoringModel, !.initial = universeGeneration]
  /\ UNCHANGED <<scoringModel, universeVars, regimeVars, restore, polls, rows, untold>>

ModelIsSet ==
  /\ select.at = "set" /\ Arrives("select") /\ Succeeds
  /\ Turn(select.target)
  /\ UNCHANGED <<dataGeneration, universeVars, regimeVars, restore, clicks, untold>>

\* The rows of the requested model are shown with it, unless the universe changed.
ModelRowsArrive ==
  /\ select.at = "rows" /\ select.rows # None
  /\ requestedModel = select.target
  /\ scoringModel' = select.target
  /\ rows' = IF canPublishModelRows THEN By("select", select.rows) ELSE rows
  /\ EndSwitch(~canPublishModelRows)
  /\ UNCHANGED <<replies, requestedModel, universeVars, regimeVars, restore, clicks, untold>>

\* The request changed while the rows were on their way.
ModelRowsUnwanted ==
  /\ select.at = "rows" /\ select.rows # None
  /\ requestedModel # select.target
  /\ \E ok \in BOOLEAN :
       /\ Outcome(ok) /\ Issue("select", ok)
       /\ backend' = IF ok THEN [backend EXCEPT !.model = requestedModel] ELSE backend
  /\ select' = [select EXCEPT !.at = "set", !.target = requestedModel]
  /\ UNCHANGED <<scoringModel, requestedModel, modelSwitching, dataGeneration, universeVars,
                 regimeVars, restore, polls, rows, clicks, untold>>

\* Mutant: the page goes back to its model, the back end does not.
RollbackOfThePage(ok) ==
  /\ requestedModel' = scoringModel
  /\ select' = [select EXCEPT !.at = "rollback"]
  /\ UNCHANGED <<backend, scoringModel, modelSwitching, dataGeneration, universeVars, regimeVars,
                 restore, polls, rows, clicks, untold>>

Rollback(ok) ==
  /\ requestedModel' = scoringModel
  /\ backend' = IF ok THEN [backend EXCEPT !.model = scoringModel] ELSE backend
  /\ select' = [select EXCEPT !.at = "rollback"]
  /\ UNCHANGED <<scoringModel, modelSwitching, dataGeneration, universeVars, regimeVars, restore,
                 polls, rows, clicks, untold>>

SwitchFails ==
  \E ok \in BOOLEAN :
    /\ Outcome(ok) /\ Rollback(ok)
    /\ \/ select.at = "set" /\ Arrives("select") /\ ~Succeeds /\ IssueNext("select", ok)
       \/ select.at = "rows" /\ select.rows = None /\ Issue("select", ok)

RollbackEnds ==
  /\ select.at = "rollback" /\ Arrives("select")
  /\ untold' = IF Succeeds THEN untold ELSE untold \cup {"model"}
  /\ NoFurtherCall /\ EndSwitch(FALSE)
  /\ UNCHANGED <<scoringModel, requestedModel, universeVars, regimeVars, restore, rows, clicks>>

Switch ==
  \/ ModelIsSet \/ ModelRowsArrive \/ ModelRowsUnwanted \/ SwitchFails \/ RollbackEnds

-----------------------------------------------------------------------------
(* handleUniverseChange *)

\* set_universe_profile: a locked launch refuses another profile; otherwise the
\* profile is adopted, or the call fails before or after it is.
SetUniverse(name, ok) ==
  IF backend.locked /\ name # backend.universe
  THEN ~ok /\ UNCHANGED <<backend, failures>>
  ELSE /\ Outcome(ok)
       /\ \/ backend' = [backend EXCEPT !.universe = name]
          \/ ~ok /\ UNCHANGED backend

BeginUniverse == /\ universeGeneration' = universeGeneration + 1
                 /\ universeSwitching' = TRUE

\* The last part of whatever ends an adoption: the page polls at once.
EndUniverse ==
  /\ universeSwitching' = FALSE
  /\ UNCHANGED <<backend, universeGeneration, modelVars>>
  /\ refresh

\* What the back end says of the profile is shown and saved.
Adopted(name) ==
  /\ universeProfile' = name /\ savedUniverse' = name
  /\ profileLocked' = backend.locked

handleUniverseChange(name) ==
  /\ clicks > 0 /\ clicks' = clicks - 1
  /\ name # universeProfile /\ ~profileLocked /\ ~universeSwitching
  /\ BeginUniverse
  /\ universeProfile' = name /\ savedUniverse' = name
  /\ rows' = None
  /\ \E ok \in BOOLEAN : SetUniverse(name, ok) /\ Issue("change", ok)
  /\ change' = [at |-> "set", generation |-> universeGeneration', name |-> name]
  /\ UNCHANGED <<modelVars, profileLocked, boot, regimeVars, restore, polls, untold>>

ChangeIsCurrent == change.generation = universeGeneration

UniverseIsSet ==
  /\ change.at = "set" /\ Arrives("change")
  /\ \/ /\ ChangeIsCurrent /\ Succeeds
        /\ Adopted(change.name) /\ change' = IdleChange
        /\ NoFurtherCall /\ EndUniverse
     \/ /\ ChangeIsCurrent /\ ~Succeeds
        /\ \E ok \in BOOLEAN : Outcome(ok) /\ IssueNext("change", ok)
        /\ change' = [change EXCEPT !.at = "restore", !.name = backend.universe]
        /\ UNCHANGED <<backend, modelVars, universeProfile, universeGeneration,
                       universeSwitching, profileLocked, savedUniverse, polls>>
     \/ /\ ~ChangeIsCurrent /\ NoFurtherCall /\ change' = IdleChange
        /\ UNCHANGED <<backend, modelVars, universeProfile, universeGeneration,
                       universeSwitching, profileLocked, savedUniverse, polls, failures>>
  /\ UNCHANGED <<boot, regimeVars, restore, rows, clicks, untold>>

\* The page goes back to what the back end runs; the generation is not asked
\* for before that.
UniverseIsRestored ==
  /\ change.at = "restore" /\ Arrives("change")
  /\ IF Succeeds THEN Adopted(change.name)
     ELSE UNCHANGED <<universeProfile, savedUniverse, profileLocked>>
  /\ NoFurtherCall /\ change' = IdleChange
  /\ IF ChangeIsCurrent THEN EndUniverse
     ELSE UNCHANGED <<backend, modelVars, universeGeneration, universeSwitching, polls, failures>>
  /\ UNCHANGED <<boot, regimeVars, restore, rows, clicks, untold>>

-----------------------------------------------------------------------------
(* The effect that restores the universe, once the model is restored.  While *)
(* it runs no other adoption can begin, so that its generation is current.   *)

\* planUniverseBoot for a launch that is not locked.
planUniverseBoot(saved) == IF saved \in {None, QaProfile} THEN DefaultProfile ELSE saved

BootBegins ==
  /\ boot.at = "none" /\ restore.at = "ready"
  /\ BeginUniverse
  /\ \E ok \in BOOLEAN : Outcome(ok) /\ Issue("boot", ok)
  /\ boot' = [at |-> "profile", generation |-> universeGeneration',
              name |-> planUniverseBoot(savedUniverse)]
  /\ UNCHANGED <<backend, modelVars, universeProfile, profileLocked, savedUniverse, change,
                 regimeVars, restore, polls, rows, clicks, untold>>

\* start_feed adopts nothing new: a locked launch, or a restoration that failed.
StartFeed ==
  /\ boot' = [boot EXCEPT !.at = "feed"]
  /\ \E ok \in BOOLEAN : Outcome(ok) /\ IssueNext("boot", ok)
  /\ UNCHANGED backend

BootProfile ==
  /\ boot.at = "profile" /\ Arrives("boot") /\ boot.generation = universeGeneration
  /\ \/ /\ Succeeds /\ backend.locked
        /\ profileLocked' = TRUE /\ universeProfile' = backend.universe
        /\ StartFeed
     \/ /\ Succeeds /\ ~backend.locked
        /\ profileLocked' = FALSE
        /\ \E ok \in BOOLEAN : SetUniverse(boot.name, ok) /\ IssueNext("boot", ok)
        /\ boot' = [boot EXCEPT !.at = "set"]
        /\ UNCHANGED universeProfile
     \/ ~Succeeds /\ StartFeed /\ UNCHANGED <<profileLocked, universeProfile>>
  /\ UNCHANGED <<modelVars, universeGeneration, universeSwitching, savedUniverse, change,
                 regimeVars, restore, polls, rows, clicks, untold>>

BootIsSet ==
  /\ boot.at = "set" /\ Arrives("boot") /\ boot.generation = universeGeneration
  /\ \/ /\ Succeeds /\ Adopted(boot.name)
        /\ boot' = [boot EXCEPT !.at = "done"]
        /\ NoFurtherCall /\ EndUniverse
     \/ /\ ~Succeeds /\ StartFeed
        /\ UNCHANGED <<modelVars, universeProfile, universeGeneration, universeSwitching,
                       profileLocked, savedUniverse, polls>>
  /\ UNCHANGED <<change, regimeVars, restore, rows, clicks, untold>>

BootEnds ==
  /\ boot.at = "feed" /\ Arrives("boot") /\ boot.generation = universeGeneration
  /\ boot' = [boot EXCEPT !.at = "done"]
  /\ NoFurtherCall /\ EndUniverse
  /\ UNCHANGED <<universeProfile, profileLocked, savedUniverse, change, regimeVars, restore, rows,
                 clicks, untold>>

Universe ==
  \/ UniverseIsSet \/ UniverseIsRestored \/ BootBegins \/ BootProfile \/ BootIsSet \/ BootEnds

-----------------------------------------------------------------------------
(* toggleRegimeScoring *)

toggleRegimeScoring ==
  /\ clicks > 0 /\ clicks' = clicks - 1
  /\ toggle.at = "idle"
  /\ toggle' = [at |-> "set", next |-> ~regimeScoring, generation |-> generation, rows |-> None]
  /\ \E ok \in BOOLEAN :
       /\ Outcome(ok) /\ Issue("toggle", ok)
       /\ backend' = IF ok THEN [backend EXCEPT !.regime = ~regimeScoring] ELSE backend
  /\ UNCHANGED <<modelVars, universeVars, regimeScoring, savedRegime, restore, polls, rows,
                 untold>>

RegimeIsSet ==
  /\ toggle.at = "set" /\ Arrives("toggle")
  /\ NoFurtherCall
  /\ IF Succeeds
     THEN /\ regimeScoring' = toggle.next /\ savedRegime' = toggle.next
          /\ \E ok \in BOOLEAN :
               /\ Outcome(ok)
               /\ toggle' = [toggle EXCEPT !.at = "rows", !.rows = Asked(backend, ok)]
     ELSE toggle' = IdleToggle /\ UNCHANGED <<regimeScoring, savedRegime, failures>>
  /\ UNCHANGED <<backend, modelVars, universeVars, restore, polls, rows, clicks, untold>>

RegimeRowsArrive ==
  /\ toggle.at = "rows"
  /\ rows' = IF toggle.rows # None /\ toggle.generation = generation /\ canRefresh
             THEN By("toggle", toggle.rows) ELSE rows
  /\ toggle' = IdleToggle
  /\ UNCHANGED <<backend, replies, modelVars, universeVars, regimeScoring, savedRegime, restore,
                 polls, clicks, failures, untold>>

Regime == RegimeIsSet \/ RegimeRowsArrive

-----------------------------------------------------------------------------

Click == \/ \E m \in Models : selectScoringModel(m)
         \/ \E p \in Profiles : handleUniverseChange(p)
         \/ toggleRegimeScoring

Next == \/ RestoreModel \/ RestoreRegime \/ Switch \/ Universe \/ Regime
        \/ Poll \/ PollArrives \/ Click

\* Replies arrive, effects run and the timer ticks; nobody has to click.
Fairness ==
  /\ WF_vars(RestoreModel) /\ WF_vars(RestoreRegime)
  /\ WF_vars(Switch) /\ WF_vars(Universe) /\ WF_vars(Regime)
  /\ WF_vars(Poll) /\ WF_vars(PollArrives)

Spec == Init /\ [][Next]_vars /\ Fairness

-----------------------------------------------------------------------------
(* Properties *)

\* "The old universe cannot restore cleared rows": what is published is of the
\* universe that the back end runs, whatever poll, switch or toggle asked for it,
\* and nothing is published during an adoption.
OldUniverseStaysCleared ==
  [][rows' # rows /\ rows' # None =>
       ~universeSwitching' /\ rows'.of.universe = backend'.universe]_vars

\* What is published was computed with the scoring model that the page then
\* shows: no poll and no switch publishes the rows of another model.  (The
\* rows of a regime toggle are not compared with the model's last switch.)
PublishedRowsFit ==
  [][(/\ rows' # rows /\ rows' # None /\ rows'.publisher # "toggle"
      /\ restore.at # "model" /\ "model" \notin untold)
       => rows'.of.model = scoringModel']_vars

\* Outside a switch the back end scores with what the page shows: a request
\* during a switch, a restoration or a rollback is not half done.
ChoicesAreTold ==
  /\ ~modelSwitching /\ restore.at # "model" /\ "model" \notin untold =>
       backend.model = scoringModel
  /\ toggle.at # "set" /\ restore.at = "ready" /\ "regime" \notin untold =>
       backend.regime = regimeScoring

\* When the clicks have ended the page comes to show rows of the model, the
\* universe and the regime scoring that it names.
RowsSettle ==
  <>[](\/ untold # {}
       \/ /\ rows # None
          /\ rows.of = [model |-> scoringModel, universe |-> universeProfile,
                        regime |-> regimeScoring])
=============================================================================
