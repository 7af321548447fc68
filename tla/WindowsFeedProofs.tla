-------------------------- MODULE WindowsFeedProofs --------------------------
(***************************************************************************)
(* What is proved about WindowsFeed, for any profiles, any number of       *)
(* workers, adoptions and retry rounds: the types, that nothing of an      *)
(* older universe is shown, that the status is of the profile, that only   *)
(* rows of the active profile go into the history, that no symbol of a     *)
(* profile marked as passed was left out, and that a symbol is sent to     *)
(* enrichment once and counted once in the status.                         *)
(***************************************************************************)
EXTENDS WindowsFeed, FiniteSetTheorems, TLAPS

(* The type invariant in parts, one for each actor's state, with what the  *)
(* types leave open: who holds the gate has a profile, who is at work on a *)
(* symbol has one, and a round that runs is one that was allowed.          *)
Row == [price : Datum, fundamentals : Datum]
Status == [running : BOOLEAN, symbols_loaded : Nat, profile_name : Profiles]
Adoption ==
  [step : {"idle", "bumped", "reset", "cleared", "named", "spawning", "spawned"},
   profile : Profiles \cup {None}]
Round == [step : {"none", "round", "joining", "marking", "storing", "resting", "refreshing",
                  "ended"},
          round : 0..MAX_RETRY_ROUNDS + 1, pending : SUBSET Symbols]
Work == [step : {"ended", "ready", "charting", "queueing", "announcing", "judging"},
         symbol : Symbols \cup {None}, visible : BOOLEAN, n : Nat]
Taking == [step : {"none", "waiting", "reading", "inserting", "ended"}, rows : SUBSET Datum]
Load == [step : {"idle", "quote"}, symbol : Symbols \cup {None}, generation : 0..MAX_GENERATION]

WorkHasSymbol(work) ==
  work.step \in {"charting", "queueing", "announcing", "judging"} => work.symbol \in Symbols

InstanceT == instance \in Instances
GenerationT == /\ feed_generation \in 0..MAX_GENERATION
               /\ initial_pass_completed_generation \in Generations \cup {NotYet}
ProfileT == active_profile \in Profiles /\ active_symbols \subseteq Symbols
StatusT == feed_status \in Status
ScreenerT == screener \in [Symbols -> Row]
HistoryT == history \subseteq Datum
ApplyT == apply \in Adoption /\ (apply.step # "idle" => apply.profile \in Profiles)
CoordinatorT ==
  /\ coordinator \in [Generations -> Round]
  /\ \A g \in Generations :
       coordinator[g].step = "joining" => coordinator[g].round <= MAX_RETRY_ROUNDS
WorkerT ==
  /\ worker \in [Generations -> [Workers -> Work]]
  /\ \A g \in Generations, w \in Workers : WorkHasSymbol(worker[g][w])
BatchT == batch \in [Generations -> SUBSET Symbols] /\ failed \in [Generations -> SUBSET Symbols]
EnrolledT == /\ enrolled \in [Generations -> SUBSET Symbols]
             /\ loaded \in [Generations -> Nat]
             /\ sent \in [Generations -> [Symbols -> Nat]]
SnapshotT == snapshotter \in [Generations -> Taking]
LoaderT == loader \in Load /\ (loader.step = "quote" => loader.symbol \in Symbols)

Typed ==
  /\ InstanceT /\ GenerationT /\ ProfileT /\ StatusT /\ ScreenerT /\ HistoryT /\ ApplyT
  /\ CoordinatorT /\ WorkerT /\ BatchT /\ EnrolledT /\ SnapshotT /\ LoaderT

LEMMA TypedParts == Typed => TypeOK
BY DEF Typed, TypeOK, InstanceT, GenerationT, ProfileT, StatusT, ScreenerT, HistoryT, ApplyT,
       CoordinatorT, WorkerT, BatchT, EnrolledT, SnapshotT, LoaderT, Row, Status, Adoption,
       Round, Work, Taking, Load

(* A part stays as long as its variables do.                               *)
LEMMA Frame ==
  /\ InstanceT /\ UNCHANGED instance => InstanceT'
  /\ GenerationT /\ UNCHANGED <<feed_generation, initial_pass_completed_generation>>
       => GenerationT'
  /\ ProfileT /\ UNCHANGED profileVars => ProfileT'
  /\ StatusT /\ UNCHANGED feed_status => StatusT'
  /\ ScreenerT /\ UNCHANGED screener => ScreenerT'
  /\ HistoryT /\ UNCHANGED history => HistoryT'
  /\ ApplyT /\ UNCHANGED apply => ApplyT'
  /\ CoordinatorT /\ UNCHANGED coordinator => CoordinatorT'
  /\ WorkerT /\ UNCHANGED worker => WorkerT'
  /\ BatchT /\ UNCHANGED <<batch, failed>> => BatchT'
  /\ EnrolledT /\ UNCHANGED <<enrolled, loaded, sent>> => EnrolledT'
  /\ SnapshotT /\ UNCHANGED snapshotter => SnapshotT'
  /\ LoaderT /\ UNCHANGED loader => LoaderT'
BY DEF InstanceT, GenerationT, ProfileT, StatusT, ScreenerT, HistoryT, ApplyT, CoordinatorT,
       WorkerT, BatchT, EnrolledT, SnapshotT, LoaderT, profileVars, WorkHasSymbol

LEMMA InstanceTyped ==
  ASSUME InstanceT
  PROVE  /\ instance.workers \in Workers /\ instance.opened \subseteq Symbols
         /\ instance.retries \in 0..MAX_RETRY_ROUNDS
BY FeedAssumption DEF InstanceT

LEMMA InitTyped == Init => Typed
<1> SUFFICES ASSUME Init PROVE Typed
  OBVIOUS
<1> USE FeedAssumption DEF Init, Generations, Workers
<1>1. InstanceT /\ GenerationT /\ ProfileT /\ StatusT /\ HistoryT /\ BatchT /\ EnrolledT
  BY DEF InstanceT, GenerationT, ProfileT, StatusT, HistoryT, BatchT, EnrolledT, Status
<1>2. ScreenerT /\ ApplyT /\ LoaderT
  BY DEF ScreenerT, ApplyT, LoaderT, NoRow, Row, Datum, NoApply, Adoption, Load
<1>3. CoordinatorT /\ SnapshotT
  BY DEF CoordinatorT, SnapshotT, Round, Taking
<1>4. WorkerT
  BY DEF WorkerT, NoWork, Work, WorkHasSymbol
<1> QED BY <1>1, <1>2, <1>3, <1>4 DEF Typed

(* How the records of the actors are updated.                              *)
LEMMA WorkerUpdate ==
  ASSUME WorkerT, NEW g \in Generations, NEW w \in Workers, NEW r \in Work, WorkHasSymbol(r),
         worker' = [worker EXCEPT ![g][w] = r]
  PROVE  WorkerT'
<1>1. worker' \in [Generations -> [Workers -> Work]]
  BY DEF WorkerT
<1>2. ASSUME NEW h \in Generations, NEW v \in Workers PROVE WorkHasSymbol(worker'[h][v])
  <2>1. worker'[h][v] = IF h = g /\ v = w THEN r ELSE worker[h][v]
    BY DEF WorkerT
  <2> QED BY <2>1 DEF WorkerT
<1> QED BY <1>1, <1>2 DEF WorkerT

LEMMA CoordinatorUpdate ==
  ASSUME CoordinatorT, NEW g \in Generations, NEW r \in Round,
         r.step = "joining" => r.round <= MAX_RETRY_ROUNDS,
         coordinator' = [coordinator EXCEPT ![g] = r]
  PROVE  CoordinatorT'
BY DEF CoordinatorT

LEMMA SnapshotUpdate ==
  ASSUME SnapshotT, NEW g \in Generations, NEW r \in Taking,
         snapshotter' = [snapshotter EXCEPT ![g] = r]
  PROVE  SnapshotT'
BY DEF SnapshotT

(* An amount of symbols that the status shows.                             *)
LEMMA CountTyped ==
  ASSUME ProfileT, StatusT, NEW g \in Generations, NEW n \in Nat
  PROVE  MaxLoaded(g, n) \in Nat
<1>1. IsFiniteSet(active_symbols)
  BY FS_Subset, FeedAssumption DEF ProfileT
<1>2. Cardinality(active_symbols) \in Nat
  BY <1>1, FS_CardinalityType
<1>3. feed_status.symbols_loaded \in Nat
  BY DEF StatusT, Status
<1> QED BY <1>2, <1>3 DEF MaxLoaded

LEMMA IngestTyped ==
  ASSUME ScreenerT, NEW s \in Symbols, NEW g \in Datum,
         NEW priced \in BOOLEAN, NEW funded \in BOOLEAN
  PROVE  Ingested(s, g, priced, funded) \in [Symbols -> Row]
BY DEF ScreenerT, Ingested, Row

LEMMA ChartTyped ==
  ASSUME ScreenerT, NEW s \in Symbols, NEW g \in Datum
  PROVE  Charted(s, g) \in [Symbols -> Row]
BY DEF ScreenerT, Charted, Row

-----------------------------------------------------------------------------
(* One lemma for each actor: an action has a step for each part whose      *)
(* variables it changes.                                                   *)

LEMMA ApplyTyped ==
  ASSUME Typed, UNCHANGED instance, apply_universe_profile_serial_with
  PROVE  Typed'
<1> USE FeedAssumption DEF workerVars
<1>1. ASSUME NEW p \in Profiles, BeginApply(p) PROVE Typed'
  <2>1. GenerationT' /\ ApplyT'
    BY <1>1 DEF Typed, BeginApply, GenerationT, ApplyT, Adoption
  <2> QED
    BY <1>1, Frame, <2>1 DEF Typed, BeginApply, profileVars
<1>2. CASE reset_initial_pass_completion
  <2>1. GenerationT' /\ ApplyT'
    BY <1>2 DEF Typed, reset_initial_pass_completion, GenerationT, ApplyT, Adoption
  <2> QED
    BY <1>2, Frame, <2>1 DEF Typed, reset_initial_pass_completion
<1>3. CASE clear_universe
  <2>1. ScreenerT' /\ ApplyT'
    BY <1>3 DEF Typed, clear_universe, ScreenerT, Row, NoRow, Datum, ApplyT, Adoption
  <2> QED
    BY <1>3, Frame, <2>1 DEF Typed, clear_universe
<1>4. CASE SetActiveProfile
  <2>1. ProfileT' /\ ApplyT'
    BY <1>4 DEF Typed, SetActiveProfile, ProfileT, ApplyT, Adoption
  <2> QED
    BY <1>4, Frame, <2>1 DEF Typed, SetActiveProfile
<1>5. CASE ResetFeedStatus
  <2>1. StatusT' /\ ApplyT'
    BY <1>5 DEF Typed, ResetFeedStatus, StatusT, Status, ApplyT, Adoption
  <2> QED
    BY <1>5, Frame, <2>1 DEF Typed, ResetFeedStatus
<1>6. CASE SpawnFails
  <2>1. StatusT' /\ ApplyT'
    BY <1>6 DEF Typed, SpawnFails, NoApply, StatusT, Status, ApplyT, Adoption
  <2> QED
    BY <1>6, Frame, <2>1 DEF Typed, SpawnFails
<1>7. CASE SpawnCoordinator
  <2> DEFINE r == [step |-> "round", round |-> 0, pending |-> active_symbols]
  <2>1. r \in Round /\ r.step = "round"
    BY DEF Typed, ProfileT, Round
  <2>2. coordinator' = [coordinator EXCEPT ![feed_generation] = r]
    BY <1>7 DEF SpawnCoordinator
  <2> HIDE DEF r
  <2>3. CoordinatorT'
    BY <2>1, <2>2 DEF Typed, CoordinatorT
  <2>4. ApplyT'
    BY <1>7 DEF Typed, SpawnCoordinator, ApplyT, Adoption
  <2> QED
    BY <1>7, <2>3, <2>4, Frame DEF Typed, SpawnCoordinator
<1>8. CASE SpawnOthers
  <2>1. SnapshotT' /\ ApplyT'
    BY <1>8 DEF Typed, SpawnOthers, NoApply, SnapshotT, Taking, ApplyT, Adoption
  <2> QED
    BY <1>8, Frame, <2>1 DEF Typed, SpawnOthers
<1> QED
  BY <1>1, <1>2, <1>3, <1>4, <1>5, <1>6, <1>7, <1>8 DEF apply_universe_profile_serial_with

LEMMA CoordinatorTyped ==
  ASSUME Typed, UNCHANGED instance, NEW g \in Generations, Coordinator(g)
  PROVE  Typed'
<1> USE FeedAssumption DEF workerVars
<1>1. instance.retries \in 0..MAX_RETRY_ROUNDS
  BY InstanceTyped DEF Typed
<1>2. ASSUME NEW symbols \in SUBSET Symbols, NEW step \in {"joining", "refreshing"},
             StartWorkers(g, symbols, step)
      PROVE  BatchT' /\ WorkerT'
  <2>1. BatchT'
    BY <1>2 DEF StartWorkers, Typed, BatchT
  <2>2. WorkerT'
    <3> DEFINE ws == [w \in Workers |-> IF w <= instance.workers
                                         THEN [NoWork EXCEPT !.step = "ready"] ELSE NoWork]
    <3>1. ws \in [Workers -> Work] /\ \A w \in Workers : WorkHasSymbol(ws[w])
      BY DEF NoWork, Work, WorkHasSymbol
    <3>2. worker' = [worker EXCEPT ![g] = ws]
      BY <1>2 DEF StartWorkers
    <3> HIDE DEF ws
    <3> QED BY <3>1, <3>2 DEF Typed, WorkerT
  <2> QED BY <2>1, <2>2
<1>3. CASE StartRound(g)
  <2>1. coordinator[g].pending \in SUBSET Symbols
    BY DEF Typed, CoordinatorT, Round
  <2>2. CoordinatorT'
    BY <1>1, <1>3 DEF Typed, StartRound, StartWorkers, RoundsOver, CoordinatorT, Round
  <2> QED
    BY <1>2, <1>3, <2>1, <2>2, Frame DEF Typed, StartRound
<1>4. CASE EndRound(g)
  <2>1. CoordinatorT'
    BY <1>4 DEF Typed, EndRound, CoordinatorT, Round, BatchT
  <2> QED
    BY <1>4, <2>1, Frame DEF Typed, EndRound
<1>5. CASE EndPass(g)
  <2>1. CoordinatorT'
    BY <1>5 DEF Typed, EndPass, CoordinatorT, Round
  <2> QED
    BY <1>5, Frame, <2>1 DEF Typed, EndPass
<1>6. CASE CheckMark(g)
  <2>1. CoordinatorT'
    BY <1>6 DEF Typed, CheckMark, CoordinatorT, Round
  <2> QED
    BY <1>6, Frame, <2>1 DEF Typed, CheckMark
<1>7. CASE StoreMark(g)
  <2>1. CoordinatorT'
    BY <1>7 DEF Typed, StoreMark, CoordinatorT, Round
  <2>2. GenerationT'
    BY <1>7 DEF Typed, StoreMark, GenerationT
  <2> QED
    BY <1>7, Frame, <2>1, <2>2 DEF Typed, StoreMark
<1>8. CASE StartFullRefresh(g)
  <2>1. active_symbols \in SUBSET Symbols
    BY DEF Typed, ProfileT
  <2>2. CoordinatorT'
    BY <1>8 DEF Typed, StartFullRefresh, StartWorkers, CoordinatorT, Round
  <2> QED
    BY <1>2, <1>8, <2>1, <2>2, Frame DEF Typed, StartFullRefresh
<1>9. CASE EndFullRefresh(g)
  <2>1. CoordinatorT'
    BY <1>9 DEF Typed, EndFullRefresh, CoordinatorT, Round
  <2> QED
    BY <1>9, Frame, <2>1 DEF Typed, EndFullRefresh
<1>10. CASE StopCoordinator(g)
  <2>1. CoordinatorT'
    BY <1>10 DEF Typed, StopCoordinator, CoordinatorT, Round, Ended
  <2>2. BatchT' /\ EnrolledT'
    BY <1>10 DEF Typed, StopCoordinator, BatchT, EnrolledT
  <2> QED
    BY <1>10, Frame, <2>1, <2>2 DEF Typed, StopCoordinator
<1> QED
  BY <1>3, <1>4, <1>5, <1>6, <1>7, <1>8, <1>9, <1>10 DEF Coordinator

LEMMA RefreshWorkerTyped ==
  ASSUME Typed, UNCHANGED instance, NEW g \in Generations, NEW w \in Workers, RefreshWorker(g, w)
  PROVE  Typed'
<1> USE FeedAssumption DEF At, Goto
<1>a. worker[g][w] \in Work /\ WorkHasSymbol(worker[g][w]) /\ g \in Datum
  BY DEF Typed, WorkerT, Datum
<1>b. ASSUME NEW step \in {"ended", "ready", "judging"},
             worker' = [worker EXCEPT ![g][w].step = step],
             step = "judging" => worker[g][w].symbol \in Symbols
      PROVE  WorkerT'
  <2> DEFINE r == [worker[g][w] EXCEPT !.step = step]
  <2>1. r \in Work /\ WorkHasSymbol(r)
    BY <1>a, <1>b DEF Work, WorkHasSymbol
  <2>2. worker' = [worker EXCEPT ![g][w] = r]
    BY <1>b DEF Typed, WorkerT
  <2> QED BY <2>1, <2>2, WorkerUpdate DEF Typed
<1>1. CASE DrainBatch(g, w)
  <2>1. WorkerT'
    BY <1>1, <1>b DEF DrainBatch
  <2>2. BatchT'
    BY <1>1 DEF Typed, DrainBatch, BatchT
  <2> QED
    BY <1>1, Frame, <2>1, <2>2 DEF Typed, DrainBatch
<1>2. CASE BatchDone(g, w)
  <2>1. WorkerT'
    BY <1>2, <1>b DEF BatchDone
  <2> QED
    BY <1>2, Frame, <2>1 DEF Typed, BatchDone
<1>3. CASE RefreshQuote(g, w)
  <2>1. PICK s \in batch[g], priced \in BOOLEAN, funded \in BOOLEAN :
          /\ batch' = [batch EXCEPT ![g] = @ \ {s}]
          /\ screener' = Ingested(s, g, priced, funded)
          /\ worker' = [worker EXCEPT ![g][w] =
               [NoWork EXCEPT !.step = "charting", !.symbol = s, !.visible = priced]]
    BY <1>3 DEF RefreshQuote
  <2>2. s \in Symbols
    BY DEF Typed, BatchT
  <2>3. ScreenerT'
    BY <1>a, <2>1, <2>2, IngestTyped DEF Typed, ScreenerT
  <2>4. WorkerT'
    <3> DEFINE r == [NoWork EXCEPT !.step = "charting", !.symbol = s, !.visible = priced]
    <3>1. r \in Work /\ WorkHasSymbol(r)
      BY <2>2 DEF NoWork, Work, WorkHasSymbol
    <3> QED BY <2>1, <3>1, WorkerUpdate DEF Typed
  <2>5. BatchT'
    BY <1>3, <2>1 DEF Typed, RefreshQuote, BatchT
  <2> QED
    BY <1>3, <2>3, <2>4, <2>5, Frame DEF Typed, RefreshQuote
<1>4. CASE RefreshChart(g, w)
  <2>1. worker[g][w].symbol \in Symbols
    BY <1>a, <1>4 DEF RefreshChart, WorkHasSymbol
  <2>2. ScreenerT'
    BY <1>a, <1>4, <2>1, ChartTyped DEF Typed, RefreshChart, ScreenerT
  <2>3. WorkerT'
    <3>1. PICK v \in BOOLEAN :
            worker' = [worker EXCEPT ![g][w].visible = FALSE,
                                     ![g][w].step = IF v THEN "queueing" ELSE "judging"]
      BY <1>a, <1>4 DEF RefreshChart, Work
    <3> DEFINE r == [worker[g][w] EXCEPT !.visible = FALSE,
                                         !.step = IF v THEN "queueing" ELSE "judging"]
    <3>2. r \in Work /\ WorkHasSymbol(r)
      BY <1>a, <2>1 DEF Work, WorkHasSymbol
    <3>3. worker' = [worker EXCEPT ![g][w] = r]
      BY <3>1 DEF Typed, WorkerT
    <3> QED BY <3>2, <3>3, WorkerUpdate DEF Typed
  <2> QED
    BY <1>4, <2>2, <2>3, Frame DEF Typed, RefreshChart
<1>5. CASE Enroll(g, w)
  <2>1. worker[g][w].symbol \in Symbols
    BY <1>a, <1>5 DEF Enroll, WorkHasSymbol
  <2>2. CASE worker[g][w].symbol \in enrolled[g]
    <3>1. WorkerT'
      BY <1>5, <1>b, <2>1, <2>2 DEF Enroll
    <3>2. UNCHANGED <<enrolled, loaded, sent>>
      BY <1>5, <2>2 DEF Enroll
    <3> QED BY <1>5, <3>1, <3>2, Frame DEF Typed, Enroll
  <2>3. CASE worker[g][w].symbol \notin enrolled[g]
    <3>1. /\ enrolled' = [enrolled EXCEPT ![g] = @ \cup {worker[g][w].symbol}]
          /\ loaded' = [loaded EXCEPT ![g] = @ + 1]
          /\ sent' = sent
      BY <1>5, <2>3 DEF Enroll
    <3>2. EnrolledT'
      BY <2>1, <3>1 DEF Typed, EnrolledT
    <3> DEFINE r == [worker[g][w] EXCEPT !.step = "announcing", !.n = loaded'[g]]
    <3>3. loaded'[g] \in Nat
      BY <3>2 DEF EnrolledT
    <3>4. r \in Work /\ WorkHasSymbol(r)
      BY <1>a, <2>1, <3>3 DEF Work, WorkHasSymbol
    <3>5. worker' = [worker EXCEPT ![g][w] = r]
      BY <1>5, <2>3 DEF Enroll, Typed, WorkerT
    <3>6. WorkerT'
      BY <3>4, <3>5, WorkerUpdate DEF Typed
    <3> QED BY <1>5, <3>2, <3>6, Frame DEF Typed, Enroll
  <2> QED BY <2>2, <2>3
<1>6. CASE Announce(g, w)
  <2>1. worker[g][w].symbol \in Symbols /\ worker[g][w].n \in Nat
    BY <1>a, <1>6 DEF Announce, WorkHasSymbol, Work
  <2>2. StatusT'
    BY <1>6, <2>1, CountTyped DEF Typed, Announce, StatusT, Status
  <2>3. EnrolledT'
    BY <1>6, <2>1 DEF Typed, Announce, EnrolledT
  <2>4. WorkerT'
    <3> DEFINE r == [worker[g][w] EXCEPT !.step = "judging", !.n = 0]
    <3>1. r \in Work /\ WorkHasSymbol(r)
      BY <1>a, <2>1 DEF Work, WorkHasSymbol
    <3>2. worker' = [worker EXCEPT ![g][w] = r]
      BY <1>6 DEF Announce, Typed, WorkerT
    <3> QED BY <3>1, <3>2, WorkerUpdate DEF Typed
  <2> QED
    BY <1>6, <2>2, <2>3, <2>4, Frame DEF Typed, Announce
<1>7. CASE Judge(g, w)
  <2>1. worker[g][w].symbol \in Symbols
    BY <1>a, <1>7 DEF Judge, WorkHasSymbol
  <2>2. BatchT'
    BY <1>7, <2>1 DEF Typed, Judge, BatchT
  <2>3. WorkerT'
    <3> DEFINE r == [NoWork EXCEPT !.step = "ready"]
    <3>1. r \in Work /\ WorkHasSymbol(r)
      BY DEF NoWork, Work, WorkHasSymbol
    <3> QED BY <1>7, <3>1, WorkerUpdate DEF Typed, Judge
  <2> QED
    BY <1>7, <2>2, <2>3, Frame DEF Typed, Judge
<1>8. CASE StopWorker(g, w)
  <2>1. NoWork \in Work /\ WorkHasSymbol(NoWork)
    BY DEF NoWork, Work, WorkHasSymbol
  <2>2. WorkerT'
    BY <1>8, <2>1, WorkerUpdate DEF Typed, StopWorker
  <2> QED
    BY <1>8, <2>2, Frame DEF Typed, StopWorker
<1> QED
  BY <1>1, <1>2, <1>3, <1>4, <1>5, <1>6, <1>7, <1>8 DEF RefreshWorker

LEMMA SnapshotTyped ==
  ASSUME Typed, UNCHANGED instance, NEW g \in Generations, SnapshotWorker(g)
  PROVE  Typed'
<1> USE DEF workerVars
<1>a. PricedRows \subseteq Datum
  BY DEF Typed, ScreenerT, Row, PricedRows
<1>1. CASE CheckSnapshot(g)
  <2>1. SnapshotT'
    BY <1>1 DEF Typed, CheckSnapshot, SnapshotT, Taking
  <2> QED
    BY <1>1, Frame, <2>1 DEF Typed, CheckSnapshot
<1>2. CASE ReadRows(g)
  <2>1. SnapshotT'
    BY <1>a, <1>2 DEF Typed, ReadRows, SnapshotT, Taking
  <2> QED
    BY <1>2, Frame, <2>1 DEF Typed, ReadRows
<1>3. CASE InsertSnapshots(g)
  <2>1. SnapshotT' /\ HistoryT'
    BY <1>3 DEF Typed, InsertSnapshots, SnapshotT, Taking, HistoryT
  <2> QED
    BY <1>3, Frame, <2>1 DEF Typed, InsertSnapshots
<1>4. CASE StopSnapshots(g)
  <2>1. SnapshotT'
    BY <1>4 DEF Typed, StopSnapshots, SnapshotT, Taking
  <2> QED
    BY <1>4, Frame, <2>1 DEF Typed, StopSnapshots
<1> QED
  BY <1>1, <1>2, <1>3, <1>4 DEF SnapshotWorker

LEMMA LoadTyped ==
  ASSUME Typed, UNCHANGED instance, BeginLoad \/ LoadQuote
  PROVE  Typed'
<1> USE DEF workerVars
<1>1. CASE BeginLoad
  <2>1. LoaderT'
    BY <1>1, InstanceTyped DEF Typed, BeginLoad, LoaderT, Load, GenerationT
  <2> QED
    BY <1>1, Frame, <2>1 DEF Typed, BeginLoad
<1>2. CASE LoadQuote
  <2>1. loader.symbol \in Symbols /\ loader.generation \in Datum
    BY <1>2 DEF Typed, LoadQuote, LoaderT, Load, Datum, Generations
  <2>2. ScreenerT'
    BY <1>2, <2>1, IngestTyped DEF Typed, LoadQuote, ScreenerT
  <2>3. LoaderT'
    BY <1>2, FeedAssumption DEF LoadQuote, NoLoad, LoaderT, Load
  <2> QED
    BY <1>2, <2>2, <2>3, Frame DEF Typed, LoadQuote
<1> QED
  BY <1>1, <1>2

LEMMA NextTyped == Typed /\ [Next]_vars => Typed'
<1> SUFFICES ASSUME Typed, [Next]_vars PROVE Typed'
  OBVIOUS
<1>1. CASE Next
  BY <1>1, ApplyTyped, CoordinatorTyped, RefreshWorkerTyped, SnapshotTyped, LoadTyped DEF Next
<1>2. CASE UNCHANGED vars
  BY <1>2, Frame DEF vars, workerVars, Typed
<1> QED BY <1>1, <1>2

LEMMA AlwaysTyped == Spec => []Typed
BY InitTyped, NextTyped, PTL DEF Spec

(* Types of the adoption, the coordinators, the workers and the loads, for *)
(* any profiles, workers and generations.                                  *)
THEOREM TypeCorrect == Spec => []TypeOK
BY AlwaysTyped, TypedParts, PTL

-----------------------------------------------------------------------------
(* Nothing of an older universe is shown.  Inductive with the types: every *)
(* write is of the active generation, and the bump leads to the clearing.  *)

LEMMA NoStaleStep == Typed /\ NoStaleData /\ [Next]_vars => NoStaleData'
<1> SUFFICES ASSUME Typed, NoStaleData, [Next]_vars PROVE NoStaleData'
  OBVIOUS
<1>1. ASSUME NEW s \in Symbols, NEW priced \in BOOLEAN, NEW funded \in BOOLEAN,
             screener' = Ingested(s, feed_generation, priced, funded),
             UNCHANGED <<apply, feed_generation>>
      PROVE  NoStaleData'
  BY <1>1 DEF Typed, ScreenerT, Row, Ingested, NoStaleData
<1>2. ASSUME NEW s \in Symbols, screener' = Charted(s, feed_generation),
             UNCHANGED <<apply, feed_generation>>
      PROVE  NoStaleData'
  BY <1>2 DEF Typed, ScreenerT, Row, Charted, NoStaleData
<1>3. ASSUME UNCHANGED <<screener, apply, feed_generation>> PROVE NoStaleData'
  BY <1>3 DEF NoStaleData
<1>4. CASE apply_universe_profile_serial_with
  <2>1. ASSUME NEW p \in Profiles, BeginApply(p) PROVE NoStaleData'
    BY <2>1 DEF BeginApply, NoStaleData
  <2>2. CASE clear_universe
    BY <2>2 DEF clear_universe, NoRow, NoStaleData
  <2>3. CASE reset_initial_pass_completion
    BY <2>3 DEF Typed, ApplyT, Adoption, reset_initial_pass_completion, NoStaleData
  <2>4. CASE SetActiveProfile \/ ResetFeedStatus \/ SpawnFails \/ SpawnCoordinator \/ SpawnOthers
    BY <2>4 DEF SetActiveProfile, ResetFeedStatus, SpawnFails, SpawnCoordinator, SpawnOthers,
                NoApply, NoStaleData
  <2> QED
    BY <1>4, <2>1, <2>2, <2>3, <2>4 DEF apply_universe_profile_serial_with
<1>5. ASSUME NEW g \in Generations, Coordinator(g) PROVE NoStaleData'
  BY <1>3, <1>5 DEF Coordinator, StartRound, EndRound, EndPass, CheckMark, StoreMark,
                    StartFullRefresh, EndFullRefresh, StopCoordinator
<1>6. ASSUME NEW g \in Generations, NEW w \in Workers, RefreshWorker(g, w) PROVE NoStaleData'
  <2>1. CASE RefreshQuote(g, w)
    BY <1>1, <2>1 DEF RefreshQuote, generation_is_current, Typed, BatchT
  <2>2. CASE RefreshChart(g, w)
    BY <1>2, <1>3, <2>2 DEF RefreshChart, At, generation_is_current, Typed, WorkerT, WorkHasSymbol
  <2>3. CASE ~RefreshQuote(g, w) /\ ~RefreshChart(g, w)
    BY <1>3, <1>6, <2>3 DEF RefreshWorker, DrainBatch, BatchDone, Enroll, Announce, Judge,
                            StopWorker
  <2> QED BY <2>1, <2>2, <2>3
<1>7. ASSUME NEW g \in Generations, SnapshotWorker(g) PROVE NoStaleData'
  BY <1>3, <1>7 DEF SnapshotWorker, CheckSnapshot, ReadRows, InsertSnapshots, StopSnapshots
<1>8. CASE BeginLoad
  BY <1>3, <1>8 DEF BeginLoad
<1>9. CASE LoadQuote
  BY <1>1, <1>3, <1>9 DEF LoadQuote, generation_is_current, Typed, LoaderT
<1>10. CASE UNCHANGED vars
  BY <1>3, <1>10 DEF vars
<1> QED BY <1>4, <1>5, <1>6, <1>7, <1>8, <1>9, <1>10 DEF Next

(* Once the universe is cleared, the screener holds data of the active     *)
(* generation only, whatever workers of earlier profiles are still alive.  *)
THEOREM NoStale == Spec => []NoStaleData
<1>1. Init => NoStaleData
  BY DEF Init, NoStaleData, NoRow
<1> QED BY <1>1, AlwaysTyped, NoStaleStep, PTL DEF Spec

-----------------------------------------------------------------------------
(* What a snapshot worker is about to insert.  A worker of the active      *)
(* generation exists only between two adoptions, so that what it reads is  *)
(* of that generation.                                                     *)
SnapshotsAreOfTheProfile ==
  /\ \A g \in Generations : g > feed_generation => snapshotter[g].step = "none"
  /\ \A g \in Generations :
       apply.step # "idle" /\ generation_is_current(g) => snapshotter[g].step = "none"
  /\ \A g \in Generations :
       snapshotter[g].step = "inserting" /\ generation_is_current(g) =>
         snapshotter[g].rows = {g}

LEMMA SnapshotStep ==
  Typed /\ NoStaleData /\ SnapshotsAreOfTheProfile /\ [Next]_vars
    => SnapshotsAreOfTheProfile'
<1> SUFFICES ASSUME Typed, NoStaleData, SnapshotsAreOfTheProfile, [Next]_vars
             PROVE  SnapshotsAreOfTheProfile'
  OBVIOUS
<1> USE FeedAssumption DEF SnapshotsAreOfTheProfile, generation_is_current
<1>1. ASSUME UNCHANGED <<snapshotter, feed_generation>>, apply' = apply \/ apply.step # "idle"
      PROVE  SnapshotsAreOfTheProfile'
  BY <1>1
<1>2. CASE apply_universe_profile_serial_with
  <2>1. ASSUME NEW p \in Profiles, BeginApply(p) PROVE SnapshotsAreOfTheProfile'
    <3>1. feed_generation' = feed_generation + 1 /\ snapshotter' = snapshotter
      BY <2>1 DEF BeginApply
    <3>2. feed_generation \in Nat
      BY DEF Typed, GenerationT
    <3>3. \A g \in Generations : g >= feed_generation' => snapshotter'[g].step = "none"
      BY <3>1, <3>2 DEF Generations
    <3> QED BY <3>1, <3>2, <3>3 DEF Generations
  <2>2. CASE SpawnOthers
    <3>1. /\ apply.step # "idle" /\ apply'.step = "idle"
          /\ UNCHANGED feed_generation
          /\ \/ UNCHANGED snapshotter
             \/ snapshotter' = [snapshotter EXCEPT ![feed_generation].step = "waiting"]
      BY <2>2 DEF SpawnOthers, NoApply
    <3>2. \A g \in Generations : g # feed_generation => snapshotter'[g] = snapshotter[g]
      BY <3>1 DEF Typed, SnapshotT
    <3>3. \A g \in Generations : g = feed_generation => snapshotter'[g].step # "inserting"
      BY <3>1 DEF Typed, SnapshotT, Taking
    <3> QED BY <3>1, <3>2, <3>3 DEF Typed, GenerationT, Generations
  <2>3. CASE reset_initial_pass_completion \/ clear_universe \/ SetActiveProfile
             \/ ResetFeedStatus \/ SpawnFails \/ SpawnCoordinator
    BY <1>1, <2>3 DEF reset_initial_pass_completion, clear_universe, SetActiveProfile,
                      ResetFeedStatus, SpawnFails, SpawnCoordinator
  <2> QED
    BY <1>2, <2>1, <2>2, <2>3 DEF apply_universe_profile_serial_with
<1>3. ASSUME NEW g \in Generations, Coordinator(g) PROVE SnapshotsAreOfTheProfile'
  BY <1>1, <1>3 DEF Coordinator, StartRound, EndRound, EndPass, CheckMark, StoreMark,
                    StartFullRefresh, EndFullRefresh, StopCoordinator
<1>4. ASSUME NEW g \in Generations, NEW w \in Workers, RefreshWorker(g, w)
      PROVE  SnapshotsAreOfTheProfile'
  BY <1>1, <1>4 DEF RefreshWorker, DrainBatch, BatchDone, RefreshQuote, RefreshChart, Enroll,
                    Announce, Judge, StopWorker
<1>5. ASSUME NEW g \in Generations, SnapshotWorker(g) PROVE SnapshotsAreOfTheProfile'
  <2>1. UNCHANGED <<apply, feed_generation>> /\ snapshotter[g].step # "none"
    BY <1>5 DEF SnapshotWorker, CheckSnapshot, ReadRows, InsertSnapshots, StopSnapshots
  <2>2. \A h \in Generations : h # g => snapshotter'[h] = snapshotter[h]
    BY <1>5 DEF SnapshotWorker, CheckSnapshot, ReadRows, InsertSnapshots, StopSnapshots,
                Typed, SnapshotT
  <2>3. snapshotter'[g].step = "inserting" /\ g = feed_generation
          => snapshotter'[g].rows = {g}
    <3>1. CASE ReadRows(g)
      <4>1. snapshotter'[g] =
              [step |-> IF PricedRows = {} THEN "waiting" ELSE "inserting", rows |-> PricedRows]
        BY <3>1 DEF ReadRows, Typed, SnapshotT
      <4>2. ASSUME g = feed_generation PROVE PricedRows \subseteq {g}
        <5>1. apply.step = "idle"
          BY <2>1, <4>2
        <5> QED BY <4>2, <5>1 DEF NoStaleData, PricedRows
      <4> QED BY <4>1, <4>2
    <3>2. CASE ~ReadRows(g)
      BY <1>5, <3>2 DEF SnapshotWorker, CheckSnapshot, InsertSnapshots, StopSnapshots,
                        Typed, SnapshotT, Taking
    <3> QED BY <3>1, <3>2
  <2> QED BY <2>1, <2>2, <2>3
<1>6. CASE BeginLoad \/ LoadQuote
  BY <1>1, <1>6 DEF BeginLoad, LoadQuote
<1>7. CASE UNCHANGED vars
  BY <1>1, <1>7 DEF vars
<1> QED BY <1>2, <1>3, <1>4, <1>5, <1>6, <1>7 DEF Next

(* Rows enter the history between two adoptions only, and they are rows of *)
(* the profile that is active then.                                        *)
THEOREM HistoryOfTheProfile == Spec => HistoryIsOfTheProfile
<1>1. Init => SnapshotsAreOfTheProfile
  BY DEF Init, SnapshotsAreOfTheProfile
<1>2. ASSUME Typed, SnapshotsAreOfTheProfile, Next, history' # history
      PROVE  apply.step = "idle" /\ history' \ history = {feed_generation}
  <2>1. PICK g \in Generations : InsertSnapshots(g)
    <3>1. ~apply_universe_profile_serial_with
      BY <1>2 DEF apply_universe_profile_serial_with, BeginApply, reset_initial_pass_completion,
           clear_universe, SetActiveProfile, ResetFeedStatus, SpawnFails, SpawnCoordinator,
           SpawnOthers
    <3>2. ASSUME NEW g \in Generations PROVE ~Coordinator(g)
      BY <1>2 DEF Coordinator, StartRound, EndRound, EndPass, CheckMark, StoreMark,
                  StartFullRefresh, EndFullRefresh, StopCoordinator
    <3>3. ASSUME NEW g \in Generations, NEW w \in Workers PROVE ~RefreshWorker(g, w)
      BY <1>2 DEF RefreshWorker, DrainBatch, BatchDone, RefreshQuote, RefreshChart, Enroll,
                  Announce, Judge, StopWorker
    <3>4. ~BeginLoad /\ ~LoadQuote
      BY <1>2 DEF BeginLoad, LoadQuote
    <3>5. PICK g \in Generations : SnapshotWorker(g)
      BY <1>2, <3>1, <3>2, <3>3, <3>4 DEF Next
    <3> QED
      BY <1>2, <3>5 DEF SnapshotWorker, CheckSnapshot, ReadRows, StopSnapshots
  <2>2. apply.step = "idle" /\ feed_generation = g /\ history' = history \cup {g}
    BY <1>2, <2>1 DEF InsertSnapshots, with_current_profile_generation, generation_is_current,
                      SnapshotsAreOfTheProfile
  <2> QED BY <1>2, <2>2
<1>3. Typed /\ SnapshotsAreOfTheProfile /\ [Next]_vars =>
        [history' # history => /\ apply.step = "idle"
                               /\ history' \ history = {feed_generation}]_vars
  BY <1>2
<1> QED
  BY <1>1, <1>3, AlwaysTyped, NoStale, SnapshotStep, PTL DEF Spec, HistoryIsOfTheProfile

-----------------------------------------------------------------------------
(* The status between two adoptions.  The name is set before the status,   *)
(* and a coordinator of the active generation does not end.                *)
StatusIsPrepared ==
  /\ feed_generation = 0 => ~feed_status.running
  /\ apply.step # "idle" => feed_generation \in Generations
  /\ apply.step = "named" => /\ active_profile = apply.profile
                             /\ active_symbols = Members[apply.profile]
  /\ apply.step = "spawned" => coordinator[feed_generation].step \notin {"none", "ended"}

StatusInv == StatusIsPrepared /\ StatusIsOfTheProfile

LEMMA StatusStep == Typed /\ StatusInv /\ [Next]_vars => StatusInv'
<1> SUFFICES ASSUME Typed, StatusInv, [Next]_vars PROVE StatusInv'
  OBVIOUS
<1> USE FeedAssumption DEF StatusInv, StatusIsPrepared, StatusIsOfTheProfile
<1>1. ASSUME UNCHANGED <<profileVars, apply, feed_generation, coordinator>>,
             feed_status'.running = feed_status.running,
             feed_status'.profile_name = feed_status.profile_name
      PROVE  StatusInv'
  BY <1>1 DEF profileVars
<1>2. CASE apply_universe_profile_serial_with
  <2>1. ASSUME NEW p \in Profiles, BeginApply(p) PROVE StatusInv'
    BY <2>1 DEF BeginApply, Typed, GenerationT, Generations
  <2>2. CASE reset_initial_pass_completion
    BY <2>2 DEF reset_initial_pass_completion, Typed, ApplyT, Adoption
  <2>3. CASE clear_universe
    BY <2>3 DEF clear_universe, Typed, ApplyT, Adoption
  <2>4. CASE SetActiveProfile
    BY <2>4 DEF SetActiveProfile, Typed, ApplyT, Adoption
  <2>5. CASE ResetFeedStatus
    BY <2>5 DEF ResetFeedStatus, profileVars, Typed, ApplyT, Adoption, Generations
  <2>6. CASE SpawnFails
    BY <2>6 DEF SpawnFails, NoApply, profileVars, Typed, StatusT, Status
  <2>7. CASE SpawnCoordinator
    <3>1. coordinator'[feed_generation].step = "round" /\ feed_generation' = feed_generation
      BY <2>7 DEF SpawnCoordinator, Typed, CoordinatorT
    <3> QED
      BY <2>7, <3>1 DEF SpawnCoordinator, profileVars, Typed, ApplyT, Adoption
  <2>8. CASE SpawnOthers
    BY <2>8 DEF SpawnOthers, NoApply, profileVars
  <2> QED
    BY <1>2, <2>1, <2>2, <2>3, <2>4, <2>5, <2>6, <2>7, <2>8
       DEF apply_universe_profile_serial_with
<1>3. ASSUME NEW g \in Generations, Coordinator(g) PROVE StatusInv'
  <2>1. UNCHANGED <<profileVars, apply, feed_generation, feed_status>>
    BY <1>3 DEF Coordinator, StartRound, EndRound, EndPass, CheckMark, StoreMark,
                StartFullRefresh, EndFullRefresh, StopCoordinator
  <2>2. \A h \in Generations : h # g => coordinator'[h] = coordinator[h]
    BY <1>3 DEF Coordinator, StartRound, StartWorkers, EndRound, EndPass, CheckMark, StoreMark,
                StartFullRefresh, EndFullRefresh, StopCoordinator, Typed, CoordinatorT
  <2>3. g = feed_generation => coordinator'[g].step \notin {"none", "ended"}
    BY <1>3 DEF Coordinator, StartRound, StartWorkers, EndRound, EndPass, CheckMark, StoreMark,
                StartFullRefresh, EndFullRefresh, StopCoordinator, generation_is_current,
                Typed, CoordinatorT, Round
  <2>4. feed_generation \in 0..MAX_GENERATION
    BY DEF Typed, GenerationT
  <2>5. CASE feed_generation \in Generations
    BY <2>1, <2>2, <2>3, <2>5 DEF profileVars
  <2>6. CASE feed_generation = 0
    BY <2>1, <2>6 DEF profileVars, Generations
  <2> QED BY <2>4, <2>5, <2>6 DEF Generations
<1>4. ASSUME NEW g \in Generations, NEW w \in Workers, RefreshWorker(g, w) PROVE StatusInv'
  <2>1. CASE Announce(g, w)
    BY <1>1, <2>1 DEF Announce, Typed, StatusT, Status
  <2>2. CASE ~Announce(g, w)
    BY <1>1, <1>4, <2>2 DEF RefreshWorker, DrainBatch, BatchDone, RefreshQuote, RefreshChart,
                            Enroll, Judge, StopWorker
  <2> QED BY <2>1, <2>2
<1>5. ASSUME NEW g \in Generations, SnapshotWorker(g) PROVE StatusInv'
  BY <1>1, <1>5 DEF SnapshotWorker, CheckSnapshot, ReadRows, InsertSnapshots, StopSnapshots
<1>6. CASE BeginLoad \/ LoadQuote
  BY <1>1, <1>6 DEF BeginLoad, LoadQuote
<1>7. CASE UNCHANGED vars
  BY <1>1, <1>7 DEF vars
<1> QED BY <1>2, <1>3, <1>4, <1>5, <1>6, <1>7 DEF Next

(* Between two adoptions the status names the active profile, and a feed   *)
(* reported as running has a coordinator of the active generation.         *)
THEOREM StatusOfTheProfile == Spec => []StatusIsOfTheProfile
<1>1. Init => StatusInv
  BY DEF Init, StatusInv, StatusIsPrepared, StatusIsOfTheProfile, NoApply
<1>2. StatusInv => StatusIsOfTheProfile
  BY DEF StatusInv
<1> QED BY <1>1, <1>2, AlwaysTyped, StatusStep, PTL DEF Spec

-----------------------------------------------------------------------------
(* Generations to come.  Until its coordinator is spawned nobody works for *)
(* a generation, and nothing has been done for it.                         *)
Preparing == apply.step \in {"bumped", "reset", "cleared", "named", "spawning"}

Untouched(g) ==
  /\ coordinator[g].step = "none" /\ coordinator[g].pending = {}
  /\ batch[g] = {} /\ failed[g] = {}
  /\ \A w \in Workers : worker[g][w] = NoWork
  /\ enrolled[g] = {} /\ loaded[g] = 0 /\ \A s \in Symbols : sent[g][s] = 0

ToCome(g) == g > feed_generation \/ (g = feed_generation /\ Preparing)
NothingYet == \A g \in Generations : ToCome(g) => Untouched(g)

(* A step of somebody who works for g leaves the other generations alone.  *)
Kept(h) ==
  /\ coordinator'[h] = coordinator[h] /\ batch'[h] = batch[h] /\ failed'[h] = failed[h]
  /\ worker'[h] = worker[h]
  /\ enrolled'[h] = enrolled[h] /\ loaded'[h] = loaded[h] /\ sent'[h] = sent[h]

LEMMA CoordinatorKeepsOthers ==
  ASSUME Typed, NEW g \in Generations, Coordinator(g)
  PROVE  /\ coordinator[g].step # "none" /\ \A h \in Generations \ {g} : Kept(h)
         /\ UNCHANGED <<feed_generation, apply, active_symbols, screener, feed_status>>
<1>1. /\ coordinator[g].step # "none"
      /\ UNCHANGED <<feed_generation, apply, active_symbols, screener, feed_status>>
  BY DEF Coordinator, StartRound, EndRound, EndPass, CheckMark, StoreMark, StartFullRefresh,
         EndFullRefresh, StopCoordinator, profileVars
<1> USE DEF Kept, Typed, CoordinatorT, WorkerT, BatchT, EnrolledT
<1>2. CASE StartRound(g) \/ StartFullRefresh(g)
  BY <1>1, <1>2 DEF StartRound, StartFullRefresh, StartWorkers
<1>3. CASE EndRound(g) \/ EndPass(g) \/ CheckMark(g) \/ StoreMark(g) \/ EndFullRefresh(g)
  BY <1>1, <1>3 DEF EndRound, EndPass, CheckMark, StoreMark, EndFullRefresh, workerVars
<1>4. CASE StopCoordinator(g)
  BY <1>1, <1>4 DEF StopCoordinator
<1> QED BY <1>2, <1>3, <1>4 DEF Coordinator

LEMMA WorkerKeepsOthers ==
  ASSUME Typed, NEW g \in Generations, NEW w \in Workers, RefreshWorker(g, w)
  PROVE  /\ worker[g][w].step # "ended" /\ \A h \in Generations \ {g} : Kept(h)
         /\ UNCHANGED <<feed_generation, apply, active_symbols, coordinator>>
<1> USE DEF Kept, Typed, CoordinatorT, WorkerT, BatchT, EnrolledT, At, Goto, profileVars
<1>1. CASE DrainBatch(g, w) \/ BatchDone(g, w)
  BY <1>1 DEF DrainBatch, BatchDone
<1>2. CASE RefreshQuote(g, w)
  BY <1>2 DEF RefreshQuote
<1>3. CASE RefreshChart(g, w)
  BY <1>3 DEF RefreshChart
<1>4. CASE Enroll(g, w)
  BY <1>4 DEF Enroll
<1>5. CASE Announce(g, w)
  BY <1>5 DEF Announce
<1>6. CASE Judge(g, w) \/ StopWorker(g, w)
  BY <1>6 DEF Judge, StopWorker
<1> QED BY <1>1, <1>2, <1>3, <1>4, <1>5, <1>6 DEF RefreshWorker

(* Steps of the adoption, up to the spawning of the coordinator, of the    *)
(* snapshot workers and of the loads.                                      *)
LEMMA ApplyKeepsAll ==
  ASSUME apply_universe_profile_serial_with, ~SpawnCoordinator
  PROVE  UNCHANGED <<coordinator, workerVars>>
BY DEF apply_universe_profile_serial_with, BeginApply, reset_initial_pass_completion,
       clear_universe, SetActiveProfile, ResetFeedStatus, SpawnFails, SpawnOthers

LEMMA OthersKeepAll ==
  ASSUME \/ \E g \in Generations : SnapshotWorker(g)
         \/ BeginLoad \/ LoadQuote \/ UNCHANGED vars
  PROVE  UNCHANGED <<coordinator, workerVars, feed_generation, apply, active_symbols,
                     initial_pass_completed_generation, feed_status>>
BY DEF SnapshotWorker, CheckSnapshot, ReadRows, InsertSnapshots, StopSnapshots, BeginLoad,
       LoadQuote, vars, profileVars

LEMMA NothingYetStep ==
  Typed /\ StatusInv /\ NothingYet /\ [Next]_vars => NothingYet'
<1> SUFFICES ASSUME Typed, StatusInv, NothingYet, [Next]_vars PROVE NothingYet'
  OBVIOUS
<1> USE FeedAssumption
<1>1. ASSUME \A h \in Generations : ToCome(h)' => ToCome(h) /\ Kept(h)
      PROVE  NothingYet'
  BY <1>1 DEF NothingYet, Untouched, Kept
<1>2. ASSUME UNCHANGED <<coordinator, workerVars>>, \A h \in Generations : ToCome(h)' => ToCome(h)
      PROVE  NothingYet'
  BY <1>1, <1>2 DEF Kept, workerVars
<1>3. /\ feed_generation \in 0..MAX_GENERATION
      /\ apply.step # "idle" => feed_generation \in Generations
  BY DEF Typed, GenerationT, StatusInv, StatusIsPrepared
<1>4. CASE apply_universe_profile_serial_with
  <2>1. CASE SpawnCoordinator
    <3>1. feed_generation \in Generations
      BY <1>3, <2>1 DEF SpawnCoordinator
    <3>2. \A h \in Generations : ToCome(h)' => ToCome(h) /\ h # feed_generation
      BY <1>3, <2>1, <3>1 DEF SpawnCoordinator, ToCome, Preparing, Typed, ApplyT, Adoption,
                              Generations
    <3>3. \A h \in Generations \ {feed_generation} : Kept(h)
      BY <2>1, <3>1 DEF SpawnCoordinator, Kept, Typed, CoordinatorT, workerVars
    <3> QED BY <1>1, <3>2, <3>3
  <2>2. CASE ~SpawnCoordinator
    <3>1. UNCHANGED <<coordinator, workerVars>>
      BY <1>4, <2>2, ApplyKeepsAll
    <3>2. ASSUME NEW p \in Profiles, BeginApply(p)
          PROVE  \A h \in Generations : ToCome(h)' => ToCome(h)
      BY <1>3, <3>2 DEF BeginApply, ToCome, Generations
    <3>3. ASSUME \/ reset_initial_pass_completion \/ clear_universe \/ SetActiveProfile
                 \/ ResetFeedStatus \/ SpawnFails \/ SpawnOthers
          PROVE  \A h \in Generations : ToCome(h)' => ToCome(h)
      BY <3>3 DEF reset_initial_pass_completion, clear_universe, SetActiveProfile,
                  ResetFeedStatus, SpawnFails, SpawnOthers, ToCome, Preparing, NoApply, Typed,
                  ApplyT, Adoption
    <3> QED BY <1>2, <1>4, <2>2, <3>1, <3>2, <3>3 DEF apply_universe_profile_serial_with
  <2> QED BY <2>1, <2>2
<1>5. ASSUME NEW g \in Generations, Coordinator(g) PROVE NothingYet'
  <2>1. /\ ~ToCome(g) /\ \A h \in Generations \ {g} : Kept(h)
        /\ UNCHANGED <<feed_generation, apply>>
    BY <1>5, CoordinatorKeepsOthers DEF NothingYet, Untouched
  <2> QED BY <1>1, <2>1 DEF ToCome, Preparing
<1>6. ASSUME NEW g \in Generations, NEW w \in Workers, RefreshWorker(g, w) PROVE NothingYet'
  <2>1. /\ ~ToCome(g) /\ \A h \in Generations \ {g} : Kept(h)
        /\ UNCHANGED <<feed_generation, apply>>
    BY <1>6, WorkerKeepsOthers DEF NothingYet, Untouched, NoWork
  <2> QED BY <1>1, <2>1 DEF ToCome, Preparing
<1>7. CASE (\E g \in Generations : SnapshotWorker(g)) \/ BeginLoad \/ LoadQuote \/ UNCHANGED vars
  BY <1>2, <1>7, OthersKeepAll DEF ToCome, Preparing
<1> QED BY <1>4, <1>5, <1>6, <1>7 DEF Next

-----------------------------------------------------------------------------
(* The completion mark.  A pass of the active generation leaves no symbol  *)
(* out: it is complete, or pending, or in the batch, failed, or in the     *)
(* hands of a worker, and a worker ends with nothing left in the batch.    *)
Holds(g, w, s) ==
  /\ worker[g][w].step \in {"charting", "queueing", "announcing", "judging"}
  /\ worker[g][w].symbol = s

Inside(g) ==
  /\ coordinator[g].pending \subseteq active_symbols
  /\ batch[g] \subseteq active_symbols /\ failed[g] \subseteq active_symbols
  /\ \A w \in Workers, s \in Symbols : Holds(g, w, s) => s \in active_symbols

PassCovered(g) ==
  coordinator[g].step \in {"round", "marking", "storing", "resting", "refreshing"} =>
    \A s \in active_symbols :
      symbol_state_enrichment_complete(s) \/ s \in coordinator[g].pending

RoundCovered(g) ==
  coordinator[g].step = "joining" =>
    /\ \A s \in active_symbols :
         \/ symbol_state_enrichment_complete(s)
         \/ s \in batch[g] \cup failed[g]
         \/ \E w \in Workers : Holds(g, w, s)
    /\ \A w \in Workers :
         w <= instance.workers /\ worker[g][w].step = "ended" => batch[g] = {}

Covers(g) == coordinator[g].step # "ended" /\ Inside(g) /\ PassCovered(g) /\ RoundCovered(g)
CoverInv == feed_generation \in Generations => Covers(feed_generation)

MarkInv == initial_pass_completed_generation \in Generations =>
             coordinator[initial_pass_completed_generation].step
               \in {"resting", "refreshing", "ended"}

LEMMA MarkMeans == Typed /\ CoverInv /\ MarkInv => MarkedPassIsComplete
<1> SUFFICES ASSUME Typed, CoverInv, MarkInv,
                    initial_pass_completed_generation = feed_generation
             PROVE  LET c == coordinator[feed_generation] IN
                    /\ c.step \in {"resting", "refreshing"}
                    /\ \A s \in active_symbols :
                         symbol_state_enrichment_complete(s) \/ s \in c.pending
  BY DEF MarkedPassIsComplete
<1>1. feed_generation \in Generations
  BY DEF Typed, GenerationT, NotYet
<1> QED BY <1>1 DEF MarkInv, CoverInv, Covers, PassCovered

LEMMA UntouchedCovers == ASSUME NEW g \in Generations, Untouched(g) PROVE Covers(g)
BY DEF Untouched, Covers, Inside, PassCovered, RoundCovered, Holds, NoWork

(* What is complete stays complete until the universe is cleared.          *)
Better == \A s \in Symbols :
            symbol_state_enrichment_complete(s) => symbol_state_enrichment_complete(s)'

LEMMA IngestBetters ==
  ASSUME ScreenerT, NEW s \in Symbols, NEW g \in 0..MAX_GENERATION,
         NEW priced \in BOOLEAN, NEW funded \in BOOLEAN,
         screener' = Ingested(s, g, priced, funded) \/ screener' = Charted(s, g)
  PROVE  Better
<1>1. CASE screener' = Ingested(s, g, priced, funded)
  BY <1>1 DEF ScreenerT, Row, Ingested, Absent, Better, symbol_state_enrichment_complete
<1>2. CASE screener' = Charted(s, g)
  BY <1>2 DEF ScreenerT, Row, Charted, Absent, Better, symbol_state_enrichment_complete
<1> QED BY <1>1, <1>2

LEMMA KeptBetters == ASSUME UNCHANGED screener PROVE Better
BY DEF Better, symbol_state_enrichment_complete

LEMMA CoverFrame ==
  ASSUME Typed, CoverInv, Better, UNCHANGED <<instance, feed_generation, active_symbols>>,
         feed_generation \in Generations => Kept(feed_generation)
  PROVE  CoverInv'
<1> SUFFICES ASSUME feed_generation \in Generations PROVE Covers(feed_generation)'
  BY DEF CoverInv
<1> DEFINE g == feed_generation
<1>1. Covers(g) /\ active_symbols \subseteq Symbols
  BY DEF CoverInv, Typed, ProfileT
<1>2. /\ coordinator'[g] = coordinator[g] /\ batch'[g] = batch[g] /\ failed'[g] = failed[g]
      /\ worker'[g] = worker[g]
  BY DEF Kept
<1>3. Inside(g)' /\ PassCovered(g)' /\ RoundCovered(g)'
  BY <1>1, <1>2 DEF Covers, Inside, PassCovered, RoundCovered, Holds, Better
<1> QED BY <1>1, <1>2, <1>3 DEF Covers

LEMMA ApplyCovers ==
  ASSUME Typed, StatusInv, NothingYet, NothingYet', CoverInv, UNCHANGED instance,
         apply_universe_profile_serial_with
  PROVE  CoverInv'
<1>1. /\ feed_generation \in 0..MAX_GENERATION
      /\ apply.step # "idle" => feed_generation \in Generations
  BY DEF Typed, GenerationT, StatusInv, StatusIsPrepared
<1>2. CASE SpawnCoordinator
  <2>1. Untouched(feed_generation) /\ feed_generation \in Generations
    BY <1>1, <1>2 DEF SpawnCoordinator, NothingYet, ToCome, Preparing
  <2>2. /\ coordinator' = [coordinator EXCEPT ![feed_generation] =
                             [step |-> "round", round |-> 0, pending |-> active_symbols]]
        /\ UNCHANGED <<feed_generation, active_symbols, batch, failed, worker>>
    BY <1>2 DEF SpawnCoordinator, workerVars, profileVars
  <2>3. coordinator'[feed_generation] =
          [step |-> "round", round |-> 0, pending |-> active_symbols]
    BY <2>1, <2>2 DEF Typed, CoordinatorT
  <2> QED
    BY <2>1, <2>2, <2>3
       DEF CoverInv, Covers, Inside, PassCovered, RoundCovered, Untouched, Holds, NoWork
<1>3. CASE SpawnOthers
  <2>1. UNCHANGED <<coordinator, workerVars, screener, feed_generation, active_symbols>>
    BY <1>3 DEF SpawnOthers, profileVars
  <2> QED BY <2>1, CoverFrame, KeptBetters DEF Kept, workerVars
<1>4. CASE SpawnFails
  <2>1. UNCHANGED <<coordinator, workerVars, screener, feed_generation, active_symbols>>
    BY <1>4 DEF SpawnFails, profileVars
  <2> QED BY <2>1, CoverFrame, KeptBetters DEF Kept, workerVars
<1>5. CASE \/ \E p \in Profiles : BeginApply(p)
           \/ reset_initial_pass_completion \/ clear_universe \/ SetActiveProfile
           \/ ResetFeedStatus
  <2>1. Preparing'
    <3>1. ASSUME NEW p \in Profiles, BeginApply(p) PROVE Preparing'
      BY <3>1 DEF BeginApply, Preparing
    <3> QED
      BY <1>5, <3>1 DEF reset_initial_pass_completion, clear_universe, SetActiveProfile,
                        ResetFeedStatus, Preparing, Typed, ApplyT, Adoption
  <2>2. feed_generation' \in Generations => Untouched(feed_generation)'
    BY <2>1 DEF NothingYet, ToCome
  <2>3. feed_generation' \in Generations => Covers(feed_generation)'
    BY <2>2 DEF Untouched, Covers, Inside, PassCovered, RoundCovered, Holds, NoWork
  <2> QED BY <2>3 DEF CoverInv
<1> QED BY <1>2, <1>3, <1>4, <1>5 DEF apply_universe_profile_serial_with

LEMMA CoordinatorCovers ==
  ASSUME Typed, CoverInv, UNCHANGED instance, NEW g \in Generations, Coordinator(g)
  PROVE  CoverInv'
<1>1. /\ \A h \in Generations \ {g} : Kept(h)
      /\ UNCHANGED <<feed_generation, active_symbols, screener>> /\ Better
  BY CoordinatorKeepsOthers, KeptBetters
<1>2. CASE g # feed_generation
  BY <1>1, <1>2, CoverFrame
<1>3. CASE g = feed_generation
  <2>1. Covers(g) /\ generation_is_current(g)
    BY <1>3 DEF CoverInv, generation_is_current
  <2>2. instance.workers \in Workers /\ active_symbols \subseteq Symbols
    BY InstanceTyped DEF Typed, ProfileT
  <2>3. SUFFICES Covers(g)'
    BY <1>1, <1>3 DEF CoverInv
  <2> USE <1>1, <2>1, <2>2 DEF Covers, Typed, CoordinatorT, WorkerT, BatchT, Round, Holds
  <2>4. CASE StartRound(g)
    <3>1. /\ coordinator'[g].step = "joining"
          /\ coordinator'[g].pending = coordinator[g].pending
          /\ batch'[g] = coordinator[g].pending /\ failed'[g] = {}
          /\ coordinator[g].step = "round"
      BY <2>4 DEF StartRound, StartWorkers
    <3>2. \A w \in Workers :
            worker'[g][w] = IF w <= instance.workers THEN [NoWork EXCEPT !.step = "ready"]
                            ELSE NoWork
      BY <2>4 DEF StartRound, StartWorkers
    <3>3. \A w \in Workers : /\ worker'[g][w].step \in {"ready", "ended"}
                             /\ w <= instance.workers => worker'[g][w].step = "ready"
      BY <3>2 DEF NoWork
    <3>4. Inside(g)'
      BY <3>1, <3>3 DEF Inside
    <3>5. PassCovered(g)' /\ RoundCovered(g)'
      BY <3>1, <3>3 DEF PassCovered, RoundCovered, Better
    <3> QED BY <3>1, <3>4, <3>5
  <2>5. CASE StartFullRefresh(g)
    <3>1. /\ coordinator'[g].step = "refreshing"
          /\ coordinator'[g].pending = coordinator[g].pending
          /\ batch'[g] = active_symbols /\ failed'[g] = {}
          /\ coordinator[g].step = "resting"
      BY <2>5 DEF StartFullRefresh, StartWorkers
    <3>2. \A w \in Workers :
            worker'[g][w] = IF w <= instance.workers THEN [NoWork EXCEPT !.step = "ready"]
                            ELSE NoWork
      BY <2>5 DEF StartFullRefresh, StartWorkers
    <3>3. \A w \in Workers : worker'[g][w].step \in {"ready", "ended"}
      <4>1. NoWork.step = "ended" /\ [NoWork EXCEPT !.step = "ready"].step = "ready"
        BY DEF NoWork
      <4> QED BY <3>2, <4>1
    <3>4. Inside(g)'
      BY <3>1, <3>3 DEF Inside
    <3>5. PassCovered(g)' /\ RoundCovered(g)'
      BY <3>1 DEF PassCovered, RoundCovered, Better
    <3> QED BY <3>1, <3>4, <3>5
  <2>6. CASE EndRound(g)
    <3>1. /\ coordinator[g].step = "joining" /\ AllEnded(g)
          /\ coordinator'[g].step = "round" /\ coordinator'[g].pending = failed[g]
          /\ UNCHANGED <<batch, failed, worker>>
      BY <2>6 DEF EndRound, workerVars
    <3>2. batch[g] = {}
      <4>1. worker[g][instance.workers].step = "ended"
        BY <3>1 DEF AllEnded
      <4>2. instance.workers <= instance.workers
        BY FeedAssumption DEF Workers
      <4> QED BY <3>1, <4>1, <4>2 DEF RoundCovered
    <3>3. \A w \in Workers, s \in Symbols : ~Holds(g, w, s)
      BY <3>1 DEF AllEnded
    <3>4. Inside(g)'
      BY <3>1 DEF Inside
    <3>5. PassCovered(g)' /\ RoundCovered(g)'
      BY <3>1, <3>2, <3>3 DEF PassCovered, RoundCovered, Better
    <3> QED BY <3>1, <3>4, <3>5
  <2>7. CASE EndPass(g) \/ CheckMark(g) \/ StoreMark(g) \/ EndFullRefresh(g)
    <3>1. /\ coordinator[g].step \in {"round", "marking", "storing", "refreshing"}
          /\ coordinator'[g].step \in {"marking", "storing", "resting"}
          /\ coordinator'[g].pending = coordinator[g].pending
          /\ UNCHANGED <<batch, failed, worker>>
      BY <2>7 DEF EndPass, CheckMark, StoreMark, EndFullRefresh, workerVars
    <3>2. Inside(g)'
      BY <3>1 DEF Inside
    <3>3. PassCovered(g)' /\ RoundCovered(g)'
      BY <3>1 DEF PassCovered, RoundCovered, Better
    <3> QED BY <3>1, <3>2, <3>3
  <2>8. ~StopCoordinator(g)
    BY DEF StopCoordinator
  <2> QED BY <2>4, <2>5, <2>6, <2>7, <2>8 DEF Coordinator
<1> QED BY <1>2, <1>3

LEMMA WorkerCovers ==
  ASSUME Typed, CoverInv, UNCHANGED instance, NEW g \in Generations, NEW w \in Workers,
         RefreshWorker(g, w)
  PROVE  CoverInv'
<1>1. /\ \A h \in Generations \ {g} : Kept(h)
      /\ UNCHANGED <<feed_generation, active_symbols, coordinator>>
  BY WorkerKeepsOthers
<1>2. g \in 0..MAX_GENERATION /\ batch[g] \subseteq Symbols /\ active_symbols \subseteq Symbols
  BY FeedAssumption DEF Generations, Typed, BatchT, ProfileT
<1>3. Better
  <2>1. CASE RefreshQuote(g, w)
    BY <1>2, <2>1, IngestBetters DEF RefreshQuote, Typed
  <2>2. CASE RefreshChart(g, w)
    <3>1. worker[g][w].symbol \in Symbols
      BY <2>2 DEF RefreshChart, At, Typed, WorkerT, WorkHasSymbol
    <3> QED BY <1>2, <2>2, <3>1, IngestBetters, KeptBetters DEF RefreshChart, Typed
  <2>3. CASE \/ DrainBatch(g, w) \/ BatchDone(g, w) \/ Enroll(g, w) \/ Announce(g, w)
             \/ Judge(g, w) \/ StopWorker(g, w)
    BY <2>3, KeptBetters DEF DrainBatch, BatchDone, Enroll, Announce, Judge, StopWorker
  <2> QED BY <2>1, <2>2, <2>3 DEF RefreshWorker
<1>4. CASE g # feed_generation
  BY <1>1, <1>3, <1>4, CoverFrame
<1>5. CASE g = feed_generation
  <2>1. Covers(g) /\ generation_is_current(g)
    BY <1>5 DEF CoverInv, generation_is_current
  <2>2. PassCovered(g)'
    BY <1>1, <1>2, <1>3, <2>1 DEF Covers, PassCovered, Better
  <2>3. SUFFICES Inside(g)' /\ RoundCovered(g)'
    BY <1>1, <1>5, <2>1, <2>2 DEF CoverInv, Covers
  <2>4. /\ worker \in [Generations -> [Workers -> Work]]
        /\ batch \in [Generations -> SUBSET Symbols] /\ failed \in [Generations -> SUBSET Symbols]
    BY DEF Typed, WorkerT, BatchT
  <2>5. \A v \in Workers \ {w} : worker'[g][v] = worker[g][v]
    <3> USE <2>4 DEF Goto
    <3>1. CASE DrainBatch(g, w) \/ BatchDone(g, w)
      BY <3>1 DEF DrainBatch, BatchDone
    <3>2. CASE RefreshQuote(g, w)
      BY <3>2 DEF RefreshQuote
    <3>3. CASE RefreshChart(g, w)
      BY <3>3 DEF RefreshChart
    <3>4. CASE Enroll(g, w)
      BY <3>4 DEF Enroll
    <3>5. CASE Announce(g, w)
      BY <3>5 DEF Announce
    <3>6. CASE Judge(g, w) \/ StopWorker(g, w)
      BY <3>6 DEF Judge, StopWorker
    <3> QED BY <3>1, <3>2, <3>3, <3>4, <3>5, <3>6 DEF RefreshWorker
  <2> USE DEF At, Goto, Work
  <2>6. CASE DrainBatch(g, w)
    <3>1. /\ batch'[g] = {} /\ failed'[g] = failed[g] \cup batch[g]
          /\ worker[g][w].step = "ready" /\ worker'[g][w].step = "ended"
      BY <2>4, <2>6 DEF DrainBatch
    <3> QED BY <1>1, <1>2, <1>3, <2>1, <2>5, <3>1
            DEF Covers, Inside, RoundCovered, Holds, Better
  <2>7. CASE BatchDone(g, w)
    <3>1. /\ batch'[g] = {} /\ failed'[g] = failed[g] /\ batch[g] = {}
          /\ worker[g][w].step = "ready" /\ worker'[g][w].step = "ended"
      BY <2>4, <2>7 DEF BatchDone
    <3> QED BY <1>1, <1>2, <1>3, <2>1, <2>5, <3>1
            DEF Covers, Inside, RoundCovered, Holds, Better
  <2>8. CASE RefreshQuote(g, w)
    <3>1. PICK s \in batch[g] :
            /\ batch'[g] = batch[g] \ {s} /\ failed'[g] = failed[g]
            /\ worker[g][w].step = "ready"
            /\ worker'[g][w].step = "charting" /\ worker'[g][w].symbol = s
      BY <2>4, <2>8 DEF RefreshQuote, NoWork
    <3> QED BY <1>1, <1>2, <1>3, <2>1, <2>5, <3>1
            DEF Covers, Inside, RoundCovered, Holds, Better
  <2>9. CASE RefreshChart(g, w) \/ Enroll(g, w) \/ Announce(g, w)
    <3>1. /\ batch'[g] = batch[g] /\ failed'[g] = failed[g]
          /\ worker[g][w].step \in {"charting", "queueing", "announcing"}
      BY <2>9 DEF RefreshChart, Enroll, Announce
    <3>2. /\ worker'[g][w].step \in {"queueing", "announcing", "judging"}
          /\ worker'[g][w].symbol = worker[g][w].symbol
      <4>1. CASE RefreshChart(g, w)
        BY <2>4, <4>1 DEF RefreshChart
      <4>2. CASE Enroll(g, w)
        BY <2>4, <4>2 DEF Enroll
      <4>3. CASE Announce(g, w)
        BY <2>4, <4>3 DEF Announce
      <4> QED BY <2>9, <4>1, <4>2, <4>3
    <3> QED BY <1>1, <1>2, <1>3, <2>1, <2>5, <3>1, <3>2
            DEF Covers, Inside, RoundCovered, Holds, Better
  <2>10. CASE Judge(g, w)
    <3> DEFINE s == worker[g][w].symbol
    <3>1. /\ batch'[g] = batch[g] /\ UNCHANGED screener
          /\ worker[g][w].step = "judging" /\ worker'[g][w].step = "ready"
      BY <2>4, <2>10 DEF Judge, NoWork
    <3>2. \/ failed'[g] = failed[g] \cup {s}
          \/ /\ failed'[g] = failed[g]
             /\ coordinator[g].step # "joining" \/ symbol_state_enrichment_complete(s)
      BY <2>4, <2>10 DEF Judge
    <3>3. s \in Symbols /\ Holds(g, w, s)
      BY <3>1 DEF Holds, Typed, WorkerT, WorkHasSymbol
    <3>4. s \in active_symbols
      BY <2>1, <3>3 DEF Covers, Inside
    <3>5. Inside(g)'
      BY <1>1, <1>2, <2>1, <2>5, <3>1, <3>2, <3>4 DEF Covers, Inside, Holds
    <3>6. ASSUME coordinator[g].step = "joining" PROVE
            /\ \A t \in active_symbols :
                 \/ symbol_state_enrichment_complete(t)'
                 \/ t \in batch'[g] \cup failed'[g]
                 \/ \E v \in Workers : Holds(g, v, t)'
            /\ \A v \in Workers :
                 v <= instance.workers /\ worker'[g][v].step = "ended" => batch'[g] = {}
      BY <1>2, <1>3, <2>1, <2>5, <3>1, <3>2, <3>3, <3>6
         DEF Covers, RoundCovered, Holds, Better
    <3> QED BY <1>1, <3>5, <3>6 DEF RoundCovered
  <2>11. ~StopWorker(g, w)
    BY <2>1 DEF StopWorker
  <2> QED BY <2>6, <2>7, <2>8, <2>9, <2>10, <2>11 DEF RefreshWorker
<1> QED BY <1>4, <1>5

LEMMA CoverStep ==
  Typed /\ StatusInv /\ NothingYet /\ NothingYet' /\ CoverInv /\ [Next]_vars => CoverInv'
<1> SUFFICES ASSUME Typed, StatusInv, NothingYet, NothingYet', CoverInv, [Next]_vars
             PROVE  CoverInv'
  OBVIOUS
<1>1. UNCHANGED instance
  BY DEF Next, vars
<1>2. ASSUME (\E g \in Generations : SnapshotWorker(g)) \/ BeginLoad \/ UNCHANGED vars
      PROVE  CoverInv'
  <2>1. UNCHANGED screener
    BY <1>2 DEF SnapshotWorker, CheckSnapshot, ReadRows, InsertSnapshots, StopSnapshots,
                BeginLoad, vars
  <2> QED BY <1>1, <1>2, <2>1, OthersKeepAll, KeptBetters, CoverFrame DEF Kept, workerVars
<1>3. CASE LoadQuote
  <2>1. loader.symbol \in Symbols /\ loader.generation \in 0..MAX_GENERATION
    BY <1>3 DEF LoadQuote, Typed, LoaderT, Load
  <2>2. Better
    BY <1>3, <2>1, IngestBetters, KeptBetters DEF LoadQuote, Typed
  <2> QED BY <1>1, <1>3, <2>2, OthersKeepAll, CoverFrame DEF Kept, workerVars
<1> QED BY <1>1, <1>2, <1>3, ApplyCovers, CoordinatorCovers, WorkerCovers DEF Next

LEMMA MarkStep ==
  Typed /\ StatusInv /\ NothingYet /\ MarkInv /\ [Next]_vars => MarkInv'
<1> SUFFICES ASSUME Typed, StatusInv, NothingYet, MarkInv, [Next]_vars PROVE MarkInv'
  OBVIOUS
<1> DEFINE m == initial_pass_completed_generation
<1>1. ASSUME UNCHANGED initial_pass_completed_generation,
             m \in Generations => coordinator'[m] = coordinator[m]
      PROVE  MarkInv'
  BY <1>1 DEF MarkInv
<1>2. CASE apply_universe_profile_serial_with
  <2>1. CASE reset_initial_pass_completion
    BY <2>1, FeedAssumption DEF reset_initial_pass_completion, MarkInv, NotYet, Generations
  <2>2. CASE SpawnCoordinator
    <3>1. feed_generation \in Generations
      BY <2>2 DEF SpawnCoordinator, StatusInv, StatusIsPrepared
    <3>2. coordinator[feed_generation].step = "none"
      BY <2>2, <3>1 DEF SpawnCoordinator, NothingYet, ToCome, Preparing, Untouched
    <3>3. m \in Generations => m # feed_generation
      BY <3>2 DEF MarkInv
    <3> QED BY <1>1, <2>2, <3>1, <3>3 DEF SpawnCoordinator, Typed, CoordinatorT
  <2>3. CASE ~reset_initial_pass_completion /\ ~SpawnCoordinator
    BY <1>1, <1>2, <2>3 DEF apply_universe_profile_serial_with, BeginApply, clear_universe,
                            SetActiveProfile, ResetFeedStatus, SpawnFails, SpawnOthers
  <2> QED BY <2>1, <2>2, <2>3
<1>3. ASSUME NEW g \in Generations, Coordinator(g) PROVE MarkInv'
  <2> USE DEF Typed, CoordinatorT, Round
  <2>1. CASE StoreMark(g)
    BY <2>1 DEF StoreMark, MarkInv
  <2>2. CASE StartFullRefresh(g) \/ EndFullRefresh(g) \/ StopCoordinator(g)
    BY <2>2 DEF StartFullRefresh, StartWorkers, EndFullRefresh, StopCoordinator, Ended, MarkInv
  <2>3. CASE StartRound(g) \/ EndRound(g) \/ EndPass(g) \/ CheckMark(g)
    <3>1. coordinator[g].step \notin {"resting", "refreshing", "ended"}
          /\ UNCHANGED initial_pass_completed_generation
      BY <2>3 DEF StartRound, EndRound, EndPass, CheckMark
    <3>2. \A h \in Generations \ {g} : coordinator'[h] = coordinator[h]
      BY <1>3, CoordinatorKeepsOthers DEF Kept
    <3> QED BY <1>1, <3>1, <3>2 DEF MarkInv
  <2> QED BY <1>3, <2>1, <2>2, <2>3 DEF Coordinator
<1>4. ASSUME NEW g \in Generations, NEW w \in Workers, RefreshWorker(g, w) PROVE MarkInv'
  <2>1. UNCHANGED initial_pass_completed_generation
    BY <1>4 DEF RefreshWorker, DrainBatch, BatchDone, RefreshQuote, RefreshChart, Enroll,
                Announce, Judge, StopWorker
  <2> QED BY <1>1, <1>4, <2>1, WorkerKeepsOthers
<1>5. CASE (\E g \in Generations : SnapshotWorker(g)) \/ BeginLoad \/ LoadQuote \/ UNCHANGED vars
  BY <1>1, <1>5, OthersKeepAll
<1> QED BY <1>2, <1>3, <1>4, <1>5 DEF Next

LEMMA InitStatus == Init => StatusInv /\ NothingYet /\ CoverInv /\ MarkInv
<1> SUFFICES ASSUME Init PROVE StatusInv /\ NothingYet /\ CoverInv /\ MarkInv
  OBVIOUS
<1>1. StatusInv
  BY DEF Init, StatusInv, StatusIsPrepared, StatusIsOfTheProfile, NoApply
<1>2. NothingYet
  BY DEF Init, NothingYet, Untouched
<1>3. CoverInv /\ MarkInv
  BY FeedAssumption DEF Init, CoverInv, MarkInv, Generations, NotYet
<1> QED BY <1>1, <1>2, <1>3

(* A generation whose initial pass is marked as complete has been asked    *)
(* for every symbol, however the workers shared the rounds among them.     *)
THEOREM MarkedComplete == Spec => []MarkedPassIsComplete
BY InitStatus, AlwaysTyped, StatusStep, NothingYetStep, CoverStep, MarkStep, MarkMeans, PTL
   DEF Spec

-----------------------------------------------------------------------------
(* Enrichment.  A symbol is claimed by the worker that enrolls it, and     *)
(* sent by the same worker; nobody works for a generation whose            *)
(* coordinator is not waiting for workers.  The status shows the greatest  *)
(* count announced, and the worker with the greatest count is still to     *)
(* announce it or has done so.                                             *)
Announces(g, w, s) == At(g, w, "announcing") /\ worker[g][w].symbol = s

Quiet(g) == coordinator[g].step \notin {"joining", "refreshing"} => AllEnded(g)

SentOnce(g) ==
  \A s \in Symbols :
    /\ sent[g][s] <= 1
    /\ sent[g][s] = 1 => s \in enrolled[g]
    /\ s \in enrolled[g] /\ generation_is_current(g) =>
         sent[g][s] = 1 \/ \E w \in Workers : Announces(g, w, s)

ClaimedOnce(g) ==
  /\ \A w \in Workers, s \in Symbols :
       Announces(g, w, s) => s \in enrolled[g] /\ sent[g][s] = 0
  /\ \A v, w \in Workers, s \in Symbols : Announces(g, v, s) /\ Announces(g, w, s) => v = w

Counted(g) ==
  /\ loaded[g] = Cardinality(enrolled[g])
  /\ \A w \in Workers : At(g, w, "announcing") => worker[g][w].n <= loaded[g]

Enrolls(g) == Quiet(g) /\ SentOnce(g) /\ ClaimedOnce(g) /\ Counted(g)
EnrollInv == \A g \in Generations : Enrolls(g)

Shown(g) ==
  /\ feed_status.symbols_loaded <= loaded[g]
  /\ \/ feed_status.symbols_loaded = loaded[g]
     \/ \E w \in Workers : At(g, w, "announcing") /\ worker[g][w].n = loaded[g]

ShownInv ==
  /\ feed_generation = 0 => feed_status.symbols_loaded = 0
  /\ feed_generation \in Generations =>
       /\ enrolled[feed_generation] \subseteq active_symbols
       /\ apply.step \in {"idle", "spawning", "spawned"} => Shown(feed_generation)

LEMMA EnrolledMeans == Typed /\ StatusInv /\ EnrollInv /\ ShownInv => EnrolledOnce
<1> SUFFICES ASSUME Typed, StatusInv, EnrollInv, ShownInv PROVE EnrolledOnce
  OBVIOUS
<1>1. ASSUME NEW g \in Generations, NEW s \in Symbols
      PROVE  /\ sent[g][s] <= 1
             /\ sent[g][s] = 1 => s \in enrolled[g]
             /\ s \in enrolled[g] /\ generation_is_current(g) =>
                  \/ sent[g][s] = 1
                  \/ \E w \in Workers : At(g, w, "announcing") /\ worker[g][w].symbol = s
  BY DEF EnrollInv, Enrolls, SentOnce, Announces
<1>2. CASE feed_generation = 0
  BY <1>1, <1>2 DEF EnrolledOnce, ShownInv
<1>3. CASE feed_generation # 0
  <2>1. feed_generation \in Generations
    BY <1>3, FeedAssumption DEF Typed, GenerationT, Generations
  <2>2. loaded[feed_generation] = Cardinality(enrolled[feed_generation])
    BY <2>1 DEF EnrollInv, Enrolls, Counted
  <2>3. CASE apply.step \in {"idle", "spawning", "spawned"}
    <3>1. Shown(feed_generation)
      BY <2>1, <2>3 DEF ShownInv
    <3> QED BY <1>1, <1>3, <2>2, <3>1 DEF EnrolledOnce, Shown
  <2>4. CASE apply.step \notin {"idle", "spawning", "spawned"}
    BY <1>1, <2>4 DEF EnrolledOnce
  <2> QED BY <2>3, <2>4
<1> QED BY <1>2, <1>3

LEMMA UntouchedEnrolls == ASSUME NEW g \in Generations, Untouched(g) PROVE Enrolls(g)
<1>1. \A w \in Workers : worker[g][w].step = "ended"
  BY DEF Untouched, NoWork
<1>2. Quiet(g) /\ SentOnce(g) /\ ClaimedOnce(g)
  BY <1>1 DEF Untouched, Quiet, AllEnded, SentOnce, ClaimedOnce, Announces, At
<1>3. Cardinality({}) = 0
  BY FS_EmptySet
<1>4. Counted(g)
  BY <1>1, <1>3 DEF Untouched, Counted, At
<1> QED BY <1>2, <1>4 DEF Enrolls

LEMMA EnrollFrame ==
  ASSUME NEW g \in Generations, Enrolls(g), Kept(g),
         generation_is_current(g)' => generation_is_current(g) \/ Untouched(g)
  PROVE  Enrolls(g)'
<1> USE DEF Kept
<1>1. Quiet(g)' /\ ClaimedOnce(g)' /\ Counted(g)'
  BY DEF Enrolls, Quiet, AllEnded, ClaimedOnce, Announces, At, Counted
<1>2. SentOnce(g)'
  BY DEF Enrolls, SentOnce, Announces, At, Untouched
<1> QED BY <1>1, <1>2 DEF Enrolls

(* A step that announces nothing and claims nothing.                       *)
LEMMA EnrollQuietly ==
  ASSUME NEW g \in Generations, NEW w \in Workers, SentOnce(g), ClaimedOnce(g), Counted(g),
         \A v \in Workers \ {w} : worker'[g][v] = worker[g][v],
         ~At(g, w, "announcing"), ~At(g, w, "announcing")',
         UNCHANGED <<enrolled, loaded, sent, feed_generation>>
  PROVE  SentOnce(g)' /\ ClaimedOnce(g)' /\ Counted(g)'
<1>1. ASSUME NEW v \in Workers
      PROVE  /\ At(g, v, "announcing")' <=> At(g, v, "announcing")
             /\ At(g, v, "announcing") => worker'[g][v] = worker[g][v]
  BY DEF At
<1>2. ASSUME NEW v \in Workers, NEW s \in Symbols
      PROVE  Announces(g, v, s)' <=> Announces(g, v, s)
  BY <1>1 DEF Announces
<1>3. SentOnce(g)'
  BY <1>2 DEF SentOnce, generation_is_current
<1>4. ClaimedOnce(g)'
  BY <1>2 DEF ClaimedOnce
<1>5. Counted(g)'
  BY <1>1 DEF Counted
<1> QED BY <1>3, <1>4, <1>5

LEMMA WorkerEnrolls ==
  ASSUME Typed, NEW g \in Generations, Enrolls(g), NEW w \in Workers, RefreshWorker(g, w)
  PROVE  Enrolls(g)'
<1> USE FeedAssumption DEF At, Goto
<1>1. /\ worker \in [Generations -> [Workers -> Work]] /\ WorkHasSymbol(worker[g][w])
      /\ enrolled \in [Generations -> SUBSET Symbols] /\ loaded \in [Generations -> Nat]
      /\ sent \in [Generations -> [Symbols -> Nat]]
      /\ SentOnce(g) /\ ClaimedOnce(g) /\ Counted(g)
  BY DEF Typed, WorkerT, EnrolledT, Enrolls
<1>2. Quiet(g)'
  <2>1. worker[g][w].step # "ended" /\ UNCHANGED coordinator
    BY WorkerKeepsOthers
  <2> QED BY <2>1 DEF Enrolls, Quiet, AllEnded
<1>3. SUFFICES SentOnce(g)' /\ ClaimedOnce(g)' /\ Counted(g)'
  BY <1>2 DEF Enrolls
<1>4. UNCHANGED feed_generation
  BY WorkerKeepsOthers
<1>5. \A v \in Workers \ {w} : worker'[g][v] = worker[g][v]
  <2> USE <1>1
  <2>1. CASE DrainBatch(g, w) \/ BatchDone(g, w)
    BY <2>1 DEF DrainBatch, BatchDone
  <2>2. CASE RefreshQuote(g, w)
    BY <2>2 DEF RefreshQuote
  <2>3. CASE RefreshChart(g, w)
    BY <2>3 DEF RefreshChart
  <2>4. CASE Enroll(g, w)
    BY <2>4 DEF Enroll
  <2>5. CASE Announce(g, w)
    BY <2>5 DEF Announce
  <2>6. CASE Judge(g, w) \/ StopWorker(g, w)
    BY <2>6 DEF Judge, StopWorker
  <2> QED BY <2>1, <2>2, <2>3, <2>4, <2>5, <2>6 DEF RefreshWorker
<1>6. ASSUME worker[g][w].step # "announcing", worker'[g][w].step # "announcing",
             UNCHANGED <<enrolled, loaded, sent>>
      PROVE  SentOnce(g)' /\ ClaimedOnce(g)' /\ Counted(g)'
  BY <1>1, <1>4, <1>5, <1>6, EnrollQuietly
<1>7. CASE DrainBatch(g, w) \/ BatchDone(g, w)
  BY <1>1, <1>6, <1>7 DEF DrainBatch, BatchDone, Work
<1>8. CASE RefreshQuote(g, w)
  <2>1. worker'[g][w].step = "charting" /\ worker[g][w].step = "ready"
    BY <1>1, <1>8 DEF RefreshQuote, NoWork
  <2> QED BY <1>6, <1>8, <2>1 DEF RefreshQuote
<1>9. CASE RefreshChart(g, w)
  <2>1. worker'[g][w].step \in {"queueing", "judging"} /\ worker[g][w].step = "charting"
    BY <1>1, <1>9 DEF RefreshChart, Work
  <2> QED BY <1>6, <1>9, <2>1 DEF RefreshChart
<1>10. CASE Judge(g, w)
  <2>1. worker'[g][w].step = "ready" /\ worker[g][w].step = "judging"
    BY <1>1, <1>10 DEF Judge, NoWork
  <2> QED BY <1>6, <1>10, <2>1 DEF Judge
<1>11. CASE StopWorker(g, w)
  <2>1. /\ worker'[g][w].step = "ended" /\ ~generation_is_current(g)
        /\ UNCHANGED <<enrolled, loaded, sent>>
    BY <1>1, <1>11 DEF StopWorker, NoWork
  <2>2. ASSUME NEW v \in Workers, NEW s \in Symbols
        PROVE  Announces(g, v, s)' => Announces(g, v, s)
    BY <1>5, <2>1 DEF Announces
  <2>3. SentOnce(g)' /\ ClaimedOnce(g)'
    BY <1>1, <1>4, <2>1, <2>2 DEF SentOnce, ClaimedOnce, generation_is_current
  <2>4. Counted(g)'
    BY <1>1, <1>5, <2>1 DEF Counted
  <2> QED BY <2>3, <2>4
<1>12. CASE Enroll(g, w)
  <2> DEFINE s == worker[g][w].symbol
  <2>1. s \in Symbols /\ worker[g][w].step = "queueing"
    BY <1>1, <1>12 DEF Enroll, WorkHasSymbol
  <2>2. CASE s \in enrolled[g]
    <3>1. worker'[g][w].step = "judging" /\ UNCHANGED <<enrolled, loaded, sent>>
      BY <1>1, <1>12, <2>2 DEF Enroll, Work
    <3> QED BY <1>6, <2>1, <3>1
  <2>3. CASE s \notin enrolled[g]
    <3>1. /\ enrolled'[g] = enrolled[g] \cup {s} /\ loaded'[g] = loaded[g] + 1
          /\ UNCHANGED sent
          /\ worker'[g][w].step = "announcing" /\ worker'[g][w].symbol = s
          /\ worker'[g][w].n = loaded'[g]
      BY <1>1, <1>12, <2>3 DEF Enroll, Work
    <3>2. sent[g][s] = 0 /\ \A v \in Workers : ~Announces(g, v, s)
      <4>1. sent[g][s] \in Nat /\ sent[g][s] <= 1 /\ sent[g][s] # 1
        BY <1>1, <2>1, <2>3 DEF SentOnce
      <4>2. \A v \in Workers : ~Announces(g, v, s)
        BY <1>1, <2>1, <2>3 DEF ClaimedOnce
      <4> QED BY <4>1, <4>2
    <3>3. ASSUME NEW v \in Workers, NEW t \in Symbols
          PROVE  Announces(g, v, t)' <=> Announces(g, v, t) \/ (v = w /\ t = s)
      BY <1>5, <2>1, <3>1 DEF Announces
    <3>4. SentOnce(g)'
      BY <1>1, <1>4, <2>1, <3>1, <3>2, <3>3 DEF SentOnce, generation_is_current
    <3>5. ClaimedOnce(g)'
      <4>1. ASSUME NEW v \in Workers, NEW t \in Symbols, Announces(g, v, t)'
            PROVE  t \in enrolled'[g] /\ sent'[g][t] = 0
        <5>1. CASE t = s
          BY <3>1, <3>2, <5>1
        <5>2. CASE t # s
          BY <1>1, <3>1, <3>3, <4>1, <5>2 DEF ClaimedOnce
        <5> QED BY <5>1, <5>2
      <4>2. ASSUME NEW u \in Workers, NEW v \in Workers, NEW t \in Symbols,
                   Announces(g, u, t)', Announces(g, v, t)'
            PROVE  u = v
        <5>1. CASE t = s
          BY <3>2, <3>3, <4>2, <5>1
        <5>2. CASE t # s
          BY <1>1, <3>3, <4>2, <5>2 DEF ClaimedOnce
        <5> QED BY <5>1, <5>2
      <4> QED BY <4>1, <4>2 DEF ClaimedOnce
    <3>6. IsFiniteSet(enrolled[g]) /\ loaded[g] = Cardinality(enrolled[g])
      BY <1>1, FS_Subset DEF Counted
    <3>7. loaded'[g] = Cardinality(enrolled'[g])
      <4>1. Cardinality(enrolled[g] \cup {s}) = Cardinality(enrolled[g]) + 1
        BY <2>3, <3>6, FS_AddElement
      <4> QED BY <3>1, <3>6, <4>1
    <3>8. \A v \in Workers : At(g, v, "announcing")' => worker'[g][v].n <= loaded'[g]
      BY <1>1, <1>5, <3>1 DEF Counted, Work
    <3> QED BY <3>4, <3>5, <3>7, <3>8 DEF Counted
  <2> QED BY <2>2, <2>3
<1>13. CASE Announce(g, w)
  <2> DEFINE s == worker[g][w].symbol
  <2>1. s \in Symbols /\ Announces(g, w, s)
    BY <1>1, <1>13 DEF Announce, WorkHasSymbol, Announces
  <2>2. /\ UNCHANGED <<enrolled, loaded>>
        /\ sent'[g] = [sent[g] EXCEPT ![s] = @ + 1]
        /\ worker'[g][w].step = "judging"
    BY <1>1, <1>13 DEF Announce, Work
  <2>3. s \in enrolled[g] /\ sent[g][s] = 0
    BY <1>1, <2>1 DEF ClaimedOnce
  <2>4. sent'[g][s] = 1 /\ \A t \in Symbols \ {s} : sent'[g][t] = sent[g][t]
    BY <1>1, <2>1, <2>2, <2>3
  <2>5. ASSUME NEW v \in Workers, NEW t \in Symbols
        PROVE  Announces(g, v, t)' <=> Announces(g, v, t) /\ t # s
    BY <1>1, <1>5, <2>1, <2>2 DEF Announces, ClaimedOnce
  <2>6. SentOnce(g)'
    BY <1>1, <1>4, <2>2, <2>3, <2>4, <2>5 DEF SentOnce, generation_is_current
  <2>7. ClaimedOnce(g)'
    BY <1>1, <2>2, <2>4, <2>5 DEF ClaimedOnce
  <2>8. Counted(g)'
    BY <1>1, <1>5, <2>2 DEF Counted
  <2> QED BY <2>6, <2>7, <2>8
<1> QED BY <1>7, <1>8, <1>9, <1>10, <1>11, <1>12, <1>13 DEF RefreshWorker

(* The coordinator meets its workers only when they have all ended.        *)
LEMMA CoordinatorEnrolls ==
  ASSUME Typed, NEW g \in Generations, Enrolls(g), Coordinator(g)
  PROVE  Enrolls(g)'
<1>1. /\ worker \in [Generations -> [Workers -> Work]] /\ coordinator \in [Generations -> Round]
      /\ enrolled \in [Generations -> SUBSET Symbols] /\ loaded \in [Generations -> Nat]
      /\ sent \in [Generations -> [Symbols -> Nat]]
      /\ Quiet(g) /\ SentOnce(g) /\ ClaimedOnce(g) /\ Counted(g)
  BY DEF Typed, WorkerT, CoordinatorT, EnrolledT, Enrolls
<1>2. UNCHANGED feed_generation
  BY CoordinatorKeepsOthers
<1>3. CASE StartRound(g) \/ StartFullRefresh(g)
  <2>1. /\ coordinator[g].step \in {"round", "resting"}
        /\ coordinator'[g].step \in {"joining", "refreshing"}
        /\ UNCHANGED <<enrolled, loaded, sent>>
    BY <1>1, <1>3 DEF StartRound, StartFullRefresh, StartWorkers, Round
  <2>2. \A w \in Workers : worker[g][w].step # "announcing"
    BY <1>1, <2>1 DEF Quiet, AllEnded
  <2>3. \A w \in Workers : worker'[g][w].step # "announcing"
    BY <1>1, <1>3 DEF StartRound, StartFullRefresh, StartWorkers, NoWork
  <2>4. SentOnce(g)' /\ ClaimedOnce(g)' /\ Counted(g)'
    BY <1>1, <1>2, <2>1, <2>2, <2>3
       DEF SentOnce, ClaimedOnce, Counted, Announces, At, generation_is_current
  <2> QED BY <2>1, <2>4 DEF Enrolls, Quiet
<1>4. CASE EndRound(g) \/ EndPass(g) \/ CheckMark(g) \/ StoreMark(g) \/ EndFullRefresh(g)
  <2>1. AllEnded(g) /\ UNCHANGED workerVars
    BY <1>1, <1>4 DEF EndRound, EndPass, CheckMark, StoreMark, EndFullRefresh, Quiet, workerVars
  <2>2. SentOnce(g)' /\ ClaimedOnce(g)' /\ Counted(g)' /\ AllEnded(g)'
    BY <1>1, <1>2, <2>1 DEF SentOnce, ClaimedOnce, Counted, Announces, At, AllEnded,
                            generation_is_current, workerVars
  <2> QED BY <2>2 DEF Enrolls, Quiet
<1>5. CASE StopCoordinator(g)
  <2>1. /\ AllEnded(g) /\ UNCHANGED worker
        /\ enrolled'[g] = {} /\ loaded'[g] = 0 /\ \A s \in Symbols : sent'[g][s] = 0
    BY <1>1, <1>5 DEF StopCoordinator, Quiet
  <2>2. SentOnce(g)' /\ ClaimedOnce(g)' /\ AllEnded(g)'
    BY <2>1 DEF SentOnce, ClaimedOnce, Announces, At, AllEnded
  <2>3. Counted(g)'
    BY <2>1, FS_EmptySet DEF Counted, At, AllEnded
  <2> QED BY <2>2, <2>3 DEF Enrolls, Quiet
<1> QED BY <1>3, <1>4, <1>5 DEF Coordinator

LEMMA EnrollStep ==
  Typed /\ StatusInv /\ NothingYet /\ EnrollInv /\ [Next]_vars => EnrollInv'
<1> SUFFICES ASSUME Typed, StatusInv, NothingYet, EnrollInv, [Next]_vars PROVE EnrollInv'
  OBVIOUS
<1>1. ASSUME UNCHANGED <<coordinator, workerVars>>,
             \A h \in Generations :
               generation_is_current(h)' => generation_is_current(h) \/ Untouched(h)
      PROVE  EnrollInv'
  BY <1>1, EnrollFrame DEF EnrollInv, Kept, workerVars
<1>2. ASSUME NEW g \in Generations, \A h \in Generations \ {g} : Kept(h),
             UNCHANGED feed_generation, Enrolls(g)'
      PROVE  EnrollInv'
  BY <1>2, EnrollFrame DEF EnrollInv, generation_is_current
<1>3. CASE apply_universe_profile_serial_with
  <2>1. CASE SpawnCoordinator
    <3>1. /\ feed_generation \in Generations /\ Untouched(feed_generation)
          /\ UNCHANGED <<feed_generation, workerVars>>
          /\ \A h \in Generations \ {feed_generation} : Kept(h)
      BY <2>1 DEF SpawnCoordinator, StatusInv, StatusIsPrepared, NothingYet, ToCome, Preparing,
                  Kept, Typed, CoordinatorT, workerVars
    <3> DEFINE f == feed_generation
    <3>2. AllEnded(f)
      BY <3>1 DEF Untouched, AllEnded, NoWork
    <3>3. Enrolls(f)
      BY <3>1 DEF EnrollInv
    <3>4. Quiet(f)'
      BY <3>1, <3>2 DEF Quiet, AllEnded, workerVars
    <3>5. SentOnce(f)' /\ ClaimedOnce(f)' /\ Counted(f)'
      BY <3>1, <3>3 DEF Enrolls, SentOnce, ClaimedOnce, Counted, Announces, At,
                        generation_is_current, workerVars
    <3> QED BY <1>2, <3>1, <3>4, <3>5 DEF Enrolls
  <2>2. CASE ~SpawnCoordinator
    <3>1. UNCHANGED <<coordinator, workerVars>>
      BY <1>3, <2>2, ApplyKeepsAll
    <3>2. ASSUME NEW p \in Profiles, BeginApply(p)
          PROVE  \A h \in Generations : generation_is_current(h)' => Untouched(h)
      BY <3>2, FeedAssumption DEF BeginApply, generation_is_current, NothingYet, ToCome, Typed,
                                  GenerationT, Generations
    <3>3. ASSUME \/ reset_initial_pass_completion \/ clear_universe \/ SetActiveProfile
                 \/ ResetFeedStatus \/ SpawnFails \/ SpawnOthers
          PROVE  UNCHANGED feed_generation
      BY <3>3 DEF reset_initial_pass_completion, clear_universe, SetActiveProfile,
                  ResetFeedStatus, SpawnFails, SpawnOthers
    <3> QED
      BY <1>1, <1>3, <2>2, <3>1, <3>2, <3>3
         DEF apply_universe_profile_serial_with, generation_is_current
  <2> QED BY <2>1, <2>2
<1>4. ASSUME NEW g \in Generations, Coordinator(g) PROVE EnrollInv'
  BY <1>2, <1>4, CoordinatorKeepsOthers, CoordinatorEnrolls DEF EnrollInv
<1>5. ASSUME NEW g \in Generations, NEW w \in Workers, RefreshWorker(g, w) PROVE EnrollInv'
  BY <1>2, <1>5, WorkerKeepsOthers, WorkerEnrolls DEF EnrollInv
<1>6. CASE (\E g \in Generations : SnapshotWorker(g)) \/ BeginLoad \/ LoadQuote \/ UNCHANGED vars
  BY <1>1, <1>6, OthersKeepAll DEF generation_is_current
<1> QED BY <1>3, <1>4, <1>5, <1>6 DEF Next

(* The count that the status shows.                                        *)
LEMMA ShownFrame ==
  ASSUME ShownInv, UNCHANGED <<feed_generation, active_symbols, feed_status, apply>>,
         feed_generation \in Generations => Kept(feed_generation)
  PROVE  ShownInv'
BY DEF ShownInv, Shown, Kept, At

LEMMA ApplyShows ==
  ASSUME Typed, StatusInv, NothingYet, NothingYet', ShownInv, apply_universe_profile_serial_with
  PROVE  ShownInv'
<1> USE FeedAssumption
<1>1. /\ feed_generation \in 0..MAX_GENERATION
      /\ apply.step # "idle" => feed_generation \in Generations
  BY DEF Typed, GenerationT, StatusInv, StatusIsPrepared
<1>2. CASE SpawnCoordinator \/ SpawnFails \/ SpawnOthers
  <2>1. /\ apply.step \in {"spawning", "spawned"} /\ UNCHANGED <<workerVars, feed_generation>>
        /\ UNCHANGED active_symbols
        /\ feed_status'.symbols_loaded = feed_status.symbols_loaded
    BY <1>2 DEF SpawnCoordinator, SpawnFails, SpawnOthers, profileVars, Typed, StatusT, Status
  <2> QED BY <1>1, <2>1 DEF ShownInv, Shown, At, workerVars
<1>3. CASE \/ \E p \in Profiles : BeginApply(p)
           \/ reset_initial_pass_completion \/ clear_universe \/ SetActiveProfile
           \/ ResetFeedStatus
  <2>1. feed_generation' \in Generations /\ Preparing'
    <3>1. ASSUME NEW p \in Profiles, BeginApply(p)
          PROVE  feed_generation' \in Generations /\ Preparing'
      BY <1>1, <3>1 DEF BeginApply, Preparing, Generations
    <3> QED
      BY <1>1, <1>3, <3>1 DEF reset_initial_pass_completion, clear_universe, SetActiveProfile,
                        ResetFeedStatus, Preparing, Typed, ApplyT, Adoption
  <2>2. Untouched(feed_generation)'
    BY <2>1 DEF NothingYet, ToCome
  <2>3. apply'.step \in {"idle", "spawning", "spawned"} => feed_status'.symbols_loaded = 0
    <3>1. ASSUME NEW p \in Profiles, BeginApply(p) PROVE apply'.step = "bumped"
      BY <3>1 DEF BeginApply
    <3> QED
      BY <1>3, <3>1 DEF reset_initial_pass_completion, clear_universe, SetActiveProfile,
                        ResetFeedStatus, Typed, ApplyT, Adoption
  <2>4. 0 \notin Generations
    BY DEF Generations
  <2> QED BY <2>1, <2>2, <2>3, <2>4 DEF ShownInv, Shown, Untouched
<1> QED BY <1>2, <1>3 DEF apply_universe_profile_serial_with

LEMMA CoordinatorShows ==
  ASSUME Typed, EnrollInv, ShownInv, NEW g \in Generations, Coordinator(g)
  PROVE  ShownInv'
<1>1. /\ \A h \in Generations \ {g} : Kept(h)
      /\ UNCHANGED <<feed_generation, apply, active_symbols, feed_status>>
  BY CoordinatorKeepsOthers
<1>2. CASE g # feed_generation
  BY <1>1, <1>2, ShownFrame
<1>3. CASE g = feed_generation
  <2>1. UNCHANGED <<enrolled, loaded>>
    BY <1>3 DEF Coordinator, StartRound, EndRound, EndPass, CheckMark, StoreMark,
                StartFullRefresh, EndFullRefresh, StopCoordinator, generation_is_current,
                workerVars
  <2>2. UNCHANGED worker \/ \A w \in Workers : ~At(g, w, "announcing")
    <3>1. CASE StartRound(g) \/ StartFullRefresh(g)
      BY <3>1 DEF StartRound, StartFullRefresh, EnrollInv, Enrolls, Quiet, AllEnded, At
    <3> QED BY <3>1 DEF Coordinator, EndRound, EndPass, CheckMark, StoreMark, EndFullRefresh,
                        StopCoordinator, workerVars
  <2> QED BY <1>1, <1>3, <2>1, <2>2 DEF ShownInv, Shown, At
<1> QED BY <1>2, <1>3

LEMMA WorkerShows ==
  ASSUME Typed, EnrollInv, CoverInv, ShownInv, NEW g \in Generations, NEW w \in Workers,
         RefreshWorker(g, w)
  PROVE  ShownInv'
<1> USE FeedAssumption DEF At, Goto
<1>1. /\ \A h \in Generations \ {g} : Kept(h)
      /\ UNCHANGED <<feed_generation, apply, active_symbols>>
  BY WorkerKeepsOthers
<1>2. CASE g # feed_generation
  <2>1. UNCHANGED feed_status
    BY <1>2 DEF RefreshWorker, DrainBatch, BatchDone, RefreshQuote, RefreshChart, Enroll,
                Announce, Judge, StopWorker, generation_is_current
  <2> QED BY <1>1, <1>2, <2>1, ShownFrame
<1>3. CASE g = feed_generation
  <2>1. /\ worker \in [Generations -> [Workers -> Work]] /\ WorkHasSymbol(worker[g][w])
        /\ enrolled \in [Generations -> SUBSET Symbols] /\ loaded \in [Generations -> Nat]
        /\ feed_status \in Status /\ active_symbols \subseteq Symbols
        /\ Counted(g) /\ Inside(g) /\ enrolled[g] \subseteq active_symbols /\ g # 0
    BY <1>3 DEF Typed, WorkerT, EnrolledT, StatusT, ProfileT, EnrollInv, Enrolls, CoverInv,
                Covers, ShownInv, Generations
  <2>2. \A v \in Workers \ {w} : worker'[g][v] = worker[g][v]
    <3> USE <2>1
    <3>1. CASE DrainBatch(g, w) \/ BatchDone(g, w)
      BY <3>1 DEF DrainBatch, BatchDone
    <3>2. CASE RefreshQuote(g, w)
      BY <3>2 DEF RefreshQuote
    <3>3. CASE RefreshChart(g, w)
      BY <3>3 DEF RefreshChart
    <3>4. CASE Enroll(g, w)
      BY <3>4 DEF Enroll
    <3>5. CASE Announce(g, w)
      BY <3>5 DEF Announce
    <3>6. CASE Judge(g, w) \/ StopWorker(g, w)
      BY <3>6 DEF Judge, StopWorker
    <3> QED BY <3>1, <3>2, <3>3, <3>4, <3>5, <3>6 DEF RefreshWorker
  <2>3. SUFFICES /\ enrolled'[g] \subseteq active_symbols
                 /\ Shown(g) => Shown(g)'
    BY <1>1, <1>3, <2>1 DEF ShownInv
  <2>4. ASSUME worker[g][w].step # "announcing", UNCHANGED <<enrolled, loaded, feed_status>>
        PROVE  /\ enrolled'[g] \subseteq active_symbols
               /\ Shown(g) => Shown(g)'
    BY <2>1, <2>2, <2>4 DEF Shown
  <2>5. CASE \/ DrainBatch(g, w) \/ BatchDone(g, w) \/ RefreshQuote(g, w) \/ RefreshChart(g, w)
             \/ Judge(g, w)
    BY <2>4, <2>5 DEF DrainBatch, BatchDone, RefreshQuote, RefreshChart, Judge
  <2>6. ~StopWorker(g, w)
    BY <1>3 DEF StopWorker, generation_is_current
  <2>7. CASE Enroll(g, w)
    <3> DEFINE s == worker[g][w].symbol
    <3>1. s \in active_symbols /\ worker[g][w].step = "queueing" /\ UNCHANGED feed_status
      BY <2>1, <2>7 DEF Enroll, WorkHasSymbol, Inside, Holds
    <3>2. CASE s \in enrolled[g]
      BY <2>4, <2>7, <3>1, <3>2 DEF Enroll
    <3>3. CASE s \notin enrolled[g]
      <4>1. /\ enrolled'[g] = enrolled[g] \cup {s} /\ loaded'[g] = loaded[g] + 1
            /\ worker'[g][w].step = "announcing" /\ worker'[g][w].n = loaded'[g]
        BY <2>1, <2>7, <3>3 DEF Enroll, Work
      <4>2. Shown(g) => Shown(g)'
        BY <2>1, <3>1, <4>1 DEF Shown, Status
      <4> QED BY <2>1, <3>1, <4>1, <4>2
    <3> QED BY <3>2, <3>3
  <2>8. CASE Announce(g, w)
    <3> DEFINE n == worker[g][w].n
               m == feed_status.symbols_loaded
    <3>1. /\ worker[g][w].step = "announcing" /\ UNCHANGED <<enrolled, loaded>>
          /\ feed_status'.symbols_loaded = MaxLoaded(g, n)
      BY <2>1, <2>8 DEF Announce, Status
    <3>2. n \in Nat /\ m \in Nat /\ n <= loaded[g] /\ loaded[g] = Cardinality(enrolled[g])
      BY <2>1, <3>1 DEF Counted, Work, Status
    <3>3. IsFiniteSet(active_symbols)
      BY <2>1, FS_Subset
    <3>4. /\ Cardinality(enrolled[g]) <= Cardinality(active_symbols)
          /\ Cardinality(active_symbols) \in Nat
      BY <2>1, <3>3, FS_Subset, FS_CardinalityType
    <3>5. MaxLoaded(g, n) = IF m > n THEN m ELSE n
      BY <2>1, <3>2, <3>4 DEF MaxLoaded
    <3>6. Shown(g) => Shown(g)'
      <4>1. loaded[g] \in Nat /\ loaded'[g] = loaded[g]
        BY <2>1, <3>1
      <4> QED BY <2>2, <3>1, <3>2, <3>5, <4>1 DEF Shown
    <3> QED BY <2>1, <3>1, <3>6
  <2> QED BY <2>5, <2>6, <2>7, <2>8 DEF RefreshWorker
<1> QED BY <1>2, <1>3

LEMMA ShownStep ==
  Typed /\ StatusInv /\ NothingYet /\ NothingYet' /\ CoverInv /\ EnrollInv /\ ShownInv
    /\ [Next]_vars => ShownInv'
<1> SUFFICES ASSUME Typed, StatusInv, NothingYet, NothingYet', CoverInv, EnrollInv, ShownInv,
                    [Next]_vars
             PROVE  ShownInv'
  OBVIOUS
<1>1. CASE (\E g \in Generations : SnapshotWorker(g)) \/ BeginLoad \/ LoadQuote \/ UNCHANGED vars
  BY <1>1, OthersKeepAll, ShownFrame DEF Kept, workerVars
<1> QED BY <1>1, ApplyShows, CoordinatorShows, WorkerShows DEF Next

LEMMA InitEnrolls == Init => EnrollInv /\ ShownInv
<1> SUFFICES ASSUME Init PROVE EnrollInv /\ ShownInv
  OBVIOUS
<1>1. \A g \in Generations : Untouched(g)
  BY DEF Init, Untouched
<1>2. 0 \notin Generations
  BY DEF Generations
<1> QED BY <1>1, <1>2, UntouchedEnrolls DEF Init, EnrollInv, ShownInv

(* Every symbol is sent to enrichment once by a generation, whichever of   *)
(* its workers see it visible, and the count shown is of those claimed.    *)
THEOREM Enrolled == Spec => []EnrolledOnce
BY InitStatus, InitEnrolls, AlwaysTyped, StatusStep, NothingYetStep, CoverStep, EnrollStep,
   ShownStep, EnrolledMeans, PTL DEF Spec
=============================================================================
