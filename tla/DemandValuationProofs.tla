------------------------ MODULE DemandValuationProofs ------------------------
(***************************************************************************)
(* What is proved about DemandValuation, for any symbols, workers, reports *)
(* and bounds: the types, that every valuation shown is of the symbol's    *)
(* fundamentals and by the model of its class, that every claim in flight  *)
(* has somebody who will release it, and that no late failure takes a      *)
(* value away.                                                             *)
(***************************************************************************)
EXTENDS DemandValuation, FiniteSetTheorems, TLAPS

(* The inductive invariant.  An output fits the fundamentals of its symbol;*)
(* cash flows are only ever those of known shares.  That is what a worker  *)
(* relies on which goes on with the analysis it found, its fundamentals    *)
(* having changed meanwhile: it had none to go on with.                    *)
Scans == [step : {"next", "maintain"}, symbol : Symbols \cup {None},
          generation : 0..MAX_GENERATION, class : Texts \cup {None}]

AnalysisFits(s, a, f) ==
  /\ a.fund = f
  /\ classify_business_for(s, f) = IF a.model = "fcff" THEN "operating" ELSE "financial"
  /\ a.model = "fcff" => f.shares

Fits(s, o, f) ==
  /\ o \in Outputs
  /\ o.analysis # None => AnalysisFits(s, o.analysis, f)
  /\ o.envelope # None => o.envelope.fund = f

OperatingFits(j) ==
  /\ j.fund.class = "operating"
  /\ j.analysis # None => j.analysis.fund = j.fund
  /\ j.step = "shares" => j.analysis = None

JobFits(j) ==
  /\ j \in Jobs
  /\ j.step = "free" <=> j.symbol = None
  /\ j.step \notin {"free", "request", "answer"} => j.generation \in 1..MAX_GENERATION
  /\ j.step \in {"refresh", "shares", "publish"} => j.fund \in Fundamentals
  /\ j.step = "refresh" => j.class = "financial"
  /\ j.analysis # None => j.analysis.model = "fcff" /\ j.analysis.fund.shares
  /\ j.class = "operating" /\ j.step \in {"shares", "publish"} => OperatingFits(j)

MarketT == instance \in Instances /\ feed_generation \in 1..MAX_GENERATION /\ clearing \in BOOLEAN
InputT == /\ fundamentals \in [Symbols -> Fundamentals \cup {None}]
          /\ price \in [Symbols -> 0..MAX_QUOTES]
FitsT == /\ out \in [Symbols -> Outputs]
         /\ \A s \in Symbols : Fits(s, out[s], fundamentals[s])
InflightT == valuation_inflight \subseteq (1..MAX_GENERATION) \X Symbols
DetailT == JobFits(detail)
WorkerT == /\ worker \in [Valuers -> Jobs]
           /\ \A w \in Valuers : JobFits(worker[w])
EdgarT == edgar \in Scans /\ (edgar.step = "maintain" => edgar.symbol \in Symbols)

IInv == MarketT /\ InputT /\ FitsT /\ InflightT /\ DetailT /\ WorkerT /\ EdgarT

LEMMA IInvGives == IInv => TypeOK /\ ValuationFits
<1> SUFFICES ASSUME IInv PROVE TypeOK /\ ValuationFits
  OBVIOUS
<1>1. TypeOK
  BY DEF IInv, TypeOK, MarketT, InputT, FitsT, InflightT, DetailT, WorkerT, EdgarT, Scans,
         JobFits, At
<1>2. ValuationFits
  BY DEF IInv, FitsT, Fits, AnalysisFits, ValuationFits, ValuationMatchesInputs, RoutedByClass
<1> QED BY <1>1, <1>2

(* A part stays as long as its variables do.                               *)
LEMMA Frame ==
  /\ MarketT /\ UNCHANGED market => MarketT'
  /\ InputT /\ UNCHANGED inputs => InputT'
  /\ FitsT /\ UNCHANGED <<out, fundamentals>> => FitsT'
  /\ InflightT /\ UNCHANGED valuation_inflight => InflightT'
  /\ DetailT /\ UNCHANGED detail => DetailT'
  /\ WorkerT /\ UNCHANGED worker => WorkerT'
  /\ EdgarT /\ UNCHANGED edgar => EdgarT'
<1>1. FitsT /\ UNCHANGED <<out, fundamentals>> => FitsT'
  BY DEF FitsT
<1>2. DetailT /\ UNCHANGED detail => DetailT'
  BY DEF DetailT
<1>3. WorkerT /\ UNCHANGED worker => WorkerT'
  BY DEF WorkerT
<1> QED BY <1>1, <1>2, <1>3 DEF MarketT, InputT, InflightT, EdgarT, market, inputs

LEMMA OutUpdate ==
  ASSUME FitsT, NEW s \in Symbols, NEW o, Fits(s, o, fundamentals[s]),
         out' = [out EXCEPT ![s] = o], UNCHANGED fundamentals
  PROVE  FitsT'
<1>1. o \in Outputs
  BY DEF Fits
<1>2. out' \in [Symbols -> Outputs]
  BY <1>1 DEF FitsT
<1>3. ASSUME NEW t \in Symbols PROVE Fits(t, out'[t], fundamentals'[t])
  BY <1>3 DEF FitsT
<1> QED BY <1>2, <1>3 DEF FitsT

LEMMA WorkerUpdate ==
  ASSUME WorkerT, NEW w \in Valuers, NEW j, JobFits(j), worker' = [worker EXCEPT ![w] = j]
  PROVE  WorkerT'
<1>1. worker' \in [Valuers -> Jobs]
  BY DEF WorkerT, JobFits
<1>2. ASSUME NEW v \in Valuers PROVE JobFits(worker'[v])
  BY DEF WorkerT
<1> QED BY <1>1, <1>2 DEF WorkerT

-----------------------------------------------------------------------------
(* What the engine's operators return fits.                                *)

LEMMA ClearFits ==
  ASSUME NEW s, NEW f, NEW o \in Outputs
  PROVE  Fits(s, clear_dcf(o), f)
BY DEF Fits, clear_dcf, Outputs, Analyses, Envelopes

LEMMA ResidualFits ==
  ASSUME NEW s \in Symbols, NEW f \in Fundamentals, ResidualIncome(s, f) # None
  PROVE  ResidualIncome(s, f) \in Analyses /\ AnalysisFits(s, ResidualIncome(s, f), f)
         /\ ResidualIncome(s, f).model = "residual"
BY DEF ResidualIncome, AnalysisFits, Analyses

LEMMA EnsureFits ==
  ASSUME NEW s \in Symbols, NEW f \in Fundamentals \cup {None}, NEW o, Fits(s, o, f)
  PROVE  Fits(s, ensure_model_routed_valuation(o, s, f), f)
<1> DEFINE fresh == IF o.envelope # None /\ ~has_current_operating_valuation(o, f)
                    THEN clear_dcf(o) ELSE o
           result == ResidualIncome(s, f)
           class  == classify_business_for(s, f)
           priced == fresh.analysis # None /\ fresh.analysis.model = "residual"
<1>1. CASE f = None
  BY <1>1 DEF ensure_model_routed_valuation
<1>2. CASE f # None
  <2>1. Fits(s, fresh, f)
    BY ClearFits DEF Fits
  <2>2. fresh \in Outputs
    BY <2>1 DEF Fits
  <2>3. result # None => Fits(s, [fresh EXCEPT !.analysis = result], f)
    <3> HIDE DEF fresh
    <3> SUFFICES ASSUME result # None PROVE Fits(s, [fresh EXCEPT !.analysis = result], f)
      OBVIOUS
    <3>1. result \in Analyses /\ AnalysisFits(s, result, f)
      BY <1>2, ResidualFits
    <3> HIDE DEF result
    <3>2. [fresh EXCEPT !.analysis = result] \in Outputs
      BY <3>1, <2>2 DEF Outputs
    <3> QED BY <3>1, <3>2, <2>1, <2>2 DEF Fits, Outputs
  <2>4. Fits(s, clear_dcf(fresh), f)
    BY <2>2, ClearFits
  <2>5. ensure_model_routed_valuation(o, s, f) =
          CASE class = "missing" -> clear_dcf(fresh)
            [] class = "operating" \/ priced -> fresh
            [] OTHER -> IF result = None THEN clear_dcf(fresh)
                        ELSE [fresh EXCEPT !.analysis = result]
    BY <1>2 DEF ensure_model_routed_valuation
  <2> HIDE DEF fresh, result, class, priced
  <2>6. ensure_model_routed_valuation(o, s, f) \in
          {clear_dcf(fresh), fresh} \cup
          (IF result = None THEN {} ELSE {[fresh EXCEPT !.analysis = result]})
    BY <2>5
  <2> QED BY <2>1, <2>3, <2>4, <2>6
<1> QED BY <1>1, <1>2

LEMMA IngestAnalysisFits ==
  ASSUME NEW s \in Symbols, NEW f \in Fundamentals \cup {None}, NEW o, Fits(s, o, f),
         NEW a \in Analyses, a # None, AnalysisFits(s, a, f)
  PROVE  Fits(s, ingest_dcf_analysis(o, s, f, a), f)
BY DEF Fits, ingest_dcf_analysis, Outputs, Analyses, Envelopes

LEMMA IngestOperatingFits ==
  ASSUME NEW s \in Symbols, NEW f \in Fundamentals \cup {None}, NEW o, Fits(s, o, f),
         NEW a \in Analyses, a # None => AnalysisFits(s, a, f),
         NEW e \in Envelopes, e # None => e.fund = f
  PROVE  Fits(s, ingest_operating_valuation(o, s, f, a, e), f)
<1> DEFINE p == IF a = None THEN o ELSE ingest_dcf_analysis(o, s, f, a)
<1>1. Fits(s, p, f)
  BY IngestAnalysisFits
<1>2. ingest_operating_valuation(o, s, f, a, e) = [p EXCEPT !.envelope = e, !.error = FALSE]
  BY DEF ingest_operating_valuation
<1> HIDE DEF p
<1> QED BY <1>1, <1>2 DEF Fits, Outputs

LEMMA EnvelopeTyped ==
  ASSUME NEW f \in Fundamentals, NEW status \in {"selected", "unavailable"},
         NEW forward \in {"ok", "unavailable", "not_attempted"}
  PROVE  Envelope(f, status, forward) \in Envelopes /\ Envelope(f, status, forward).fund = f
BY DEF Envelope, Envelopes

LEMMA RevisionTyped ==
  ASSUME NEW o \in Outputs PROVE dcf_revision_key(o) \in Outputs
BY DEF dcf_revision_key, Outputs, Envelopes

LEMMA FailureFits ==
  ASSUME NEW s \in Symbols, NEW f \in Fundamentals, NEW o \in Outputs
  PROVE  Fits(s, FailureOutput(o, f), f)
<1>1. CASE classify_business(f) # "operating"
  BY <1>1 DEF FailureOutput, Fits, clear_dcf, Outputs, Analyses, Envelopes
<1>2. CASE classify_business(f) = "operating"
  BY <1>2, EnvelopeTyped DEF FailureOutput, Unavailable, Fits, Outputs, Analyses
<1> QED BY <1>1, <1>2

LEMMA ClearedFits ==
  ASSUME NEW s \in Symbols, NEW f \in Fundamentals \cup {None}, NEW new \in Fundamentals,
         NEW o, Fits(s, o, f)
  PROVE  Fits(s, ClearedBy(o, f, new), new)
<1>1. CASE f # None /\ f # new
  BY <1>1, ClearFits DEF ClearedBy, Fits
<1>2. CASE f = new
  BY <1>2 DEF ClearedBy
<1>3. CASE f = None
  <2>1. ClearedBy(o, f, new) = o
    BY <1>3 DEF ClearedBy
  <2>2. o.analysis = None /\ o.envelope = None
    BY <1>3, DemandAssumption DEF Fits, AnalysisFits, Outputs, Analyses, Envelopes
  <2> QED BY <2>1, <2>2 DEF Fits
<1> QED BY <1>1, <1>2, <1>3

\* A report is merged and the outputs of other fundamentals are cleared.
LEMMA IngestFits ==
  ASSUME InputT, FitsT, NEW s \in Symbols, NEW r \in Fundamentals, ingest_fundamentals(s, r)
  PROVE  /\ fundamentals' \in [Symbols -> Fundamentals \cup {None}]
         /\ FitsT'
         /\ fundamentals'[s] = Merged(fundamentals[s], r)
         /\ fundamentals'[s] \in Fundamentals
<1> DEFINE new == Merged(fundamentals[s], r)
           o   == ClearedBy(out[s], fundamentals[s], new)
<1>1. new \in Fundamentals
  BY DEF Merged, InputT, Fundamentals
<1>2. /\ fundamentals' = [fundamentals EXCEPT ![s] = new]
      /\ out' = [out EXCEPT ![s] = ensure_model_routed_valuation(o, s, new)]
  BY DEF ingest_fundamentals
<1>3. Fits(s, out[s], fundamentals[s]) /\ out[s] \in Outputs
  BY DEF FitsT
<1>4. Fits(s, o, new)
  BY <1>1, <1>3, ClearedFits DEF InputT
<1> HIDE DEF new, o
<1>5. Fits(s, ensure_model_routed_valuation(o, s, new), new)
  BY <1>1, <1>4, EnsureFits
<1>6. ensure_model_routed_valuation(o, s, new) \in Outputs
  BY <1>5 DEF Fits
<1>7. fundamentals' \in [Symbols -> Fundamentals \cup {None}]
  BY <1>1, <1>2 DEF InputT
<1>8. out' \in [Symbols -> Outputs]
  BY <1>2, <1>6 DEF FitsT
<1>9. ASSUME NEW t \in Symbols PROVE Fits(t, out'[t], fundamentals'[t])
  <2>1. CASE t = s
    BY <2>1, <1>2, <1>5 DEF InputT, FitsT
  <2>2. CASE t # s
    BY <2>2, <1>2 DEF InputT, FitsT
  <2> QED BY <2>1, <2>2
<1>10. FitsT'
  BY <1>8, <1>9 DEF FitsT
<1>11. fundamentals'[s] = new
  BY <1>2 DEF InputT
<1> QED BY <1>1, <1>7, <1>10, <1>11 DEF new

-----------------------------------------------------------------------------
(* Jobs.                                                                    *)

LEMMA Bounds ==
  /\ MAX_GENERATION \in Nat /\ MAX_GENERATION >= 1 /\ MAX_QUOTES \in Nat
  /\ None \notin Symbols /\ None \notin Fundamentals
BY DemandAssumption

LEMMA NoJobFits == JobFits(NoJob)
BY Bounds DEF JobFits, NoJob, NoOutput, Jobs, Outputs, Analyses, Envelopes

LEMMA InitHolds == Init => IInv
<1> SUFFICES ASSUME Init PROVE IInv
  OBVIOUS
<1>1. MarketT
  <2>1. feed_generation = 1 /\ 1 \in 1..MAX_GENERATION
    BY Bounds DEF Init
  <2>2. instance \in Instances /\ clearing \in BOOLEAN
    BY DEF Init
  <2> QED BY <2>1, <2>2 DEF MarketT
<1>7. InflightT
  BY DEF Init, InflightT
<1>6. InputT
  BY Bounds DEF Init, InputT
<1>5. EdgarT
  BY Bounds DEF Init, EdgarT, NoScan, Scans
<1>2. \A s \in Symbols : Fits(s, NoOutput, None)
  BY DEF Fits, NoOutput, Outputs, Analyses, Envelopes
<1>3. FitsT
  BY <1>2 DEF Init, FitsT, Fits
<1>4. DetailT /\ WorkerT
  BY NoJobFits DEF Init, DetailT, WorkerT, JobFits
<1> QED BY <1>1, <1>3, <1>4, <1>5, <1>6, <1>7 DEF IInv

\* What a job remembers is typed.
LEMMA CaptureTyped ==
  ASSUME NEW j \in Jobs, NEW f \in Fundamentals \cup {None}, NEW p \in 0..MAX_QUOTES,
         NEW o \in Outputs
  PROVE  /\ Capture(j, f, p, o) \in Jobs
         /\ Capture(j, f, p, o).fund = f
         /\ Capture(j, f, p, o).symbol = j.symbol /\ Capture(j, f, p, o).step = j.step
         /\ Capture(j, f, p, o).generation = j.generation
         /\ Capture(j, f, p, o).class = j.class /\ Capture(j, f, p, o).analysis = j.analysis
<1>1. dcf_revision_key(o) \in Outputs
  BY RevisionTyped
<1>2. Capture(j, f, p, o) = [j EXCEPT !.fund = f, !.price = p, !.rev = dcf_revision_key(o)]
  BY DEF Capture
<1> HIDE DEF Outputs, Fundamentals, Analyses
<1> QED BY <1>1, <1>2 DEF Jobs

\* A job that goes to a step with nothing to go on with.
LEMMA GotoFits ==
  ASSUME NEW j, JobFits(j), j.step \notin {"free", "request", "answer"},
         NEW step \in {"start", "spawn", "failed", "release"}
  PROVE  JobFits([j EXCEPT !.step = step])
<1> DEFINE k == [j EXCEPT !.step = step]
<1>1. /\ k \in Jobs /\ k.step = step
      /\ k.symbol = j.symbol /\ k.generation = j.generation /\ k.analysis = j.analysis
  BY DEF JobFits, Jobs
<1> HIDE DEF k
<1>2. step \notin {"free", "request", "answer", "refresh", "shares", "publish"}
  OBVIOUS
<1>3. JobFits(k)
  BY <1>1, <1>2 DEF JobFits
<1> QED BY <1>3 DEF k

LEMMA EndFits ==
  ASSUME WorkerT, NEW w \in Valuers, worker[w].step \notin {"free", "request", "answer"}, End(w)
  PROVE  WorkerT'
<1>1. JobFits(worker[w])
  BY DEF WorkerT
<1> DEFINE k == [NoJob EXCEPT !.step = "release", !.symbol = worker[w].symbol,
                              !.generation = worker[w].generation]
<1>2. worker[w].symbol \in Symbols /\ worker[w].generation \in 0..MAX_GENERATION
      /\ worker[w].generation \in 1..MAX_GENERATION
  BY <1>1 DEF JobFits, Jobs
<1>3. NoJob \in Jobs /\ NoJob.analysis = None
  BY NoJobFits DEF JobFits, NoJob
<1>4. /\ k \in Jobs /\ k.step = "release" /\ k.analysis = None
      /\ k.symbol = worker[w].symbol /\ k.generation = worker[w].generation
  BY <1>2, <1>3 DEF Jobs
<1>5. worker' = [worker EXCEPT ![w] = IF w = Auditor THEN NoJob ELSE k]
  BY DEF End
<1> HIDE DEF k
<1>6. JobFits(k)
  BY <1>2, <1>4, Bounds DEF JobFits
<1> QED BY <1>5, <1>6, NoJobFits, WorkerUpdate

\* The failure of a job that has a symbol.
LEMMA FailedFits ==
  ASSUME InputT, FitsT, NEW j, JobFits(j), j.symbol \in Symbols, Failed(j), UNCHANGED fundamentals
  PROVE  FitsT'
<1> DEFINE s == j.symbol
<1>1. CASE out' = out
  BY <1>1, Frame
<1>2. CASE out' # out
  <2>1. /\ fundamentals[s] # None
        /\ out' = [out EXCEPT ![s] = FailureOutput(out[s], fundamentals[s])]
    BY <1>2 DEF Failed
  <2>2. fundamentals[s] \in Fundamentals /\ out[s] \in Outputs
    BY <2>1 DEF InputT, FitsT
  <2>3. Fits(s, FailureOutput(out[s], fundamentals[s]), fundamentals[s])
    BY <2>2, FailureFits
  <2> QED BY <2>1, <2>3, OutUpdate
<1> QED BY <1>1, <1>2

\* The outputs of a symbol are looked at and routed.
LEMMA RoutedFits ==
  ASSUME InputT, FitsT, NEW s \in Symbols, UNCHANGED fundamentals,
         out' = [out EXCEPT ![s] = ensure_model_routed_valuation(out[s], s, fundamentals[s])]
  PROVE  FitsT'
<1>1. fundamentals[s] \in Fundamentals \cup {None} /\ Fits(s, out[s], fundamentals[s])
  BY DEF InputT, FitsT
<1> QED BY <1>1, EnsureFits, OutUpdate

-----------------------------------------------------------------------------
(* The steps of the inputs and of the market.                              *)

LEMMA ReportKeeps ==
  ASSUME IInv, NEW s \in Symbols, Report(s)
  PROVE  IInv'
<1>1. PICK r \in Reports(fundamentals[s]) : ingest_fundamentals(s, r)
  BY DEF Report
<1>2. r \in Fundamentals
  BY DemandAssumption DEF Reports, IInv, MarketT
<1>3. fundamentals' \in [Symbols -> Fundamentals \cup {None}] /\ FitsT'
  BY <1>1, <1>2, IngestFits DEF IInv
<1>4. UNCHANGED <<market, price, valuation_inflight, detail, worker, edgar>>
  BY DEF Report
<1>5. InputT'
  BY <1>3, <1>4 DEF IInv, InputT
<1> QED BY <1>3, <1>4, <1>5, Frame DEF IInv

LEMMA QuoteKeeps ==
  ASSUME IInv, NEW s \in Symbols, Quote(s)
  PROVE  IInv'
<1>1. InputT'
  <2>1. price[s] \in 0..MAX_QUOTES /\ price[s] < MAX_QUOTES
    BY DEF IInv, InputT, Quote
  <2>2. price[s] + 1 \in 0..MAX_QUOTES
    BY <2>1, Bounds
  <2> QED BY <2>2 DEF IInv, InputT, Quote
<1> QED BY <1>1, Frame DEF IInv, Quote

LEMMA ExpireKeeps ==
  ASSUME IInv, NEW s \in Symbols, Expire(s)
  PROVE  IInv'
<1> DEFINE o == [out[s] EXCEPT !.envelope = [out[s].envelope EXCEPT !.current = FALSE]]
<1>1. Fits(s, out[s], fundamentals[s]) /\ out[s].envelope # None
  BY DEF IInv, FitsT, Expire
<1>2. Fits(s, o, fundamentals[s])
  <2>1. out[s].envelope \in Envelopes \ {None} /\ out[s].analysis \in Analyses
    BY <1>1 DEF Fits, Outputs
  <2>2. [out[s].envelope EXCEPT !.current = FALSE] \in Envelopes
        /\ [out[s].envelope EXCEPT !.current = FALSE].fund = out[s].envelope.fund
    BY <2>1 DEF Envelopes
  <2> QED BY <1>1, <2>1, <2>2 DEF Fits, Outputs
<1>3. out' = [out EXCEPT ![s] = o] /\ UNCHANGED fundamentals
  BY DEF Expire, inputs
<1>4. FitsT'
  BY <1>2, <1>3, OutUpdate DEF IInv
<1> QED BY <1>4, Frame DEF IInv, Expire

LEMMA BumpKeeps == IInv /\ Bump => IInv'
<1> SUFFICES ASSUME IInv, Bump PROVE IInv'
  OBVIOUS
<1>1. MarketT'
  BY Bounds DEF IInv, MarketT, Bump
<1>2. UNCHANGED <<inputs, out, valuation_inflight, detail, worker, edgar>>
  BY DEF Bump
<1>3. UNCHANGED fundamentals
  BY <1>2 DEF inputs
<1> QED BY <1>1, <1>2, <1>3, Frame DEF IInv

LEMMA ClearKeeps == IInv /\ clear_universe => IInv'
<1> SUFFICES ASSUME IInv, clear_universe PROVE IInv'
  OBVIOUS
<1>1. MarketT'
  BY DEF IInv, MarketT, clear_universe
<1>2. InputT'
  BY Bounds DEF InputT, clear_universe
<1>3. \A s \in Symbols : Fits(s, NoOutput, None)
  BY DEF Fits, NoOutput, Outputs, Analyses, Envelopes
<1>4. FitsT'
  BY <1>3 DEF FitsT, Fits, clear_universe
<1>5. UNCHANGED <<valuation_inflight, detail, worker, edgar>>
  BY DEF clear_universe
<1> QED BY <1>1, <1>2, <1>4, <1>5, Frame DEF IInv

-----------------------------------------------------------------------------
(* The steps of the detail command.                                        *)

\* A request and its answer remember nothing but their symbol.
LEMMA AskFits ==
  ASSUME NEW s \in Symbols, NEW step \in {"request", "answer"}
  PROVE  JobFits([NoJob EXCEPT !.step = step, !.symbol = s])
<1> DEFINE k == [NoJob EXCEPT !.step = step, !.symbol = s]
<1>1. NoJob \in Jobs /\ NoJob.analysis = None
  BY NoJobFits DEF JobFits, NoJob
<1>2. k \in Jobs /\ k.step = step /\ k.symbol = s /\ k.analysis = None
  BY <1>1 DEF Jobs
<1> HIDE DEF k
<1>3. JobFits(k)
  BY <1>2, Bounds DEF JobFits
<1> QED BY <1>3 DEF k

LEMMA DetailSymbol ==
  ASSUME DetailT, detail.step # "free"
  PROVE  detail.symbol \in Symbols /\ JobFits(Answering)
<1>1. detail.symbol \in Symbols
  BY DEF DetailT, JobFits, Jobs
<1> QED BY <1>1, AskFits DEF Answering

LEMMA OpenDetailKeeps ==
  ASSUME IInv, NEW s \in Symbols, OpenDetail(s)
  PROVE  IInv'
<1>1. FitsT'
  BY RoutedFits DEF IInv, OpenDetail, inputs
<1>2. DetailT'
  BY AskFits DEF OpenDetail, DetailT
<1> QED BY <1>1, <1>2, Frame DEF IInv, OpenDetail

LEMMA RequestKeeps == IInv /\ Request => IInv'
<1> SUFFICES ASSUME IInv, Request PROVE IInv'
  OBVIOUS
<1> DEFINE s == detail.symbol
           f == fundamentals[s]
           c == Capture(detail, f, price[s], out[s])
           k == [c EXCEPT !.step = "claim", !.generation = feed_generation]
<1>1. /\ s \in Symbols /\ JobFits(Answering)
      /\ detail.step = "request" /\ JobFits(detail) /\ feed_generation \in 1..MAX_GENERATION
  BY DetailSymbol DEF IInv, Request, DetailAt, DetailT, MarketT
<1>2. f \in Fundamentals \cup {None} /\ price[s] \in 0..MAX_QUOTES /\ Fits(s, out[s], f)
  BY <1>1 DEF IInv, InputT, FitsT
<1>3. UNCHANGED <<market, inputs, valuation_inflight, worker, edgar>>
  BY DEF Request
<1>4. CASE detail' = k /\ UNCHANGED out
  <2>1. /\ c \in Jobs /\ c.symbol = s /\ c.analysis = detail.analysis
    BY <1>1, <1>2, CaptureTyped DEF JobFits, Fits
  <2> HIDE DEF c
  <2>6. feed_generation \in 0..MAX_GENERATION
    BY <1>1, Bounds
  <2>2. /\ k \in Jobs /\ k.step = "claim" /\ k.generation = feed_generation
        /\ k.symbol = s /\ k.analysis = detail.analysis
    BY <2>1, <2>6 DEF Jobs
  <2> HIDE DEF k
  <2>3. JobFits(k)
    BY <1>1, <2>2, Bounds DEF JobFits
  <2>4. DetailT'
    BY <1>4, <2>3 DEF DetailT
  <2>5. UNCHANGED <<out, fundamentals>>
    BY <1>3, <1>4 DEF inputs
  <2> QED BY <1>3, <2>4, <2>5, Frame DEF IInv
<1> DEFINE e == Envelope(f, "unavailable", "not_attempted")
<1>5. CASE /\ detail' = Answering
           /\ out' = IF f # None /\ classify_business(f) = "missing"
                     THEN [out EXCEPT ![s] = ingest_operating_valuation(out[s], s, f, None, e)]
                     ELSE out
  <2>1. DetailT'
    BY <1>1, <1>5 DEF DetailT
  <2>2. UNCHANGED fundamentals
    BY <1>3 DEF inputs
  <2>3. FitsT'
    <3>1. CASE f # None /\ classify_business(f) = "missing"
      <4>1. e \in Envelopes /\ e.fund = f /\ None \in Analyses
        BY <1>2, <3>1, EnvelopeTyped DEF Analyses
      <4> HIDE DEF e
      <4>2. Fits(s, ingest_operating_valuation(out[s], s, f, None, e), f)
        BY <1>1, <1>2, <4>1, IngestOperatingFits
      <4>3. out' = [out EXCEPT ![s] = ingest_operating_valuation(out[s], s, f, None, e)]
        BY <1>5, <3>1
      <4> QED BY <1>1, <2>2, <4>2, <4>3, OutUpdate DEF IInv
    <3>2. CASE ~(f # None /\ classify_business(f) = "missing")
      BY <1>5, <2>2, <3>2, Frame DEF IInv
    <3> QED BY <3>1, <3>2
  <2> QED BY <1>3, <2>1, <2>3, Frame DEF IInv
<1>6. \/ detail' = k /\ UNCHANGED out
      \/ /\ detail' = Answering
         /\ out' = IF f # None /\ classify_business(f) = "missing"
                   THEN [out EXCEPT ![s] = ingest_operating_valuation(out[s], s, f, None, e)]
                   ELSE out
  BY DEF Request
<1> QED BY <1>4, <1>5, <1>6

LEMMA ClaimKeeps == IInv /\ claim_demand_valuation => IInv'
<1> SUFFICES ASSUME IInv, claim_demand_valuation PROVE IInv'
  OBVIOUS
<1>1. /\ detail.step = "claim" /\ JobFits(detail) /\ JobFits(Answering)
      /\ detail.symbol \in Symbols
  BY DetailSymbol DEF IInv, claim_demand_valuation, DetailAt, DetailT
<1>2. detail.generation \in 1..MAX_GENERATION
  BY <1>1 DEF JobFits
<1>3. InflightT'
  BY <1>1, <1>2 DEF IInv, InflightT, claim_demand_valuation
<1>4. JobFits([detail EXCEPT !.step = "spawn"])
  BY <1>1, GotoFits
<1>5. DetailT'
  BY <1>1, <1>4 DEF claim_demand_valuation, DetailT
<1>6. UNCHANGED <<market, inputs, out, worker, edgar>> /\ UNCHANGED fundamentals
  BY DEF claim_demand_valuation, inputs
<1> QED BY <1>3, <1>5, <1>6, Frame DEF IInv

LEMMA SpawnKeeps == IInv /\ Spawn => IInv'
<1> SUFFICES ASSUME IInv, Spawn PROVE IInv'
  OBVIOUS
<1>1. detail.step = "spawn" /\ JobFits(detail) /\ JobFits(Answering)
  BY DetailSymbol DEF IInv, Spawn, DetailAt, DetailT
<1>2. JobFits([detail EXCEPT !.step = "start"])
  BY <1>1, GotoFits
<1>3. PICK w \in DemandWorkers : worker' = [worker EXCEPT ![w] = [detail EXCEPT !.step = "start"]]
  BY DEF Spawn
<1>4. WorkerT'
  BY <1>2, <1>3, WorkerUpdate DEF IInv, Valuers
<1>5. DetailT'
  BY <1>1 DEF Spawn, DetailT
<1>6. UNCHANGED <<market, inputs, out, valuation_inflight, edgar>> /\ UNCHANGED fundamentals
  BY DEF Spawn, inputs
<1> QED BY <1>4, <1>5, <1>6, Frame DEF IInv

LEMMA SpawnFailsKeeps == IInv /\ SpawnFails => IInv'
<1> SUFFICES ASSUME IInv, SpawnFails PROVE IInv'
  OBVIOUS
<1>1. detail.step = "spawn" /\ JobFits(detail)
  BY DEF IInv, SpawnFails, DetailAt, DetailT
<1>2. DetailT'
  BY <1>1, GotoFits DEF SpawnFails, DetailT
<1>3. InflightT'
  BY DEF IInv, InflightT, SpawnFails
<1>4. UNCHANGED <<market, inputs, out, worker, edgar>> /\ UNCHANGED fundamentals
  BY DEF SpawnFails, inputs
<1> QED BY <1>2, <1>3, <1>4, Frame DEF IInv

LEMMA RecordSpawnFailureKeeps == IInv /\ RecordSpawnFailure => IInv'
<1> SUFFICES ASSUME IInv, RecordSpawnFailure PROVE IInv'
  OBVIOUS
<1>1. JobFits(detail) /\ JobFits(Answering) /\ detail.symbol \in Symbols
  BY DetailSymbol DEF IInv, RecordSpawnFailure, DetailAt, DetailT
<1>2. UNCHANGED <<market, inputs, valuation_inflight, worker, edgar>> /\ UNCHANGED fundamentals
  BY DEF RecordSpawnFailure, inputs
<1>3. FitsT'
  BY <1>1, <1>2, FailedFits DEF IInv, RecordSpawnFailure
<1>4. DetailT'
  BY <1>1 DEF RecordSpawnFailure, DetailT
<1> QED BY <1>2, <1>3, <1>4, Frame DEF IInv

LEMMA AnswerKeeps == IInv /\ Answer => IInv'
<1> SUFFICES ASSUME IInv, Answer PROVE IInv'
  OBVIOUS
<1>1. detail.symbol \in Symbols
  BY DetailSymbol DEF IInv, Answer, DetailAt
<1>2. UNCHANGED <<market, inputs, valuation_inflight, worker, edgar>> /\ UNCHANGED fundamentals
  BY DEF Answer, inputs
<1>3. FitsT'
  BY <1>1, <1>2, RoutedFits DEF IInv, Answer
<1>4. DetailT'
  BY NoJobFits DEF Answer, DetailT
<1> QED BY <1>2, <1>3, <1>4, Frame DEF IInv

-----------------------------------------------------------------------------
(* The steps of a computation.                                             *)

Working == {"start", "refresh", "shares", "publish", "failed", "release"}

LEMMA WorkerSymbol ==
  ASSUME WorkerT, NEW w \in Valuers, worker[w].step \in Working
  PROVE  worker[w].symbol \in Symbols /\ JobFits(worker[w])
BY DEF WorkerT, JobFits, Jobs, Working

LEMMA GotoFailed ==
  ASSUME WorkerT, NEW w \in Valuers, worker[w].step \in Working, Goto(w, "failed")
  PROVE  WorkerT'
<1>1. JobFits([worker[w] EXCEPT !.step = "failed"])
  BY GotoFits, WorkerSymbol DEF Working
<1>2. worker' = [worker EXCEPT ![w] = [worker[w] EXCEPT !.step = "failed"]]
  BY DEF Goto
<1> QED BY <1>1, <1>2, WorkerUpdate

LEMMA StartKeeps ==
  ASSUME IInv, NEW w \in Valuers, Start(w)
  PROVE  IInv'
<1> DEFINE job == worker[w]
           s == job.symbol
           f == fundamentals[s]
           c == Capture(job, f, price[s], out[s])
           k == [c EXCEPT !.step = AfterCapture(f), !.class = classify_business(f),
                          !.analysis = Fcff(out[s])]
<1>1. job.step = "start" /\ s \in Symbols /\ JobFits(job)
  BY WorkerSymbol DEF IInv, Start, At, Working
<1>2. UNCHANGED <<market, inputs, out, valuation_inflight, detail, edgar>> /\ UNCHANGED fundamentals
  BY DEF Start, inputs
<1>3. \/ worker' = [worker EXCEPT ![w] = [job EXCEPT !.step = "failed"]]
      \/ f # None /\ worker' = [worker EXCEPT ![w] = k]
  BY DEF Start
<1>4. CASE worker' = [worker EXCEPT ![w] = [job EXCEPT !.step = "failed"]]
  <2>1. WorkerT'
    BY <1>1, <1>4, GotoFailed DEF IInv, Working, Goto
  <2> QED BY <1>2, <2>1, Frame DEF IInv
<1>5. CASE f # None /\ worker' = [worker EXCEPT ![w] = k]
  <2>1. f \in Fundamentals /\ price[s] \in 0..MAX_QUOTES /\ Fits(s, out[s], f)
    BY <1>1, <1>5 DEF IInv, InputT, FitsT
  <2>2. /\ c \in Jobs /\ c.fund = f /\ c.symbol = s /\ c.generation = job.generation
    BY <1>1, <2>1, CaptureTyped DEF JobFits, Fits
  <2>3. /\ Fcff(out[s]) \in Analyses
        /\ Fcff(out[s]) # None => /\ Fcff(out[s]).model = "fcff" /\ Fcff(out[s]).fund = f
                                  /\ f.shares
    BY <2>1 DEF Fcff, Fits, Outputs, Analyses, AnalysisFits
  <2>4. f.class \in Texts /\ f.class \in {"operating", "financial", "missing"}
    BY <2>1, DemandAssumption DEF Fundamentals
  <2>5. AfterCapture(f) \in {"failed", "refresh", "shares", "publish"}
    BY DEF AfterCapture
  <2>6. /\ AfterCapture(f) = "refresh" => f.class = "financial"
        /\ f.class = "operating" /\ AfterCapture(f) = "shares" => ~f.shares
    BY <2>4 DEF AfterCapture, classify_business
  <2> HIDE DEF c
  <2>7. /\ k \in Jobs /\ k.step = AfterCapture(f) /\ k.class = f.class
        /\ k.analysis = Fcff(out[s]) /\ k.fund = f /\ k.symbol = s
        /\ k.generation = job.generation
    BY <2>2, <2>3, <2>4, <2>5 DEF Jobs, classify_business
  <2>8. job.generation \in 1..MAX_GENERATION
    BY <1>1 DEF JobFits
  <2> HIDE DEF k
  <2>9. JobFits(k)
    BY <1>1, <2>1, <2>3, <2>5, <2>6, <2>7, <2>8, Bounds DEF JobFits, OperatingFits
  <2>10. WorkerT'
    BY <1>5, <2>9, WorkerUpdate DEF IInv
  <2> QED BY <1>2, <2>10, Frame DEF IInv
<1> QED BY <1>3, <1>4, <1>5

\* A fetched report is stored only over the inputs it was fetched for: that is why a worker
\* may go on with it.
LEMMA StoreFits ==
  ASSUME IInv, NEW w \in Valuers, worker[w].step \in {"refresh", "shares"},
         NEW r \in Fundamentals, NEW next \in {"shares", "publish"}, Store(w, r, next),
         worker[w].class = "operating" =>
           worker[w].step = "shares" /\ next = "publish" /\ r.class = worker[w].fund.class,
         UNCHANGED price
  PROVE  InputT' /\ FitsT' /\ WorkerT'
<1> DEFINE job == worker[w]
           s == job.symbol
           f == fundamentals'[s]
           c == Capture(job, f, price[s], out'[s])
           k == [c EXCEPT !.step = IF f.shares THEN "publish" ELSE next]
<1>1. s \in Symbols /\ JobFits(job)
  BY WorkerSymbol DEF IInv, Working
<1>2. \/ Goto(w, "failed") /\ UNCHANGED <<fundamentals, out>>
      \/ End(w) /\ UNCHANGED <<fundamentals, out>>
      \/ /\ demand_publication_inputs_are_current(job)
         /\ ingest_fundamentals(s, r)
         /\ worker' = [worker EXCEPT ![w] = k]
  BY DEF Store
<1>3. ASSUME UNCHANGED <<fundamentals, out>> PROVE InputT' /\ FitsT'
  BY <1>3, Frame DEF IInv, inputs
<1>4. CASE Goto(w, "failed") /\ UNCHANGED <<fundamentals, out>>
  BY <1>3, <1>4, GotoFailed DEF IInv, Working
<1>5. CASE End(w) /\ UNCHANGED <<fundamentals, out>>
  BY <1>3, <1>5, EndFits DEF IInv
<1>6. CASE /\ demand_publication_inputs_are_current(job)
           /\ ingest_fundamentals(s, r)
           /\ worker' = [worker EXCEPT ![w] = k]
  <2>1. /\ fundamentals' \in [Symbols -> Fundamentals \cup {None}] /\ FitsT'
        /\ f = Merged(fundamentals[s], r) /\ f \in Fundamentals
    BY <1>1, <1>6, IngestFits DEF IInv
  <2>2. InputT'
    BY <2>1 DEF IInv, InputT
  <2>3. fundamentals[s] = job.fund
    BY <1>6 DEF demand_publication_inputs_are_current, InputsMatch
  <2>4. price[s] \in 0..MAX_QUOTES /\ out'[s] \in Outputs
    BY <1>1, <2>1 DEF IInv, InputT, FitsT
  <2>5. /\ c \in Jobs /\ c.fund = f /\ c.symbol = s /\ c.generation = job.generation
        /\ c.class = job.class /\ c.analysis = job.analysis
    BY <1>1, <2>1, <2>4, CaptureTyped DEF JobFits
  <2> HIDE DEF c
  <2>6. /\ k \in Jobs /\ k.step \in {"shares", "publish"}
        /\ k.step = IF f.shares THEN "publish" ELSE next
        /\ k.fund = f /\ k.symbol = s /\ k.generation = job.generation
        /\ k.class = job.class /\ k.analysis = job.analysis
    BY <2>5 DEF Jobs
  <2> HIDE DEF k
  <2>7. job.class = "operating" => f.class = "operating" /\ job.analysis = None /\ k.step = "publish"
    <3> SUFFICES ASSUME job.class = "operating"
                 PROVE  f.class = "operating" /\ job.analysis = None /\ k.step = "publish"
      OBVIOUS
    <3>1. job.fund.class = "operating" /\ job.analysis = None /\ job.fund \in Fundamentals
      BY <1>1 DEF JobFits, OperatingFits
    <3>2. job.fund # None
      BY <3>1, Bounds
    <3>3. f.class = "operating"
      BY <2>1, <2>3, <3>1, <3>2 DEF Merged
    <3> QED BY <2>6, <3>1, <3>3
  <2>8. job.generation \in 1..MAX_GENERATION
    BY <1>1 DEF JobFits
  <2>9. JobFits(k)
    BY <1>1, <2>1, <2>6, <2>7, <2>8, Bounds DEF JobFits, OperatingFits
  <2>10. WorkerT'
    BY <1>6, <2>9, WorkerUpdate DEF IInv
  <2> QED BY <2>1, <2>2, <2>10
<1> QED BY <1>2, <1>4, <1>5, <1>6

\* A computation that goes on without a report.
LEMMA GoesOn ==
  ASSUME WorkerT, NEW w \in Valuers, NEW step \in {"shares", "publish"}, Goto(w, step),
         \/ worker[w].step = "refresh"
         \/ worker[w].step = "shares" /\ step = "publish"
  PROVE  WorkerT'
<1> DEFINE job == worker[w]
           k == [job EXCEPT !.step = step]
<1>1. JobFits(job)
  BY WorkerSymbol DEF Working
<1>2. /\ k \in Jobs /\ k.step = step /\ k.fund = job.fund /\ k.symbol = job.symbol
      /\ k.generation = job.generation /\ k.class = job.class /\ k.analysis = job.analysis
  BY <1>1 DEF JobFits, Jobs
<1>3. worker' = [worker EXCEPT ![w] = k]
  BY DEF Goto
<1> HIDE DEF k
<1>4. JobFits(k)
  BY <1>1, <1>2 DEF JobFits, OperatingFits
<1> QED BY <1>3, <1>4, WorkerUpdate

LEMMA RefreshKeeps ==
  ASSUME IInv, NEW w \in Valuers, Refresh(w)
  PROVE  IInv'
<1>1. worker[w].step = "refresh" /\ JobFits(worker[w])
  BY WorkerSymbol DEF IInv, Refresh, At, Working
<1>2. worker[w].class = "financial"
  BY <1>1 DEF JobFits
<1>3. UNCHANGED <<market, price, valuation_inflight, detail, edgar>>
  BY DEF Refresh
<1>4. ASSUME NEW r \in Reports(worker[w].fund), Store(w, r, "shares")
      PROVE  InputT' /\ FitsT' /\ WorkerT'
  <2>1. r \in Fundamentals
    BY DemandAssumption DEF Reports, IInv, MarketT
  <2> QED BY <1>1, <1>2, <1>3, <1>4, <2>1, StoreFits
<1>5. ASSUME Goto(w, IF worker[w].fund.shares THEN "publish" ELSE "shares"),
             UNCHANGED <<fundamentals, out>>
      PROVE  InputT' /\ FitsT' /\ WorkerT'
  <2>1. WorkerT'
    BY <1>1, <1>5, GoesOn DEF IInv
  <2> QED BY <1>3, <1>5, <2>1, Frame DEF IInv, inputs
<1>6. InputT' /\ FitsT' /\ WorkerT'
  BY <1>4, <1>5 DEF Refresh
<1> QED BY <1>3, <1>6, Frame DEF IInv

LEMMA SharesKeeps ==
  ASSUME IInv, NEW w \in Valuers, Shares(w)
  PROVE  IInv'
<1>1. worker[w].step = "shares" /\ JobFits(worker[w])
  BY WorkerSymbol DEF IInv, Shares, At, Working
<1>2. worker[w].fund \in Fundamentals
  BY <1>1 DEF JobFits
<1>3. UNCHANGED <<market, price, valuation_inflight, detail, edgar>>
  BY DEF Shares
<1>4. ASSUME Store(w, [worker[w].fund EXCEPT !.shares = TRUE], "publish")
      PROVE  InputT' /\ FitsT' /\ WorkerT'
  <2>1. /\ [worker[w].fund EXCEPT !.shares = TRUE] \in Fundamentals
        /\ [worker[w].fund EXCEPT !.shares = TRUE].class = worker[w].fund.class
    BY <1>2 DEF Fundamentals
  <2> QED BY <1>1, <1>3, <1>4, <2>1, StoreFits
<1>5. ASSUME Goto(w, "publish"), UNCHANGED <<fundamentals, out>>
      PROVE  InputT' /\ FitsT' /\ WorkerT'
  <2>1. WorkerT'
    BY <1>1, <1>5, GoesOn DEF IInv
  <2> QED BY <1>3, <1>5, <2>1, Frame DEF IInv, inputs
<1>6. InputT' /\ FitsT' /\ WorkerT'
  BY <1>4, <1>5 DEF Shares
<1> QED BY <1>3, <1>6, Frame DEF IInv

LEMMA AbortKeeps ==
  ASSUME IInv, NEW w \in Valuers, Abort(w)
  PROVE  IInv'
<1>1. worker[w].step \in Working /\ Goto(w, "failed")
  BY DEF Abort, Working
<1>2. WorkerT'
  BY <1>1, GotoFailed DEF IInv
<1>3. UNCHANGED <<market, inputs, out, valuation_inflight, detail, edgar>> /\ UNCHANGED fundamentals
  BY DEF Abort, inputs
<1> QED BY <1>2, <1>3, Frame DEF IInv

\* Whatever the router says of an operating company is of the worker's fundamentals.
LEMMA RoutesFit ==
  ASSUME NEW s \in Symbols, NEW j, JobFits(j), j.step = "publish", j.class = "operating",
         NEW r \in Routes(j)
  PROVE  /\ r.analysis \in Analyses
         /\ r.analysis # None => AnalysisFits(s, r.analysis, j.fund)
         /\ r.envelope \in Envelopes /\ r.envelope.fund = j.fund
<1>1. /\ j.fund \in Fundamentals /\ j.fund.class = "operating" /\ j.analysis \in Analyses
      /\ j.analysis # None => /\ j.analysis.fund = j.fund /\ j.analysis.model = "fcff"
                              /\ j.fund.shares
  BY DEF JobFits, OperatingFits, Jobs
<1>2. classify_business_for(s, j.fund) = "operating"
  BY <1>1 DEF classify_business_for
<1>3. r.analysis \in IF j.analysis # None THEN {j.analysis}
                     ELSE {None} \cup (IF j.fund.shares
                                       THEN {[model |-> "fcff", fund |-> j.fund]} ELSE {})
  BY DEF Routes
<1>4. /\ r.analysis \in Analyses
      /\ r.analysis # None => /\ r.analysis.fund = j.fund /\ r.analysis.model = "fcff"
                              /\ j.fund.shares
  BY <1>1, <1>3 DEF Analyses
<1>5. r.analysis # None => AnalysisFits(s, r.analysis, j.fund)
  BY <1>2, <1>4 DEF AnalysisFits
<1>6. r.envelope \in {Envelope(j.fund, status, forward) :
                        status \in {"selected", "unavailable"}, forward \in {"ok", "unavailable"}}
  BY DEF Routes
<1>7. r.envelope \in Envelopes /\ r.envelope.fund = j.fund
  BY <1>1, <1>6, EnvelopeTyped
<1> QED BY <1>4, <1>5, <1>7

LEMMA PublishKeeps ==
  ASSUME IInv, NEW w \in Valuers, Publish(w)
  PROVE  IInv'
<1> DEFINE job == worker[w]
           s == job.symbol
           f == fundamentals[s]
           a == ResidualIncome(s, job.fund)
<1>1. job.step = "publish" /\ s \in Symbols /\ JobFits(job)
  BY WorkerSymbol DEF IInv, Publish, At, Working
<1>2. job.fund \in Fundamentals
  BY <1>1 DEF JobFits
<1>3. UNCHANGED <<market, inputs, valuation_inflight, detail, edgar>> /\ UNCHANGED fundamentals
  BY DEF Publish, inputs
<1>4. Fits(s, out[s], f)
  BY <1>1 DEF IInv, FitsT
<1>5. ASSUME demand_publication_inputs_are_current(job) PROVE f = job.fund
  BY <1>5 DEF demand_publication_inputs_are_current, InputsMatch
<1>6. \/ UNCHANGED out /\ (Goto(w, "failed") \/ End(w))
      \/ /\ demand_publication_inputs_are_current(job) /\ End(w)
         /\ job.class = "financial" /\ a # None
         /\ out' = [out EXCEPT ![s] = ingest_dcf_analysis(out[s], s, f, a)]
      \/ /\ demand_publication_inputs_are_current(job) /\ End(w)
         /\ job.class = "operating"
         /\ \E r \in Routes(job) :
              out' = [out EXCEPT ![s] =
                        ingest_operating_valuation(out[s], s, f, r.analysis, r.envelope)]
  BY DEF Publish
<1>7. WorkerT'
  BY <1>1, <1>6, GotoFailed, EndFits DEF IInv, Working
<1>8. FitsT'
  <2>1. CASE UNCHANGED out
    BY <1>3, <2>1, Frame DEF IInv
  <2>2. CASE /\ demand_publication_inputs_are_current(job) /\ a # None
             /\ out' = [out EXCEPT ![s] = ingest_dcf_analysis(out[s], s, f, a)]
    <3>1. f = job.fund
      BY <1>5, <2>2
    <3>2. a \in Analyses /\ AnalysisFits(s, a, f)
      BY <1>1, <1>2, <2>2, <3>1, ResidualFits
    <3> HIDE DEF a
    <3>3. Fits(s, ingest_dcf_analysis(out[s], s, f, a), f)
      BY <1>1, <1>2, <1>4, <2>2, <3>1, <3>2, IngestAnalysisFits
    <3> QED BY <1>1, <1>3, <2>2, <3>3, OutUpdate DEF IInv
  <2>3. CASE /\ demand_publication_inputs_are_current(job) /\ job.class = "operating"
             /\ \E r \in Routes(job) :
                  out' = [out EXCEPT ![s] =
                            ingest_operating_valuation(out[s], s, f, r.analysis, r.envelope)]
    <3>1. f = job.fund
      BY <1>5, <2>3
    <3>2. PICK r \in Routes(job) :
            out' = [out EXCEPT ![s] =
                      ingest_operating_valuation(out[s], s, f, r.analysis, r.envelope)]
      BY <2>3
    <3>3. /\ r.analysis \in Analyses /\ (r.analysis # None => AnalysisFits(s, r.analysis, f))
          /\ r.envelope \in Envelopes /\ r.envelope.fund = f
      BY <1>1, <2>3, <3>1, RoutesFit
    <3>4. Fits(s, ingest_operating_valuation(out[s], s, f, r.analysis, r.envelope), f)
      BY <1>1, <1>2, <1>4, <3>1, <3>3, IngestOperatingFits
    <3> QED BY <1>1, <1>3, <3>2, <3>4, OutUpdate DEF IInv
  <2> QED BY <1>6, <2>1, <2>2, <2>3
<1> QED BY <1>3, <1>7, <1>8, Frame DEF IInv

LEMMA RecordFailureKeeps ==
  ASSUME IInv, NEW w \in Valuers, record_demand_valuation_failure(w)
  PROVE  IInv'
<1>1. worker[w].step = "failed" /\ worker[w].symbol \in Symbols /\ JobFits(worker[w])
  BY WorkerSymbol DEF IInv, record_demand_valuation_failure, At, Working
<1>2. UNCHANGED <<market, inputs, valuation_inflight, detail, edgar>> /\ UNCHANGED fundamentals
  BY DEF record_demand_valuation_failure, inputs
<1>3. FitsT'
  BY <1>1, <1>2, FailedFits DEF IInv, record_demand_valuation_failure
<1>4. WorkerT'
  BY <1>1, EndFits DEF IInv, record_demand_valuation_failure
<1> QED BY <1>2, <1>3, <1>4, Frame DEF IInv

LEMMA DropGuardKeeps ==
  ASSUME IInv, NEW w \in Valuers, DropGuard(w)
  PROVE  IInv'
<1>1. UNCHANGED <<market, inputs, out, detail, edgar>> /\ UNCHANGED fundamentals
  BY DEF DropGuard, inputs
<1>2. InflightT'
  BY DEF IInv, InflightT, DropGuard
<1>3. WorkerT'
  BY NoJobFits, WorkerUpdate DEF IInv, DropGuard
<1> QED BY <1>1, <1>2, <1>3, Frame DEF IInv

-----------------------------------------------------------------------------
(* The audit and EDGAR's worker.                                           *)

LEMMA AuditKeeps ==
  ASSUME IInv, NEW s \in Symbols, Audit(s)
  PROVE  IInv'
<1> DEFINE f == fundamentals[s]
           o == ensure_model_routed_valuation(out[s], s, f)
           j == [NoJob EXCEPT !.symbol = s]
           c == Capture(j, f, price[s], o)
           k == [c EXCEPT !.step = "start", !.generation = feed_generation]
<1>1. f \in Fundamentals \cup {None} /\ price[s] \in 0..MAX_QUOTES /\ Fits(s, out[s], f)
  BY DEF IInv, InputT, FitsT
<1>2. Fits(s, o, f)
  BY <1>1, EnsureFits
<1>3. /\ out' = [out EXCEPT ![s] = o]
      /\ worker' = [worker EXCEPT ![Auditor] = k]
      /\ UNCHANGED <<market, inputs, valuation_inflight, detail, edgar>>
  BY DEF Audit
<1>4. UNCHANGED fundamentals
  BY <1>3 DEF inputs
<1> HIDE DEF o
<1>5. FitsT'
  BY <1>2, <1>3, <1>4, OutUpdate DEF IInv
<1>6. j \in Jobs /\ j.symbol = s /\ j.analysis = None
  <2>1. NoJob \in Jobs /\ NoJob.analysis = None
    BY NoJobFits DEF JobFits, NoJob
  <2> QED BY <2>1 DEF Jobs
<1> HIDE DEF j
<1>7. c \in Jobs /\ c.symbol = s /\ c.analysis = None
  <2>1. o \in Outputs
    BY <1>2 DEF Fits
  <2> QED BY <1>1, <1>6, <2>1, CaptureTyped
<1> HIDE DEF c
<1>8. feed_generation \in 0..MAX_GENERATION /\ feed_generation \in 1..MAX_GENERATION
  BY Bounds DEF IInv, MarketT
<1>9. /\ k \in Jobs /\ k.step = "start" /\ k.symbol = s /\ k.analysis = None
      /\ k.generation = feed_generation
  BY <1>7, <1>8 DEF Jobs
<1> HIDE DEF k
<1>10. JobFits(k)
  BY <1>8, <1>9, Bounds DEF JobFits
<1>11. WorkerT'
  BY <1>3, <1>10, WorkerUpdate DEF IInv, Valuers
<1> QED BY <1>3, <1>5, <1>11, Frame DEF IInv

LEMMA AuditFailureKeeps == IInv /\ AuditFailure => IInv'
<1> SUFFICES ASSUME IInv, AuditFailure PROVE IInv'
  OBVIOUS
<1> DEFINE s == worker[Auditor].symbol
           o == [out[s] EXCEPT !.error = TRUE]
<1>1. s \in Symbols
  BY WorkerSymbol DEF IInv, AuditFailure, At, Working, Valuers
<1>2. Fits(s, out[s], fundamentals[s])
  BY <1>1 DEF IInv, FitsT
<1>3. Fits(s, o, fundamentals[s])
  BY <1>2 DEF Fits, Outputs
<1>4. UNCHANGED <<market, inputs, valuation_inflight, detail, edgar>> /\ UNCHANGED fundamentals
  BY DEF AuditFailure, inputs
<1>5. out' = out \/ out' = [out EXCEPT ![s] = o]
  BY DEF AuditFailure
<1> HIDE DEF o
<1>6. FitsT'
  BY <1>1, <1>3, <1>4, <1>5, OutUpdate, Frame DEF IInv
<1>7. WorkerT'
  BY NoJobFits, WorkerUpdate DEF IInv, AuditFailure, Valuers
<1> QED BY <1>4, <1>6, <1>7, Frame DEF IInv

LEMMA ScanKeeps ==
  ASSUME IInv, NEW s \in Symbols, Scan(s)
  PROVE  IInv'
<1>1. fundamentals[s] \in Fundamentals
  BY DEF IInv, InputT, Scan
<1>2. classify_business(fundamentals[s]) \in Texts
  BY <1>1 DEF classify_business, Fundamentals
<1>3. feed_generation \in 0..MAX_GENERATION
  BY Bounds DEF IInv, MarketT
<1>4. EdgarT'
  BY <1>2, <1>3 DEF EdgarT, Scans, Scan
<1>5. UNCHANGED <<market, inputs, out, valuation_inflight, detail, worker>> /\ UNCHANGED fundamentals
  BY DEF Scan, inputs
<1> QED BY <1>4, <1>5, Frame DEF IInv

LEMMA MaintainKeeps == IInv /\ Maintain => IInv'
<1> SUFFICES ASSUME IInv, Maintain PROVE IInv'
  OBVIOUS
<1> DEFINE s == edgar.symbol
           f == fundamentals[s]
           a == ResidualIncome(s, f)
<1>1. s \in Symbols
  BY DEF IInv, EdgarT, Maintain
<1>2. f \in Fundamentals \cup {None} /\ Fits(s, out[s], f) /\ out[s] \in Outputs
  BY <1>1 DEF IInv, InputT, FitsT
<1>3. UNCHANGED <<market, inputs, valuation_inflight, detail, worker>> /\ UNCHANGED fundamentals
  BY DEF Maintain, inputs
<1>4. EdgarT'
  BY Bounds DEF EdgarT, Scans, NoScan, Maintain
<1>5. \/ out' = out
      \/ out' = [out EXCEPT ![s] = clear_dcf(out[s])]
      \/ f # None /\ a # None /\ out' = [out EXCEPT ![s] = ingest_dcf_analysis(out[s], s, f, a)]
  BY DEF Maintain
<1>6. FitsT'
  <2>1. CASE out' = out
    BY <1>3, <2>1, Frame DEF IInv
  <2>2. CASE out' = [out EXCEPT ![s] = clear_dcf(out[s])]
    <3>1. Fits(s, clear_dcf(out[s]), f)
      BY <1>2, ClearFits
    <3> QED BY <1>1, <1>3, <2>2, <3>1, OutUpdate DEF IInv
  <2>3. CASE /\ f # None /\ a # None
             /\ out' = [out EXCEPT ![s] = ingest_dcf_analysis(out[s], s, f, a)]
    <3>1. f \in Fundamentals
      BY <1>2, <2>3
    <3>2. a \in Analyses /\ AnalysisFits(s, a, f)
      BY <1>1, <2>3, <3>1, ResidualFits
    <3> HIDE DEF a
    <3>3. Fits(s, ingest_dcf_analysis(out[s], s, f, a), f)
      BY <1>1, <1>2, <2>3, <3>2, IngestAnalysisFits
    <3> QED BY <1>1, <1>3, <2>3, <3>3, OutUpdate DEF IInv
  <2> QED BY <1>5, <2>1, <2>2, <2>3
<1> QED BY <1>3, <1>4, <1>6, Frame DEF IInv

-----------------------------------------------------------------------------
(* Claims.  What InflightHasWorker counts, said without counting: who is   *)
(* busy holds a claim, no two hold the same one, a request about to spawn  *)
(* holds one that no worker has, and every claim is held.                  *)

Key(j) == <<j.generation, j.symbol>>
Busy(w) == worker[w].step # "free"

ClaimInv ==
  /\ \A w \in DemandWorkers : Busy(w) => Key(worker[w]) \in valuation_inflight
  /\ \A v, w \in DemandWorkers :
       Busy(v) /\ Busy(w) /\ Key(worker[v]) = Key(worker[w]) => v = w
  /\ DetailAt("spawn") =>
       /\ Key(detail) \in valuation_inflight
       /\ \A w \in DemandWorkers : Busy(w) => Key(worker[w]) # Key(detail)
  /\ \A key \in valuation_inflight :
       \/ DetailAt("spawn") /\ Key(detail) = key
       \/ \E w \in DemandWorkers : Busy(w) /\ Key(worker[w]) = key

LEMMA ClaimsCounted == ClaimInv => InflightHasWorker
<1> SUFFICES ASSUME ClaimInv PROVE InflightHasWorker
  OBVIOUS
<1> DEFINE Live(key) == {w \in DemandWorkers : Busy(w) /\ Key(worker[w]) = key}
           Waits(key) == DetailAt("spawn") /\ Key(detail) = key
<1>1. ASSUME NEW key \in valuation_inflight
      PROVE  Cardinality(Live(key)) + (IF Waits(key) THEN 1 ELSE 0) = 1
  <2>1. CASE Waits(key)
    <3>1. Live(key) = {}
      BY <2>1 DEF ClaimInv
    <3> QED BY <2>1, <3>1, FS_EmptySet
  <2>2. CASE ~Waits(key)
    <3>1. PICK w \in DemandWorkers : Busy(w) /\ Key(worker[w]) = key
      BY <2>2 DEF ClaimInv
    <3>2. Live(key) = {w}
      BY <3>1 DEF ClaimInv
    <3> QED BY <2>2, <3>2, FS_Singleton
  <2> QED BY <2>1, <2>2
<1>2. ASSUME NEW key
      PROVE  /\ Live(key) = {w \in DemandWorkers :
                    worker[w].step # "free" /\ <<worker[w].generation, worker[w].symbol>> = key}
             /\ Waits(key) <=> /\ DetailAt("spawn") /\ detail.step # "free"
                               /\ <<detail.generation, detail.symbol>> = key
  BY DEF Busy, Key, DetailAt
<1>3. \A w \in DemandWorkers :
        ~At(w, "free") => <<worker[w].generation, worker[w].symbol>> \in valuation_inflight
  BY DEF ClaimInv, Busy, Key, At
<1> HIDE DEF Live, Waits
<1> QED BY <1>1, <1>2, <1>3 DEF InflightHasWorker

(* Steps that end no computation, begin none and take no claim.            *)
SameClaims ==
  /\ UNCHANGED valuation_inflight
  /\ DetailAt("spawn") <=> DetailAt("spawn")'
  /\ DetailAt("spawn") => UNCHANGED detail
  /\ \A w \in DemandWorkers :
       (Busy(w) <=> Busy(w)') /\ (Busy(w) => Key(worker[w])' = Key(worker[w]))

LEMMA ClaimFrame == ClaimInv /\ SameClaims => ClaimInv'
<1> SUFFICES ASSUME ClaimInv, SameClaims PROVE ClaimInv'
  OBVIOUS
<1>1. DetailAt("spawn")' => DetailAt("spawn") /\ Key(detail)' = Key(detail)
  BY DEF SameClaims
<1>2. \A w \in DemandWorkers : Busy(w)' => Busy(w) /\ Key(worker[w])' = Key(worker[w])
  BY DEF SameClaims
<1>3. \A w \in DemandWorkers : Busy(w) => Busy(w)'
  BY DEF SameClaims
<1>4. UNCHANGED valuation_inflight
  BY DEF SameClaims
<1>5. DetailAt("spawn") => DetailAt("spawn")' /\ Key(detail)' = Key(detail)
  BY DEF SameClaims
<1>6. \A w \in DemandWorkers : Busy(w)' => Key(worker'[w]) \in valuation_inflight'
  BY <1>2, <1>4 DEF ClaimInv
<1>7. \A v, w \in DemandWorkers :
        Busy(v)' /\ Busy(w)' /\ Key(worker'[v]) = Key(worker'[w]) => v = w
  BY <1>2 DEF ClaimInv
<1>8. DetailAt("spawn")' =>
        /\ Key(detail') \in valuation_inflight'
        /\ \A w \in DemandWorkers : Busy(w)' => Key(worker'[w]) # Key(detail')
  BY <1>1, <1>2, <1>4 DEF ClaimInv
<1>9. \A key \in valuation_inflight' :
        \/ DetailAt("spawn")' /\ Key(detail') = key
        \/ \E w \in DemandWorkers : Busy(w)' /\ Key(worker'[w]) = key
  BY <1>2, <1>3, <1>4, <1>5 DEF ClaimInv
<1> QED BY <1>6, <1>7, <1>8, <1>9 DEF ClaimInv

(* A worker that goes on with its symbol.                                  *)
LEMMA GoesOnBusy ==
  ASSUME worker \in [Valuers -> Jobs], NEW w \in Valuers, NEW j,
         worker' = [worker EXCEPT ![w] = j], UNCHANGED <<valuation_inflight, detail>>,
         w = Auditor \/ /\ Busy(w) /\ j.step # "free"
                        /\ Key(j) = Key(worker[w])
  PROVE  SameClaims
<1>1. DemandWorkers \subseteq Valuers /\ Auditor \notin DemandWorkers
  BY DemandAssumption DEF Valuers
<1>2. \A v \in DemandWorkers : worker'[v] = IF v = w THEN j ELSE worker[v]
  BY <1>1
<1> QED BY <1>1, <1>2 DEF SameClaims, Busy, Key, DetailAt

LEMMA EndBusy ==
  ASSUME worker \in [Valuers -> Jobs], NEW w \in Valuers, Busy(w), End(w),
         UNCHANGED <<valuation_inflight, detail>>
  PROVE  SameClaims
<1> DEFINE k == [NoJob EXCEPT !.step = "release", !.symbol = worker[w].symbol,
                              !.generation = worker[w].generation]
<1>1. k.step # "free" /\ Key(k) = Key(worker[w])
  BY DEF NoJob, Key
<1>2. worker' = [worker EXCEPT ![w] = IF w = Auditor THEN NoJob ELSE k]
  BY DEF End
<1> HIDE DEF k
<1> QED BY <1>1, <1>2, GoesOnBusy

LEMMA GotoBusy ==
  ASSUME worker \in [Valuers -> Jobs], NEW w \in Valuers, Busy(w),
         NEW step \in {"refresh", "shares", "publish", "failed"}, Goto(w, step),
         UNCHANGED <<valuation_inflight, detail>>
  PROVE  SameClaims
<1> DEFINE k == [worker[w] EXCEPT !.step = step]
<1>1. k.step # "free" /\ Key(k) = Key(worker[w])
  BY DEF Jobs, Key
<1>2. worker' = [worker EXCEPT ![w] = k]
  BY DEF Goto
<1> HIDE DEF k
<1> QED BY <1>1, <1>2, GoesOnBusy

LEMMA StartBusy ==
  ASSUME worker \in [Valuers -> Jobs], NEW w \in Valuers, Start(w)
  PROVE  SameClaims
<1> DEFINE job == worker[w]
           f == fundamentals[job.symbol]
           c == Capture(job, f, price[job.symbol], out[job.symbol])
           k == [c EXCEPT !.step = AfterCapture(f), !.class = classify_business(f),
                          !.analysis = Fcff(out[job.symbol])]
<1>1. job \in Jobs /\ Busy(w) /\ UNCHANGED <<valuation_inflight, detail>>
  BY DEF Start, At, Busy
<1>2. AfterCapture(f) # "free"
  BY DEF AfterCapture
<1>3. k.step # "free" /\ Key(k) = Key(job)
  BY <1>1, <1>2 DEF Capture, Jobs, Key
<1>4. \/ Goto(w, "failed")
      \/ worker' = [worker EXCEPT ![w] = k]
  BY DEF Start, Goto
<1> HIDE DEF k
<1> QED BY <1>1, <1>3, <1>4, GotoBusy, GoesOnBusy

LEMMA StoreBusy ==
  ASSUME worker \in [Valuers -> Jobs], NEW w \in Valuers, Busy(w), NEW r,
         NEW next \in {"shares", "publish"}, Store(w, r, next),
         UNCHANGED <<valuation_inflight, detail>>
  PROVE  SameClaims
<1> DEFINE job == worker[w]
           s == job.symbol
           c == Capture(job, fundamentals'[s], price[s], out'[s])
           k == [c EXCEPT !.step = IF fundamentals'[s].shares THEN "publish" ELSE next]
<1>1. k.step # "free" /\ Key(k) = Key(job)
  BY DEF Capture, Jobs, Key
<1>2. Goto(w, "failed") \/ End(w) \/ worker' = [worker EXCEPT ![w] = k]
  BY DEF Store
<1> HIDE DEF k
<1> QED BY <1>1, <1>2, GotoBusy, EndBusy, GoesOnBusy

(* A step of a computation but its last.                                   *)
LEMMA ComputationBusy ==
  ASSUME worker \in [Valuers -> Jobs], NEW w \in Valuers,
         Start(w) \/ Refresh(w) \/ Shares(w) \/ Abort(w) \/ Publish(w)
           \/ record_demand_valuation_failure(w)
  PROVE  SameClaims
<1>1. CASE Start(w)
  BY <1>1, StartBusy
<1>2. CASE Refresh(w)
  <2>1. Busy(w) /\ UNCHANGED <<valuation_inflight, detail>>
    BY <1>2 DEF Refresh, At, Busy
  <2>2. \/ \E r : Store(w, r, "shares")
        \/ Goto(w, "publish") \/ Goto(w, "shares")
    BY <1>2 DEF Refresh
  <2> QED BY <2>1, <2>2, StoreBusy, GotoBusy
<1>3. CASE Shares(w)
  <2>1. Busy(w) /\ UNCHANGED <<valuation_inflight, detail>>
    BY <1>3 DEF Shares, At, Busy
  <2>2. (\E r : Store(w, r, "publish")) \/ Goto(w, "publish")
    BY <1>3 DEF Shares
  <2> QED BY <2>1, <2>2, StoreBusy, GotoBusy
<1>4. CASE Abort(w)
  <2>1. Busy(w) /\ Goto(w, "failed") /\ UNCHANGED <<valuation_inflight, detail>>
    BY <1>4 DEF Abort, Busy
  <2> QED BY <2>1, GotoBusy
<1>5. CASE Publish(w)
  <2>1. Busy(w) /\ UNCHANGED <<valuation_inflight, detail>>
    BY <1>5 DEF Publish, At, Busy
  <2>2. Goto(w, "failed") \/ End(w)
    BY <1>5 DEF Publish
  <2> QED BY <2>1, <2>2, GotoBusy, EndBusy
<1>6. CASE record_demand_valuation_failure(w)
  <2>1. Busy(w) /\ End(w) /\ UNCHANGED <<valuation_inflight, detail>>
    BY <1>6 DEF record_demand_valuation_failure, At, Busy
  <2> QED BY <2>1, EndBusy
<1> QED BY <1>1, <1>2, <1>3, <1>4, <1>5, <1>6

(* Steps of others.                                                        *)
LEMMA IdleBusy ==
  ASSUME UNCHANGED <<valuation_inflight, detail, worker>>
  PROVE  SameClaims
BY DEF SameClaims, Busy, DetailAt

(* The detail command where it neither claims nor spawns.                  *)
LEMMA DetailBusy ==
  ASSUME UNCHANGED <<valuation_inflight, worker>>, ~DetailAt("spawn"), ~DetailAt("spawn")'
  PROVE  SameClaims
BY DEF SameClaims, Busy

LEMMA AuditorBusy ==
  ASSUME worker \in [Valuers -> Jobs], NEW j, worker' = [worker EXCEPT ![Auditor] = j],
         UNCHANGED <<valuation_inflight, detail>>
  PROVE  SameClaims
BY GoesOnBusy DEF Valuers

(* The steps that move a claim.                                            *)
LEMMA ClaimClaims ==
  ASSUME ClaimInv, claim_demand_valuation
  PROVE  ClaimInv'
<1> DEFINE key == Key(detail)
<1>1. DetailAt("claim") /\ worker' = worker
  BY DEF claim_demand_valuation
<1>2. CASE key \in valuation_inflight
  <2>1. valuation_inflight' = valuation_inflight /\ detail' = Answering
    BY <1>2 DEF claim_demand_valuation, Key
  <2>2. ~DetailAt("spawn") /\ ~DetailAt("spawn")'
    BY <1>1, <2>1 DEF DetailAt, Answering, NoJob
  <2> QED BY <1>1, <2>1, <2>2, DetailBusy, ClaimFrame
<1>3. CASE key \notin valuation_inflight
  <2>1. /\ valuation_inflight' = valuation_inflight \cup {key}
        /\ detail' = [detail EXCEPT !.step = "spawn"]
    BY <1>3 DEF claim_demand_valuation, Key
  <2>2. ~DetailAt("spawn") /\ DetailAt("spawn")' /\ Key(detail') = key
    BY <1>1, <2>1 DEF DetailAt, Key
  <2>3. \A w \in DemandWorkers : Busy(w) => Key(worker[w]) # key
    BY <1>3 DEF ClaimInv
  <2>4. \A w \in DemandWorkers : Busy(w)' <=> Busy(w)
    BY <1>1 DEF Busy
  <2> HIDE DEF key
  <2> QED BY <1>1, <2>1, <2>2, <2>3, <2>4 DEF ClaimInv
<1> QED BY <1>2, <1>3

LEMMA SpawnClaims ==
  ASSUME ClaimInv, worker \in [Valuers -> Jobs], Spawn
  PROVE  ClaimInv'
<1> DEFINE j == [detail EXCEPT !.step = "start"]
<1>1. PICK w \in DemandWorkers : worker[w].step = "free" /\ worker' = [worker EXCEPT ![w] = j]
  BY DEF Spawn
<1>2. DetailAt("spawn") /\ UNCHANGED valuation_inflight /\ ~DetailAt("spawn")'
  BY DEF Spawn, DetailAt, Answering, NoJob
<1>3. j.step # "free" /\ Key(j) = Key(detail)
  BY <1>2 DEF DetailAt, Key
<1> HIDE DEF j
<1>4. \A v \in DemandWorkers : worker'[v] = IF v = w THEN j ELSE worker[v]
  BY <1>1 DEF Valuers
<1>5. \A v \in DemandWorkers : Busy(v)' <=> v = w \/ Busy(v)
  BY <1>1, <1>3, <1>4 DEF Busy
<1>6. ~Busy(w)
  BY <1>1 DEF Busy
<1>7. \A v \in DemandWorkers : Busy(v)' => Key(worker'[v]) \in valuation_inflight'
  BY <1>2, <1>3, <1>4, <1>5 DEF ClaimInv
<1>8. \A u, v \in DemandWorkers :
        Busy(u)' /\ Busy(v)' /\ Key(worker'[u]) = Key(worker'[v]) => u = v
  BY <1>2, <1>3, <1>4, <1>5 DEF ClaimInv
<1>9. ASSUME NEW key \in valuation_inflight'
      PROVE  \E v \in DemandWorkers : Busy(v)' /\ Key(worker'[v]) = key
  BY <1>1, <1>2, <1>3, <1>4, <1>5, <1>6, <1>9 DEF ClaimInv
<1> QED BY <1>2, <1>7, <1>8, <1>9 DEF ClaimInv

LEMMA SpawnFailsClaims ==
  ASSUME ClaimInv, SpawnFails
  PROVE  ClaimInv'
<1>1. /\ DetailAt("spawn") /\ ~DetailAt("spawn")' /\ worker' = worker
      /\ valuation_inflight' = valuation_inflight \ {Key(detail)}
  BY DEF SpawnFails, DetailAt, Key
<1>2. \A w \in DemandWorkers : Busy(w)' <=> Busy(w)
  BY <1>1 DEF Busy
<1> QED BY <1>1, <1>2 DEF ClaimInv

LEMMA DropGuardClaims ==
  ASSUME ClaimInv, worker \in [Valuers -> Jobs], NEW w \in DemandWorkers, DropGuard(w)
  PROVE  ClaimInv'
<1>1. /\ Busy(w) /\ worker' = [worker EXCEPT ![w] = NoJob] /\ UNCHANGED detail
      /\ valuation_inflight' = valuation_inflight \ {Key(worker[w])}
  BY DEF DropGuard, At, Busy, Key
<1>2. \A v \in DemandWorkers : /\ Busy(v)' <=> v # w /\ Busy(v)
                               /\ v # w => worker'[v] = worker[v]
  BY <1>1 DEF Valuers, Busy, NoJob
<1>3. DetailAt("spawn")' <=> DetailAt("spawn")
  BY <1>1 DEF DetailAt
<1>4. \A v \in DemandWorkers : Busy(v)' => Key(worker'[v]) \in valuation_inflight'
  BY <1>1, <1>2 DEF ClaimInv
<1>5. DetailAt("spawn")' =>
        /\ Key(detail') \in valuation_inflight'
        /\ \A v \in DemandWorkers : Busy(v)' => Key(worker'[v]) # Key(detail')
  BY <1>1, <1>2, <1>3 DEF ClaimInv
<1>6. \A u, v \in DemandWorkers :
        Busy(u)' /\ Busy(v)' /\ Key(worker'[u]) = Key(worker'[v]) => u = v
  BY <1>2 DEF ClaimInv
<1>7. \A key \in valuation_inflight' :
        \/ DetailAt("spawn")' /\ Key(detail') = key
        \/ \E v \in DemandWorkers : Busy(v)' /\ Key(worker'[v]) = key
  BY <1>1, <1>2, <1>3 DEF ClaimInv
<1> QED BY <1>4, <1>5, <1>6, <1>7 DEF ClaimInv

LEMMA ClaimStep == IInv /\ ClaimInv /\ [Next]_vars => ClaimInv'
<1> SUFFICES ASSUME IInv, ClaimInv, [Next]_vars PROVE ClaimInv'
  OBVIOUS
<1>1. worker \in [Valuers -> Jobs] /\ DemandWorkers \subseteq Valuers /\ Auditor \in Valuers
  BY DEF IInv, WorkerT, Valuers
<1>2. ASSUME NEW s \in instance.open, Report(s) \/ Quote(s) \/ Expire(s) \/ Scan(s)
      PROVE  ClaimInv'
  BY <1>2, IdleBusy, ClaimFrame DEF Report, Quote, Expire, Scan
<1>3. CASE Bump \/ clear_universe \/ Maintain \/ UNCHANGED vars
  BY <1>3, IdleBusy, ClaimFrame DEF Bump, clear_universe, Maintain, vars
<1>4. CASE get_symbol_detail
  <2>1. ASSUME \/ \E s \in instance.open : OpenDetail(s)
               \/ Request \/ RecordSpawnFailure \/ Answer
        PROVE  ClaimInv'
    <3>1. UNCHANGED <<valuation_inflight, worker>> /\ ~DetailAt("spawn")
      BY <2>1 DEF OpenDetail, Request, RecordSpawnFailure, Answer, DetailAt
    <3>2. ~DetailAt("spawn")'
      <4>1. CASE \E s \in instance.open : OpenDetail(s)
        BY <4>1 DEF OpenDetail, DetailAt, NoJob
      <4>2. CASE Request
        BY <4>2 DEF Request, Capture, DetailAt, Answering, NoJob, IInv, DetailT, JobFits, Jobs
      <4>3. CASE RecordSpawnFailure \/ Answer
        <5>1. detail' = Answering \/ detail' = NoJob
          BY <4>3 DEF RecordSpawnFailure, Answer
        <5>2. Answering.step = "answer" /\ NoJob.step = "free"
          BY DEF Answering, NoJob
        <5>3. detail'.step # "spawn"
          BY <5>1, <5>2
        <5> QED BY <5>3 DEF DetailAt
      <4> QED BY <2>1, <4>1, <4>2, <4>3
    <3> QED BY <3>1, <3>2, DetailBusy, ClaimFrame
  <2> QED BY <1>1, <1>4, <2>1, ClaimClaims, SpawnClaims, SpawnFailsClaims
          DEF get_symbol_detail
<1>5. ASSUME NEW w \in DemandWorkers, DemandWorker(w)
      PROVE  ClaimInv'
  BY <1>1, <1>5, ComputationBusy, DropGuardClaims, ClaimFrame DEF DemandWorker
<1>6. CASE Auditing
  <2>1. ASSUME NEW s \in instance.open, Audit(s)
        PROVE  ClaimInv'
    BY <1>1, <2>1, AuditorBusy, ClaimFrame DEF Audit
  <2>2. CASE AuditFailure
    BY <1>1, <2>2, AuditorBusy, ClaimFrame DEF AuditFailure
  <2> QED BY <1>1, <1>6, <2>1, <2>2, ComputationBusy, ClaimFrame DEF Auditing
<1> QED BY <1>2, <1>3, <1>4, <1>5, <1>6 DEF Next

-----------------------------------------------------------------------------
(* The theorems.                                                           *)

\* The outputs fit the fundamentals of their symbols, and a computation that is under way
\* goes on with nothing that is not of its own fundamentals, whatever else happens.
THEOREM Inductive == Spec => []IInv
<1>1. IInv /\ [Next]_vars => IInv'
  <2> SUFFICES ASSUME IInv, [Next]_vars PROVE IInv'
    OBVIOUS
  <2>1. instance.open \subseteq Symbols
    BY DemandAssumption DEF IInv, MarketT
  <2>2. DemandWorkers \subseteq Valuers /\ Auditor \in Valuers
    BY DEF Valuers
  <2>3. ASSUME NEW s \in instance.open, Report(s) \/ Quote(s) \/ Expire(s) \/ Scan(s)
        PROVE  IInv'
    BY <2>1, <2>3, ReportKeeps, QuoteKeeps, ExpireKeeps, ScanKeeps
  <2>4. CASE Bump \/ clear_universe
    BY <2>4, BumpKeeps, ClearKeeps
  <2>5. CASE get_symbol_detail
    BY <2>1, <2>5, OpenDetailKeeps, RequestKeeps, ClaimKeeps, SpawnKeeps, SpawnFailsKeeps,
       RecordSpawnFailureKeeps, AnswerKeeps DEF get_symbol_detail
  <2>6. ASSUME NEW w \in DemandWorkers, DemandWorker(w)
        PROVE  IInv'
    BY <2>2, <2>6, StartKeeps, RefreshKeeps, SharesKeeps, AbortKeeps, PublishKeeps,
       RecordFailureKeeps, DropGuardKeeps DEF DemandWorker
  <2>7. CASE Auditing
    BY <2>1, <2>2, <2>7, AuditKeeps, StartKeeps, RefreshKeeps, SharesKeeps, AbortKeeps,
       PublishKeeps, AuditFailureKeeps DEF Auditing
  <2>8. CASE Maintain
    BY <2>8, MaintainKeeps
  <2>9. CASE UNCHANGED vars
    <3>1. UNCHANGED <<market, inputs, out, valuation_inflight, detail, worker, edgar>>
          /\ UNCHANGED fundamentals
      BY <2>9 DEF vars, inputs
    <3> QED BY <3>1, Frame DEF IInv
  <2> QED BY <2>3, <2>4, <2>5, <2>6, <2>7, <2>8, <2>9 DEF Next
<1> QED BY <1>1, InitHolds, PTL DEF Spec

\* Every variable keeps its type, and whoever works has a symbol.
THEOREM TypeCorrect == Spec => []TypeOK
BY Inductive, IInvGives, PTL

\* What is shown is of the symbol's fundamentals, by the model of its class.
THEOREM ShownFits == Spec => []ValuationFits
BY Inductive, IInvGives, PTL

\* Every claim has exactly one worker, or the request that is about to spawn it, and every
\* worker has a claim: however requests, failed spawns, panics and profiles mix.
THEOREM ClaimsHaveWorkers == Spec => []InflightHasWorker
<1>1. Init => ClaimInv
  BY DEF Init, ClaimInv, Busy, DetailAt, NoJob, Valuers
<1> QED BY <1>1, ClaimStep, Inductive, ClaimsCounted, PTL DEF Spec

-----------------------------------------------------------------------------
(* What a failure must not take away.  Routing an output again keeps what   *)
(* is shown: residual income is only ever of known shares and drivers, so   *)
(* that it can be had again, and a selected envelope is of an operating     *)
(* company, whose outputs the routing leaves alone.                         *)
Sound(o) ==
  /\ o.analysis # None /\ o.analysis.model = "residual" =>
       o.analysis.fund.shares /\ o.analysis.fund.drivers
  /\ o.envelope # None /\ o.envelope.status = "selected" =>
       o.envelope.fund.class = "operating"

SoundInv == \A s \in Symbols : Sound(out[s])

LEMMA SoundUpdate ==
  ASSUME FitsT, SoundInv, NEW s \in Symbols, NEW o, Sound(o), out' = [out EXCEPT ![s] = o]
  PROVE  SoundInv'
BY DEF FitsT, SoundInv

LEMMA ClearSound ==
  ASSUME NEW o \in Outputs PROVE Sound(clear_dcf(o))
BY DEF Sound, clear_dcf, Outputs

LEMMA ResidualSound ==
  ASSUME NEW s, NEW f \in Fundamentals, ResidualIncome(s, f) # None
  PROVE  /\ ResidualIncome(s, f).model = "residual" /\ ResidualIncome(s, f).fund = f
         /\ f.shares /\ f.drivers
BY DEF ResidualIncome

LEMMA PricedSound ==
  ASSUME NEW s, NEW f \in Fundamentals, ResidualIncome(s, f) # None, NEW o \in Outputs, Sound(o)
  PROVE  /\ Sound([o EXCEPT !.analysis = ResidualIncome(s, f)])
         /\ Sound(ingest_dcf_analysis(o, s, f, ResidualIncome(s, f)))
<1> DEFINE a == ResidualIncome(s, f)
<1>1. a.model = "residual" /\ a.fund.shares /\ a.fund.drivers
  BY ResidualSound
<1> HIDE DEF a
<1>2. Sound([o EXCEPT !.analysis = a])
  BY <1>1 DEF Sound, Outputs
<1>3. Sound([analysis |-> a, envelope |-> None, error |-> FALSE])
  BY <1>1 DEF Sound
<1>4. Sound(ingest_dcf_analysis(o, s, f, a))
  BY <1>1, <1>3 DEF ingest_dcf_analysis
<1> QED BY <1>2, <1>4 DEF a

\* Cash flows and an envelope are published together.
LEMMA OperatingSound ==
  ASSUME NEW s, NEW f, NEW o \in Outputs, Sound(o),
         NEW a, a # None => a.model = "fcff",
         NEW e, e.status = "selected" => e.fund.class = "operating"
  PROVE  Sound(ingest_operating_valuation(o, s, f, a, e))
<1> DEFINE p == IF a = None THEN o ELSE ingest_dcf_analysis(o, s, f, a)
<1>1. Sound(p) /\ DOMAIN p = {"analysis", "envelope", "error"}
      /\ p = [analysis |-> p.analysis, envelope |-> p.envelope, error |-> p.error]
  BY DEF Sound, ingest_dcf_analysis, Outputs
<1>2. ingest_operating_valuation(o, s, f, a, e) = [p EXCEPT !.envelope = e, !.error = FALSE]
  BY DEF ingest_operating_valuation
<1> HIDE DEF p
<1> QED BY <1>1, <1>2 DEF Sound

LEMMA FailureSound ==
  ASSUME NEW f, NEW o \in Outputs PROVE Sound(FailureOutput(o, f))
<1>1. CASE classify_business(f) # "operating"
  <2>1. FailureOutput(o, f) = [clear_dcf(o) EXCEPT !.error = TRUE]
    BY <1>1 DEF FailureOutput
  <2> QED BY <2>1 DEF clear_dcf, Sound, Outputs
<1>2. CASE classify_business(f) = "operating"
  BY <1>2 DEF FailureOutput, Unavailable, Envelope, Sound
<1> QED BY <1>1, <1>2

\* Routing again: what is sound stays so, and what is shown is shown again.
LEMMA EnsureSound ==
  ASSUME NEW s \in Symbols, NEW f \in Fundamentals \cup {None}, NEW o, Fits(s, o, f), Sound(o)
  PROVE  /\ Sound(ensure_model_routed_valuation(o, s, f))
         /\ Shows(o, f) => Shows(ensure_model_routed_valuation(o, s, f), f)
<1> DEFINE fresh == IF o.envelope # None /\ ~has_current_operating_valuation(o, f)
                    THEN clear_dcf(o) ELSE o
           result == ResidualIncome(s, f)
           class  == classify_business_for(s, f)
           priced == fresh.analysis # None /\ fresh.analysis.model = "residual"
           routed == ensure_model_routed_valuation(o, s, f)
<1>1. CASE f = None
  BY <1>1 DEF ensure_model_routed_valuation
<1>2. CASE f # None
  <2>1. o \in Outputs /\ f \in Fundamentals
    BY <1>2 DEF Fits
  <2>2. Fits(s, fresh, f) /\ fresh \in Outputs
    BY <2>1, ClearFits DEF Fits
  <2>3. Sound(fresh)
    BY <2>1, ClearSound
  <2>4. routed = CASE class = "missing" -> clear_dcf(fresh)
                   [] class = "operating" \/ priced -> fresh
                   [] OTHER -> IF result = None THEN clear_dcf(fresh)
                               ELSE [fresh EXCEPT !.analysis = result]
    BY <1>2 DEF ensure_model_routed_valuation
  <2>5. Sound(clear_dcf(fresh)) /\ (result # None => Sound([fresh EXCEPT !.analysis = result]))
    BY <2>1, <2>2, <2>3, ClearSound, PricedSound
  <2>6. class \in {"operating", "financial", "missing"}
    BY <2>1, DemandAssumption DEF classify_business_for, Fundamentals
  <2>7. Sound(routed)
    <3> HIDE DEF fresh, result, class, priced, routed
    <3> QED BY <2>3, <2>4, <2>5, <2>6
  <2>8. ASSUME Shows(o, f) PROVE Shows(routed, f)
    <3>1. CASE o.analysis # None /\ o.analysis.model = "residual"
      <4>1. AnalysisFits(s, o.analysis, f)
        BY <3>1 DEF Fits
      <4>2. class = "financial" /\ f.shares /\ f.drivers
        BY <3>1, <4>1 DEF AnalysisFits, Sound
      <4>3. result # None /\ result.model = "residual"
        BY <2>1, <4>2, DemandAssumption DEF ResidualIncome
      <4>4. (routed = fresh /\ priced) \/ routed = [fresh EXCEPT !.analysis = result]
        <5> HIDE DEF fresh, result, class, routed
        <5> QED BY <2>4, <4>2, <4>3
      <4>5. routed.analysis # None /\ routed.analysis.model = "residual"
        <5> HIDE DEF fresh, result, class, routed
        <5> QED BY <2>2, <4>3, <4>4 DEF Outputs
      <4> HIDE DEF routed
      <4> QED BY <4>5 DEF Shows
    <3>2. CASE has_current_operating_valuation(o, f) /\ o.envelope.status = "selected"
      <4>1. fresh = o /\ o.envelope # None
        BY <3>2 DEF has_current_operating_valuation
      <4>2. o.envelope.fund = f /\ f.class = "operating"
        BY <3>2, <4>1 DEF Fits, Sound
      <4>3. class = "operating"
        BY <4>2 DEF classify_business_for
      <4>4. routed = o
        <5> HIDE DEF fresh, class, result, priced, routed
        <5> QED BY <2>4, <4>1, <4>3
      <4> HIDE DEF routed
      <4> QED BY <4>4, <2>8
    <3> QED BY <2>8, <3>1, <3>2 DEF Shows
  <2> HIDE DEF routed
  <2> QED BY <2>7, <2>8 DEF routed
<1> QED BY <1>1, <1>2

LEMMA IngestSound ==
  ASSUME InputT, FitsT, SoundInv, NEW s \in Symbols, NEW r \in Fundamentals,
         ingest_fundamentals(s, r)
  PROVE  /\ SoundInv'
         /\ fundamentals'[s] = fundamentals[s] /\ Valued(s) => Valued(s)'
<1> DEFINE f == fundamentals[s]
           new == Merged(f, r)
           o == ClearedBy(out[s], f, new)
<1>1. f \in Fundamentals \cup {None} /\ Fits(s, out[s], f) /\ Sound(out[s]) /\ out[s] \in Outputs
  BY DEF InputT, FitsT, SoundInv
<1>2. new \in Fundamentals
  BY <1>1 DEF Merged, Fundamentals
<1>3. /\ fundamentals' = [fundamentals EXCEPT ![s] = new]
      /\ out' = [out EXCEPT ![s] = ensure_model_routed_valuation(o, s, new)]
  BY DEF ingest_fundamentals
<1>4. Sound(o) /\ Fits(s, o, new)
  BY <1>1, <1>2, ClearSound, ClearedFits DEF ClearedBy
<1>5. new = f => o = out[s]
  BY DEF ClearedBy
<1>6. fundamentals'[s] = new /\ out'[s] = ensure_model_routed_valuation(o, s, new)
  BY <1>3 DEF InputT, FitsT
<1> HIDE DEF new, o
<1>7. Sound(ensure_model_routed_valuation(o, s, new))
      /\ (Shows(o, new) => Shows(ensure_model_routed_valuation(o, s, new), new))
  BY <1>2, <1>4, EnsureSound
<1>8. SoundInv'
  BY <1>3, <1>7, SoundUpdate
<1>9. ASSUME fundamentals'[s] = f, Valued(s) PROVE Valued(s)'
  <2>1. Shows(out[s], f)
    BY <1>9 DEF Valued
  <2>2. Shows(out'[s], fundamentals'[s])
    BY <1>5, <1>6, <1>7, <1>9, <2>1
  <2> QED BY <2>2 DEF Valued
<1> QED BY <1>8, <1>9

\* A symbol's outputs are routed again.
LEMMA RoutedSound ==
  ASSUME IInv, SoundInv, NEW s \in Symbols, UNCHANGED fundamentals,
         out' = [out EXCEPT ![s] = ensure_model_routed_valuation(out[s], s, fundamentals[s])]
  PROVE  SoundInv' /\ (Valued(s) => Valued(s)')
<1>1. /\ fundamentals[s] \in Fundamentals \cup {None}
      /\ Fits(s, out[s], fundamentals[s]) /\ Sound(out[s])
  BY DEF IInv, InputT, FitsT, SoundInv
<1>2. PICK o : o = ensure_model_routed_valuation(out[s], s, fundamentals[s])
  OBVIOUS
<1>3. Sound(o) /\ (Shows(out[s], fundamentals[s]) => Shows(o, fundamentals[s]))
  BY <1>1, <1>2, EnsureSound
<1>4. SoundInv'
  BY <1>2, <1>3, SoundUpdate DEF IInv
<1>5. out'[s] = o
  BY <1>2 DEF IInv, FitsT
<1>6. Valued(s) => Valued(s)'
  BY <1>3, <1>5 DEF Valued
<1> QED BY <1>4, <1>6

\* A worker without a value to answer for finds that the outputs it read are no longer there
\* when somebody has found a value since.
LEMMA ReadIsShown ==
  ASSUME IInv, NEW j, j.symbol \in Symbols, demand_publication_inputs_are_current(j),
         ~Shows(j.rev, j.fund)
  PROVE  ~Valued(j.symbol)
<1> DEFINE o == out[j.symbol]
           f == fundamentals[j.symbol]
<1>1. j.fund = f /\ j.rev = dcf_revision_key(o) /\ o \in Outputs
  BY DEF demand_publication_inputs_are_current, InputsMatch, IInv, FitsT
<1>2. CASE o.envelope = None
  BY <1>1, <1>2 DEF dcf_revision_key, Valued
<1>3. CASE o.envelope # None
  <2>1. j.rev = [o EXCEPT !.envelope = [o.envelope EXCEPT !.current = TRUE]]
    BY <1>1, <1>3 DEF dcf_revision_key
  <2>2. o.envelope \in Envelopes \ {None}
    BY <1>1, <1>3 DEF Outputs
  <2>3. PICK e : e = [o.envelope EXCEPT !.current = TRUE]
    OBVIOUS
  <2>4. e.fund = o.envelope.fund /\ e.status = o.envelope.status /\ e.current
    BY <2>2, <2>3 DEF Envelopes
  <2>5. j.rev.analysis = o.analysis /\ j.rev.envelope = e
    BY <1>1, <2>1, <2>3 DEF Outputs
  <2>6. CASE e # None
    BY <1>1, <1>3, <2>4, <2>5, <2>6 DEF Valued, Shows, has_current_operating_valuation
  <2>7. e # None
    <3>1. e \in [fund : Fundamentals, status : {"selected", "unavailable"},
                  forward : {"ok", "unavailable", "not_attempted"}, current : BOOLEAN]
      BY <2>2, <2>3 DEF Envelopes
    <3> QED BY <3>1, DemandAssumption
  <2> QED BY <2>6, <2>7
<1> QED BY <1>2, <1>3

\* What is said of a job that goes on: it takes away no value it does not know of.
Spares(j) ==
  /\ j.symbol # None /\ ~Shows(j.rev, j.fund)
  /\ Valued(j.symbol) /\ fundamentals'[j.symbol] = fundamentals[j.symbol]
  => Shows(out'[j.symbol], fundamentals'[j.symbol])

LEMMA NothingShown ==
  ASSUME SoundInv, UNCHANGED <<out, fundamentals>>
  PROVE  SoundInv' /\ (\A j : Spares(j))
BY DEF SoundInv, Spares, Valued

LEMMA RequestSound ==
  ASSUME IInv, SoundInv, Request
  PROVE  SoundInv' /\ Spares(detail)
<1> DEFINE s == detail.symbol
           f == fundamentals[s]
           e == Envelope(f, "unavailable", "not_attempted")
<1>1. s \in Symbols
  BY DetailSymbol DEF IInv, Request, DetailAt
<1>2. UNCHANGED fundamentals
  BY DEF Request, inputs
<1>3. CASE UNCHANGED out
  BY <1>2, <1>3, NothingShown
<1>4. CASE /\ f # None /\ classify_business(f) = "missing"
           /\ out' = [out EXCEPT ![s] = ingest_operating_valuation(out[s], s, f, None, e)]
  <2>1. Sound(out[s]) /\ Fits(s, out[s], f) /\ out[s] \in Outputs
    BY <1>1 DEF SoundInv, IInv, FitsT
  <2>2. e.status = "unavailable"
    BY DEF Envelope
  <2> HIDE DEF e
  <2>3. PICK o : o = ingest_operating_valuation(out[s], s, f, None, e)
    OBVIOUS
  <2>4. Sound(o)
    BY <2>1, <2>2, <2>3, OperatingSound
  <2>5. SoundInv'
    BY <1>1, <1>4, <2>3, <2>4, SoundUpdate DEF IInv
  <2>6. out'[s] = o /\ o.analysis = out[s].analysis
    BY <1>1, <1>4, <2>1, <2>3 DEF ingest_operating_valuation, Outputs, IInv, FitsT
  <2>7. Valued(s) => out[s].analysis # None /\ out[s].analysis.model = "residual"
    <3>1. f.class # "operating"
      BY <1>4 DEF classify_business
    <3> QED BY <2>1, <3>1 DEF Valued, Shows, has_current_operating_valuation, Sound, Fits
  <2>8. Valued(s) => Shows(out'[s], fundamentals'[s])
    BY <2>6, <2>7 DEF Shows
  <2> QED BY <2>5, <2>8 DEF Spares
<1> QED BY <1>3, <1>4 DEF Request

\* The failure of a job.
LEMMA FailedSound ==
  ASSUME IInv, SoundInv, NEW j, j.symbol \in Symbols, Failed(j), UNCHANGED fundamentals
  PROVE  SoundInv' /\ Spares(j)
<1> DEFINE s == j.symbol
<1>1. CASE UNCHANGED out
  BY <1>1, NothingShown
<1>2. CASE /\ FailureApplies(j)
           /\ out' = [out EXCEPT ![s] = FailureOutput(out[s], fundamentals[s])]
  <2>1. SoundInv'
    BY <1>2, FailureSound, SoundUpdate DEF IInv, FitsT
  <2>2. Spares(j)
    BY <1>2, ReadIsShown DEF FailureApplies, Spares
  <2> QED BY <2>1, <2>2
<1> QED BY <1>1, <1>2 DEF Failed

LEMMA StoreSound ==
  ASSUME IInv, SoundInv, NEW w \in Valuers, worker[w].symbol \in Symbols,
         NEW r \in Fundamentals, NEW next, Store(w, r, next)
  PROVE  SoundInv' /\ Spares(worker[w])
<1>1. UNCHANGED <<fundamentals, out>> \/ ingest_fundamentals(worker[w].symbol, r)
  BY DEF Store
<1>2. CASE ingest_fundamentals(worker[w].symbol, r)
  <2>1. PICK s \in Symbols : s = worker[w].symbol
    OBVIOUS
  <2>2. SoundInv' /\ (fundamentals'[s] = fundamentals[s] /\ Valued(s) => Valued(s)')
    BY <1>2, <2>1, IngestSound DEF IInv
  <2> QED BY <2>1, <2>2 DEF Spares, Valued
<1> QED BY <1>1, <1>2, NothingShown

LEMMA PublishSound ==
  ASSUME IInv, SoundInv, NEW w \in Valuers, Publish(w)
  PROVE  SoundInv' /\ Spares(worker[w])
<1> DEFINE job == worker[w]
           s == job.symbol
           f == fundamentals[s]
           a == ResidualIncome(s, job.fund)
<1>1. job.step = "publish" /\ s \in Symbols /\ JobFits(job)
  BY WorkerSymbol DEF IInv, Publish, At, Working
<1>2. job.fund \in Fundamentals /\ out[s] \in Outputs /\ Sound(out[s])
  BY <1>1 DEF JobFits, IInv, FitsT, SoundInv
<1>3. UNCHANGED fundamentals
  BY DEF Publish, inputs
<1>4. CASE UNCHANGED out
  BY <1>3, <1>4, NothingShown
<1>5. CASE demand_publication_inputs_are_current(job)
  <2>1. Spares(job)
    BY <1>1, <1>5, ReadIsShown DEF Spares
  <2>2. f = job.fund
    BY <1>5 DEF demand_publication_inputs_are_current, InputsMatch
  <2>3. ASSUME a # None, out' = [out EXCEPT ![s] = ingest_dcf_analysis(out[s], s, f, a)]
        PROVE  SoundInv'
    <3>1. Sound(ingest_dcf_analysis(out[s], s, f, a))
      BY <1>2, <2>2, <2>3, PricedSound
    <3> QED BY <1>1, <2>3, <3>1, SoundUpdate DEF IInv
  <2>4. ASSUME job.class = "operating", NEW r \in Routes(job),
               out' = [out EXCEPT ![s] =
                         ingest_operating_valuation(out[s], s, f, r.analysis, r.envelope)]
        PROVE  SoundInv'
    <3>1. (r.analysis # None => AnalysisFits(s, r.analysis, job.fund)) /\ r.envelope.fund = job.fund
          /\ r.analysis \in Analyses
      BY <1>1, <2>4, RoutesFit
    <3>2. job.fund.class = "operating"
      BY <1>1, <2>4 DEF JobFits, OperatingFits
    <3>3. r.analysis # None => r.analysis.model = "fcff"
      BY <3>1, <3>2 DEF AnalysisFits, classify_business_for, Analyses
    <3>4. Sound(ingest_operating_valuation(out[s], s, f, r.analysis, r.envelope))
      BY <1>2, <3>1, <3>2, <3>3, OperatingSound
    <3> QED BY <1>1, <2>4, <3>4, SoundUpdate DEF IInv
  <2>5. \/ UNCHANGED out
        \/ a # None /\ out' = [out EXCEPT ![s] = ingest_dcf_analysis(out[s], s, f, a)]
        \/ job.class = "operating" /\ \E r \in Routes(job) :
             out' = [out EXCEPT ![s] =
                       ingest_operating_valuation(out[s], s, f, r.analysis, r.envelope)]
    BY DEF Publish
  <2> QED BY <1>4, <2>1, <2>3, <2>4, <2>5
<1>6. UNCHANGED out \/ demand_publication_inputs_are_current(job)
  BY DEF Publish
<1> QED BY <1>4, <1>5, <1>6

\* The steps of a computation and what ends it.
LEMMA ComputationSound ==
  ASSUME IInv, SoundInv, NEW w \in Valuers,
         \/ Start(w) \/ Refresh(w) \/ Shares(w) \/ Abort(w) \/ Publish(w)
         \/ record_demand_valuation_failure(w) \/ DropGuard(w)
  PROVE  SoundInv' /\ Spares(worker[w])
<1>1. CASE Start(w) \/ Abort(w) \/ DropGuard(w)
  BY <1>1, NothingShown DEF Start, Abort, DropGuard, inputs
<1>2. CASE Refresh(w)
  <2>1. worker[w].symbol \in Symbols
    BY <1>2, WorkerSymbol DEF IInv, Refresh, At, Working
  <2>2. ASSUME NEW r \in Reports(worker[w].fund), Store(w, r, "shares")
        PROVE  SoundInv' /\ Spares(worker[w])
    <3>1. r \in Fundamentals
      BY DemandAssumption DEF Reports, IInv, MarketT
    <3> QED BY <2>1, <2>2, <3>1, StoreSound
  <2> QED BY <1>2, <2>2, NothingShown DEF Refresh
<1>3. CASE Shares(w)
  <2>1. worker[w].symbol \in Symbols /\ worker[w].fund \in Fundamentals
    BY <1>3, WorkerSymbol DEF IInv, Shares, At, Working, JobFits
  <2>2. [worker[w].fund EXCEPT !.shares = TRUE] \in Fundamentals
    BY <2>1 DEF Fundamentals
  <2>3. Store(w, [worker[w].fund EXCEPT !.shares = TRUE], "publish") \/ UNCHANGED <<out, fundamentals>>
    BY <1>3 DEF Shares
  <2> QED BY <2>1, <2>2, <2>3, StoreSound, NothingShown
<1>4. CASE record_demand_valuation_failure(w)
  <2>1. worker[w].symbol \in Symbols /\ UNCHANGED fundamentals /\ Failed(worker[w])
    BY <1>4, WorkerSymbol DEF IInv, record_demand_valuation_failure, At, Working, inputs
  <2> QED BY <2>1, FailedSound
<1> QED BY <1>1, <1>2, <1>3, <1>4, PublishSound

LEMMA AuditFailureSound ==
  ASSUME IInv, SoundInv, AuditFailure
  PROVE  SoundInv' /\ Spares(worker[Auditor])
<1> DEFINE s == worker[Auditor].symbol
           o == [out[s] EXCEPT !.error = TRUE]
<1>1. s \in Symbols /\ UNCHANGED fundamentals
  BY WorkerSymbol DEF IInv, AuditFailure, At, Working, Valuers, inputs
<1>2. CASE UNCHANGED out
  BY <1>1, <1>2, NothingShown
<1>3. CASE out' = [out EXCEPT ![s] = o]
  <2>1. out[s] \in Outputs /\ Sound(out[s])
    BY <1>1 DEF IInv, FitsT, SoundInv
  <2>2. o.analysis = out[s].analysis /\ o.envelope = out[s].envelope /\ Sound(o)
    BY <2>1 DEF Outputs, Sound
  <2> HIDE DEF o
  <2>3. SoundInv'
    BY <1>1, <1>3, <2>2, SoundUpdate DEF IInv
  <2>4. out'[s] = o
    BY <1>1, <1>3 DEF IInv, FitsT
  <2>5. Spares(worker[Auditor])
    <3>1. Shows(out[s], fundamentals[s]) => Shows(out'[s], fundamentals'[s])
      BY <1>1, <2>2, <2>4 DEF Shows, has_current_operating_valuation
    <3> QED BY <3>1 DEF Spares, Valued
  <2> QED BY <2>3, <2>5
<1> QED BY <1>2, <1>3 DEF AuditFailure

\* The steps of the detail command.
LEMMA DetailSound ==
  ASSUME IInv, SoundInv, get_symbol_detail
  PROVE  SoundInv' /\ Spares(detail)
<1>1. instance.open \subseteq Symbols
  BY DemandAssumption DEF IInv, MarketT
<1>2. ASSUME NEW s \in Symbols, OpenDetail(s)
      PROVE  SoundInv' /\ Spares(detail)
  <2>1. SoundInv'
    BY <1>2, RoutedSound DEF OpenDetail, inputs
  <2>2. detail.symbol = None
    BY <1>2 DEF OpenDetail, DetailAt, IInv, DetailT, JobFits
  <2> QED BY <2>1, <2>2 DEF Spares
<1>3. CASE claim_demand_valuation \/ Spawn \/ SpawnFails
  BY <1>3, NothingShown DEF claim_demand_valuation, Spawn, SpawnFails, inputs
<1>4. CASE RecordSpawnFailure
  BY <1>4, DetailSymbol, FailedSound DEF RecordSpawnFailure, DetailAt, IInv, inputs
<1>5. CASE Answer
  <2>1. detail.symbol \in Symbols
    BY <1>5, DetailSymbol DEF Answer, DetailAt, IInv
  <2>2. PICK s \in Symbols : s = detail.symbol
    BY <2>1
  <2>3. SoundInv' /\ (Valued(s) => Valued(s)')
    BY <1>5, <2>2, RoutedSound DEF Answer, inputs
  <2> QED BY <2>2, <2>3 DEF Spares, Valued
<1> QED BY <1>1, <1>2, <1>3, <1>4, <1>5, RequestSound DEF get_symbol_detail

(* The other steps move no job.                                            *)
LEMMA OthersSound ==
  ASSUME IInv, SoundInv,
         \/ \E s \in instance.open : Report(s) \/ Quote(s) \/ Expire(s) \/ Scan(s)
         \/ Bump \/ clear_universe \/ Maintain \/ UNCHANGED vars
  PROVE  SoundInv' /\ UNCHANGED <<detail, worker>>
<1>1. instance.open \subseteq Symbols
  BY DemandAssumption DEF IInv, MarketT
<1>2. ASSUME NEW s \in Symbols, Report(s)
      PROVE  SoundInv' /\ UNCHANGED <<detail, worker>>
  <2>1. PICK r \in Reports(fundamentals[s]) : ingest_fundamentals(s, r)
    BY <1>2 DEF Report
  <2>2. r \in Fundamentals
    BY DemandAssumption DEF Reports, IInv, MarketT
  <2> QED BY <1>2, <2>1, <2>2, IngestSound DEF Report, IInv
<1>3. CASE \/ \E s \in instance.open : Quote(s) \/ Scan(s)
           \/ Bump \/ UNCHANGED vars
  <2>1. UNCHANGED <<out, detail, worker>>
    BY <1>3 DEF Quote, Scan, Bump, vars, inputs
  <2> QED BY <2>1 DEF SoundInv
<1>4. ASSUME NEW s \in Symbols, Expire(s)
      PROVE  SoundInv' /\ UNCHANGED <<detail, worker>>
  <2> DEFINE e == [out[s].envelope EXCEPT !.current = FALSE]
             o == [out[s] EXCEPT !.envelope = e]
  <2>1. /\ out[s] \in Outputs /\ out[s].envelope \in Envelopes \ {None}
        /\ Sound(out[s])
    BY <1>4 DEF IInv, FitsT, SoundInv, Outputs, Expire
  <2>2. e.fund = out[s].envelope.fund /\ e.status = out[s].envelope.status
    BY <2>1 DEF Envelopes
  <2>3. out' = [out EXCEPT ![s] = o] /\ UNCHANGED <<detail, worker>>
    BY <1>4 DEF Expire
  <2> HIDE DEF e
  <2>4. Sound(o)
    BY <2>1, <2>2 DEF Sound, Outputs
  <2> QED BY <2>3, <2>4, SoundUpdate DEF IInv
<1>5. CASE clear_universe
  BY <1>5 DEF clear_universe, SoundInv, Sound, NoOutput
<1>6. CASE Maintain
  <2> DEFINE s == edgar.symbol
             f == fundamentals[s]
             a == ResidualIncome(s, f)
  <2>1. s \in Symbols
    BY <1>6 DEF IInv, EdgarT, Maintain
  <2>2. f \in Fundamentals \cup {None} /\ out[s] \in Outputs /\ Sound(out[s])
    BY <2>1 DEF IInv, InputT, FitsT, SoundInv
  <2>3. UNCHANGED <<detail, worker>>
    BY <1>6 DEF Maintain
  <2>4. \/ out' = out
        \/ out' = [out EXCEPT ![s] = clear_dcf(out[s])]
        \/ f # None /\ a # None /\ out' = [out EXCEPT ![s] = ingest_dcf_analysis(out[s], s, f, a)]
    BY <1>6 DEF Maintain
  <2>5. f # None /\ a # None => Sound(ingest_dcf_analysis(out[s], s, f, a))
    BY <2>2, PricedSound
  <2>6. Sound(clear_dcf(out[s]))
    BY <2>2, ClearSound
  <2> HIDE DEF a
  <2>7. SoundInv'
    <3>1. CASE out' = out
      BY <3>1 DEF SoundInv
    <3>2. CASE out' = [out EXCEPT ![s] = clear_dcf(out[s])]
      BY <2>1, <2>6, <3>2, SoundUpdate DEF IInv
    <3>3. CASE /\ f # None /\ a # None
               /\ out' = [out EXCEPT ![s] = ingest_dcf_analysis(out[s], s, f, a)]
      BY <2>1, <2>5, <3>3, SoundUpdate DEF IInv
    <3> QED BY <2>4, <3>1, <3>2, <3>3
  <2> QED BY <2>3, <2>7
<1> QED BY <1>1, <1>2, <1>3, <1>4, <1>5, <1>6

LEMMA AuditSound ==
  ASSUME IInv, SoundInv, NEW s \in Symbols, Audit(s)
  PROVE  SoundInv' /\ Spares(worker[Auditor])
<1>1. UNCHANGED fundamentals
  BY DEF Audit, inputs
<1>2. SoundInv'
  BY <1>1, RoutedSound DEF Audit
<1>3. worker[Auditor].symbol = None
  BY DEF Audit, At, IInv, WorkerT, JobFits, Valuers
<1> QED BY <1>2, <1>3 DEF Spares

\* Who moves.
Moves(job) ==
  /\ job # detail => \E w \in Valuers : worker[w] = job /\ worker'[w] # job
  /\ job = detail => detail' # detail

LEMMA OnlyWorkerMoves ==
  ASSUME IInv, NEW w \in Valuers, UNCHANGED detail,
         \E k : worker' = [worker EXCEPT ![w] = k],
         NEW job, Moves(job)
  PROVE  job = worker[w]
BY DEF Moves, IInv, WorkerT

LEMMA WorkerAlone ==
  ASSUME NEW w \in Valuers,
         \/ Start(w) \/ Refresh(w) \/ Shares(w) \/ Abort(w) \/ Publish(w)
         \/ record_demand_valuation_failure(w) \/ DropGuard(w)
         \/ w = Auditor /\ (AuditFailure \/ \E s : Audit(s))
  PROVE  UNCHANGED detail /\ \E k : worker' = [worker EXCEPT ![w] = k]
<1>1. CASE Start(w) \/ Abort(w) \/ Publish(w) \/ record_demand_valuation_failure(w) \/ DropGuard(w)
  BY <1>1 DEF Start, Abort, Publish, record_demand_valuation_failure, DropGuard, Goto, End
<1>2. ASSUME NEW r, NEW next, Store(w, r, next)
      PROVE  \E k : worker' = [worker EXCEPT ![w] = k]
  BY <1>2 DEF Store, Goto, End
<1>3. CASE Refresh(w) \/ Shares(w)
  BY <1>2, <1>3 DEF Refresh, Shares, Goto
<1>4. CASE w = Auditor /\ (AuditFailure \/ \E s : Audit(s))
  BY <1>4 DEF AuditFailure, Audit
<1> QED BY <1>1, <1>3, <1>4

LEMMA DetailAlone ==
  ASSUME IInv, get_symbol_detail, NEW job, Moves(job)
  PROVE  job = detail \/ job.symbol = None
<1>1. CASE UNCHANGED worker
  BY <1>1 DEF Moves
<1>2. CASE Spawn
  <2>1. PICK w \in DemandWorkers :
          /\ worker[w].step = "free"
          /\ worker' = [worker EXCEPT ![w] = [detail EXCEPT !.step = "start"]]
    BY <1>2 DEF Spawn
  <2>2. worker[w].symbol = None
    BY <2>1 DEF IInv, WorkerT, JobFits, Valuers
  <2> QED BY <2>1, <2>2 DEF Moves, IInv, WorkerT
<1> QED BY <1>1, <1>2 DEF get_symbol_detail, OpenDetail, Request, claim_demand_valuation,
                        SpawnFails, RecordSpawnFailure, Answer

LEMMA SoundStep ==
  ASSUME IInv, SoundInv, [Next]_vars
  PROVE  SoundInv' /\ (\A job : Moves(job) => Spares(job))
<1>1. instance.open \subseteq Symbols /\ DemandWorkers \subseteq Valuers /\ Auditor \in Valuers
  BY DemandAssumption DEF IInv, MarketT, Valuers
<1>2. CASE \/ \E s \in instance.open : Report(s) \/ Quote(s) \/ Expire(s) \/ Scan(s)
           \/ Bump \/ clear_universe \/ Maintain \/ UNCHANGED vars
  BY <1>2, OthersSound DEF Moves
<1>3. CASE get_symbol_detail
  BY <1>3, DetailSound, DetailAlone DEF Spares
<1>4. ASSUME NEW w \in Valuers,
             \/ Start(w) \/ Refresh(w) \/ Shares(w) \/ Abort(w) \/ Publish(w)
             \/ record_demand_valuation_failure(w) \/ DropGuard(w)
             \/ w = Auditor /\ (AuditFailure \/ \E s \in Symbols : Audit(s))
      PROVE  SoundInv' /\ (\A job : Moves(job) => Spares(job))
  <2>1. SoundInv' /\ Spares(worker[w])
    BY <1>4, ComputationSound, AuditFailureSound, AuditSound
  <2>2. UNCHANGED detail /\ \E k : worker' = [worker EXCEPT ![w] = k]
    BY <1>4, WorkerAlone
  <2> QED BY <2>1, <2>2, OnlyWorkerMoves
<1>5. CASE Auditing
  BY <1>1, <1>4, <1>5 DEF Auditing
<1>6. CASE \E w \in DemandWorkers : DemandWorker(w)
  BY <1>1, <1>4, <1>6 DEF DemandWorker
<1> QED BY <1>2, <1>3, <1>5, <1>6 DEF Next

\* A worker, a failure to start one, or the audit never takes away a value that was found
\* after they read the symbol, while its fundamentals stay.
THEOREM LateFailuresSpare == Spec => FailureKeepsValues
<1>1. Init => SoundInv
  BY DEF Init, SoundInv, Sound, NoOutput
<1>2. IInv /\ SoundInv /\ [Next]_vars => SoundInv'
  BY SoundStep
<1>3. IInv /\ SoundInv /\ [Next]_vars =>
        [\A job \in {detail} \cup {worker[w] : w \in Valuers} :
           /\ job.symbol # None
           /\ job # detail => \E w \in Valuers : worker[w] = job /\ worker'[w] # job
           /\ job = detail => detail' # detail
           /\ ~Shows(job.rev, job.fund)
           /\ Valued(job.symbol) /\ fundamentals'[job.symbol] = fundamentals[job.symbol]
           => Valued(job.symbol)']_vars
  BY SoundStep DEF Moves, Spares, Valued
<1> QED BY <1>1, <1>2, <1>3, Inductive, PTL DEF Spec, FailureKeepsValues
=============================================================================
