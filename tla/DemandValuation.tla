-------------------------- MODULE DemandValuation --------------------------
(***************************************************************************)
(* The valuation of one symbol on demand, in the Windows back end          *)
(* (commands.rs, engine.rs): the detail command claims the symbol and      *)
(* spawns a worker, which reads the inputs, fetches without any lock and   *)
(* publishes if nothing it read has changed.  It meets the periodic EDGAR  *)
(* worker, the QA audit (which runs the same computation without a claim), *)
(* new fundamentals and quotes, and the adoption of another profile.       *)
(*                                                                         *)
(* The fundamentals of a symbol are what the routing looks at: the class   *)
(* its texts give ("missing" when it has none), whether the share count    *)
(* and the other drivers are known, and a version for all the rest; the    *)
(* fingerprint of fundamentals is their value.  A valuation carries the    *)
(* fundamentals it was computed of.  What providers answer is a choice.    *)
(***************************************************************************)
EXTENDS Integers, FiniteSets

CONSTANTS
  Symbols,
  PaymentNetworks,   \* PAYMENT_NETWORK_ISSUERS: V and MA
  Texts,             \* the classes the texts of the fundamentals may give
  DemandWorkers,     \* model bound: demand valuations running at once
  Auditor,           \* the thread of the QA audit
  Instances,         \* model bound: [open, with, reported]: the symbols open, who the
                     \* valuation on demand meets (the QA audit, EDGAR's worker, quotes,
                     \* the passing of time, another profile) and the fundamentals that are reported
  MAX_VERSION,       \* model bound: versions of the fundamentals
  MAX_QUOTES,        \* model bound: prices
  MAX_GENERATION,    \* model bound: profile adoptions
  None

Fundamentals == [class : Texts, shares : BOOLEAN, drivers : BOOLEAN, version : 1..MAX_VERSION]

ASSUME DemandAssumption ==
  /\ PaymentNetworks \subseteq Symbols
  /\ None \notin Symbols /\ None \notin Fundamentals /\ None \notin Texts
  /\ None \notin [model : {"fcff", "residual"}, fund : Fundamentals]
  /\ None \notin [fund : Fundamentals, status : {"selected", "unavailable"},
                   forward : {"ok", "unavailable", "not_attempted"}, current : BOOLEAN]
  /\ Texts \subseteq {"operating", "financial", "missing"}
  /\ Auditor \notin DemandWorkers
  /\ \A i \in Instances : /\ i.open \subseteq Symbols /\ i.reported \subseteq Fundamentals
                           /\ i.with \subseteq {"audit", "edgar", "quotes", "time", "profile"}
  /\ MAX_VERSION \in Nat /\ MAX_QUOTES \in Nat /\ MAX_GENERATION \in Nat \ {0}

VARIABLES
  instance,          \* one of Instances, fixed
  feed_generation,
  clearing,          \* a profile is being adopted: bumped, the universe not cleared yet
  fundamentals,      \* [Symbols -> Fundamentals or None]
  price,             \* [Symbols -> 0..MAX_QUOTES]; 0: no snapshot
  out,               \* [Symbols -> [analysis, envelope, error]]
  valuation_inflight,\* claimed <<generation, symbol>>
  detail,            \* get_symbol_detail: [step, job]
  worker,            \* [DemandWorkers and Auditor -> job]
  edgar              \* the EDGAR worker: [step, symbol, generation, class]

inputs == <<fundamentals, price>>
market == <<instance, feed_generation, clearing>>
vars == <<market, inputs, out, valuation_inflight, detail, worker, edgar>>

Valuers == DemandWorkers \cup {Auditor}

NoOutput == [analysis |-> None, envelope |-> None, error |-> FALSE]
NoJob    == [step |-> "free", symbol |-> None, generation |-> 0, fund |-> None, price |-> 0,
             rev |-> NoOutput, class |-> None, analysis |-> None]
NoScan   == [step |-> "next", symbol |-> None, generation |-> 0, class |-> None]

Init ==
  /\ instance \in Instances
  /\ feed_generation = 1 /\ clearing = FALSE
  /\ fundamentals = [s \in Symbols |-> None]
  /\ price = [s \in Symbols |-> 0]
  /\ out = [s \in Symbols |-> NoOutput]
  /\ valuation_inflight = {}
  /\ detail = NoJob
  /\ worker = [w \in Valuers |-> NoJob]
  /\ edgar = NoScan

-----------------------------------------------------------------------------
(* The engine's operators: each runs under the screener's lock.             *)

generation_is_current(g) == g = feed_generation

classify_business(f) == f.class

classify_business_for(s, f) == IF s \in PaymentNetworks THEN "operating" ELSE f.class

\* An envelope is current until it expires or the fundamentals change.
has_current_operating_valuation(o, f) ==
  o.envelope # None /\ o.envelope.fund = f /\ o.envelope.current

clear_dcf(o) == [o EXCEPT !.analysis = None, !.envelope = None]

\* compute_from_fundamentals, and compute_with_params without a cash-flow history: residual
\* income for a financial; an operating company is refused for want of that history.
ResidualIncome(s, f) ==
  IF classify_business_for(s, f) = "financial" /\ f.shares /\ f.drivers
  THEN [model |-> "residual", fund |-> f] ELSE None

ensure_model_routed_valuation(o, s, f) ==
  IF f = None THEN o ELSE
  LET fresh  == IF o.envelope # None /\ ~has_current_operating_valuation(o, f)
                THEN clear_dcf(o) ELSE o
      class  == classify_business_for(s, f)
      priced == fresh.analysis # None /\ fresh.analysis.model = "residual"
      result == ResidualIncome(s, f)
  IN CASE class = "missing" -> clear_dcf(fresh)
       [] class = "operating" \/ priced -> fresh
       [] OTHER -> IF result = None THEN clear_dcf(fresh)
                   ELSE [fresh EXCEPT !.analysis = result]

ingest_dcf_analysis(o, s, f, analysis) ==
  IF analysis.model = "fcff" /\ f # None /\ classify_business_for(s, f) = "financial" THEN o
  ELSE [analysis |-> analysis, envelope |-> None, error |-> FALSE]

ingest_operating_valuation(o, s, f, analysis, envelope) ==
  [IF analysis = None THEN o ELSE ingest_dcf_analysis(o, s, f, analysis)
     EXCEPT !.envelope = envelope, !.error = FALSE]

\* What is known is kept when a report does not have it.
Merged(old, new) ==
  IF old = None THEN new
  ELSE [class   |-> IF new.class = "missing" THEN old.class ELSE new.class,
        shares  |-> old.shares \/ new.shares,
        drivers |-> old.drivers \/ new.drivers,
        version |-> new.version]

\* Mutant: valuations of the old fundamentals are kept.
KeptBy(o, old, new) == o

ClearedBy(o, old, new) == IF old # None /\ old # new THEN clear_dcf(o) ELSE o

ingest_fundamentals(s, report) ==
  LET new == Merged(fundamentals[s], report) IN
  /\ fundamentals' = [fundamentals EXCEPT ![s] = new]
  /\ out' = [out EXCEPT ![s] =
               ensure_model_routed_valuation(ClearedBy(out[s], fundamentals[s], new), s, new)]

\* What a provider may report after f: data of a new version, or more of the same.
Reports(f) ==
  IF f = None THEN {r \in instance.reported : r.version = 1}
  ELSE {r \in instance.reported : r.version = f.version + 1 \/ (r.version = f.version /\ r.class = f.class)}

Envelope(f, status, forward) ==
  [fund |-> f, status |-> status, forward |-> forward, current |-> TRUE]

Unavailable(f) == Envelope(f, "unavailable", "unavailable")

-----------------------------------------------------------------------------
(* The inputs: fundamentals and quotes of the feed, time, another profile.  *)

Report(s) ==
  /\ \E r \in Reports(fundamentals[s]) : ingest_fundamentals(s, r)
  /\ UNCHANGED <<market, price, valuation_inflight, detail, worker, edgar>>

Quote(s) ==
  /\ "quotes" \in instance.with /\ price[s] < MAX_QUOTES
  /\ price' = [price EXCEPT ![s] = @ + 1]
  /\ UNCHANGED <<market, fundamentals, out, valuation_inflight, detail, worker, edgar>>

\* An unavailable forecast is retried after 90 s; one that was found grows old.
Expire(s) ==
  /\ "time" \in instance.with
  /\ out[s].envelope # None /\ out[s].envelope.forward # "not_attempted"
  /\ out' = [out EXCEPT ![s].envelope.current = FALSE]
  /\ UNCHANGED <<market, inputs, valuation_inflight, detail, worker, edgar>>

Bump ==
  /\ "profile" \in instance.with /\ ~clearing /\ feed_generation < MAX_GENERATION
  /\ feed_generation' = feed_generation + 1
  /\ clearing' = TRUE
  /\ UNCHANGED <<instance, inputs, out, valuation_inflight, detail, worker, edgar>>

clear_universe ==
  /\ clearing
  /\ clearing' = FALSE
  /\ fundamentals' = [s \in Symbols |-> None]
  /\ price' = [s \in Symbols |-> 0]
  /\ out' = [s \in Symbols |-> NoOutput]
  /\ UNCHANGED <<instance, feed_generation, valuation_inflight, detail, worker, edgar>>

-----------------------------------------------------------------------------
(* What a valuation remembers of the inputs and of the outputs it may       *)
(* replace: DemandFailureContext.  The passing of time is no change.        *)

dcf_revision_key(o) == IF o.envelope = None THEN o ELSE [o EXCEPT !.envelope.current = TRUE]

Capture(job, f, p, o) ==
  [job EXCEPT !.fund = f, !.price = p, !.rev = dcf_revision_key(o)]

InputsMatch(job) ==
  /\ fundamentals[job.symbol] = job.fund
  /\ job.fund # None => price[job.symbol] = job.price

demand_publication_inputs_are_current(job) ==
  InputsMatch(job) /\ dcf_revision_key(out[job.symbol]) = job.rev

\* Mutant: the outputs are not compared.
FailureAlwaysApplies(job) == InputsMatch(job)

FailureApplies(job) == demand_publication_inputs_are_current(job)

FailureOutput(o, f) ==
  IF classify_business(f) # "operating"
  THEN [clear_dcf(o) EXCEPT !.error = TRUE]
  ELSE [analysis |-> None, envelope |-> Unavailable(f), error |-> FALSE]

\* record_demand_valuation_failure.
Failed(job) ==
  out' = IF /\ generation_is_current(job.generation)
            /\ fundamentals[job.symbol] # None
            /\ FailureApplies(job)
         THEN [out EXCEPT ![job.symbol] = FailureOutput(@, fundamentals[job.symbol])]
         ELSE out

-----------------------------------------------------------------------------
(* get_symbol_detail: a command of the main thread, one at a time.          *)

DetailAt(step) == detail.step = step
Answering == [NoJob EXCEPT !.step = "answer", !.symbol = detail.symbol]

OpenDetail(s) ==
  /\ DetailAt("free")
  /\ out' = [out EXCEPT ![s] = ensure_model_routed_valuation(@, s, fundamentals[s])]
  /\ detail' = [NoJob EXCEPT !.step = "request", !.symbol = s]
  /\ UNCHANGED <<market, inputs, valuation_inflight, worker, edgar>>

\* A class that is refused gets its envelope; a valued symbol needs nothing.
IsValued(o, f) ==
  CASE classify_business(f) = "financial" -> o.analysis # None
    [] OTHER -> has_current_operating_valuation(o, f)

Request ==
  /\ DetailAt("request")
  /\ LET s == detail.symbol f == fundamentals[s] IN
     IF f # None /\ classify_business(f) # "missing" /\ ~IsValued(out[s], f)
     THEN /\ detail' = [Capture(detail, f, price[s], out[s]) EXCEPT
                          !.step = "claim", !.generation = feed_generation]
          /\ UNCHANGED out
     ELSE /\ detail' = Answering
          /\ out' = IF f # None /\ classify_business(f) = "missing"
                    THEN [out EXCEPT ![s] = ingest_operating_valuation(@, s, f, None,
                                               Envelope(f, "unavailable", "not_attempted"))]
                    ELSE out
  /\ UNCHANGED <<market, inputs, valuation_inflight, worker, edgar>>

\* Mutant: the claim is not taken.
ClaimNothing ==
  /\ DetailAt("claim")
  /\ detail' = [detail EXCEPT !.step = "spawn"]
  /\ valuation_inflight' = valuation_inflight \cup {<<detail.generation, detail.symbol>>}
  /\ UNCHANGED <<market, inputs, out, worker, edgar>>

claim_demand_valuation ==
  /\ DetailAt("claim")
  /\ LET key == <<detail.generation, detail.symbol>> IN
     /\ detail' = IF key \in valuation_inflight THEN Answering
                   ELSE [detail EXCEPT !.step = "spawn"]
     /\ valuation_inflight' = valuation_inflight \cup {key}
  /\ UNCHANGED <<market, inputs, out, worker, edgar>>

Spawn ==
  /\ DetailAt("spawn")
  /\ \E w \in DemandWorkers :
       /\ worker[w].step = "free"
       /\ worker' = [worker EXCEPT ![w] = [detail EXCEPT !.step = "start"]]
  /\ detail' = Answering
  /\ UNCHANGED <<market, inputs, out, valuation_inflight, edgar>>

SpawnFails ==
  /\ DetailAt("spawn")
  /\ valuation_inflight' = valuation_inflight \ {<<detail.generation, detail.symbol>>}
  /\ detail' = [detail EXCEPT !.step = "failed"]
  /\ UNCHANGED <<market, inputs, out, worker, edgar>>

RecordSpawnFailure ==
  /\ DetailAt("failed")
  /\ Failed(detail)
  /\ detail' = Answering
  /\ UNCHANGED <<market, inputs, valuation_inflight, worker, edgar>>

Answer ==
  /\ DetailAt("answer")
  /\ LET s == detail.symbol IN
     out' = [out EXCEPT ![s] = ensure_model_routed_valuation(@, s, fundamentals[s])]
  /\ detail' = NoJob
  /\ UNCHANGED <<market, inputs, valuation_inflight, worker, edgar>>

get_symbol_detail ==
  \/ \E s \in instance.open : OpenDetail(s)
  \/ Request \/ claim_demand_valuation \/ Spawn \/ SpawnFails \/ RecordSpawnFailure \/ Answer

-----------------------------------------------------------------------------
(* compute_demand_valuation_once, by a demand worker or the auditor w.      *)

At(w, step) == worker[w].step = step
Goto(w, step) == worker' = [worker EXCEPT ![w].step = step]

\* A computation ends, with no failure to record: a demand worker still holds its claim.
End(w) ==
  worker' = [worker EXCEPT ![w] =
               IF w = Auditor THEN NoJob
               ELSE [NoJob EXCEPT !.step = "release", !.symbol = worker[w].symbol,
                                  !.generation = worker[w].generation]]

\* Where a computation goes with the fundamentals it has.
AfterCapture(f) ==
  CASE classify_business(f) = "missing" -> "failed"
    [] classify_business(f) = "financial" /\ ~(f.shares /\ f.drivers) -> "refresh"
    [] classify_business(f) = "operating" /\ ~f.shares -> "shares"
    [] OTHER -> "publish"

Fcff(o) == IF o.analysis # None /\ o.analysis.model = "fcff" THEN o.analysis ELSE None

Start(w) ==
  /\ At(w, "start")
  /\ LET job == worker[w] s == job.symbol f == fundamentals[s] IN
     worker' = [worker EXCEPT ![w] =
       IF ~generation_is_current(job.generation) \/ f = None
       THEN [job EXCEPT !.step = "failed"]
       ELSE [Capture(job, f, price[s], out[s]) EXCEPT
               !.step = AfterCapture(f), !.class = classify_business(f),
               !.analysis = Fcff(out[s])]]
  /\ UNCHANGED <<market, inputs, out, valuation_inflight, detail, edgar>>

\* A fetched report is stored if the inputs are those the worker read, which become the
\* ones it goes on with.
Store(w, report, next) ==
  LET job == worker[w] s == job.symbol IN
  CASE ~generation_is_current(job.generation) ->
         Goto(w, "failed") /\ UNCHANGED <<fundamentals, out>>
    [] generation_is_current(job.generation) /\ ~demand_publication_inputs_are_current(job) ->
         End(w) /\ UNCHANGED <<fundamentals, out>>
    [] OTHER ->
         /\ ingest_fundamentals(s, report)
         /\ worker' = [worker EXCEPT ![w] =
                         [Capture(job, fundamentals'[s], price[s], out'[s]) EXCEPT
                            !.step = IF fundamentals'[s].shares THEN "publish" ELSE next]]

\* A financial without its drivers: the full fundamentals of Yahoo, once.
Refresh(w) ==
  /\ At(w, "refresh")
  /\ \/ \E r \in Reports(worker[w].fund) : Store(w, r, "shares")
     \/ /\ Goto(w, IF worker[w].fund.shares THEN "publish" ELSE "shares")
        /\ UNCHANGED <<fundamentals, out>>
  /\ UNCHANGED <<market, price, valuation_inflight, detail, edgar>>

\* The share count of the SEC; an operating company goes on without it.
Shares(w) ==
  /\ At(w, "shares")
  /\ \/ Store(w, [worker[w].fund EXCEPT !.shares = TRUE], "publish")
     \/ /\ worker[w].class = "operating"
        /\ Goto(w, "publish") /\ UNCHANGED <<fundamentals, out>>
  /\ UNCHANGED <<market, price, valuation_inflight, detail, edgar>>

\* A fetch a financial cannot do without fails, or a demand worker panics.
Abort(w) ==
  /\ \/ w # Auditor /\ worker[w].step \in {"start", "refresh", "shares", "publish"}
     \/ worker[w].class = "financial" /\ worker[w].step \in {"refresh", "shares"}
  /\ Goto(w, "failed")
  /\ UNCHANGED <<market, inputs, out, valuation_inflight, detail, edgar>>

\* What the router may say of an operating company: its cash flows, those the worker found
\* valued or those of the SEC, and the forecast; with neither there is no value.
Routes(job) ==
  LET found == IF job.analysis # None THEN {job.analysis}
               ELSE {None} \cup (IF job.fund.shares THEN {[model |-> "fcff", fund |-> job.fund]}
                                 ELSE {})
  IN {r \in [analysis : found,
             envelope : {Envelope(job.fund, status, forward) :
                           status \in {"selected", "unavailable"},
                           forward \in {"ok", "unavailable"}}] :
        r.envelope.status = "selected" => r.analysis # None \/ r.envelope.forward = "ok"}

Publish(w) ==
  /\ At(w, "publish")
  /\ LET job == worker[w] s == job.symbol f == fundamentals[s] IN
     \/ /\ job.class = "financial" /\ ResidualIncome(s, job.fund) = None
        /\ Goto(w, "failed") /\ UNCHANGED out
     \/ /\ job.class = "financial" => ResidualIncome(s, job.fund) # None
        /\ ~generation_is_current(job.generation)
        /\ Goto(w, "failed") /\ UNCHANGED out
     \/ /\ job.class = "financial" => ResidualIncome(s, job.fund) # None
        /\ generation_is_current(job.generation)
        /\ ~demand_publication_inputs_are_current(job)
        /\ End(w) /\ UNCHANGED out
     \/ /\ generation_is_current(job.generation)
        /\ demand_publication_inputs_are_current(job)
        /\ \/ /\ job.class = "financial" /\ ResidualIncome(s, job.fund) # None
              /\ out' = [out EXCEPT ![s] =
                           ingest_dcf_analysis(@, s, f, ResidualIncome(s, job.fund))]
           \/ /\ job.class = "operating"
              /\ \E r \in Routes(job) :
                   out' = [out EXCEPT ![s] =
                             ingest_operating_valuation(@, s, f, r.analysis, r.envelope)]
        /\ End(w)
  /\ UNCHANGED <<market, inputs, valuation_inflight, detail, edgar>>

record_demand_valuation_failure(w) ==
  /\ w # Auditor /\ At(w, "failed")
  /\ Failed(worker[w])
  /\ End(w)
  /\ UNCHANGED <<market, inputs, valuation_inflight, detail, edgar>>

Answered(s) ==
  \/ fundamentals[s] = None \/ out[s].analysis # None \/ out[s].error
  \/ out[s].envelope # None \/ classify_business_for(s, fundamentals[s]) = "missing"

\* Mutant: no guard: only a valuation that succeeds releases its claim.
KeepClaim(w) ==
  /\ At(w, "release")
  /\ valuation_inflight' =
       IF Answered(worker[w].symbol)
       THEN valuation_inflight \ {<<worker[w].generation, worker[w].symbol>>}
       ELSE valuation_inflight
  /\ worker' = [worker EXCEPT ![w] = NoJob]
  /\ UNCHANGED <<market, inputs, out, detail, edgar>>

\* ValuationInflightGuard, dropped as the thread ends.
DropGuard(w) ==
  /\ At(w, "release")
  /\ valuation_inflight' = valuation_inflight \ {<<worker[w].generation, worker[w].symbol>>}
  /\ worker' = [worker EXCEPT ![w] = NoJob]
  /\ UNCHANGED <<market, inputs, out, detail, edgar>>

DemandWorker(w) ==
  \/ Start(w) \/ Refresh(w) \/ Shares(w) \/ Abort(w) \/ Publish(w)
  \/ record_demand_valuation_failure(w) \/ DropGuard(w)

-----------------------------------------------------------------------------
(* run_qa_valuation_divergence_audit: symbol by symbol, without a claim.    *)

Audit(s) ==
  /\ "audit" \in instance.with /\ At(Auditor, "free")
  /\ LET o == ensure_model_routed_valuation(out[s], s, fundamentals[s]) IN
     /\ out' = [out EXCEPT ![s] = o]
     /\ ~has_current_operating_valuation(o, fundamentals[s])
     /\ ~(o.analysis # None /\ o.analysis.model = "residual")
     /\ worker' = [worker EXCEPT ![Auditor] =
          [Capture([NoJob EXCEPT !.symbol = s], fundamentals[s], price[s], o) EXCEPT
             !.step = "start", !.generation = feed_generation]]
  /\ UNCHANGED <<market, inputs, valuation_inflight, detail, edgar>>

AuditFailure ==
  /\ At(Auditor, "failed")
  /\ LET job == worker[Auditor] IN
     out' = IF generation_is_current(job.generation) /\ demand_publication_inputs_are_current(job)
            THEN [out EXCEPT ![job.symbol].error = TRUE] ELSE out
  /\ worker' = [worker EXCEPT ![Auditor] = NoJob]
  /\ UNCHANGED <<market, inputs, valuation_inflight, detail, edgar>>

Auditing ==
  \/ \E s \in instance.open : Audit(s)
  \/ Start(Auditor) \/ Refresh(Auditor) \/ Shares(Auditor) \/ Abort(Auditor)
  \/ Publish(Auditor) \/ AuditFailure

-----------------------------------------------------------------------------
(* The EDGAR worker keeps the financials valued and clears what is refused. *)
(* It reads the class in one lock and acts on it in another; which inputs   *)
(* its schedule spares it is a choice.                                      *)

Scan(s) ==
  /\ "edgar" \in instance.with /\ edgar.step = "next" /\ ~clearing
  /\ fundamentals[s] # None /\ fundamentals[s].shares
  /\ edgar' = [step |-> "maintain", symbol |-> s, generation |-> feed_generation,
               class |-> classify_business(fundamentals[s])]
  /\ UNCHANGED <<market, inputs, out, valuation_inflight, detail, worker>>

Maintain ==
  /\ edgar.step = "maintain"
  /\ edgar' = NoScan
  /\ LET s == edgar.symbol f == fundamentals[s] IN
     out' = CASE ~generation_is_current(edgar.generation) -> out
              [] generation_is_current(edgar.generation) /\ edgar.class = "missing" ->
                   [out EXCEPT ![s] = clear_dcf(@)]
              [] generation_is_current(edgar.generation) /\ edgar.class = "financial"
                   /\ f # None /\ ResidualIncome(s, f) # None ->
                   [out EXCEPT ![s] = ingest_dcf_analysis(@, s, f, ResidualIncome(s, f))]
              [] OTHER -> out
  /\ UNCHANGED <<market, inputs, valuation_inflight, detail, worker>>

-----------------------------------------------------------------------------
Next ==
  \/ \E s \in instance.open : Report(s) \/ Quote(s) \/ Expire(s) \/ Scan(s)
  \/ Bump \/ clear_universe
  \/ get_symbol_detail
  \/ \E w \in DemandWorkers : DemandWorker(w)
  \/ Auditing
  \/ Maintain

Spec == Init /\ [][Next]_vars

\* Threads go on; while a symbol is open the front end asks for its detail again.
Fairness ==
  /\ WF_vars(clear_universe)
  /\ WF_vars(get_symbol_detail)
  /\ \A w \in DemandWorkers : WF_vars(DemandWorker(w))

FairSpec == Spec /\ Fairness

-----------------------------------------------------------------------------
(* Properties.                                                              *)

Analyses == {None} \cup [model : {"fcff", "residual"}, fund : Fundamentals]
Envelopes == {None} \cup [fund : Fundamentals, status : {"selected", "unavailable"},
                          forward : {"ok", "unavailable", "not_attempted"}, current : BOOLEAN]
Outputs == [analysis : Analyses, envelope : Envelopes, error : BOOLEAN]
Jobs == [step : {"free", "request", "claim", "spawn", "answer", "start", "refresh", "shares",
                 "publish", "failed", "release"},
         symbol : Symbols \cup {None}, generation : 0..MAX_GENERATION,
         fund : Fundamentals \cup {None}, price : 0..MAX_QUOTES, rev : Outputs,
         class : Texts \cup {None}, analysis : Analyses]

TypeOK ==
  /\ instance \in Instances
  /\ feed_generation \in 1..MAX_GENERATION /\ clearing \in BOOLEAN
  /\ fundamentals \in [Symbols -> Fundamentals \cup {None}]
  /\ price \in [Symbols -> 0..MAX_QUOTES]
  /\ out \in [Symbols -> Outputs]
  /\ valuation_inflight \subseteq (1..MAX_GENERATION) \X Symbols
  /\ detail \in Jobs
  /\ worker \in [Valuers -> Jobs]
  /\ \A w \in Valuers : At(w, "free") <=> worker[w].symbol = None
  /\ edgar \in [step : {"next", "maintain"}, symbol : Symbols \cup {None},
                generation : 0..MAX_GENERATION, class : Texts \cup {None}]

\* Every valuation shown is of the fundamentals the symbol has now, whoever computed it and
\* however long ago its worker read them.
ValuationMatchesInputs ==
  \A s \in Symbols :
    /\ out[s].analysis # None => out[s].analysis.fund = fundamentals[s]
    /\ out[s].envelope # None => out[s].envelope.fund = fundamentals[s]

\* Discounted cash flows are kept for operating companies and residual income for
\* financials, a payment network being an operating company whatever its texts say.
RoutedByClass ==
  \A s \in Symbols : LET a == out[s].analysis IN
    a # None => classify_business_for(s, fundamentals[s]) =
                  IF a.model = "fcff" THEN "operating" ELSE "financial"

\* What is shown fits the symbol: it is of its fundamentals, by the model of its class.
ValuationFits == ValuationMatchesInputs /\ RoutedByClass

\* A claim has one worker or is about to: no claim outlives its worker, and no two workers
\* value one symbol in one generation.
InflightHasWorker ==
  LET Holds(job, key) == job.step # "free" /\ <<job.generation, job.symbol>> = key
      Live(key) == {w \in DemandWorkers : Holds(worker[w], key)}
  IN /\ \A key \in valuation_inflight :
          Cardinality(Live(key)) + (IF DetailAt("spawn") /\ Holds(detail, key) THEN 1 ELSE 0) = 1
     /\ \A w \in DemandWorkers :
          ~At(w, "free") => <<worker[w].generation, worker[w].symbol>> \in valuation_inflight

Shows(o, f) ==
  \/ o.analysis # None /\ o.analysis.model = "residual"
  \/ has_current_operating_valuation(o, f) /\ o.envelope.status = "selected"
Valued(s) == Shows(out[s], fundamentals[s])

\* A worker that read a symbol without a value never takes away the value another one found
\* since, while the fundamentals stay; nor does the failure to start a worker.
FailureKeepsValues ==
  [][\A job \in {detail} \cup {worker[w] : w \in Valuers} :
       /\ job.symbol # None
       /\ job # detail => \E w \in Valuers : worker[w] = job /\ worker'[w] # job
       /\ job = detail => detail' # detail
       /\ ~Shows(job.rev, job.fund)
       /\ Valued(job.symbol) /\ fundamentals'[job.symbol] = fundamentals[job.symbol]
       => Valued(job.symbol)']_vars

\* A symbol that is asked for has, again and again, a value or a reason why it has none:
\* a worker that gave up because its inputs changed leaves the symbol to the next request.
AskedIsAnswered == \A s \in Symbols : []<>Answered(s)

\* A payment network is valued as an operating company, whatever its texts say.
NetworksAreOperating ==
  \A w \in Valuers :
    worker[w].symbol \in PaymentNetworks /\ worker[w].class # None =>
      worker[w].class = "operating"
=============================================================================
