--------------------------- MODULE EvidenceLedger ---------------------------
(***************************************************************************)
(* The evidence ledger of the Windows back end: analyst-method imports     *)
(* (analyst_method_service.rs) publish a model run as the current          *)
(* candidate of a security, or supersede the current one, or are refused.  *)
(* An import reads its authority, commits, and possibly records a refusal, *)
(* in up to three transactions; several importers contend.                 *)
(*                                                                         *)
(* A digest is what it digests: a command is a record, equal commands have *)
(* equal canonical digests and, with the same identity bundle, equal       *)
(* lifecycle fingerprints.  The issuer is part of the security, there is   *)
(* one method, and so a projection key is a security.  Membership and role *)
(* rows are inserted with the run and are part of it.                      *)
(*                                                                         *)
(* A run is read under a ticker, which the database looks up in any        *)
(* spelling among the aliases of all securities.                           *)
(***************************************************************************)
EXTENDS Integers, Sequences, FiniteSets

CONSTANTS
  Securities,    \* issuer and security ids
  Tickers,       \* ticker symbols, in every spelling that is seeded or looked up
  Upper,         \* [Tickers -> Tickers], the upper() of SQLite
  Bundles,       \* identity bundles: [security, ticker, vintage, basis]
  Revisions,     \* revision ids of observations
  Commands,      \* imports: [run, security, bundle, eps_basis, projects, prior, mode,
                 \* admissible, observations], an observation being [id, revision, supersedes]
  Importers,     \* concurrent callers of commit_analyst_method_import
  None,          \* an absent run or revision
  NoCommand,     \* a caller that makes no import
  MAX_FAILURES   \* model bound: transactions that fail for reasons of their own

RunIds == {c.run : c \in Commands}

Observation(o, s) == [id |-> o.id, revision |-> o.revision, supersedes |-> o.supersedes,
                      security |-> s]
ObservationRows(c) == {Observation(o, c.security) : o \in c.observations}
EdgeRows(c) == {[revision |-> o.revision, supersedes |-> o.supersedes, observation |-> o.id] :
                  o \in c.observations}

Alias(b) == [security |-> b.security, ticker |-> b.ticker, vintage |-> b.vintage]

ASSUME LedgerAssumption ==
  /\ \A b \in Bundles : b.security \in Securities /\ b.ticker \in Tickers
  /\ Upper \in [Tickers -> Tickers]
  /\ \A c \in Commands :
       /\ c.security \in Securities /\ c.bundle \in Bundles
       /\ c.projects \in BOOLEAN /\ c.admissible \in BOOLEAN
       /\ c.prior \in RunIds \cup {None}
       /\ c.mode \in {"operational", "certified_backfill_research"}
       /\ \A o \in c.observations :
            /\ o.revision \in Revisions /\ o.supersedes \in Revisions \cup {None}
       /\ \A o, p \in c.observations : o.id = p.id => o = p
  /\ None \notin RunIds /\ None \notin Revisions /\ NoCommand \notin Commands
  /\ MAX_FAILURES \in Nat

VARIABLES
  aliases,       \* security_ticker_alias: [security, ticker, vintage]
  bases,         \* share_basis_vintage: [security, basis]
  observations,  \* evidence_observation_v2
  edges,         \* evidence_revision_edge
  runs,          \* valuation_model_run, with its membership and roles
  projection,    \* valuation_current_projection
  invalidations, \* valuation_projection_invalidation, in the order of its ids
  supersessions, \* valuation_run_supersession
  attempts,      \* valuation_import_command_attempt: [command, outcome]
  importer,      \* the import each caller is making, and its next step
  failures

tables == <<aliases, bases, observations, edges, runs, projection, invalidations,
            supersessions, attempts>>
vars == <<tables, importer, failures>>

Idle == [step |-> "idle", command |-> NoCommand]

-----------------------------------------------------------------------------
(* Revision lineage *)

\* Ids reachable from a revision over the supersedes column.
IsAncestor(a, start) ==
  \A S \in SUBSET Revisions :
    (/\ start \in S
     /\ \A e \in edges : e.revision \in S /\ e.supersedes # None => e.supersedes \in S)
      => a \in S

SecurityOf(id) == (CHOOSE o \in observations : o.id = id).security

\* What is refused about a command before the transaction begins.
MalformedRevisions(c) ==
  \E o \in c.observations :
    \/ o.supersedes = o.revision
    \/ \E p \in c.observations : p.revision = o.revision /\ p.supersedes # o.supersedes

\* Mutant: the predecessor is not looked up.
RevisionWithoutPredecessor(c) ==
  \E o \in c.observations :
    \E e \in edges : e.revision = o.revision /\ e.supersedes # o.supersedes

\* A revision id keeps the intent it was first stored with, may not supersede
\* one of its own descendants, and supersedes a revision of the same security
\* that is stored or comes with the command.
RevisionRefused(c) ==
  \E o \in c.observations :
    \/ \E e \in edges : e.revision = o.revision /\ e.supersedes # o.supersedes
    \/ /\ o.supersedes # None
       /\ \/ IsAncestor(o.revision, o.supersedes)
          \/ \E e \in edges : e.revision = o.supersedes /\ SecurityOf(e.observation) # c.security
          \/ /\ \A e \in edges : e.revision # o.supersedes
             /\ \A p \in c.observations : p.revision # o.supersedes

-----------------------------------------------------------------------------
(* Authority and identity *)

\* Mutant: it is enough that the run superseded exists.
Superseded(c) == \E r \in runs : r.run = c.prior

\* assert_supersession_authority, and the same tests inside both transactions.
IsCurrent(c) ==
  /\ projection[c.security] = c.prior
  /\ \E r \in runs : r.run = c.prior /\ r.security = c.security

\* Mutant: an occupied key is overwritten.
OwnsAnyProjection(c) == c.prior # None => c.projects /\ IsCurrent(c)

OwnsProjection(c) ==
  /\ c.projects /\ projection[c.security] # None => c.prior # None
  /\ c.prior # None => c.projects /\ IsCurrent(c)

IdentitySeeded(b) ==
  /\ Alias(b) \in aliases
  /\ [security |-> b.security, basis |-> b.basis] \in bases

\* upsert_identity_bundle: rows are immutable, a share basis belongs to one
\* security, and seeding twice changes nothing.
upsert_identity_bundle(b) ==
  /\ \A row \in bases : row.basis = b.basis => row.security = b.security
  /\ aliases' = aliases \cup {Alias(b)}
  /\ bases' = bases \cup {[security |-> b.security, basis |-> b.basis]}
  /\ UNCHANGED <<observations, edges, runs, projection, invalidations, supersessions,
                 attempts, importer, failures>>

-----------------------------------------------------------------------------
(* The lifecycle transaction *)

ObservationConflict(c) ==
  \E o \in ObservationRows(c), p \in observations : o.id = p.id /\ o # p

\* Mutant: without the trigger of schema v8.
KeyedEdges(c) ==
  \A o \in c.observations, e \in edges : e.revision = o.revision => e.observation # o.id

\* The primary key (revision, observation) and the trigger of schema v8.
EdgesInsertable(c) ==
  \A o \in c.observations, e \in edges :
    e.revision = o.revision =>
      e.observation # o.id /\ SecurityOf(e.observation) = c.security

\* What the transaction will answer, in the order of its tests.
Verdict(c) ==
  IF c.projects /\ c.mode = "certified_backfill_research" THEN "error"
  ELSE IF MalformedRevisions(c) THEN "refused"
  ELSE IF \E r \in runs : r.run = c.run THEN IF c \in runs THEN "replayed" ELSE "refused"
  ELSE IF ~IdentitySeeded(c.bundle) THEN "error"
  ELSE IF RevisionRefused(c) THEN "refused"
  ELSE IF ~OwnsProjection(c) THEN "error"
  ELSE IF ObservationConflict(c) THEN "refused"
  ELSE IF ~EdgesInsertable(c) THEN "error"
  ELSE "published"

Retire(c, reason) ==
  invalidations' = Append(invalidations,
                          [security |-> c.security, reason |-> reason, prior |-> c.prior])

RetireSuperseded(c) ==
  IF c.prior = None THEN UNCHANGED invalidations ELSE Retire(c, "superseded_by_revision")

\* Everything one commit writes.
Publish(c) ==
  /\ RetireSuperseded(c)
  /\ observations' = observations \cup ObservationRows(c)
  /\ edges' = edges \cup EdgeRows(c)
  /\ runs' = runs \cup {c}
  /\ supersessions' = IF c.prior = None THEN supersessions
                      ELSE supersessions \cup {[run |-> c.run, prior |-> c.prior,
                                                security |-> c.security]}
  /\ attempts' = attempts \cup {[command |-> c, outcome |-> "published"]}
  /\ projection' = IF c.projects THEN [projection EXCEPT ![c.security] = c.run]
                   ELSE projection
  /\ UNCHANGED <<aliases, bases>>

\* The import ends, whatever its answer.
Answer(i) == importer' = [importer EXCEPT ![i] = Idle]

\* finalize_semantic_refusal: only a command that supersedes a run, and whose
\* authority was therefore established, goes on to invalidate.
finalize_semantic_refusal(i) ==
  IF importer[i].command.prior = None THEN Answer(i)
  ELSE importer' = [importer EXCEPT ![i].step = "refuse"]

TransactionFails(i) ==
  /\ failures < MAX_FAILURES /\ failures' = failures + 1
  /\ Answer(i)
  /\ UNCHANGED tables

-----------------------------------------------------------------------------
(* commit_analyst_method_import *)

\* The control envelope and, for a superseding command, its authority.
BeginImport(i, c) ==
  /\ importer[i].step = "idle"
  /\ c.bundle.security = c.security
  /\ c.prior # None => c.projects /\ IsCurrent(c)
  /\ importer' = [importer EXCEPT ![i] = [step |-> "admit", command |-> c]]
  /\ UNCHANGED <<tables, failures>>

\* Semantic admission, then the lifecycle transaction.
commit_analyst_method_lifecycle(i) ==
  LET c == importer[i].command
      refused == ~c.admissible \/ c.eps_basis # c.bundle.basis \/ Verdict(c) = "refused"
  IN  /\ importer[i].step = "admit"
      /\ \/ refused /\ finalize_semantic_refusal(i) /\ UNCHANGED <<tables, failures>>
         \/ ~refused /\ Verdict(c) = "published" /\ Publish(c) /\ Answer(i) /\ UNCHANGED failures
         \/ ~refused /\ Verdict(c) \in {"replayed", "error"} /\ Answer(i)
              /\ UNCHANGED <<tables, failures>>
         \/ ~refused /\ TransactionFails(i)

\* The refusal of a superseding command retires the current run, if it is
\* still the one the command named.
refuse_superseding_revision(i) ==
  LET c == importer[i].command
  IN  /\ importer[i].step = "refuse"
      /\ \/ /\ IsCurrent(c)
            /\ Retire(c, "refused_revision")
            /\ projection' = [projection EXCEPT ![c.security] = None]
            /\ attempts' = attempts \cup {[command |-> c, outcome |-> "refused"]}
            /\ Answer(i)
            /\ UNCHANGED <<aliases, bases, observations, edges, runs, supersessions, failures>>
         \/ ~IsCurrent(c) /\ Answer(i) /\ UNCHANGED <<tables, failures>>
         \/ TransactionFails(i)

\* The process dies between two transactions.
Crash(i) ==
  /\ importer[i].step # "idle"
  /\ failures < MAX_FAILURES /\ failures' = failures + 1
  /\ Answer(i)
  /\ UNCHANGED tables

-----------------------------------------------------------------------------
(* Reading the publication *)

verify_revision_ancestor_chain(start, s) ==
  \A a \in Revisions :
    IsAncestor(a, start) =>
      LET rows == {e \in edges : e.revision = a}
      IN  /\ rows # {}
          /\ \A e \in rows : SecurityOf(e.observation) = s
          /\ \A e, f \in rows : e.supersedes = f.supersedes
          /\ \A e \in rows : e.supersedes # None => ~IsAncestor(a, e.supersedes)

\* Whether a run can still be rebuilt from what is stored.
verify_current_candidate(c) ==
  LET ids == {o.id : o \in c.observations}
      touched == {e.revision : e \in {x \in edges : x.observation \in ids}}
  IN  /\ c \in runs
      /\ c.projects /\ c.mode = "operational"
      /\ [command |-> c, outcome |-> "published"] \in attempts
      /\ ObservationRows(c) \subseteq observations
      /\ {e \in edges : e.observation \in ids \/ e.revision \in touched} = EdgeRows(c)
      /\ \A o \in c.observations :
           o.supersedes # None => verify_revision_ancestor_chain(o.supersedes, c.security)
      /\ IdentitySeeded(c.bundle)
      /\ {x \in supersessions : x.run = c.run} =
           IF c.prior = None THEN {}
           ELSE {[run |-> c.run, prior |-> c.prior, security |-> c.security]}

AliasesOf(ticker) == {a \in aliases : Upper[a.ticker] = Upper[ticker]}

\* The runs load_analyst_method_publication shows for a ticker, at most one:
\* the ticker must have one alias among those of all securities, and that
\* alias and the only share basis of its security must be those of the run.
Shown(ticker) ==
  {c \in runs :
     /\ AliasesOf(ticker) = {Alias(c.bundle)}
     /\ c.bundle.security = c.security /\ c.run = projection[c.security]
     /\ {b \in bases : b.security = c.security} =
          {[security |-> c.security, basis |-> c.bundle.basis]}
     /\ verify_current_candidate(c)}

-----------------------------------------------------------------------------

Init ==
  /\ aliases = {} /\ bases = {} /\ observations = {} /\ edges = {} /\ runs = {}
  /\ projection = [s \in Securities |-> None]
  /\ invalidations = <<>> /\ supersessions = {} /\ attempts = {}
  /\ importer = [i \in Importers |-> Idle]
  /\ failures = 0

Next ==
  \/ \E b \in Bundles : upsert_identity_bundle(b)
  \/ \E i \in Importers :
       \/ \E c \in Commands : BeginImport(i, c)
       \/ commit_analyst_method_lifecycle(i)
       \/ refuse_superseding_revision(i)
       \/ Crash(i)

Spec == Init /\ [][Next]_vars

-----------------------------------------------------------------------------

IsRetired(s, run) ==
  \E n \in 1 .. Len(invalidations) :
    invalidations[n].security = s /\ invalidations[n].prior = run

\* Every variable has its type; run ids and observation ids are unique.
TypeOK ==
  /\ aliases \subseteq {Alias(b) : b \in Bundles}
  /\ bases \subseteq {[security |-> b.security, basis |-> b.basis] : b \in Bundles}
  /\ observations \subseteq UNION {ObservationRows(c) : c \in Commands}
  /\ edges \subseteq UNION {EdgeRows(c) : c \in Commands}
  /\ runs \subseteq Commands
  /\ projection \in [Securities -> RunIds \cup {None}]
  /\ invalidations \in Seq([security : Securities, prior : RunIds,
                            reason : {"superseded_by_revision", "refused_revision"}])
  /\ supersessions \subseteq [run : RunIds, prior : RunIds, security : Securities]
  /\ attempts \subseteq [command : Commands, outcome : {"published", "refused"}]
  /\ importer \in [Importers -> [step : {"idle", "admit", "refuse"},
                                 command : Commands \cup {NoCommand}]]
  /\ \A i \in Importers : importer[i].command = NoCommand <=> importer[i].step = "idle"
  /\ failures \in Nat
  /\ \A r, q \in runs : r.run = q.run => r = q
  /\ \A o, p \in observations : o.id = p.id => o = p

\* The projection never changes hands silently: of the runs committed for a
\* key, one is current and each of the others has an invalidation row.  A
\* retired run is never current again, whatever is retried.
ProjectionIsAccountedFor ==
  \A c \in runs :
    c.projects => (projection[c.security] = c.run <=> ~IsRetired(c.security, c.run))

\* Two contending importers retire a run once: no two successors, and no
\* refusal beside a successor.
RetiredOnce ==
  \A m, n \in 1 .. Len(invalidations) :
    (/\ invalidations[m].security = invalidations[n].security
     /\ invalidations[m].prior = invalidations[n].prior)
      => m = n

\* "Every predecessor exists, has one consistent intent, remains in
\* issuer/security partition": the stored edges, whoever committed them.
LineageIsWhole ==
  \A e \in edges :
    /\ \A f \in edges : e.revision = f.revision =>
         e.supersedes = f.supersedes /\ SecurityOf(e.observation) = SecurityOf(f.observation)
    /\ e.supersedes # None =>
         \E f \in edges :
           f.revision = e.supersedes /\ SecurityOf(f.observation) = SecurityOf(e.observation)

\* A run that is shown for a ticker stays shown until it is retired, any
\* security is given a further alias of that ticker, its own security gets a
\* further share basis, or its own security's evidence gains an edge on one of
\* its revisions (load_analyst_method_publication, db.rs:1581).  Only
\* retirement is recorded; the others change the answer of the lookup, and no
\* import of another security is among them.
ShownUntilSuperseded ==
  [][\A t \in Tickers : \A c \in Shown(t) :
       \/ c \in Shown(t)'
       \/ IsRetired(c.security, c.run)'
       \/ \E a \in aliases' \ aliases : Upper[a.ticker] = Upper[t]
       \/ \E b \in bases' \ bases : b.security = c.security
       \/ \E e \in edges' \ edges :
            /\ e.revision \in {o.revision : o \in c.observations}
            /\ SecurityOf(e.observation)' = c.security]_vars

\* "No stale projection after a trusted rejected revision": when a superseding
\* import, its authority established, ends without publishing, and no crash and
\* no failure of the database is the reason, the run it meant to replace is no
\* longer current.
TrustedRefusalInvalidates ==
  [][\A i \in Importers :
       LET c == importer[i].command
       IN  (/\ importer[i].step # "idle" /\ importer'[i].step = "idle"
            /\ c.prior # None /\ c \notin runs' /\ failures' = failures)
             => projection'[c.security] # c.prior]_vars
=============================================================================
