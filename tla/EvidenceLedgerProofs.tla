------------------------ MODULE EvidenceLedgerProofs ------------------------
(***************************************************************************)
(* Proofs about EvidenceLedger, for any commands, bundles and importers.   *)
(***************************************************************************)
EXTENDS EvidenceLedger, SequenceTheorems, TLAPS

Retirement == [security : Securities, prior : RunIds,
               reason : {"superseded_by_revision", "refused_revision"}]

\* Commands have the types the assumption gives them.
LEMMA CommandTyped ==
  ASSUME NEW c \in Commands
  PROVE  /\ c.security \in Securities /\ c.run \in RunIds /\ c.run # None
         /\ c.prior \in RunIds \cup {None} /\ c.bundle \in Bundles
BY LedgerAssumption DEF RunIds

\* An invalidation row has its type.
LEMMA RetireTyped ==
  ASSUME NEW c \in Commands, c.prior # None, TypeOK,
         NEW reason \in {"superseded_by_revision", "refused_revision"},
         Retire(c, reason)
  PROVE  invalidations' \in Seq(Retirement)
<1>1. [security |-> c.security, reason |-> reason, prior |-> c.prior] \in Retirement
  BY CommandTyped DEF Retirement
<1>2. invalidations \in Seq(Retirement)
  BY DEF TypeOK, Retirement
<1> QED
  BY <1>1, <1>2 DEF Retire

\* What the verdict "published" has established.
LEMMA PublishedMeans ==
  ASSUME NEW c \in Commands, Verdict(c) = "published"
  PROVE  /\ ~MalformedRevisions(c) /\ \A r \in runs : r.run # c.run
         /\ IdentitySeeded(c.bundle) /\ ~RevisionRefused(c) /\ OwnsProjection(c)
         /\ ~ObservationConflict(c) /\ EdgesInsertable(c)
BY DEF Verdict

-----------------------------------------------------------------------------

LEMMA InitTyped == Init => TypeOK
<1> SUFFICES ASSUME Init PROVE TypeOK
  OBVIOUS
<1>1. invalidations \in Seq([security : Securities, prior : RunIds,
                             reason : {"superseded_by_revision", "refused_revision"}])
  BY DEF Init
<1>2. importer \in [Importers -> [step : {"idle", "admit", "refuse"},
                                  command : Commands \cup {NoCommand}]]
  BY DEF Init, Idle
<1>3. failures \in Nat /\ projection \in [Securities -> RunIds \cup {None}]
  BY DEF Init
<1>4. \A i \in Importers : importer[i].command = NoCommand <=> importer[i].step = "idle"
  BY DEF Init, Idle
<1> QED
  BY <1>1, <1>2, <1>3, <1>4 DEF Init, TypeOK

\* The typed part of one importer's step.
ImportersTyped ==
  /\ importer \in [Importers -> [step : {"idle", "admit", "refuse"},
                                 command : Commands \cup {NoCommand}]]
  /\ \A i \in Importers : importer[i].command = NoCommand <=> importer[i].step = "idle"

LEMMA AnswerTyped ==
  ASSUME TypeOK, NEW i \in Importers, Answer(i)
  PROVE  ImportersTyped'
BY DEF TypeOK, Answer, Idle, ImportersTyped

LEMMA RefusalTyped ==
  ASSUME TypeOK, NEW i \in Importers, importer[i].step # "idle", finalize_semantic_refusal(i)
  PROVE  ImportersTyped'
<1>1. CASE importer[i].command.prior = None
  BY <1>1, AnswerTyped DEF finalize_semantic_refusal
<1>2. CASE importer[i].command.prior # None
  BY <1>2 DEF finalize_semantic_refusal, TypeOK, ImportersTyped
<1> QED
  BY <1>1, <1>2

LEMMA PublishTyped ==
  ASSUME TypeOK, NEW c \in Commands, Verdict(c) = "published", Publish(c)
  PROVE  /\ observations' \subseteq UNION {ObservationRows(d) : d \in Commands}
         /\ edges' \subseteq UNION {EdgeRows(d) : d \in Commands}
         /\ runs' \subseteq Commands
         /\ projection' \in [Securities -> RunIds \cup {None}]
         /\ invalidations' \in Seq(Retirement)
         /\ supersessions' \subseteq [run : RunIds, prior : RunIds, security : Securities]
         /\ attempts' \subseteq [command : Commands, outcome : {"published", "refused"}]
         /\ \A r, q \in runs' : r.run = q.run => r = q
         /\ \A o, p \in observations' : o.id = p.id => o = p
<1>1. observations' \subseteq UNION {ObservationRows(d) : d \in Commands}
  BY Zenon DEF TypeOK, Publish
<1>2. edges' \subseteq UNION {EdgeRows(d) : d \in Commands}
  BY Zenon DEF TypeOK, Publish
<1>3. projection' \in [Securities -> RunIds \cup {None}]
  BY CommandTyped DEF TypeOK, Publish
<1>4. invalidations' \in Seq(Retirement)
  <2>1. CASE c.prior = None
    BY <2>1 DEF Publish, RetireSuperseded, TypeOK, Retirement
  <2>2. CASE c.prior # None
    BY <2>2, RetireTyped DEF Publish, RetireSuperseded
  <2> QED
    BY <2>1, <2>2
<1>5. supersessions' \subseteq [run : RunIds, prior : RunIds, security : Securities]
  BY CommandTyped DEF TypeOK, Publish
<1>6. attempts' \subseteq [command : Commands, outcome : {"published", "refused"}]
  BY DEF TypeOK, Publish
<1>7. \A r, q \in runs' : r.run = q.run => r = q
  BY PublishedMeans DEF TypeOK, Publish
<1>8. \A o, p \in observations' : o.id = p.id => o = p
  <2>1. \A o, p \in ObservationRows(c) : o.id = p.id => o = p
    <3> SUFFICES ASSUME NEW o \in c.observations, NEW p \in c.observations,
                        Observation(o, c.security).id = Observation(p, c.security).id
                 PROVE  Observation(o, c.security) = Observation(p, c.security)
      BY DEF ObservationRows
    <3>1. o.id = p.id
      BY DEF Observation
    <3>2. o = p
      BY <3>1, LedgerAssumption
    <3> QED
      BY <3>2
  <2>2. \A o \in ObservationRows(c), p \in observations : o.id = p.id => o = p
    BY PublishedMeans DEF ObservationConflict
  <2>3. observations' = observations \cup ObservationRows(c)
    BY DEF Publish
  <2> QED
    BY <2>1, <2>2, <2>3 DEF TypeOK
<1> QED
  BY <1>1, <1>2, <1>3, <1>4, <1>5, <1>6, <1>7, <1>8 DEF TypeOK, Publish

LEMMA NextTyped == TypeOK /\ [Next]_vars => TypeOK'
<1> SUFFICES ASSUME TypeOK, [Next]_vars PROVE TypeOK'
  OBVIOUS
<1>1. ASSUME NEW b \in Bundles, upsert_identity_bundle(b)
      PROVE  TypeOK'
  BY <1>1 DEF upsert_identity_bundle, TypeOK
<1>2. ASSUME NEW i \in Importers, NEW c \in Commands, BeginImport(i, c)
      PROVE  TypeOK'
  <2>1. ImportersTyped'
    BY <1>2, LedgerAssumption DEF BeginImport, TypeOK, ImportersTyped
  <2> QED
    BY <1>2, <2>1 DEF BeginImport, tables, TypeOK, ImportersTyped
<1>3. ASSUME NEW i \in Importers, TransactionFails(i)
      PROVE  TypeOK'
  <2>1. ImportersTyped' /\ failures' \in Nat
    BY <1>3, AnswerTyped DEF TransactionFails, TypeOK
  <2> QED
    BY <1>3, <2>1 DEF TransactionFails, tables, TypeOK, ImportersTyped
<1>4. ASSUME NEW i \in Importers, commit_analyst_method_lifecycle(i)
      PROVE  TypeOK'
  <2> DEFINE c == importer[i].command
  <2>1. c \in Commands /\ importer[i].step = "admit"
    BY <1>4 DEF commit_analyst_method_lifecycle, TypeOK
  <2>2. CASE finalize_semantic_refusal(i) /\ UNCHANGED <<tables, failures>>
    <3>1. ImportersTyped'
      BY <2>1, <2>2, RefusalTyped
    <3> QED
      BY <2>2, <3>1 DEF tables, TypeOK, ImportersTyped
  <2>3. CASE Verdict(c) = "published" /\ Publish(c) /\ Answer(i) /\ UNCHANGED failures
    <3>1. ImportersTyped'
      BY <2>3, AnswerTyped
    <3> HIDE DEF c
    <3>2. UNCHANGED <<aliases, bases>>
      BY <2>3 DEF Publish
    <3> QED
      BY <2>1, <2>3, <3>1, <3>2, PublishTyped DEF TypeOK, ImportersTyped, Retirement
  <2>4. CASE Answer(i) /\ UNCHANGED <<tables, failures>>
    BY <2>4, AnswerTyped DEF tables, TypeOK, ImportersTyped
  <2> QED
    BY <1>3, <1>4, <2>2, <2>3, <2>4 DEF commit_analyst_method_lifecycle
<1>5. ASSUME NEW i \in Importers, refuse_superseding_revision(i)
      PROVE  TypeOK'
  <2> DEFINE c == importer[i].command
  <2>1. c \in Commands
    BY <1>5 DEF refuse_superseding_revision, TypeOK
  <2>2. CASE /\ IsCurrent(c) /\ Retire(c, "refused_revision")
             /\ projection' = [projection EXCEPT ![c.security] = None]
             /\ attempts' = attempts \cup {[command |-> c, outcome |-> "refused"]}
             /\ Answer(i)
             /\ UNCHANGED <<aliases, bases, observations, edges, runs, supersessions, failures>>
    <3> HIDE DEF c
    <3>1. c.prior # None
      <4>1. PICK r \in runs : r.run = c.prior
        BY <2>2 DEF IsCurrent
      <4> QED
        BY <4>1, CommandTyped DEF TypeOK
    <3>2. invalidations' \in Seq(Retirement)
      BY <2>1, <2>2, <3>1, RetireTyped
    <3>3. projection' \in [Securities -> RunIds \cup {None}]
      BY <2>2 DEF TypeOK
    <3>4. attempts' \subseteq [command : Commands, outcome : {"published", "refused"}]
      BY <2>1, <2>2 DEF TypeOK
    <3>5. ImportersTyped'
      BY <2>2, AnswerTyped
    <3> QED
      BY <2>2, <3>2, <3>3, <3>4, <3>5 DEF TypeOK, ImportersTyped, Retirement
  <2>3. CASE Answer(i) /\ UNCHANGED <<tables, failures>>
    BY <2>3, AnswerTyped DEF tables, TypeOK, ImportersTyped
  <2> QED
    BY <1>3, <1>5, <2>2, <2>3 DEF refuse_superseding_revision
<1>6. ASSUME NEW i \in Importers, Crash(i)
      PROVE  TypeOK'
  <2>1. ImportersTyped' /\ failures' \in Nat
    BY <1>6, AnswerTyped DEF Crash, TypeOK
  <2> QED
    BY <1>6, <2>1 DEF Crash, tables, TypeOK, ImportersTyped
<1>7. CASE UNCHANGED vars
  BY <1>7 DEF vars, tables, TypeOK
<1> QED
  BY <1>1, <1>2, <1>4, <1>5, <1>6, <1>7 DEF Next

\* Every table of the ledger has its type, and run ids and observation ids are
\* unique (the primary keys and the idempotence of the lifecycle transaction).
THEOREM TypeCorrect == Spec => []TypeOK
BY InitTyped, NextTyped, PTL DEF Spec

-----------------------------------------------------------------------------
(* The projection *)

\* What is current was committed for its security and with its key.
CurrentIsCommitted ==
  \A s \in Securities :
    projection[s] # None =>
      \E c \in runs : c.run = projection[s] /\ c.security = s /\ c.projects

\* Only runs committed with a key are retired.
RetiredIsCommitted ==
  \A n \in 1 .. Len(invalidations) :
    \E c \in runs : /\ c.run = invalidations[n].prior
                    /\ c.security = invalidations[n].security /\ c.projects

ProjectionInv ==
  TypeOK /\ CurrentIsCommitted /\ RetiredIsCommitted /\ ProjectionIsAccountedFor /\ RetiredOnce

\* What an appended row does to the set of retired runs.
LEMMA RetireEffect ==
  ASSUME TypeOK, NEW c \in Commands, c.prior # None,
         NEW reason \in {"superseded_by_revision", "refused_revision"}, Retire(c, reason)
  PROVE  /\ Len(invalidations') = Len(invalidations) + 1
         /\ \A n \in 1 .. Len(invalidations) : invalidations'[n] = invalidations[n]
         /\ invalidations'[Len(invalidations) + 1].prior = c.prior
         /\ invalidations'[Len(invalidations) + 1].security = c.security
         /\ \A s, r : IsRetired(s, r)' <=> IsRetired(s, r) \/ (s = c.security /\ r = c.prior)
<1> DEFINE row == [security |-> c.security, reason |-> reason, prior |-> c.prior]
<1>1. invalidations \in Seq(Retirement) /\ row \in Retirement
  BY CommandTyped DEF TypeOK, Retirement
<1>2. invalidations' = Append(invalidations, row)
  BY DEF Retire
<1>3. row.prior = c.prior /\ row.security = c.security
  OBVIOUS
<1> HIDE DEF row
<1>4. /\ Len(invalidations') = Len(invalidations) + 1 /\ Len(invalidations) \in Nat
      /\ \A n \in 1 .. Len(invalidations) : invalidations'[n] = invalidations[n]
      /\ invalidations'[Len(invalidations) + 1] = row
  BY <1>1, <1>2, AppendProperties, LenProperties
<1>5. \A s, r : IsRetired(s, r)' <=> IsRetired(s, r) \/ (s = c.security /\ r = c.prior)
  <2> SUFFICES ASSUME NEW s, NEW r
               PROVE  IsRetired(s, r)' <=> IsRetired(s, r) \/ (s = c.security /\ r = c.prior)
    OBVIOUS
  <2> DEFINE named(x) == x.security = s /\ x.prior = r
  <2>1. IsRetired(s, r)' <=> \E n \in 1 .. Len(invalidations) + 1 : named(invalidations'[n])
    BY <1>4 DEF IsRetired
  <2>2. IsRetired(s, r) <=> \E n \in 1 .. Len(invalidations) : named(invalidations[n])
    BY DEF IsRetired
  <2>3. named(row) <=> (s = c.security /\ r = c.prior)
    BY <1>3
  <2>4. \A n : n \in 1 .. Len(invalidations) + 1 <=>
              n \in 1 .. Len(invalidations) \/ n = Len(invalidations) + 1
    BY <1>4
  <2> HIDE DEF named
  <2> QED
    BY <1>4, <2>1, <2>2, <2>3, <2>4
<1> QED
  BY <1>3, <1>4, <1>5

\* A run that a command with authority names is current, committed with its
\* key and not retired before.
LEMMA CurrentPrior ==
  ASSUME ProjectionInv, NEW c \in Commands, IsCurrent(c)
  PROVE  /\ c.prior # None /\ projection[c.security] = c.prior
         /\ \E r \in runs : r.run = c.prior /\ r.security = c.security /\ r.projects
         /\ ~IsRetired(c.security, c.prior)
<1>1. PICK q \in runs : q.run = c.prior
  BY DEF IsCurrent
<1>2. c.prior # None /\ projection[c.security] = c.prior
  BY <1>1, CommandTyped DEF IsCurrent, ProjectionInv, TypeOK
<1>3. PICK r \in runs : r.run = c.prior /\ r.security = c.security /\ r.projects
  BY <1>2, CommandTyped DEF ProjectionInv, CurrentIsCommitted
<1>4. ~IsRetired(c.security, c.prior)
  BY <1>2, <1>3 DEF ProjectionInv, ProjectionIsAccountedFor
<1> QED
  BY <1>2, <1>3, <1>4

\* A row appended for a current run keeps RetiredOnce and RetiredIsCommitted.
LEMMA RetireKeeps ==
  ASSUME ProjectionInv, NEW c \in Commands, IsCurrent(c), runs \subseteq runs',
         NEW reason \in {"superseded_by_revision", "refused_revision"}, Retire(c, reason)
  PROVE  RetiredOnce' /\ RetiredIsCommitted'
<1> USE DEF ProjectionInv
<1>1. /\ Len(invalidations') = Len(invalidations) + 1 /\ Len(invalidations) \in Nat
      /\ \A n \in 1 .. Len(invalidations) : invalidations'[n] = invalidations[n]
      /\ invalidations'[Len(invalidations) + 1].prior = c.prior
      /\ invalidations'[Len(invalidations) + 1].security = c.security
  BY CurrentPrior, RetireEffect DEF TypeOK
<1>2. \A n \in 1 .. Len(invalidations) :
        ~(invalidations[n].security = c.security /\ invalidations[n].prior = c.prior)
  BY CurrentPrior DEF IsRetired
<1>3. RetiredOnce'
  <2> SUFFICES ASSUME NEW m \in 1 .. Len(invalidations) + 1, NEW n \in 1 .. Len(invalidations) + 1,
                      invalidations'[m].security = invalidations'[n].security,
                      invalidations'[m].prior = invalidations'[n].prior
               PROVE  m = n
    BY <1>1 DEF RetiredOnce
  <2>1. CASE m \in 1 .. Len(invalidations) /\ n \in 1 .. Len(invalidations)
    BY <1>1, <2>1 DEF RetiredOnce
  <2>2. CASE m = Len(invalidations) + 1 /\ n \in 1 .. Len(invalidations)
    BY <1>1, <1>2, <2>2
  <2>3. CASE n = Len(invalidations) + 1 /\ m \in 1 .. Len(invalidations)
    BY <1>1, <1>2, <2>3
  <2> QED
    BY <1>1, <2>1, <2>2, <2>3
<1>4. RetiredIsCommitted'
  <2> SUFFICES ASSUME NEW n \in 1 .. Len(invalidations) + 1
               PROVE  \E q \in runs : /\ q.run = invalidations'[n].prior
                                      /\ q.security = invalidations'[n].security /\ q.projects
    BY <1>1 DEF RetiredIsCommitted
  <2>1. CASE n \in 1 .. Len(invalidations)
    BY <1>1, <2>1 DEF RetiredIsCommitted
  <2>2. CASE n = Len(invalidations) + 1
    BY <1>1, <2>2, CurrentPrior
  <2> QED
    BY <1>1, <2>1, <2>2
<1> QED
  BY <1>3, <1>4

LEMMA PublishKeepsProjection ==
  ASSUME ProjectionInv, TypeOK', NEW c \in Commands, Verdict(c) = "published", Publish(c)
  PROVE  ProjectionInv'
<1> USE DEF ProjectionInv
<1>1. /\ runs' = runs \cup {c} /\ \A r \in runs : r.run # c.run
      /\ OwnsProjection(c)
      /\ projection' = IF c.projects THEN [projection EXCEPT ![c.security] = c.run]
                       ELSE projection
  BY PublishedMeans DEF Publish
<1>2. c.run # None /\ c.security \in Securities /\ projection \in [Securities -> RunIds \cup {None}]
  BY CommandTyped DEF TypeOK
<1>3. CurrentIsCommitted'
  BY <1>1, <1>2 DEF CurrentIsCommitted
<1>4. CASE c.prior = None
  <2>1. UNCHANGED invalidations
    BY <1>4 DEF Publish, RetireSuperseded
  <2>2. RetiredOnce' /\ RetiredIsCommitted'
    BY <1>1, <2>1 DEF RetiredOnce, RetiredIsCommitted
  <2>3. \A s, r : IsRetired(s, r)' <=> IsRetired(s, r)
    BY <2>1 DEF IsRetired
  <2>4. ~IsRetired(c.security, c.run)
    BY <1>1 DEF IsRetired, RetiredIsCommitted
  <2>5. c.projects => projection[c.security] = None
    BY <1>1, <1>4 DEF OwnsProjection
  <2>6. ProjectionIsAccountedFor'
    <3> SUFFICES ASSUME NEW d \in runs', d.projects
                 PROVE  projection'[d.security] = d.run <=> ~IsRetired(d.security, d.run)
      BY <2>3 DEF ProjectionIsAccountedFor
    <3>1. d \in Commands /\ d.security \in Securities /\ d.run # None
      BY CommandTyped DEF TypeOK
    <3>2. CASE d = c
      BY <1>1, <1>2, <2>4, <3>2
    <3>3. CASE d # c
      <4>1. d \in runs /\ d.run # c.run
        BY <1>1, <3>3
      <4>2. projection'[d.security] = d.run <=> projection[d.security] = d.run
        BY <1>1, <1>2, <2>5, <3>1, <4>1
      <4> QED
        BY <4>1, <4>2 DEF ProjectionIsAccountedFor
    <3> QED
      BY <3>2, <3>3
  <2> QED
    BY <1>3, <2>2, <2>6
<1>5. CASE c.prior # None
  <2>1. c.projects /\ IsCurrent(c)
    BY <1>1, <1>5 DEF OwnsProjection
  <2>2. Retire(c, "superseded_by_revision")
    BY <1>5 DEF Publish, RetireSuperseded
  <2>3. RetiredOnce' /\ RetiredIsCommitted'
    BY <1>1, <2>1, <2>2, RetireKeeps
  <2>4. \A s, r : IsRetired(s, r)' <=> IsRetired(s, r) \/ (s = c.security /\ r = c.prior)
    BY <1>5, <2>2, RetireEffect
  <2>5. ~IsRetired(c.security, c.run) /\ c.run # c.prior /\ projection[c.security] = c.prior
    BY <1>1, <2>1, CurrentPrior DEF IsRetired, RetiredIsCommitted
  <2>6. ProjectionIsAccountedFor'
    <3> SUFFICES ASSUME NEW d \in runs', d.projects
                 PROVE  projection'[d.security] = d.run <=> ~IsRetired(d.security, d.run)'
      BY DEF ProjectionIsAccountedFor
    <3>1. d \in Commands /\ d.security \in Securities /\ d.run # None
      BY CommandTyped DEF TypeOK
    <3>2. CASE d = c
      BY <1>1, <1>2, <2>1, <2>4, <2>5, <3>2
    <3>3. CASE d # c
      <4>1. d \in runs /\ d.run # c.run
        BY <1>1, <3>3
      <4>2. CASE d.security # c.security
        BY <1>1, <1>2, <2>1, <2>4, <3>1, <4>1, <4>2 DEF ProjectionIsAccountedFor
      <4>3. CASE d.security = c.security
        <5>1. projection'[d.security] = c.run
          BY <1>1, <1>2, <2>1, <4>3
        <5>2. IsRetired(d.security, d.run)'
          BY <2>4, <2>5, <4>1, <4>3 DEF ProjectionIsAccountedFor
        <5> QED
          BY <4>1, <5>1, <5>2
      <4> QED
        BY <4>2, <4>3
    <3> QED
      BY <3>2, <3>3
  <2> QED
    BY <1>3, <2>3, <2>6
<1> QED
  BY <1>4, <1>5

LEMMA RefuseKeepsProjection ==
  ASSUME ProjectionInv, TypeOK', NEW c \in Commands, IsCurrent(c),
         Retire(c, "refused_revision"), UNCHANGED runs,
         projection' = [projection EXCEPT ![c.security] = None]
  PROVE  ProjectionInv'
<1> USE DEF ProjectionInv
<1>1. RetiredOnce' /\ RetiredIsCommitted'
  BY RetireKeeps
<1>2. c.prior # None /\ projection[c.security] = c.prior
  BY CurrentPrior
<1>3. \A s, r : IsRetired(s, r)' <=> IsRetired(s, r) \/ (s = c.security /\ r = c.prior)
  BY <1>2, RetireEffect
<1>4. projection \in [Securities -> RunIds \cup {None}] /\ c.security \in Securities
  BY CommandTyped DEF TypeOK
<1>5. CurrentIsCommitted'
  BY <1>4 DEF CurrentIsCommitted
<1>6. ProjectionIsAccountedFor'
  <2> SUFFICES ASSUME NEW d \in runs, d.projects
               PROVE  projection'[d.security] = d.run <=> ~IsRetired(d.security, d.run)'
    BY DEF ProjectionIsAccountedFor
  <2>1. d \in Commands /\ d.security \in Securities /\ d.run # None
    BY CommandTyped DEF TypeOK
  <2>2. CASE d.security = c.security
    BY <1>2, <1>3, <1>4, <2>1, <2>2 DEF ProjectionIsAccountedFor
  <2>3. CASE d.security # c.security
    BY <1>3, <1>4, <2>1, <2>3 DEF ProjectionIsAccountedFor
  <2> QED
    BY <2>2, <2>3
<1> QED
  BY <1>1, <1>5, <1>6

\* A step that leaves projection, invalidations and runs alone.
LEMMA SameProjection ==
  ASSUME ProjectionInv, TypeOK', UNCHANGED <<projection, invalidations, runs>>
  PROVE  ProjectionInv'
BY DEF ProjectionInv, CurrentIsCommitted, RetiredIsCommitted, ProjectionIsAccountedFor,
       RetiredOnce, IsRetired

\* The projection never changes hands without an invalidation row, a retired
\* run never comes back, and a run is retired once, however importers contend.
THEOREM ProjectionInductive == Spec => []ProjectionInv
<1>1. Init => ProjectionInv
  <2> SUFFICES ASSUME Init PROVE ProjectionInv
    OBVIOUS
  <2>1. TypeOK
    BY InitTyped
  <2>2. Len(invalidations) = 0 /\ runs = {} /\ \A s \in Securities : projection[s] = None
    BY DEF Init
  <2> QED
    BY <2>1, <2>2 DEF ProjectionInv, CurrentIsCommitted, RetiredIsCommitted,
       ProjectionIsAccountedFor, RetiredOnce
<1>2. ProjectionInv /\ TypeOK' /\ [Next]_vars => ProjectionInv'
  <2> SUFFICES ASSUME ProjectionInv, TypeOK', [Next]_vars PROVE ProjectionInv'
    OBVIOUS
  <2>1. ASSUME NEW i \in Importers, commit_analyst_method_lifecycle(i)
        PROVE  ProjectionInv'
    <3> DEFINE c == importer[i].command
    <3>1. c \in Commands
      BY <2>1 DEF commit_analyst_method_lifecycle, ProjectionInv, TypeOK
    <3>2. CASE UNCHANGED tables
      BY <3>2, SameProjection DEF tables
    <3>3. CASE Verdict(c) = "published" /\ Publish(c)
      BY <3>1, <3>3, PublishKeepsProjection
    <3> QED
      BY <2>1, <3>2, <3>3 DEF commit_analyst_method_lifecycle, TransactionFails, tables
  <2>2. ASSUME NEW i \in Importers, refuse_superseding_revision(i)
        PROVE  ProjectionInv'
    <3> DEFINE c == importer[i].command
    <3>1. c \in Commands
      BY <2>2 DEF refuse_superseding_revision, ProjectionInv, TypeOK
    <3>2. CASE UNCHANGED tables
      BY <3>2, SameProjection DEF tables
    <3>3. CASE /\ IsCurrent(c) /\ Retire(c, "refused_revision") /\ UNCHANGED runs
               /\ projection' = [projection EXCEPT ![c.security] = None]
      BY <3>1, <3>3, RefuseKeepsProjection
    <3> QED
      BY <2>2, <3>2, <3>3 DEF refuse_superseding_revision, TransactionFails, tables
  <2>3. CASE UNCHANGED <<projection, invalidations, runs>>
    BY <2>3, SameProjection
  <2> QED
    BY <2>1, <2>2, <2>3 DEF Next, upsert_identity_bundle, BeginImport, Crash, vars, tables
<1> QED
  BY <1>1, <1>2, TypeCorrect, PTL DEF Spec

\* The runs committed for a key are the current one and those with a row.
THEOREM AccountedFor == Spec => []ProjectionIsAccountedFor
<1>1. ProjectionInv => ProjectionIsAccountedFor
  BY DEF ProjectionInv
<1> QED
  BY <1>1, ProjectionInductive, PTL

\* No run is superseded twice, nor both superseded and refused.
THEOREM OnlyOnce == Spec => []RetiredOnce
<1>1. ProjectionInv => RetiredOnce
  BY DEF ProjectionInv
<1> QED
  BY <1>1, ProjectionInductive, PTL

-----------------------------------------------------------------------------
(* The revision lineage *)

\* Every edge was stored with an observation.
EdgesAreObserved == \A e \in edges : \E o \in observations : o.id = e.observation

LineageInv == TypeOK /\ EdgesAreObserved /\ LineageIsWhole

\* What is stored keeps its security, and the rows of the command have its own.
LEMMA SecuritiesKept ==
  ASSUME TypeOK', observations \subseteq observations'
  PROVE  \A o \in observations : SecurityOf(o.id) = o.security /\ SecurityOf(o.id)' = o.security
<1> SUFFICES ASSUME TypeOK', NEW o \in observations
             PROVE  SecurityOf(o.id) = o.security /\ SecurityOf(o.id)' = o.security
  OBVIOUS
<1>1. \A p \in observations' : p.id = o.id => p = o
  BY DEF TypeOK
<1>2. (CHOOSE p \in observations : p.id = o.id) = o
  BY <1>1
<1>3. (CHOOSE p \in observations' : p.id = o.id) = o
  BY <1>1
<1> QED
  BY <1>2, <1>3 DEF SecurityOf

LEMMA NewEdge ==
  ASSUME NEW c \in Commands, NEW e \in EdgeRows(c)
  PROVE  \E o \in c.observations :
           e.revision = o.revision /\ e.supersedes = o.supersedes /\ e.observation = o.id
BY DEF EdgeRows

LEMMA NewRow ==
  ASSUME NEW c \in Commands, NEW o \in c.observations, TypeOK',
         ObservationRows(c) \subseteq observations'
  PROVE  SecurityOf(o.id)' = c.security
<1> DEFINE row == Observation(o, c.security)
<1>1. row \in observations' /\ row.id = o.id /\ row.security = c.security
  BY DEF ObservationRows, Observation
<1> HIDE DEF row
<1>2. \A p \in observations' : p.id = o.id => p = row
  BY <1>1 DEF TypeOK
<1>3. (CHOOSE p \in observations' : p.id = o.id) = row
  BY <1>1, <1>2
<1> QED
  BY <1>1, <1>3 DEF SecurityOf

\* What is known of the rows and edges after a commit.
LEMMA PublishedEdges ==
  ASSUME LineageInv, TypeOK', NEW c \in Commands, Verdict(c) = "published", Publish(c)
  PROVE  /\ edges' = edges \cup EdgeRows(c)
         /\ \A e \in edges : SecurityOf(e.observation)' = SecurityOf(e.observation)
         /\ \A e \in EdgeRows(c) : SecurityOf(e.observation)' = c.security
         /\ \A e \in EdgeRows(c), f \in edges : e.revision = f.revision =>
              e.supersedes = f.supersedes /\ SecurityOf(f.observation) = c.security
         /\ \A e \in EdgeRows(c), f \in EdgeRows(c) : e.revision = f.revision =>
              e.supersedes = f.supersedes
         /\ \A e \in EdgeRows(c) : e.supersedes # None =>
              \/ \E f \in edges :
                   f.revision = e.supersedes /\ SecurityOf(f.observation) = c.security
              \/ \E f \in EdgeRows(c) : f.revision = e.supersedes
<1>1. /\ edges' = edges \cup EdgeRows(c) /\ observations \subseteq observations'
      /\ ObservationRows(c) \subseteq observations'
  BY DEF Publish
<1>2. \A e \in edges : SecurityOf(e.observation)' = SecurityOf(e.observation)
  BY <1>1, SecuritiesKept DEF LineageInv, EdgesAreObserved
<1>3. \A e \in EdgeRows(c) : SecurityOf(e.observation)' = c.security
  BY <1>1, NewEdge, NewRow
<1>4. ~MalformedRevisions(c) /\ ~RevisionRefused(c) /\ EdgesInsertable(c)
  BY PublishedMeans
<1>5. ASSUME NEW e \in EdgeRows(c), NEW f \in edges, e.revision = f.revision
      PROVE  e.supersedes = f.supersedes /\ SecurityOf(f.observation) = c.security
  BY <1>4, <1>5, NewEdge DEF RevisionRefused, EdgesInsertable
<1>6. ASSUME NEW e \in EdgeRows(c), NEW f \in EdgeRows(c), e.revision = f.revision
      PROVE  e.supersedes = f.supersedes
  BY <1>4, <1>6, NewEdge DEF MalformedRevisions
<1>7. ASSUME NEW e \in EdgeRows(c), e.supersedes # None
      PROVE  \/ \E f \in edges : f.revision = e.supersedes /\ SecurityOf(f.observation) = c.security
             \/ \E f \in EdgeRows(c) : f.revision = e.supersedes
  <2>1. PICK o \in c.observations : o.supersedes = e.supersedes
    BY NewEdge
  <2>2. CASE \E f \in edges : f.revision = o.supersedes
    BY <1>4, <1>7, <2>1, <2>2 DEF RevisionRefused
  <2>3. CASE \A f \in edges : f.revision # o.supersedes
    <3>1. PICK p \in c.observations : p.revision = o.supersedes
      BY <1>4, <1>7, <2>1, <2>3 DEF RevisionRefused
    <3> DEFINE f == [revision |-> p.revision, supersedes |-> p.supersedes, observation |-> p.id]
    <3>2. f \in EdgeRows(c) /\ f.revision = e.supersedes
      BY <2>1, <3>1 DEF EdgeRows
    <3> QED
      BY <3>2
  <2> QED
    BY <2>2, <2>3
<1> QED
  BY <1>1, <1>2, <1>3, <1>5, <1>6, <1>7

LEMMA PublishKeepsLineage ==
  ASSUME LineageInv, TypeOK', NEW c \in Commands, Verdict(c) = "published", Publish(c)
  PROVE  LineageInv'
<1>1. EdgesAreObserved'
  <2> SUFFICES ASSUME NEW e \in edges' PROVE \E o \in observations' : o.id = e.observation
    BY DEF EdgesAreObserved
  <2>1. edges' = edges \cup EdgeRows(c) /\ observations' = observations \cup ObservationRows(c)
    BY DEF Publish
  <2>2. CASE e \in edges
    BY <2>1, <2>2 DEF LineageInv, EdgesAreObserved
  <2>3. CASE e \in EdgeRows(c)
    <3>1. PICK o \in c.observations : e.observation = o.id
      BY <2>3, NewEdge
    <3>2. Observation(o, c.security) \in ObservationRows(c) /\ Observation(o, c.security).id = o.id
      BY DEF ObservationRows, Observation
    <3> QED
      BY <2>1, <3>1, <3>2
  <2> QED
    BY <2>1, <2>2, <2>3
<1>2. LineageIsWhole'
  <2> SUFFICES ASSUME NEW e \in edges'
               PROVE  /\ \A f \in edges' : e.revision = f.revision =>
                           /\ e.supersedes = f.supersedes
                           /\ SecurityOf(e.observation)' = SecurityOf(f.observation)'
                      /\ e.supersedes # None =>
                           \E f \in edges' :
                             /\ f.revision = e.supersedes
                             /\ SecurityOf(f.observation)' = SecurityOf(e.observation)'
    BY DEF LineageIsWhole
  <2>1. ASSUME NEW f \in edges', e.revision = f.revision
        PROVE  /\ e.supersedes = f.supersedes
               /\ SecurityOf(e.observation)' = SecurityOf(f.observation)'
    <3>1. CASE e \in edges /\ f \in edges
      BY <2>1, <3>1, PublishedEdges DEF LineageInv, LineageIsWhole
    <3>2. CASE e \in EdgeRows(c) \/ f \in EdgeRows(c)
      BY <2>1, <3>2, PublishedEdges
    <3> QED
      BY <3>1, <3>2, PublishedEdges
  <2>2. ASSUME e.supersedes # None
        PROVE  \E f \in edges' : /\ f.revision = e.supersedes
                                 /\ SecurityOf(f.observation)' = SecurityOf(e.observation)'
    <3>1. CASE e \in edges
      BY <2>2, <3>1, PublishedEdges DEF LineageInv, LineageIsWhole
    <3>2. CASE e \in EdgeRows(c)
      BY <2>2, <3>2, PublishedEdges
    <3> QED
      BY <3>1, <3>2, PublishedEdges
  <2> QED
    BY <2>1, <2>2
<1> QED
  BY <1>1, <1>2 DEF LineageInv

LEMMA SameLineage ==
  ASSUME LineageInv, TypeOK', UNCHANGED <<edges, observations>>
  PROVE  LineageInv'
<1>1. edges' = edges /\ observations' = observations
  OBVIOUS
<1>2. \A id : SecurityOf(id)' = SecurityOf(id)
  BY <1>1 DEF SecurityOf
<1>3. EdgesAreObserved'
  BY <1>1 DEF LineageInv, EdgesAreObserved
<1>4. LineageIsWhole'
  BY <1>1, <1>2 DEF LineageInv, LineageIsWhole
<1> QED
  BY <1>3, <1>4 DEF LineageInv

LEMMA LineageInductive == Spec => []LineageInv
<1>1. Init => LineageInv
  <2> SUFFICES ASSUME Init PROVE LineageInv
    OBVIOUS
  <2>1. TypeOK /\ edges = {}
    BY InitTyped DEF Init
  <2> QED
    BY <2>1 DEF LineageInv, EdgesAreObserved, LineageIsWhole
<1>2. LineageInv /\ TypeOK' /\ [Next]_vars => LineageInv'
  <2> SUFFICES ASSUME LineageInv, TypeOK', [Next]_vars PROVE LineageInv'
    OBVIOUS
  <2>1. ASSUME NEW i \in Importers, commit_analyst_method_lifecycle(i)
        PROVE  LineageInv'
    <3> DEFINE c == importer[i].command
    <3>1. c \in Commands
      BY <2>1 DEF commit_analyst_method_lifecycle, LineageInv, TypeOK
    <3>2. CASE UNCHANGED tables
      BY <3>2, SameLineage DEF tables
    <3>3. CASE Verdict(c) = "published" /\ Publish(c)
      BY <3>1, <3>3, PublishKeepsLineage
    <3> QED
      BY <2>1, <3>2, <3>3 DEF commit_analyst_method_lifecycle, TransactionFails, tables
  <2>2. ASSUME NEW i \in Importers, refuse_superseding_revision(i)
        PROVE  UNCHANGED <<edges, observations>>
    BY <2>2 DEF refuse_superseding_revision, TransactionFails, tables
  <2>3. CASE UNCHANGED <<edges, observations>>
    BY <2>3, SameLineage
  <2> QED
    BY <2>1, <2>2, <2>3 DEF Next, upsert_identity_bundle, BeginImport, Crash, vars, tables
<1> QED
  BY <1>1, <1>2, TypeCorrect, PTL DEF Spec

\* Each revision keeps the predecessor it was first stored with, stays in one
\* security, and its predecessor is stored in the same, for any imports.
THEOREM WholeLineage == Spec => []LineageIsWhole
<1>1. LineageInv => LineageIsWhole
  BY DEF LineageInv
<1> QED
  BY <1>1, LineageInductive, PTL

-----------------------------------------------------------------------------
(* What is shown.  A shown run's ancestors are all stored, each with one   *)
(* predecessor and of the run's security, so that a commit adds no         *)
(* ancestor and no edge of another intent.                                 *)

AncestorsStored(start) ==
  \A x \in Revisions : IsAncestor(x, start) => \E f \in edges : f.revision = x

LEMMA AncestorStep ==
  ASSUME NEW start, NEW e \in edges, IsAncestor(e.revision, start), e.supersedes # None
  PROVE  IsAncestor(e.supersedes, start)
BY DEF IsAncestor

LEMMA AncestorTransitive ==
  ASSUME NEW start, NEW x, NEW y, IsAncestor(x, y), IsAncestor(y, start)
  PROVE  IsAncestor(x, start)
BY DEF IsAncestor

\* A commit adds no ancestor to a revision whose ancestors are all stored.
LEMMA AncestorsKept ==
  ASSUME LineageInv, TypeOK', NEW c \in Commands, Verdict(c) = "published", Publish(c),
         NEW start, AncestorsStored(start), NEW a, IsAncestor(a, start)'
  PROVE  IsAncestor(a, start)
<1> SUFFICES ASSUME NEW S \in SUBSET Revisions, start \in S,
                    \A e \in edges : e.revision \in S /\ e.supersedes # None => e.supersedes \in S
             PROVE  a \in S
  BY DEF IsAncestor
<1> DEFINE T == {x \in S : IsAncestor(x, start)}
<1>1. T \in SUBSET Revisions /\ start \in T
  BY DEF IsAncestor
<1>2. ASSUME NEW e \in edges', e.revision \in T, e.supersedes # None
      PROVE  e.supersedes \in T
  <2>1. PICK f \in edges : f.revision = e.revision /\ f.supersedes = e.supersedes
    <3>1. CASE e \in edges
      BY <3>1
    <3>2. CASE e \in EdgeRows(c)
      <4>1. PICK f \in edges : f.revision = e.revision
        BY <1>1, <1>2 DEF AncestorsStored
      <4>2. f.supersedes = e.supersedes
        BY <3>2, <4>1, PublishedEdges
      <4> QED
        BY <4>1, <4>2
    <3>3. edges' = edges \cup EdgeRows(c)
      BY DEF Publish
    <3> QED
      BY <3>1, <3>2, <3>3
  <2>2. IsAncestor(f.supersedes, start)
    BY <1>2, <2>1, AncestorStep
  <2> QED
    BY <1>2, <2>1, <2>2
<1> HIDE DEF T
<1>3. a \in T
  BY <1>1, <1>2 DEF IsAncestor
<1> QED
  BY <1>3 DEF T

LEMMA ChainKept ==
  ASSUME LineageInv, TypeOK', NEW c \in Commands, Verdict(c) = "published", Publish(c),
         NEW start, NEW s, verify_revision_ancestor_chain(start, s)
  PROVE  verify_revision_ancestor_chain(start, s)'
<1>1. edges' = edges \cup EdgeRows(c)
  BY DEF Publish
<1>2. \A a \in Revisions : IsAncestor(a, start) =>
        /\ \E f \in edges : f.revision = a
        /\ \A e \in edges : e.revision = a =>
             /\ SecurityOf(e.observation) = s
             /\ e.supersedes # None => ~IsAncestor(a, e.supersedes)
        /\ \A e, f \in edges : e.revision = a /\ f.revision = a => e.supersedes = f.supersedes
  BY DEF verify_revision_ancestor_chain
<1> SUFFICES ASSUME NEW a \in Revisions, IsAncestor(a, start)'
             PROVE  /\ \E e \in edges' : e.revision = a
                    /\ \A e \in edges' : e.revision = a =>
                         /\ SecurityOf(e.observation)' = s
                         /\ e.supersedes # None => ~IsAncestor(a, e.supersedes)'
                    /\ \A e, f \in edges' : e.revision = a /\ f.revision = a =>
                         e.supersedes = f.supersedes
  BY DEF verify_revision_ancestor_chain
<1>3. AncestorsStored(start)
  BY <1>2 DEF AncestorsStored
<1>4. IsAncestor(a, start)
  BY <1>3, AncestorsKept
<1>5. PICK g \in edges : g.revision = a
  BY <1>2, <1>4
<1>6. SecurityOf(g.observation) = s /\ (g.supersedes # None => ~IsAncestor(a, g.supersedes))
  BY <1>2, <1>4, <1>5
<1>7. ASSUME NEW e \in edges', e.revision = a
      PROVE  e.supersedes = g.supersedes /\ SecurityOf(e.observation)' = s
  <2>1. CASE e \in edges
    BY <1>2, <1>4, <1>5, <1>7, <2>1, PublishedEdges
  <2>2. CASE e \in EdgeRows(c)
    BY <1>5, <1>6, <1>7, <2>2, PublishedEdges
  <2> QED
    BY <1>1, <2>1, <2>2
<1>8. g.supersedes # None => ~IsAncestor(a, g.supersedes)'
  <2> SUFFICES ASSUME g.supersedes # None, IsAncestor(a, g.supersedes)' PROVE FALSE
    OBVIOUS
  <2>1. IsAncestor(g.supersedes, start)
    BY <1>4, <1>5, AncestorStep
  <2>2. AncestorsStored(g.supersedes)
    <3> SUFFICES ASSUME NEW x \in Revisions, IsAncestor(x, g.supersedes)
                 PROVE  \E f \in edges : f.revision = x
      BY DEF AncestorsStored
    <3>1. IsAncestor(x, start)
      BY <2>1, AncestorTransitive
    <3> QED
      BY <1>2, <3>1
  <2>3. IsAncestor(a, g.supersedes)
    BY <2>2, AncestorsKept
  <2> QED
    BY <1>6, <2>3
<1> QED
  BY <1>1, <1>5, <1>7, <1>8

\* The edges that a shown run claims: its own and no others.
OwnEdges(r) ==
  LET ids == {o.id : o \in r.observations}
      touched == {e.revision : e \in {x \in edges : x.observation \in ids}}
  IN  {e \in edges : e.observation \in ids \/ e.revision \in touched} = EdgeRows(r)

NoEdgeOf(r, s) ==
  \A e \in edges' \ edges :
    ~ (e.revision \in {o.revision : o \in r.observations} /\ SecurityOf(e.observation)' = s)

LEMMA OwnEdgesKept ==
  ASSUME LineageInv, TypeOK', NEW c \in Commands, Verdict(c) = "published", Publish(c),
         NEW r \in Commands, ObservationRows(r) \subseteq observations, OwnEdges(r),
         NoEdgeOf(r, r.security)
  PROVE  OwnEdges(r)'
<1> DEFINE ids == {o.id : o \in r.observations}
           revs == {o.revision : o \in r.observations}
<1>1. edges' = edges \cup EdgeRows(c)
  BY DEF Publish
<1>2. \A o \in r.observations :
        \E f \in EdgeRows(r) : f.revision = o.revision /\ f.observation = o.id
  <2> TAKE o \in r.observations
  <2>1. [revision |-> o.revision, supersedes |-> o.supersedes, observation |-> o.id] \in EdgeRows(r)
    BY DEF EdgeRows
  <2> QED
    BY <2>1
<1>3. EdgeRows(r) \subseteq edges
  BY DEF OwnEdges
<1>4. \A f \in EdgeRows(r) : f.revision \in revs /\ f.observation \in ids
  BY NewEdge
<1>5. \A o \in r.observations : SecurityOf(o.id) = r.security
  <2> TAKE o \in r.observations
  <2>1. /\ Observation(o, r.security) \in observations
        /\ Observation(o, r.security).id = o.id /\ Observation(o, r.security).security = r.security
    BY DEF ObservationRows, Observation
  <2>2. observations \subseteq observations'
    BY DEF Publish
  <2> QED
    BY <2>1, <2>2, SecuritiesKept
<1>6. ASSUME NEW e \in EdgeRows(c), e.observation \in ids
      PROVE  FALSE
  <2>1. PICK o \in r.observations : e.observation = o.id
    BY <1>6
  <2>2. PICK p \in c.observations : e.observation = p.id
    BY NewEdge
  <2>3. /\ Observation(o, r.security) \in observations
        /\ Observation(p, c.security) \in ObservationRows(c)
    BY DEF ObservationRows
  <2>4. Observation(o, r.security).id = o.id /\ Observation(p, c.security).id = p.id
    BY DEF Observation
  <2>5. Observation(p, c.security) = Observation(o, r.security)
    BY <2>1, <2>2, <2>3, <2>4, PublishedMeans DEF ObservationConflict
  <2>6. p.revision = o.revision
    BY <2>5 DEF Observation
  <2>7. PICK f \in edges : f.revision = o.revision /\ f.observation = o.id
    BY <1>2, <1>3
  <2>8. f.observation # p.id
    BY <2>6, <2>7, PublishedMeans DEF EdgesInsertable
  <2> QED
    BY <2>1, <2>2, <2>7, <2>8
<1>7. ASSUME NEW e \in EdgeRows(c), e \notin edges, e.revision \in revs
      PROVE  FALSE
  <2>1. PICK o \in r.observations : o.revision = e.revision
    BY <1>7
  <2>2. PICK f \in edges : f.revision = o.revision /\ f.observation = o.id
    BY <1>2, <1>3
  <2>3. SecurityOf(f.observation) = c.security
    BY <2>1, <2>2, PublishedEdges
  <2>4. SecurityOf(e.observation)' = r.security
    BY <1>5, <2>2, <2>3, PublishedEdges
  <2> QED
    BY <1>1, <1>7, <2>4 DEF NoEdgeOf
<1>8. \A e \in edges' : e.observation \in ids \/ e.revision \in revs => e \in edges
  BY <1>1, <1>6, <1>7
<1>9. \A e \in edges : e.observation \in ids => e.revision \in revs
  BY <1>4 DEF OwnEdges
<1>10. \A e \in edges : e.revision \in revs => e \in EdgeRows(r)
  <2> SUFFICES ASSUME NEW e \in edges, e.revision \in revs PROVE e \in EdgeRows(r)
    OBVIOUS
  <2>1. \E f \in edges : f.observation \in ids /\ f.revision = e.revision
    BY <1>2, <1>3, <1>4
  <2> QED
    BY <2>1 DEF OwnEdges
<1>11. edges \subseteq edges'
  BY <1>1
<1> HIDE DEF ids, revs
<1> DEFINE touched == {e.revision : e \in {x \in edges' : x.observation \in ids}}
<1>12. touched \subseteq revs
  BY <1>8, <1>9
<1>13. {e \in edges' : e.observation \in ids \/ e.revision \in touched} \subseteq EdgeRows(r)
  BY <1>8, <1>9, <1>10, <1>12
<1>14. EdgeRows(r) \subseteq {e \in edges' : e.observation \in ids \/ e.revision \in touched}
  BY <1>3, <1>4, <1>11
<1> QED
  BY <1>13, <1>14 DEF OwnEdges, ids

\* What it means that a run is shown, its edges apart.
LEMMA ShownMeans ==
  ASSUME TypeOK, NEW t, NEW r \in Shown(t)
  PROVE  /\ r \in runs /\ r \in Commands /\ r.security \in Securities /\ r.run = projection[r.security]
         /\ r.projects /\ r.mode = "operational"
         /\ [command |-> r, outcome |-> "published"] \in attempts
         /\ ObservationRows(r) \subseteq observations /\ OwnEdges(r)
         /\ \A o \in r.observations :
              o.supersedes # None => verify_revision_ancestor_chain(o.supersedes, r.security)
         /\ IdentitySeeded(r.bundle)
BY LedgerAssumption DEF Shown, verify_current_candidate, OwnEdges, TypeOK

\* A run that was shown stays a candidate if what is stored of it stays.
LEMMA CandidateKept ==
  ASSUME TypeOK, NEW t, NEW r \in Shown(t),
         runs \subseteq runs', attempts \subseteq attempts', observations \subseteq observations',
         aliases \subseteq aliases', bases \subseteq bases', OwnEdges(r)',
         \A x \in supersessions' \ supersessions : x.run # r.run,
         supersessions \subseteq supersessions',
         \A o \in r.observations :
           o.supersedes # None => verify_revision_ancestor_chain(o.supersedes, r.security)'
  PROVE  verify_current_candidate(r)'
<1>1. IdentitySeeded(r.bundle)'
  BY ShownMeans DEF IdentitySeeded
<1>2. {x \in supersessions' : x.run = r.run} = {x \in supersessions : x.run = r.run}
  OBVIOUS
<1>3. {x \in supersessions : x.run = r.run} =
        IF r.prior = None THEN {}
        ELSE {[run |-> r.run, prior |-> r.prior, security |-> r.security]}
  BY DEF Shown, verify_current_candidate
<1>4. {x \in supersessions' : x.run = r.run} =
        IF r.prior = None THEN {}
        ELSE {[run |-> r.run, prior |-> r.prior, security |-> r.security]}
  BY <1>2, <1>3
<1>5. /\ r \in runs' /\ r.projects /\ r.mode = "operational"
      /\ [command |-> r, outcome |-> "published"] \in attempts'
      /\ ObservationRows(r) \subseteq observations'
  BY ShownMeans
<1> QED
  BY <1>1, <1>4, <1>5 DEF verify_current_candidate, OwnEdges

\* A run that stays current and a candidate stays shown, if the aliases of
\* the ticker and the share bases of its security stay as they are.
LEMMA ShownKept ==
  ASSUME ProjectionInv, ProjectionInv', NEW t, NEW r \in Shown(t),
         ~IsRetired(r.security, r.run)', runs \subseteq runs', verify_current_candidate(r)',
         AliasesOf(t)' = AliasesOf(t),
         {b \in bases' : b.security = r.security} = {b \in bases : b.security = r.security}
  PROVE  r \in Shown(t)'
<1>1. /\ r \in runs /\ r.security \in Securities /\ r.run = projection[r.security]
      /\ r.projects
  BY ShownMeans DEF ProjectionInv
<1>2. projection'[r.security] = r.run
  BY <1>1 DEF ProjectionInv, ProjectionIsAccountedFor
<1>3. /\ AliasesOf(t) = {Alias(r.bundle)} /\ r.bundle.security = r.security
      /\ {b \in bases : b.security = r.security} =
           {[security |-> r.security, basis |-> r.bundle.basis]}
  BY DEF Shown
<1>4. /\ AliasesOf(t)' = {Alias(r.bundle)}
      /\ {b \in bases' : b.security = r.security} =
           {[security |-> r.security, basis |-> r.bundle.basis]}
  BY <1>3
<1> QED
  BY <1>1, <1>2, <1>3, <1>4 DEF Shown

LEMMA PublishKeepsShown ==
  ASSUME ProjectionInv, ProjectionInv', LineageInv, NEW c \in Commands,
         Verdict(c) = "published", Publish(c),
         NEW t, NEW r \in Shown(t), ~IsRetired(r.security, r.run)', NoEdgeOf(r, r.security)
  PROVE  r \in Shown(t)'
<1>1. /\ runs \subseteq runs' /\ attempts \subseteq attempts'
      /\ observations \subseteq observations'
      /\ aliases' = aliases /\ bases' = bases /\ supersessions \subseteq supersessions'
      /\ \A x \in supersessions' \ supersessions : x.run = c.run
  BY DEF Publish
<1>2. r \in runs /\ r \in Commands /\ r.security \in Securities /\ c.run # r.run
  BY ShownMeans, PublishedMeans DEF ProjectionInv
<1>3. OwnEdges(r)'
  BY <1>2, ShownMeans, OwnEdgesKept DEF ProjectionInv
<1>4. \A o \in r.observations :
        o.supersedes # None => verify_revision_ancestor_chain(o.supersedes, r.security)'
  BY ShownMeans, ChainKept DEF ProjectionInv
<1>5. verify_current_candidate(r)'
  BY <1>1, <1>2, <1>3, <1>4, CandidateKept DEF ProjectionInv
<1>6. AliasesOf(t)' = AliasesOf(t)
  BY <1>1 DEF AliasesOf
<1> QED
  BY <1>1, <1>5, <1>6, ShownKept

\* A step that leaves edges and observations alone leaves the lineage alone.
LEMMA SameChain ==
  ASSUME UNCHANGED <<edges, observations>>, NEW start, NEW s,
         verify_revision_ancestor_chain(start, s)
  PROVE  verify_revision_ancestor_chain(start, s)'
<1>1. edges' = edges /\ observations' = observations
  OBVIOUS
<1>2. \A id : SecurityOf(id)' = SecurityOf(id)
  BY <1>1 DEF SecurityOf
<1>3. \A a, x : IsAncestor(a, x)' <=> IsAncestor(a, x)
  BY <1>1 DEF IsAncestor
<1> QED
  BY <1>1, <1>2, <1>3 DEF verify_revision_ancestor_chain

\* Nothing is stored but an identity, or the row of a refusal.
LEMMA QuietKeepsShown ==
  ASSUME ProjectionInv, ProjectionInv',
         UNCHANGED <<observations, edges, runs, supersessions>>, attempts \subseteq attempts',
         aliases \subseteq aliases', bases \subseteq bases',
         NEW t, NEW r \in Shown(t), ~IsRetired(r.security, r.run)',
         \A a \in aliases' \ aliases : Upper[a.ticker] # Upper[t],
         \A b \in bases' \ bases : b.security # r.security
  PROVE  r \in Shown(t)'
<1>1. OwnEdges(r)'
  BY ShownMeans DEF OwnEdges, ProjectionInv
<1>2. \A o \in r.observations :
        o.supersedes # None => verify_revision_ancestor_chain(o.supersedes, r.security)'
  <2>1. TypeOK
    BY DEF ProjectionInv
  <2>2. \A o \in r.observations :
          o.supersedes # None => verify_revision_ancestor_chain(o.supersedes, r.security)
    BY <2>1, ShownMeans
  <2> QED
    BY <2>2, SameChain
<1>3. verify_current_candidate(r)'
  BY <1>1, <1>2, CandidateKept DEF ProjectionInv
<1>4. /\ AliasesOf(t)' = AliasesOf(t)
      /\ {b \in bases' : b.security = r.security} = {b \in bases : b.security = r.security}
  BY DEF AliasesOf
<1> QED
  BY <1>3, <1>4, ShownKept

\* A run that is shown for a ticker disappears only when it is retired, a
\* further alias of the ticker is seeded, its security is given a further share
\* basis, or its own security's evidence adds an edge to one of its revisions:
\* no import of another security can hide it, for any imports and any number
\* of importers, but the seeding of another security under its ticker can.
THEOREM ShownStays == Spec => ShownUntilSuperseded
<1> DEFINE Stays == \A t \in Tickers : \A c \in Shown(t) :
             \/ c \in Shown(t)'
             \/ IsRetired(c.security, c.run)'
             \/ \E a \in aliases' \ aliases : Upper[a.ticker] = Upper[t]
             \/ \E b \in bases' \ bases : b.security = c.security
             \/ \E e \in edges' \ edges :
                  /\ e.revision \in {o.revision : o \in c.observations}
                  /\ SecurityOf(e.observation)' = c.security
<1>1. ProjectionInv /\ LineageInv /\ ProjectionInv' /\ [Next]_vars => [Stays]_vars
  <2> SUFFICES ASSUME ProjectionInv, LineageInv, ProjectionInv', Next,
                      NEW t \in Tickers, NEW r \in Shown(t),
                      ~IsRetired(r.security, r.run)', NoEdgeOf(r, r.security),
                      \A a \in aliases' \ aliases : Upper[a.ticker] # Upper[t],
                      \A b \in bases' \ bases : b.security # r.security
               PROVE  r \in Shown(t)'
    BY DEF NoEdgeOf
  <2>1. CASE UNCHANGED tables
    BY <2>1, QuietKeepsShown DEF tables
  <2>2. ASSUME NEW b \in Bundles, upsert_identity_bundle(b)
        PROVE  r \in Shown(t)'
    <3>1. /\ UNCHANGED <<observations, edges, runs, supersessions, attempts>>
          /\ aliases \subseteq aliases' /\ bases \subseteq bases'
      BY <2>2 DEF upsert_identity_bundle
    <3> QED
      BY <3>1, QuietKeepsShown
  <2>3. ASSUME NEW i \in Importers, commit_analyst_method_lifecycle(i)
        PROVE  r \in Shown(t)'
    <3> DEFINE c == importer[i].command
    <3>1. c \in Commands
      BY <2>3 DEF commit_analyst_method_lifecycle, LineageInv, TypeOK
    <3>2. CASE Verdict(c) = "published" /\ Publish(c)
      BY <3>1, <3>2, PublishKeepsShown
    <3> QED
      BY <2>1, <2>3, <3>2 DEF commit_analyst_method_lifecycle, TransactionFails, tables
  <2>4. ASSUME NEW i \in Importers, refuse_superseding_revision(i)
        PROVE  r \in Shown(t)'
    <3>1. CASE /\ UNCHANGED <<observations, edges, runs, supersessions, aliases, bases>>
               /\ attempts \subseteq attempts'
      BY <3>1, QuietKeepsShown
    <3> QED
      BY <2>1, <2>4, <3>1 DEF refuse_superseding_revision, TransactionFails, tables
  <2> QED
    BY <2>1, <2>2, <2>3, <2>4 DEF Next, BeginImport, Crash, tables
<1>2. Spec => [][Stays]_vars
  BY <1>1, ProjectionInductive, LineageInductive, PTL DEF Spec
<1> QED
  BY <1>2, PTL DEF ShownUntilSuperseded
=============================================================================
