-------------------------- MODULE AppRefreshProofs --------------------------
(***************************************************************************)
(* What is proved about AppRefresh, for any models, profiles and starts    *)
(* and any number of clicks and failures: the types, that outside a switch *)
(* the back end scores with what the page shows, that no rows of an older  *)
(* universe are published, and that a poll and a switch publish rows of    *)
(* the model that is shown.                                                *)
(*                                                                         *)
(* Small replies come in the order of their calls, and this carries most   *)
(* of it: a switch and a toggle hear from the back end after the           *)
(* restoration and the adoption that were asked for before them.           *)
(***************************************************************************)
EXTENDS AppRefresh, SequenceTheorems, TLAPS

-----------------------------------------------------------------------------
(* Types.                                                                  *)

View == [model : Models, universe : Profiles, regime : BOOLEAN]
Tasks == {"restore", "select", "change", "boot", "toggle"}
Reply == [to : Tasks, ok : BOOLEAN]
Generations == Nat \X Nat

BackendT == backend \in [model : Models, universe : Profiles, regime : BOOLEAN, locked : BOOLEAN]
RepliesT == replies \in Seq(Reply)

ModelT ==
  /\ scoringModel \in Models /\ requestedModel \in Models
  /\ modelSwitching \in BOOLEAN /\ dataGeneration \in Nat
  /\ select \in [at : {"idle", "set", "rows", "rollback"}, target : Models \cup {None},
                 backendModel : Models \cup {None}, initial : Nat, asked : Nat,
                 rows : View \cup {None}]
  /\ select.at # "idle" => select.target \in Models

ChangeTypes == [at : {"idle", "set", "restore"}, generation : Nat, name : Profiles \cup {None}]
BootTypes == [at : {"none", "profile", "set", "feed", "done"}, generation : Nat,
              name : Profiles \cup {None}]

UniverseT ==
  /\ universeProfile \in Profiles /\ universeGeneration \in Nat
  /\ universeSwitching \in BOOLEAN /\ profileLocked \in BOOLEAN
  /\ savedUniverse \in Profiles \cup {None}
  /\ change \in ChangeTypes /\ (change.at # "idle" => change.name \in Profiles)
  /\ boot \in BootTypes /\ (boot.at # "none" => boot.name \in Profiles)

RegimeT ==
  /\ regimeScoring \in BOOLEAN /\ savedRegime \in BOOLEAN
  /\ toggle \in [at : {"idle", "set", "rows"}, next : BOOLEAN, generation : Generations,
                 rows : View \cup {None}]

RestoreT == restore \in [at : {"model", "on", "off", "ready"}, model : Models]

Polls == [generation : Generations, rows : View \cup {None}, status : Profiles \cup {None}]
PollsT == polls \subseteq Polls

ShownT ==
  /\ rows # None => rows \in [publisher : {"poll", "select", "toggle"}, of : View]
  /\ clicks \in Nat /\ failures \in Nat /\ untold \subseteq {"model", "regime"}

TypeOK == BackendT /\ RepliesT /\ ModelT /\ UniverseT /\ RegimeT /\ RestoreT /\ PollsT /\ ShownT

-----------------------------------------------------------------------------
(* The queue of replies, said without positions.                           *)

In(q, t) == \E i \in 1 .. Len(q) : q[i].to = t
GoodIn(q, t) == \E i \in 1 .. Len(q) : q[i].to = t /\ q[i].ok
BeforeIn(q, t, u) == \E i, j \in 1 .. Len(q) : i < j /\ q[i].to = t /\ q[j].to = u

Pending(t) == In(replies, t)
Good(t) == GoodIn(replies, t)
Before(t, u) == BeforeIn(replies, t, u)

\* The tasks that have one call under way at a time.  (That this is so of a change of the
\* universe as well, nothing here rests on.)
Watched == Tasks \ {"change"}

Expected(t) ==
  CASE t = "restore" -> restore.at # "ready"
    [] t = "select"  -> select.at \in {"set", "rollback"}
    [] t = "boot"    -> boot.at \in {"profile", "set", "feed"}
    [] t = "toggle"  -> toggle.at = "set"

OneEach(q) == \A t \in Watched : \A i, j \in 1 .. Len(q) :
  q[i].to = t /\ q[j].to = t => i = j

QueueInv == OneEach(replies) /\ \A t \in Watched : Pending(t) <=> Expected(t)

-----------------------------------------------------------------------------
(* The choices.                                                            *)

ModelInv ==
  /\ modelSwitching <=> select.at # "idle"
  /\ select.at = "set" /\ Good("select") => backend.model = select.target
  /\ select.at = "rows" => /\ backend.model = select.target
                           /\ select.rows # None => select.rows.model = select.target
  /\ select.at = "rollback" /\ Good("select") => backend.model = scoringModel
  /\ ~modelSwitching /\ restore.at # "model" /\ "model" \notin untold =>
       backend.model = scoringModel
  /\ restore.at = "model" =>
       /\ select.at \in {"idle", "set"}
       /\ ~Before("select", "restore")
       /\ ~modelSwitching /\ Good("restore") => backend.model = restore.model

\* The last of the calls under way that tell the back end of the regime decides.
RegimeInv ==
  LET restoring == restore.at \in {"on", "off"} /\ Good("restore")
  IN /\ Good("toggle") /\ ~(restoring /\ Before("toggle", "restore")) =>
          backend.regime = toggle.next
     /\ restoring /\ ~(Good("toggle") /\ Before("restore", "toggle")) =>
          backend.regime = (restore.at = "on")
     /\ restore.at = "ready" /\ "regime" \notin untold /\ ~Good("toggle") =>
          backend.regime = regimeScoring

-----------------------------------------------------------------------------
(* The universe and the rows on their way.                                 *)

BootActive == boot.at \in {"profile", "set", "feed"}

\* While the boot effect runs its generation is the current one.
GenerationInv ==
  /\ change.at # "idle" => change.generation <= universeGeneration
  /\ BootActive => /\ boot.generation = universeGeneration /\ universeSwitching
                   /\ change.at # "idle" => change.generation < universeGeneration

\* What a poll of the present generation brings is of the present model and universe.
PollFits(p, b, data, universe, model_switching, universe_switching) ==
  /\ p.generation[1] <= data /\ p.generation[2] <= universe
  /\ p.generation[1] = data =>
       ~model_switching /\ (p.rows # None => p.rows.model = b.model)
  /\ p.generation[2] = universe =>
       ~universe_switching /\ (p.rows # None => p.rows.universe = b.universe)

PollInv == \A p \in polls : PollFits(p, backend, dataGeneration, universeGeneration,
                                      modelSwitching, universeSwitching)

\* Rows asked for in the present generation are of the present universe: a switch or a
\* toggle begun while the boot effect was about to adopt a profile asks after it has.
RowsInv ==
  /\ select.initial <= universeGeneration
  /\ boot.at = "profile" /\ select.at = "set" /\ select.initial = universeGeneration =>
       Before("boot", "select")
  /\ select.at = "rows" /\ select.rows # None /\ select.initial = select.asked
       /\ select.asked = universeGeneration =>
       select.rows.universe = backend.universe /\ boot.at # "profile"
  /\ toggle.generation[2] <= universeGeneration
  /\ boot.at = "profile" /\ toggle.at = "set" /\ toggle.generation[2] = universeGeneration =>
       Before("boot", "toggle")
  /\ toggle.at = "rows" /\ toggle.rows # None /\ toggle.generation[2] = universeGeneration =>
       toggle.rows.universe = backend.universe /\ boot.at # "profile"

IInv == TypeOK /\ QueueInv /\ ModelInv /\ RegimeInv /\ GenerationInv /\ PollInv /\ RowsInv

-----------------------------------------------------------------------------
(* How the queue changes.                                                  *)

\* The reply to a call is put at the end.
IsAppended(q, t, ok, r) ==
  /\ r \in Seq(Reply)
  /\ \A u : In(r, u) <=> In(q, u) \/ u = t
  /\ \A u : GoodIn(r, u) <=> GoodIn(q, u) \/ (u = t /\ ok)
  /\ \A u, v : BeforeIn(r, u, v) <=> BeforeIn(q, u, v) \/ (In(q, u) /\ v = t)
  /\ OneEach(q) /\ (t \in Watched => ~In(q, t)) => OneEach(r)

\* The reply of the task at the head is taken.
IsTaken(q, t, r) ==
  /\ r \in Seq(Reply)
  /\ \A u : u # t => (In(r, u) <=> In(q, u)) /\ (GoodIn(r, u) <=> GoodIn(q, u))
  /\ \A u, v : u # t /\ v # t => (BeforeIn(r, u, v) <=> BeforeIn(q, u, v))
  /\ OneEach(q) => OneEach(r) /\ (t \in Watched => ~In(r, t) /\ ~GoodIn(r, t))

\* It is taken and the task's next call is issued.
IsReplaced(q, t, ok, r) ==
  /\ r \in Seq(Reply) /\ In(r, t)
  /\ \A u : u # t => (In(r, u) <=> In(q, u)) /\ (GoodIn(r, u) <=> GoodIn(q, u))
  /\ \A u, v : u # t /\ v # t => (BeforeIn(r, u, v) <=> BeforeIn(q, u, v))
  /\ OneEach(q) => OneEach(r)
  /\ OneEach(q) /\ t \in Watched =>
       /\ GoodIn(r, t) <=> ok
       /\ \A u : u # t => (BeforeIn(r, u, t) <=> In(q, u)) /\ ~BeforeIn(r, t, u)

\* What is known of the task at the head.
IsHead(q, t) ==
  /\ In(q, t) /\ (Head(q).ok => GoodIn(q, t))
  /\ \A u : u # t /\ In(q, u) => BeforeIn(q, t, u)
  /\ OneEach(q) /\ t \in Watched =>
       (GoodIn(q, t) => Head(q).ok) /\ \A u : ~BeforeIn(q, u, t)

LEMMA Appended ==
  ASSUME NEW q \in Seq(Reply), NEW t \in Tasks, NEW ok \in BOOLEAN,
         NEW r, r = Append(q, [to |-> t, ok |-> ok])
  PROVE  IsAppended(q, t, ok, r)
<1> DEFINE n == Len(q)
           x == [to |-> t, ok |-> ok]
<1>1. x \in Reply /\ r = Append(q, x) /\ q \in Seq(Reply) /\ n \in Nat
  BY DEF Reply
<1>2. /\ r \in Seq(Reply) /\ Len(r) = n + 1 /\ r[n + 1] = x
      /\ \A k \in 1 .. n : r[k] = q[k]
  BY <1>1
<1>3. x.to = t /\ x.ok = ok
  OBVIOUS
<1>4. \A k \in 1 .. n + 1 : k \in 1 .. n \/ k = n + 1
  BY <1>1
<1>5. n + 1 \in 1 .. n + 1 /\ \A k \in 1 .. n : k \in 1 .. n + 1 /\ k < n + 1
  BY <1>1
<1> HIDE DEF n, x
<1>6. \A u : In(r, u) <=> In(q, u) \/ u = t
  BY <1>2, <1>3, <1>4, <1>5 DEF In, n
<1>7. \A u : GoodIn(r, u) <=> GoodIn(q, u) \/ (u = t /\ ok)
  BY <1>2, <1>3, <1>4, <1>5 DEF GoodIn, n
<1>8. \A u, v : BeforeIn(r, u, v) <=> BeforeIn(q, u, v) \/ (In(q, u) /\ v = t)
  <2> SUFFICES ASSUME NEW u, NEW v
               PROVE  BeforeIn(r, u, v) <=> BeforeIn(q, u, v) \/ (In(q, u) /\ v = t)
    OBVIOUS
  <2>1. ASSUME BeforeIn(r, u, v) PROVE BeforeIn(q, u, v) \/ (In(q, u) /\ v = t)
    <3>1. PICK i, j \in 1 .. n + 1 : i < j /\ r[i].to = u /\ r[j].to = v
      BY <1>2, <2>1 DEF BeforeIn
    <3>2. i \in 1 .. n
      BY <1>1, <3>1
    <3>3. CASE j \in 1 .. n
      BY <1>2, <3>1, <3>2, <3>3 DEF BeforeIn, n
    <3>4. CASE j = n + 1
      BY <1>2, <1>3, <3>1, <3>2, <3>4 DEF In, n
    <3> QED BY <1>4, <3>3, <3>4
  <2>2. ASSUME BeforeIn(q, u, v) PROVE BeforeIn(r, u, v)
    BY <1>2, <1>5, <2>2 DEF BeforeIn, n
  <2>3. ASSUME In(q, u), v = t PROVE BeforeIn(r, u, v)
    BY <1>2, <1>3, <1>5, <2>3 DEF BeforeIn, In, n
  <2> QED BY <2>1, <2>2, <2>3
<1>9. ASSUME OneEach(q), t \in Watched => ~In(q, t) PROVE OneEach(r)
  <2> SUFFICES ASSUME NEW u \in Watched, NEW i \in 1 .. n + 1, NEW j \in 1 .. n + 1,
                      r[i].to = u, r[j].to = u
               PROVE  i = j
    BY <1>2 DEF OneEach
  <2>1. CASE i \in 1 .. n /\ j \in 1 .. n
    BY <1>2, <1>9, <2>1 DEF OneEach, n
  <2>2. CASE i = n + 1 /\ j = n + 1
    BY <2>2
  <2>3. ASSUME NEW k \in 1 .. n, r[k].to = u, u = t PROVE FALSE
    BY <1>2, <1>9, <2>3 DEF In, n
  <2> QED BY <1>2, <1>3, <1>4, <2>1, <2>2, <2>3
<1> QED BY <1>2, <1>6, <1>7, <1>8, <1>9 DEF IsAppended

\* The head is ahead of everything else, and a task with one call has its only one there.
LEMMA HeadFirst ==
  ASSUME NEW q \in Seq(Reply), NEW t \in Tasks, q # <<>>, Head(q).to = t
  PROVE  IsHead(q, t)
<1> DEFINE n == Len(q)
<1>1. n \in Nat /\ n >= 1 /\ Head(q) = q[1] /\ q[1].to = t
  OBVIOUS
<1>2. 1 \in 1 .. n /\ \A k \in 1 .. n : k # 1 => 1 < k
  BY <1>1
<1> HIDE DEF n
<1>3. In(q, t) /\ (Head(q).ok => GoodIn(q, t))
  BY <1>1, <1>2 DEF In, GoodIn, n
<1>4. \A u : u # t /\ In(q, u) => BeforeIn(q, t, u)
  BY <1>1, <1>2 DEF In, BeforeIn, n
<1>5. ASSUME OneEach(q), t \in Watched
      PROVE  (GoodIn(q, t) => Head(q).ok) /\ \A u : ~BeforeIn(q, u, t)
  <2>1. \A k \in 1 .. n : q[k].to = t => k = 1
    BY <1>1, <1>2, <1>5 DEF OneEach, n
  <2>2. GoodIn(q, t) => Head(q).ok
    BY <1>1, <2>1 DEF GoodIn, n
  <2>3. \A u : ~BeforeIn(q, u, t)
    <3> SUFFICES ASSUME NEW u, BeforeIn(q, u, t) PROVE FALSE
      OBVIOUS
    <3>1. PICK i, j \in 1 .. n : i < j /\ q[i].to = u /\ q[j].to = t
      BY DEF BeforeIn, n
    <3>2. j = 1
      BY <2>1, <3>1
    <3> QED BY <1>1, <3>1, <3>2
  <2> QED BY <2>2, <2>3
<1> QED BY <1>3, <1>4, <1>5 DEF IsHead

\* What is left when the head is taken.
LEMMA TailLeft ==
  ASSUME NEW q \in Seq(Reply), NEW t \in Tasks, q # <<>>, Head(q).to = t,
         NEW r, r = Tail(q)
  PROVE  IsTaken(q, t, r)
<1> DEFINE n == Len(q)
<1>1. n \in Nat /\ n >= 1 /\ Head(q) = q[1] /\ q[1].to = t
  OBVIOUS
<1>2. /\ r \in Seq(Reply) /\ Len(r) = n - 1
      /\ \A k \in 1 .. n - 1 : r[k] = q[k + 1]
  BY <1>1
<1>3. \A k \in 1 .. n - 1 : k + 1 \in 1 .. n /\ k + 1 # 1
  BY <1>1
<1>4. ASSUME NEW k \in 1 .. n, k # 1
      PROVE  k - 1 \in 1 .. n - 1 /\ r[k - 1] = q[k] /\ k - 1 + 1 = k
  <2>1. k - 1 \in 1 .. n - 1 /\ k - 1 + 1 = k
    BY <1>1, <1>4
  <2> QED BY <1>2, <2>1
<1> HIDE DEF n
<1>5. \A u : u # t => (In(r, u) <=> In(q, u))
  <2> SUFFICES ASSUME NEW u, u # t PROVE In(r, u) <=> In(q, u)
    OBVIOUS
  <2>1. In(r, u) => In(q, u)
    BY <1>2, <1>3 DEF In, n
  <2>2. ASSUME In(q, u) PROVE In(r, u)
    <3>1. PICK k \in 1 .. n : q[k].to = u
      BY <2>2 DEF In, n
    <3>2. k - 1 \in 1 .. n - 1 /\ r[k - 1] = q[k]
      BY <1>1, <1>4, <3>1
    <3> QED BY <1>2, <3>1, <3>2 DEF In
  <2> QED BY <2>1, <2>2
<1>6. \A u : u # t => (GoodIn(r, u) <=> GoodIn(q, u))
  <2> SUFFICES ASSUME NEW u, u # t PROVE GoodIn(r, u) <=> GoodIn(q, u)
    OBVIOUS
  <2>1. GoodIn(r, u) => GoodIn(q, u)
    BY <1>2, <1>3 DEF GoodIn, n
  <2>2. ASSUME GoodIn(q, u) PROVE GoodIn(r, u)
    <3>1. PICK k \in 1 .. n : q[k].to = u /\ q[k].ok
      BY <2>2 DEF GoodIn, n
    <3>2. k - 1 \in 1 .. n - 1 /\ r[k - 1] = q[k]
      BY <1>1, <1>4, <3>1
    <3> QED BY <1>2, <3>1, <3>2 DEF GoodIn
  <2> QED BY <2>1, <2>2
<1>7. \A u, v : u # t /\ v # t => (BeforeIn(r, u, v) <=> BeforeIn(q, u, v))
  <2> SUFFICES ASSUME NEW u, NEW v, u # t, v # t PROVE BeforeIn(r, u, v) <=> BeforeIn(q, u, v)
    OBVIOUS
  <2>1. ASSUME BeforeIn(r, u, v) PROVE BeforeIn(q, u, v)
    <3>1. PICK i, j \in 1 .. n - 1 : i < j /\ r[i].to = u /\ r[j].to = v
      BY <1>2, <2>1 DEF BeforeIn
    <3>2. i + 1 < j + 1 /\ i + 1 \in 1 .. n /\ j + 1 \in 1 .. n
      BY <1>1, <3>1
    <3> QED BY <1>2, <3>1, <3>2 DEF BeforeIn, n
  <2>2. ASSUME BeforeIn(q, u, v) PROVE BeforeIn(r, u, v)
    <3>1. PICK i, j \in 1 .. n : i < j /\ q[i].to = u /\ q[j].to = v
      BY <2>2 DEF BeforeIn, n
    <3>2. /\ i - 1 \in 1 .. n - 1 /\ r[i - 1] = q[i]
          /\ j - 1 \in 1 .. n - 1 /\ r[j - 1] = q[j]
      BY <1>1, <1>4, <3>1
    <3>3. i - 1 < j - 1
      BY <3>1
    <3> QED BY <1>2, <3>1, <3>2, <3>3 DEF BeforeIn
  <2> QED BY <2>1, <2>2
<1>8. ASSUME OneEach(q) PROVE OneEach(r) /\ (t \in Watched => ~In(r, t) /\ ~GoodIn(r, t))
  <2>1. ASSUME NEW u \in Watched, NEW i \in 1 .. n - 1, NEW j \in 1 .. n - 1,
               r[i].to = u, r[j].to = u
        PROVE  i = j
    <3>1. i + 1 = j + 1
      BY <1>2, <1>3, <1>8, <2>1 DEF OneEach, n
    <3> QED BY <3>1
  <2>2. OneEach(r)
    BY <1>2, <2>1 DEF OneEach
  <2>3. ASSUME t \in Watched, NEW k \in 1 .. n - 1, r[k].to = t PROVE FALSE
    <3>1. k + 1 \in 1 .. n /\ q[k + 1].to = t /\ k + 1 # 1 /\ 1 \in 1 .. n
      BY <1>1, <1>2, <1>3, <2>3
    <3> QED BY <1>1, <1>8, <2>3, <3>1 DEF OneEach, n
  <2> QED BY <1>2, <2>2, <2>3 DEF In, GoodIn
<1> QED BY <1>2, <1>5, <1>6, <1>7, <1>8 DEF IsTaken

\* Who is before another is there, and so is the other.
LEMMA BeforeMeansIn ==
  ASSUME NEW q, NEW t, NEW u, BeforeIn(q, t, u)
  PROVE  In(q, t) /\ In(q, u)
BY DEF BeforeIn, In

\* The call is taken from the queue and the next one of its task is put at the end.
LEMMA Replaced ==
  ASSUME NEW q \in Seq(Reply), NEW t \in Tasks, q # <<>>, Head(q).to = t, NEW ok \in BOOLEAN,
         NEW r, r = Append(Tail(q), [to |-> t, ok |-> ok])
  PROVE  IsReplaced(q, t, ok, r)
<1>1. PICK s : s = Tail(q)
  OBVIOUS
<1>0. s \in Seq(Reply)
  BY <1>1
<1>2. IsTaken(q, t, s)
  BY <1>1, TailLeft
<1>3. r = Append(s, [to |-> t, ok |-> ok])
  BY <1>1
<1>4. IsAppended(s, t, ok, r)
  BY <1>0, <1>3, Appended
<1>5. \A u, v : BeforeIn(s, u, v) => In(s, u) /\ In(s, v)
  BY BeforeMeansIn
<1>6. OneEach(q) => OneEach(r)
  BY <1>2, <1>4 DEF IsTaken, IsAppended
<1>7. ASSUME OneEach(q), t \in Watched
      PROVE  /\ GoodIn(r, t) <=> ok
             /\ \A u : u # t => (BeforeIn(r, u, t) <=> In(q, u)) /\ ~BeforeIn(r, t, u)
  BY <1>2, <1>4, <1>5, <1>7, Zenon DEF IsTaken, IsAppended
<1> QED BY <1>2, <1>4, <1>6, <1>7, Zenon DEF IsTaken, IsAppended, IsReplaced

\* A call uses up a failure only where one is left.
LEMMA OutcomeTyped ==
  ASSUME failures \in Nat, NEW ok \in BOOLEAN, Outcome(ok)
  PROVE  failures' \in Nat
BY DEF Outcome

\* What refresh does: nothing, or one poll of the present generation more.
LEMMA Refreshed ==
  ASSUME failures \in Nat, refresh
  PROVE  /\ failures' \in Nat
         /\ \/ polls' = polls
            \/ /\ canRefresh'
               /\ \E gotRows, gotStatus \in BOOLEAN :
                    polls' = polls \cup
                      {[generation |-> generation', rows |-> Asked(backend', gotRows),
                        status |-> IF gotStatus THEN backend'.universe ELSE None]}
<1>1. CASE canRefresh' /\ \A p \in polls : p.generation # generation'
  <2>1. PICK gotRows \in BOOLEAN, gotStatus \in BOOLEAN :
         /\ Outcome(gotRows /\ gotStatus)
         /\ polls' = polls \cup {[generation |-> generation', rows |-> Asked(backend', gotRows),
                                  status |-> IF gotStatus THEN backend'.universe ELSE None]}
    BY <1>1 DEF refresh
  <2>2. failures' \in Nat
    BY <2>1, OutcomeTyped
  <2> QED BY <1>1, <2>1, <2>2
<1>2. CASE ~(canRefresh' /\ \A p \in polls : p.generation # generation')
  BY <1>2 DEF refresh
<1> QED BY <1>1, <1>2

\* Rows are of what the back end runs when it is asked, or there are none.
LEMMA RowsOfView ==
  ASSUME NEW b \in [model : Models, universe : Profiles, regime : BOOLEAN, locked : BOOLEAN],
         NEW ok \in BOOLEAN
  PROVE  /\ Asked(b, ok) \in View \cup {None}
         /\ Asked(b, ok) # None => /\ Asked(b, ok).model = b.model
                                   /\ Asked(b, ok).universe = b.universe
<1>1. OpportunityRows(b) \in View /\ OpportunityRows(b).model = b.model
      /\ OpportunityRows(b).universe = b.universe
  BY DEF OpportunityRows, View
<1> QED BY <1>1 DEF Asked

\* A refresh leaves the types of the polls and the failures.
LEMMA RefreshTyped ==
  ASSUME failures \in Nat, PollsT, BackendT', dataGeneration' \in Nat, universeGeneration' \in Nat,
         refresh
  PROVE  failures' \in Nat /\ PollsT'
<1>1. failures' \in Nat
  BY Refreshed, Zenon
<1>2. CASE polls' = polls
  BY <1>1, <1>2 DEF PollsT
<1>3. ASSUME NEW gotRows \in BOOLEAN, NEW gotStatus \in BOOLEAN,
             polls' = polls \cup {[generation |-> generation', rows |-> Asked(backend', gotRows),
                                  status |-> IF gotStatus THEN backend'.universe ELSE None]}
      PROVE  PollsT'
  <2>1. PICK b : b = backend'
    OBVIOUS
  <2>2. b \in [model : Models, universe : Profiles, regime : BOOLEAN, locked : BOOLEAN]
    BY <2>1 DEF BackendT
  <2>3. Asked(b, gotRows) \in View \cup {None}
    BY <2>2, RowsOfView
  <2>4. generation' \in Generations
    BY DEF generation, Generations
  <2>5. (IF gotStatus THEN b.universe ELSE None) \in Profiles \cup {None}
    BY <2>2
  <2>6. PICK g : g = generation'
    OBVIOUS
  <2>7. [generation |-> g, rows |-> Asked(b, gotRows),
         status |-> IF gotStatus THEN b.universe ELSE None] \in Polls
    BY <2>3, <2>4, <2>5, <2>6 DEF Polls
  <2> QED BY <1>3, <2>1, <2>6, <2>7, Zenon DEF PollsT
<1> QED BY <1>1, <1>2, <1>3, Refreshed, Zenon

\* What issuing a call does to the queue.
LEMMA IssueStep ==
  ASSUME RepliesT, NEW t \in Tasks, NEW ok \in BOOLEAN, Issue(t, ok)
  PROVE  IsAppended(replies, t, ok, replies') /\ RepliesT'
<1>1. PICK r : r = replies'
  OBVIOUS
<1>2. IsAppended(replies, t, ok, r)
  BY <1>1, Appended DEF RepliesT, Issue
<1> QED BY <1>1, <1>2 DEF IsAppended, RepliesT

\* What taking a reply and issuing the next call does to it.
LEMMA NextStep ==
  ASSUME RepliesT, NEW t \in Tasks, NEW ok \in BOOLEAN, Arrives(t), IssueNext(t, ok)
  PROVE  IsReplaced(replies, t, ok, replies') /\ IsHead(replies, t) /\ RepliesT'
<1>1. PICK r : r = replies'
  OBVIOUS
<1>2. IsReplaced(replies, t, ok, r)
  BY <1>1, Replaced DEF RepliesT, IssueNext, Arrives
<1>3. IsHead(replies, t)
  BY HeadFirst DEF RepliesT, Arrives
<1> QED BY <1>1, <1>2, <1>3 DEF IsReplaced, RepliesT

\* What taking a reply does to it.
LEMMA TakeStep ==
  ASSUME RepliesT, NEW t \in Tasks, Arrives(t), NoFurtherCall
  PROVE  IsTaken(replies, t, replies') /\ IsHead(replies, t) /\ RepliesT'
<1>1. PICK r : r = replies'
  OBVIOUS
<1>2. IsTaken(replies, t, r)
  BY <1>1, TailLeft DEF RepliesT, NoFurtherCall, Arrives
<1>3. IsHead(replies, t)
  BY HeadFirst DEF RepliesT, Arrives
<1> QED BY <1>1, <1>2, <1>3 DEF IsTaken, RepliesT

\* What is left alone keeps its type.
LEMMA TypesKept ==
  ASSUME TypeOK
  PROVE  /\ UNCHANGED backend => BackendT'
         /\ UNCHANGED replies => RepliesT'
         /\ UNCHANGED modelVars => ModelT'
         /\ UNCHANGED universeVars => UniverseT'
         /\ UNCHANGED regimeVars => RegimeT'
         /\ UNCHANGED restore => RestoreT'
         /\ UNCHANGED polls => PollsT'
         /\ UNCHANGED <<rows, clicks, failures, untold>> => ShownT'
<1> USE DEF TypeOK
<1>1. UNCHANGED backend => BackendT'
  BY DEF BackendT
<1>2. UNCHANGED replies => RepliesT'
  BY DEF RepliesT
<1>3. UNCHANGED modelVars => ModelT'
  BY DEF ModelT, modelVars
<1>4. UNCHANGED universeVars => UniverseT'
  BY DEF UniverseT, universeVars
<1>5. UNCHANGED regimeVars => RegimeT'
  BY DEF RegimeT, regimeVars
<1>6. UNCHANGED restore => RestoreT'
  BY DEF RestoreT
<1>7. UNCHANGED polls => PollsT'
  BY DEF PollsT
<1>8. UNCHANGED <<rows, clicks, failures, untold>> => ShownT'
  BY DEF ShownT
<1> QED BY <1>1, <1>2, <1>3, <1>4, <1>5, <1>6, <1>7, <1>8, Zenon

\* The types hold when the page is loaded.
LEMMA InitTyped == Init => TypeOK
<1> SUFFICES ASSUME Init PROVE TypeOK
  OBVIOUS
<1>1. PICK s \in Starts, told \in BOOLEAN :
    /\ told \/ s.failures > 0
    /\ failures = IF told THEN s.failures ELSE s.failures - 1
    /\ clicks = s.clicks
    /\ replies = <<[to |-> "restore", ok |-> told]>>
    /\ backend = [model |-> IF told /\ s.saved # None THEN s.saved ELSE s.model,
                  universe |-> s.universe, regime |-> TRUE, locked |-> s.locked]
    /\ restore = [at |-> "model", model |-> IF s.saved # None THEN s.saved ELSE s.model]
    /\ scoringModel = IF s.saved # None THEN s.saved ELSE DefaultModel
    /\ requestedModel = scoringModel
    /\ modelSwitching = FALSE /\ dataGeneration = 0 /\ select = IdleSelect
    /\ savedUniverse = s.page
    /\ universeProfile = IF s.page # None THEN s.page ELSE DefaultProfile
    /\ universeGeneration = 0 /\ universeSwitching = FALSE /\ profileLocked = FALSE
    /\ change = IdleChange /\ boot = [IdleChange EXCEPT !.at = "none"]
    /\ savedRegime = s.regime /\ regimeScoring = s.regime /\ toggle = IdleToggle
    /\ polls = {} /\ rows = None /\ untold = {}
  BY DEF Init
<1>2. s \in [saved : Models \cup {None}, page : Profiles \cup {None},
             regime : BOOLEAN, model : Models, universe : Profiles, locked : BOOLEAN,
             clicks : Nat, failures : Nat]
  BY <1>1, AppAssumption
<1>3. DefaultModel \in Models /\ DefaultProfile \in Profiles
  BY AppAssumption
<1>4. BackendT
  BY <1>1, <1>2 DEF BackendT
<1>5. RepliesT
  BY <1>1 DEF RepliesT, Reply, Tasks
<1>6. ModelT
  BY <1>1, <1>2, <1>3 DEF ModelT, IdleSelect
<1>7. UniverseT
  BY <1>1, <1>2, <1>3 DEF UniverseT, IdleChange, ChangeTypes, BootTypes
<1>8. RegimeT
  BY <1>1, <1>2 DEF RegimeT, IdleToggle, Generations
<1>9. RestoreT
  BY <1>1, <1>2 DEF RestoreT
<1>10. PollsT
  BY <1>1 DEF PollsT
<1>11. ShownT
  BY <1>1, <1>2 DEF ShownT
<1> QED BY <1>4, <1>5, <1>6, <1>7, <1>8, <1>9, <1>10, <1>11 DEF TypeOK

\* A click on a model keeps the types.
LEMMA SelectTyped ==
  ASSUME TypeOK, \E m \in Models : selectScoringModel(m)
  PROVE  TypeOK'
<1>1. PICK m \in Models : selectScoringModel(m)
  OBVIOUS
<1>2. /\ clicks' \in Nat /\ requestedModel' = m /\ UNCHANGED <<rows, untold, scoringModel>>
      /\ UniverseT' /\ RegimeT' /\ RestoreT' /\ PollsT'
  BY <1>1, TypesKept DEF selectScoringModel, TypeOK, ShownT
<1>3. CASE modelSwitching \/ m = scoringModel
  <2>1. UNCHANGED <<backend, replies, modelSwitching, dataGeneration, select, failures>>
    BY <1>1, <1>3 DEF selectScoringModel
  <2>2. BackendT' /\ RepliesT'
    BY <2>1, TypesKept
  <2>3. ModelT'
    BY <1>2, <2>1 DEF TypeOK, ModelT
  <2>4. ShownT'
    BY <1>2, <2>1 DEF TypeOK, ShownT
  <2> QED BY <1>2, <2>2, <2>3, <2>4 DEF TypeOK
<1>4. CASE ~(modelSwitching \/ m = scoringModel)
  <2>1. PICK ok \in BOOLEAN :
          /\ Outcome(ok) /\ Issue("select", ok)
          /\ backend' = IF ok THEN [backend EXCEPT !.model = m] ELSE backend
    BY <1>1, <1>4 DEF selectScoringModel
  <2>2. /\ modelSwitching' = TRUE /\ dataGeneration' = dataGeneration + 1
        /\ select' = [IdleSelect EXCEPT !.at = "set", !.target = m,
                        !.backendModel = scoringModel, !.initial = universeGeneration]
    BY <1>1, <1>4 DEF selectScoringModel
  <2>3. BackendT'
    BY <2>1 DEF TypeOK, BackendT
  <2>4. RepliesT'
    BY <2>1, IssueStep DEF TypeOK, Tasks
  <2>5. ModelT'
    <3>1. select' = [at |-> "set", target |-> m, backendModel |-> scoringModel,
                     initial |-> universeGeneration, asked |-> 0, rows |-> None]
      BY <2>2 DEF IdleSelect
    <3>2. select'.at = "set" /\ select'.target = m
      BY <3>1
    <3>3. universeGeneration \in Nat /\ dataGeneration + 1 \in Nat /\ scoringModel \in Models
      BY DEF TypeOK, ModelT, UniverseT
    <3>4. select' \in [at : {"idle", "set", "rows", "rollback"}, target : Models \cup {None},
                 backendModel : Models \cup {None}, initial : Nat, asked : Nat,
                 rows : View \cup {None}]
      BY <3>1, <3>3
    <3> QED BY <1>2, <2>2, <3>2, <3>3, <3>4 DEF ModelT
  <2>6. failures' \in Nat
    BY <2>1, OutcomeTyped DEF TypeOK, ShownT
  <2>7. ShownT'
    BY <1>2, <2>6 DEF TypeOK, ShownT
  <2> QED BY <1>2, <2>3, <2>4, <2>5, <2>7 DEF TypeOK
<1> QED BY <1>3, <1>4

\* The two steps of the restoration keep the types.
LEMMA RestoreTyped ==
  ASSUME TypeOK, RestoreModel \/ RestoreRegime
  PROVE  TypeOK'
<1>1. CASE RestoreModel
  <2>1. PICK ok \in BOOLEAN :
          /\ Outcome(ok) /\ IssueNext("restore", ok)
          /\ backend' = IF ok THEN [backend EXCEPT !.regime = savedRegime] ELSE backend
    BY <1>1 DEF RestoreModel
  <2>2. BackendT'
    BY <2>1 DEF TypeOK, BackendT, RegimeT
  <2>3. RepliesT'
    BY <1>1, <2>1, NextStep DEF RestoreModel, TypeOK, Tasks
  <2>4. ModelT'
    BY <1>1 DEF RestoreModel, TypeOK, ModelT, RestoreT
  <2>5. UniverseT' /\ RegimeT' /\ PollsT'
    BY <1>1, TypesKept DEF RestoreModel
  <2>6. RestoreT'
    BY <1>1 DEF RestoreModel, TypeOK, RestoreT
  <2>7. failures' \in Nat
    BY <2>1, OutcomeTyped DEF TypeOK, ShownT
  <2>8. ShownT'
    BY <1>1, <2>7 DEF RestoreModel, TypeOK, ShownT
  <2> QED BY <2>2, <2>3, <2>4, <2>5, <2>6, <2>8 DEF TypeOK
<1>2. CASE RestoreRegime
  <2>1. BackendT' /\ ModelT' /\ UniverseT' /\ PollsT'
    BY <1>2, TypesKept DEF RestoreRegime
  <2>2. RepliesT'
    BY <1>2, TakeStep DEF RestoreRegime, TypeOK, Tasks
  <2>3. RegimeT'
    BY <1>2 DEF RestoreRegime, TypeOK, RegimeT
  <2>4. RestoreT'
    BY <1>2 DEF RestoreRegime, TypeOK, RestoreT
  <2>5. ShownT'
    BY <1>2 DEF RestoreRegime, TypeOK, ShownT
  <2> QED BY <2>1, <2>2, <2>3, <2>4, <2>5 DEF TypeOK
<1> QED BY <1>1, <1>2

\* The end of a switch leaves the types of what it writes.
LEMMA EndSwitchTyped ==
  ASSUME TypeOK, NEW missed, EndSwitch(missed), scoringModel' \in Models, requestedModel' \in Models
  PROVE  BackendT' /\ ModelT' /\ PollsT' /\ failures' \in Nat
<1>1. /\ modelSwitching' = FALSE /\ select' = IdleSelect
      /\ UNCHANGED <<backend, dataGeneration, universeGeneration, universeSwitching>>
  BY DEF EndSwitch
<1>2. BackendT'
  BY <1>1, TypesKept
<1>3. ModelT'
  BY <1>1 DEF TypeOK, ModelT, IdleSelect
<1>4. dataGeneration' \in Nat /\ universeGeneration' \in Nat /\ failures \in Nat /\ PollsT
  BY <1>1 DEF TypeOK, ModelT, UniverseT, ShownT
<1>5. CASE refresh
  BY <1>2, <1>4, <1>5, RefreshTyped, <1>3
<1>6. CASE UNCHANGED <<polls, failures>>
  BY <1>2, <1>3, <1>4, <1>6, TypesKept
<1> QED BY <1>5, <1>6 DEF EndSwitch

\* A turn of the switch's loop keeps the types.
LEMMA ModelIsSetTyped ==
  ASSUME TypeOK, ModelIsSet
  PROVE  TypeOK'
<1> DEFINE s == [select EXCEPT !.target = requestedModel, !.backendModel = select.target]
<1>1. UniverseT' /\ RegimeT' /\ RestoreT' /\ UNCHANGED <<clicks, untold, dataGeneration>>
  BY TypesKept DEF ModelIsSet
<1>2. RepliesT /\ Arrives("select") /\ "select" \in Tasks /\ failures \in Nat
  BY DEF ModelIsSet, TypeOK, Tasks, ShownT
<1>3. /\ select.target \in Models /\ requestedModel \in Models
      /\ \A a \in {"set", "rows"} : [s EXCEPT !.at = a] \in
           [at : {"idle", "set", "rows", "rollback"}, target : Models \cup {None},
                 backendModel : Models \cup {None}, initial : Nat, asked : Nat,
                 rows : View \cup {None}]
      /\ \A a \in {"set", "rows"} : [s EXCEPT !.at = a].target \in Models
  BY DEF ModelIsSet, TypeOK, ModelT
<1>4. CASE SetModel([s EXCEPT !.at = "set"], requestedModel)
  <2>1. PICK ok \in BOOLEAN :
          /\ Outcome(ok) /\ IssueNext("select", ok)
          /\ backend' = IF ok THEN [backend EXCEPT !.model = requestedModel] ELSE backend
          /\ select' = [s EXCEPT !.at = "set"]
          /\ UNCHANGED <<scoringModel, requestedModel, modelSwitching, polls, rows>>
    BY <1>4 DEF SetModel
  <2>2. BackendT'
    BY <1>3, <2>1 DEF TypeOK, BackendT
  <2>3. RepliesT'
    BY <1>2, <2>1, NextStep
  <2>4. ModelT'
    BY <1>1, <1>3, <2>1 DEF TypeOK, ModelT
  <2>5. PollsT'
    BY <2>1, TypesKept
  <2>6. failures' \in Nat
    BY <1>2, <2>1, OutcomeTyped
  <2>7. ShownT'
    BY <1>1, <2>1, <2>6 DEF TypeOK, ShownT
  <2> QED BY <1>1, <2>2, <2>3, <2>4, <2>5, <2>7 DEF TypeOK
<1>5. CASE NoFurtherCall /\ EndSwitch(FALSE) /\ UNCHANGED <<scoringModel, requestedModel, rows>>
  <2>1. BackendT' /\ ModelT' /\ PollsT' /\ failures' \in Nat
    <3>1. scoringModel' \in Models /\ requestedModel' \in Models
      BY <1>5 DEF TypeOK, ModelT
    <3> QED BY <1>5, <3>1, EndSwitchTyped
  <2>2. RepliesT'
    BY <1>2, <1>5, TakeStep
  <2>3. ShownT'
    BY <1>1, <1>5, <2>1 DEF TypeOK, ShownT
  <2> QED BY <1>1, <2>1, <2>2, <2>3 DEF TypeOK
<1>6. ASSUME NEW ok \in BOOLEAN, Outcome(ok), NoFurtherCall,
             select' = [s EXCEPT !.at = "rows", !.asked = universeGeneration,
                                 !.rows = Asked(backend, ok)],
             UNCHANGED <<backend, scoringModel, requestedModel, modelSwitching, polls, rows>>
      PROVE  TypeOK'
  <2>1. BackendT' /\ PollsT'
    BY <1>6, TypesKept
  <2>2. RepliesT'
    BY <1>2, <1>6, TakeStep
  <2>3. Asked(backend, ok) \in View \cup {None}
    BY RowsOfView DEF TypeOK, BackendT
  <2>4. universeGeneration \in Nat
    BY DEF TypeOK, UniverseT
  <2>5. ModelT'
    BY <1>1, <1>3, <1>6, <2>3, <2>4 DEF TypeOK, ModelT
  <2>6. failures' \in Nat
    BY <1>2, <1>6, OutcomeTyped
  <2>7. ShownT'
    BY <1>1, <1>6, <2>6 DEF TypeOK, ShownT
  <2> QED BY <1>1, <2>1, <2>2, <2>5, <2>7 DEF TypeOK
<1> QED BY <1>4, <1>5, <1>6 DEF ModelIsSet, Turn

\* The rows of a switch keep the types, wanted or not.
LEMMA ModelRowsTyped ==
  ASSUME TypeOK, ModelRowsArrive \/ ModelRowsUnwanted
  PROVE  TypeOK'
<1>1. UniverseT' /\ RegimeT' /\ RestoreT' /\ UNCHANGED <<clicks, untold>>
  BY TypesKept DEF ModelRowsArrive, ModelRowsUnwanted
<1>2. CASE ModelRowsArrive
  <2>1. /\ select.rows # None /\ requestedModel' \in Models
        /\ scoringModel' = select.target /\ select.target \in Models /\ select.rows \in View
        /\ rows' = IF canPublishModelRows THEN By("select", select.rows) ELSE rows
        /\ EndSwitch(~canPublishModelRows)
    BY <1>2 DEF ModelRowsArrive, TypeOK, ModelT
  <2>2. BackendT' /\ ModelT' /\ PollsT' /\ failures' \in Nat
    BY <2>1, EndSwitchTyped
  <2>3. RepliesT'
    BY <1>2, TypesKept DEF ModelRowsArrive
  <2>4. ShownT'
    BY <1>1, <2>1, <2>2 DEF TypeOK, ShownT, By
  <2> QED BY <1>1, <2>2, <2>3, <2>4 DEF TypeOK
<1>3. CASE ModelRowsUnwanted
  <2>1. PICK ok \in BOOLEAN :
          /\ Outcome(ok) /\ Issue("select", ok)
          /\ backend' = IF ok THEN [backend EXCEPT !.model = requestedModel] ELSE backend
    BY <1>3 DEF ModelRowsUnwanted
  <2>2. /\ select' = [select EXCEPT !.at = "set", !.target = requestedModel]
        /\ UNCHANGED <<scoringModel, requestedModel, modelSwitching, dataGeneration, polls, rows>>
    BY <1>3 DEF ModelRowsUnwanted
  <2>3. BackendT'
    BY <2>1 DEF TypeOK, BackendT, ModelT
  <2>4. RepliesT'
    BY <2>1, IssueStep DEF TypeOK, Tasks
  <2>5. ModelT'
    BY <2>2 DEF TypeOK, ModelT
  <2>6. PollsT'
    BY <2>2, TypesKept
  <2>7. failures' \in Nat
    BY <2>1, OutcomeTyped DEF TypeOK, ShownT
  <2>8. ShownT'
    BY <1>1, <2>2, <2>7 DEF TypeOK, ShownT
  <2> QED BY <1>1, <2>3, <2>4, <2>5, <2>6, <2>8 DEF TypeOK
<1> QED BY <1>2, <1>3

\* A failed switch keeps the types, and so does the end of its rollback.
LEMMA SwitchEndTyped ==
  ASSUME TypeOK, SwitchFails \/ RollbackEnds
  PROVE  TypeOK'
<1>1. UniverseT' /\ RegimeT' /\ RestoreT' /\ UNCHANGED <<clicks, rows, scoringModel>>
  BY TypesKept DEF SwitchFails, RollbackEnds, Rollback
<1>2. CASE SwitchFails
  <2>1. PICK ok \in BOOLEAN :
          /\ Outcome(ok) /\ Rollback(ok)
          /\ \/ select.at = "set" /\ Arrives("select") /\ ~Succeeds /\ IssueNext("select", ok)
             \/ select.at = "rows" /\ select.rows = None /\ Issue("select", ok)
    BY <1>2 DEF SwitchFails
  <2>2. /\ requestedModel' = scoringModel
        /\ backend' = IF ok THEN [backend EXCEPT !.model = scoringModel] ELSE backend
        /\ select' = [select EXCEPT !.at = "rollback"]
        /\ UNCHANGED <<scoringModel, modelSwitching, dataGeneration, polls, rows, untold>>
    BY <2>1 DEF Rollback
  <2>3. BackendT'
    BY <2>2 DEF TypeOK, BackendT, ModelT
  <2>4. RepliesT'
    BY <2>1, IssueStep, NextStep DEF TypeOK, Tasks
  <2>5. ModelT'
    <3>1. select.at # "idle"
      BY <2>1
    <3> QED BY <2>2, <3>1 DEF TypeOK, ModelT
  <2>6. PollsT'
    BY <2>2, TypesKept
  <2>7. failures' \in Nat
    BY <2>1, OutcomeTyped DEF TypeOK, ShownT
  <2>8. ShownT'
    BY <1>1, <2>2, <2>7 DEF TypeOK, ShownT
  <2> QED BY <1>1, <2>3, <2>4, <2>5, <2>6, <2>8 DEF TypeOK
<1>3. CASE RollbackEnds
  <2>1. /\ untold' \subseteq {"model", "regime"} /\ EndSwitch(FALSE)
        /\ scoringModel' \in Models /\ requestedModel' \in Models
    BY <1>3 DEF RollbackEnds, TypeOK, ShownT, ModelT
  <2>2. BackendT' /\ ModelT' /\ PollsT' /\ failures' \in Nat
    BY <2>1, EndSwitchTyped
  <2>3. RepliesT'
    BY <1>3, TakeStep DEF RollbackEnds, TypeOK, Tasks
  <2>4. ShownT'
    BY <1>1, <2>1, <2>2 DEF TypeOK, ShownT
  <2> QED BY <1>1, <2>2, <2>3, <2>4 DEF TypeOK
<1> QED BY <1>2, <1>3

\* set_universe_profile changes the universe of the back end only.
LEMMA SetUniverseTyped ==
  ASSUME TypeOK, NEW name \in Profiles, NEW ok \in BOOLEAN, SetUniverse(name, ok)
  PROVE  /\ BackendT' /\ failures' \in Nat
         /\ backend'.model = backend.model /\ backend'.regime = backend.regime
         /\ backend'.locked = backend.locked
<1>1. CASE backend.locked /\ name # backend.universe
  <2>1. UNCHANGED <<backend, failures>>
    BY <1>1 DEF SetUniverse
  <2> QED BY <2>1, TypesKept DEF TypeOK, ShownT
<1>2. CASE ~(backend.locked /\ name # backend.universe)
  <2>1. Outcome(ok) /\ (backend' = [backend EXCEPT !.universe = name] \/ UNCHANGED backend)
    BY <1>2 DEF SetUniverse
  <2>2. failures' \in Nat
    BY <2>1, OutcomeTyped DEF TypeOK, ShownT
  <2> QED BY <2>1, <2>2 DEF TypeOK, BackendT
<1> QED BY <1>1, <1>2

\* The end of an adoption leaves the types of what it writes.
LEMMA EndUniverseTyped ==
  ASSUME TypeOK, EndUniverse
  PROVE  /\ BackendT' /\ ModelT' /\ PollsT' /\ failures' \in Nat
         /\ universeGeneration' = universeGeneration /\ universeSwitching' \in BOOLEAN
<1>1. UNCHANGED <<backend, universeGeneration, modelVars>> /\ refresh /\ universeSwitching' = FALSE
  BY DEF EndUniverse
<1>2. BackendT' /\ ModelT' /\ dataGeneration' \in Nat /\ universeGeneration' \in Nat
  BY <1>1, TypesKept DEF TypeOK, ModelT, UniverseT, modelVars
<1>3. PollsT /\ failures \in Nat
  BY DEF TypeOK, ShownT
<1> QED BY <1>1, <1>2, <1>3, RefreshTyped

\* A click on a universe keeps the types.
LEMMA UniverseChangeTyped ==
  ASSUME TypeOK, \E p \in Profiles : handleUniverseChange(p)
  PROVE  TypeOK'
<1>1. PICK p \in Profiles : handleUniverseChange(p)
  OBVIOUS
<1>2. PICK ok \in BOOLEAN : SetUniverse(p, ok) /\ Issue("change", ok)
  BY <1>1 DEF handleUniverseChange
<1>3. ModelT' /\ RegimeT' /\ RestoreT' /\ PollsT' /\ UNCHANGED untold
  BY <1>1, TypesKept DEF handleUniverseChange
<1>4. BackendT' /\ failures' \in Nat
  BY <1>2, SetUniverseTyped
<1>5. RepliesT'
  BY <1>2, IssueStep DEF TypeOK, Tasks
<1>6. UniverseT'
  BY <1>1 DEF handleUniverseChange, BeginUniverse, TypeOK, UniverseT, ChangeTypes
<1>7. ShownT'
  BY <1>1, <1>3, <1>4 DEF handleUniverseChange, TypeOK, ShownT
<1> QED BY <1>3, <1>4, <1>5, <1>6, <1>7 DEF TypeOK

\* The answers to a change of the universe keep the types.
LEMMA UniverseSetTyped ==
  ASSUME TypeOK, UniverseIsSet \/ UniverseIsRestored
  PROVE  TypeOK'
<1>1. RegimeT' /\ RestoreT' /\ UNCHANGED <<boot, rows, clicks, untold>>
  BY TypesKept DEF UniverseIsSet, UniverseIsRestored
<1>2. /\ change.at # "idle" /\ Arrives("change") /\ change.name \in Profiles
      /\ RepliesT /\ "change" \in Tasks /\ failures \in Nat /\ backend.locked \in BOOLEAN
  BY DEF UniverseIsSet, UniverseIsRestored, TypeOK, UniverseT, Tasks, ShownT, BackendT
<1>3. ASSUME EndUniverse, NoFurtherCall, change' = IdleChange,
             \/ Adopted(change.name)
             \/ UNCHANGED <<universeProfile, savedUniverse, profileLocked>>
      PROVE  TypeOK'
  <2>1. /\ BackendT' /\ ModelT' /\ PollsT' /\ failures' \in Nat
        /\ universeGeneration' = universeGeneration /\ universeSwitching' \in BOOLEAN
    BY <1>3, EndUniverseTyped
  <2>2. RepliesT'
    BY <1>2, <1>3, TakeStep
  <2>3. UniverseT'
    BY <1>1, <1>2, <1>3, <2>1 DEF Adopted, IdleChange, TypeOK, UniverseT, ChangeTypes
  <2>4. ShownT'
    BY <1>1, <2>1 DEF TypeOK, ShownT
  <2> QED BY <1>1, <2>1, <2>2, <2>3, <2>4 DEF TypeOK
<1>4. ASSUME NoFurtherCall, change' = IdleChange,
             \/ Adopted(change.name)
             \/ UNCHANGED <<universeProfile, savedUniverse, profileLocked>>,
             UNCHANGED <<backend, modelVars, universeGeneration, universeSwitching, polls,
                         failures>>
      PROVE  TypeOK'
  <2>1. BackendT' /\ ModelT' /\ PollsT' /\ failures' \in Nat
    BY <1>2, <1>4, TypesKept
  <2>2. RepliesT'
    BY <1>2, <1>4, TakeStep
  <2>3. UniverseT'
    BY <1>1, <1>2, <1>4 DEF Adopted, IdleChange, TypeOK, UniverseT, ChangeTypes
  <2>4. ShownT'
    BY <1>1, <2>1 DEF TypeOK, ShownT
  <2> QED BY <1>1, <2>1, <2>2, <2>3, <2>4 DEF TypeOK
<1>5. ASSUME NEW ok \in BOOLEAN, Outcome(ok), IssueNext("change", ok),
             change' = [change EXCEPT !.at = "restore", !.name = backend.universe],
             UNCHANGED <<backend, modelVars, universeProfile, universeGeneration,
                         universeSwitching, profileLocked, savedUniverse, polls>>
      PROVE  TypeOK'
  <2>1. BackendT' /\ ModelT' /\ PollsT'
    BY <1>5, TypesKept
  <2>2. RepliesT'
    BY <1>2, <1>5, NextStep
  <2>3. UniverseT'
    BY <1>1, <1>5 DEF TypeOK, UniverseT, ChangeTypes, BackendT
  <2>4. failures' \in Nat
    BY <1>2, <1>5, OutcomeTyped
  <2>5. ShownT'
    BY <1>1, <2>4 DEF TypeOK, ShownT
  <2> QED BY <1>1, <2>1, <2>2, <2>3, <2>5 DEF TypeOK
<1>6. CASE UniverseIsSet
  BY <1>3, <1>4, <1>5, <1>6 DEF UniverseIsSet
<1>7. CASE UniverseIsRestored
  BY <1>3, <1>4, <1>7 DEF UniverseIsRestored
<1> QED BY <1>6, <1>7

\* The start of the boot effect keeps the types.
LEMMA BootBeginsTyped ==
  ASSUME TypeOK, BootBegins
  PROVE  TypeOK'
<1>1. PICK ok \in BOOLEAN : Outcome(ok) /\ Issue("boot", ok)
  BY DEF BootBegins
<1>2. BackendT' /\ ModelT' /\ RegimeT' /\ RestoreT' /\ PollsT'
  BY TypesKept DEF BootBegins
<1>3. RepliesT'
  BY <1>1, IssueStep DEF TypeOK, Tasks
<1>4. planUniverseBoot(savedUniverse) \in Profiles
  BY AppAssumption DEF planUniverseBoot, TypeOK, UniverseT
<1>5. UniverseT'
  BY <1>4 DEF BootBegins, BeginUniverse, TypeOK, UniverseT, BootTypes
<1>6. failures' \in Nat
  BY <1>1, OutcomeTyped DEF TypeOK, ShownT
<1>7. ShownT'
  BY <1>6 DEF BootBegins, TypeOK, ShownT
<1> QED BY <1>2, <1>3, <1>5, <1>7 DEF TypeOK

\* What starting the feed leaves of the types.
LEMMA StartFeedTyped ==
  ASSUME TypeOK, Arrives("boot"), StartFeed, boot.at # "none"
  PROVE  /\ BackendT' /\ RepliesT' /\ failures' \in Nat /\ boot' \in BootTypes
         /\ boot'.name \in Profiles
<1>1. PICK ok \in BOOLEAN : Outcome(ok) /\ IssueNext("boot", ok)
  BY DEF StartFeed
<1>2. RepliesT'
  BY <1>1, NextStep DEF TypeOK, Tasks
<1>3. failures' \in Nat
  BY <1>1, OutcomeTyped DEF TypeOK, ShownT
<1>4. BackendT'
  BY TypesKept DEF StartFeed
<1>5. boot' = [boot EXCEPT !.at = "feed"] /\ boot \in BootTypes /\ boot.name \in Profiles
  BY DEF StartFeed, TypeOK, UniverseT
<1>6. boot' \in BootTypes /\ boot'.name \in Profiles
  BY <1>5 DEF BootTypes
<1> QED BY <1>2, <1>3, <1>4, <1>6

\* What the boot effect does with the profile keeps the types.
LEMMA BootProfileTyped ==
  ASSUME TypeOK, BootProfile
  PROVE  TypeOK'
<1>1. /\ ModelT' /\ RegimeT' /\ RestoreT' /\ PollsT'
      /\ UNCHANGED <<universeGeneration, universeSwitching, savedUniverse, change, rows, clicks,
                     untold>>
      /\ boot.at = "profile" /\ Arrives("boot")
  BY TypesKept DEF BootProfile
<1>2. ASSUME BackendT', RepliesT', failures' \in Nat, boot' \in BootTypes, boot'.name \in Profiles,
             profileLocked' \in BOOLEAN, universeProfile' \in Profiles
      PROVE  TypeOK'
  <2>1. UniverseT'
    BY <1>1, <1>2 DEF TypeOK, UniverseT
  <2>2. ShownT'
    BY <1>1, <1>2 DEF TypeOK, ShownT
  <2> QED BY <1>1, <1>2, <2>1, <2>2 DEF TypeOK
<1>3. CASE StartFeed /\ ((profileLocked' = TRUE /\ universeProfile' = backend.universe)
                         \/ UNCHANGED <<profileLocked, universeProfile>>)
  <2>1. profileLocked' \in BOOLEAN /\ universeProfile' \in Profiles
    BY <1>3 DEF TypeOK, UniverseT, BackendT
  <2>2. /\ BackendT' /\ RepliesT' /\ failures' \in Nat /\ boot' \in BootTypes
        /\ boot'.name \in Profiles
    BY <1>1, <1>3, StartFeedTyped
  <2> QED BY <1>2, <2>1, <2>2
<1>4. ASSUME NEW ok \in BOOLEAN, SetUniverse(boot.name, ok), IssueNext("boot", ok),
             profileLocked' = FALSE, boot' = [boot EXCEPT !.at = "set"],
             UNCHANGED universeProfile
      PROVE  TypeOK'
  <2>1. boot \in BootTypes /\ boot.name \in Profiles
    BY <1>1 DEF TypeOK, UniverseT
  <2>2. BackendT' /\ failures' \in Nat
    BY <1>4, <2>1, SetUniverseTyped
  <2>3. RepliesT'
    BY <1>1, <1>4, NextStep DEF TypeOK, Tasks
  <2>4. boot' \in BootTypes /\ boot'.name \in Profiles
    BY <1>4, <2>1 DEF BootTypes
  <2>5. profileLocked' \in BOOLEAN /\ universeProfile' \in Profiles
    BY <1>4 DEF TypeOK, UniverseT
  <2> QED BY <1>2, <2>2, <2>3, <2>4, <2>5
<1> QED BY <1>3, <1>4 DEF BootProfile

\* The end of the boot effect keeps the types.
LEMMA BootEndTyped ==
  ASSUME TypeOK, BootIsSet \/ BootEnds
  PROVE  TypeOK'
<1>1. /\ RegimeT' /\ RestoreT' /\ UNCHANGED <<change, rows, clicks, untold>>
      /\ boot.at # "none" /\ Arrives("boot")
  BY TypesKept DEF BootIsSet, BootEnds
<1>2. boot \in BootTypes /\ boot.name \in Profiles
  BY <1>1 DEF TypeOK, UniverseT
<1>3. CASE /\ boot' = [boot EXCEPT !.at = "done"] /\ NoFurtherCall /\ EndUniverse
           /\ Adopted(boot.name) \/ UNCHANGED <<universeProfile, profileLocked, savedUniverse>>
  <2>1. /\ BackendT' /\ ModelT' /\ PollsT' /\ failures' \in Nat
        /\ universeGeneration' = universeGeneration /\ universeSwitching' \in BOOLEAN
    BY <1>3, EndUniverseTyped
  <2>2. RepliesT'
    BY <1>1, <1>3, TakeStep DEF TypeOK, Tasks
  <2>3. boot' \in BootTypes /\ boot'.name \in Profiles
    BY <1>2, <1>3 DEF BootTypes
  <2>4. UniverseT'
    BY <1>1, <1>2, <1>3, <2>1, <2>3 DEF Adopted, TypeOK, UniverseT, BackendT
  <2>5. ShownT'
    BY <1>1, <2>1 DEF TypeOK, ShownT
  <2> QED BY <1>1, <2>1, <2>2, <2>4, <2>5 DEF TypeOK
<1>4. CASE /\ StartFeed
           /\ UNCHANGED <<modelVars, universeProfile, universeGeneration, universeSwitching,
                          profileLocked, savedUniverse, polls>>
  <2>1. /\ BackendT' /\ RepliesT' /\ failures' \in Nat /\ boot' \in BootTypes
        /\ boot'.name \in Profiles
    BY <1>1, <1>4, StartFeedTyped
  <2>2. ModelT' /\ PollsT'
    BY <1>4, TypesKept
  <2>3. UniverseT'
    BY <1>1, <1>4, <2>1 DEF TypeOK, UniverseT
  <2>4. ShownT'
    BY <1>1, <2>1 DEF TypeOK, ShownT
  <2> QED BY <1>1, <2>1, <2>2, <2>3, <2>4 DEF TypeOK
<1>5. CASE BootIsSet
  BY <1>3, <1>4, <1>5 DEF BootIsSet
<1>6. CASE BootEnds
  BY <1>3, <1>6 DEF BootEnds
<1> QED BY <1>5, <1>6

\* The steps of a toggle keep the types.
LEMMA RegimeTyped ==
  ASSUME TypeOK, toggleRegimeScoring \/ RegimeIsSet \/ RegimeRowsArrive
  PROVE  TypeOK'
<1>1. ModelT' /\ UniverseT' /\ RestoreT' /\ PollsT' /\ UNCHANGED untold
  BY TypesKept DEF toggleRegimeScoring, RegimeIsSet, RegimeRowsArrive
<1>2. failures \in Nat /\ RepliesT /\ "toggle" \in Tasks
  BY DEF TypeOK, ShownT, Tasks
<1>3. CASE toggleRegimeScoring
  <2>1. PICK ok \in BOOLEAN :
          /\ Outcome(ok) /\ Issue("toggle", ok)
          /\ backend' = IF ok THEN [backend EXCEPT !.regime = ~regimeScoring] ELSE backend
    BY <1>3 DEF toggleRegimeScoring
  <2>2. BackendT'
    BY <2>1 DEF TypeOK, BackendT, RegimeT
  <2>3. RepliesT'
    BY <1>2, <2>1, IssueStep
  <2>4. generation \in Generations
    BY DEF generation, Generations, TypeOK, ModelT, UniverseT
  <2>5. RegimeT'
    BY <1>3, <2>4 DEF toggleRegimeScoring, TypeOK, RegimeT
  <2>6. failures' \in Nat
    BY <1>2, <2>1, OutcomeTyped
  <2>7. ShownT'
    BY <1>1, <1>3, <2>6 DEF toggleRegimeScoring, TypeOK, ShownT
  <2> QED BY <1>1, <2>2, <2>3, <2>5, <2>7 DEF TypeOK
<1>4. CASE RegimeIsSet
  <2>1. BackendT' /\ UNCHANGED <<rows, clicks>>
    BY <1>4, TypesKept DEF RegimeIsSet
  <2>2. RepliesT'
    BY <1>2, <1>4, TakeStep DEF RegimeIsSet
  <2>3. RegimeT' /\ failures' \in Nat
    <3>1. CASE Succeeds
      <4>1. PICK ok \in BOOLEAN :
              Outcome(ok) /\ toggle' = [toggle EXCEPT !.at = "rows", !.rows = Asked(backend, ok)]
        BY <1>4, <3>1 DEF RegimeIsSet
      <4>2. Asked(backend, ok) \in View \cup {None}
        BY RowsOfView DEF TypeOK, BackendT
      <4>3. failures' \in Nat
        BY <1>2, <4>1, OutcomeTyped
      <4>4. regimeScoring' = toggle.next /\ savedRegime' = toggle.next
        BY <1>4, <3>1 DEF RegimeIsSet
      <4> QED BY <4>1, <4>2, <4>3, <4>4 DEF TypeOK, RegimeT
    <3>2. CASE ~Succeeds
      <4>1. toggle' = IdleToggle /\ UNCHANGED <<regimeScoring, savedRegime, failures>>
        BY <1>4, <3>2 DEF RegimeIsSet
      <4> QED BY <1>2, <4>1 DEF IdleToggle, TypeOK, RegimeT, Generations
    <3> QED BY <3>1, <3>2
  <2>4. ShownT'
    BY <1>1, <2>1, <2>3 DEF TypeOK, ShownT
  <2> QED BY <1>1, <2>1, <2>2, <2>3, <2>4 DEF TypeOK
<1>5. CASE RegimeRowsArrive
  <2>1. BackendT' /\ RepliesT'
    BY <1>5, TypesKept DEF RegimeRowsArrive
  <2>2. RegimeT'
    BY <1>5 DEF RegimeRowsArrive, IdleToggle, TypeOK, RegimeT, Generations
  <2>3. ShownT'
    BY <1>5 DEF RegimeRowsArrive, By, TypeOK, RegimeT, ShownT
  <2> QED BY <1>1, <2>1, <2>2, <2>3 DEF TypeOK
<1> QED BY <1>3, <1>4, <1>5

\* A poll and its arrival keep the types.
LEMMA PollTyped ==
  ASSUME TypeOK, Poll \/ PollArrives
  PROVE  TypeOK'
<1>1. /\ BackendT' /\ RepliesT' /\ ModelT' /\ RegimeT' /\ RestoreT' /\ UNCHANGED <<clicks, untold>>
  BY TypesKept DEF Poll, PollArrives
<1>2. CASE Poll
  <2>1. /\ UNCHANGED <<universeVars, rows>> /\ refresh /\ PollsT /\ failures \in Nat
        /\ dataGeneration' \in Nat /\ universeGeneration' \in Nat
    BY <1>1, <1>2 DEF Poll, TypeOK, ModelT, UniverseT, universeVars, ShownT
  <2>2. failures' \in Nat /\ PollsT'
    BY <1>1, <2>1, RefreshTyped
  <2>3. UniverseT'
    BY <2>1, TypesKept
  <2>4. ShownT'
    BY <1>1, <2>1, <2>2 DEF TypeOK, ShownT
  <2> QED BY <1>1, <2>2, <2>3, <2>4 DEF TypeOK
<1>3. CASE PollArrives
  <2>1. PICK p \in polls :
          /\ polls' = polls \ {p}
          /\ IF IsCurrentPoll(p) THEN publish(p)
             ELSE UNCHANGED <<rows, universeProfile, profileLocked>>
    BY <1>3 DEF PollArrives
  <2>2. UNCHANGED <<universeGeneration, universeSwitching, savedUniverse, change, boot, failures>>
    BY <1>3 DEF PollArrives
  <2>3. p \in Polls
    BY DEF TypeOK, PollsT
  <2>4. PollsT'
    BY <2>1 DEF TypeOK, PollsT
  <2>5. UniverseT'
    BY <2>1, <2>2, <2>3 DEF publish, TypeOK, UniverseT, BackendT, Polls
  <2>6. ShownT'
    BY <1>1, <2>1, <2>2, <2>3 DEF publish, By, TypeOK, ShownT, Polls
  <2> QED BY <1>1, <2>4, <2>5, <2>6 DEF TypeOK
<1> QED BY <1>2, <1>3

\* Every step keeps the types.
LEMMA NextTyped ==
  ASSUME TypeOK, [Next]_vars
  PROVE  TypeOK'
<1>1. CASE UNCHANGED vars
  <2>1. /\ UNCHANGED <<backend, replies, modelVars, universeVars>>
        /\ UNCHANGED <<regimeVars, restore, polls>>
        /\ UNCHANGED <<rows, clicks, failures, untold>>
    BY <1>1 DEF vars
  <2> QED BY <2>1, TypesKept DEF TypeOK
<1>2. CASE Next
  BY <1>2, SelectTyped, RestoreTyped, ModelIsSetTyped, ModelRowsTyped, SwitchEndTyped,
     UniverseChangeTyped, UniverseSetTyped, BootBeginsTyped, BootProfileTyped, BootEndTyped,
     RegimeTyped, PollTyped
     DEF Next, Switch, Universe, Regime, Click
<1> QED BY <1>1, <1>2

\* Every variable has its type, in particular what the page keeps of the back end's answers
\* (the state and the refs of App).
THEOREM TypeCorrect == Spec => []TypeOK
<1>1. Init => TypeOK
  BY InitTyped
<1>2. TypeOK /\ [Next]_vars => TypeOK'
  BY NextTyped
<1>3. Spec => Init /\ [][Next]_vars
  BY DEF Spec
<1> QED BY <1>1, <1>2, <1>3, PTL

\* The watched tasks but t are where they were.
Others(t) ==
  /\ t # "restore" => UNCHANGED restore
  /\ t # "select" => UNCHANGED select
  /\ t # "boot" => UNCHANGED boot
  /\ t # "toggle" => UNCHANGED toggle

\* For them the same replies are expected.
LEMMA OthersExpected ==
  ASSUME NEW t, Others(t), NEW u \in Watched, u # t
  PROVE  Expected(u)' <=> Expected(u)
<1>1. CASE u = "restore"
  BY <1>1 DEF Others, Expected
<1>2. CASE u = "select"
  BY <1>2 DEF Others, Expected
<1>3. CASE u = "boot"
  BY <1>3 DEF Others, Expected
<1>4. CASE u = "toggle"
  BY <1>4 DEF Others, Expected
<1> QED BY <1>1, <1>2, <1>3, <1>4 DEF Watched, Tasks

\* A call of a task with none under way leaves one at most.
LEMMA QueueIssued ==
  ASSUME QueueInv, NEW t \in Tasks, NEW ok \in BOOLEAN, IsAppended(replies, t, ok, replies'),
         Others(t), t \in Watched => ~Expected(t) /\ Expected(t)'
  PROVE  QueueInv'
<1>1. \A u \in Watched : u # t => (Expected(u)' <=> Expected(u))
  BY OthersExpected
<1>2. t \in Watched => ~In(replies, t)
  BY DEF QueueInv, Pending
<1>3. OneEach(replies')
  BY <1>2 DEF IsAppended, QueueInv
<1>4. \A u \in Watched : In(replies', u) <=> Expected(u)'
  BY <1>1 DEF IsAppended, QueueInv, Pending
<1> QED BY <1>3, <1>4 DEF QueueInv, Pending, OneEach

\* So does the next call of a task that has its answer.
LEMMA QueueReplaced ==
  ASSUME QueueInv, NEW t \in Tasks, NEW ok \in BOOLEAN, IsReplaced(replies, t, ok, replies'),
         Others(t), t \in Watched => Expected(t)'
  PROVE  QueueInv'
<1>1. \A u \in Watched : u # t => (Expected(u)' <=> Expected(u))
  BY OthersExpected
<1>3. OneEach(replies')
  BY DEF IsReplaced, QueueInv
<1>4. \A u \in Watched : In(replies', u) <=> Expected(u)'
  BY <1>1 DEF IsReplaced, QueueInv, Pending
<1> QED BY <1>3, <1>4 DEF QueueInv, Pending, OneEach

\* A task that has its answer and asks nothing more has none.
LEMMA QueueTaken ==
  ASSUME QueueInv, NEW t \in Tasks, IsTaken(replies, t, replies'),
         Others(t), t \in Watched => ~Expected(t)'
  PROVE  QueueInv'
<1>1. \A u \in Watched : u # t => (Expected(u)' <=> Expected(u))
  BY OthersExpected
<1>3. OneEach(replies')
  BY DEF IsTaken, QueueInv
<1>4. \A u \in Watched : In(replies', u) <=> Expected(u)'
  BY <1>1, <1>3 DEF IsTaken, QueueInv, Pending
<1> QED BY <1>3, <1>4 DEF QueueInv, Pending, OneEach

\* Where the queue stays, what is expected stays.
LEMMA QueueSame ==
  ASSUME QueueInv, UNCHANGED replies, NEW t, Others(t),
         t \in Watched => (Expected(t)' <=> Expected(t))
  PROVE  QueueInv'
<1>1. \A u \in Watched : Expected(u)' <=> Expected(u)
  BY OthersExpected
<1> QED BY <1>1 DEF QueueInv, Pending, OneEach, In

\* Every step keeps the queue in line with what the tasks expect.
LEMMA QueueNext ==
  ASSUME TypeOK, QueueInv, ModelInv, [Next]_vars
  PROVE  QueueInv'
<1>0. /\ RepliesT /\ \A t \in {"restore", "select", "change", "boot", "toggle"} : t \in Tasks
      /\ "restore" \in Watched /\ "select" \in Watched /\ "boot" \in Watched
      /\ "toggle" \in Watched /\ "change" \notin Watched
  BY DEF TypeOK, Tasks, Watched
<1>1. CASE RestoreModel
  <2>1. PICK ok \in BOOLEAN : IssueNext("restore", ok)
    BY <1>1 DEF RestoreModel
  <2>2. IsReplaced(replies, "restore", ok, replies')
    BY <1>0, <1>1, <2>1, NextStep DEF RestoreModel
  <2>3. Others("restore") /\ Expected("restore")'
    BY <1>1 DEF RestoreModel, Others, Expected, TypeOK, RestoreT, regimeVars, universeVars
  <2> QED BY <1>0, <2>2, <2>3, QueueReplaced
<1>2. CASE RestoreRegime
  <2>1. IsTaken(replies, "restore", replies')
    BY <1>0, <1>2, TakeStep DEF RestoreRegime
  <2>2. Others("restore") /\ ~Expected("restore")'
    BY <1>2 DEF RestoreRegime, Others, Expected, TypeOK, RestoreT, modelVars, universeVars
  <2> QED BY <1>0, <2>1, <2>2, QueueTaken
<1>3. CASE ModelIsSet
  <2>1. Others("select") /\ Arrives("select")
    BY <1>3 DEF ModelIsSet, Others, regimeVars, universeVars
  <2>2. select \in [at : {"idle", "set", "rows", "rollback"}, target : Models \cup {None},
                    backendModel : Models \cup {None}, initial : Nat, asked : Nat,
                    rows : View \cup {None}]
    BY DEF TypeOK, ModelT
  <2>3. ASSUME NEW ok \in BOOLEAN, IssueNext("select", ok), select'.at = "set"
        PROVE  QueueInv'
    <3>1. IsReplaced(replies, "select", ok, replies')
      BY <1>0, <2>1, <2>3, NextStep
    <3>2. Expected("select")'
      BY <2>3 DEF Expected
    <3> QED BY <1>0, <2>1, <3>1, <3>2, QueueReplaced
  <2>4. ASSUME NoFurtherCall, select'.at \in {"idle", "rows"}
        PROVE  QueueInv'
    <3>1. IsTaken(replies, "select", replies')
      BY <1>0, <2>1, <2>4, TakeStep
    <3>2. ~Expected("select")'
      BY <2>4 DEF Expected
    <3> QED BY <1>0, <2>1, <3>1, <3>2, QueueTaken
  <2>5. \/ \E ok \in BOOLEAN : IssueNext("select", ok) /\ select'.at = "set"
        \/ NoFurtherCall /\ select'.at \in {"idle", "rows"}
    <3> DEFINE s == [select EXCEPT !.target = requestedModel, !.backendModel = select.target]
    <3>1. CASE SetModel([s EXCEPT !.at = "set"], requestedModel)
      <4>1. select' = [s EXCEPT !.at = "set"] /\ \E ok \in BOOLEAN : IssueNext("select", ok)
        BY <3>1 DEF SetModel
      <4> QED BY <2>2, <4>1
    <3>2. CASE NoFurtherCall /\ EndSwitch(FALSE)
      BY <3>2 DEF EndSwitch, IdleSelect
    <3>3. ASSUME NoFurtherCall, NEW ok \in BOOLEAN,
                 select' = [s EXCEPT !.at = "rows", !.asked = universeGeneration,
                                     !.rows = Asked(backend, ok)]
          PROVE  NoFurtherCall /\ select'.at \in {"idle", "rows"}
      BY <2>2, <3>3
    <3> HIDE DEF s
    <3> QED BY <1>3, <3>1, <3>2, <3>3 DEF ModelIsSet, Turn, s
  <2> QED BY <2>3, <2>4, <2>5
<1>4. CASE ModelRowsArrive
  <2>1. Others("select") /\ UNCHANGED replies /\ (Expected("select")' <=> Expected("select"))
    BY <1>4 DEF ModelRowsArrive, Others, EndSwitch, IdleSelect, regimeVars, universeVars, Expected
  <2> QED BY <2>1, QueueSame
<1>5. CASE ModelRowsUnwanted
  <2>1. PICK ok \in BOOLEAN : Issue("select", ok)
    BY <1>5 DEF ModelRowsUnwanted
  <2>2. IsAppended(replies, "select", ok, replies')
    BY <1>0, <2>1, IssueStep
  <2>3. Others("select") /\ ~Expected("select") /\ Expected("select")'
    BY <1>5 DEF ModelRowsUnwanted, Others, Expected, TypeOK, ModelT, regimeVars, universeVars
  <2> QED BY <1>0, <2>2, <2>3, QueueIssued
<1>6. CASE SwitchFails
  <2>1. PICK ok \in BOOLEAN :
          /\ Rollback(ok)
          /\ \/ select.at = "set" /\ Arrives("select") /\ ~Succeeds /\ IssueNext("select", ok)
             \/ select.at = "rows" /\ select.rows = None /\ Issue("select", ok)
    BY <1>6 DEF SwitchFails
  <2>2. Others("select") /\ Expected("select")'
    BY <2>1 DEF Rollback, Others, Expected, TypeOK, ModelT, regimeVars, universeVars
  <2>3. CASE Arrives("select") /\ IssueNext("select", ok)
    <3>1. IsReplaced(replies, "select", ok, replies')
      BY <1>0, <2>3, NextStep
    <3> QED BY <1>0, <2>2, <3>1, QueueReplaced
  <2>4. CASE select.at = "rows" /\ Issue("select", ok)
    <3>1. IsAppended(replies, "select", ok, replies')
      BY <1>0, <2>4, IssueStep
    <3>2. ~Expected("select")
      BY <2>4 DEF Expected
    <3> QED BY <1>0, <2>2, <3>1, <3>2, QueueIssued
  <2> QED BY <2>1, <2>3, <2>4
<1>7. CASE RollbackEnds
  <2>1. IsTaken(replies, "select", replies')
    BY <1>0, <1>7, TakeStep DEF RollbackEnds
  <2>2. Others("select") /\ ~Expected("select")'
    BY <1>7 DEF RollbackEnds, EndSwitch, IdleSelect, Others, Expected, regimeVars, universeVars
  <2> QED BY <1>0, <2>1, <2>2, QueueTaken
<1>8. CASE \E m \in Models : selectScoringModel(m)
  <2>1. PICK m \in Models : selectScoringModel(m)
    BY <1>8
  <2>2. Others("select")
    BY <2>1 DEF selectScoringModel, Others, regimeVars, universeVars
  <2>3. CASE modelSwitching \/ m = scoringModel
    <3>1. UNCHANGED <<replies, select>>
      BY <2>1, <2>3 DEF selectScoringModel
    <3>2. Expected("select")' <=> Expected("select")
      BY <3>1 DEF Expected
    <3> QED BY <2>2, <3>1, <3>2, QueueSame
  <2>4. CASE ~(modelSwitching \/ m = scoringModel)
    <3>1. PICK ok \in BOOLEAN : Issue("select", ok)
      BY <2>1, <2>4 DEF selectScoringModel
    <3>2. IsAppended(replies, "select", ok, replies')
      BY <1>0, <3>1, IssueStep
    <3>3. select.at = "idle" /\ select'.at = "set"
      BY <2>1, <2>4 DEF selectScoringModel, IdleSelect, ModelInv
    <3>4. ~Expected("select") /\ Expected("select")'
      BY <3>3 DEF Expected
    <3> QED BY <1>0, <2>2, <3>2, <3>4, QueueIssued
  <2> QED BY <2>3, <2>4
<1>9. CASE \E p \in Profiles : handleUniverseChange(p)
  <2>1. PICK p \in Profiles, ok \in BOOLEAN : handleUniverseChange(p) /\ Issue("change", ok)
    BY <1>9 DEF handleUniverseChange
  <2>2. IsAppended(replies, "change", ok, replies')
    BY <1>0, <2>1, IssueStep
  <2>3. Others("change")
    BY <2>1 DEF handleUniverseChange, Others, modelVars, regimeVars
  <2> QED BY <1>0, <2>2, <2>3, QueueIssued
<1>10. CASE UniverseIsSet \/ UniverseIsRestored
  <2>1. Others("change") /\ Arrives("change")
    BY <1>10 DEF UniverseIsSet, UniverseIsRestored, EndUniverse, Others, modelVars, regimeVars
  <2>2. NoFurtherCall \/ \E ok \in BOOLEAN : IssueNext("change", ok)
    BY <1>10 DEF UniverseIsSet, UniverseIsRestored
  <2>3. CASE NoFurtherCall
    <3>1. IsTaken(replies, "change", replies')
      BY <1>0, <2>1, <2>3, TakeStep
    <3> QED BY <1>0, <2>1, <3>1, QueueTaken
  <2>4. ASSUME NEW ok \in BOOLEAN, IssueNext("change", ok) PROVE QueueInv'
    <3>1. IsReplaced(replies, "change", ok, replies')
      BY <1>0, <2>1, <2>4, NextStep
    <3> QED BY <1>0, <2>1, <3>1, QueueReplaced
  <2> QED BY <2>2, <2>3, <2>4
<1>11. CASE BootBegins
  <2>1. PICK ok \in BOOLEAN : Issue("boot", ok)
    BY <1>11 DEF BootBegins
  <2>2. IsAppended(replies, "boot", ok, replies')
    BY <1>0, <2>1, IssueStep
  <2>3. Others("boot") /\ ~Expected("boot") /\ Expected("boot")'
    BY <1>11 DEF BootBegins, Others, Expected, modelVars, regimeVars
  <2> QED BY <1>0, <2>2, <2>3, QueueIssued
<1>12. CASE BootProfile \/ BootIsSet \/ BootEnds
  <2>1. Others("boot") /\ Arrives("boot") /\ boot \in BootTypes
    BY <1>12 DEF BootProfile, BootIsSet, BootEnds, EndUniverse, Others, modelVars, regimeVars,
       TypeOK, UniverseT
  <2>2. \/ NoFurtherCall /\ boot'.at = "done"
        \/ \E ok \in BOOLEAN : IssueNext("boot", ok) /\ boot'.at \in {"set", "feed"}
    BY <1>12, <2>1 DEF BootProfile, BootIsSet, BootEnds, StartFeed, BootTypes
  <2>3. CASE NoFurtherCall /\ boot'.at = "done"
    <3>1. IsTaken(replies, "boot", replies')
      BY <1>0, <2>1, <2>3, TakeStep
    <3>2. ~Expected("boot")'
      BY <2>3 DEF Expected
    <3> QED BY <1>0, <2>1, <3>1, <3>2, QueueTaken
  <2>4. ASSUME NEW ok \in BOOLEAN, IssueNext("boot", ok), boot'.at \in {"set", "feed"}
        PROVE  QueueInv'
    <3>1. IsReplaced(replies, "boot", ok, replies')
      BY <1>0, <2>1, <2>4, NextStep
    <3>2. Expected("boot")'
      BY <2>4 DEF Expected
    <3> QED BY <1>0, <2>1, <3>1, <3>2, QueueReplaced
  <2> QED BY <2>2, <2>3, <2>4
<1>13. CASE toggleRegimeScoring
  <2>1. PICK ok \in BOOLEAN : Issue("toggle", ok)
    BY <1>13 DEF toggleRegimeScoring
  <2>2. IsAppended(replies, "toggle", ok, replies')
    BY <1>0, <2>1, IssueStep
  <2>3. Others("toggle") /\ ~Expected("toggle") /\ Expected("toggle")'
    BY <1>13 DEF toggleRegimeScoring, Others, Expected, modelVars, universeVars
  <2> QED BY <1>0, <2>2, <2>3, QueueIssued
<1>14. CASE RegimeIsSet
  <2>1. IsTaken(replies, "toggle", replies')
    BY <1>0, <1>14, TakeStep DEF RegimeIsSet
  <2>2. Others("toggle")
    BY <1>14 DEF RegimeIsSet, Others, modelVars, universeVars
  <2>3. toggle'.at # "set"
    <3>1. CASE Succeeds
      BY <1>14, <3>1 DEF RegimeIsSet, TypeOK, RegimeT
    <3>2. CASE ~Succeeds
      <4>1. toggle' = IdleToggle
        BY <1>14, <3>2 DEF RegimeIsSet
      <4> QED BY <4>1 DEF IdleToggle
    <3> QED BY <3>1, <3>2
  <2>4. ~Expected("toggle")'
    BY <2>3 DEF Expected
  <2> QED BY <1>0, <2>1, <2>2, <2>4, QueueTaken
<1>15. CASE RegimeRowsArrive
  <2>1. Others("toggle") /\ UNCHANGED replies /\ (Expected("toggle")' <=> Expected("toggle"))
    BY <1>15 DEF RegimeRowsArrive, Others, IdleToggle, modelVars, universeVars, Expected
  <2> QED BY <2>1, QueueSame
<1>16. CASE Poll \/ PollArrives \/ UNCHANGED vars
  <2>1. Others("change") /\ UNCHANGED replies
    BY <1>16 DEF Poll, PollArrives, vars, Others, modelVars, universeVars, regimeVars
  <2> QED BY <1>0, <2>1, QueueSame
<1> QED
  BY <1>1, <1>2, <1>3, <1>4, <1>5, <1>6, <1>7, <1>8, <1>9, <1>10, <1>11, <1>12, <1>13, <1>14,
     <1>15, <1>16 DEF Next, Switch, Universe, Regime, Click

-----------------------------------------------------------------------------
(* What an action leaves alone.                                            *)

\* The queue changes by calls of one task only.
Calls(t) ==
  \/ UNCHANGED replies
  \/ \E ok \in BOOLEAN : Issue(t, ok)
  \/ Arrives(t) /\ (NoFurtherCall \/ \E ok \in BOOLEAN : IssueNext(t, ok))

\* The replies of the other tasks stay, and their order.
LEMMA CallsLeave ==
  ASSUME RepliesT, NEW t \in Tasks, Calls(t), NEW u, u # t, NEW v, v # t
  PROVE  /\ GoodIn(replies', u) <=> GoodIn(replies, u)
         /\ BeforeIn(replies', u, v) <=> BeforeIn(replies, u, v)
<1>1. CASE UNCHANGED replies
  BY <1>1
<1>2. ASSUME NEW ok \in BOOLEAN, Issue(t, ok)
      PROVE  /\ GoodIn(replies', u) <=> GoodIn(replies, u)
             /\ BeforeIn(replies', u, v) <=> BeforeIn(replies, u, v)
  BY <1>2, IssueStep DEF IsAppended
<1>3. CASE Arrives(t) /\ NoFurtherCall
  BY <1>3, TakeStep DEF IsTaken
<1>4. ASSUME NEW ok \in BOOLEAN, Arrives(t), IssueNext(t, ok)
      PROVE  /\ GoodIn(replies', u) <=> GoodIn(replies, u)
             /\ BeforeIn(replies', u, v) <=> BeforeIn(replies, u, v)
  BY <1>4, NextStep DEF IsReplaced
<1> QED BY <1>1, <1>2, <1>3, <1>4 DEF Calls

\* The steps are of five kinds, each about a part of the state.
UniverseSteps == Universe \/ \E p \in Profiles : handleUniverseChange(p)

\* The steps that are about the universe leave the choices of model and regime.
LEMMA UniverseLeaves ==
  ASSUME TypeOK, UniverseSteps
  PROVE  /\ UNCHANGED <<modelVars, regimeVars, restore, untold>>
         /\ backend'.model = backend.model /\ backend'.regime = backend.regime
         /\ Calls("change") \/ Calls("boot")
<1>1. ASSUME NEW p \in Profiles, handleUniverseChange(p)
      PROVE  /\ UNCHANGED <<modelVars, regimeVars, restore, untold>>
             /\ backend'.model = backend.model /\ backend'.regime = backend.regime
             /\ Calls("change")
  <2>1. PICK ok \in BOOLEAN : SetUniverse(p, ok) /\ Issue("change", ok)
    BY <1>1 DEF handleUniverseChange
  <2>2. backend'.model = backend.model /\ backend'.regime = backend.regime
    BY <2>1, SetUniverseTyped
  <2> QED BY <1>1, <2>1, <2>2 DEF handleUniverseChange, Calls
<1>2. CASE UniverseIsSet
  BY <1>2 DEF UniverseIsSet, EndUniverse, Calls
<1>3. CASE UniverseIsRestored
  BY <1>3 DEF UniverseIsRestored, EndUniverse, Calls
<1>4. CASE BootBegins
  BY <1>4 DEF BootBegins, Calls
<1>5. CASE BootProfile
  <2>1. UNCHANGED <<modelVars, regimeVars, restore, untold>> /\ Arrives("boot")
    BY <1>5 DEF BootProfile
  <2>2. CASE StartFeed
    BY <2>1, <2>2 DEF StartFeed, Calls
  <2>3. CASE \E ok \in BOOLEAN : SetUniverse(boot.name, ok) /\ IssueNext("boot", ok)
    <3>1. boot.name \in Profiles
      BY <1>5 DEF BootProfile, TypeOK, UniverseT
    <3>2. backend'.model = backend.model /\ backend'.regime = backend.regime
      BY <2>3, <3>1, SetUniverseTyped
    <3> QED BY <2>1, <2>3, <3>2 DEF Calls
  <2> QED BY <1>5, <2>2, <2>3 DEF BootProfile
<1>6. CASE BootIsSet
  BY <1>6 DEF BootIsSet, EndUniverse, StartFeed, Calls
<1>7. CASE BootEnds
  BY <1>7 DEF BootEnds, EndUniverse, Calls
<1> QED BY <1>1, <1>2, <1>3, <1>4, <1>5, <1>6, <1>7 DEF UniverseSteps, Universe

PollSteps == Poll \/ PollArrives \/ UNCHANGED vars

\* The steps that are about the polls leave the back end, the replies and the choices.
LEMMA PollLeaves ==
  ASSUME PollSteps
  PROVE  /\ UNCHANGED <<backend, replies, modelVars, regimeVars, restore, untold>>
         /\ UNCHANGED <<universeGeneration, universeSwitching, change, boot>>
BY DEF PollSteps, Poll, PollArrives, vars, universeVars

ModelSteps == Switch \/ \E m \in Models : selectScoringModel(m)

\* The steps that are about the model leave the regime and the universe.
LEMMA ModelLeaves ==
  ASSUME TypeOK, ModelSteps
  PROVE  /\ UNCHANGED <<universeVars, regimeVars, restore>> /\ Calls("select")
         /\ backend'.regime = backend.regime /\ backend'.universe = backend.universe
         /\ "regime" \in untold' <=> "regime" \in untold
<1>0. backend \in [model : Models, universe : Profiles, regime : BOOLEAN, locked : BOOLEAN]
  BY DEF TypeOK, BackendT
<1>1. ASSUME NEW m \in Models, selectScoringModel(m)
      PROVE  /\ UNCHANGED <<universeVars, regimeVars, restore, untold>> /\ Calls("select")
             /\ backend'.regime = backend.regime /\ backend'.universe = backend.universe
  <2>1. CASE modelSwitching \/ m = scoringModel
    BY <1>1, <2>1 DEF selectScoringModel, Calls
  <2>2. CASE ~(modelSwitching \/ m = scoringModel)
    <3>1. PICK ok \in BOOLEAN :
            /\ Issue("select", ok)
            /\ backend' = IF ok THEN [backend EXCEPT !.model = m] ELSE backend
      BY <1>1, <2>2 DEF selectScoringModel
    <3> QED BY <1>0, <1>1, <3>1 DEF selectScoringModel, Calls
  <2> QED BY <2>1, <2>2
<1>2. CASE ModelIsSet
  <2>1. UNCHANGED <<universeVars, regimeVars, restore, untold>> /\ Arrives("select")
    BY <1>2 DEF ModelIsSet
  <2>2. ASSUME NEW s, SetModel(s, requestedModel)
        PROVE  /\ Calls("select") /\ backend'.regime = backend.regime
               /\ backend'.universe = backend.universe
    BY <1>0, <2>1, <2>2 DEF SetModel, Calls
  <2>3. CASE NoFurtherCall /\ EndSwitch(FALSE)
    BY <2>1, <2>3 DEF EndSwitch, Calls
  <2>4. CASE NoFurtherCall /\ UNCHANGED backend
    BY <2>1, <2>4 DEF Calls
  <2> QED BY <1>2, <2>1, <2>2, <2>3, <2>4 DEF ModelIsSet, Turn
<1>3. CASE ModelRowsArrive
  BY <1>3 DEF ModelRowsArrive, EndSwitch, Calls
<1>4. CASE ModelRowsUnwanted
  BY <1>0, <1>4 DEF ModelRowsUnwanted, Calls
<1>5. CASE SwitchFails
  BY <1>0, <1>5 DEF SwitchFails, Rollback, Calls
<1>6. CASE RollbackEnds
  BY <1>6 DEF RollbackEnds, EndSwitch, Calls
<1> QED BY <1>1, <1>2, <1>3, <1>4, <1>5, <1>6 DEF ModelSteps, Switch

RegimeSteps == Regime \/ toggleRegimeScoring

\* The steps of a toggle leave the model and the universe.
LEMMA RegimeLeaves ==
  ASSUME TypeOK, RegimeSteps
  PROVE  /\ UNCHANGED <<modelVars, universeVars, restore, polls, untold>> /\ Calls("toggle")
         /\ backend'.model = backend.model /\ backend'.universe = backend.universe
<1>0. backend \in [model : Models, universe : Profiles, regime : BOOLEAN, locked : BOOLEAN]
  BY DEF TypeOK, BackendT
<1>1. CASE toggleRegimeScoring
  BY <1>0, <1>1 DEF toggleRegimeScoring, Calls
<1>2. CASE RegimeIsSet
  BY <1>2 DEF RegimeIsSet, Calls
<1>3. CASE RegimeRowsArrive
  BY <1>3 DEF RegimeRowsArrive, Calls
<1> QED BY <1>1, <1>2, <1>3 DEF RegimeSteps, Regime

RestoreSteps == RestoreModel \/ RestoreRegime

\* The restoration leaves the universe and the switch.
LEMMA RestoreLeaves ==
  ASSUME TypeOK, RestoreSteps
  PROVE  /\ UNCHANGED <<modelSwitching, dataGeneration, select, universeVars, toggle, polls>>
         /\ Arrives("restore") /\ Calls("restore")
         /\ backend'.model = backend.model /\ backend'.universe = backend.universe
<1>0. backend \in [model : Models, universe : Profiles, regime : BOOLEAN, locked : BOOLEAN]
  BY DEF TypeOK, BackendT
<1>1. CASE RestoreModel
  BY <1>0, <1>1 DEF RestoreModel, Calls, regimeVars
<1>2. CASE RestoreRegime
  BY <1>2 DEF RestoreRegime, Calls, modelVars
<1> QED BY <1>1, <1>2 DEF RestoreSteps

\* There are no other steps.
LEMMA AllSteps ==
  [Next]_vars => ModelSteps \/ UniverseSteps \/ RegimeSteps \/ RestoreSteps \/ PollSteps
BY DEF Next, Click, ModelSteps, UniverseSteps, RegimeSteps, RestoreSteps, PollSteps

-----------------------------------------------------------------------------
(* The choices.                                                            *)

\* A good reply is a reply.
LEMMA GoodMeansIn ==
  ASSUME NEW q, NEW t, GoodIn(q, t)
  PROVE  In(q, t)
BY DEF GoodIn, In

\* Which replies are under way, and none is good that is not.
LEMMA SelectPending ==
  ASSUME QueueInv
  PROVE  /\ In(replies, "select") <=> select.at \in {"set", "rollback"}
         /\ In(replies, "restore") <=> restore.at # "ready"
         /\ In(replies, "toggle") <=> toggle.at = "set"
         /\ In(replies, "boot") <=> boot.at \in {"profile", "set", "feed"}
         /\ \A t : GoodIn(replies, t) => In(replies, t)
BY GoodMeansIn DEF QueueInv, Pending, Watched, Tasks, Expected

\* The invariant of the model rests on these only.
LEMMA ModelSame ==
  ASSUME ModelInv, backend'.model = backend.model,
         UNCHANGED <<select, scoringModel, modelSwitching, restore>>,
         "model" \in untold' <=> "model" \in untold,
         GoodIn(replies', "select") <=> GoodIn(replies, "select"),
         GoodIn(replies', "restore") <=> GoodIn(replies, "restore"),
         BeforeIn(replies', "select", "restore") <=> BeforeIn(replies, "select", "restore")
  PROVE  ModelInv'
BY DEF ModelInv, Good, Before

\* The restoration: the model that the back end was given, or gave, is the one shown.
LEMMA ModelRestored ==
  ASSUME TypeOK, QueueInv, ModelInv, RestoreSteps
  PROVE  ModelInv'
<1>0. /\ RepliesT /\ "restore" \in Tasks /\ "restore" \in Watched /\ OneEach(replies)
      /\ restore \in [at : {"model", "on", "off", "ready"}, model : Models]
  BY DEF TypeOK, Tasks, Watched, QueueInv, RestoreT
<1>1. /\ UNCHANGED <<modelSwitching, select>> /\ backend'.model = backend.model
      /\ Calls("restore") /\ Arrives("restore")
  BY RestoreLeaves
<1>2. GoodIn(replies', "select") <=> GoodIn(replies, "select")
  BY <1>0, <1>1, CallsLeave
<1>3. CASE RestoreModel
  <2>1. IsHead(replies, "restore")
    BY <1>0, <1>1, HeadFirst DEF RepliesT, Arrives
  <2>2. restore.at = "model" /\ restore'.at \in {"on", "off"}
    BY <1>0, <1>3 DEF RestoreModel
  <2>3. CASE Succeeds
    <3>1. scoringModel' = restore.model /\ UNCHANGED untold
      BY <1>3, <2>3 DEF RestoreModel
    <3>2. GoodIn(replies, "restore")
      BY <2>1, <2>3 DEF IsHead, Succeeds
    <3>3. /\ select.at \in {"idle", "set"}
          /\ ~modelSwitching => backend.model = restore.model
      BY <2>2, <3>2 DEF ModelInv, Good
    <3> QED BY <1>1, <1>2, <2>2, <3>1, <3>3 DEF ModelInv, Good
  <2>4. CASE ~Succeeds
    <3>1. scoringModel' = scoringModel /\ "model" \in untold'
      BY <1>3, <2>4 DEF RestoreModel
    <3> QED BY <1>1, <1>2, <2>2, <3>1 DEF ModelInv, Good
  <2> QED BY <2>3, <2>4
<1>4. CASE RestoreRegime
  <2>1. /\ UNCHANGED scoringModel /\ restore.at # "model" /\ restore'.at = "ready"
        /\ "model" \in untold' <=> "model" \in untold
    BY <1>0, <1>4 DEF RestoreRegime, modelVars
  <2> QED BY <1>1, <1>2, <2>1 DEF ModelInv, Good
<1> QED BY <1>3, <1>4 DEF RestoreSteps

\* A switch under way before the model is restored has its call behind the restoration's.
LEMMA SwitchNotFirst ==
  ASSUME TypeOK, QueueInv, ModelInv, restore.at = "model"
  PROVE  ~Arrives("select") /\ select.at \in {"idle", "set"}
<1>1. In(replies, "restore") /\ ~BeforeIn(replies, "select", "restore")
      /\ select.at \in {"idle", "set"}
  BY SelectPending DEF ModelInv, Before
<1>2. ASSUME Arrives("select") PROVE FALSE
  <2>1. IsHead(replies, "select")
    BY <1>2, HeadFirst DEF TypeOK, RepliesT, Arrives, Tasks
  <2> QED BY <1>1, <2>1 DEF IsHead
<1> QED BY <1>1, <1>2

\* A click on a model: a new switch tells the back end, one under way will.
LEMMA ModelSelected ==
  ASSUME TypeOK, QueueInv, ModelInv, NEW m \in Models, selectScoringModel(m)
  PROVE  ModelInv'
<1>0. /\ RepliesT /\ "select" \in Tasks /\ "restore" \in Tasks
      /\ backend \in [model : Models, universe : Profiles, regime : BOOLEAN, locked : BOOLEAN]
  BY DEF TypeOK, Tasks, BackendT
<1>1. UNCHANGED <<scoringModel, restore, untold>>
  BY DEF selectScoringModel
<1>2. CASE modelSwitching \/ m = scoringModel
  <2>1. UNCHANGED <<backend, replies, modelSwitching, select>>
    BY <1>2 DEF selectScoringModel
  <2> QED BY <1>1, <2>1, ModelSame
<1>3. CASE ~(modelSwitching \/ m = scoringModel)
  <2>1. PICK ok \in BOOLEAN :
          /\ Issue("select", ok)
          /\ backend' = IF ok THEN [backend EXCEPT !.model = m] ELSE backend
    BY <1>3 DEF selectScoringModel
  <2>2. /\ modelSwitching' = TRUE /\ ~modelSwitching
        /\ select'.at = "set" /\ select'.target = m
    BY <1>3 DEF selectScoringModel, IdleSelect
  <2>3. IsAppended(replies, "select", ok, replies')
    BY <1>0, <2>1, IssueStep
  <2>4. select.at = "idle" /\ ~In(replies, "select") /\ ~GoodIn(replies, "select")
    BY <2>2, SelectPending DEF ModelInv
  <2>5. /\ GoodIn(replies', "select") <=> ok
        /\ BeforeIn(replies', "select", "restore") <=> BeforeIn(replies, "select", "restore")
    BY <2>3, <2>4 DEF IsAppended
  <2>6. ok => backend'.model = m
    BY <1>0, <2>1
  <2> QED BY <1>1, <2>2, <2>5, <2>6 DEF ModelInv, Good, Before
<1> QED BY <1>2, <1>3

\* The switch: each call tells the back end of the model that its next step rests on.
LEMMA ModelSwitched ==
  ASSUME TypeOK, QueueInv, ModelInv, Switch
  PROVE  ModelInv'
<1>0. /\ RepliesT /\ "select" \in Tasks /\ "select" \in Watched /\ OneEach(replies)
      /\ backend \in [model : Models, universe : Profiles, regime : BOOLEAN, locked : BOOLEAN]
      /\ select \in [at : {"idle", "set", "rows", "rollback"}, target : Models \cup {None},
                 backendModel : Models \cup {None}, initial : Nat, asked : Nat,
                 rows : View \cup {None}]
  BY DEF TypeOK, Tasks, Watched, QueueInv, BackendT, ModelT
<1>1. UNCHANGED restore
  BY DEF Switch, ModelIsSet, ModelRowsArrive, ModelRowsUnwanted, SwitchFails, Rollback, RollbackEnds
<1>2. restore.at # "model" /\ select.at # "idle" /\ modelSwitching
  <2>1. select.at # "idle" /\ (select.at \in {"rows", "rollback"} \/ Arrives("select"))
    BY DEF Switch, ModelIsSet, ModelRowsArrive, ModelRowsUnwanted, SwitchFails, RollbackEnds
  <2>2. restore.at # "model"
    BY <2>1, SwitchNotFirst
  <2> QED BY <2>1, <2>2 DEF ModelInv
<1> DEFINE Goes(s, model) ==
      /\ select' = s /\ UNCHANGED <<scoringModel, modelSwitching, untold>>
      /\ \/ s.at = "set" /\ s.target = model
         \/ s.at = "rollback" /\ scoringModel = model
<1>3. ASSUME NEW ok \in BOOLEAN, NEW s, NEW model, Goes(s, model),
             GoodIn(replies', "select") => ok,
             backend' = IF ok THEN [backend EXCEPT !.model = model] ELSE backend
      PROVE  ModelInv'
  <2>1. ok => backend'.model = model
    BY <1>0, <1>3
  <2> QED BY <1>1, <1>2, <1>3, <2>1 DEF ModelInv, Good
<1>4. ASSUME modelSwitching' = FALSE, select' = IdleSelect, UNCHANGED backend,
             \/ "model" \in untold'
             \/ scoringModel' = backend.model
      PROVE  ModelInv'
  BY <1>1, <1>2, <1>4 DEF ModelInv, IdleSelect
<1>5. ASSUME NEW ok \in BOOLEAN, IssueNext("select", ok), Arrives("select")
      PROVE  GoodIn(replies', "select") => ok
  BY <1>0, <1>5, NextStep DEF IsReplaced
<1>6. ASSUME NEW ok \in BOOLEAN, Issue("select", ok), select.at = "rows"
      PROVE  GoodIn(replies', "select") => ok
  <2>1. IsAppended(replies, "select", ok, replies') /\ ~GoodIn(replies, "select")
    BY <1>0, <1>6, IssueStep, SelectPending
  <2> QED BY <2>1 DEF IsAppended
<1>7. ASSUME Arrives("select"), Succeeds
      PROVE  GoodIn(replies, "select")
  BY <1>0, <1>7, HeadFirst DEF RepliesT, Arrives, IsHead, Succeeds
<1> HIDE DEF Goes
<1>8. CASE ModelIsSet
  <2> DEFINE s == [select EXCEPT !.target = requestedModel, !.backendModel = select.target]
  <2>1. Arrives("select") /\ UNCHANGED untold /\ backend.model = select.target
    BY <1>7, <1>8 DEF ModelIsSet, ModelInv, Good
  <2>2. CASE SetModel([s EXCEPT !.at = "set"], requestedModel)
    <3>1. PICK ok \in BOOLEAN :
            /\ IssueNext("select", ok)
            /\ backend' = IF ok THEN [backend EXCEPT !.model = requestedModel] ELSE backend
      BY <2>2 DEF SetModel
    <3>2. Goes([s EXCEPT !.at = "set"], requestedModel)
      <4>1. [s EXCEPT !.at = "set"].at = "set" /\ [s EXCEPT !.at = "set"].target = requestedModel
        BY <1>0
      <4>2. select' = [s EXCEPT !.at = "set"] /\ UNCHANGED <<scoringModel, modelSwitching, untold>>
        BY <2>1, <2>2 DEF SetModel
      <4> QED BY <4>1, <4>2 DEF Goes
    <3> QED BY <1>3, <1>5, <2>1, <3>1, <3>2
  <2>3. CASE /\ EndSwitch(FALSE) /\ requestedModel = select.target
             /\ requestedModel = scoringModel /\ UNCHANGED scoringModel
    BY <1>4, <2>1, <2>3 DEF EndSwitch
  <2>4. ASSUME NEW ok \in BOOLEAN, requestedModel = select.target,
               select' = [s EXCEPT !.at = "rows", !.asked = universeGeneration,
                                   !.rows = Asked(backend, ok)],
               UNCHANGED <<backend, scoringModel, requestedModel, modelSwitching>>
        PROVE  ModelInv'
    <3>1. /\ select'.at = "rows" /\ select'.target = select.target
          /\ select'.rows = Asked(backend, ok)
      BY <1>0, <2>4
    <3>2. Asked(backend, ok) # None => Asked(backend, ok).model = backend.model
      BY <1>0, RowsOfView
    <3> QED BY <1>1, <1>2, <2>1, <2>4, <3>1, <3>2 DEF ModelInv
  <2> HIDE DEF s
  <2> QED BY <1>8, <2>2, <2>3, <2>4 DEF ModelIsSet, Turn, s
<1>9. CASE ModelRowsArrive
  BY <1>4, <1>9 DEF ModelRowsArrive, EndSwitch, ModelInv
<1>10. CASE ModelRowsUnwanted
  <2>1. PICK ok \in BOOLEAN :
          /\ Issue("select", ok)
          /\ backend' = IF ok THEN [backend EXCEPT !.model = requestedModel] ELSE backend
    BY <1>10 DEF ModelRowsUnwanted
  <2>2. Goes([select EXCEPT !.at = "set", !.target = requestedModel], requestedModel)
    <3> DEFINE s == [select EXCEPT !.at = "set", !.target = requestedModel]
    <3>1. s.at = "set" /\ s.target = requestedModel
      BY <1>0
    <3>2. select' = s /\ UNCHANGED <<scoringModel, modelSwitching, untold>>
      BY <1>10 DEF ModelRowsUnwanted
    <3> QED BY <3>1, <3>2 DEF Goes
  <2>3. select.at = "rows"
    BY <1>10 DEF ModelRowsUnwanted
  <2> QED BY <1>3, <1>6, <2>1, <2>2, <2>3
<1>11. CASE SwitchFails
  <2>1. PICK ok \in BOOLEAN :
          /\ Rollback(ok)
          /\ \/ Arrives("select") /\ IssueNext("select", ok)
             \/ select.at = "rows" /\ Issue("select", ok)
    BY <1>11 DEF SwitchFails
  <2>2. Goes([select EXCEPT !.at = "rollback"], scoringModel)
    BY <1>0, <2>1 DEF Rollback, Goes
  <2>3. backend' = IF ok THEN [backend EXCEPT !.model = scoringModel] ELSE backend
    BY <2>1 DEF Rollback
  <2> QED BY <1>3, <1>5, <1>6, <2>1, <2>2, <2>3
<1>12. CASE RollbackEnds
  <2>1. CASE Succeeds
    <3>1. backend.model = scoringModel
      BY <1>7, <1>12, <2>1 DEF RollbackEnds, ModelInv, Good
    <3> QED BY <1>4, <1>12, <3>1 DEF RollbackEnds, EndSwitch
  <2>2. CASE ~Succeeds
    BY <1>4, <1>12, <2>2 DEF RollbackEnds, EndSwitch
  <2> QED BY <2>1, <2>2
<1> QED BY <1>8, <1>9, <1>10, <1>11, <1>12 DEF Switch

\* Every step keeps the invariant of the model.
LEMMA ModelNext ==
  ASSUME TypeOK, QueueInv, ModelInv, [Next]_vars
  PROVE  ModelInv'
<1>0. RepliesT /\ \A t \in {"restore", "select", "change", "boot", "toggle"} : t \in Tasks
  BY DEF TypeOK, Tasks
<1>1. CASE ModelSteps
  BY <1>1, ModelSelected, ModelSwitched DEF ModelSteps
<1>2. CASE RestoreSteps
  BY <1>2, ModelRestored
<1>3. ASSUME NEW t \in {"change", "boot", "toggle"}, Calls(t)
      PROVE  /\ GoodIn(replies', "select") <=> GoodIn(replies, "select")
             /\ GoodIn(replies', "restore") <=> GoodIn(replies, "restore")
             /\ BeforeIn(replies', "select", "restore") <=> BeforeIn(replies, "select", "restore")
  BY <1>0, <1>3, CallsLeave
<1>4. CASE UniverseSteps
  <2>1. /\ UNCHANGED <<modelVars, restore, untold>> /\ backend'.model = backend.model
        /\ Calls("change") \/ Calls("boot")
    BY <1>4, UniverseLeaves
  <2> QED BY <1>3, <2>1, ModelSame DEF modelVars
<1>5. CASE RegimeSteps
  <2>1. /\ UNCHANGED <<modelVars, restore, untold>> /\ backend'.model = backend.model
        /\ Calls("toggle")
    BY <1>5, RegimeLeaves
  <2> QED BY <1>3, <2>1, ModelSame DEF modelVars
<1>6. CASE PollSteps
  BY <1>6, PollLeaves, ModelSame DEF modelVars
<1> QED BY <1>1, <1>2, <1>4, <1>5, <1>6, AllSteps

\* The invariant of the regime rests on these only.
LEMMA RegimeSame ==
  ASSUME RegimeInv, backend'.regime = backend.regime,
         UNCHANGED <<toggle, restore, regimeScoring>>,
         "regime" \in untold' <=> "regime" \in untold,
         GoodIn(replies', "toggle") <=> GoodIn(replies, "toggle"),
         GoodIn(replies', "restore") <=> GoodIn(replies, "restore"),
         BeforeIn(replies', "toggle", "restore") <=> BeforeIn(replies, "toggle", "restore"),
         BeforeIn(replies', "restore", "toggle") <=> BeforeIn(replies, "restore", "toggle")
  PROVE  RegimeInv'
BY DEF RegimeInv, Good, Before

\* The restoration: its call is ahead of a toggle that was begun after it.
LEMMA RegimeRestored ==
  ASSUME TypeOK, QueueInv, RegimeInv, RestoreSteps
  PROVE  RegimeInv'
<1>0. /\ RepliesT /\ "restore" \in Tasks /\ "restore" \in Watched /\ OneEach(replies)
      /\ "toggle" \in Tasks
      /\ restore \in [at : {"model", "on", "off", "ready"}, model : Models]
      /\ backend \in [model : Models, universe : Profiles, regime : BOOLEAN, locked : BOOLEAN]
      /\ regimeScoring \in BOOLEAN /\ savedRegime \in BOOLEAN
  BY DEF TypeOK, Tasks, Watched, QueueInv, RestoreT, BackendT, RegimeT
<1>1. UNCHANGED toggle /\ Arrives("restore") /\ Calls("restore")
  BY RestoreLeaves
<1>2. GoodIn(replies', "toggle") <=> GoodIn(replies, "toggle")
  BY <1>0, <1>1, CallsLeave
<1>3. CASE RestoreModel
  <2>1. PICK ok \in BOOLEAN :
          /\ IssueNext("restore", ok)
          /\ backend' = IF ok THEN [backend EXCEPT !.regime = savedRegime] ELSE backend
    BY <1>3 DEF RestoreModel
  <2>2. IsReplaced(replies, "restore", ok, replies')
    BY <1>0, <1>1, <2>1, NextStep
  <2>3. /\ GoodIn(replies', "restore") <=> ok
        /\ BeforeIn(replies', "toggle", "restore") <=> In(replies, "toggle")
    BY <1>0, <2>2 DEF IsReplaced
  <2>4. GoodIn(replies, "toggle") => In(replies, "toggle")
    BY GoodMeansIn
  <2>5. /\ restore.at = "model" /\ restore'.at = IF savedRegime THEN "on" ELSE "off"
    BY <1>0, <1>3 DEF RestoreModel
  <2>6. backend'.regime = IF ok THEN savedRegime ELSE backend.regime
    BY <1>0, <2>1
  <2>7. Good("toggle") => backend.regime = toggle.next
    BY <2>5 DEF RegimeInv
  <2>8. ok => backend'.regime = (restore'.at = "on")
    BY <1>0, <2>5, <2>6
  <2>9. restore'.at \in {"on", "off"} /\ restore'.at # "ready"
    BY <2>5
  <2> QED BY <1>1, <1>2, <2>3, <2>4, <2>6, <2>7, <2>8, <2>9 DEF RegimeInv, Good, Before
<1>4. CASE RestoreRegime
  <2>1. IsTaken(replies, "restore", replies') /\ IsHead(replies, "restore")
    BY <1>0, <1>1, <1>4, TakeStep DEF RestoreRegime
  <2>2. restore.at \in {"on", "off"} /\ restore'.at = "ready" /\ UNCHANGED backend
    BY <1>0, <1>4 DEF RestoreRegime
  <2>3. ~BeforeIn(replies, "toggle", "restore")
    BY <1>0, <2>1 DEF IsHead
  <2>4. Good("toggle") => backend.regime = toggle.next
    BY <2>3 DEF RegimeInv, Before
  <2>5. CASE Succeeds
    <3>1. regimeScoring' = (restore.at = "on")
      BY <1>4, <2>5 DEF RestoreRegime
    <3>2. GoodIn(replies, "restore")
      BY <2>1, <2>5 DEF IsHead, Succeeds
    <3>3. ~Good("toggle") => backend.regime = (restore.at = "on")
      BY <2>2, <3>2 DEF RegimeInv, Good
    <3> QED BY <1>1, <1>2, <2>2, <2>4, <3>1, <3>3 DEF RegimeInv, Good
  <2>6. CASE ~Succeeds
    <3>1. "regime" \in untold'
      BY <1>4, <2>6 DEF RestoreRegime
    <3> QED BY <1>1, <1>2, <2>2, <2>4, <3>1 DEF RegimeInv, Good
  <2> QED BY <2>5, <2>6
<1> QED BY <1>3, <1>4 DEF RestoreSteps

\* A toggle: its call is behind the one of the restoration.
LEMMA RegimeToggled ==
  ASSUME TypeOK, QueueInv, RegimeInv, RegimeSteps
  PROVE  RegimeInv'
<1>0. /\ RepliesT /\ "restore" \in Tasks /\ "toggle" \in Watched /\ OneEach(replies)
      /\ "toggle" \in Tasks
      /\ backend \in [model : Models, universe : Profiles, regime : BOOLEAN, locked : BOOLEAN]
      /\ toggle \in [at : {"idle", "set", "rows"}, next : BOOLEAN, generation : Generations,
                     rows : View \cup {None}]
      /\ regimeScoring \in BOOLEAN
  BY DEF TypeOK, Tasks, Watched, QueueInv, BackendT, RegimeT
<1>1. UNCHANGED <<restore, untold>> /\ Calls("toggle")
  BY RegimeLeaves
<1>2. GoodIn(replies', "restore") <=> GoodIn(replies, "restore")
  BY <1>0, <1>1, CallsLeave
<1>3. /\ In(replies, "toggle") <=> toggle.at = "set"
      /\ \A t : GoodIn(replies, t) => In(replies, t)
  BY SelectPending
<1>4. CASE toggleRegimeScoring
  <2>1. PICK ok \in BOOLEAN :
          /\ Issue("toggle", ok)
          /\ backend' = IF ok THEN [backend EXCEPT !.regime = ~regimeScoring] ELSE backend
    BY <1>4 DEF toggleRegimeScoring
  <2>2. IsAppended(replies, "toggle", ok, replies')
    BY <1>0, <2>1, IssueStep
  <2>3. toggle.at = "idle" /\ toggle'.next = ~regimeScoring /\ UNCHANGED regimeScoring
    BY <1>4 DEF toggleRegimeScoring
  <2>4. ~GoodIn(replies, "toggle") /\ (GoodIn(replies', "toggle") <=> ok)
    BY <1>3, <2>2, <2>3 DEF IsAppended
  <2>5. BeforeIn(replies', "restore", "toggle") <=>
          BeforeIn(replies, "restore", "toggle") \/ In(replies, "restore")
    BY <2>2 DEF IsAppended
  <2>6. backend'.regime = IF ok THEN ~regimeScoring ELSE backend.regime
    BY <1>0, <2>1
  <2> QED BY <1>1, <1>2, <1>3, <2>3, <2>4, <2>5, <2>6 DEF RegimeInv, Good, Before
<1>5. CASE RegimeIsSet
  <2>1. IsTaken(replies, "toggle", replies') /\ IsHead(replies, "toggle")
    BY <1>0, <1>5, TakeStep DEF RegimeIsSet
  <2>2. ~GoodIn(replies', "toggle") /\ ~BeforeIn(replies, "restore", "toggle")
    BY <1>0, <2>1 DEF IsTaken, IsHead
  <2>3. UNCHANGED backend
    BY <1>5 DEF RegimeIsSet
  <2>4. CASE Succeeds
    <3>1. regimeScoring' = toggle.next
      BY <1>5, <2>4 DEF RegimeIsSet
    <3>2. GoodIn(replies, "toggle")
      BY <2>1, <2>4 DEF IsHead, Succeeds
    <3>3. restore.at = "ready" => backend.regime = toggle.next
      BY <3>2 DEF RegimeInv, Good
    <3> QED BY <1>1, <1>2, <2>2, <2>3, <3>1, <3>3 DEF RegimeInv, Good, Before
  <2>5. CASE ~Succeeds
    <3>1. UNCHANGED regimeScoring
      BY <1>5, <2>5 DEF RegimeIsSet
    <3>2. ~GoodIn(replies, "toggle")
      BY <1>0, <2>1, <2>5 DEF IsHead, Succeeds
    <3> QED BY <1>1, <1>2, <2>2, <2>3, <3>1, <3>2 DEF RegimeInv, Good, Before
  <2> QED BY <2>4, <2>5
<1>6. CASE RegimeRowsArrive
  <2>1. toggle.at = "rows" /\ UNCHANGED <<backend, replies, regimeScoring>>
    BY <1>6 DEF RegimeRowsArrive
  <2>2. ~GoodIn(replies, "toggle")
    BY <1>3, <2>1
  <2> QED BY <1>1, <2>1, <2>2 DEF RegimeInv, Good, Before
<1> QED BY <1>4, <1>5, <1>6 DEF RegimeSteps, Regime

\* Every step keeps the invariant of the regime.
LEMMA RegimeNext ==
  ASSUME TypeOK, QueueInv, RegimeInv, [Next]_vars
  PROVE  RegimeInv'
<1>0. RepliesT /\ \A t \in {"restore", "select", "change", "boot", "toggle"} : t \in Tasks
  BY DEF TypeOK, Tasks
<1>1. CASE RestoreSteps
  BY <1>1, RegimeRestored
<1>2. CASE RegimeSteps
  BY <1>2, RegimeToggled
<1>3. ASSUME NEW t \in {"select", "change", "boot"}, Calls(t)
      PROVE  /\ GoodIn(replies', "toggle") <=> GoodIn(replies, "toggle")
             /\ GoodIn(replies', "restore") <=> GoodIn(replies, "restore")
             /\ BeforeIn(replies', "toggle", "restore") <=> BeforeIn(replies, "toggle", "restore")
             /\ BeforeIn(replies', "restore", "toggle") <=> BeforeIn(replies, "restore", "toggle")
  BY <1>0, <1>3, CallsLeave
<1>4. CASE UniverseSteps
  <2>1. /\ UNCHANGED <<regimeVars, restore, untold>> /\ backend'.regime = backend.regime
        /\ Calls("change") \/ Calls("boot")
    BY <1>4, UniverseLeaves
  <2> QED BY <1>3, <2>1, RegimeSame DEF regimeVars
<1>5. CASE ModelSteps
  <2>1. /\ UNCHANGED <<regimeVars, restore>> /\ backend'.regime = backend.regime
        /\ Calls("select") /\ ("regime" \in untold' <=> "regime" \in untold)
    BY <1>5, ModelLeaves
  <2> QED BY <1>3, <2>1, RegimeSame DEF regimeVars
<1>6. CASE PollSteps
  BY <1>6, PollLeaves, RegimeSame DEF regimeVars
<1> QED BY <1>1, <1>2, <1>4, <1>5, <1>6, AllSteps

-----------------------------------------------------------------------------
(* The generation of the universe.                                         *)

\* The invariant of the generation rests on these only.
LEMMA GenerationSame ==
  ASSUME GenerationInv, UNCHANGED <<universeGeneration, universeSwitching, change, boot>>
  PROVE  GenerationInv'
BY DEF GenerationInv, BootActive

\* Every step keeps it: no adoption begins while the boot effect runs, and it overtakes those
\* before.
LEMMA GenerationNext ==
  ASSUME TypeOK, GenerationInv, [Next]_vars
  PROVE  GenerationInv'
<1>0. /\ universeGeneration \in Nat /\ change \in ChangeTypes /\ boot \in BootTypes
      /\ universeSwitching \in BOOLEAN
  BY DEF TypeOK, UniverseT
<1> USE DEF BootActive
<1>1. CASE ModelSteps \/ RestoreSteps \/ RegimeSteps \/ PollSteps
  BY <1>1, ModelLeaves, RestoreLeaves, RegimeLeaves, PollLeaves, GenerationSame DEF universeVars
<1>2. ASSUME NEW p \in Profiles, handleUniverseChange(p) PROVE GenerationInv'
  <2>1. /\ ~universeSwitching /\ universeGeneration' = universeGeneration + 1 /\ UNCHANGED boot
        /\ change' = [at |-> "set", generation |-> universeGeneration', name |-> p]
    BY <1>2 DEF handleUniverseChange, BeginUniverse
  <2>2. ~BootActive
    BY <2>1 DEF GenerationInv
  <2> QED BY <1>0, <2>1, <2>2 DEF GenerationInv
<1>3. CASE UniverseIsSet \/ UniverseIsRestored
  <2>1. UNCHANGED <<boot, universeGeneration>>
    BY <1>3 DEF UniverseIsSet, UniverseIsRestored, EndUniverse
  <2>2. \/ change' = IdleChange
        \/ /\ ChangeIsCurrent
           /\ change' = [change EXCEPT !.at = "restore", !.name = backend.universe]
    BY <1>3 DEF UniverseIsSet, UniverseIsRestored
  <2>3. change'.at = "idle" \/ (ChangeIsCurrent /\ change'.generation = change.generation)
    <3>1. CASE change' = IdleChange
      BY <3>1 DEF IdleChange
    <3>2. CASE /\ ChangeIsCurrent
               /\ change' = [change EXCEPT !.at = "restore", !.name = backend.universe]
      BY <1>0, <3>2 DEF ChangeTypes
    <3> QED BY <2>2, <3>1, <3>2
  <2>4. change.at # "idle"
    BY <1>3 DEF UniverseIsSet, UniverseIsRestored
  <2>5. universeSwitching' = universeSwitching \/ ChangeIsCurrent
    BY <1>3 DEF UniverseIsSet, UniverseIsRestored
  <2>6. ChangeIsCurrent => ~BootActive
    BY <1>0, <2>4 DEF ChangeIsCurrent, GenerationInv, ChangeTypes
  <2> QED BY <1>0, <2>1, <2>3, <2>4, <2>5, <2>6 DEF GenerationInv
<1>4. CASE BootBegins
  <2>1. /\ universeGeneration' = universeGeneration + 1 /\ universeSwitching' = TRUE
        /\ UNCHANGED change /\ boot'.generation = universeGeneration'
    BY <1>4 DEF BootBegins, BeginUniverse
  <2> QED BY <1>0, <2>1 DEF GenerationInv, ChangeTypes
<1>5. CASE BootProfile \/ BootIsSet \/ BootEnds
  <2>1. UNCHANGED <<change, universeGeneration>> /\ BootActive
    BY <1>5 DEF BootProfile, BootIsSet, BootEnds, EndUniverse
  <2>2. \/ boot'.at = "done"
        \/ boot'.generation = boot.generation /\ UNCHANGED universeSwitching
    BY <1>0, <1>5 DEF BootProfile, BootIsSet, BootEnds, StartFeed, BootTypes
  <2> QED BY <2>1, <2>2 DEF GenerationInv
<1> QED BY <1>1, <1>2, <1>3, <1>4, <1>5, AllSteps DEF UniverseSteps, Universe

-----------------------------------------------------------------------------
(* The polls under way.                                                    *)

\* Polls that fitted fit still when the generation grows, or when it, what the back end
\* scores and tracks, and whether a change is under way stay.
LEMMA PollsKept ==
  ASSUME TypeOK, PollInv, polls' \subseteq polls,
         dataGeneration' \in Nat, universeGeneration' \in Nat,
         \/ dataGeneration' > dataGeneration
         \/ /\ dataGeneration' = dataGeneration
            /\ modelSwitching \/ (~modelSwitching' /\ backend'.model = backend.model),
         \/ universeGeneration' > universeGeneration
         \/ /\ universeGeneration' = universeGeneration
            /\ universeSwitching \/ (~universeSwitching' /\ backend'.universe = backend.universe)
  PROVE  PollInv'
<1>0. dataGeneration \in Nat /\ universeGeneration \in Nat
  BY DEF TypeOK, ModelT, UniverseT
<1> SUFFICES ASSUME NEW p \in polls'
             PROVE  PollFits(p, backend', dataGeneration', universeGeneration',
                             modelSwitching', universeSwitching')
  BY DEF PollInv
<1>1. /\ p.generation[1] \in Nat /\ p.generation[2] \in Nat
      /\ PollFits(p, backend, dataGeneration, universeGeneration, modelSwitching, universeSwitching)
  BY DEF PollInv, TypeOK, PollsT, Polls, Generations
<1> QED BY <1>0, <1>1 DEF PollFits

\* The same where refresh ends the step: its poll is of the new generation.
LEMMA PollsRefreshed ==
  ASSUME TypeOK, TypeOK', PollInv, refresh,
         dataGeneration' = dataGeneration, universeGeneration' = universeGeneration,
         modelSwitching \/ (~modelSwitching' /\ backend'.model = backend.model),
         universeSwitching \/ (~universeSwitching' /\ backend'.universe = backend.universe)
  PROVE  PollInv'
<1>0. /\ dataGeneration \in Nat /\ universeGeneration \in Nat /\ failures \in Nat
      /\ dataGeneration' \in Nat /\ universeGeneration' \in Nat
  BY DEF TypeOK, ModelT, UniverseT, ShownT
<1>1. CASE polls' = polls
  BY <1>0, <1>1, PollsKept
<1>2. ASSUME NEW gotRows \in BOOLEAN, NEW gotStatus \in BOOLEAN, canRefresh',
             polls' = polls \cup {[generation |-> generation', rows |-> Asked(backend', gotRows),
                                  status |-> IF gotStatus THEN backend'.universe ELSE None]}
      PROVE  PollInv'
  <2>1. PICK new : new = [generation |-> generation', rows |-> Asked(backend', gotRows),
                          status |-> IF gotStatus THEN backend'.universe ELSE None]
    OBVIOUS
  <2>2. PICK b : b = backend'
    OBVIOUS
  <2>3. b \in [model : Models, universe : Profiles, regime : BOOLEAN, locked : BOOLEAN]
    BY <2>2 DEF TypeOK, BackendT
  <2>4. Asked(b, gotRows) # None => /\ Asked(b, gotRows).model = b.model
                                    /\ Asked(b, gotRows).universe = b.universe
    BY <2>3, RowsOfView
  <2>5. /\ new.generation = <<dataGeneration', universeGeneration'>>
        /\ new.rows = Asked(b, gotRows)
    BY <2>1, <2>2 DEF generation
  <2>6. ~modelSwitching' /\ ~universeSwitching'
    BY <1>2 DEF canRefresh
  <2>7. PollFits(new, backend', dataGeneration', universeGeneration', modelSwitching',
                 universeSwitching')
    BY <1>0, <2>2, <2>4, <2>5, <2>6 DEF PollFits
  <2>8. ASSUME NEW p \in polls
        PROVE  PollFits(p, backend', dataGeneration', universeGeneration', modelSwitching',
                        universeSwitching')
    <3>1. /\ p.generation[1] \in Nat /\ p.generation[2] \in Nat
          /\ PollFits(p, backend, dataGeneration, universeGeneration, modelSwitching,
                      universeSwitching)
      BY DEF PollInv, TypeOK, PollsT, Polls, Generations
    <3> QED BY <1>0, <3>1 DEF PollFits
  <2>9. \A p \in polls' : p = new \/ p \in polls
    BY <1>2, <2>1
  <2> QED BY <2>7, <2>8, <2>9 DEF PollInv
<1> QED BY <1>0, <1>1, <1>2, Refreshed

\* Every step keeps the polls of the present generation of what the back end runs.
LEMMA PollNext ==
  ASSUME TypeOK, TypeOK', ModelInv, GenerationInv, PollInv, [Next]_vars
  PROVE  PollInv'
<1>0. /\ dataGeneration \in Nat /\ universeGeneration \in Nat
      /\ dataGeneration' \in Nat /\ universeGeneration' \in Nat
      /\ modelSwitching \in BOOLEAN /\ universeSwitching \in BOOLEAN
  BY DEF TypeOK, ModelT, UniverseT
<1>1. ASSUME NEW m \in Models, selectScoringModel(m) PROVE PollInv'
  <2>1. /\ UNCHANGED <<universeVars, polls>> /\ backend'.universe = backend.universe
    BY <1>1, ModelLeaves DEF ModelSteps, selectScoringModel
  <2>2. \/ UNCHANGED <<backend, modelSwitching, dataGeneration>>
        \/ dataGeneration' = dataGeneration + 1
    BY <1>1 DEF selectScoringModel
  <2> QED BY <1>0, <2>1, <2>2, PollsKept DEF universeVars
<1>2. CASE Switch
  <2>1. UNCHANGED <<universeGeneration, universeSwitching>> /\ backend'.universe = backend.universe
    BY <1>2, ModelLeaves DEF ModelSteps, universeVars
  <2>2. modelSwitching /\ UNCHANGED dataGeneration
    BY <1>2 DEF Switch, ModelIsSet, ModelRowsArrive, ModelRowsUnwanted, SwitchFails, Rollback,
       RollbackEnds, EndSwitch, ModelInv
  <2>3. UNCHANGED polls \/ refresh
    BY <1>2 DEF Switch, ModelIsSet, Turn, SetModel, ModelRowsArrive, ModelRowsUnwanted,
       SwitchFails, Rollback, RollbackEnds, EndSwitch
  <2>4. CASE UNCHANGED polls
    BY <1>0, <2>1, <2>2, <2>4, PollsKept
  <2>5. CASE refresh
    BY <1>0, <2>1, <2>2, <2>5, PollsRefreshed
  <2> QED BY <2>3, <2>4, <2>5
<1>3. CASE RestoreSteps
  <2>1. /\ UNCHANGED <<modelSwitching, dataGeneration, universeVars, polls>>
        /\ backend'.model = backend.model /\ backend'.universe = backend.universe
    BY <1>3, RestoreLeaves
  <2> QED BY <1>0, <2>1, PollsKept DEF universeVars
<1>4. CASE RegimeSteps
  <2>1. /\ UNCHANGED <<modelVars, universeVars, polls>>
        /\ backend'.model = backend.model /\ backend'.universe = backend.universe
    BY <1>4, RegimeLeaves
  <2> QED BY <1>0, <2>1, PollsKept DEF universeVars, modelVars
<1>5. CASE PollSteps
  <2>1. UNCHANGED <<backend, modelVars, universeGeneration, universeSwitching>>
    BY <1>5, PollLeaves
  <2>2. polls' \subseteq polls \/ refresh
    BY <1>5 DEF PollSteps, Poll, PollArrives, vars
  <2>3. CASE polls' \subseteq polls
    BY <1>0, <2>1, <2>3, PollsKept DEF modelVars
  <2>4. CASE refresh
    BY <1>0, <2>1, <2>4, PollsRefreshed DEF modelVars
  <2> QED BY <2>2, <2>3, <2>4
<1>6. ASSUME NEW p \in Profiles, handleUniverseChange(p) PROVE PollInv'
  <2>1. UNCHANGED <<modelVars, polls>> /\ universeGeneration' = universeGeneration + 1
    BY <1>6 DEF handleUniverseChange, BeginUniverse
  <2>2. backend'.model = backend.model
    BY <1>6, UniverseLeaves DEF UniverseSteps
  <2> QED BY <1>0, <2>1, <2>2, PollsKept DEF modelVars
<1>7. CASE UniverseIsSet \/ UniverseIsRestored \/ BootEnds \/ BootIsSet
  <2>1. UNCHANGED <<backend, modelVars, universeGeneration>>
    BY <1>7 DEF UniverseIsSet, UniverseIsRestored, BootEnds, BootIsSet, EndUniverse, StartFeed
  <2>2. \/ universeSwitching' = FALSE /\ refresh
        \/ UNCHANGED <<universeSwitching, polls>>
    BY <1>7 DEF UniverseIsSet, UniverseIsRestored, BootEnds, BootIsSet, EndUniverse
  <2>3. CASE universeSwitching' = FALSE /\ refresh
    BY <1>0, <2>1, <2>3, PollsRefreshed DEF modelVars
  <2>4. CASE UNCHANGED <<universeSwitching, polls>>
    BY <1>0, <2>1, <2>4, PollsKept DEF modelVars
  <2> QED BY <2>2, <2>3, <2>4
<1>8. CASE BootBegins
  <2>1. UNCHANGED <<backend, modelVars, polls>> /\ universeGeneration' = universeGeneration + 1
    BY <1>8 DEF BootBegins, BeginUniverse
  <2> QED BY <1>0, <2>1, PollsKept DEF modelVars
<1>9. CASE BootProfile
  <2>1. /\ UNCHANGED <<modelVars, polls, universeGeneration, universeSwitching>>
        /\ universeSwitching
    BY <1>9 DEF BootProfile, GenerationInv, BootActive
  <2>2. backend'.model = backend.model
    BY <1>9, UniverseLeaves DEF UniverseSteps, Universe
  <2> QED BY <1>0, <2>1, <2>2, PollsKept DEF modelVars
<1> QED BY <1>1, <1>2, <1>3, <1>4, <1>5, <1>6, <1>7, <1>8, <1>9, AllSteps
           DEF ModelSteps, UniverseSteps, Universe

-----------------------------------------------------------------------------
(* The rows on their way to a switch and to a toggle.                      *)

\* A call of another task does not get ahead of the boot effect's.
LEMMA BeforeKept ==
  ASSUME RepliesT, NEW t \in Tasks, Calls(t), NEW u \in Tasks, u # t, t # "boot", u # "boot",
         BeforeIn(replies, "boot", u)
  PROVE  BeforeIn(replies', "boot", u)
BY CallsLeave DEF Tasks

\* Neither the switch nor the toggle moves, and the universe is adopted in a new generation
\* or where no rows of the present one are under way.
LEMMA RowsKept ==
  ASSUME TypeOK, RowsInv, UNCHANGED <<select, toggle>>,
         universeGeneration' \in Nat,
         \/ universeGeneration' > universeGeneration
         \/ /\ universeGeneration' = universeGeneration
            /\ boot.at = "profile" \/ backend'.universe = backend.universe
            /\ boot'.at = "profile" =>
                 /\ boot.at = "profile"
                 /\ BeforeIn(replies, "boot", "select") => BeforeIn(replies', "boot", "select")
                 /\ BeforeIn(replies, "boot", "toggle") => BeforeIn(replies', "boot", "toggle")
  PROVE  RowsInv'
<1>0. /\ universeGeneration \in Nat /\ select.initial \in Nat /\ select.asked \in Nat
      /\ toggle.generation[2] \in Nat
  BY DEF TypeOK, UniverseT, ModelT, RegimeT, Generations
<1>1. CASE universeGeneration' > universeGeneration
  BY <1>0, <1>1 DEF RowsInv
<1>2. CASE universeGeneration' = universeGeneration
  BY <1>0, <1>2 DEF RowsInv, Before
<1> QED BY <1>1, <1>2

\* The steps that are about the universe outdate the rows on their way, or come before they are
\* asked for.
LEMMA RowsUniverse ==
  ASSUME TypeOK, GenerationInv, RowsInv, UniverseSteps
  PROVE  RowsInv'
<1>0. /\ universeGeneration \in Nat /\ boot \in BootTypes
      /\ RepliesT /\ \A t \in {"restore", "select", "change", "boot", "toggle"} : t \in Tasks
  BY DEF TypeOK, UniverseT, Tasks
<1>1. UNCHANGED <<select, toggle>>
  BY UniverseLeaves DEF modelVars, regimeVars
<1>2. ASSUME NEW p \in Profiles, handleUniverseChange(p) PROVE RowsInv'
  <2>1. universeGeneration' = universeGeneration + 1
    BY <1>2 DEF handleUniverseChange, BeginUniverse
  <2> QED BY <1>0, <1>1, <2>1, RowsKept
<1>3. CASE UniverseIsSet \/ UniverseIsRestored
  <2>1. UNCHANGED <<backend, boot, universeGeneration>> /\ Calls("change")
    BY <1>3 DEF UniverseIsSet, UniverseIsRestored, EndUniverse, Calls
  <2>2. /\ BeforeIn(replies, "boot", "select") => BeforeIn(replies', "boot", "select")
        /\ BeforeIn(replies, "boot", "toggle") => BeforeIn(replies', "boot", "toggle")
    BY <1>0, <2>1, BeforeKept
  <2> QED BY <1>0, <1>1, <2>1, <2>2, RowsKept
<1>4. CASE BootBegins
  <2>1. universeGeneration' = universeGeneration + 1
    BY <1>4 DEF BootBegins, BeginUniverse
  <2> QED BY <1>0, <1>1, <2>1, RowsKept
<1>5. CASE BootProfile
  <2>1. boot.at = "profile" /\ boot'.at # "profile" /\ UNCHANGED universeGeneration
    BY <1>0, <1>5 DEF BootProfile, StartFeed, BootTypes
  <2> QED BY <1>0, <1>1, <2>1, RowsKept
<1>6. CASE BootIsSet \/ BootEnds
  <2>1. boot'.at # "profile" /\ UNCHANGED <<backend, universeGeneration>>
    BY <1>0, <1>6 DEF BootIsSet, BootEnds, StartFeed, EndUniverse, BootTypes
  <2> QED BY <1>0, <1>1, <2>1, RowsKept
<1> QED BY <1>2, <1>3, <1>4, <1>5, <1>6 DEF UniverseSteps, Universe

\* A toggle asks for its rows after the boot effect's call has been answered.
LEMMA RowsToggled ==
  ASSUME TypeOK, QueueInv, RowsInv, RegimeSteps
  PROVE  RowsInv'
<1>0. /\ RepliesT /\ "toggle" \in Tasks /\ "toggle" \in Watched /\ "select" \in Tasks
      /\ OneEach(replies) /\ universeGeneration \in Nat
      /\ backend \in [model : Models, universe : Profiles, regime : BOOLEAN, locked : BOOLEAN]
      /\ toggle \in [at : {"idle", "set", "rows"}, next : BOOLEAN, generation : Generations,
                     rows : View \cup {None}]
  BY DEF TypeOK, Tasks, Watched, QueueInv, BackendT, RegimeT, UniverseT
<1>1. /\ UNCHANGED <<select, boot, universeGeneration>> /\ backend'.universe = backend.universe
      /\ Calls("toggle")
  BY RegimeLeaves DEF modelVars, universeVars
<1>2. BeforeIn(replies, "boot", "select") => BeforeIn(replies', "boot", "select")
  BY <1>0, <1>1, BeforeKept
<1>3. CASE toggleRegimeScoring
  <2>1. PICK ok \in BOOLEAN : Issue("toggle", ok)
    BY <1>3 DEF toggleRegimeScoring
  <2>2. IsAppended(replies, "toggle", ok, replies')
    BY <1>0, <2>1, IssueStep
  <2>3. In(replies, "boot") => BeforeIn(replies', "boot", "toggle")
    BY <2>2 DEF IsAppended
  <2>4. boot.at = "profile" => In(replies, "boot")
    BY SelectPending
  <2>5. toggle'.at = "set" /\ toggle'.generation[2] = universeGeneration
    BY <1>3 DEF toggleRegimeScoring, generation
  <2> QED BY <1>0, <1>1, <1>2, <2>3, <2>4, <2>5 DEF RowsInv, Before
<1>4. CASE RegimeIsSet
  <2>1. IsHead(replies, "toggle")
    BY <1>0, <1>4, HeadFirst DEF RegimeIsSet, RepliesT, Arrives
  <2>2. ~BeforeIn(replies, "boot", "toggle")
    BY <1>0, <2>1 DEF IsHead
  <2>3. toggle.at = "set" /\ UNCHANGED backend
    BY <1>4 DEF RegimeIsSet
  <2>4. CASE Succeeds
    <3>1. PICK ok \in BOOLEAN : toggle' = [toggle EXCEPT !.at = "rows", !.rows = Asked(backend, ok)]
      BY <1>4, <2>4 DEF RegimeIsSet
    <3>2. /\ toggle'.at = "rows" /\ toggle'.generation = toggle.generation
          /\ toggle'.rows = Asked(backend, ok)
      BY <1>0, <3>1
    <3>3. Asked(backend, ok) # None => Asked(backend, ok).universe = backend.universe
      BY <1>0, RowsOfView
    <3> QED BY <1>0, <1>1, <1>2, <2>2, <2>3, <3>2, <3>3 DEF RowsInv, Before
  <2>5. CASE ~Succeeds
    <3>1. toggle' = IdleToggle
      BY <1>4, <2>5 DEF RegimeIsSet
    <3> QED BY <1>0, <1>1, <1>2, <3>1 DEF RowsInv, Before, IdleToggle
  <2> QED BY <2>4, <2>5
<1>5. CASE RegimeRowsArrive
  <2>1. toggle' = IdleToggle
    BY <1>5 DEF RegimeRowsArrive
  <2> QED BY <1>0, <1>1, <1>2, <2>1 DEF RowsInv, Before, IdleToggle
<1> QED BY <1>3, <1>4, <1>5 DEF RegimeSteps, Regime

\* So does a switch.
LEMMA RowsSwitched ==
  ASSUME TypeOK, QueueInv, RowsInv, ModelSteps
  PROVE  RowsInv'
<1>0. /\ RepliesT /\ "toggle" \in Tasks /\ "select" \in Watched /\ "select" \in Tasks
      /\ OneEach(replies) /\ universeGeneration \in Nat
      /\ backend \in [model : Models, universe : Profiles, regime : BOOLEAN, locked : BOOLEAN]
      /\ select \in [at : {"idle", "set", "rows", "rollback"}, target : Models \cup {None},
                 backendModel : Models \cup {None}, initial : Nat, asked : Nat,
                 rows : View \cup {None}]
  BY DEF TypeOK, Tasks, Watched, QueueInv, BackendT, ModelT, UniverseT
<1>1. /\ UNCHANGED <<toggle, boot, universeGeneration>> /\ backend'.universe = backend.universe
      /\ Calls("select")
  BY ModelLeaves DEF universeVars, regimeVars
<1>2. BeforeIn(replies, "boot", "toggle") => BeforeIn(replies', "boot", "toggle")
  BY <1>0, <1>1, BeforeKept
<1>3. boot.at = "profile" => In(replies, "boot")
  BY SelectPending
\* The switch asks, or it has ended.
<1>4. ASSUME select'.at = "set", select'.initial \in Nat, select'.initial <= universeGeneration,
             In(replies, "boot") => BeforeIn(replies', "boot", "select")
      PROVE  RowsInv'
  BY <1>0, <1>1, <1>2, <1>3, <1>4 DEF RowsInv, Before
<1>5. ASSUME select'.at \in {"idle", "rollback"}, select'.initial <= universeGeneration
      PROVE  RowsInv'
  BY <1>0, <1>1, <1>2, <1>5 DEF RowsInv, Before
<1>6. ASSUME UNCHANGED <<select, replies>> PROVE RowsInv'
  BY <1>0, <1>1, <1>6 DEF RowsInv, Before
<1>7. ASSUME NEW ok \in BOOLEAN, IssueNext("select", ok), Arrives("select")
      PROVE  In(replies, "boot") => BeforeIn(replies', "boot", "select")
  BY <1>0, <1>7, NextStep DEF IsReplaced
<1>8. ASSUME NEW ok \in BOOLEAN, Issue("select", ok)
      PROVE  In(replies, "boot") => BeforeIn(replies', "boot", "select")
  BY <1>0, <1>8, IssueStep DEF IsAppended
<1>9. ASSUME NEW m \in Models, selectScoringModel(m) PROVE RowsInv'
  <2>1. CASE modelSwitching \/ m = scoringModel
    BY <1>6, <1>9, <2>1 DEF selectScoringModel
  <2>2. CASE ~(modelSwitching \/ m = scoringModel)
    <3>1. PICK ok \in BOOLEAN : Issue("select", ok)
      BY <1>9, <2>2 DEF selectScoringModel
    <3>2. select'.at = "set" /\ select'.initial = universeGeneration
      BY <1>9, <2>2 DEF selectScoringModel, IdleSelect
    <3> QED BY <1>0, <1>4, <1>8, <3>1, <3>2
  <2> QED BY <2>1, <2>2
<1>10. CASE ModelIsSet
  <2> DEFINE s == [select EXCEPT !.target = requestedModel, !.backendModel = select.target]
  <2>1. Arrives("select") /\ select.at = "set" /\ select.initial <= universeGeneration
    BY <1>10 DEF ModelIsSet, RowsInv
  <2>2. CASE SetModel([s EXCEPT !.at = "set"], requestedModel)
    <3>1. PICK ok \in BOOLEAN : IssueNext("select", ok) /\ select' = [s EXCEPT !.at = "set"]
      BY <2>2 DEF SetModel
    <3>2. select'.at = "set" /\ select'.initial = select.initial
      BY <1>0, <3>1
    <3> QED BY <1>0, <1>4, <1>7, <2>1, <3>1, <3>2
  <2>3. CASE EndSwitch(FALSE)
    BY <1>0, <1>5, <2>3 DEF EndSwitch, IdleSelect
  <2>4. ASSUME NEW ok \in BOOLEAN,
               select' = [s EXCEPT !.at = "rows", !.asked = universeGeneration,
                                   !.rows = Asked(backend, ok)]
        PROVE  RowsInv'
    <3>1. /\ select'.at = "rows" /\ select'.initial = select.initial
          /\ select'.rows = Asked(backend, ok)
      BY <1>0, <2>4
    <3>2. Asked(backend, ok) # None => Asked(backend, ok).universe = backend.universe
      BY <1>0, RowsOfView
    <3>3. IsHead(replies, "select")
      BY <1>0, <2>1, HeadFirst DEF RepliesT, Arrives
    <3>4. ~BeforeIn(replies, "boot", "select")
      BY <1>0, <3>3 DEF IsHead
    <3>5. boot.at = "profile" => select.initial # universeGeneration
      BY <2>1, <3>4 DEF RowsInv, Before
    <3> QED BY <1>0, <1>1, <1>2, <2>1, <3>1, <3>2, <3>5 DEF RowsInv, Before
  <2> HIDE DEF s
  <2> QED BY <1>10, <2>2, <2>3, <2>4 DEF ModelIsSet, Turn, s
<1>11. CASE ModelRowsArrive
  BY <1>0, <1>5, <1>11 DEF ModelRowsArrive, EndSwitch, IdleSelect
<1>12. CASE ModelRowsUnwanted
  <2>1. PICK ok \in BOOLEAN : Issue("select", ok)
    BY <1>12 DEF ModelRowsUnwanted
  <2>2. select'.at = "set" /\ select'.initial = select.initial
    BY <1>0, <1>12 DEF ModelRowsUnwanted
  <2> QED BY <1>0, <1>4, <1>8, <2>1, <2>2 DEF RowsInv
<1>13. CASE SwitchFails
  <2>1. select'.at = "rollback" /\ select'.initial = select.initial
    BY <1>0, <1>13 DEF SwitchFails, Rollback
  <2> QED BY <1>5, <2>1 DEF RowsInv
<1>14. CASE RollbackEnds
  BY <1>0, <1>5, <1>14 DEF RollbackEnds, EndSwitch, IdleSelect
<1> QED BY <1>9, <1>10, <1>11, <1>12, <1>13, <1>14 DEF ModelSteps, Switch

\* Every step keeps the rows on their way of the universe of their generation.
LEMMA RowsNext ==
  ASSUME TypeOK, QueueInv, GenerationInv, RowsInv, [Next]_vars
  PROVE  RowsInv'
<1>0. RepliesT /\ universeGeneration \in Nat
      /\ \A t \in {"restore", "select", "change", "boot", "toggle"} : t \in Tasks
  BY DEF TypeOK, UniverseT, Tasks
<1>1. CASE RestoreSteps
  <2>1. /\ UNCHANGED <<select, universeVars, toggle>> /\ Calls("restore")
        /\ backend'.universe = backend.universe
    BY <1>1, RestoreLeaves
  <2>2. /\ BeforeIn(replies, "boot", "select") => BeforeIn(replies', "boot", "select")
        /\ BeforeIn(replies, "boot", "toggle") => BeforeIn(replies', "boot", "toggle")
    BY <1>0, <2>1, BeforeKept
  <2> QED BY <1>0, <2>1, <2>2, RowsKept DEF universeVars
<1>2. CASE PollSteps
  <2>1. UNCHANGED <<backend, replies, select, toggle, boot, universeGeneration>>
    BY <1>2, PollLeaves DEF modelVars, regimeVars
  <2> QED BY <1>0, <2>1, RowsKept
<1> QED BY <1>1, <1>2, RowsUniverse, RowsToggled, RowsSwitched, AllSteps

-----------------------------------------------------------------------------
(* What follows for every run of the page.                                 *)

\* The choices, the generations and what is on its way go together (App.tsx).
THEOREM Inductive == Spec => []IInv
<1>1. Init => IInv
  <2> SUFFICES ASSUME Init PROVE IInv
    OBVIOUS
  <2>1. TypeOK
    BY InitTyped
  <2>2. PICK s \in Starts, told \in BOOLEAN :
          /\ replies = <<[to |-> "restore", ok |-> told]>>
          /\ backend = [model |-> IF told /\ s.saved # None THEN s.saved ELSE s.model,
                        universe |-> s.universe, regime |-> TRUE, locked |-> s.locked]
          /\ restore = [at |-> "model", model |-> IF s.saved # None THEN s.saved ELSE s.model]
    BY DEF Init
  <2>3. /\ modelSwitching = FALSE /\ select = IdleSelect /\ polls = {}
        /\ universeGeneration = 0 /\ change = IdleChange
        /\ boot = [IdleChange EXCEPT !.at = "none"] /\ toggle = IdleToggle
    BY DEF Init
  <2>4. Len(replies) = 1 /\ replies[1] = [to |-> "restore", ok |-> told]
    BY <2>2
  <2>5. /\ \A t : In(replies, t) <=> t = "restore"
        /\ \A t : GoodIn(replies, t) <=> t = "restore" /\ told
        /\ \A t, u : ~BeforeIn(replies, t, u) /\ OneEach(replies)
    <3>1. \A i \in 1 .. 1 : i = 1
      OBVIOUS
    <3>2. 1 \in 1 .. 1 /\ ~(1 < 1)
      OBVIOUS
    <3>3. replies[1].to = "restore" /\ replies[1].ok = told
      BY <2>4
    <3> QED BY <2>4, <3>1, <3>2, <3>3, Zenon DEF In, GoodIn, BeforeIn, OneEach
  <2>6. select.at = "idle" /\ boot.at = "none" /\ toggle.at = "idle" /\ restore.at = "model"
        /\ change.at = "idle" /\ select.initial = 0 /\ toggle.generation = <<0, 0>>
    BY <2>2, <2>3 DEF IdleSelect, IdleChange, IdleToggle
  <2>7. QueueInv
    <3>1. \A t \in Watched : Expected(t) <=> t = "restore"
      BY <2>6 DEF Expected, Watched, Tasks
    <3> QED BY <2>5, <3>1 DEF QueueInv, Pending
  <2>8. ModelInv
    <3>1. told => backend.model = restore.model
      BY <2>2
    <3> QED BY <2>3, <2>5, <2>6, <3>1 DEF ModelInv, Good, Before
  <2>9. RegimeInv
    BY <2>5, <2>6 DEF RegimeInv, Good, Before
  <2>10. GenerationInv /\ PollInv
    BY <2>3, <2>6 DEF GenerationInv, BootActive, PollInv
  <2>11. RowsInv
    BY <2>3, <2>6 DEF RowsInv
  <2> QED BY <2>1, <2>7, <2>8, <2>9, <2>10, <2>11 DEF IInv
<1>2. IInv /\ [Next]_vars => IInv'
  BY NextTyped, QueueNext, ModelNext, RegimeNext, GenerationNext, PollNext, RowsNext DEF IInv
<1>3. Spec => Init /\ [][Next]_vars
  BY DEF Spec
<1> QED BY <1>1, <1>2, <1>3, PTL

\* Outside a switch and a toggle the back end scores with what the page shows
\* (selectScoringModel, toggleRegimeScoring and the effect that restores the model).
THEOREM ChoicesTold == Spec => []ChoicesAreTold
<1>1. IInv => ChoicesAreTold
  <2> SUFFICES ASSUME IInv PROVE ChoicesAreTold
    OBVIOUS
  <2>1. toggle.at # "set" => ~Good("toggle")
    BY SelectPending DEF IInv, Good
  <2> QED BY <2>1 DEF IInv, ModelInv, RegimeInv, ChoicesAreTold
<1> QED BY <1>1, Inductive, PTL

\* What the page shows changes with a poll of the present generation, at the end of a switch
\* or with the rows of a toggle, or it is emptied.
LEMMA Publications ==
  ASSUME [Next]_vars, rows' # rows, rows' # None
  PROVE  \/ PollArrives /\ \E p \in polls : /\ IsCurrentPoll(p) /\ p.rows # None
                                           /\ rows' = By("poll", p.rows)
         \/ /\ ModelRowsArrive /\ canPublishModelRows /\ rows' = By("select", select.rows)
         \/ /\ RegimeRowsArrive /\ toggle.rows # None /\ toggle.generation = generation
            /\ canRefresh /\ rows' = By("toggle", toggle.rows)
<1>1. CASE PollArrives
  BY <1>1 DEF PollArrives, publish
<1>2. CASE ModelRowsArrive
  BY <1>2 DEF ModelRowsArrive
<1>3. CASE RegimeRowsArrive
  BY <1>3 DEF RegimeRowsArrive
<1>4. ASSUME NEW p \in Profiles, handleUniverseChange(p) PROVE FALSE
  BY <1>4 DEF handleUniverseChange
<1>5. CASE \/ RestoreSteps \/ RegimeIsSet \/ toggleRegimeScoring
           \/ \E m \in Models : selectScoringModel(m)
  BY <1>5 DEF RestoreSteps, RestoreModel, RestoreRegime, selectScoringModel, RegimeIsSet,
     toggleRegimeScoring
<1>6. CASE ModelIsSet \/ ModelRowsUnwanted \/ SwitchFails \/ RollbackEnds
  BY <1>6 DEF ModelIsSet, Turn, SetModel, ModelRowsUnwanted, SwitchFails, Rollback, RollbackEnds
<1>7. CASE Universe
  BY <1>7 DEF Universe, UniverseIsSet, UniverseIsRestored, BootBegins, BootProfile, BootIsSet,
     BootEnds
<1>8. CASE Poll \/ UNCHANGED vars
  BY <1>8 DEF Poll, vars
<1> QED BY <1>1, <1>2, <1>3, <1>4, <1>5, <1>6, <1>7, <1>8
           DEF Next, Switch, Regime, Click, RestoreSteps

\* Rows of an older universe are never published, and none during an adoption
\* (createGenerationRefresh, selectScoringModel, toggleRegimeScoring).
THEOREM OldUniverseCleared == Spec => OldUniverseStaysCleared
<1>1. ASSUME IInv, [Next]_vars, rows' # rows, rows' # None
      PROVE  ~universeSwitching' /\ rows'.of.universe = backend'.universe
  <2> USE DEF IInv
  <2>1. CASE PollArrives /\ \E p \in polls : /\ IsCurrentPoll(p) /\ p.rows # None
                                            /\ rows' = By("poll", p.rows)
    <3>1. PICK p \in polls : IsCurrentPoll(p) /\ p.rows # None /\ rows' = By("poll", p.rows)
      BY <2>1
    <3>2. ~universeSwitching /\ p.generation = <<dataGeneration, universeGeneration>>
      BY <3>1 DEF IsCurrentPoll, canRefresh, generation
    <3>3. p.rows.universe = backend.universe
      BY <1>1, <3>1, <3>2 DEF PollInv, PollFits
    <3>4. UNCHANGED <<backend, universeSwitching>> /\ rows'.of = p.rows
      BY <2>1, <3>1 DEF PollArrives, By
    <3> QED BY <3>2, <3>3, <3>4
  <2>2. CASE ModelRowsArrive /\ canPublishModelRows /\ rows' = By("select", select.rows)
    <3>1. ~universeSwitching /\ select.rows.universe = backend.universe
      BY <1>1, <2>2 DEF ModelRowsArrive, canPublishModelRows, RowsInv
    <3>2. UNCHANGED <<backend, universeSwitching>> /\ rows'.of = select.rows
      BY <2>2 DEF ModelRowsArrive, EndSwitch, By
    <3> QED BY <3>1, <3>2
  <2>3. CASE /\ RegimeRowsArrive /\ toggle.rows # None /\ toggle.generation = generation
             /\ canRefresh /\ rows' = By("toggle", toggle.rows)
    <3>1. ~universeSwitching /\ toggle.generation[2] = universeGeneration /\ toggle.at = "rows"
      BY <2>3 DEF RegimeRowsArrive, canRefresh, generation
    <3>2. toggle.rows.universe = backend.universe
      BY <1>1, <2>3, <3>1 DEF RowsInv
    <3>3. UNCHANGED <<backend, universeSwitching>> /\ rows'.of = toggle.rows
      BY <2>3 DEF RegimeRowsArrive, universeVars, By
    <3> QED BY <3>1, <3>2, <3>3
  <2> QED BY <1>1, <2>1, <2>2, <2>3, Publications
<1>2. IInv /\ [Next]_vars =>
        [rows' # rows /\ rows' # None =>
           ~universeSwitching' /\ rows'.of.universe = backend'.universe]_vars
  BY <1>1
<1>3. Spec => [][Next]_vars
  BY DEF Spec
<1> QED BY <1>2, <1>3, Inductive, PTL DEF OldUniverseStaysCleared

\* What a poll or a switch publishes was computed with the model that the page then shows.
THEOREM RowsFit == Spec => PublishedRowsFit
<1>1. ASSUME IInv, [Next]_vars, rows' # rows, rows' # None, rows'.publisher # "toggle",
             restore.at # "model", "model" \notin untold
      PROVE  rows'.of.model = scoringModel'
  <2> USE DEF IInv
  <2>1. CASE PollArrives /\ \E p \in polls : /\ IsCurrentPoll(p) /\ p.rows # None
                                            /\ rows' = By("poll", p.rows)
    <3>1. PICK p \in polls : IsCurrentPoll(p) /\ p.rows # None /\ rows' = By("poll", p.rows)
      BY <2>1
    <3>2. ~modelSwitching /\ p.generation = <<dataGeneration, universeGeneration>>
      BY <3>1 DEF IsCurrentPoll, canRefresh, generation
    <3>3. p.rows.model = backend.model /\ backend.model = scoringModel
      BY <1>1, <3>1, <3>2 DEF PollInv, PollFits, ModelInv
    <3>4. UNCHANGED scoringModel /\ rows'.of = p.rows
      BY <2>1, <3>1 DEF PollArrives, modelVars, By
    <3> QED BY <3>3, <3>4
  <2>2. CASE ModelRowsArrive /\ rows' = By("select", select.rows)
    <3>1. select.rows.model = select.target /\ scoringModel' = select.target
      BY <1>1, <2>2 DEF ModelRowsArrive, ModelInv
    <3> QED BY <2>2, <3>1 DEF By
  <2>3. CASE rows' = By("toggle", toggle.rows)
    BY <1>1, <2>3 DEF By
  <2> QED BY <1>1, <2>1, <2>2, <2>3, Publications
<1>2. IInv /\ [Next]_vars =>
        [(/\ rows' # rows /\ rows' # None /\ rows'.publisher # "toggle"
          /\ restore.at # "model" /\ "model" \notin untold)
         => rows'.of.model = scoringModel']_vars
  BY <1>1
<1>3. Spec => [][Next]_vars
  BY DEF Spec
<1> QED BY <1>2, <1>3, Inductive, PTL DEF PublishedRowsFit
=============================================================================
