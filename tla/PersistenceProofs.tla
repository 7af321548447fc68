-------------------------- MODULE PersistenceProofs --------------------------
(***************************************************************************)
(* What the write path keeps true for every set of symbols, every batch    *)
(* and every number of restarts, time-outs and failures: what counts as    *)
(* persisted is stored, a clean stop loses nothing, and every step is one  *)
(* of WarmStart.                                                           *)
(***************************************************************************)
EXTENDS Persistence, SequenceTheorems, WellFoundedInduction, TLAPS

-----------------------------------------------------------------------------
(* The inductive invariant.                                                *)

\* Somebody waits for the answer to the command.
Waits(cmd) == cmd.op \in {"PersistBatch", "Flush"} /\ cmd.waiting

\* The symbol has an event the main loop does not count as persisted.
Unsaved(s) == \E e \in journal : e.symbol = s /\ e.sequence > last_persisted

\* No number runs ahead of the session's.
Numbered ==
  /\ last_persisted <= sequence
  /\ \A e \in journal : e.sequence <= sequence
  /\ phase = "awaiting_batch" /\ awaited # NoBatch =>
       awaited <= sequence /\ \A e \in journal : e.sequence <= awaited

\* Only the last command can be waited for, and when it is answered, or the
\* worker has ended, the queue is empty: an answer belongs to the current wait, never to one that
\* was given up.
OneWait ==
  /\ \A i \in 1 .. Len(commands) :
       Waits(commands[i]) => /\ i = Len(commands)
                             /\ phase \in {"awaiting_batch", "awaiting_flush"}
  /\ ack # "None" => commands = <<>> /\ phase \in {"awaiting_batch", "awaiting_flush"}
  /\ worker = "gone" => commands = <<>>

\* The command saves everything that is not yet persisted.
Saves(cmd) ==
  /\ cmd.op = "PersistBatch"
  /\ \A e \in journal : e.sequence > last_persisted => e.id \in cmd.captures
  /\ \A s \in Symbols : live[s].snapshot # 0 /\ Unsaved(s) => cmd.revisions[s] = live[s]

\* What a good answer to the current wait will mean.
AwaitedSaves ==
  phase = "awaiting_batch" /\ awaited # NoBatch =>
    /\ \A i \in 1 .. Len(commands) : Waits(commands[i]) => Saves(commands[i])
    /\ ack = "Ok" =>
         /\ \A e \in journal : raw_capture[e.id] > 0
         /\ \A s \in Symbols : live[s].snapshot # 0 => symbol_latest[s] = live[s]

\* A queued row that is not the one shown belongs to a symbol with unsaved
\* events: a later batch is going to replace it.
StaleRowsAreUnsaved ==
  \A i \in 1 .. Len(commands) : commands[i].op = "PersistBatch" =>
    \A s \in Symbols : commands[i].revisions[s] \in {NoRow, live[s]} \/ Unsaved(s)

IInv == /\ Numbered
        /\ OneWait
        /\ AwaitedSaves
        /\ StaleRowsAreUnsaved
        /\ AckedIsCaptured
        /\ CaughtUpIsStored

-----------------------------------------------------------------------------
(* What the operators return.                                              *)

\* A set of indices that is not empty has a largest one.
LEMMA LargestIndex ==
  ASSUME NEW n \in Nat, NEW S \in SUBSET (1 .. n), S # {}
  PROVE  \E i \in S : \A j \in S : j <= i
<1> DEFINE T == {n - i : i \in S}
<1>1. T \subseteq Nat /\ T # {}
  <2>1. \A i \in S : i \in 1 .. n
    OBVIOUS
  <2>2. \A i \in S : n - i \in Nat
    BY <2>1
  <2>3. PICK i \in S : TRUE
    OBVIOUS
  <2>4. n - i \in T
    BY <2>3
  <2> QED
    BY <2>2, <2>4
<1> DEFINE R == {p \in Nat \X Nat : p[1] < p[2]}
<1>2. IsWellFoundedOn(R, Nat)
  BY NatLessThanWellFounded DEF OpToRel
<1> HIDE DEF T
<1>3. PICK x \in T : \A y \in T : ~(<<y, x>> \in R)
  BY <1>1, <1>2, WFMin
<1>6. \A y \in T : ~(y < x)
  BY <1>1, <1>3
<1> USE DEF T
<1>4. PICK i \in S : x = n - i
  OBVIOUS
<1>5. \A j \in S : j <= i
  BY <1>6, <1>4
<1> QED
  BY <1>5

\* The newest event of a kind is numbered within the batch.
LEMMA NewestType ==
  ASSUME NEW batch \in Seq(FeedEvent), NEW s, NEW kinds, NEW base \in Nat, NEW old
  PROVE  LET new == Newest(batch, s, kinds, base, old)
         IN  \/ /\ new = old
                /\ ~\E i \in DOMAIN batch : batch[i].symbol = s /\ batch[i].kind \in kinds
             \/ new \in base + 1 .. base + Len(batch)
<1> DEFINE mine == {i \in DOMAIN batch : batch[i].symbol = s /\ batch[i].kind \in kinds}
<1>1. CASE mine = {}
  BY <1>1 DEF Newest
<1>2. CASE mine # {}
  <2>1. Len(batch) \in Nat /\ DOMAIN batch = 1 .. Len(batch)
    BY LenProperties
  <2>2. mine \in SUBSET (1 .. Len(batch))
    BY <2>1
  <2>3. \E i \in mine : \A j \in mine : j <= i
    BY <1>2, <2>1, <2>2, LargestIndex
  <2>4. (CHOOSE i \in mine : \A j \in mine : j <= i) \in 1 .. Len(batch)
    BY <2>2, <2>3
  <2> QED
    BY <1>2, <2>1, <2>4 DEF Newest
<1> QED
  BY <1>1, <1>2

\* The fields a command has, by its kind.
LEMMA CommandFields ==
  ASSUME NEW cmd \in Command
  PROVE  /\ cmd.op = "PersistBatch" => /\ cmd.captures \in SUBSET Ids
                                       /\ cmd.revisions \in [Symbols -> Row]
         /\ cmd.op = "ReplaceWatchlist" => cmd.symbols \in SUBSET Symbols
         /\ cmd.op = "ReplaceIssues" => cmd.issue \in {"None", "Active", "Resolved"}
         /\ cmd.op = "MarkCleanShutdown" => cmd.timestamp \in 0 .. MAX_EVENTS
         /\ cmd.op \in {"PersistBatch", "Flush"} =>
              /\ cmd.waiting \in BOOLEAN
              /\ [cmd EXCEPT !.waiting = FALSE] \in Command
  BY DEF Command

\* Giving up the wait changes nothing else in the queue.
LEMMA AbandonedType ==
  ASSUME NEW cmds \in Seq(Command)
  PROVE  /\ Abandoned(cmds) \in Seq(Command)
         /\ Len(Abandoned(cmds)) = Len(cmds)
         /\ \A i \in 1 .. Len(cmds) :
              /\ ~Waits(Abandoned(cmds)[i])
              /\ Abandoned(cmds)[i].op = cmds[i].op
              /\ cmds[i].op = "PersistBatch" =>
                   Abandoned(cmds)[i].revisions = cmds[i].revisions
<1>1. Len(cmds) \in Nat /\ DOMAIN cmds = 1 .. Len(cmds)
  BY LenProperties
<1>2. ASSUME NEW i \in 1 .. Len(cmds)
      PROVE  /\ Abandoned(cmds)[i] \in Command
             /\ ~Waits(Abandoned(cmds)[i])
             /\ Abandoned(cmds)[i].op = cmds[i].op
             /\ cmds[i].op = "PersistBatch" =>
                  Abandoned(cmds)[i].revisions = cmds[i].revisions
  <2>1. cmds[i] \in Command
    BY ElementOfSeq
  <2>2. CASE cmds[i].op \in {"PersistBatch", "Flush"}
    <3>1. Abandoned(cmds)[i] = [cmds[i] EXCEPT !.waiting = FALSE]
      BY <1>1, <2>2 DEF Abandoned
    <3>2. /\ [cmds[i] EXCEPT !.waiting = FALSE].waiting = FALSE
          /\ [cmds[i] EXCEPT !.waiting = FALSE].op = cmds[i].op
          /\ cmds[i].op = "PersistBatch" =>
               [cmds[i] EXCEPT !.waiting = FALSE].revisions = cmds[i].revisions
      BY <2>1, <2>2 DEF Command
    <3> QED
      BY <2>1, <2>2, <3>1, <3>2, CommandFields DEF Waits
  <2>3. CASE cmds[i].op \notin {"PersistBatch", "Flush"}
    BY <1>1, <2>1, <2>3 DEF Abandoned, Waits
  <2> QED
    BY <2>2, <2>3
<1>3. Abandoned(cmds) = [i \in 1 .. Len(cmds) |-> Abandoned(cmds)[i]]
  BY <1>1 DEF Abandoned
<1>4. Abandoned(cmds) \in Seq(Command)
  BY <1>1, <1>2, <1>3, IsASeq
<1>5. Len(Abandoned(cmds)) = Len(cmds)
  <2>1. DOMAIN Abandoned(cmds) = 1 .. Len(cmds)
    BY <1>1 DEF Abandoned
  <2>2. DOMAIN Abandoned(cmds) = 1 .. Len(Abandoned(cmds)) /\ Len(Abandoned(cmds)) \in Nat
    BY <1>4, LenProperties
  <2> QED
    BY <1>1, <2>1, <2>2
<1> QED
  BY <1>2, <1>4, <1>5

\* The commands the main loop sends.
LEMMA SentCommands ==
  ASSUME TypeOK
  PROVE  /\ \A w \in SUBSET Symbols : ReplaceWatchlist(w) \in Command
         /\ \A i \in {"None", "Active", "Resolved"} : ReplaceIssues(i) \in Command
         /\ [op |-> "MarkCleanShutdown", timestamp |-> clock] \in Command
         /\ [op |-> "Flush", waiting |-> TRUE] \in Command
         /\ [op |-> "Shutdown"] \in Command
         /\ raise \in {"None", "Active", "Resolved"}
         /\ resolve \in {"None", "Active", "Resolved"}
  BY DEF TypeOK, Command, ReplaceWatchlist, ReplaceIssues, raise, resolve

\* Sending keeps the type of the queue.
LEMMA QueueType ==
  ASSUME TypeOK, NEW cmds \in Seq(Command)
  PROVE  Queue(cmds) \in Seq(Command)
  BY ConcatProperties DEF TypeOK, Queue

\* Rows and captures of a batch.
LEMMA BatchType ==
  ASSUME NEW rows \in [Symbols -> Row], NEW captures \in SUBSET Ids, NEW touched
  PROVE  /\ build_symbol_revisions(rows, touched) \in [Symbols -> Row]
         /\ PersistBatch(captures, build_symbol_revisions(rows, touched)) \in Command
<1>1. NoRow \in Row
  BY BoundAssumption DEF NoRow, Row
<1>2. build_symbol_revisions(rows, touched) \in [Symbols -> Row]
  BY <1>1 DEF build_symbol_revisions
<1> QED
  BY <1>2 DEF PersistBatch, Command

\* The state of the screen after a batch.
LEMMA FeedType ==
  ASSUME TypeOK, NEW batch \in Batches, clock + Len(batch) <= MAX_EVENTS,
         apply_feed_events(batch)
  PROVE  /\ clock' \in 0 .. MAX_EVENTS /\ sequence' \in Nat
         /\ live' \in [Symbols -> Row]
         /\ journal' \in SUBSET [sequence : Nat, symbol : Symbols, id : Ids]
<1>1. batch \in Seq(FeedEvent) /\ clock \in Nat /\ sequence \in Nat
  BY BatchAssumption, BoundAssumption DEF TypeOK
<1>2. Len(batch) \in Nat /\ DOMAIN batch = 1 .. Len(batch)
  BY <1>1, LenProperties
<1>3. clock' \in 0 .. MAX_EVENTS /\ sequence' \in Nat
  BY <1>1, <1>2, BoundAssumption DEF apply_feed_events
<1>4. ASSUME NEW s \in Symbols
      PROVE  /\ Newest(batch, s, {"Snapshot"}, clock, live[s].snapshot) \in 0 .. MAX_EVENTS
             /\ Newest(batch, s, {"Other"}, clock, live[s].other) \in 0 .. MAX_EVENTS
             /\ Newest(batch, s, {"Snapshot", "Other"}, sequence, live[s].last_sequence) \in Nat
  <2>1. live[s].snapshot \in 0 .. MAX_EVENTS /\ live[s].other \in 0 .. MAX_EVENTS
        /\ live[s].last_sequence \in Nat
    BY DEF TypeOK, Row
  <2>2. \A i \in clock + 1 .. clock + Len(batch) : i \in 0 .. MAX_EVENTS
    BY <1>1, <1>2, BoundAssumption
  <2>3. \A i \in sequence + 1 .. sequence + Len(batch) : i \in Nat
    BY <1>1, <1>2
  <2>4. Newest(batch, s, {"Snapshot"}, clock, live[s].snapshot) \in 0 .. MAX_EVENTS
    BY <1>1, <2>1, <2>2, NewestType
  <2>5. Newest(batch, s, {"Other"}, clock, live[s].other) \in 0 .. MAX_EVENTS
    BY <1>1, <2>1, <2>2, NewestType
  <2>6. Newest(batch, s, {"Snapshot", "Other"}, sequence, live[s].last_sequence) \in Nat
    BY <1>1, <2>1, <2>3, NewestType
  <2> QED
    BY <2>4, <2>5, <2>6
<1>5. live' \in [Symbols -> Row]
  BY <1>4 DEF apply_feed_events, Row
<1>6. ASSUME NEW i \in DOMAIN batch
      PROVE  [sequence |-> sequence + i, symbol |-> batch[i].symbol, id |-> clock + i]
               \in [sequence : Nat, symbol : Symbols, id : Ids]
  <2>1. batch[i] \in FeedEvent
    BY <1>1, <1>2, ElementOfSeq
  <2>2. sequence + i \in Nat /\ clock + i \in Ids
    BY <1>1, <1>2, BoundAssumption DEF Ids
  <2> QED
    BY <2>1, <2>2 DEF FeedEvent
<1>7. journal' \in SUBSET [sequence : Nat, symbol : Symbols, id : Ids]
  BY <1>6 DEF apply_feed_events, TypeOK
<1> QED
  BY <1>3, <1>5, <1>7

\* Sending a batch keeps the types of what it touches.
LEMMA SendBatchType ==
  ASSUME TypeOK, NEW batch \in Command, NEW upto \in Nat, SendBatch(batch, upto)
  PROVE  /\ phase' \in {phase, "awaiting_batch"} /\ awaited' \in Nat
         /\ issue' \in {"None", "Active", "Resolved"} /\ commands' \in Seq(Command)
<1>1. CASE worker = "gone"
  BY <1>1, SentCommands DEF SendBatch, TypeOK
<1>2. CASE worker # "gone"
  <2>1. commands' = Append(commands, batch) /\ phase' = "awaiting_batch"
        /\ awaited' = upto /\ issue' = issue
    BY <1>2 DEF SendBatch
  <2>2. commands \in Seq(Command)
    BY DEF TypeOK
  <2> QED
    BY <2>1, <2>2, AppendProperties DEF TypeOK
<1> QED
  BY <1>1, <1>2

-----------------------------------------------------------------------------
(* Type correctness.                                                       *)

\* A step of the main thread keeps the types.
LEMMA MainStepType ==
  ASSUME TypeOK,
         \/ \E batch \in Batches : FeedBatch(batch)
         \/ \E s \in Symbols : ChartData(s) \/ toggle_watchlist(s)
         \/ BatchAcked \/ BatchTimedOut \/ apply_persistence_status
         \/ Quit \/ FlushDone \/ Joined \/ Crash
  PROVE  TypeOK'
<1>1. ASSUME NEW batch \in Batches, FeedBatch(batch)
      PROVE  TypeOK'
  <2>1. /\ clock' \in 0 .. MAX_EVENTS /\ sequence' \in Nat
        /\ live' \in [Symbols -> Row]
        /\ journal' \in SUBSET [sequence : Nat, symbol : Symbols, id : Ids]
    BY <1>1, FeedType DEF FeedBatch
  <2> DEFINE delta == {e \in journal' : e.sequence > last_persisted}
             captures == {e.id : e \in delta}
             touched == {e.symbol : e \in delta}
             cmd == PersistBatch(captures, build_symbol_revisions(live', touched))
  <2>2. reconcile_sqlite_persistence
    BY <1>1 DEF FeedBatch
  <2>3. /\ phase' \in {phase, "awaiting_batch"} /\ awaited' \in Nat
        /\ issue' \in {"None", "Active", "Resolved"} /\ commands' \in Seq(Command)
    <3>1. CASE delta = {}
      <4>1. /\ issue' = resolve /\ commands' = Queue(<<ReplaceIssues(issue')>>)
            /\ UNCHANGED <<phase, awaited>>
        BY <2>2, <3>1 DEF reconcile_sqlite_persistence
      <4>2. <<ReplaceIssues(issue')>> \in Seq(Command)
        BY <4>1, SentCommands
      <4> QED
        BY <4>1, <4>2, QueueType, SentCommands DEF TypeOK
    <3>2. CASE delta # {}
      <4>1. captures \in SUBSET Ids
        BY <2>1
      <4>2. cmd \in Command
        BY <2>1, <4>1, BatchType
      <4>3. PICK upto \in {e.sequence : e \in delta} : SendBatch(cmd, upto)
        BY <2>2, <3>2 DEF reconcile_sqlite_persistence
      <4>4. upto \in Nat
        BY <2>1, <4>3
      <4> HIDE DEF cmd
      <4> QED
        BY <4>2, <4>3, <4>4, SendBatchType
    <3> QED
      BY <3>1, <3>2
  <2> QED
    BY <1>1, <2>1, <2>3 DEF FeedBatch, TypeOK, diskVars
<1>2. ASSUME NEW s \in Symbols, ChartData(s)
      PROVE  TypeOK'
  <2> DEFINE cmd == PersistBatch({}, build_symbol_revisions(live, {s}))
  <2>1. cmd \in Command
    BY BatchType DEF TypeOK
  <2>2. SendBatch(cmd, NoBatch)
    BY <1>2 DEF ChartData
  <2> HIDE DEF cmd
  <2>3. /\ phase' \in {phase, "awaiting_batch"} /\ awaited' \in Nat
        /\ issue' \in {"None", "Active", "Resolved"} /\ commands' \in Seq(Command)
    BY <2>1, <2>2, SendBatchType DEF NoBatch
  <2> QED
    BY <1>2, <2>3 DEF ChartData, TypeOK, diskVars
<1>3. ASSUME NEW s \in Symbols, toggle_watchlist(s)
      PROVE  TypeOK'
  <2>1. watchlist' \in SUBSET Symbols
    BY <1>3 DEF toggle_watchlist, TypeOK
  <2>2. <<ReplaceWatchlist(watchlist')>> \in Seq(Command)
    BY <2>1, SentCommands
  <2>3. commands' \in Seq(Command)
    BY <1>3, <2>2, QueueType DEF toggle_watchlist
  <2> QED
    BY <1>3, <2>1, <2>3 DEF toggle_watchlist, TypeOK, diskVars
<1>4. CASE BatchAcked
  <2>1. issue' \in {"None", "Active", "Resolved"}
    BY <1>4, SentCommands DEF BatchAcked
  <2>2. <<ReplaceIssues(issue')>> \in Seq(Command)
    BY <2>1, SentCommands
  <2>3. commands' \in Seq(Command)
    BY <1>4, <2>2, QueueType DEF BatchAcked
  <2> QED
    BY <1>4, <2>1, <2>3 DEF BatchAcked, TypeOK, diskVars, countVars, NoBatch
<1>5. CASE BatchTimedOut
  <2>1. issue' \in {"None", "Active", "Resolved"}
    BY <1>5, SentCommands DEF BatchTimedOut
  <2>2. <<ReplaceIssues(issue')>> \in Seq(Command)
    BY <2>1, SentCommands
  <2>3. commands' \in Seq(Command)
    BY <1>5, <2>2, AbandonedType, ConcatProperties DEF BatchTimedOut, TypeOK
  <2>4. timeouts' \in Nat
    BY <1>5 DEF BatchTimedOut, TypeOK
  <2> QED
    BY <1>5, <2>1, <2>3, <2>4 DEF BatchTimedOut, TypeOK, diskVars, NoBatch
<1>6. ASSUME BeginShutdown
      PROVE  commands' \in Seq(Command) /\ phase' = "awaiting_flush"
  <2>1. <<[op |-> "MarkCleanShutdown", timestamp |-> clock],
          [op |-> "Flush", waiting |-> TRUE]>> \in Seq(Command)
    BY SentCommands
  <2> QED
    BY <1>6, <2>1, QueueType DEF BeginShutdown
<1>7. CASE apply_persistence_status
  <2>1. events' \in Seq({"Ok", "Err", "Fatal"})
    BY <1>7, HeadTailProperties DEF apply_persistence_status, TypeOK
  <2>2. /\ issue' \in {"None", "Active", "Resolved"}
        /\ commands' \in Seq(Command) /\ phase' \in {"running", "awaiting_flush"}
    BY <1>6, <1>7, SentCommands DEF apply_persistence_status, TypeOK
  <2> QED
    BY <1>7, <2>1, <2>2 DEF apply_persistence_status, TypeOK, diskVars, countVars
<1>8. CASE Quit
  <2>1. commands' \in Seq(Command) /\ phase' = "awaiting_flush"
    BY <1>6, <1>8 DEF Quit
  <2> QED
    BY <1>8, <2>1 DEF Quit, TypeOK, diskVars, countVars
<1>9. CASE FlushDone
  <2>1. Farewell \in Seq(Command)
    BY SentCommands DEF Farewell
  <2>2. commands' \in Seq(Command)
    BY <1>9, <2>1, AbandonedType, ConcatProperties DEF FlushDone, TypeOK
  <2>3. timeouts' \in Nat
    BY <1>9 DEF FlushDone, TypeOK
  <2> QED
    BY <1>9, <2>2, <2>3 DEF FlushDone, TypeOK, diskVars
<1>10. CASE Joined
  BY <1>10 DEF Joined, TypeOK, linkVars, diskVars, countVars
<1>11. CASE Crash
  BY <1>11, EmptySeq DEF Crash, TypeOK, diskVars, countVars, NoBatch
<1> QED
  BY <1>1, <1>2, <1>3, <1>4, <1>5, <1>7, <1>8, <1>9, <1>10, <1>11

\* A step of the worker keeps the types.
LEMMA WorkerStepType ==
  ASSUME TypeOK, worker_opens \/ worker_fails \/ worker_loop \/ write_fails
  PROVE  TypeOK'
<1>1. CASE worker_opens
  BY <1>1 DEF worker_opens, TypeOK, mainVars, diskVars, countVars
<1>2. CASE worker_fails
  <2>1. events' \in Seq({"Ok", "Err", "Fatal"})
    BY <1>2, AppendProperties DEF worker_fails, TypeOK
  <2> QED
    BY <1>2, <2>1, EmptySeq DEF worker_fails, TypeOK, mainVars, diskVars
<1>3. ASSUME commands # <<>>
      PROVE  Head(commands) \in Command /\ Tail(commands) \in Seq(Command)
  BY <1>3, HeadTailProperties DEF TypeOK
<1>4. /\ Append(events, "Ok") \in Seq({"Ok", "Err", "Fatal"})
      /\ Append(events, "Err") \in Seq({"Ok", "Err", "Fatal"})
  BY AppendProperties DEF TypeOK
<1>5. CASE worker_loop
  <2> DEFINE cmd == Head(commands)
  <2>1. cmd \in Command /\ Tail(commands) \in Seq(Command) /\ <<>> \in Seq(Command)
    BY <1>3, <1>5, EmptySeq DEF worker_loop
  <2>2. commands' \in Seq(Command) /\ events' \in Seq({"Ok", "Err", "Fatal"})
        /\ ack' \in {"None", "Ok", "Err"} /\ worker' \in {"opening", "running", "gone"}
    BY <1>4, <1>5, <2>1 DEF worker_loop, TypeOK, Answer
  <2>3. /\ watchlist_table' \in SUBSET Symbols
        /\ issue_state' \in {"None", "Active", "Resolved"}
        /\ clean_shutdown' \in 0 .. MAX_EVENTS
    BY <1>5, <2>1, CommandFields DEF worker_loop, TypeOK, diskVars
  <2>4. raw_capture' \in [Ids -> Nat] /\ symbol_latest' \in [Symbols -> Row]
    <3>1. CASE cmd.op = "PersistBatch"
      <4>1. persist_batch(cmd) /\ cmd.revisions \in [Symbols -> Row]
        BY <1>5, <2>1, <3>1, CommandFields DEF worker_loop
      <4>2. raw_capture \in [Ids -> Nat] /\ symbol_latest \in [Symbols -> Row]
        BY DEF TypeOK
      <4> HIDE DEF cmd
      <4> QED
        BY <4>1, <4>2 DEF persist_batch
    <3>2. CASE cmd.op # "PersistBatch"
      BY <1>5, <3>2 DEF worker_loop, TypeOK, diskVars
    <3> QED
      BY <3>1, <3>2
  <2> QED
    BY <1>5, <2>2, <2>3, <2>4 DEF worker_loop, TypeOK, mainVars, countVars
<1>6. CASE write_fails
  <2>1. commands' \in Seq(Command) /\ events' \in Seq({"Ok", "Err", "Fatal"})
        /\ ack' \in {"None", "Ok", "Err"} /\ failures' \in Nat
    <3>1. commands' \in Seq(Command) /\ failures' \in Nat
      BY <1>3, <1>6 DEF write_fails, TypeOK
    <3>2. events' = events \/ events' = Append(events, "Err")
      BY <1>6 DEF write_fails
    <3>3. ack' \in {"Err", ack}
      BY <1>6 DEF write_fails, Answer
    <3> QED
      BY <1>4, <3>1, <3>2, <3>3 DEF TypeOK
  <2> QED
    BY <1>6, <2>1 DEF write_fails, TypeOK, mainVars, diskVars
<1> QED
  BY <1>1, <1>2, <1>5, <1>6

\* A new session starts well typed.
LEMMA StartType ==
  ASSUME TypeOK,
         (\E tracked \in SUBSET Symbols : load_warm_start(tracked)) \/ reset_warm_start_state
  PROVE  TypeOK'
<1>0. NoRow \in Row /\ NoRows \in [Symbols -> Row] /\ EmptyRaw \in [Ids -> Nat]
  BY BoundAssumption DEF NoRow, Row, NoRows, EmptyRaw
<1>1. ASSUME NEW watched \in SUBSET Symbols, NEW state \in {"None", "Active", "Resolved"},
             sequence' \in Nat, SpawnWorker(watched, state)
      PROVE  /\ phase' = "running" /\ worker' = "opening" /\ commands' \in Seq(Command)
             /\ ack' = "None" /\ events' = <<>> /\ awaited' \in Nat
             /\ watchlist' \in SUBSET Symbols /\ issue' \in {"None", "Active", "Resolved"}
             /\ last_persisted' \in Nat /\ journal' = {}
  <2>1. <<ReplaceWatchlist(watched), ReplaceIssues(state)>> \in Seq(Command)
    BY SentCommands
  <2> QED
    BY <1>1, <2>1 DEF SpawnWorker, NoBatch
<1>2. ASSUME NEW tracked \in SUBSET Symbols, load_warm_start(tracked)
      PROVE  TypeOK'
  <2>1. live' \in [Symbols -> Row]
    BY <1>0, <1>2 DEF load_warm_start, TypeOK
  <2>2. sequence' \in Nat
    <3>1. sequence' \in {0} \cup {symbol_latest[s].last_sequence : s \in Symbols}
      BY <1>2 DEF load_warm_start
    <3>2. \A s \in Symbols : symbol_latest[s].last_sequence \in Nat
      BY DEF TypeOK, Row
    <3> QED
      BY <3>1, <3>2
  <2>3. SpawnWorker(watchlist_table, issue_state)
    BY <1>2 DEF load_warm_start
  <2>4. starts' \in Nat
    BY <1>2 DEF load_warm_start, TypeOK
  <2> QED
    BY <1>1, <1>2, <2>1, <2>2, <2>3, <2>4, EmptySeq DEF load_warm_start, TypeOK, diskVars
<1>3. CASE reset_warm_start_state
  <2>1. starts' \in Nat /\ failures' \in Nat /\ sequence' \in Nat
    BY <1>3 DEF reset_warm_start_state, TypeOK
  <2>2. SpawnWorker({}, "None")
    BY <1>3 DEF reset_warm_start_state
  <2> QED
    BY <1>0, <1>1, <1>3, <2>1, <2>2, EmptySeq DEF reset_warm_start_state, TypeOK
<1> QED
  BY <1>2, <1>3

\* Every variable keeps its type, whatever the batches and the bounds.
THEOREM TypeCorrect == Spec => []TypeOK
<1>1. Init => TypeOK
  <2>1. NoRow \in Row /\ NoRows \in [Symbols -> Row] /\ EmptyRaw \in [Ids -> Nat]
    BY BoundAssumption DEF NoRow, Row, NoRows, EmptyRaw
  <2> QED
    BY <2>1, EmptySeq, BoundAssumption DEF Init, TypeOK, NoBatch
<1>2. TypeOK /\ [Next]_vars => TypeOK'
  <2>1. CASE UNCHANGED vars
    BY <2>1 DEF TypeOK, vars, mainVars, linkVars, diskVars, countVars
  <2> QED
    BY <2>1, MainStepType, WorkerStepType, StartType DEF Next
<1> QED
  BY <1>1, <1>2, PTL DEF Spec

-----------------------------------------------------------------------------
(* The inductive invariant is inductive.                                   *)

\* A queue with commands behind it.
LEMMA Behind ==
  ASSUME NEW q \in Seq(Command), NEW cmds \in Seq(Command)
  PROVE  /\ Len(q \o cmds) = Len(q) + Len(cmds)
         /\ \A i \in 1 .. Len(q \o cmds) :
              \/ i \in 1 .. Len(q) /\ (q \o cmds)[i] = q[i]
              \/ \E k \in 1 .. Len(cmds) : i = Len(q) + k /\ (q \o cmds)[i] = cmds[k]
<1>1. Len(q) \in Nat /\ Len(cmds) \in Nat /\ Len(q \o cmds) = Len(q) + Len(cmds)
  BY LenProperties, ConcatProperties
<1>2. ASSUME NEW i \in 1 .. Len(q \o cmds), i \notin 1 .. Len(q)
      PROVE  \E k \in 1 .. Len(cmds) : i = Len(q) + k /\ (q \o cmds)[i] = cmds[k]
  <2>1. i - Len(q) \in 1 .. Len(cmds) /\ i = Len(q) + (i - Len(q))
    BY <1>1, <1>2
  <2>2. (q \o cmds)[i] = cmds[i - Len(q)]
    BY <1>1, <1>2, ConcatProperties
  <2> QED
    BY <2>1, <2>2
<1> QED
  BY <1>1, <1>2, ConcatProperties

\* Steps that touch no row, no event and no batch: they keep what the
\* invariant says of the queue if they queue nothing that is waited for.
Light(cmds) == \A i \in 1 .. Len(cmds) : cmds[i].op \notin {"PersistBatch", "Flush"}

\* Every batch of the new queue is one of the old queue.
OldBatches == \A i \in 1 .. Len(commands') :
  commands'[i].op = "PersistBatch" =>
    \E j \in 1 .. Len(commands) : /\ commands[j].op = "PersistBatch"
                                  /\ commands'[i].revisions = commands[j].revisions

SameRows == UNCHANGED <<live, sequence, journal, last_persisted, raw_capture, symbol_latest>>

\* Without new rows, events or batches the rows stay as saved as they were.
LEMMA RowsKept ==
  ASSUME IInv, SameRows, OldBatches
  PROVE  StaleRowsAreUnsaved' /\ AckedIsCaptured' /\ CaughtUpIsStored'
<1>1. StaleRowsAreUnsaved'
  BY DEF IInv, SameRows, OldBatches, StaleRowsAreUnsaved, Unsaved
<1>2. AckedIsCaptured'
  BY DEF IInv, SameRows, AckedIsCaptured
<1>3. CaughtUpIsStored'
  BY DEF IInv, SameRows, CaughtUpIsStored
<1> QED
  BY <1>1, <1>2, <1>3

\* Light commands sent while nobody waits.
LEMMA LightSend ==
  ASSUME TypeOK, IInv, phase = "running",
         NEW cmds \in Seq(Command), Light(cmds), commands' = Queue(cmds)
  PROVE  OldBatches /\ \A i \in 1 .. Len(commands') : ~Waits(commands'[i])
<1>1. commands \in Seq(Command) /\ \A i \in 1 .. Len(commands) : ~Waits(commands[i])
  BY DEF TypeOK, IInv, OneWait
<1>2. CASE worker = "gone"
  BY <1>1, <1>2 DEF Queue, OldBatches
<1>3. CASE worker # "gone"
  <2>1. commands' = commands \o cmds
    BY <1>3 DEF Queue
  <2>2. \A k \in 1 .. Len(cmds) : ~Waits(cmds[k]) /\ cmds[k].op # "PersistBatch"
    BY DEF Light, Waits
  <2>3. \A i \in 1 .. Len(commands') :
          \/ i \in 1 .. Len(commands) /\ commands'[i] = commands[i]
          \/ \E k \in 1 .. Len(cmds) : commands'[i] = cmds[k]
    BY <1>1, <2>1, Behind
  <2> QED
    BY <1>1, <2>2, <2>3 DEF OldBatches
<1> QED
  BY <1>2, <1>3

\* Light commands sent while giving up a wait.
LEMMA LightAfterWait ==
  ASSUME TypeOK, NEW cmds \in Seq(Command), Light(cmds),
         commands' = commands \/ commands' = Abandoned(commands) \o cmds
  PROVE  OldBatches
<1>1. commands \in Seq(Command)
  BY DEF TypeOK
<1>2. CASE commands' = commands
  BY <1>2 DEF OldBatches
<1>3. CASE commands' = Abandoned(commands) \o cmds
  <2> DEFINE q == Abandoned(commands)
  <2>1. /\ q \in Seq(Command) /\ Len(q) = Len(commands)
        /\ \A i \in 1 .. Len(commands) :
             /\ ~Waits(q[i]) /\ q[i].op = commands[i].op
             /\ commands[i].op = "PersistBatch" => q[i].revisions = commands[i].revisions
    BY <1>1, AbandonedType
  <2> HIDE DEF q
  <2>2. commands' = q \o cmds
    BY <1>3 DEF q
  <2>3. \A i \in 1 .. Len(commands') :
          \/ i \in 1 .. Len(commands) /\ commands'[i] = q[i]
          \/ \E k \in 1 .. Len(cmds) : commands'[i] = cmds[k]
    BY <2>1, <2>2, Behind
  <2>4. OldBatches
    <3> SUFFICES ASSUME NEW i \in 1 .. Len(commands'), commands'[i].op = "PersistBatch"
                 PROVE  \E j \in 1 .. Len(commands) :
                          /\ commands[j].op = "PersistBatch"
                          /\ commands'[i].revisions = commands[j].revisions
      BY DEF OldBatches
    <3>1. \A k \in 1 .. Len(cmds) : cmds[k].op # "PersistBatch"
      BY DEF Light
    <3>2. i \in 1 .. Len(commands) /\ commands'[i] = q[i]
      BY <2>3, <3>1
    <3> QED
      BY <2>1, <3>2
  <2> QED
    BY <2>4
<1> QED
  BY <1>2, <1>3

\* A step after which nobody waits and no answer is under way.
LEMMA QuietStep ==
  ASSUME IInv, SameRows, OldBatches,
         phase' # "awaiting_batch", ack' = "None", worker' = "gone" => commands' = <<>>,
         \A i \in 1 .. Len(commands') : ~Waits(commands'[i])
  PROVE  IInv'
<1>1. Numbered' /\ OneWait' /\ AwaitedSaves'
  BY DEF IInv, SameRows, Numbered, OneWait, AwaitedSaves
<1> QED
  BY <1>1, RowsKept DEF IInv

\* Sending a batch that saves what is not yet persisted, or a chart's.
LEMMA BatchStep ==
  ASSUME TypeOK, OneWait, phase = "running", NEW batch \in Command, NEW upto \in Nat,
         batch.op = "PersistBatch",
         SendBatch(batch, upto), UNCHANGED <<ack, worker, raw_capture, symbol_latest>>,
         upto # NoBatch => upto <= sequence' /\ Saves(batch)'
           /\ \A e \in journal' : e.sequence <= upto,
         Numbered', StaleRowsAreUnsaved,
         \A s \in Symbols : batch.revisions[s] \in {NoRow, live'[s]} \/ Unsaved(s)',
         \A s \in Symbols : live'[s] = live[s] \/ Unsaved(s)',
         \A s \in Symbols : Unsaved(s) => Unsaved(s)'
  PROVE  OneWait' /\ AwaitedSaves' /\ StaleRowsAreUnsaved'
<1>1. /\ commands \in Seq(Command) /\ Len(commands) \in Nat /\ ack = "None"
      /\ \A i \in 1 .. Len(commands) : ~Waits(commands[i])
  BY LenProperties DEF TypeOK, OneWait
<1>2. \A i \in 1 .. Len(commands) : commands[i].op = "PersistBatch" =>
        \A s \in Symbols : commands[i].revisions[s] \in {NoRow, live'[s]} \/ Unsaved(s)'
  BY DEF StaleRowsAreUnsaved
<1>3. CASE worker = "gone"
  <2>1. UNCHANGED <<phase, commands>>
    BY <1>3 DEF SendBatch
  <2> QED
    BY <1>1, <1>2, <2>1 DEF OneWait, AwaitedSaves, StaleRowsAreUnsaved
<1>4. CASE worker # "gone"
  <2>1. commands' = Append(commands, batch) /\ phase' = "awaiting_batch" /\ awaited' = upto
    BY <1>4 DEF SendBatch
  <2>2. /\ Len(commands') = Len(commands) + 1
        /\ \A i \in 1 .. Len(commands) : commands'[i] = commands[i]
        /\ commands'[Len(commands) + 1] = batch
    BY <1>1, <2>1, AppendProperties
  <2>3. \A i \in 1 .. Len(commands') : i \in 1 .. Len(commands) \/ i = Len(commands) + 1
    BY <1>1, <2>2
  <2>4. OneWait'
    BY <1>1, <1>4, <2>1, <2>2, <2>3 DEF OneWait
  <2>5. AwaitedSaves'
    BY <1>1, <2>1, <2>2, <2>3 DEF AwaitedSaves
  <2>6. StaleRowsAreUnsaved'
    BY <1>2, <2>2, <2>3 DEF StaleRowsAreUnsaved
  <2> QED
    BY <2>4, <2>5, <2>6
<1> QED
  BY <1>3, <1>4

\* What a batch of events does to the journal and to the rows.
LEMMA FeedEffect ==
  ASSUME TypeOK, IInv, NEW batch \in Batches, clock + Len(batch) <= MAX_EVENTS,
         apply_feed_events(batch), UNCHANGED last_persisted
  PROVE  /\ sequence <= sequence'
         /\ journal \subseteq journal'
         /\ \A e \in journal' \ journal : e.sequence > sequence
         /\ \A e \in journal' : e.sequence <= sequence'
         /\ \A s \in Symbols : live'[s] = live[s] \/ Unsaved(s)'
<1>1. batch \in Seq(FeedEvent) /\ clock \in Nat /\ sequence \in Nat /\ last_persisted \in Nat
  BY BatchAssumption, BoundAssumption DEF TypeOK
<1>2. Len(batch) \in Nat /\ DOMAIN batch = 1 .. Len(batch)
  BY <1>1, LenProperties
<1> DEFINE Added(i) == [sequence |-> sequence + i, symbol |-> batch[i].symbol, id |-> clock + i]
<1>3. sequence' = sequence + Len(batch) /\ journal' = journal \cup {Added(i) : i \in DOMAIN batch}
  BY DEF apply_feed_events
<1>4. \A i \in DOMAIN batch : Added(i).sequence > sequence /\ Added(i).sequence <= sequence'
  BY <1>1, <1>2, <1>3
<1>5. \A e \in journal : e.sequence \in Nat /\ e.sequence <= sequence
  BY DEF TypeOK, IInv, Numbered
<1>6. \A e \in journal' : e.sequence <= sequence'
  BY <1>1, <1>2, <1>3, <1>4, <1>5
<1>7. ASSUME NEW s \in Symbols, live'[s] # live[s]
      PROVE  Unsaved(s)'
  <2>1. live[s] \in Row
    BY DEF TypeOK
  <2>2. live'[s] =
          [snapshot |-> Newest(batch, s, {"Snapshot"}, clock, live[s].snapshot),
           other    |-> Newest(batch, s, {"Other"}, clock, live[s].other),
           last_sequence |-> Newest(batch, s, {"Snapshot", "Other"}, sequence,
                                    live[s].last_sequence)]
    BY DEF apply_feed_events
  <2>3. live[s] = [snapshot |-> live[s].snapshot, other |-> live[s].other,
                   last_sequence |-> live[s].last_sequence]
    BY <2>1 DEF Row
  <2>4. \/ Newest(batch, s, {"Snapshot"}, clock, live[s].snapshot) # live[s].snapshot
        \/ Newest(batch, s, {"Other"}, clock, live[s].other) # live[s].other
        \/ Newest(batch, s, {"Snapshot", "Other"}, sequence, live[s].last_sequence)
             # live[s].last_sequence
    BY <1>7, <2>2, <2>3
  <2>5. PICK i \in DOMAIN batch : batch[i].symbol = s
    BY <1>1, <2>4, NewestType DEF Newest
  <2>6. Added(i) \in journal' /\ Added(i).symbol = s /\ Added(i).sequence > sequence
    BY <1>3, <1>4, <2>5
  <2>7. last_persisted <= sequence
    BY DEF IInv, Numbered
  <2>8. Added(i).sequence > last_persisted'
    BY <1>1, <1>2, <2>7
  <2> QED
    BY <2>6, <2>8 DEF Unsaved
<1> QED
  BY <1>1, <1>2, <1>3, <1>4, <1>6, <1>7

\* Applying a batch and sending what is unsaved keeps the invariant.
LEMMA FeedStep ==
  ASSUME TypeOK, IInv, NEW batch \in Batches, FeedBatch(batch), TypeOK'
  PROVE  IInv'
<1>1. /\ phase = "running" /\ clock + Len(batch) <= MAX_EVENTS
      /\ apply_feed_events(batch) /\ reconcile_sqlite_persistence
      /\ UNCHANGED <<last_persisted, ack, worker, raw_capture, symbol_latest>>
  BY DEF FeedBatch, diskVars
<1>2. /\ sequence <= sequence' /\ journal \subseteq journal'
      /\ \A e \in journal' \ journal : e.sequence > sequence
      /\ \A e \in journal' : e.sequence <= sequence'
      /\ \A s \in Symbols : live'[s] = live[s] \/ Unsaved(s)'
  BY <1>1, FeedEffect
<1>3. \A s \in Symbols : Unsaved(s) => Unsaved(s)'
  BY <1>1, <1>2 DEF Unsaved
<1>4. sequence \in Nat /\ sequence' \in Nat /\ last_persisted \in Nat
      /\ \A e \in journal' : e.sequence \in Nat
  BY DEF TypeOK
<1>5. last_persisted' <= sequence' /\ last_persisted <= sequence
  BY <1>1, <1>2, <1>4 DEF IInv, Numbered
<1>6. AckedIsCaptured'
  <2>1. \A e \in journal' : e.sequence <= last_persisted => e \in journal
    BY <1>2, <1>4, <1>5
  <2> QED
    BY <1>1, <2>1 DEF IInv, AckedIsCaptured
<1>7. CaughtUpIsStored'
  <2> SUFFICES ASSUME NEW s \in Symbols, live'[s].snapshot # 0,
                      \A e \in journal' : e.symbol = s => e.sequence <= last_persisted'
               PROVE  symbol_latest'[s] = live'[s]
    BY DEF CaughtUpIsStored
  <2>1. ~Unsaved(s)'
    BY <1>1, <1>4, TypeOK' DEF Unsaved
  <2>2. live'[s] = live[s]
    BY <1>2, <2>1
  <2>3. \A e \in journal : e.symbol = s => e.sequence <= last_persisted
    BY <1>1, <1>2
  <2> QED
    BY <1>1, <2>2, <2>3 DEF IInv, CaughtUpIsStored
<1> DEFINE delta == {e \in journal' : e.sequence > last_persisted}
           captures == {e.id : e \in delta}
           touched == {e.symbol : e \in delta}
<1>8. CASE delta = {}
  <2>1. /\ issue' = resolve /\ commands' = Queue(<<ReplaceIssues(issue')>>)
        /\ UNCHANGED <<phase, awaited>>
    BY <1>1, <1>8 DEF reconcile_sqlite_persistence
  <2> DEFINE cmds == <<ReplaceIssues(issue')>>
  <2>2. cmds \in Seq(Command) /\ Light(cmds)
    BY <2>1, SentCommands DEF Light, ReplaceIssues
  <2> HIDE DEF cmds
  <2>3. /\ OldBatches /\ \A i \in 1 .. Len(commands') : ~Waits(commands'[i])
    BY <1>1, <2>1, <2>2, LightSend DEF cmds
  <2>4. Numbered' /\ OneWait' /\ AwaitedSaves'
    <3>1. worker' = "gone" => commands' = <<>>
      BY <1>1, <2>1 DEF IInv, OneWait, Queue
    <3> QED
      BY <1>1, <1>2, <1>5, <2>1, <2>3, <3>1 DEF IInv, Numbered, OneWait, AwaitedSaves
  <2>5. \A s \in Symbols : live'[s] = live[s]
    BY <1>1, <1>2, <1>8 DEF Unsaved
  <2>6. StaleRowsAreUnsaved'
    BY <1>3, <2>3, <2>5 DEF IInv, OldBatches, StaleRowsAreUnsaved
  <2> QED
    BY <1>6, <1>7, <2>4, <2>6 DEF IInv
<1>9. CASE delta # {}
  <2>0. PICK cmd : cmd = PersistBatch(captures, build_symbol_revisions(live', touched))
    OBVIOUS
  <2>1. PICK upto \in {e.sequence : e \in delta} :
          (\A e \in delta : e.sequence <= upto) /\ SendBatch(cmd, upto)
    BY <1>1, <1>9, <2>0 DEF reconcile_sqlite_persistence
  <2>2. upto \in Nat /\ upto > last_persisted /\ upto <= sequence'
    BY <1>2, <1>4, <2>1
  <2>3. \A e \in journal' : e.sequence <= upto
    BY <1>4, <2>1, <2>2
  <2>4. \A s \in Symbols : Unsaved(s)' <=> s \in touched
    BY <1>1 DEF Unsaved
  <2>5. /\ cmd.op = "PersistBatch" /\ cmd.captures = captures
        /\ \A s \in Symbols : cmd.revisions[s] \in {NoRow, live'[s]}
        /\ \A s \in touched \cap Symbols : live'[s].snapshot # 0 => cmd.revisions[s] = live'[s]
    BY <2>0 DEF PersistBatch, build_symbol_revisions
  <2>6. cmd \in Command
    <3>1. \A e \in journal' : e.id \in Ids
      BY DEF TypeOK
    <3>2. captures \in SUBSET Ids
      BY <3>1
    <3>3. live' \in [Symbols -> Row]
      BY DEF TypeOK
    <3> QED
      BY <2>0, <3>2, <3>3, BatchType
  <2>7. Saves(cmd)'
    <3>1. \A e \in journal' : e.sequence > last_persisted' => e.id \in cmd.captures
      BY <1>1, <2>5
    <3> QED
      BY <2>4, <2>5, <3>1 DEF Saves
  <2>8. Numbered'
    <3>1. (phase' = "awaiting_batch" /\ awaited' # NoBatch) => awaited' = upto
      BY <1>1, <2>1 DEF SendBatch
    <3> QED
      BY <1>2, <1>5, <2>2, <2>3, <3>1 DEF Numbered
  <2>9. OneWait' /\ AwaitedSaves' /\ StaleRowsAreUnsaved'
    <3>1. OneWait /\ StaleRowsAreUnsaved
      BY DEF IInv
    <3>2. UNCHANGED <<ack, worker, raw_capture, symbol_latest>>
      BY <1>1
    <3>3. /\ \A s \in Symbols : cmd.revisions[s] \in {NoRow, live'[s]} \/ Unsaved(s)'
          /\ \A s \in Symbols : live'[s] = live[s] \/ Unsaved(s)'
      BY <1>2, <2>5
    <3>4. SendBatch(cmd, upto) /\ phase = "running" /\ cmd.op = "PersistBatch"
      BY <1>1, <2>1, <2>5
    <3> HIDE DEF delta, captures, touched
    <3> QED
      BY <1>3, <2>2, <2>3, <2>6, <2>7, <2>8, <3>1, <3>2, <3>3, <3>4, BatchStep
  <2> QED
    BY <1>6, <1>7, <2>8, <2>9 DEF IInv
<1> QED
  BY <1>8, <1>9

\* So does saving a chart result: it covers no event.
LEMMA ChartStep ==
  ASSUME TypeOK, IInv, NEW s \in Symbols, ChartData(s)
  PROVE  IInv'
<1>0. PICK cmd : cmd = PersistBatch({}, build_symbol_revisions(live, {s}))
  OBVIOUS
<1>1. /\ phase = "running" /\ SendBatch(cmd, NoBatch) /\ SameRows
      /\ UNCHANGED <<ack, worker>>
  BY <1>0 DEF ChartData, diskVars, SameRows
<1>2. /\ cmd \in Command /\ cmd.op = "PersistBatch"
      /\ \A t \in Symbols : cmd.revisions[t] \in {NoRow, live[t]}
  <2>1. live \in [Symbols -> Row]
    BY DEF TypeOK
  <2>2. cmd \in Command
    BY <1>0, <2>1, BatchType
  <2>3. /\ cmd.op = "PersistBatch"
        /\ \A t \in Symbols : cmd.revisions[t] \in {NoRow, live[t]}
    BY <1>0 DEF PersistBatch, build_symbol_revisions
  <2> QED
    BY <2>2, <2>3
<1>3. Numbered'
  BY <1>1 DEF IInv, Numbered, SendBatch, SameRows
<1>4. OneWait' /\ AwaitedSaves' /\ StaleRowsAreUnsaved'
  <2>1. /\ \A t \in Symbols : live'[t] = live[t]
        /\ \A t \in Symbols : Unsaved(t) => Unsaved(t)'
    BY <1>1 DEF SameRows, Unsaved
  <2>2. UNCHANGED <<ack, worker, raw_capture, symbol_latest>> /\ NoBatch \in Nat
    BY <1>1 DEF SameRows, NoBatch
  <2> QED
    BY <1>1, <1>2, <1>3, <2>1, <2>2, BatchStep DEF IInv
<1>5. AckedIsCaptured' /\ CaughtUpIsStored'
  BY <1>1 DEF IInv, SameRows, AckedIsCaptured, CaughtUpIsStored
<1> QED
  BY <1>3, <1>4, <1>5 DEF IInv

\* An answer in time: the batch is in the database, and so is every row.
LEMMA AckStep ==
  ASSUME TypeOK, IInv, BatchAcked
  PROVE  IInv'
<1>1. /\ phase = "awaiting_batch" /\ ack # "None" /\ commands = <<>>
      /\ phase' = "running" /\ ack' = "None"
      /\ commands' = Queue(<<ReplaceIssues(issue')>>)
      /\ UNCHANGED <<live, sequence, journal, raw_capture, symbol_latest, worker>>
  BY DEF BatchAcked, IInv, OneWait, diskVars
<1>2. issue' \in {"None", "Active", "Resolved"}
  BY SentCommands DEF BatchAcked
<1>3. /\ \A i \in 1 .. Len(commands') : commands'[i].op = "ReplaceIssues"
      /\ worker' = "gone" => commands' = <<>>
  <2>1. <<ReplaceIssues(issue')>> \in Seq(Command) /\ commands \in Seq(Command)
    BY <1>2, SentCommands DEF TypeOK
  <2>2. CASE worker = "gone"
    BY <1>1, <2>2, EmptySeq DEF Queue
  <2>3. CASE worker # "gone"
    <3>1. commands' = <<ReplaceIssues(issue')>>
      BY <1>1, <2>1, <2>3, ConcatEmptySeq DEF Queue
    <3> QED
      BY <1>1, <2>3, <3>1 DEF ReplaceIssues
  <2> QED
    BY <2>2, <2>3
<1>4. OneWait' /\ AwaitedSaves' /\ StaleRowsAreUnsaved'
  BY <1>1, <1>3 DEF OneWait, AwaitedSaves, StaleRowsAreUnsaved, Waits
<1>5. CASE ack = "Ok" /\ awaited # NoBatch
  <2>1. last_persisted' = awaited
    BY <1>5 DEF BatchAcked
  <2> QED
    BY <1>1, <1>4, <1>5, <2>1
       DEF IInv, Numbered, AwaitedSaves, AckedIsCaptured, CaughtUpIsStored
<1>6. CASE ~(ack = "Ok" /\ awaited # NoBatch)
  <2>1. last_persisted' = last_persisted
    BY <1>6 DEF BatchAcked
  <2> QED
    BY <1>1, <1>4, <2>1 DEF IInv, Numbered, AckedIsCaptured, CaughtUpIsStored
<1> QED
  BY <1>5, <1>6

\* The other steps of the main thread send light commands or none.
LEMMA MainStep ==
  ASSUME TypeOK, IInv,
         \/ \E s \in Symbols : toggle_watchlist(s)
         \/ BatchTimedOut \/ apply_persistence_status
         \/ Quit \/ FlushDone \/ Joined \/ Crash,
         TypeOK'
  PROVE  IInv'
<1>0. \A c \in Command : <<c>> \in Seq(Command)
  OBVIOUS
<1>1. ASSUME NEW s \in Symbols, toggle_watchlist(s)
      PROVE  IInv'
  <2>0. PICK cmds : cmds = <<ReplaceWatchlist(watchlist')>>
    OBVIOUS
  <2>1. /\ phase = "running" /\ phase' = "running" /\ commands' = Queue(cmds)
        /\ UNCHANGED <<ack, worker>> /\ SameRows
    BY <1>1, <2>0 DEF toggle_watchlist, diskVars, SameRows
  <2>2. ReplaceWatchlist(watchlist') \in Command
    <3>1. watchlist' \in SUBSET Symbols
      BY DEF TypeOK
    <3> QED
      BY <3>1, SentCommands
  <2>3. cmds \in Seq(Command) /\ Light(cmds)
    BY <1>0, <2>0, <2>2 DEF Light, ReplaceWatchlist
  <2>4. /\ ack' = "None" /\ (worker' = "gone" => commands' = <<>>)
    BY <2>1 DEF IInv, OneWait, Queue
  <2> QED
    BY <2>1, <2>3, <2>4, LightSend, QuietStep
<1>2. CASE BatchTimedOut
  <2>0. PICK cmds : cmds = <<ReplaceIssues(issue')>>
    OBVIOUS
  <2>1. /\ worker = "gone" => commands' = commands
        /\ worker # "gone" => commands' = Abandoned(commands) \o cmds
        /\ phase' = "running" /\ ack = "None" /\ UNCHANGED <<ack, worker>> /\ SameRows
    BY <1>2, <2>0 DEF BatchTimedOut, diskVars, SameRows
  <2>2. ReplaceIssues(issue') \in Command
    <3>1. issue' \in {"None", "Active", "Resolved"}
      BY DEF TypeOK
    <3> QED
      BY <3>1, SentCommands
  <2>3. cmds \in Seq(Command) /\ Light(cmds)
    BY <1>0, <2>0, <2>2 DEF Light, ReplaceIssues
  <2>4. worker' = "gone" => commands' = <<>>
    BY <2>1 DEF IInv, OneWait
  <2>5. \A i \in 1 .. Len(commands') : ~Waits(commands'[i])
    <3>1. CASE worker' = "gone"
      BY <2>4, <3>1, EmptySeq
    <3>2. CASE worker' # "gone"
      <4>1. \A i \in 1 .. Len(Abandoned(commands)) : ~Waits(Abandoned(commands)[i])
        BY AbandonedType DEF TypeOK
      <4>2. \A k \in 1 .. Len(cmds) : ~Waits(cmds[k])
        BY <2>3 DEF Light, Waits
      <4>3. Abandoned(commands) \in Seq(Command) /\ commands' = Abandoned(commands) \o cmds
        BY <2>1, <3>2, AbandonedType DEF TypeOK
      <4> QED
        BY <2>3, <4>1, <4>2, <4>3, Behind
    <3> QED
      BY <3>1, <3>2
  <2> QED
    BY <2>1, <2>3, <2>4, <2>5, LightAfterWait, QuietStep
<1>3. ASSUME BeginShutdown, phase = "running", SameRows, UNCHANGED <<ack, worker>>
      PROVE  IInv'
  <2> DEFINE mark == [op |-> "MarkCleanShutdown", timestamp |-> clock]
             flush == [op |-> "Flush", waiting |-> TRUE]
  <2>1. mark \in Command /\ flush \in Command /\ <<mark, flush>> \in Seq(Command)
        /\ mark.op = "MarkCleanShutdown" /\ flush.op = "Flush"
    BY SentCommands
  <2>2. /\ commands \in Seq(Command) /\ ack' = "None" /\ Len(commands) \in Nat
        /\ \A i \in 1 .. Len(commands) : ~Waits(commands[i])
    BY <1>3, LenProperties DEF IInv, OneWait, TypeOK
  <2>3. /\ phase' = "awaiting_flush" /\ commands' = Queue(<<mark, flush>>)
    BY <1>3 DEF BeginShutdown
  <2> HIDE DEF mark, flush
  <2>4. CASE worker = "gone"
    <3>1. commands' = commands /\ commands = <<>>
      BY <2>3, <2>4 DEF Queue, IInv, OneWait
    <3> QED
      BY <1>3, <2>2, <2>3, <3>1, QuietStep DEF OldBatches
  <2>5. CASE worker # "gone"
    <3>1. commands' = commands \o <<mark, flush>>
      BY <2>3, <2>5 DEF Queue
    <3>2. /\ Len(commands') = Len(commands) + 2
          /\ \A i \in 1 .. Len(commands') :
               \/ i \in 1 .. Len(commands) /\ commands'[i] = commands[i]
               \/ i = Len(commands) + 1 /\ commands'[i] = mark
               \/ i = Len(commands) + 2 /\ commands'[i] = flush
      BY <2>1, <2>2, <3>1, Behind
    <3>3. OldBatches
      BY <2>1, <3>2 DEF OldBatches
    <3>4. OneWait'
      BY <1>3, <2>1, <2>2, <2>3, <2>5, <3>2 DEF OneWait, Waits
    <3>5. Numbered' /\ AwaitedSaves'
      BY <1>3, <2>3 DEF IInv, Numbered, AwaitedSaves, SameRows
    <3> QED
      BY <1>3, <3>3, <3>4, <3>5, RowsKept DEF IInv
  <2> QED
    BY <2>4, <2>5
<1>4. CASE apply_persistence_status
  <2>1. /\ phase = "running" /\ SameRows /\ UNCHANGED <<ack, worker>>
        /\ BeginShutdown \/ UNCHANGED <<phase, commands>>
    BY <1>4 DEF apply_persistence_status, diskVars, SameRows
  <2>2. CASE UNCHANGED <<phase, commands>>
    <3>1. /\ ack' = "None" /\ phase' = "running" /\ OldBatches
          /\ \A i \in 1 .. Len(commands') : ~Waits(commands'[i])
          /\ worker' = "gone" => commands' = <<>>
      BY <2>1, <2>2 DEF IInv, OneWait, OldBatches
    <3> QED
      BY <2>1, <3>1, QuietStep
  <2> QED
    BY <1>3, <2>1, <2>2
<1>5. CASE Quit
  BY <1>3, <1>5 DEF Quit, diskVars, SameRows
<1>6. CASE FlushDone
  <2>1. /\ worker = "gone" => commands' = commands
        /\ worker # "gone" => commands' = Abandoned(commands) \o Farewell
        /\ phase' = "joining" /\ ack' = "None" /\ UNCHANGED worker /\ SameRows
    BY <1>6 DEF FlushDone, diskVars, SameRows
  <2>2. Farewell \in Seq(Command) /\ Light(Farewell)
    BY <1>0, SentCommands DEF Farewell, Light
  <2>3. worker' = "gone" => commands' = <<>>
    BY <2>1 DEF IInv, OneWait
  <2>4. \A i \in 1 .. Len(commands') : ~Waits(commands'[i])
    <3>1. CASE worker' = "gone"
      BY <2>3, <3>1, EmptySeq
    <3>2. CASE worker' # "gone"
      <4>1. \A i \in 1 .. Len(Abandoned(commands)) : ~Waits(Abandoned(commands)[i])
        BY AbandonedType DEF TypeOK
      <4>2. \A k \in 1 .. Len(Farewell) : ~Waits(Farewell[k])
        BY <2>2 DEF Light, Waits
      <4>3. Abandoned(commands) \in Seq(Command) /\ commands' = Abandoned(commands) \o Farewell
        BY <2>1, <3>2, AbandonedType DEF TypeOK
      <4> QED
        BY <2>2, <4>1, <4>2, <4>3, Behind
    <3> QED
      BY <3>1, <3>2
  <2> QED
    BY <2>1, <2>2, <2>3, <2>4, LightAfterWait, QuietStep
<1>7. CASE Joined
  <2>1. /\ phase' = "stopped" /\ worker = "gone" /\ SameRows /\ phase = "joining"
        /\ UNCHANGED <<commands, ack, worker>>
    BY <1>7 DEF Joined, linkVars, diskVars, countVars, SameRows
  <2>2. commands' = <<>> /\ ack' = "None"
    BY <2>1 DEF IInv, OneWait
  <2> QED
    BY <2>1, <2>2, EmptySeq, QuietStep DEF OldBatches
<1>8. CASE Crash
  <2>1. phase' = "down" /\ commands' = <<>> /\ ack' = "None" /\ SameRows
    BY <1>8 DEF Crash, diskVars, SameRows
  <2> QED
    BY <2>1, EmptySeq, QuietStep DEF OldBatches
<1> QED
  BY <1>1, <1>2, <1>4, <1>5, <1>6, <1>7, <1>8

\* A queue without its first command.
LEMMA Rest ==
  ASSUME TypeOK, commands # <<>>
  PROVE  /\ Head(commands) = commands[1] /\ 1 \in 1 .. Len(commands)
         /\ Head(commands) \in Command
         /\ Len(Tail(commands)) = Len(commands) - 1 /\ Len(commands) \in Nat
         /\ \A i \in 1 .. Len(Tail(commands)) :
              Tail(commands)[i] = commands[i + 1] /\ i + 1 \in 1 .. Len(commands)
         /\ Len(commands) = 1 => Tail(commands) = <<>>
<1>1. commands \in Seq(Command)
  BY DEF TypeOK
<1>2. Len(commands) \in Nat \ {0} /\ Head(commands) = commands[1]
  <2>1. Len(commands) \in Nat \ {0}
    BY <1>1, EmptySeq
  <2> QED
    BY <1>1, <2>1
<1>3. /\ Head(commands) \in Command /\ Tail(commands) \in Seq(Command)
      /\ Len(Tail(commands)) = Len(commands) - 1
      /\ \A i \in 1 .. Len(Tail(commands)) : Tail(commands)[i] = commands[i + 1]
  BY <1>1, HeadTailProperties
<1>4. ASSUME Len(commands) = 1
      PROVE  Tail(commands) = <<>>
  <2>1. Len(Tail(commands)) = 0
    BY <1>3, <1>4
  <2>2. Tail(commands) # <<>> => Len(Tail(commands)) \in Nat \ {0}
    BY <1>3, EmptySeq
  <2> QED
    BY <2>1, <2>2
<1>5. \A i \in 1 .. Len(Tail(commands)) : i + 1 \in 1 .. Len(commands)
  BY <1>2, <1>3
<1> QED
  BY <1>2, <1>3, <1>4, <1>5

\* Taking a command leaves the wait, if any, on the last one.
LEMMA TakeStep ==
  ASSUME TypeOK, OneWait, commands # <<>>, commands' = Tail(commands),
         UNCHANGED <<phase, worker>>, ack' # "None" => Waits(Head(commands))
  PROVE  OneWait' /\ ack = "None"
<1>1. ack = "None" /\ worker # "gone"
  BY DEF OneWait
<1>2. /\ Head(commands) = commands[1] /\ 1 \in 1 .. Len(commands)
      /\ Len(Tail(commands)) = Len(commands) - 1 /\ Len(commands) \in Nat
      /\ \A i \in 1 .. Len(Tail(commands)) :
           Tail(commands)[i] = commands[i + 1] /\ i + 1 \in 1 .. Len(commands)
      /\ Len(commands) = 1 => Tail(commands) = <<>>
  BY Rest
<1>3. ASSUME NEW i \in 1 .. Len(commands'), Waits(commands'[i])
      PROVE  i = Len(commands') /\ phase' \in {"awaiting_batch", "awaiting_flush"}
  <2>1. Waits(commands[i + 1]) /\ i + 1 \in 1 .. Len(commands)
    BY <1>2, <1>3
  <2>2. i + 1 = Len(commands) /\ phase \in {"awaiting_batch", "awaiting_flush"}
    BY <2>1 DEF OneWait
  <2>3. Len(commands') = Len(commands) - 1 /\ Len(commands) \in Nat /\ i \in Int
    BY <1>2
  <2>4. i = Len(commands')
    BY <2>2, <2>3
  <2> QED
    BY <2>2, <2>4
<1>4. Waits(Head(commands)) => /\ commands' = <<>>
                               /\ phase' \in {"awaiting_batch", "awaiting_flush"}
  BY <1>2 DEF OneWait
<1> QED
  BY <1>1, <1>3, <1>4 DEF OneWait

\* A committed batch: its rows replace older ones and its events are stored.
LEMMA CommitStep ==
  ASSUME TypeOK, IInv, worker_loop, Head(commands).op = "PersistBatch"
  PROVE  IInv'
<1> DEFINE cmd == Head(commands)
<1>1. /\ worker = "running" /\ commands # <<>> /\ persist_batch(cmd) /\ Answer(cmd, "Ok")
      /\ commands' = Tail(commands)
      /\ UNCHANGED <<phase, awaited, live, sequence, journal, last_persisted, worker>>
  BY DEF worker_loop, mainVars
<1>2. /\ cmd = commands[1] /\ 1 \in 1 .. Len(commands)
      /\ Len(Tail(commands)) = Len(commands) - 1 /\ Len(commands) \in Nat
      /\ \A i \in 1 .. Len(Tail(commands)) :
           Tail(commands)[i] = commands[i + 1] /\ i + 1 \in 1 .. Len(commands)
      /\ Len(commands) = 1 => Tail(commands) = <<>>
  BY <1>1, Rest
<1>3. cmd.op = "PersistBatch"
  OBVIOUS
<1> HIDE DEF cmd
<1>4. /\ \A i \in Ids : raw_capture[i] \in Nat
      /\ \A e \in journal : e.id \in Ids /\ e.sequence \in Nat
      /\ last_persisted \in Nat
      /\ \A s \in Symbols : live[s].snapshot \in Nat
  BY BoundAssumption DEF TypeOK, Row
<1>5. \A i \in Ids : /\ raw_capture'[i] \in Nat /\ raw_capture'[i] >= raw_capture[i]
                     /\ i \in cmd.captures => raw_capture'[i] > 0
  BY <1>1, <1>4 DEF persist_batch
<1>6. \A s \in Symbols : symbol_latest'[s] = IF cmd.revisions[s] # NoRow THEN cmd.revisions[s]
                                             ELSE symbol_latest[s]
  BY <1>1 DEF persist_batch
<1>7. ack = "None"
  BY <1>1 DEF IInv, OneWait
<1>8. AckedIsCaptured'
  <2> SUFFICES ASSUME NEW e \in journal, e.sequence <= last_persisted
               PROVE  raw_capture'[e.id] > 0
    BY <1>1 DEF AckedIsCaptured
  <2>1. raw_capture[e.id] > 0 /\ e.id \in Ids
    BY <1>4 DEF IInv, AckedIsCaptured
  <2> QED
    BY <1>4, <1>5, <2>1
<1>9. \A s \in Symbols : (live[s].snapshot # 0 /\ ~Unsaved(s)) => symbol_latest'[s] = live[s]
  <2> SUFFICES ASSUME NEW s \in Symbols, live[s].snapshot # 0, ~Unsaved(s)
               PROVE  symbol_latest'[s] = live[s]
    OBVIOUS
  <2>1. symbol_latest[s] = live[s]
    BY <1>4 DEF IInv, CaughtUpIsStored, Unsaved
  <2>2. cmd.revisions[s] \in {NoRow, live[s]}
    BY <1>2, <1>3 DEF IInv, StaleRowsAreUnsaved
  <2> QED
    BY <1>6, <2>1, <2>2
<1>10. CaughtUpIsStored'
  BY <1>1, <1>4, <1>9 DEF CaughtUpIsStored, Unsaved
<1>11. StaleRowsAreUnsaved'
  BY <1>1, <1>2 DEF IInv, StaleRowsAreUnsaved, Unsaved
<1>12. Numbered'
  BY <1>1 DEF IInv, Numbered
<1>13. Waits(cmd) <=> cmd.waiting
  BY <1>3 DEF Waits
<1>15. ack' # "None" => Waits(cmd)
  BY <1>1, <1>7, <1>13 DEF Answer
<1>16. OneWait'
  BY <1>1, <1>15, TakeStep DEF IInv, cmd
<1>17. AwaitedSaves'
  <2> SUFFICES ASSUME phase = "awaiting_batch", awaited # NoBatch
               PROVE  /\ \A i \in 1 .. Len(commands') :
                           Waits(commands[i])' => Saves(commands[i])'
                      /\ ack' = "Ok" =>
                           /\ \A e \in journal : raw_capture'[e.id] > 0
                           /\ \A s \in Symbols :
                                live[s].snapshot # 0 => symbol_latest'[s] = live[s]
    BY <1>1 DEF AwaitedSaves
  <2>1. \A i \in 1 .. Len(commands) : Waits(commands[i]) => Saves(commands[i])
    BY DEF IInv, AwaitedSaves
  <2>2. ASSUME NEW i \in 1 .. Len(commands'), Waits(commands[i])'
        PROVE  Saves(commands[i])'
    <3>1. commands'[i] = commands[i + 1] /\ i + 1 \in 1 .. Len(commands)
      BY <1>1, <1>2
    <3>2. Saves(commands[i + 1])
      BY <2>1, <2>2, <3>1 DEF Waits
    <3> QED
      BY <1>1, <3>1, <3>2 DEF Saves, Unsaved
  <2>3. ASSUME ack' = "Ok"
        PROVE  /\ \A e \in journal : raw_capture'[e.id] > 0
               /\ \A s \in Symbols : live[s].snapshot # 0 => symbol_latest'[s] = live[s]
    <3>1. Saves(cmd)
      BY <1>2, <1>15, <2>1, <2>3
    <3>2. \A e \in journal : e.sequence > last_persisted => raw_capture'[e.id] > 0
      BY <1>4, <1>5, <3>1 DEF Saves
    <3>3. \A e \in journal : raw_capture'[e.id] > 0
      BY <1>1, <1>4, <1>8, <3>2 DEF AckedIsCaptured
    <3>4. ASSUME NEW s \in Symbols, live[s].snapshot # 0, Unsaved(s)
          PROVE  symbol_latest'[s] = live[s]
      <4>1. cmd.revisions[s] = live[s] /\ live[s] # NoRow
        BY <3>1, <3>4 DEF Saves, NoRow
      <4> QED
        BY <1>6, <4>1
    <3> QED
      BY <1>9, <3>3, <3>4
  <2> QED
    BY <2>2, <2>3
<1> QED
  BY <1>8, <1>10, <1>11, <1>12, <1>16, <1>17 DEF IInv

\* The other commands, and the failed ones, touch neither rows nor captures:
\* an answer they give is not the good answer to a batch.
LEMMA PlainTakeStep ==
  ASSUME TypeOK, IInv, commands # <<>>, commands' = Tail(commands), SameRows,
         UNCHANGED <<phase, awaited, worker>>, ack' # "None" => Waits(Head(commands)),
         phase = "awaiting_batch" /\ awaited # NoBatch => ack' # "Ok"
  PROVE  IInv'
<1>1. OneWait'
  BY TakeStep DEF IInv
<1>2. /\ \A i \in 1 .. Len(Tail(commands)) :
           Tail(commands)[i] = commands[i + 1] /\ i + 1 \in 1 .. Len(commands)
  BY Rest
<1>3. OldBatches
  BY <1>2 DEF OldBatches
<1>4. Numbered'
  BY DEF IInv, Numbered, SameRows
<1>5. AwaitedSaves'
  <2> SUFFICES ASSUME phase = "awaiting_batch", awaited # NoBatch
               PROVE  \A i \in 1 .. Len(commands') : Waits(commands[i])' => Saves(commands[i])'
    BY DEF AwaitedSaves
  <2> SUFFICES ASSUME NEW i \in 1 .. Len(commands'), Waits(commands[i])'
               PROVE  Saves(commands[i])'
    OBVIOUS
  <2>1. commands'[i] = commands[i + 1] /\ i + 1 \in 1 .. Len(commands)
    BY <1>2
  <2>2. Saves(commands[i + 1])
    BY <2>1 DEF IInv, AwaitedSaves, Waits
  <2> QED
    BY <2>1, <2>2 DEF Saves, Unsaved, SameRows
<1> QED
  BY <1>1, <1>3, <1>4, <1>5, RowsKept DEF IInv

\* The worker's steps.
LEMMA WorkerStep ==
  ASSUME TypeOK, IInv, worker_opens \/ worker_fails \/ worker_loop \/ write_fails
  PROVE  IInv'
<1>1. CASE worker_opens
  <2>1. /\ SameRows /\ OldBatches /\ worker' # "gone"
        /\ UNCHANGED <<phase, awaited, commands, ack>>
    BY <1>1 DEF worker_opens, mainVars, diskVars, countVars, SameRows, OldBatches
  <2>2. Numbered' /\ OneWait' /\ AwaitedSaves'
    BY <2>1 DEF IInv, Numbered, OneWait, AwaitedSaves, SameRows, Saves, Unsaved
  <2> QED
    BY <2>1, <2>2, RowsKept DEF IInv
<1>2. CASE worker_fails
  <2>1. /\ SameRows /\ commands' = <<>> /\ worker' = "gone" /\ worker # "gone"
        /\ UNCHANGED <<phase, awaited, ack>>
    BY <1>2 DEF worker_fails, mainVars, diskVars, SameRows
  <2>2. Len(commands') = 0
    BY <2>1
  <2>3. OldBatches
    BY <2>2 DEF OldBatches
  <2>4. Numbered' /\ OneWait' /\ AwaitedSaves'
    BY <2>1, <2>2 DEF IInv, Numbered, OneWait, AwaitedSaves, SameRows
  <2> QED
    BY <2>1, <2>3, <2>4, RowsKept DEF IInv
<1>3. CASE worker_loop
  <2> DEFINE cmd == Head(commands)
  <2>1. /\ worker = "running" /\ commands # <<>> /\ cmd \in Command
        /\ UNCHANGED <<phase, awaited, live, sequence, journal, last_persisted>>
        /\ \A i \in 1 .. Len(commands) : Waits(commands[i]) => i = Len(commands)
    BY <1>3, Rest DEF worker_loop, mainVars, IInv, OneWait
  <2>2. CASE cmd.op = "PersistBatch"
    BY <1>3, <2>2, CommitStep
  <2>3. CASE cmd.op \in {"ReplaceWatchlist", "ReplaceIssues", "MarkCleanShutdown"}
    <3>1. /\ UNCHANGED <<ack, worker, raw_capture, symbol_latest>>
          /\ commands' = Tail(commands)
      BY <1>3, <2>3 DEF worker_loop
    <3>2. ack = "None"
      BY <2>1 DEF IInv, OneWait
    <3> QED
      BY <2>1, <2>3, <3>1, <3>2, PlainTakeStep DEF SameRows
  <2>4. CASE cmd.op = "Flush"
    <3>1. /\ UNCHANGED <<worker, raw_capture, symbol_latest>> /\ Answer(cmd, "Ok")
          /\ commands' = Tail(commands)
      BY <1>3, <2>4 DEF worker_loop, diskVars
    <3>2. ack = "None"
      BY <2>1 DEF IInv, OneWait
    <3>3. ack' # "None" => Waits(cmd)
      BY <2>4, <3>1, <3>2 DEF Answer, Waits
    <3>4. phase = "awaiting_batch" /\ awaited # NoBatch => ~Waits(cmd)
      <4>1. cmd = commands[1] /\ 1 \in 1 .. Len(commands)
        BY <2>1, Rest
      <4>2. ~Saves(cmd)
        BY <2>4 DEF Saves
      <4> HIDE DEF cmd
      <4> QED
        BY <4>1, <4>2 DEF IInv, AwaitedSaves
    <3>5. SameRows
      BY <2>1, <3>1 DEF SameRows
    <3> QED
      BY <2>1, <3>1, <3>3, <3>4, <3>5, PlainTakeStep
  <2>5. CASE cmd.op = "Shutdown"
    <3>1. /\ UNCHANGED <<ack, raw_capture, symbol_latest>>
          /\ worker' = "gone" /\ commands' = <<>>
      BY <1>3, <2>5 DEF worker_loop, diskVars
    <3>2. Len(commands') = 0 /\ SameRows
      BY <2>1, <3>1 DEF SameRows
    <3>3. OldBatches
      BY <3>2 DEF OldBatches
    <3>4. Numbered' /\ OneWait' /\ AwaitedSaves'
      BY <2>1, <3>1, <3>2 DEF IInv, Numbered, OneWait, AwaitedSaves, SameRows
    <3> QED
      BY <3>2, <3>3, <3>4, RowsKept DEF IInv
  <2> QED
    BY <2>1, <2>2, <2>3, <2>4, <2>5 DEF Command
<1>4. CASE write_fails
  <2> DEFINE cmd == Head(commands)
  <2>1. /\ commands # <<>> /\ commands' = Tail(commands) /\ SameRows
        /\ UNCHANGED <<phase, awaited, worker>>
        /\ \/ cmd.op = "PersistBatch" /\ Answer(cmd, "Err")
           \/ UNCHANGED ack
    BY <1>4 DEF write_fails, mainVars, diskVars, SameRows
  <2>2. ack = "None"
    BY <2>1 DEF IInv, OneWait
  <2>3. ack' # "Ok" /\ (ack' # "None" => Waits(cmd))
    BY <2>1, <2>2 DEF Answer, Waits
  <2> QED
    BY <2>1, <2>3, PlainTakeStep
<1> QED
  BY <1>1, <1>2, <1>3, <1>4

\* A new session shows what is stored and has nothing unsaved.
LEMMA StartStep ==
  ASSUME TypeOK, TypeOK',
         (\E tracked \in SUBSET Symbols : load_warm_start(tracked)) \/ reset_warm_start_state
  PROVE  IInv'
<1>1. ASSUME NEW watched, NEW state, SpawnWorker(watched, state),
             \A s \in Symbols : live'[s] \in {symbol_latest'[s], NoRow}
      PROVE  IInv'
  <2>1. /\ phase' = "running" /\ worker' = "opening" /\ ack' = "None" /\ journal' = {}
        /\ last_persisted' = sequence'
        /\ commands' = <<ReplaceWatchlist(watched), ReplaceIssues(state)>>
    BY <1>1 DEF SpawnWorker
  <2>2. \A i \in 1 .. Len(commands') :
          commands'[i].op \in {"ReplaceWatchlist", "ReplaceIssues"}
    BY <2>1 DEF ReplaceWatchlist, ReplaceIssues
  <2>3. Numbered' /\ OneWait' /\ AwaitedSaves' /\ StaleRowsAreUnsaved'
    <3>1. sequence' \in Nat
      BY DEF TypeOK
    <3>2. Numbered' /\ AwaitedSaves'
      BY <2>1, <3>1 DEF Numbered, AwaitedSaves
    <3>3. OneWait' /\ StaleRowsAreUnsaved'
      BY <2>1, <2>2 DEF OneWait, StaleRowsAreUnsaved, Waits
    <3> QED
      BY <3>2, <3>3
  <2>4. AckedIsCaptured'
    BY <2>1 DEF AckedIsCaptured
  <2>5. CaughtUpIsStored'
    BY <1>1 DEF CaughtUpIsStored, NoRow
  <2> QED
    BY <2>3, <2>4, <2>5 DEF IInv
<1>2. ASSUME NEW tracked \in SUBSET Symbols, load_warm_start(tracked)
      PROVE  IInv'
  <2>1. /\ SpawnWorker(watchlist_table, issue_state)
        /\ \A s \in Symbols : live'[s] \in {symbol_latest'[s], NoRow}
    BY <1>2 DEF load_warm_start, diskVars
  <2> QED
    BY <1>1, <2>1
<1>3. CASE reset_warm_start_state
  <2>1. /\ SpawnWorker({}, "None")
        /\ \A s \in Symbols : live'[s] \in {symbol_latest'[s], NoRow}
    BY <1>3 DEF reset_warm_start_state, NoRows
  <2> QED
    BY <1>1, <2>1
<1> QED
  BY <1>2, <1>3

\* The inductive invariant is one.
THEOREM Inductive == Spec => []IInv
<1>1. Init => IInv
  BY EmptySeq DEF Init, IInv, Numbered, OneWait, AwaitedSaves, StaleRowsAreUnsaved,
                  AckedIsCaptured, CaughtUpIsStored, NoRows, NoRow
<1>2. TypeOK /\ TypeOK' /\ IInv /\ [Next]_vars => IInv'
  <2> SUFFICES ASSUME TypeOK, TypeOK', IInv, [Next]_vars PROVE IInv'
    OBVIOUS
  <2>1. CASE UNCHANGED vars
    BY <2>1 DEF vars, mainVars, linkVars, diskVars, IInv, Numbered, OneWait, AwaitedSaves,
                Saves, Unsaved, StaleRowsAreUnsaved, AckedIsCaptured, CaughtUpIsStored
  <2> QED
    BY <2>1, FeedStep, ChartStep, AckStep, MainStep, WorkerStep, StartStep DEF Next
<1> QED
  BY <1>1, <1>2, TypeCorrect, PTL DEF Spec

\* What the main loop counts as persisted is in the database, for every
\* interleaving of waits given up, late answers, failures and crashes.
THEOREM AckedCaptured == Spec => []AckedIsCaptured
<1>1. IInv => AckedIsCaptured
  BY DEF IInv
<1> QED
  BY <1>1, Inductive, PTL

\* A symbol with nothing unsaved is stored exactly as it is shown.
THEOREM CaughtUpStored == Spec => []CaughtUpIsStored
<1>1. IInv => CaughtUpIsStored
  BY DEF IInv
<1> QED
  BY <1>1, Inductive, PTL

-----------------------------------------------------------------------------
(* A clean stop: what the database will have once the queue is drained.    *)

\* Of the indices where a cell is written the last has the value, and the
\* cell has it already when there is none.
Ends(W, v, cell, value) ==
  /\ W = {} => cell = value
  /\ \A i \in W : (\A j \in W : j <= i) => v[i] = value

WritesRow(cmd, s) == cmd.op = "PersistBatch" /\ cmd.revisions[s] # NoRow

\* The queued commands that write a symbol's row, the watchlist and the mark.
RowWrites(s)  == {i \in 1 .. Len(commands) : WritesRow(commands[i], s)}
WatchWrites   == {i \in 1 .. Len(commands) : commands[i].op = "ReplaceWatchlist"}
MarkWrites    == {i \in 1 .. Len(commands) : commands[i].op = "MarkCleanShutdown"}

RowEnds(s) == Ends(RowWrites(s), [i \in 1 .. Len(commands) |-> commands[i].revisions[s]],
                   symbol_latest[s], live[s])
WatchEnds  == Ends(WatchWrites, [i \in 1 .. Len(commands) |-> commands[i].symbols],
                   watchlist_table, watchlist)
MarkEnds   == Ends(MarkWrites, [i \in 1 .. Len(commands) |-> commands[i].timestamp],
                   clean_shutdown, clock)

\* The event is stored, or a queued batch is going to store it.
Captured(e) ==
  \/ raw_capture[e.id] > 0
  \/ \E i \in 1 .. Len(commands) : commands[i].op = "PersistBatch" /\ e.id \in commands[i].captures

Closing == {"awaiting_flush", "joining", "stopped"}

\* Once the queue is drained the database has all the screen has.
NothingLost ==
  /\ \A e \in journal : Captured(e)
  /\ \A s \in Symbols : live[s].snapshot # 0 => RowEnds(s)
  /\ WatchEnds
  /\ phase \in Closing => MarkEnds

\* A worker that nothing fails ends at its last command.
WorkerStays ==
  phase \in {"running", "awaiting_batch", "awaiting_flush"} => worker # "gone"

\* Nothing is queued behind the farewell, and nothing is left when it is over.
FarewellLast ==
  /\ \A i \in 1 .. Len(commands) :
       commands[i].op = "Shutdown" => i = Len(commands) /\ phase = "joining"
  /\ phase = "stopped" => commands = <<>>

StopInv ==
  failures = 0 /\ phase # "down" => FarewellLast /\ WorkerStays /\ NothingLost

\* A cell still settles at its value when other commands are queued.
LEMMA EndsKept ==
  ASSUME NEW W, NEW v, NEW u, NEW cell, NEW value,
         Ends(W, v, cell, value), \A i \in W : u[i] = v[i]
  PROVE  Ends(W, u, cell, value)
  BY DEF Ends

\* It settles at a new value that is queued behind all others.
LEMMA EndsSent ==
  ASSUME NEW n \in Nat, NEW W \in SUBSET (1 .. n + 1), n + 1 \in W,
         NEW v, NEW cell, NEW value, v[n + 1] = value
  PROVE  Ends(W, v, cell, value)
<1>1. \A i \in W : (\A j \in W : j <= i) => i = n + 1
  OBVIOUS
<1> QED
  BY <1>1 DEF Ends

\* The first of n commands, executed: the others move up.
FirstTaken(n, W, v, cell, X, u, new) ==
  /\ n \in Nat \ {0} /\ W \in SUBSET (1 .. n) /\ X \in SUBSET (1 .. n - 1)
  /\ \A i \in 1 .. n - 1 : i \in X <=> i + 1 \in W
  /\ \A i \in X : u[i] = v[i + 1]
  /\ 1 \in W => new = v[1]
  /\ 1 \notin W => new = cell

\* It settles at the same value once the first command is executed.
LEMMA EndsTaken ==
  ASSUME NEW n, NEW W, NEW v, NEW cell, NEW value, NEW X, NEW u, NEW new,
         FirstTaken(n, W, v, cell, X, u, new), Ends(W, v, cell, value)
  PROVE  Ends(X, u, new, value)
<1>0. /\ n \in Nat \ {0} /\ W \in SUBSET (1 .. n) /\ X \in SUBSET (1 .. n - 1)
      /\ \A i \in 1 .. n - 1 : i \in X <=> i + 1 \in W
      /\ \A i \in X : u[i] = v[i + 1]
      /\ 1 \in W => new = v[1]
      /\ 1 \notin W => new = cell
  BY DEF FirstTaken
<1>1. \A j \in W : j = 1 \/ (j - 1 \in X /\ (j - 1) + 1 = j)
  BY <1>0
<1>2. ASSUME X = {} PROVE new = value
  <2>1. \A j \in W : j = 1
    BY <1>1, <1>2
  <2>2. CASE W = {}
    BY <1>0, <2>2 DEF Ends
  <2>3. CASE W # {}
    <3>1. 1 \in W /\ \A j \in W : j <= 1
      BY <2>1, <2>3
    <3> QED
      BY <1>0, <3>1 DEF Ends
  <2> QED
    BY <2>2, <2>3
<1>3. ASSUME NEW i \in X, \A j \in X : j <= i PROVE u[i] = value
  <2>1. i \in 1 .. n - 1 /\ i + 1 \in W /\ i \in Nat /\ n \in Nat
    BY <1>0
  <2>2. \A j \in W : j <= i + 1
    <3> SUFFICES ASSUME NEW j \in W PROVE j <= i + 1
      OBVIOUS
    <3>1. j \in Int
      BY <1>0
    <3>2. CASE j = 1
      BY <2>1, <3>2
    <3>3. CASE j - 1 \in X
      <4>1. j - 1 <= i
        BY <1>3, <3>3
      <4> QED
        BY <2>1, <3>1, <4>1
    <3> QED
      BY <1>1, <3>2, <3>3
  <2> QED
    BY <1>0, <2>1, <2>2 DEF Ends
<1> QED
  BY <1>2, <1>3 DEF Ends

\* The two commands write the same.
Same(c, d) ==
  /\ c.op = d.op
  /\ c.op = "PersistBatch" => c.captures = d.captures /\ c.revisions = d.revisions
  /\ c.op = "ReplaceWatchlist" => c.symbols = d.symbols
  /\ c.op = "MarkCleanShutdown" => c.timestamp = d.timestamp

\* Commands are queued behind the others.
Grown(cmds) ==
  /\ Len(commands') = Len(commands) + Len(cmds)
  /\ \A i \in 1 .. Len(commands) : Same(commands'[i], commands[i])
  /\ \A k \in 1 .. Len(cmds) : commands'[Len(commands) + k] = cmds[k]

\* Giving up a wait changes nothing of what will be written.
LEMMA AbandonedSame ==
  ASSUME NEW cmds \in Seq(Command), NEW i \in 1 .. Len(cmds)
  PROVE  Same(Abandoned(cmds)[i], cmds[i])
<1>1. cmds[i] \in Command /\ i \in DOMAIN cmds
  BY ElementOfSeq, LenProperties
<1>2. CASE cmds[i].op \in {"PersistBatch", "Flush"}
  <2>1. Abandoned(cmds)[i] = [cmds[i] EXCEPT !.waiting = FALSE]
    BY <1>1, <1>2 DEF Abandoned
  <2> QED
    BY <1>1, <1>2, <2>1 DEF Command, Same
<1>3. CASE cmds[i].op \notin {"PersistBatch", "Flush"}
  BY <1>1, <1>3 DEF Abandoned, Same
<1> QED
  BY <1>2, <1>3

\* Every sending to a worker that is there lets the queue grow.
LEMMA SendGrows ==
  ASSUME TypeOK, NEW cmds \in Seq(Command),
         commands' = commands \o cmds \/ commands' = Abandoned(commands) \o cmds
  PROVE  Grown(cmds)
<1>1. commands \in Seq(Command) /\ Len(commands) \in Nat /\ Len(cmds) \in Nat
  BY LenProperties DEF TypeOK
<1>2. PICK q : (q = commands \/ q = Abandoned(commands)) /\ commands' = q \o cmds
  OBVIOUS
<1>3. /\ q \in Seq(Command) /\ Len(q) = Len(commands)
      /\ \A i \in 1 .. Len(commands) : Same(q[i], commands[i])
  BY <1>1, <1>2, AbandonedType, AbandonedSame DEF Same
<1>4. /\ Len(q \o cmds) = Len(q) + Len(cmds)
      /\ \A i \in 1 .. Len(q) : (q \o cmds)[i] = q[i]
      /\ \A k \in 1 .. Len(cmds) : (q \o cmds)[Len(q) + k] = cmds[k]
  <2>1. /\ Len(q \o cmds) = Len(q) + Len(cmds)
        /\ \A i \in 1 .. Len(q) + Len(cmds) :
             (q \o cmds)[i] = IF i <= Len(q) THEN q[i] ELSE cmds[i - Len(q)]
    BY <1>3, ConcatProperties
  <2>2. \A k \in 1 .. Len(cmds) : /\ Len(q) + k \in 1 .. Len(q) + Len(cmds)
                                  /\ ~(Len(q) + k <= Len(q)) /\ Len(q) + k - Len(q) = k
    BY <1>1, <1>3
  <2>3. \A i \in 1 .. Len(q) : i \in 1 .. Len(q) + Len(cmds) /\ i <= Len(q)
    BY <1>1, <1>3
  <2> QED
    BY <2>1, <2>2, <2>3
<1> QED
  BY <1>2, <1>3, <1>4 DEF Grown

LEMMA GrownIndices ==
  ASSUME TypeOK, NEW cmds \in Seq(Command), Grown(cmds)
  PROVE  /\ Len(commands) \in Nat /\ Len(cmds) \in Nat
         /\ Len(commands') = Len(commands) + Len(cmds)
         /\ \A i \in 1 .. Len(commands) : i \in 1 .. Len(commands')
         /\ \A k \in 1 .. Len(cmds) : Len(commands) + k \in 1 .. Len(commands')
         /\ \A i \in 1 .. Len(commands') :
              i \in 1 .. Len(commands) \/ \E k \in 1 .. Len(cmds) : i = Len(commands) + k
<1>1. Len(commands) \in Nat /\ Len(cmds) \in Nat /\ Len(commands') = Len(commands) + Len(cmds)
  BY LenProperties DEF TypeOK, Grown
<1>2. ASSUME NEW i \in 1 .. Len(commands'), i \notin 1 .. Len(commands)
      PROVE  \E k \in 1 .. Len(cmds) : i = Len(commands) + k
  <2>1. i - Len(commands) \in 1 .. Len(cmds) /\ i = Len(commands) + (i - Len(commands))
    BY <1>1, <1>2
  <2> QED
    BY <2>1
<1> QED
  BY <1>1, <1>2

\* A queue that has grown by commands that do not write a cell settles it as
\* before; one that writes it last settles it at the new value.
LEMMA RowGrown ==
  ASSUME TypeOK, NEW cmds \in Seq(Command), Grown(cmds), NEW s \in Symbols,
         symbol_latest'[s] = symbol_latest[s],
         \/ /\ RowEnds(s) /\ live'[s] = live[s]
            /\ \A k \in 1 .. Len(cmds) : ~WritesRow(cmds[k], s)
         \/ Len(cmds) = 1 /\ WritesRow(cmds[1], s) /\ cmds[1].revisions[s] = live'[s]
  PROVE  RowEnds(s)'
<1>1. /\ Len(commands) \in Nat /\ Len(cmds) \in Nat
      /\ Len(commands') = Len(commands) + Len(cmds)
      /\ \A i \in 1 .. Len(commands) : i \in 1 .. Len(commands')
      /\ \A i \in 1 .. Len(commands') :
           i \in 1 .. Len(commands) \/ \E k \in 1 .. Len(cmds) : i = Len(commands) + k
  BY GrownIndices
<1>2. \A i \in 1 .. Len(commands) :
        /\ WritesRow(commands'[i], s) <=> WritesRow(commands[i], s)
        /\ WritesRow(commands[i], s) => commands'[i].revisions[s] = commands[i].revisions[s]
  BY DEF Grown, Same, WritesRow
<1>4. ASSUME RowEnds(s), live'[s] = live[s], \A k \in 1 .. Len(cmds) : ~WritesRow(cmds[k], s)
      PROVE  RowEnds(s)'
  <2>1. RowWrites(s)' = RowWrites(s)
    <3>1. \A i \in 1 .. Len(commands') :
            i \in 1 .. Len(commands) \/ ~WritesRow(commands'[i], s)
      BY <1>1, <1>4 DEF Grown
    <3> QED
      BY <1>1, <1>2, <3>1 DEF RowWrites
  <2>2. PICK v, u :
          /\ v = [j \in 1 .. Len(commands) |-> commands[j].revisions[s]]
          /\ u = [j \in 1 .. Len(commands') |-> commands'[j].revisions[s]]
    OBVIOUS
  <2>3. \A i \in RowWrites(s) : u[i] = v[i]
    BY <1>1, <1>2, <2>2 DEF RowWrites
  <2>4. Ends(RowWrites(s), v, symbol_latest[s], live[s])
    BY <1>4, <2>2 DEF RowEnds
  <2>5. Ends(RowWrites(s), u, symbol_latest[s], live[s])
    BY <2>3, <2>4, EndsKept
  <2> QED
    BY <1>4, <2>1, <2>2, <2>5 DEF RowEnds
<1>5. ASSUME Len(cmds) = 1, WritesRow(cmds[1], s), cmds[1].revisions[s] = live'[s]
      PROVE  RowEnds(s)'
  <2> DEFINE n == Len(commands)
  <2>1. n + 1 \in 1 .. Len(commands') /\ commands'[n + 1] = cmds[1] /\ Len(commands') = n + 1
    BY <1>1, <1>5 DEF Grown
  <2>2. RowWrites(s)' \in SUBSET (1 .. n + 1) /\ n + 1 \in RowWrites(s)'
    BY <1>5, <2>1 DEF RowWrites
  <2>3. [j \in 1 .. Len(commands') |-> commands'[j].revisions[s]][n + 1] = live'[s]
    BY <1>5, <2>1
  <2> QED
    BY <1>1, <2>2, <2>3, EndsSent DEF RowEnds
<1> QED
  BY <1>4, <1>5

LEMMA WatchGrown ==
  ASSUME TypeOK, NEW cmds \in Seq(Command), Grown(cmds), watchlist_table' = watchlist_table,
         \/ /\ WatchEnds /\ watchlist' = watchlist
            /\ \A k \in 1 .. Len(cmds) : cmds[k].op # "ReplaceWatchlist"
         \/ /\ 1 \in 1 .. Len(cmds) /\ cmds[1].op = "ReplaceWatchlist" /\ cmds[1].symbols = watchlist'
            /\ \A k \in 2 .. Len(cmds) : cmds[k].op # "ReplaceWatchlist"
  PROVE  WatchEnds'
<1>1. /\ Len(commands) \in Nat /\ Len(cmds) \in Nat
      /\ Len(commands') = Len(commands) + Len(cmds)
      /\ \A i \in 1 .. Len(commands) : i \in 1 .. Len(commands')
      /\ \A i \in 1 .. Len(commands') :
           i \in 1 .. Len(commands) \/ \E k \in 1 .. Len(cmds) : i = Len(commands) + k
  BY GrownIndices
<1>2. \A i \in 1 .. Len(commands) :
        /\ commands'[i].op = commands[i].op
        /\ commands[i].op = "ReplaceWatchlist" => commands'[i].symbols = commands[i].symbols
  BY DEF Grown, Same
<1>3. ASSUME WatchEnds, watchlist' = watchlist, \A k \in 1 .. Len(cmds) : cmds[k].op # "ReplaceWatchlist"
      PROVE  WatchEnds'
  <2>1. WatchWrites' = WatchWrites
    <3>1. \A i \in 1 .. Len(commands') :
            i \in 1 .. Len(commands) \/ commands'[i].op # "ReplaceWatchlist"
      BY <1>1, <1>3 DEF Grown
    <3> QED
      BY <1>1, <1>2, <3>1 DEF WatchWrites
  <2>2. PICK v, u :
          /\ v = [j \in 1 .. Len(commands) |-> commands[j].symbols]
          /\ u = [j \in 1 .. Len(commands') |-> commands'[j].symbols]
    OBVIOUS
  <2>3. \A i \in WatchWrites : u[i] = v[i]
    BY <1>1, <1>2, <2>2 DEF WatchWrites
  <2>4. Ends(WatchWrites, v, watchlist_table, watchlist)
    BY <1>3, <2>2 DEF WatchEnds
  <2>5. Ends(WatchWrites, u, watchlist_table, watchlist)
    BY <2>3, <2>4, EndsKept
  <2> QED
    BY <1>3, <2>1, <2>2, <2>5 DEF WatchEnds
<1>4. ASSUME 1 \in 1 .. Len(cmds), cmds[1].op = "ReplaceWatchlist", cmds[1].symbols = watchlist',
             \A k \in 2 .. Len(cmds) : cmds[k].op # "ReplaceWatchlist"
      PROVE  WatchEnds'
  <2> DEFINE n == Len(commands)
  <2>1. n + 1 \in 1 .. Len(commands') /\ commands'[n + 1] = cmds[1]
    BY <1>1, <1>4 DEF Grown
  <2>2. \A i \in WatchWrites' : i \in 1 .. n + 1
    <3> SUFFICES ASSUME NEW i \in WatchWrites' PROVE i \in 1 .. n + 1
      OBVIOUS
    <3>1. i \in 1 .. Len(commands') /\ commands'[i].op = "ReplaceWatchlist"
      BY DEF WatchWrites
    <3>2. CASE i \in 1 .. n
      BY <1>1, <3>2
    <3>3. ASSUME NEW k \in 1 .. Len(cmds), i = n + k
          PROVE  i \in 1 .. n + 1
      <4>1. cmds[k].op = "ReplaceWatchlist"
        BY <3>1, <3>3 DEF Grown
      <4>2. k \notin 2 .. Len(cmds)
        BY <1>4, <4>1
      <4> QED
        BY <1>1, <3>3, <4>2
    <3> QED
      BY <1>1, <3>1, <3>2, <3>3
  <2>3. WatchWrites' \in SUBSET (1 .. n + 1) /\ n + 1 \in WatchWrites'
    BY <1>4, <2>1, <2>2 DEF WatchWrites
  <2>4. [j \in 1 .. Len(commands') |-> commands'[j].symbols][n + 1] = watchlist'
    BY <1>4, <2>1
  <2> QED
    BY <1>1, <2>3, <2>4, EndsSent DEF WatchEnds
<1> QED
  BY <1>3, <1>4

LEMMA MarkGrown ==
  ASSUME TypeOK, NEW cmds \in Seq(Command), Grown(cmds), clean_shutdown' = clean_shutdown,
         \/ /\ MarkEnds /\ clock' = clock
            /\ \A k \in 1 .. Len(cmds) : cmds[k].op # "MarkCleanShutdown"
         \/ /\ 1 \in 1 .. Len(cmds) /\ cmds[1].op = "MarkCleanShutdown" /\ cmds[1].timestamp = clock'
            /\ \A k \in 2 .. Len(cmds) : cmds[k].op # "MarkCleanShutdown"
  PROVE  MarkEnds'
<1>1. /\ Len(commands) \in Nat /\ Len(cmds) \in Nat
      /\ Len(commands') = Len(commands) + Len(cmds)
      /\ \A i \in 1 .. Len(commands) : i \in 1 .. Len(commands')
      /\ \A i \in 1 .. Len(commands') :
           i \in 1 .. Len(commands) \/ \E k \in 1 .. Len(cmds) : i = Len(commands) + k
  BY GrownIndices
<1>2. \A i \in 1 .. Len(commands) :
        /\ commands'[i].op = commands[i].op
        /\ commands[i].op = "MarkCleanShutdown" => commands'[i].timestamp = commands[i].timestamp
  BY DEF Grown, Same
<1>3. ASSUME MarkEnds, clock' = clock, \A k \in 1 .. Len(cmds) : cmds[k].op # "MarkCleanShutdown"
      PROVE  MarkEnds'
  <2>1. MarkWrites' = MarkWrites
    <3>1. \A i \in 1 .. Len(commands') :
            i \in 1 .. Len(commands) \/ commands'[i].op # "MarkCleanShutdown"
      BY <1>1, <1>3 DEF Grown
    <3> QED
      BY <1>1, <1>2, <3>1 DEF MarkWrites
  <2>2. PICK v, u :
          /\ v = [j \in 1 .. Len(commands) |-> commands[j].timestamp]
          /\ u = [j \in 1 .. Len(commands') |-> commands'[j].timestamp]
    OBVIOUS
  <2>3. \A i \in MarkWrites : u[i] = v[i]
    BY <1>1, <1>2, <2>2 DEF MarkWrites
  <2>4. Ends(MarkWrites, v, clean_shutdown, clock)
    BY <1>3, <2>2 DEF MarkEnds
  <2>5. Ends(MarkWrites, u, clean_shutdown, clock)
    BY <2>3, <2>4, EndsKept
  <2> QED
    BY <1>3, <2>1, <2>2, <2>5 DEF MarkEnds
<1>4. ASSUME 1 \in 1 .. Len(cmds), cmds[1].op = "MarkCleanShutdown", cmds[1].timestamp = clock',
             \A k \in 2 .. Len(cmds) : cmds[k].op # "MarkCleanShutdown"
      PROVE  MarkEnds'
  <2> DEFINE n == Len(commands)
  <2>1. n + 1 \in 1 .. Len(commands') /\ commands'[n + 1] = cmds[1]
    BY <1>1, <1>4 DEF Grown
  <2>2. \A i \in MarkWrites' : i \in 1 .. n + 1
    <3> SUFFICES ASSUME NEW i \in MarkWrites' PROVE i \in 1 .. n + 1
      OBVIOUS
    <3>1. i \in 1 .. Len(commands') /\ commands'[i].op = "MarkCleanShutdown"
      BY DEF MarkWrites
    <3>2. CASE i \in 1 .. n
      BY <1>1, <3>2
    <3>3. ASSUME NEW k \in 1 .. Len(cmds), i = n + k
          PROVE  i \in 1 .. n + 1
      <4>1. cmds[k].op = "MarkCleanShutdown"
        BY <3>1, <3>3 DEF Grown
      <4>2. k \notin 2 .. Len(cmds)
        BY <1>4, <4>1
      <4> QED
        BY <1>1, <3>3, <4>2
    <3> QED
      BY <1>1, <3>1, <3>2, <3>3
  <2>3. MarkWrites' \in SUBSET (1 .. n + 1) /\ n + 1 \in MarkWrites'
    BY <1>4, <2>1, <2>2 DEF MarkWrites
  <2>4. [j \in 1 .. Len(commands') |-> commands'[j].timestamp][n + 1] = clock'
    BY <1>4, <2>1
  <2> QED
    BY <1>1, <2>3, <2>4, EndsSent DEF MarkEnds
<1> QED
  BY <1>3, <1>4

\* What is queued stays queued, and what a new batch holds is.
LEMMA CapturedGrown ==
  ASSUME TypeOK, NEW cmds \in Seq(Command), Grown(cmds), UNCHANGED raw_capture,
         NEW e, Captured(e) \/ \E k \in 1 .. Len(cmds) : /\ cmds[k].op = "PersistBatch"
                                                       /\ e.id \in cmds[k].captures
  PROVE  Captured(e)'
<1>1. /\ \A i \in 1 .. Len(commands) : i \in 1 .. Len(commands')
      /\ \A k \in 1 .. Len(cmds) : Len(commands) + k \in 1 .. Len(commands')
  BY GrownIndices
<1> QED
  BY <1>1 DEF Captured, Grown, Same

\* A command taken from the queue and executed leaves every cell to settle at
\* the same value.
LEMMA RowTaken ==
  ASSUME TypeOK, commands # <<>>, commands' = Tail(commands), NEW s \in Symbols,
         RowEnds(s), live'[s] = live[s],
         symbol_latest'[s] = IF WritesRow(Head(commands), s) THEN Head(commands).revisions[s]
                             ELSE symbol_latest[s]
  PROVE  RowEnds(s)'
<1>1. /\ Head(commands) = commands[1] /\ 1 \in 1 .. Len(commands)
      /\ Len(Tail(commands)) = Len(commands) - 1 /\ Len(commands) \in Nat
      /\ \A i \in 1 .. Len(Tail(commands)) :
           Tail(commands)[i] = commands[i + 1] /\ i + 1 \in 1 .. Len(commands)
  BY Rest
<1>2. PICK v, u :
        /\ v = [j \in 1 .. Len(commands) |-> commands[j].revisions[s]]
        /\ u = [j \in 1 .. Len(commands') |-> commands'[j].revisions[s]]
  OBVIOUS
<1>3. RowWrites(s)' = {i \in 1 .. Len(commands) - 1 : i + 1 \in RowWrites(s)}
  BY <1>1 DEF RowWrites, WritesRow
<1>4. \A i \in RowWrites(s)' : u[i] = v[i + 1]
  BY <1>1, <1>2 DEF RowWrites
<1>5. symbol_latest'[s] = IF 1 \in RowWrites(s) THEN v[1] ELSE symbol_latest[s]
  BY <1>1, <1>2 DEF RowWrites
<1>6. RowWrites(s) \in SUBSET (1 .. Len(commands)) /\ Len(commands) \in Nat \ {0}
  BY <1>1 DEF RowWrites
<1>7. Ends(RowWrites(s), v, symbol_latest[s], live[s])
  BY <1>2 DEF RowEnds
<1>8. Ends(RowWrites(s)', u, symbol_latest'[s], live[s])
  <2>1. PICK W, X, before, after, n :
          /\ W = RowWrites(s) /\ X = RowWrites(s)' /\ n = Len(commands)
          /\ before = symbol_latest[s] /\ after = symbol_latest'[s]
    OBVIOUS
  <2>2. FirstTaken(n, W, v, before, X, u, after)
    BY <1>3, <1>4, <1>5, <1>6, <2>1 DEF FirstTaken
  <2>3. Ends(W, v, before, live[s])
    BY <1>7, <2>1
  <2>4. Ends(X, u, after, live[s])
    BY <2>2, <2>3, EndsTaken
  <2> QED
    BY <2>1, <2>4
<1> QED
  BY <1>2, <1>8 DEF RowEnds

LEMMA WatchTaken ==
  ASSUME TypeOK, commands # <<>>, commands' = Tail(commands), WatchEnds, watchlist' = watchlist,
         watchlist_table' = IF Head(commands).op = "ReplaceWatchlist" THEN Head(commands).symbols
                   ELSE watchlist_table
  PROVE  WatchEnds'
<1>1. /\ Head(commands) = commands[1] /\ 1 \in 1 .. Len(commands)
      /\ Len(Tail(commands)) = Len(commands) - 1 /\ Len(commands) \in Nat
      /\ \A i \in 1 .. Len(Tail(commands)) :
           Tail(commands)[i] = commands[i + 1] /\ i + 1 \in 1 .. Len(commands)
  BY Rest
<1>2. PICK v, u :
        /\ v = [j \in 1 .. Len(commands) |-> commands[j].symbols]
        /\ u = [j \in 1 .. Len(commands') |-> commands'[j].symbols]
  OBVIOUS
<1>3. WatchWrites' = {i \in 1 .. Len(commands) - 1 : i + 1 \in WatchWrites}
  BY <1>1 DEF WatchWrites
<1>4. \A i \in WatchWrites' : u[i] = v[i + 1]
  BY <1>1, <1>2 DEF WatchWrites
<1>5. watchlist_table' = IF 1 \in WatchWrites THEN v[1] ELSE watchlist_table
  BY <1>1, <1>2 DEF WatchWrites
<1>6. WatchWrites \in SUBSET (1 .. Len(commands)) /\ Len(commands) \in Nat \ {0}
  BY <1>1 DEF WatchWrites
<1>7. Ends(WatchWrites, v, watchlist_table, watchlist)
  BY <1>2 DEF WatchEnds
<1>8. Ends(WatchWrites', u, watchlist_table', watchlist)
  <2>1. PICK W, X, before, after, n :
          /\ W = WatchWrites /\ X = WatchWrites' /\ n = Len(commands)
          /\ before = watchlist_table /\ after = watchlist_table'
    OBVIOUS
  <2>2. FirstTaken(n, W, v, before, X, u, after)
    BY <1>3, <1>4, <1>5, <1>6, <2>1 DEF FirstTaken
  <2>3. Ends(W, v, before, watchlist)
    BY <1>7, <2>1
  <2>4. Ends(X, u, after, watchlist)
    BY <2>2, <2>3, EndsTaken
  <2> QED
    BY <2>1, <2>4
<1> QED
  BY <1>2, <1>8 DEF WatchEnds

LEMMA MarkTaken ==
  ASSUME TypeOK, commands # <<>>, commands' = Tail(commands), MarkEnds, clock' = clock,
         clean_shutdown' = IF Head(commands).op = "MarkCleanShutdown" THEN Head(commands).timestamp
                   ELSE clean_shutdown
  PROVE  MarkEnds'
<1>1. /\ Head(commands) = commands[1] /\ 1 \in 1 .. Len(commands)
      /\ Len(Tail(commands)) = Len(commands) - 1 /\ Len(commands) \in Nat
      /\ \A i \in 1 .. Len(Tail(commands)) :
           Tail(commands)[i] = commands[i + 1] /\ i + 1 \in 1 .. Len(commands)
  BY Rest
<1>2. PICK v, u :
        /\ v = [j \in 1 .. Len(commands) |-> commands[j].timestamp]
        /\ u = [j \in 1 .. Len(commands') |-> commands'[j].timestamp]
  OBVIOUS
<1>3. MarkWrites' = {i \in 1 .. Len(commands) - 1 : i + 1 \in MarkWrites}
  BY <1>1 DEF MarkWrites
<1>4. \A i \in MarkWrites' : u[i] = v[i + 1]
  BY <1>1, <1>2 DEF MarkWrites
<1>5. clean_shutdown' = IF 1 \in MarkWrites THEN v[1] ELSE clean_shutdown
  BY <1>1, <1>2 DEF MarkWrites
<1>6. MarkWrites \in SUBSET (1 .. Len(commands)) /\ Len(commands) \in Nat \ {0}
  BY <1>1 DEF MarkWrites
<1>7. Ends(MarkWrites, v, clean_shutdown, clock)
  BY <1>2 DEF MarkEnds
<1>8. Ends(MarkWrites', u, clean_shutdown', clock)
  <2>1. PICK W, X, before, after, n :
          /\ W = MarkWrites /\ X = MarkWrites' /\ n = Len(commands)
          /\ before = clean_shutdown /\ after = clean_shutdown'
    OBVIOUS
  <2>2. FirstTaken(n, W, v, before, X, u, after)
    BY <1>3, <1>4, <1>5, <1>6, <2>1 DEF FirstTaken
  <2>3. Ends(W, v, before, clock)
    BY <1>7, <2>1
  <2>4. Ends(X, u, after, clock)
    BY <2>2, <2>3, EndsTaken
  <2> QED
    BY <2>1, <2>4
<1> QED
  BY <1>2, <1>8 DEF MarkEnds

\* Commands that write none of the cells leave what is to come as it was.
LEMMA GrownKeeps ==
  ASSUME TypeOK, NothingLost, NEW cmds \in Seq(Command), Grown(cmds),
         \A k \in 1 .. Len(cmds) :
           cmds[k].op \notin {"PersistBatch", "ReplaceWatchlist", "MarkCleanShutdown"},
         UNCHANGED <<live, journal, watchlist, raw_capture, symbol_latest,
                     watchlist_table, clean_shutdown>>,
         phase' \in Closing => phase \in Closing /\ clock' = clock
  PROVE  NothingLost'
<1>1. \A e \in journal : Captured(e)'
  BY CapturedGrown DEF NothingLost
<1>2. \A s \in Symbols : live[s].snapshot # 0 => RowEnds(s)'
  BY RowGrown DEF NothingLost, WritesRow
<1>3. WatchEnds'
  BY WatchGrown DEF NothingLost
<1>4. phase' \in Closing => MarkEnds'
  BY MarkGrown DEF NothingLost
<1> QED
  BY <1>1, <1>2, <1>3, <1>4 DEF NothingLost

\* Executing the first command leaves it so too.
LEMMA TakenKeeps ==
  ASSUME TypeOK, NothingLost, commands # <<>>, commands' = Tail(commands),
         UNCHANGED <<live, journal, watchlist, clock, phase>>,
         NEW cmd, cmd = Head(commands),
         \/ cmd.op = "PersistBatch" /\ persist_batch(cmd)
         \/ cmd.op # "PersistBatch" /\ UNCHANGED <<raw_capture, symbol_latest>>,
         watchlist_table' = IF cmd.op = "ReplaceWatchlist" THEN cmd.symbols ELSE watchlist_table,
         clean_shutdown' = IF cmd.op = "MarkCleanShutdown" THEN cmd.timestamp ELSE clean_shutdown
  PROVE  NothingLost'
<1>1. /\ cmd = commands[1] /\ 1 \in 1 .. Len(commands)
      /\ Len(Tail(commands)) = Len(commands) - 1 /\ Len(commands) \in Nat
      /\ \A i \in 1 .. Len(Tail(commands)) :
           Tail(commands)[i] = commands[i + 1] /\ i + 1 \in 1 .. Len(commands)
  BY Rest
<1>2. ASSUME NEW e \in journal
      PROVE  Captured(e)'
  <2>1. e.id \in Ids /\ raw_capture \in [Ids -> Nat] /\ Captured(e)
    BY DEF TypeOK, NothingLost
  <2>2. raw_capture'[e.id] \in Nat /\ raw_capture'[e.id] >= raw_capture[e.id]
    BY <2>1 DEF persist_batch
  <2>3. CASE raw_capture[e.id] > 0
    BY <2>1, <2>2, <2>3 DEF Captured
  <2>4. ASSUME NEW i \in 1 .. Len(commands), commands[i].op = "PersistBatch",
               e.id \in commands[i].captures
        PROVE  Captured(e)'
    <3>1. CASE i = 1
      <4>1. raw_capture'[e.id] = raw_capture[e.id] + 1
        BY <1>1, <2>1, <2>4, <3>1 DEF persist_batch
      <4> QED
        BY <2>1, <4>1 DEF Captured
    <3>2. CASE i # 1
      <4>1. i - 1 \in 1 .. Len(commands') /\ (i - 1) + 1 = i
        BY <1>1, <3>2
      <4>2. commands'[i - 1] = commands[i]
        BY <1>1, <4>1
      <4> QED
        BY <2>4, <4>1, <4>2 DEF Captured
    <3> QED
      BY <3>1, <3>2
  <2> QED
    BY <2>1, <2>3, <2>4 DEF Captured
<1>3. ASSUME NEW s \in Symbols, live[s].snapshot # 0
      PROVE  RowEnds(s)'
  <2>1. symbol_latest'[s] = IF WritesRow(cmd, s) THEN cmd.revisions[s] ELSE symbol_latest[s]
    BY DEF persist_batch, WritesRow
  <2> QED
    BY <1>3, <2>1, RowTaken DEF NothingLost
<1>4. WatchEnds'
  BY WatchTaken DEF NothingLost
<1>5. phase' \in Closing => MarkEnds'
  BY MarkTaken DEF NothingLost
<1> QED
  BY <1>2, <1>3, <1>4, <1>5 DEF NothingLost

\* The farewell stays the last command.
LEMMA FarewellGrown ==
  ASSUME TypeOK, FarewellLast, phase # "joining", phase' # "stopped",
         NEW cmds \in Seq(Command), Grown(cmds),
         \A k \in 1 .. Len(cmds) :
           cmds[k].op = "Shutdown" => k = Len(cmds) /\ phase' = "joining"
  PROVE  FarewellLast'
<1>1. /\ Len(commands) \in Nat /\ Len(cmds) \in Nat
      /\ Len(commands') = Len(commands) + Len(cmds)
      /\ \A i \in 1 .. Len(commands') :
           i \in 1 .. Len(commands) \/ \E k \in 1 .. Len(cmds) : i = Len(commands) + k
  BY GrownIndices
<1>2. \A i \in 1 .. Len(commands) : commands'[i].op # "Shutdown"
  BY DEF FarewellLast, Grown, Same
<1>3. \A k \in 1 .. Len(cmds) :
        commands'[Len(commands) + k].op = "Shutdown" => k = Len(cmds) /\ phase' = "joining"
  BY DEF Grown
<1> QED
  BY <1>1, <1>2, <1>3 DEF FarewellLast

\* Every step of the main loop that sends something.
LEMMA StopSend ==
  ASSUME TypeOK, TypeOK', FarewellLast, WorkerStays, NothingLost, UNCHANGED worker,
         phase \in {"running", "awaiting_batch", "awaiting_flush"}, phase' \notin {"stopped", "down"},
         NEW cmds \in Seq(Command), Grown(cmds),
         \A k \in 1 .. Len(cmds) : cmds[k].op = "Shutdown" => k = Len(cmds) /\ phase' = "joining",
         NothingLost'
  PROVE  FarewellLast' /\ WorkerStays' /\ NothingLost'
<1>1. FarewellLast'
  BY FarewellGrown
<1>2. WorkerStays'
  BY DEF WorkerStays
<1> QED
  BY <1>1, <1>2

\* Applying a batch and sending what is unsaved.
LEMMA StopFeed ==
  ASSUME TypeOK, TypeOK', IInv, FarewellLast, WorkerStays, NothingLost,
         NEW batch \in Batches, FeedBatch(batch)
  PROVE  FarewellLast' /\ WorkerStays' /\ NothingLost'
<1>1. /\ phase = "running" /\ worker # "gone" /\ clock + Len(batch) <= MAX_EVENTS
      /\ apply_feed_events(batch) /\ reconcile_sqlite_persistence
      /\ UNCHANGED <<last_persisted, watchlist, ack, worker, raw_capture, symbol_latest,
                     watchlist_table, clean_shutdown>>
  BY DEF FeedBatch, diskVars, WorkerStays
<1>2. /\ sequence <= sequence' /\ journal \subseteq journal'
      /\ \A e \in journal' \ journal : e.sequence > sequence
      /\ \A s \in Symbols : live'[s] = live[s] \/ Unsaved(s)'
  BY <1>1, FeedEffect
<1>3. /\ sequence \in Nat /\ last_persisted \in Nat /\ last_persisted <= sequence
      /\ \A e \in journal' : e.sequence \in Nat
  BY DEF TypeOK, IInv, Numbered
<1> DEFINE delta == {e \in journal' : e.sequence > last_persisted}
           captures == {e.id : e \in delta}
           touched == {e.symbol : e \in delta}
<1>4. \A e \in journal' : e \in journal \/ e \in delta
  BY <1>2, <1>3
<1>5. CASE delta = {}
  <2>1. /\ issue' = resolve /\ commands' = Queue(<<ReplaceIssues(issue')>>)
        /\ UNCHANGED <<phase, awaited>>
    BY <1>1, <1>5 DEF reconcile_sqlite_persistence
  <2>2. PICK cmds : cmds = <<ReplaceIssues(issue')>>
    OBVIOUS
  <2>3. ReplaceIssues(issue') \in Command
    BY <2>1, SentCommands
  <2>4. /\ cmds \in Seq(Command) /\ Len(cmds) = 1 /\ cmds[1].op = "ReplaceIssues"
        /\ commands' = commands \o cmds
    BY <1>1, <2>1, <2>2, <2>3 DEF Queue, ReplaceIssues
  <2>5. Grown(cmds)
    BY <2>4, SendGrows
  <2>6. \A e \in journal : e \in journal'
    BY <1>2
  <2>7. journal' = journal
    BY <1>2, <1>4, <1>5
  <2>8. live' = live
    <3>1. \A s \in Symbols : live'[s] = live[s]
      BY <1>1, <1>2, <1>5 DEF Unsaved
    <3>2. live \in [Symbols -> Row] /\ live' \in [Symbols -> Row]
      BY DEF TypeOK
    <3> QED
      BY <3>1, <3>2
  <2>9. NothingLost'
    <3>1. \A k \in 1 .. Len(cmds) :
            cmds[k].op \notin {"PersistBatch", "ReplaceWatchlist", "MarkCleanShutdown"}
      BY <2>4
    <3>2. phase' \notin Closing
      BY <1>1, <2>1 DEF Closing
    <3>3. UNCHANGED <<live, journal, watchlist, raw_capture, symbol_latest,
                      watchlist_table, clean_shutdown>>
      BY <1>1, <2>7, <2>8
    <3> QED
      BY <2>4, <2>5, <3>1, <3>2, <3>3, GrownKeeps
  <2> QED
    BY <1>1, <2>1, <2>4, <2>5, <2>9, StopSend
<1>6. CASE delta # {}
  <2>1. PICK cmd : cmd = PersistBatch(captures, build_symbol_revisions(live', touched))
    OBVIOUS
  <2>2. PICK upto : SendBatch(cmd, upto)
    BY <1>1, <1>6, <2>1 DEF reconcile_sqlite_persistence
  <2>3. /\ cmd.op = "PersistBatch" /\ cmd.captures = captures
        /\ \A s \in Symbols : cmd.revisions[s] =
             IF s \in touched /\ live'[s].snapshot # 0 THEN live'[s] ELSE NoRow
    BY <2>1 DEF PersistBatch, build_symbol_revisions
  <2>4. cmd \in Command
    <3>1. \A e \in journal' : e.id \in Ids
      BY DEF TypeOK
    <3>2. captures \in SUBSET Ids
      BY <3>1
    <3>3. live' \in [Symbols -> Row]
      BY DEF TypeOK
    <3> QED
      BY <2>1, <3>2, <3>3, BatchType
  <2>5. \A s \in Symbols : Unsaved(s)' <=> s \in touched
    BY <1>1 DEF Unsaved
  <2>6. \A e \in delta : e.id \in cmd.captures
    BY <2>3
  <2> HIDE DEF delta, captures, touched
  <2>7. PICK cmds : cmds = <<cmd>>
    OBVIOUS
  <2>8. /\ cmds \in Seq(Command) /\ Len(cmds) = 1 /\ cmds[1] = cmd
        /\ commands' = commands \o cmds /\ phase' = "awaiting_batch"
    <3>1. commands' = Append(commands, cmd) /\ phase' = "awaiting_batch"
      BY <1>1, <2>2 DEF SendBatch
    <3>2. Append(commands, cmd) = commands \o <<cmd>>
      BY <2>4, AppendIsConcat DEF TypeOK
    <3> QED
      BY <2>4, <2>7, <3>1, <3>2
  <2>9. Grown(cmds)
    BY <2>8, SendGrows
  <2>10. NothingLost'
    <3>1. ASSUME NEW e \in journal' PROVE Captured(e)'
      <4>1. Captured(e) \/ e.id \in cmd.captures
        BY <1>4, <2>6, <3>1 DEF NothingLost
      <4>2. e.id \in cmd.captures =>
              \E k \in 1 .. Len(cmds) : cmds[k].op = "PersistBatch" /\ e.id \in cmds[k].captures
        BY <2>3, <2>8
      <4> QED
        BY <1>1, <2>8, <2>9, <4>1, <4>2, CapturedGrown
    <3>2. ASSUME NEW s \in Symbols, live'[s].snapshot # 0 PROVE RowEnds(s)'
      <4>1. CASE s \in touched
        <5>1. cmd.revisions[s] = live'[s] /\ WritesRow(cmd, s)
          BY <2>3, <3>2, <4>1 DEF WritesRow, NoRow
        <5> QED
          BY <1>1, <2>8, <2>9, <5>1, RowGrown
      <4>2. CASE s \notin touched
        <5>1. live'[s] = live[s] /\ ~WritesRow(cmd, s)
          BY <1>2, <2>3, <2>5, <4>2 DEF WritesRow
        <5>2. RowEnds(s)
          BY <3>2, <5>1 DEF NothingLost
        <5>3. \A k \in 1 .. Len(cmds) : ~WritesRow(cmds[k], s)
          BY <2>8, <5>1
        <5> QED
          BY <1>1, <2>8, <2>9, <5>1, <5>2, <5>3, RowGrown
      <4> QED
        BY <4>1, <4>2
    <3>3. WatchEnds'
      <4>1. \A k \in 1 .. Len(cmds) : cmds[k].op # "ReplaceWatchlist"
        BY <2>3, <2>8
      <4> QED
        BY <1>1, <2>8, <2>9, <4>1, WatchGrown DEF NothingLost
    <3> QED
      BY <2>8, <3>1, <3>2, <3>3 DEF NothingLost, Closing
  <2>11. \A k \in 1 .. Len(cmds) : cmds[k].op # "Shutdown"
    BY <2>3, <2>8
  <2> QED
    BY <1>1, <2>8, <2>9, <2>10, <2>11, StopSend
<1> QED
  BY <1>5, <1>6

\* Saving a chart result with the row of its symbol.
LEMMA StopChart ==
  ASSUME TypeOK, TypeOK', FarewellLast, WorkerStays, NothingLost,
         NEW t \in Symbols, ChartData(t)
  PROVE  FarewellLast' /\ WorkerStays' /\ NothingLost'
<1>1. PICK cmd : cmd = PersistBatch({}, build_symbol_revisions(live, {t}))
  OBVIOUS
<1>2. /\ phase = "running" /\ worker # "gone" /\ SendBatch(cmd, NoBatch)
      /\ UNCHANGED <<live, journal, watchlist, worker, raw_capture, symbol_latest,
                     watchlist_table, clean_shutdown>>
  BY <1>1 DEF ChartData, diskVars, WorkerStays
<1>3. /\ cmd.op = "PersistBatch"
      /\ \A s \in Symbols : cmd.revisions[s] \in {live[s], NoRow}
  BY <1>1 DEF PersistBatch, build_symbol_revisions
<1>4. cmd \in Command
  <2>1. live \in [Symbols -> Row]
    BY DEF TypeOK
  <2> QED
    BY <1>1, <2>1, BatchType
<1>5. PICK cmds : cmds = <<cmd>>
  OBVIOUS
<1>6. /\ cmds \in Seq(Command) /\ Len(cmds) = 1 /\ cmds[1] = cmd
      /\ commands' = commands \o cmds /\ phase' = "awaiting_batch"
  <2>1. commands' = Append(commands, cmd) /\ phase' = "awaiting_batch"
    BY <1>2 DEF SendBatch
  <2>2. Append(commands, cmd) = commands \o <<cmd>>
    BY <1>4, AppendIsConcat DEF TypeOK
  <2> QED
    BY <1>4, <1>5, <2>1, <2>2
<1>7. Grown(cmds)
  BY <1>6, SendGrows
<1>8. \A k \in 1 .. Len(cmds) : cmds[k].op = "PersistBatch"
  BY <1>3, <1>6
<1>9. NothingLost'
  <2>1. \A e \in journal : Captured(e)'
    BY <1>2, <1>6, <1>7, CapturedGrown DEF NothingLost
  <2>2. ASSUME NEW s \in Symbols, live[s].snapshot # 0 PROVE RowEnds(s)'
    <3>1. RowEnds(s)
      BY <2>2 DEF NothingLost
    <3>2. WritesRow(cmd, s) => cmd.revisions[s] = live'[s]
      BY <1>2, <1>3 DEF WritesRow
    <3>3. CASE WritesRow(cmd, s)
      BY <1>2, <1>6, <1>7, <3>2, <3>3, RowGrown
    <3>4. CASE ~WritesRow(cmd, s)
      <4>1. \A k \in 1 .. Len(cmds) : ~WritesRow(cmds[k], s)
        BY <1>6, <3>4
      <4> QED
        BY <1>2, <1>6, <1>7, <3>1, <4>1, RowGrown
    <3> QED
      BY <3>3, <3>4
  <2>3. WatchEnds'
    BY <1>2, <1>6, <1>7, <1>8, WatchGrown DEF NothingLost
  <2> QED
    BY <1>2, <1>6, <2>1, <2>2, <2>3 DEF NothingLost, Closing
<1> QED
  BY <1>2, <1>6, <1>7, <1>8, <1>9, StopSend

\* Commands of which none is a batch, sent by the main loop, with the
\* watchlist or the mark they announce.
LEMMA StopLight ==
  ASSUME TypeOK, TypeOK', FarewellLast, WorkerStays, NothingLost,
         phase \in {"running", "awaiting_batch", "awaiting_flush"},
         phase' \in {"running", "awaiting_flush", "joining"},
         UNCHANGED <<live, journal, worker, raw_capture, symbol_latest,
                     watchlist_table, clean_shutdown, clock>>,
         NEW cmds \in Seq(Command),
         commands' = commands \o cmds \/ commands' = Abandoned(commands) \o cmds,
         \A k \in 1 .. Len(cmds) : /\ cmds[k].op # "PersistBatch"
                                   /\ cmds[k].op = "Shutdown" => k = Len(cmds) /\ phase' = "joining",
         \/ watchlist' = watchlist /\ \A k \in 1 .. Len(cmds) : cmds[k].op # "ReplaceWatchlist"
         \/ Len(cmds) = 1 /\ cmds[1].op = "ReplaceWatchlist" /\ cmds[1].symbols = watchlist',
         phase' \in Closing =>
           \/ phase \in Closing /\ \A k \in 1 .. Len(cmds) : cmds[k].op # "MarkCleanShutdown"
           \/ /\ Len(cmds) = 2 /\ cmds[1].op = "MarkCleanShutdown" /\ cmds[1].timestamp = clock
              /\ cmds[2].op = "Flush"
  PROVE  FarewellLast' /\ WorkerStays' /\ NothingLost'
<1>1. Grown(cmds)
  BY SendGrows
<1>2. \A e \in journal : Captured(e)'
  BY <1>1, CapturedGrown DEF NothingLost
<1>3. ASSUME NEW s \in Symbols, live[s].snapshot # 0 PROVE RowEnds(s)'
  <2>1. RowEnds(s)
    BY <1>3 DEF NothingLost
  <2>2. \A k \in 1 .. Len(cmds) : ~WritesRow(cmds[k], s)
    BY DEF WritesRow
  <2> QED
    BY <1>1, <2>1, <2>2, RowGrown
<1>4. WatchEnds'
  <2>1. CASE watchlist' = watchlist /\ \A k \in 1 .. Len(cmds) : cmds[k].op # "ReplaceWatchlist"
    BY <1>1, <2>1, WatchGrown DEF NothingLost
  <2>2. CASE Len(cmds) = 1 /\ cmds[1].op = "ReplaceWatchlist" /\ cmds[1].symbols = watchlist'
    <3>1. 1 \in 1 .. Len(cmds) /\ \A k \in 2 .. Len(cmds) : FALSE
      BY <2>2
    <3> QED
      BY <1>1, <2>2, <3>1, WatchGrown
  <2> QED
    BY <2>1, <2>2
<1>5. ASSUME phase' \in Closing PROVE MarkEnds'
  <2>1. CASE phase \in Closing /\ \A k \in 1 .. Len(cmds) : cmds[k].op # "MarkCleanShutdown"
    BY <1>1, <2>1, MarkGrown DEF NothingLost
  <2>2. CASE /\ Len(cmds) = 2 /\ cmds[1].op = "MarkCleanShutdown"
             /\ cmds[1].timestamp = clock /\ cmds[2].op = "Flush"
    <3>1. 1 \in 1 .. Len(cmds) /\ \A k \in 2 .. Len(cmds) : k = 2
      BY <2>2
    <3>2. \A k \in 2 .. Len(cmds) : cmds[k].op # "MarkCleanShutdown"
      BY <2>2, <3>1
    <3> QED
      BY <1>1, <2>2, <3>1, <3>2, MarkGrown
  <2> QED
    BY <1>5, <2>1, <2>2
<1>6. NothingLost'
  BY <1>2, <1>3, <1>4, <1>5 DEF NothingLost
<1>7. \A k \in 1 .. Len(cmds) : cmds[k].op = "Shutdown" => k = Len(cmds) /\ phase' = "joining"
  OBVIOUS
<1> QED
  BY <1>1, <1>6, <1>7, StopSend

\* Quitting: the mark and the flush go behind everything else.
LEMMA StopQuit ==
  ASSUME TypeOK, TypeOK', FarewellLast, WorkerStays, NothingLost,
         phase = "running", BeginShutdown,
         UNCHANGED <<live, journal, watchlist, worker, raw_capture, symbol_latest,
                     watchlist_table, clean_shutdown, clock>>
  PROVE  FarewellLast' /\ WorkerStays' /\ NothingLost'
<1>1. PICK mark, flush, cmds :
        /\ mark = [op |-> "MarkCleanShutdown", timestamp |-> clock]
        /\ flush = [op |-> "Flush", waiting |-> TRUE]
        /\ cmds = <<mark, flush>>
  OBVIOUS
<1>2. mark \in Command /\ flush \in Command
  BY <1>1, SentCommands
<1>3. /\ cmds \in Seq(Command) /\ Len(cmds) = 2 /\ cmds[1] = mark /\ cmds[2] = flush
  BY <1>1, <1>2
<1>4. /\ mark.op = "MarkCleanShutdown" /\ mark.timestamp = clock /\ flush.op = "Flush"
  BY <1>1
<1>5. phase' = "awaiting_flush" /\ commands' = commands \o cmds
  BY <1>1 DEF BeginShutdown, Queue, WorkerStays
<1>6. \A k \in 1 .. Len(cmds) : k = 1 \/ k = 2
  BY <1>3
<1>7. \A k \in 1 .. Len(cmds) :
        cmds[k].op \notin {"PersistBatch", "Shutdown", "ReplaceWatchlist"}
  BY <1>3, <1>4, <1>6
<1> QED
  BY <1>3, <1>4, <1>5, <1>7, StopLight

\* The steps of the main thread.
LEMMA StopMain ==
  ASSUME TypeOK, TypeOK', IInv, FarewellLast, WorkerStays, NothingLost, phase' # "down",
         \/ \E batch \in Batches : FeedBatch(batch)
         \/ \E s \in Symbols : ChartData(s) \/ toggle_watchlist(s)
         \/ BatchAcked \/ BatchTimedOut \/ apply_persistence_status
         \/ Quit \/ FlushDone \/ Joined \/ Crash
  PROVE  FarewellLast' /\ WorkerStays' /\ NothingLost'
<1>1. ASSUME NEW cmd \in Command
      PROVE  <<cmd>> \in Seq(Command) /\ Len(<<cmd>>) = 1 /\ <<cmd>>[1] = cmd
  OBVIOUS
<1>2. issue' \in {"None", "Active", "Resolved"} /\ watchlist' \in SUBSET Symbols
  BY DEF TypeOK
<1>3. PICK report : report = <<ReplaceIssues(issue')>>
  OBVIOUS
<1>4. /\ report \in Seq(Command) /\ Len(report) = 1
      /\ \A k \in 1 .. Len(report) : report[k].op = "ReplaceIssues"
  <2>1. ReplaceIssues(issue') \in Command /\ ReplaceIssues(issue').op = "ReplaceIssues"
    BY <1>2, SentCommands DEF ReplaceIssues
  <2> QED
    BY <1>1, <1>3, <2>1
<1>5. ASSUME NEW s \in Symbols, toggle_watchlist(s)
      PROVE  FarewellLast' /\ WorkerStays' /\ NothingLost'
  <2>1. PICK cmds : cmds = <<ReplaceWatchlist(watchlist')>>
    OBVIOUS
  <2>2. ReplaceWatchlist(watchlist') \in Command
    BY <1>2, SentCommands
  <2>3. /\ cmds \in Seq(Command) /\ Len(cmds) = 1
        /\ cmds[1].op = "ReplaceWatchlist" /\ cmds[1].symbols = watchlist'
    BY <1>1, <2>1, <2>2 DEF ReplaceWatchlist
  <2>4. /\ phase = "running" /\ phase' = "running" /\ commands' = commands \o cmds
        /\ UNCHANGED <<live, journal, worker, raw_capture, symbol_latest,
                       watchlist_table, clean_shutdown, clock>>
    BY <1>5, <2>1 DEF toggle_watchlist, diskVars, Queue, WorkerStays
  <2>5. phase' \notin Closing /\ \A k \in 1 .. Len(cmds) : cmds[k].op = "ReplaceWatchlist"
    BY <2>3, <2>4 DEF Closing
  <2> QED
    BY <2>3, <2>4, <2>5, StopLight
<1>6. CASE BatchAcked \/ BatchTimedOut
  <2>1. /\ phase = "awaiting_batch" /\ phase' = "running" /\ worker # "gone"
        /\ UNCHANGED <<live, journal, watchlist, worker, raw_capture, symbol_latest,
                       watchlist_table, clean_shutdown, clock>>
    BY <1>6 DEF BatchAcked, BatchTimedOut, diskVars, countVars, WorkerStays
  <2>2. commands' = commands \o report \/ commands' = Abandoned(commands) \o report
    BY <1>3, <1>6, <2>1 DEF BatchAcked, BatchTimedOut, Queue
  <2>3. phase' \notin Closing
    BY <2>1 DEF Closing
  <2>4. \A k \in 1 .. Len(report) :
          report[k].op \notin {"PersistBatch", "Shutdown", "ReplaceWatchlist"}
    BY <1>4
  <2> QED
    BY <1>4, <2>1, <2>2, <2>3, <2>4, StopLight
<1>7. CASE apply_persistence_status
  <2>1. /\ phase = "running"
        /\ UNCHANGED <<live, journal, watchlist, worker, raw_capture, symbol_latest,
                       watchlist_table, clean_shutdown, clock>>
        /\ BeginShutdown \/ UNCHANGED <<phase, commands>>
    BY <1>7 DEF apply_persistence_status, diskVars, countVars
  <2>2. CASE BeginShutdown
    BY <2>1, <2>2, StopQuit
  <2>3. CASE UNCHANGED <<phase, commands>>
    BY <2>1, <2>3 DEF FarewellLast, WorkerStays, NothingLost, Captured, RowEnds, WatchEnds,
                      MarkEnds, RowWrites, WatchWrites, MarkWrites
  <2> QED
    BY <2>1, <2>2, <2>3
<1>8. CASE Quit
  <2>1. /\ phase = "running" /\ BeginShutdown
        /\ UNCHANGED <<live, journal, watchlist, worker, raw_capture, symbol_latest,
                       watchlist_table, clean_shutdown, clock>>
    BY <1>8 DEF Quit, diskVars, countVars
  <2> QED
    BY <2>1, StopQuit
<1>9. CASE FlushDone
  <2>1. /\ phase = "awaiting_flush" /\ phase' = "joining" /\ worker # "gone"
        /\ commands' = Abandoned(commands) \o Farewell
        /\ UNCHANGED <<live, journal, watchlist, worker, raw_capture, symbol_latest,
                       watchlist_table, clean_shutdown, clock>>
    BY <1>9 DEF FlushDone, diskVars, WorkerStays
  <2>2. PICK cmds : cmds = Farewell
    OBVIOUS
  <2>3. cmds \in Seq(Command) /\ Len(cmds) = 1 /\ cmds[1].op = "Shutdown"
    BY <1>1, <2>2, SentCommands DEF Farewell
  <2>4. \A k \in 1 .. Len(cmds) : k = Len(cmds) /\ cmds[k].op = "Shutdown"
    BY <2>3
  <2>5. phase \in Closing
    BY <2>1 DEF Closing
  <2> QED
    BY <2>1, <2>2, <2>3, <2>4, <2>5, StopLight
<1>10. CASE Joined
  <2>1. /\ phase = "joining" /\ phase' = "stopped" /\ worker = "gone"
        /\ UNCHANGED <<commands, live, journal, watchlist, worker, raw_capture, symbol_latest,
                       watchlist_table, clean_shutdown, clock>>
    BY <1>10 DEF Joined, linkVars, diskVars, countVars
  <2>2. commands = <<>>
    BY <2>1 DEF IInv, OneWait
  <2>3. FarewellLast' /\ WorkerStays'
    BY <2>1, <2>2, EmptySeq DEF FarewellLast, WorkerStays
  <2>4. NothingLost'
    BY <2>1 DEF NothingLost, Captured, RowEnds, WatchEnds, MarkEnds, RowWrites, WatchWrites,
                MarkWrites, Closing
  <2> QED
    BY <2>3, <2>4
<1>11. CASE Crash
  BY <1>11 DEF Crash
<1> QED
  BY <1>5, <1>6, <1>7, <1>8, <1>9, <1>10, <1>11, StopFeed, StopChart

\* The steps of the worker.
LEMMA StopWorker ==
  ASSUME TypeOK, FarewellLast, WorkerStays, NothingLost, failures' = 0,
         worker_opens \/ worker_fails \/ worker_loop \/ write_fails
  PROVE  FarewellLast' /\ WorkerStays' /\ NothingLost'
<1>1. failures \in Nat
  BY DEF TypeOK
<1>2. CASE worker_opens
  <2>1. /\ UNCHANGED <<commands, phase, live, journal, watchlist, raw_capture, symbol_latest,
                       watchlist_table, clean_shutdown, clock>>
        /\ worker' # "gone"
    BY <1>2 DEF worker_opens, mainVars, diskVars, countVars
  <2> QED
    BY <2>1 DEF FarewellLast, WorkerStays, NothingLost, Captured, RowEnds, WatchEnds, MarkEnds,
                RowWrites, WatchWrites, MarkWrites
<1>3. CASE worker_fails \/ write_fails
  BY <1>1, <1>3 DEF worker_fails, write_fails
<1>4. CASE worker_loop
  <2>1. PICK cmd : cmd = Head(commands)
    OBVIOUS
  <2>2. /\ commands # <<>> /\ worker = "running"
        /\ UNCHANGED <<phase, live, journal, watchlist, clock>>
    BY <1>4 DEF worker_loop, mainVars, countVars
  <2>3. /\ cmd = commands[1] /\ 1 \in 1 .. Len(commands) /\ cmd \in Command
        /\ Len(Tail(commands)) = Len(commands) - 1 /\ Len(commands) \in Nat
        /\ \A i \in 1 .. Len(Tail(commands)) :
             Tail(commands)[i] = commands[i + 1] /\ i + 1 \in 1 .. Len(commands)
        /\ Len(commands) = 1 => Tail(commands) = <<>>
    BY <2>1, <2>2, Rest
  <2>4. commands' = Tail(commands)
    <3>1. CASE cmd.op = "Shutdown"
      <4>1. Len(commands) = 1
        BY <2>3, <3>1 DEF FarewellLast
      <4> QED
        BY <1>4, <2>1, <2>3, <3>1, <4>1 DEF worker_loop
    <3>2. CASE cmd.op # "Shutdown"
      BY <1>4, <2>1, <3>2 DEF worker_loop
    <3> QED
      BY <3>1, <3>2
  <2>5. /\ \/ cmd.op = "PersistBatch" /\ persist_batch(cmd)
           \/ cmd.op # "PersistBatch" /\ UNCHANGED <<raw_capture, symbol_latest>>
        /\ watchlist_table' = IF cmd.op = "ReplaceWatchlist" THEN cmd.symbols ELSE watchlist_table
        /\ clean_shutdown' =
             IF cmd.op = "MarkCleanShutdown" THEN cmd.timestamp ELSE clean_shutdown
    BY <1>4, <2>1, <2>3 DEF worker_loop, diskVars
  <2>6. NothingLost'
    BY <2>1, <2>2, <2>4, <2>5, TakenKeeps
  <2>7. FarewellLast'
    <3>1. ASSUME NEW i \in 1 .. Len(commands'), commands'[i].op = "Shutdown"
          PROVE  i = Len(commands') /\ phase' = "joining"
      <4>1. commands[i + 1].op = "Shutdown" /\ i + 1 \in 1 .. Len(commands)
        BY <2>3, <2>4, <3>1
      <4>2. i + 1 = Len(commands) /\ phase = "joining"
        BY <4>1 DEF FarewellLast
      <4>3. i \in Int /\ Len(commands') = Len(commands) - 1 /\ Len(commands) \in Int
        BY <2>3, <2>4
      <4>4. i = Len(commands')
        BY <4>2, <4>3
      <4> QED
        BY <2>2, <4>2, <4>4
    <3>2. phase # "stopped"
      BY <2>2 DEF FarewellLast
    <3> QED
      BY <2>2, <3>1, <3>2 DEF FarewellLast
  <2>8. WorkerStays'
    <3>1. CASE cmd.op = "Shutdown"
      <4>1. phase = "joining"
        BY <2>3, <3>1 DEF FarewellLast
      <4> QED
        BY <2>2, <4>1 DEF WorkerStays
    <3>2. CASE cmd.op # "Shutdown"
      <4>1. worker' = worker
        BY <1>4, <2>1, <3>2 DEF worker_loop
      <4> QED
        BY <2>2, <4>1 DEF WorkerStays
    <3> QED
      BY <3>1, <3>2
  <2> QED
    BY <2>6, <2>7, <2>8
<1> QED
  BY <1>2, <1>3, <1>4

\* A new session starts with what the database has.
LEMMA StopStart ==
  ASSUME TypeOK, (\E tracked \in SUBSET Symbols : load_warm_start(tracked)) \/ reset_warm_start_state
  PROVE  FarewellLast' /\ WorkerStays' /\ NothingLost'
<1>1. PICK watched \in SUBSET Symbols, state \in {"None", "Active", "Resolved"} :
        SpawnWorker(watched, state)
  BY DEF load_warm_start, reset_warm_start_state, TypeOK
<1>2. /\ phase' = "running" /\ worker' = "opening" /\ journal' = {} /\ watchlist' = watched
      /\ commands' = <<ReplaceWatchlist(watched), ReplaceIssues(state)>>
  BY <1>1 DEF SpawnWorker
<1>3. /\ Len(commands') = 2
      /\ commands'[1].op = "ReplaceWatchlist" /\ commands'[1].symbols = watched
      /\ commands'[2].op = "ReplaceIssues"
  BY <1>2 DEF ReplaceWatchlist, ReplaceIssues
<1>4. \A i \in 1 .. Len(commands') : i = 1 \/ i = 2
  BY <1>3
<1>5. FarewellLast' /\ WorkerStays'
  BY <1>2, <1>3, <1>4 DEF FarewellLast, WorkerStays
<1>6. \A s \in Symbols : live'[s].snapshot # 0 => symbol_latest'[s] = live'[s]
  BY DEF load_warm_start, reset_warm_start_state, diskVars, NoRows, NoRow
<1>7. ASSUME NEW s \in Symbols, live'[s].snapshot # 0 PROVE RowEnds(s)'
  <2>1. RowWrites(s)' = {}
    BY <1>3, <1>4 DEF RowWrites, WritesRow
  <2> QED
    BY <1>6, <1>7, <2>1 DEF RowEnds, Ends
<1>8. WatchEnds'
  <2>1. \A i \in WatchWrites' : i = 1
    BY <1>3, <1>4 DEF WatchWrites
  <2>2. 1 \in WatchWrites' /\ 1 \in 1 .. Len(commands')
    BY <1>3 DEF WatchWrites
  <2>3. [i \in 1 .. Len(commands') |-> commands'[i].symbols][1] = watchlist'
    BY <1>2, <1>3, <2>2
  <2> QED
    BY <2>1, <2>2, <2>3 DEF WatchEnds, Ends
<1>9. NothingLost'
  BY <1>2, <1>7, <1>8 DEF NothingLost, Closing
<1> QED
  BY <1>5, <1>9

\* With no failed write, a session that ends by shutdown() has saved all its
\* events, its rows and its watchlist, for every number of waits given up.
THEOREM CleanStop == Spec => []CleanStopLosesNothing
<1>1. Init => StopInv
  BY DEF Init, StopInv
<1>2. TypeOK /\ TypeOK' /\ IInv /\ IInv' /\ StopInv /\ [Next]_vars => StopInv'
  <2> SUFFICES ASSUME TypeOK, TypeOK', IInv, StopInv, [Next]_vars,
                      failures' = 0, phase' # "down"
               PROVE  FarewellLast' /\ WorkerStays' /\ NothingLost'
    BY DEF StopInv
  <2>1. failures \in Nat /\ (failures' = failures \/ failures' = failures + 1)
    BY DEF Next, vars, countVars, TypeOK, FeedBatch, ChartData, toggle_watchlist, BatchAcked,
           BatchTimedOut, apply_persistence_status, Quit, FlushDone, Joined, Crash, worker_opens,
           worker_fails, worker_loop, write_fails, load_warm_start, reset_warm_start_state
  <2>2. failures = 0
    BY <2>1
  <2>3. CASE (\E tracked \in SUBSET Symbols : load_warm_start(tracked)) \/ reset_warm_start_state
    BY <2>3, StopStart
  <2>4. CASE phase = "down" /\ (worker_opens \/ worker_fails \/ worker_loop \/ write_fails)
    BY <2>4 DEF worker_opens, worker_fails, worker_loop, write_fails, mainVars
  <2>5. CASE /\ phase # "down"
             /\ worker_opens \/ worker_fails \/ worker_loop \/ write_fails
    BY <2>2, <2>5, StopWorker DEF StopInv
  <2>6. CASE \/ \E batch \in Batches : FeedBatch(batch)
             \/ \E s \in Symbols : ChartData(s) \/ toggle_watchlist(s)
             \/ BatchAcked \/ BatchTimedOut \/ apply_persistence_status
             \/ Quit \/ FlushDone \/ Joined \/ Crash
    <3>1. phase # "down"
      BY <2>6 DEF FeedBatch, ChartData, toggle_watchlist, BatchAcked, BatchTimedOut,
                  apply_persistence_status, Quit, FlushDone, Joined, Crash
    <3> QED
      BY <2>2, <2>6, <3>1, StopMain DEF StopInv
  <2>7. CASE UNCHANGED vars
    <3>1. UNCHANGED <<failures, commands, worker, phase, live, journal, watchlist, raw_capture,
                      symbol_latest, watchlist_table, clean_shutdown, clock>>
      BY <2>7 DEF vars, mainVars, linkVars, diskVars, countVars
    <3> QED
      BY <2>2, <3>1 DEF StopInv, FarewellLast, WorkerStays, NothingLost, Captured, RowEnds,
                        WatchEnds, MarkEnds, RowWrites, WatchWrites, MarkWrites
  <2> QED
    BY <2>3, <2>4, <2>5, <2>6, <2>7 DEF Next
<1>3. StopInv => CleanStopLosesNothing
  <2> SUFFICES ASSUME StopInv, phase = "stopped", failures = 0 PROVE CleanStopLosesNothing
    BY DEF CleanStopLosesNothing
  <2>1. commands = <<>> /\ NothingLost /\ phase \in Closing
    BY DEF StopInv, FarewellLast, Closing
  <2>2. Len(commands) = 0
    BY <2>1
  <2>3. \A s \in Symbols : RowWrites(s) = {}
    BY <2>2 DEF RowWrites
  <2>4. WatchWrites = {} /\ MarkWrites = {}
    BY <2>2 DEF WatchWrites, MarkWrites
  <2>5. \A e \in journal : raw_capture[e.id] > 0
    BY <2>1, <2>2 DEF NothingLost, Captured
  <2> QED
    BY <2>1, <2>3, <2>4, <2>5 DEF NothingLost, RowEnds, WatchEnds, MarkEnds, Ends,
                                  CleanStopLosesNothing
<1> QED
  BY <1>1, <1>2, <1>3, TypeCorrect, Inductive, PTL DEF Spec

-----------------------------------------------------------------------------
(* The database keeps WarmStart's promise.                                 *)

\* No row is of an event to come.
Dated == \A s \in Symbols :
  /\ live[s].snapshot <= clock /\ live[s].other <= clock
  /\ symbol_latest[s].snapshot <= clock /\ symbol_latest[s].other <= clock

\* From the database through the queue to the screen, rows only get newer.
\* A symbol whose row is not shown has nothing queued.
Newer ==
  /\ \A s \in Symbols : live[s].snapshot # 0 =>
       RowVersion(symbol_latest[s]) <= RowVersion(live[s])
  /\ \A s \in Symbols : \A i \in RowWrites(s) :
       /\ commands[i].revisions[s].snapshot # 0 /\ live[s].snapshot # 0
       /\ RowVersion(symbol_latest[s]) <= RowVersion(commands[i].revisions[s])
       /\ RowVersion(commands[i].revisions[s]) <= RowVersion(live[s])
       /\ \A j \in RowWrites(s) : i <= j =>
            RowVersion(commands[i].revisions[s]) <= RowVersion(commands[j].revisions[s])

VersionInv == Dated /\ Newer

\* The version of a row is a number; only a row without a snapshot has none.
LEMMA VersionType ==
  ASSUME NEW row \in Row
  PROVE  /\ RowVersion(row) \in Nat
         /\ RowVersion(row) = 0 <=> row.snapshot = 0
         /\ \A n \in Nat : row.snapshot <= n /\ row.other <= n => RowVersion(row) <= n
  BY BoundAssumption DEF Row, RowVersion, Version

\* Rows are those of before or are newer than every event of before.
Advance ==
  /\ clock <= clock'
  /\ \A s \in Symbols :
       /\ live[s].snapshot # 0 => live'[s].snapshot # 0
       /\ live'[s].snapshot <= clock' /\ live'[s].other <= clock'
       /\ RowVersion(live'[s]) = RowVersion(live[s]) \/ RowVersion(live'[s]) > clock

\* A batch of events advances the rows.
LEMMA FeedAdvances ==
  ASSUME TypeOK, TypeOK', Dated, NEW batch \in Batches, apply_feed_events(batch)
  PROVE  Advance
<1>1. batch \in Seq(FeedEvent) /\ clock \in Nat /\ sequence \in Nat /\ clock' \in Nat
  BY BatchAssumption, BoundAssumption DEF TypeOK
<1>2. Len(batch) \in Nat /\ clock' = clock + Len(batch)
  BY <1>1, LenProperties DEF apply_feed_events
<1>3. ASSUME NEW s \in Symbols
      PROVE  /\ live[s].snapshot # 0 => live'[s].snapshot # 0
             /\ live'[s].snapshot <= clock' /\ live'[s].other <= clock'
             /\ RowVersion(live'[s]) = RowVersion(live[s]) \/ RowVersion(live'[s]) > clock
  <2>1. live[s] \in Row /\ live'[s] \in Row
    BY DEF TypeOK
  <2>2. /\ live[s].snapshot \in Nat /\ live[s].other \in Nat
        /\ live[s].snapshot <= clock /\ live[s].other <= clock
    BY <2>1, BoundAssumption DEF Row, Dated
  <2>3. /\ live'[s].snapshot = Newest(batch, s, {"Snapshot"}, clock, live[s].snapshot)
        /\ live'[s].other = Newest(batch, s, {"Other"}, clock, live[s].other)
    BY DEF apply_feed_events
  <2>4. live'[s].snapshot = live[s].snapshot \/ live'[s].snapshot \in clock + 1 .. clock + Len(batch)
    BY <1>1, <2>3, NewestType
  <2>5. live'[s].other = live[s].other \/ live'[s].other \in clock + 1 .. clock + Len(batch)
    BY <1>1, <2>3, NewestType
  <2>6. /\ live[s].snapshot # 0 => live'[s].snapshot # 0
        /\ live'[s].snapshot <= clock' /\ live'[s].other <= clock'
    BY <1>1, <1>2, <2>2, <2>4, <2>5
  <2>7. CASE live'[s].snapshot = live[s].snapshot /\ live'[s].other = live[s].other
    BY <2>6, <2>7 DEF RowVersion, Version
  <2>8. CASE live'[s].snapshot > clock
    <3>1. RowVersion(live'[s]) >= live'[s].snapshot
      BY <1>1, <2>1, <2>8, BoundAssumption DEF RowVersion, Version, Row
    <3>2. RowVersion(live'[s]) \in Nat /\ live'[s].snapshot \in Nat
      BY <2>1, VersionType, BoundAssumption DEF Row
    <3> QED
      BY <1>1, <2>6, <2>8, <3>1, <3>2
  <2>9. CASE live'[s].snapshot = live[s].snapshot /\ live'[s].other > clock
    <3>1. CASE live[s].snapshot = 0
      BY <2>6, <2>9, <3>1 DEF RowVersion
    <3>2. CASE live[s].snapshot # 0
      <4>1. RowVersion(live'[s]) = live'[s].other
        BY <1>1, <2>1, <2>2, <2>9, <3>2, BoundAssumption DEF RowVersion, Version, Row
      <4> QED
        BY <2>6, <2>9, <4>1
    <3> QED
      BY <3>1, <3>2
  <2> QED
    BY <1>1, <1>2, <2>4, <2>5, <2>7, <2>8, <2>9
<1> QED
  BY <1>1, <1>2, <1>3 DEF Advance

\* Advancing rows stay ahead of what is stored and what is queued, and what is
\* sent is the row shown.
LEMMA NewerGrown ==
  ASSUME TypeOK, TypeOK', VersionInv, Advance, UNCHANGED symbol_latest,
         NEW cmds \in Seq(Command), Grown(cmds) \/ commands' = commands,
         \A k \in 1 .. Len(cmds) : \A s \in Symbols : WritesRow(cmds[k], s) =>
           cmds[k].revisions[s] = live'[s] /\ live'[s].snapshot # 0
  PROVE  VersionInv'
<1>1. clock \in Nat /\ clock' \in Nat /\ clock <= clock'
  BY BoundAssumption DEF TypeOK, Advance
<1>2. ASSUME NEW s \in Symbols
      PROVE  /\ live[s] \in Row /\ live'[s] \in Row /\ symbol_latest[s] \in Row
             /\ RowVersion(live[s]) \in Nat /\ RowVersion(live'[s]) \in Nat
             /\ RowVersion(symbol_latest[s]) \in Nat
             /\ RowVersion(live[s]) <= RowVersion(live'[s])
             /\ live'[s].snapshot # 0 => RowVersion(symbol_latest[s]) <= RowVersion(live'[s])
  <2>1. live[s] \in Row /\ live'[s] \in Row /\ symbol_latest[s] \in Row
    BY DEF TypeOK
  <2>2. /\ RowVersion(live[s]) \in Nat /\ RowVersion(live'[s]) \in Nat
        /\ RowVersion(symbol_latest[s]) \in Nat
        /\ RowVersion(live[s]) <= clock /\ RowVersion(symbol_latest[s]) <= clock
    BY <1>1, <2>1, VersionType DEF VersionInv, Dated
  <2>3. RowVersion(live'[s]) = RowVersion(live[s]) \/ RowVersion(live'[s]) > clock
    BY DEF Advance
  <2>4. CASE RowVersion(live'[s]) > clock
    BY <1>1, <2>1, <2>2, <2>4
  <2>5. CASE RowVersion(live'[s]) = RowVersion(live[s])
    <3>1. live'[s].snapshot # 0 => live[s].snapshot # 0
      BY <2>1, <2>5, VersionType
    <3> QED
      BY <2>1, <2>2, <2>5, <3>1 DEF VersionInv, Newer
  <2> QED
    BY <2>3, <2>4, <2>5
<1>3. Dated'
  <2>1. \A s \in Symbols : /\ symbol_latest[s].snapshot \in Nat /\ symbol_latest[s].other \in Nat
                           /\ symbol_latest[s].snapshot <= clock /\ symbol_latest[s].other <= clock
    BY <1>2, BoundAssumption DEF VersionInv, Dated, Row
  <2> QED
    BY <1>1, <2>1 DEF Dated, Advance
<1>4. ASSUME NEW s \in Symbols, NEW i \in RowWrites(s)'
      PROVE  \/ i \in RowWrites(s) /\ commands'[i].revisions[s] = commands[i].revisions[s]
             \/ /\ i \in Nat /\ i > Len(commands) /\ commands'[i].revisions[s] = live'[s]
                /\ live'[s].snapshot # 0
  <2>1. CASE commands' = commands
    BY <1>4, <2>1 DEF RowWrites
  <2>2. CASE Grown(cmds)
    <3>1. /\ Len(commands) \in Nat
          /\ i \in 1 .. Len(commands) \/ \E k \in 1 .. Len(cmds) : i = Len(commands) + k
      BY <2>2, GrownIndices DEF RowWrites
    <3>2. CASE i \in 1 .. Len(commands)
      BY <2>2, <3>2 DEF Grown, Same, RowWrites, WritesRow
    <3>3. ASSUME NEW k \in 1 .. Len(cmds), i = Len(commands) + k
          PROVE  /\ i \in Nat /\ i > Len(commands) /\ commands'[i].revisions[s] = live'[s]
                 /\ live'[s].snapshot # 0
      <4>1. commands'[i] = cmds[k] /\ WritesRow(cmds[k], s)
        BY <2>2, <3>3 DEF Grown, RowWrites
      <4> QED
        BY <3>1, <3>3, <4>1
    <3> QED
      BY <3>1, <3>2, <3>3
  <2> QED
    BY <2>1, <2>2
<1>5. ASSUME NEW s \in Symbols, NEW i \in RowWrites(s)
      PROVE  /\ i \in 1 .. Len(commands) /\ Len(commands) \in Nat
             /\ RowVersion(commands[i].revisions[s]) \in Nat
  <2>1. /\ i \in 1 .. Len(commands) /\ commands[i].op = "PersistBatch" /\ commands \in Seq(Command)
        /\ Len(commands) \in Nat
    BY LenProperties DEF RowWrites, WritesRow, TypeOK
  <2>2. commands[i] \in Command
    BY <2>1, ElementOfSeq
  <2>3. commands[i].revisions[s] \in Row
    BY <2>1, <2>2, CommandFields
  <2> QED
    BY <2>1, <2>3, VersionType
<1>6. ASSUME NEW s \in Symbols, NEW i \in RowWrites(s)'
      PROVE  /\ commands'[i].revisions[s].snapshot # 0 /\ live'[s].snapshot # 0
             /\ RowVersion(symbol_latest[s]) <= RowVersion(commands'[i].revisions[s])
             /\ RowVersion(commands'[i].revisions[s]) <= RowVersion(live'[s])
             /\ \A j \in RowWrites(s)' : i <= j =>
                  RowVersion(commands'[i].revisions[s]) <= RowVersion(commands'[j].revisions[s])
  <2>1. CASE i \in RowWrites(s) /\ commands'[i].revisions[s] = commands[i].revisions[s]
    <3>1. /\ commands[i].revisions[s].snapshot # 0 /\ live[s].snapshot # 0
          /\ RowVersion(symbol_latest[s]) <= RowVersion(commands[i].revisions[s])
          /\ RowVersion(commands[i].revisions[s]) <= RowVersion(live[s])
          /\ \A j \in RowWrites(s) : i <= j =>
               RowVersion(commands[i].revisions[s]) <= RowVersion(commands[j].revisions[s])
      BY <2>1 DEF VersionInv, Newer
    <3>2. live'[s].snapshot # 0
      BY <3>1 DEF Advance
    <3>3. RowVersion(commands[i].revisions[s]) <= RowVersion(live'[s])
      BY <1>2, <1>5, <2>1, <3>1
    <3> QED
      BY <1>4, <2>1, <3>1, <3>2, <3>3
  <2>2. CASE /\ i \in Nat /\ i > Len(commands) /\ commands'[i].revisions[s] = live'[s]
             /\ live'[s].snapshot # 0
    <3>1. ASSUME NEW j \in RowWrites(s)', i <= j
          PROVE  commands'[j].revisions[s] = live'[s]
      <4>1. j \notin RowWrites(s)
        BY <1>5, <2>2, <3>1
      <4> QED
        BY <1>4, <4>1
    <3> QED
      BY <1>2, <2>2, <3>1
  <2> QED
    BY <1>4, <2>1, <2>2
<1>7. Newer'
  BY <1>2, <1>6 DEF Newer
<1> QED
  BY <1>3, <1>7 DEF VersionInv

\* Commands that are no batches change nothing of it.
LEMMA NewerLight ==
  ASSUME TypeOK, TypeOK', VersionInv, UNCHANGED <<live, symbol_latest, clock>>,
         NEW cmds \in Seq(Command), \A k \in 1 .. Len(cmds) : cmds[k].op # "PersistBatch",
         \/ commands' = commands \/ commands' = commands \o cmds
         \/ commands' = Abandoned(commands) \o cmds
  PROVE  VersionInv'
<1>1. clock \in Nat
  BY BoundAssumption DEF TypeOK
<1>2. Advance
  BY <1>1 DEF VersionInv, Dated, Advance
<1>3. Grown(cmds) \/ commands' = commands
  BY SendGrows
<1>4. \A k \in 1 .. Len(cmds) : \A s \in Symbols : ~WritesRow(cmds[k], s)
  BY DEF WritesRow
<1> QED
  BY <1>2, <1>3, <1>4, NewerGrown

\* A command that leaves the queue may take its rows to the database.
LEMMA NewerTaken ==
  ASSUME TypeOK, VersionInv, UNCHANGED <<live, clock>>,
         \/ commands' = <<>> /\ UNCHANGED symbol_latest
         \/ /\ commands # <<>> /\ commands' = Tail(commands)
            /\ \A s \in Symbols :
                 \/ symbol_latest'[s] = symbol_latest[s]
                 \/ /\ WritesRow(Head(commands), s)
                    /\ symbol_latest'[s] = Head(commands).revisions[s]
  PROVE  VersionInv'
<1>1. CASE commands' = <<>> /\ UNCHANGED symbol_latest
  <2>1. \A s \in Symbols : RowWrites(s)' = {}
    BY <1>1, EmptySeq DEF RowWrites
  <2> QED
    BY <1>1, <2>1 DEF VersionInv, Dated, Newer
<1>2. ASSUME commands # <<>>, commands' = Tail(commands),
             \A s \in Symbols :
                 \/ symbol_latest'[s] = symbol_latest[s]
                 \/ /\ WritesRow(Head(commands), s)
                    /\ symbol_latest'[s] = Head(commands).revisions[s]
      PROVE  VersionInv'
  <2>1. /\ Head(commands) = commands[1] /\ 1 \in 1 .. Len(commands)
        /\ Len(Tail(commands)) = Len(commands) - 1 /\ Len(commands) \in Nat
        /\ \A i \in 1 .. Len(Tail(commands)) :
             Tail(commands)[i] = commands[i + 1] /\ i + 1 \in 1 .. Len(commands)
    BY <1>2, Rest
  <2>2. ASSUME NEW s \in Symbols, NEW i \in RowWrites(s)'
        PROVE  /\ i \in Nat \ {0} /\ i + 1 \in RowWrites(s)
               /\ commands'[i].revisions[s] = commands[i + 1].revisions[s]
    BY <1>2, <2>1, <2>2 DEF RowWrites, WritesRow
  <2>3. \A s \in Symbols :
          \/ symbol_latest'[s] = symbol_latest[s]
          \/ 1 \in RowWrites(s) /\ symbol_latest'[s] = commands[1].revisions[s]
    BY <1>2, <2>1 DEF RowWrites
  <2>4. Dated'
    <3> SUFFICES ASSUME NEW s \in Symbols
                 PROVE  symbol_latest'[s].snapshot <= clock /\ symbol_latest'[s].other <= clock
      BY DEF VersionInv, Dated
    <3>1. CASE symbol_latest'[s] = symbol_latest[s]
      BY <3>1 DEF VersionInv, Dated
    <3>2. CASE 1 \in RowWrites(s) /\ symbol_latest'[s] = commands[1].revisions[s]
      <4>1. commands[1] \in Command /\ commands[1].op = "PersistBatch"
        BY <2>1, <3>2, ElementOfSeq DEF RowWrites, WritesRow, TypeOK
      <4>2. commands[1].revisions[s] \in Row /\ live[s] \in Row /\ clock \in Nat
        <5>1. commands[1].revisions \in [Symbols -> Row]
          BY <4>1, CommandFields
        <5>2. live \in [Symbols -> Row] /\ clock \in Nat
          BY BoundAssumption DEF TypeOK
        <5> QED
          BY <5>1, <5>2
      <4>3. /\ commands[1].revisions[s].snapshot # 0
            /\ RowVersion(commands[1].revisions[s]) <= RowVersion(live[s])
        BY <3>2 DEF VersionInv, Newer
      <4>4. RowVersion(live[s]) <= clock /\ RowVersion(live[s]) \in Nat
        BY <4>2, VersionType DEF VersionInv, Dated
      <4>5. /\ commands[1].revisions[s].snapshot <= RowVersion(commands[1].revisions[s])
            /\ commands[1].revisions[s].other <= RowVersion(commands[1].revisions[s])
        BY <4>2, <4>3, BoundAssumption DEF RowVersion, Version, Row
      <4>6. /\ RowVersion(commands[1].revisions[s]) \in Nat
            /\ commands[1].revisions[s].snapshot \in Nat /\ commands[1].revisions[s].other \in Nat
        BY <4>2, VersionType, BoundAssumption DEF Row
      <4> QED
        BY <3>2, <4>2, <4>3, <4>4, <4>5, <4>6
    <3> QED
      BY <2>3, <3>1, <3>2
  <2>5. ASSUME NEW s \in Symbols, live[s].snapshot # 0
        PROVE  RowVersion(symbol_latest'[s]) <= RowVersion(live[s])
    BY <2>3, <2>5 DEF VersionInv, Newer
  <2>6. ASSUME NEW s \in Symbols, NEW i \in RowWrites(s)'
        PROVE  /\ commands'[i].revisions[s].snapshot # 0 /\ live[s].snapshot # 0
               /\ RowVersion(symbol_latest'[s]) <= RowVersion(commands'[i].revisions[s])
               /\ RowVersion(commands'[i].revisions[s]) <= RowVersion(live[s])
               /\ \A j \in RowWrites(s)' : i <= j =>
                    RowVersion(commands'[i].revisions[s]) <= RowVersion(commands'[j].revisions[s])
    <3>1. /\ i \in Nat \ {0} /\ i + 1 \in RowWrites(s)
          /\ commands'[i].revisions[s] = commands[i + 1].revisions[s]
      BY <2>2, <2>6
    <3>2. /\ commands[i + 1].revisions[s].snapshot # 0 /\ live[s].snapshot # 0
          /\ RowVersion(symbol_latest[s]) <= RowVersion(commands[i + 1].revisions[s])
          /\ RowVersion(commands[i + 1].revisions[s]) <= RowVersion(live[s])
      BY <3>1 DEF VersionInv, Newer
    <3>3. RowVersion(symbol_latest'[s]) <= RowVersion(commands[i + 1].revisions[s])
      <4>1. CASE symbol_latest'[s] = symbol_latest[s]
        BY <3>2, <4>1
      <4>2. CASE 1 \in RowWrites(s) /\ symbol_latest'[s] = commands[1].revisions[s]
        <5>1. 1 <= i + 1
          BY <3>1
        <5> QED
          BY <3>1, <4>2, <5>1 DEF VersionInv, Newer
      <4> QED
        BY <2>3, <4>1, <4>2
    <3>4. ASSUME NEW j \in RowWrites(s)', i <= j
          PROVE  RowVersion(commands'[i].revisions[s]) <= RowVersion(commands'[j].revisions[s])
      <4>1. /\ j \in Nat /\ j + 1 \in RowWrites(s)
            /\ commands'[j].revisions[s] = commands[j + 1].revisions[s]
        BY <2>2, <3>4
      <4>2. i + 1 <= j + 1
        BY <3>1, <3>4, <4>1
      <4>3. RowVersion(commands[i + 1].revisions[s]) <= RowVersion(commands[j + 1].revisions[s])
        BY <3>1, <4>1, <4>2 DEF VersionInv, Newer
      <4> QED
        BY <3>1, <4>1, <4>3
    <3> QED
      BY <3>1, <3>2, <3>3, <3>4
  <2>7. Newer'
    BY <2>5, <2>6 DEF Newer
  <2> QED
    BY <2>4, <2>7 DEF VersionInv
<1> QED
  BY <1>1, <1>2

\* Sending a batch of rows as they are shown.
LEMMA NewerBatch ==
  ASSUME TypeOK, TypeOK', VersionInv, Advance, UNCHANGED symbol_latest, NEW touched,
         NEW captures, NEW upto,
         NEW cmd \in Command, cmd = PersistBatch(captures, build_symbol_revisions(live', touched)),
         SendBatch(cmd, upto)
  PROVE  VersionInv'
<1>1. PICK cmds : cmds = <<cmd>>
  OBVIOUS
<1>2. cmds \in Seq(Command) /\ Len(cmds) = 1 /\ cmds[1] = cmd
  BY <1>1
<1>3. Grown(cmds) \/ commands' = commands
  <2>1. Append(commands, cmd) = commands \o cmds
    BY <1>1, AppendIsConcat DEF TypeOK
  <2> QED
    BY <1>2, <2>1, SendGrows DEF SendBatch
<1>4. \A s \in Symbols : WritesRow(cmd, s) => cmd.revisions[s] = live'[s] /\ live'[s].snapshot # 0
  BY DEF WritesRow, PersistBatch, build_symbol_revisions
<1>5. \A k \in 1 .. Len(cmds) : cmds[k] = cmd
  BY <1>2
<1> QED
  BY <1>2, <1>3, <1>4, <1>5, NewerGrown

\* Every step of the program keeps the rows in order.
LEMMA VersionMain ==
  ASSUME TypeOK, TypeOK', VersionInv,
         \/ \E batch \in Batches : FeedBatch(batch)
         \/ \E s \in Symbols : ChartData(s) \/ toggle_watchlist(s)
         \/ BatchAcked \/ BatchTimedOut \/ apply_persistence_status
         \/ Quit \/ FlushDone \/ Joined \/ Crash
  PROVE  VersionInv'
<1>1. \A c \in Command : <<c>> \in Seq(Command) /\ Len(<<c>>) = 1 /\ <<c>>[1] = c
  OBVIOUS
<1>2. issue' \in {"None", "Active", "Resolved"} /\ watchlist' \in SUBSET Symbols
  BY DEF TypeOK
<1>3. PICK report : report = <<ReplaceIssues(issue')>>
  OBVIOUS
<1>4. /\ report \in Seq(Command) /\ Len(report) = 1
      /\ \A k \in 1 .. Len(report) : report[k].op # "PersistBatch"
  <2>1. ReplaceIssues(issue') \in Command /\ ReplaceIssues(issue').op = "ReplaceIssues"
    BY <1>2, SentCommands DEF ReplaceIssues
  <2> QED
    BY <1>1, <1>3, <2>1
<1>5. ASSUME NEW batch \in Batches, FeedBatch(batch)
      PROVE  VersionInv'
  <2>1. /\ apply_feed_events(batch) /\ reconcile_sqlite_persistence /\ UNCHANGED symbol_latest
    BY <1>5 DEF FeedBatch, diskVars
  <2>2. Advance
    BY <2>1, FeedAdvances DEF VersionInv
  <2> DEFINE delta == {e \in journal' : e.sequence > last_persisted}
             captures == {e.id : e \in delta}
             touched == {e.symbol : e \in delta}
  <2>3. CASE delta = {}
    <3>1. commands' = Queue(report)
      BY <1>3, <2>1, <2>3 DEF reconcile_sqlite_persistence
    <3>2. Grown(report) \/ commands' = commands
      BY <1>4, <3>1, SendGrows DEF Queue
    <3>3. \A k \in 1 .. Len(report) : \A s \in Symbols : ~WritesRow(report[k], s)
      BY <1>4 DEF WritesRow
    <3> QED
      BY <1>4, <2>1, <2>2, <3>2, <3>3, NewerGrown
  <2>4. CASE delta # {}
    <3>1. PICK cmd : cmd = PersistBatch(captures, build_symbol_revisions(live', touched))
      OBVIOUS
    <3>2. PICK upto : SendBatch(cmd, upto)
      BY <2>1, <2>4, <3>1 DEF reconcile_sqlite_persistence
    <3>3. cmd \in Command
      <4>1. \A e \in journal' : e.id \in Ids
        BY DEF TypeOK
      <4>2. captures \in SUBSET Ids
        BY <4>1
      <4>3. live' \in [Symbols -> Row]
        BY DEF TypeOK
      <4> QED
        BY <3>1, <4>2, <4>3, BatchType
    <3>4. PICK c, t : c = captures /\ t = touched
      OBVIOUS
    <3>5. cmd = PersistBatch(c, build_symbol_revisions(live', t))
      BY <3>1, <3>4
    <3> HIDE DEF delta, captures, touched
    <3> QED
      BY <2>1, <2>2, <3>2, <3>3, <3>5, NewerBatch
  <2> QED
    BY <2>3, <2>4
<1>6. ASSUME NEW t \in Symbols, ChartData(t)
      PROVE  VersionInv'
  <2>1. PICK cmd, touched, captures :
          /\ captures = {} /\ touched = {t}
          /\ cmd = PersistBatch(captures, build_symbol_revisions(live, touched))
    OBVIOUS
  <2>2. SendBatch(cmd, NoBatch) /\ UNCHANGED <<live, clock, symbol_latest>>
    BY <1>6, <2>1 DEF ChartData, diskVars
  <2>3. cmd \in Command
    <3>1. live \in [Symbols -> Row] /\ captures \in SUBSET Ids
      BY <2>1 DEF TypeOK
    <3> QED
      BY <2>1, <3>1, BatchType
  <2>4. Advance
    <3>1. clock \in Nat
      BY BoundAssumption DEF TypeOK
    <3> QED
      BY <2>2, <3>1 DEF VersionInv, Dated, Advance
  <2>5. cmd = PersistBatch(captures, build_symbol_revisions(live', touched))
    BY <2>1, <2>2
  <2> QED
    BY <2>2, <2>3, <2>4, <2>5, NewerBatch
<1>7. ASSUME NEW s \in Symbols, toggle_watchlist(s)
      PROVE  VersionInv'
  <2>1. PICK cmds : cmds = <<ReplaceWatchlist(watchlist')>>
    OBVIOUS
  <2>2. /\ ReplaceWatchlist(watchlist') \in Command
        /\ ReplaceWatchlist(watchlist').op # "PersistBatch"
    BY <1>2, SentCommands DEF ReplaceWatchlist
  <2>3. cmds \in Seq(Command) /\ \A k \in 1 .. Len(cmds) : cmds[k].op # "PersistBatch"
    BY <1>1, <2>1, <2>2
  <2>4. /\ UNCHANGED <<live, symbol_latest, clock>>
        /\ commands' = commands \/ commands' = commands \o cmds
    BY <1>7, <2>1 DEF toggle_watchlist, diskVars, Queue
  <2> QED
    BY <2>3, <2>4, NewerLight
<1>8. CASE BatchAcked \/ BatchTimedOut
  <2>1. /\ UNCHANGED <<live, symbol_latest, clock>>
        /\ \/ commands' = commands \/ commands' = commands \o report
           \/ commands' = Abandoned(commands) \o report
    BY <1>3, <1>8 DEF BatchAcked, BatchTimedOut, diskVars, countVars, Queue
  <2> QED
    BY <1>4, <2>1, NewerLight
<1>9. CASE apply_persistence_status \/ Quit
  <2>1. PICK mark, flush, cmds :
          /\ mark = [op |-> "MarkCleanShutdown", timestamp |-> clock]
          /\ flush = [op |-> "Flush", waiting |-> TRUE]
          /\ cmds = <<mark, flush>>
    OBVIOUS
  <2>2. mark \in Command /\ flush \in Command
    BY <2>1, SentCommands
  <2>3. /\ cmds \in Seq(Command) /\ \A k \in 1 .. Len(cmds) : cmds[k] \in {mark, flush}
    <3>1. cmds \in Seq(Command) /\ Len(cmds) = 2 /\ cmds[1] = mark /\ cmds[2] = flush
      BY <2>1, <2>2
    <3>2. \A k \in 1 .. Len(cmds) : k = 1 \/ k = 2
      BY <3>1
    <3> QED
      BY <3>1, <3>2
  <2>4. \A k \in 1 .. Len(cmds) : cmds[k].op # "PersistBatch"
    BY <2>1, <2>3
  <2>5. /\ UNCHANGED <<live, symbol_latest, clock>>
        /\ commands' = commands \/ commands' = commands \o cmds
    BY <1>9, <2>1 DEF apply_persistence_status, Quit, BeginShutdown, diskVars, countVars, Queue
  <2> QED
    BY <2>3, <2>4, <2>5, NewerLight
<1>10. CASE FlushDone
  <2>1. PICK cmds : cmds = Farewell
    OBVIOUS
  <2>2. cmds \in Seq(Command) /\ \A k \in 1 .. Len(cmds) : cmds[k].op # "PersistBatch"
    BY <1>1, <2>1, SentCommands DEF Farewell
  <2>3. /\ UNCHANGED <<live, symbol_latest, clock>>
        /\ commands' = commands \/ commands' = Abandoned(commands) \o cmds
    BY <1>10, <2>1 DEF FlushDone, diskVars
  <2> QED
    BY <2>2, <2>3, NewerLight
<1>11. CASE Joined
  <2>1. UNCHANGED <<live, symbol_latest, clock, commands>>
    BY <1>11 DEF Joined, linkVars, diskVars, countVars
  <2> QED
    BY <1>4, <2>1, NewerLight
<1>12. CASE Crash
  <2>1. UNCHANGED <<live, symbol_latest, clock>> /\ commands' = <<>>
    BY <1>12 DEF Crash, diskVars, countVars
  <2> QED
    BY <2>1, NewerTaken
<1> QED
  BY <1>5, <1>6, <1>7, <1>8, <1>9, <1>10, <1>11, <1>12

LEMMA VersionWorker ==
  ASSUME TypeOK, TypeOK', VersionInv, worker_opens \/ worker_fails \/ worker_loop \/ write_fails
  PROVE  VersionInv'
<1>1. UNCHANGED <<live, clock>>
  BY DEF worker_opens, worker_fails, worker_loop, write_fails, mainVars, countVars
<1>2. CASE worker_opens
  <2>1. UNCHANGED <<live, symbol_latest, clock, commands>>
    BY <1>2 DEF worker_opens, mainVars, diskVars, countVars
  <2> QED
    BY <2>1 DEF VersionInv, Dated, Newer, RowWrites
<1>3. CASE worker_fails
  <2>1. commands' = <<>> /\ UNCHANGED symbol_latest
    BY <1>3 DEF worker_fails, diskVars
  <2> QED
    BY <1>1, <2>1, NewerTaken
<1>4. CASE worker_loop
  <2>1. PICK cmd : cmd = Head(commands)
    OBVIOUS
  <2>2. commands # <<>> /\ cmd \in Command
    BY <1>4, <2>1, Rest DEF worker_loop
  <2>3. CASE cmd.op = "PersistBatch"
    <3>1. persist_batch(cmd) /\ commands' = Tail(commands)
      BY <1>4, <2>1, <2>3 DEF worker_loop
    <3>2. \A s \in Symbols : \/ symbol_latest'[s] = symbol_latest[s]
                             \/ WritesRow(cmd, s) /\ symbol_latest'[s] = cmd.revisions[s]
      BY <2>3, <3>1 DEF persist_batch, WritesRow
    <3> QED
      BY <1>1, <2>1, <2>2, <3>1, <3>2, NewerTaken
  <2>4. CASE cmd.op = "Shutdown"
    <3>1. commands' = <<>> /\ UNCHANGED symbol_latest
      BY <1>4, <2>1, <2>4 DEF worker_loop, diskVars
    <3> QED
      BY <1>1, <3>1, NewerTaken
  <2>5. CASE cmd.op \notin {"PersistBatch", "Shutdown"}
    <3>1. commands' = Tail(commands) /\ UNCHANGED symbol_latest
      BY <1>4, <2>1, <2>5 DEF worker_loop, diskVars
    <3> QED
      BY <1>1, <2>2, <3>1, NewerTaken
  <2> QED
    BY <2>3, <2>4, <2>5
<1>5. CASE write_fails
  <2>1. commands # <<>> /\ commands' = Tail(commands) /\ UNCHANGED symbol_latest
    BY <1>5 DEF write_fails, diskVars
  <2> QED
    BY <1>1, <2>1, NewerTaken
<1> QED
  BY <1>2, <1>3, <1>4, <1>5

LEMMA VersionStart ==
  ASSUME TypeOK, TypeOK', VersionInv,
         (\E tracked \in SUBSET Symbols : load_warm_start(tracked)) \/ reset_warm_start_state
  PROVE  VersionInv'
<1>1. PICK watched \in SUBSET Symbols, state \in {"None", "Active", "Resolved"} :
        SpawnWorker(watched, state)
  BY DEF load_warm_start, reset_warm_start_state, TypeOK
<1>2. /\ Len(commands') = 2
      /\ commands'[1].op = "ReplaceWatchlist" /\ commands'[2].op = "ReplaceIssues"
  BY <1>1 DEF SpawnWorker, ReplaceWatchlist, ReplaceIssues
<1>3. \A i \in 1 .. Len(commands') : i = 1 \/ i = 2
  BY <1>2
<1>4. \A s \in Symbols : RowWrites(s)' = {}
  BY <1>2, <1>3 DEF RowWrites, WritesRow
<1>5. /\ clock' = clock /\ clock \in Nat
      /\ \A s \in Symbols : /\ symbol_latest'[s] \in {symbol_latest[s], NoRow}
                            /\ live'[s] \in {symbol_latest'[s], NoRow}
  BY BoundAssumption DEF load_warm_start, reset_warm_start_state, diskVars, NoRows, TypeOK
<1>6. Dated'
  <2> SUFFICES ASSUME NEW s \in Symbols
               PROVE  /\ live'[s].snapshot <= clock' /\ live'[s].other <= clock'
                      /\ symbol_latest'[s].snapshot <= clock' /\ symbol_latest'[s].other <= clock'
    BY DEF Dated
  <2>1. symbol_latest[s].snapshot <= clock /\ symbol_latest[s].other <= clock
    BY DEF VersionInv, Dated
  <2>2. NoRow.snapshot <= clock /\ NoRow.other <= clock
    BY <1>5 DEF NoRow
  <2> QED
    BY <1>5, <2>1, <2>2
<1>7. ASSUME NEW s \in Symbols, live'[s].snapshot # 0
      PROVE  RowVersion(symbol_latest'[s]) <= RowVersion(live'[s])
  <2>1. live'[s] = symbol_latest'[s] /\ live'[s] \in Row
    BY <1>5, <1>7 DEF NoRow, TypeOK
  <2>2. RowVersion(live'[s]) \in Nat
    BY <2>1, VersionType
  <2> QED
    BY <2>1, <2>2
<1> QED
  BY <1>4, <1>6, <1>7 DEF VersionInv, Newer

\* The versions in the database, in the queue and on the screen are in order.
THEOREM VersionsOrdered == Spec => []VersionInv
<1>1. Init => VersionInv
  <2> SUFFICES ASSUME Init PROVE VersionInv
    OBVIOUS
  <2>1. commands = <<>> /\ Len(commands) = 0
    BY EmptySeq DEF Init
  <2>2. \A s \in Symbols : RowWrites(s) = {}
    BY <2>1 DEF RowWrites
  <2>3. \A s \in Symbols : live[s] = NoRow /\ symbol_latest[s] = NoRow
    BY DEF Init, NoRows
  <2> QED
    BY <2>2, <2>3 DEF Init, VersionInv, Dated, Newer, NoRow
<1>2. TypeOK /\ TypeOK' /\ VersionInv /\ [Next]_vars => VersionInv'
  <2> SUFFICES ASSUME TypeOK, TypeOK', VersionInv, [Next]_vars PROVE VersionInv'
    OBVIOUS
  <2>1. CASE UNCHANGED vars
    BY <2>1 DEF vars, mainVars, linkVars, diskVars, countVars, VersionInv, Dated, Newer, RowWrites
  <2> QED
    BY <2>1, VersionMain, VersionWorker, VersionStart DEF Next
<1> QED
  BY <1>1, <1>2, TypeCorrect, PTL DEF Spec

\* The program implements WarmStart: what a restart brings back was shown, is
\* never older than what was saved or restored before, and only a reset takes
\* it away.
THEOREM WarmStartKept == Spec => WarmStartSpec
<1> DEFINE shown == [s \in Symbols |-> RowVersion(live[s])]
           saved == [s \in Symbols |-> RowVersion(symbol_latest[s])]
<1>1. Init => WS!wsInit
  BY DEF Init, NoRows, NoRow, RowVersion, WS!wsInit
<1>2. TypeOK /\ TypeOK' /\ VersionInv /\ [Next]_vars => [WS!wsNext]_(WS!wsVars)
  <2> SUFFICES ASSUME TypeOK, TypeOK', VersionInv, [Next]_vars
               PROVE  WS!wsNext \/ UNCHANGED <<shown, saved>>
    BY DEF WS!wsVars
  <2>1. /\ shown \in [Symbols -> Nat] /\ shown' \in [Symbols -> Nat]
        /\ saved \in [Symbols -> Nat] /\ saved' \in [Symbols -> Nat]
    <3>1. \A s \in Symbols : /\ live[s] \in Row /\ live'[s] \in Row
                             /\ symbol_latest[s] \in Row /\ symbol_latest'[s] \in Row
      BY DEF TypeOK
    <3> QED
      BY <3>1, VersionType
  <2>2. \A s \in Symbols :
          /\ shown[s] = RowVersion(live[s]) /\ shown'[s] = RowVersion(live'[s])
          /\ saved[s] = RowVersion(symbol_latest[s])
          /\ saved'[s] = RowVersion(symbol_latest'[s])
    OBVIOUS
  <2>3. UNCHANGED live => UNCHANGED shown
    OBVIOUS
  <2>4. UNCHANGED symbol_latest => UNCHANGED saved
    OBVIOUS
  <2>5. ASSUME NEW batch \in Batches, FeedBatch(batch)
        PROVE  WS!Update
    <3>1. apply_feed_events(batch) /\ UNCHANGED symbol_latest
      BY <2>5 DEF FeedBatch, diskVars
    <3>2. Advance
      BY <3>1, FeedAdvances DEF VersionInv
    <3>3. ASSUME NEW s \in Symbols, shown'[s] # shown[s]
          PROVE  shown'[s] > shown[s] /\ shown'[s] > saved[s]
      <4>1. shown'[s] > clock
        BY <2>2, <3>2, <3>3 DEF Advance
      <4>2. live[s] \in Row /\ symbol_latest[s] \in Row /\ clock \in Nat
        BY BoundAssumption DEF TypeOK
      <4>3. shown[s] <= clock /\ saved[s] <= clock
        BY <2>2, <4>2, VersionType DEF VersionInv, Dated
      <4> QED
        BY <2>1, <4>1, <4>2, <4>3
    <3> HIDE DEF shown, saved
    <3>4. shown' \in [Symbols -> Nat] /\ UNCHANGED saved
      BY <2>1, <2>4, <3>1
    <3> USE DEF shown, saved
    <3> QED
      BY <3>3, <3>4 DEF WS!Update
  <2>6. CASE worker_loop
    <3>1. PICK cmd : cmd = Head(commands)
      OBVIOUS
    <3>2. UNCHANGED live /\ commands # <<>>
      BY <2>6 DEF worker_loop, mainVars
    <3>3. CASE cmd.op # "PersistBatch"
      BY <2>3, <2>4, <2>6, <3>1, <3>2, <3>3 DEF worker_loop, diskVars
    <3>4. CASE cmd.op = "PersistBatch"
      <4>1. persist_batch(cmd) /\ cmd = commands[1] /\ 1 \in 1 .. Len(commands)
        BY <2>6, <3>1, <3>2, <3>4, Rest DEF worker_loop
      <4>2. ASSUME NEW s \in Symbols, saved'[s] # saved[s]
            PROVE  saved'[s] > saved[s] /\ saved'[s] <= shown[s]
        <5>1. symbol_latest'[s] = cmd.revisions[s] /\ 1 \in RowWrites(s)
          BY <2>2, <3>4, <4>1, <4>2 DEF persist_batch, RowWrites, WritesRow
        <5>2. /\ RowVersion(symbol_latest[s]) <= RowVersion(cmd.revisions[s])
              /\ RowVersion(cmd.revisions[s]) <= RowVersion(live[s])
          BY <4>1, <5>1 DEF VersionInv, Newer
        <5>3. saved[s] <= saved'[s] /\ saved'[s] <= shown[s]
          BY <2>2, <5>1, <5>2
        <5>4. saved[s] \in Nat /\ saved'[s] \in Nat
          BY <2>1
        <5> QED
          BY <4>2, <5>3, <5>4
      <4>3. saved' \in [Symbols -> Nat] /\ UNCHANGED shown
        BY <2>1, <2>3, <3>2
      <4>4. WS!Save
        BY <4>2, <4>3 DEF WS!Save
      <4> QED
        BY <4>4 DEF WS!wsNext
    <3> QED
      BY <3>3, <3>4
  <2>7. ASSUME NEW tracked \in SUBSET Symbols, load_warm_start(tracked)
        PROVE  WS!Restart
    <3>1. /\ UNCHANGED symbol_latest
          /\ \A s \in Symbols : live'[s] \in {NoRow, symbol_latest[s]}
      BY <2>7 DEF load_warm_start, diskVars
    <3>2. \A s \in Symbols : shown'[s] \in {0, saved[s]}
      BY <2>2, <3>1 DEF NoRow, RowVersion
    <3>3. shown' \in [Symbols -> Nat] /\ UNCHANGED saved
      BY <2>1, <2>4, <3>1
    <3> QED
      BY <3>2, <3>3 DEF WS!Restart
  <2>8. CASE reset_warm_start_state
    <3>1. live' = NoRows /\ symbol_latest' = NoRows
      BY <2>8 DEF reset_warm_start_state
    <3>2. shown' = [s \in Symbols |-> 0] /\ saved' = [s \in Symbols |-> 0]
      BY <3>1 DEF NoRows, NoRow, RowVersion
    <3>3. WS!Reset
      BY <3>2 DEF WS!Reset
    <3> QED
      BY <3>3 DEF WS!wsNext
  <2>9. CASE \/ \E s \in Symbols : ChartData(s) \/ toggle_watchlist(s)
             \/ BatchAcked \/ BatchTimedOut \/ apply_persistence_status
             \/ Quit \/ FlushDone \/ Joined \/ Crash
             \/ worker_opens \/ worker_fails \/ write_fails \/ UNCHANGED vars
    <3>1. UNCHANGED <<live, symbol_latest>>
      BY <2>9 DEF ChartData, toggle_watchlist, BatchAcked, BatchTimedOut,
                  apply_persistence_status, Quit, FlushDone, Joined, Crash, worker_opens,
                  worker_fails, write_fails, vars, mainVars, diskVars
    <3> QED
      BY <2>3, <2>4, <3>1
  <2> HIDE DEF shown, saved
  <2> QED
    BY <2>5, <2>6, <2>7, <2>8, <2>9 DEF Next, WS!wsNext
<1> QED
  BY <1>1, <1>2, TypeCorrect, VersionsOrdered, PTL DEF Spec, WarmStartSpec, WS!wsSpec
=============================================================================
