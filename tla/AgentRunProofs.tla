--------------------------- MODULE AgentRunProofs ---------------------------
(* Proofs about AgentRun for every number of requests, tries and failures.  *)
EXTENDS AgentRunProperties, TLAPS

(* Spending one unit of a bound keeps the counters natural numbers. *)
LEMMA SpendType ==
    ASSUME NEW b \in Bounds, budget \in [Bounds -> Nat], Spend(b)
    PROVE  budget' \in [Bounds -> Nat]
  BY DEF Spend

(* A flush appends well-formed events and only empties buffers. *)
LEMMA FlushType ==
    ASSUME NEW T \in SUBSET Threads, NEW after \in Seq(EventSet),
           events \in Seq(EventSet), buffers \subseteq Threads, Flush(T, after)
    PROVE  events' \in Seq(EventSet) /\ buffers' \subseteq Threads
<1>1. \A t \in Threads : Event("messages", t) \in EventSet
  BY DEF Event, EventSet, EventTypes, Threads
<1>2. Flushed(T) \in Seq(EventSet)
  BY <1>1 DEF Flushed, Threads
<1> QED
  BY <1>2 DEF Flush

(* The events a chunk becomes are well formed. *)
LEMMA EventsOfType ==
    ASSUME NEW k \in ChunkKinds, NEW t \in Threads
    PROVE  EventsOf(k, t) \in Seq(EventSet)
<1>1. \A e \in EventTypes : Event(e, t) \in EventSet
  BY DEF Event, EventSet
<1>2. /\ Event("custom", t) \in EventSet /\ Event("interrupt", t) \in EventSet
      /\ Event("error", t) \in EventSet
  BY <1>1 DEF EventTypes
<1> QED
  BY <1>2 DEF EventsOf, ChunkKinds

(* Leaving the worker resets the local variables within their types. *)
LEMMA LeaveType ==
    ASSUME NEW how \in {"return", "error", "stopped"}, LeaveWorker(how)
    PROVE  /\ pc' \in Points /\ job' \in {"queued", "done"}
           /\ mode' = "setup" /\ outcome' = "none" /\ leaving' = "return"
           /\ cancelEvent' = FALSE /\ terminalSet' = FALSE /\ buffers' = {}
           /\ agent' = "streaming" /\ retryable' = FALSE
  BY DEF LeaveWorker, FreshLocals, JobAfter, Points

(* A rollback leaves the lock and the pending write within their types. *)
LEMMA RollbackType ==
    ASSUME TypeOK, NEW o, RollbackRow(o)
    PROVE  /\ lock' \in {"none", "worker"} \cup Cancels
           /\ written' \in {"none", "running", "cancel_requested"} \cup Terminal
  BY DEF TypeOK, RollbackRow

(* One more event of the right type keeps the stream well formed. *)
LEMMA AppendType ==
    ASSUME NEW s \in Seq(EventSet), NEW e \in EventSet
    PROVE  Append(s, e) \in Seq(EventSet)
  OBVIOUS

(* The state of the row, Redis, the requests and the worker keeps its type. *)
THEOREM TypeCorrect == Spec => []TypeOK
<1>1. Init => TypeOK
  <2> SUFFICES ASSUME Init PROVE TypeOK
    OBVIOUS
  <2>1. /\ cancelKey \in BOOLEAN /\ memoryJob \in BOOLEAN /\ cancelEvent \in BOOLEAN
        /\ terminalSet \in BOOLEAN /\ retryable \in BOOLEAN /\ lost \in BOOLEAN
        /\ reopened \in BOOLEAN
    BY DEF Init
  <2>2. status \in Statuses /\ pc \in Points
    BY DEF Init, Statuses, Points
  <2>3. tries \in 0 .. MaxTries /\ budget \in [Bounds -> Nat]
    BY MaxTriesAssumption DEF Init
  <2>4. events \in Seq(EventSet)
    BY DEF Init
  <2>5. /\ submit \in [Submits -> {"new", "validated", "inserted", "answered", "failed"}]
        /\ cancel \in [Cancels -> {"new", "lock", "publish", "commit", "answered", "failed"}]
        /\ seen \in [Cancels -> Statuses]
    BY DEF Init, Statuses
  <2>6. /\ lock = "none" /\ written = "none" /\ job = "none" /\ mode = "setup"
        /\ outcome = "none" /\ leaving = "return" /\ buffers = {} /\ agent = "streaming"
    BY DEF Init
  <2> QED
    BY <2>1, <2>2, <2>3, <2>4, <2>5, <2>6 DEF TypeOK
<1>2. TypeOK /\ [Next]_vars => TypeOK'
  <2> SUFFICES ASSUME TypeOK, [Next]_vars PROVE TypeOK'
    OBVIOUS
  <2> USE DEF TypeOK, rowVars, redisVars, jobVars, httpVars, workerVars, history
  <2>1. ASSUME NEW s \in Submits, SubmitLookup(s) PROVE TypeOK'
    BY <2>1 DEF SubmitLookup
  <2>2. ASSUME NEW s \in Submits, SubmitInsert(s) PROVE TypeOK'
    BY <2>2 DEF SubmitInsert, Statuses, Active
  <2>3. ASSUME NEW s \in Submits, SubmitEnqueue(s) PROVE TypeOK'
    BY <2>3 DEF SubmitEnqueue
  <2>4. ASSUME NEW c \in Cancels, CancelRead(c) PROVE TypeOK'
    BY <2>4 DEF CancelRead
  <2>5. ASSUME NEW c \in Cancels, CancelLock(c) PROVE TypeOK'
    BY <2>5 DEF CancelLock, LockRow, CancelWrites
  <2>6. ASSUME NEW c \in Cancels, CancelPublish(c) PROVE TypeOK'
    <3>1. budget' \in [Bounds -> Nat]
      BY <2>6, SpendType DEF CancelPublish, Bounds
    <3>2. cancelKey' \in BOOLEAN
      BY <2>6 DEF CancelPublish
    <3>3. cancel' = [cancel EXCEPT ![c] = "commit"]
      BY <2>6 DEF CancelPublish
    <3>4. UNCHANGED <<rowVars, events, jobVars, submit, seen, workerVars, history>>
      BY <2>6 DEF CancelPublish
    <3> QED
      BY <3>1, <3>2, <3>3, <3>4
  <2>7. ASSUME NEW c \in Cancels, CancelCommit(c) PROVE TypeOK'
    BY <2>7 DEF CancelCommit, CommitRow, Statuses, Active
  <2>8. ASSUME JobStart PROVE TypeOK'
    BY <2>8, MaxTriesAssumption DEF JobStart, TriesLeft, Points, SetupPoints, TryPoints
  <2>9. ASSUME LoadRun PROVE TypeOK'
    <3>1. CASE status \in Terminal
      <4>1. LeaveWorker("return")
        BY <2>9, <3>1 DEF LoadRun
      <4>2. UNCHANGED <<rowVars, redisVars, tries, memoryJob, httpVars, budget, history>>
        BY <2>9 DEF LoadRun
      <4> QED
        BY <4>1, <4>2, LeaveType
    <3>2. CASE status \notin Terminal
      BY <2>9, <3>2 DEF LoadRun, Points, SetupPoints, TryPoints, Terminal
    <3> QED
      BY <3>1, <3>2
  <2>10. ASSUME RunningBegin PROVE TypeOK'
    BY <2>10 DEF RunningBegin, LockRow, Points, SetupPoints
  <2>11. ASSUME RunningCommit PROVE TypeOK'
    BY <2>11 DEF RunningCommit, CommitRow, Points, SetupPoints, TryPoints, Statuses, Active
  <2>12. ASSUME AppendMetadata PROVE TypeOK'
    BY <2>12 DEF AppendMetadata, Event, EventSet, EventTypes, Threads, Points, SetupPoints,
       TryPoints
  <2>13. ASSUME ClassifyInterrupt PROVE TypeOK'
    BY <2>13 DEF ClassifyInterrupt, Points, SetupPoints, TryPoints, Terminal
  <2>14. ASSUME CancelNoticed PROVE TypeOK'
    BY <2>14 DEF CancelNoticed, Points, SetupPoints, TryPoints
  <2>15. ASSUME CheckCancelled PROVE TypeOK'
    BY <2>15 DEF CheckCancelled, Points, SetupPoints, TryPoints
  <2>16. ASSUME MarkTerminal PROVE TypeOK'
    BY <2>16 DEF MarkTerminal, LockRow, TerminalWrite, MemoryHook, Points, SetupPoints, TryPoints
  <2>17. ASSUME MarkCommit PROVE TypeOK'
    <3>1. /\ status' \in Statuses /\ lock' \in {"none", "worker"} \cup Cancels
          /\ written' \in {"none", "running", "cancel_requested"} \cup Terminal
      BY <2>17 DEF MarkCommit, CommitRow, Statuses, Active
    <3>2. UNCHANGED <<redisVars, tries, memoryJob, httpVars, budget, history>>
      BY <2>17 DEF MarkCommit
    <3>3. CASE mode = "setup"
      <4>1. LeaveWorker("return")
        BY <2>17, <3>3 DEF MarkCommit
      <4> QED
        BY <3>1, <3>2, <4>1, LeaveType
    <3>4. CASE mode # "setup"
      <4>1. /\ pc' = "end"
            /\ UNCHANGED <<job, mode, outcome, leaving, cancelEvent, terminalSet,
                           buffers, agent, retryable>>
        BY <2>17, <3>4 DEF MarkCommit
      <4> QED
        BY <3>1, <3>2, <4>1 DEF Points, TryPoints
    <3> QED
      BY <3>3, <3>4
  <2>18. ASSUME AppendEnd PROVE TypeOK'
    <3>1. EndEvent(outcome) \in EventSet
      BY DEF EndEvent, EventSet, EventTypes, Threads
    <3>2. events' \in Seq(EventSet)
      BY <2>18, <3>1 DEF AppendEnd
    <3>3. terminalSet' \in BOOLEAN
      BY <2>18 DEF AppendEnd
    <3>4. pc' \in Points
      BY <2>18 DEF AppendEnd, Points, TryPoints
    <3>5. UNCHANGED <<rowVars, cancelKey, jobVars, httpVars, mode, outcome, leaving,
                      cancelEvent, buffers, agent, retryable, budget, history>>
      BY <2>18 DEF AppendEnd
    <3> QED
      BY <3>2, <3>3, <3>4, <3>5
  <2>19. ASSUME HandleCancelled PROVE TypeOK'
    <3>1. Flush(Threads, <<Event("interrupt", "main")>>)
      BY <2>19 DEF HandleCancelled, Points, SetupPoints, TryPoints, Terminal
    <3>2. <<Event("interrupt", "main")>> \in Seq(EventSet)
      BY DEF Event, EventSet, EventTypes, Threads
    <3>3. events' \in Seq(EventSet) /\ buffers' \subseteq Threads
      BY <3>1, <3>2, FlushType
    <3> QED
      BY <2>19, <3>3 DEF HandleCancelled, Points, SetupPoints, TryPoints, Terminal
  <2>20. ASSUME HandleRaised PROVE TypeOK'
    <3>1. PICK e \in {"retry", "error"} : Flush(Threads, <<Event(e, "main")>>)
      BY <2>20 DEF HandleRaised
    <3>2. <<Event(e, "main")>> \in Seq(EventSet)
      BY DEF Event, EventSet, EventTypes, Threads
    <3>3. events' \in Seq(EventSet) /\ buffers' \subseteq Threads
      BY <3>1, <3>2, FlushType
    <3> QED
      BY <2>20, <3>3 DEF HandleRaised, Points, SetupPoints, TryPoints, Terminal
  <2>21. ASSUME Finally PROVE TypeOK'
    BY <2>21, LeaveType DEF Finally
  <2>22. ASSUME WatchSignal PROVE TypeOK'
    BY <2>22 DEF WatchSignal
  <2>23. ASSUME NEW t \in Threads, AgentLoads(t) PROVE TypeOK'
    <3>1. budget' \in [Bounds -> Nat]
      BY <2>23, SpendType DEF AgentLoads, Bounds
    <3>2. Event("messages", t) \in EventSet
      BY DEF Event, EventSet, EventTypes, Threads
    <3>3. events' = events \/ events' = Append(events, Event("messages", t))
      BY <2>23 DEF AgentLoads
    <3>4. events' \in Seq(EventSet)
      <4>1. Append(events, Event("messages", t)) \in Seq(EventSet)
        BY <3>2, AppendType
      <4> QED
        BY <3>3, <4>1
    <3>5. buffers' \subseteq Threads
      BY <2>23 DEF AgentLoads
    <3>6. UNCHANGED <<rowVars, cancelKey, jobVars, httpVars, pc, mode, outcome, leaving,
                      cancelEvent, terminalSet, agent, retryable, history>>
      BY <2>23 DEF AgentLoads
    <3> QED
      BY <3>1, <3>4, <3>5, <3>6
  <2>24. ASSUME NEW k \in ChunkKinds, NEW t \in Threads, AgentYields(k, t) PROVE TypeOK'
    <3>1. Flush({t}, EventsOf(k, t)) /\ Spend("chunks") /\ {t} \in SUBSET Threads
      BY <2>24 DEF AgentYields, Points, SetupPoints, TryPoints, Terminal
    <3>2. events' \in Seq(EventSet) /\ buffers' \subseteq Threads
      BY <3>1, EventsOfType, FlushType
    <3>3. budget' \in [Bounds -> Nat]
      BY <3>1, SpendType DEF Bounds
    <3>4. agent' \in {"streaming", "asked", "over"} /\ pc' \in Points
          /\ outcome' \in Terminal \cup {"none"}
      BY <2>24 DEF AgentYields, Points, SetupPoints, TryPoints, Terminal
    <3> QED
      BY <2>24, <3>2, <3>3, <3>4 DEF AgentYields, Points, SetupPoints, TryPoints, Terminal
  <2>25. ASSUME StreamEnds PROVE TypeOK'
    <3>1. Flush(Threads, <<>>) /\ <<>> \in Seq(EventSet)
      BY <2>25 DEF StreamEnds, Points, SetupPoints, TryPoints, Terminal
    <3>2. events' \in Seq(EventSet) /\ buffers' \subseteq Threads
      BY <3>1, FlushType
    <3> QED
      BY <2>25, <3>2 DEF StreamEnds, Points, SetupPoints, TryPoints, Terminal
  <2>26. ASSUME StreamRaises PROVE TypeOK'
    BY <2>26 DEF StreamRaises, Points, SetupPoints, TryPoints
  <2>27. ASSUME NEW s \in Submits, SubmitFails(s) PROVE TypeOK'
    <3>1. budget' \in [Bounds -> Nat]
      BY <2>27, SpendType DEF SubmitFails, Bounds
    <3> QED
      BY <2>27, <3>1 DEF SubmitFails
  <2>28. ASSUME NEW c \in Cancels, CancelFails(c) PROVE TypeOK'
    <3>1. budget' \in [Bounds -> Nat]
      BY <2>28, SpendType DEF CancelFails, Bounds
    <3> QED
      BY <2>28, <3>1 DEF CancelFails, RollbackRow
  <2>29. ASSUME CancelKeyExpires PROVE TypeOK'
    <3>1. budget' \in [Bounds -> Nat]
      BY <2>29, SpendType DEF CancelKeyExpires, Bounds
    <3>2. cancelKey' \in BOOLEAN
      BY <2>29 DEF CancelKeyExpires
    <3>3. UNCHANGED <<rowVars, events, jobVars, httpVars, workerVars, history>>
      BY <2>29 DEF CancelKeyExpires
    <3> QED
      BY <3>1, <3>2, <3>3
  <2>30. ASSUME WorkerCrash PROVE TypeOK'
    <3>1. Spend("crashes") /\ LeaveWorker("stopped") /\ RollbackRow("worker")
      BY <2>30 DEF WorkerCrash
    <3>2. budget' \in [Bounds -> Nat]
      BY <3>1, SpendType DEF Bounds
    <3> QED
      BY <2>30, <3>1, <3>2, LeaveType, RollbackType DEF WorkerCrash
  <2>31. ASSUME SetupRaises PROVE TypeOK'
    <3>1. Spend("faults") /\ LeaveWorker("error") /\ RollbackRow("worker")
      BY <2>31 DEF SetupRaises
    <3>2. budget' \in [Bounds -> Nat]
      BY <3>1, SpendType DEF Bounds
    <3> QED
      BY <2>31, <3>1, <3>2, LeaveType, RollbackType DEF SetupRaises
  <2>32. ASSUME TryRaises PROVE TypeOK'
    <3>1. budget' \in [Bounds -> Nat]
      BY <2>32, SpendType DEF TryRaises, Bounds
    <3> QED
      BY <2>32, <3>1 DEF TryRaises, RollbackRow, Points, SetupPoints, TryPoints
  <2>33. ASSUME HandlerRaises PROVE TypeOK'
    <3>1. budget' \in [Bounds -> Nat]
      BY <2>33, SpendType DEF HandlerRaises, Bounds
    <3> QED
      BY <2>33, <3>1 DEF HandlerRaises, RollbackRow, Points, SetupPoints, TryPoints
  <2>34. ASSUME WorkerStopped PROVE TypeOK'
    <3>1. budget' \in [Bounds -> Nat]
      BY <2>34, SpendType DEF WorkerStopped, Bounds
    <3>2. CASE LeaveWorker("stopped")
      BY <2>34, <3>1, <3>2, LeaveType, RollbackType DEF WorkerStopped, Points, SetupPoints,
         TryPoints
    <3>3. CASE ~LeaveWorker("stopped")
      BY <2>34, <3>1, <3>3, RollbackType DEF WorkerStopped, Points, SetupPoints, TryPoints
    <3> QED
      BY <3>2, <3>3
  <2>35. CASE UNCHANGED vars
    BY <2>35 DEF vars
  <2> QED
    BY <2>1, <2>2, <2>3, <2>4, <2>5, <2>6, <2>7, <2>8, <2>9, <2>10, <2>11, <2>12, <2>13,
       <2>14, <2>15, <2>16, <2>17, <2>18, <2>19, <2>20, <2>21, <2>22, <2>23, <2>24, <2>25,
       <2>26, <2>27, <2>28, <2>29, <2>30, <2>31, <2>32, <2>33, <2>34, <2>35
       DEF Next, HttpNext, WorkerSteps, AgentSteps, Failures
<1> QED
  BY <1>1, <1>2, PTL DEF Spec

-----------------------------------------------------------------------------
(* The row and the end event. *)

(* Appending events that are no ends adds no end. *)
LEMMA NoNewEnd ==
    ASSUME events \in Seq(EventSet), NEW more \in Seq(EventSet),
           \A i \in 1 .. Len(more) : more[i].type # "end",
           events' = events \o more
    PROVE  HasEnd' => HasEnd
<1> SUFFICES ASSUME NEW i \in 1 .. Len(events'), events'[i].type = "end" PROVE HasEnd
  BY DEF HasEnd
<1>1. CASE i <= Len(events)
  BY <1>1 DEF HasEnd
<1>2. CASE i > Len(events)
  <2>1. i - Len(events) \in 1 .. Len(more) /\ events'[i] = more[i - Len(events)]
    BY <1>2
  <2> QED
    BY <2>1
<1> QED
  BY <1>1, <1>2

(* So does appending one event. *)
LEMMA NoEndAppended ==
    ASSUME events \in Seq(EventSet), NEW e \in EventSet, e.type # "end",
           events' = Append(events, e)
    PROVE  HasEnd' => HasEnd
<1>1. events' = events \o <<e>> /\ <<e>> \in Seq(EventSet)
  OBVIOUS
<1>2. \A i \in 1 .. Len(<<e>>) : <<e>>[i].type # "end"
  OBVIOUS
<1> QED
  BY <1>1, <1>2, NoNewEnd

(* What a chunk becomes holds no end event. *)
LEMMA NoEndInChunk ==
    ASSUME NEW k \in ChunkKinds, NEW t \in Threads
    PROVE  \A i \in 1 .. Len(EventsOf(k, t)) : EventsOf(k, t)[i].type # "end"
<1>1. \A e \in {"custom", "interrupt", "error"} : Event(e, t).type # "end"
  BY DEF Event
<1>2. \E e \in {"custom", "interrupt", "error"} :
        EventsOf(k, t) = <<Event(e, t)>> \/ EventsOf(k, t) = <<>>
  BY DEF EventsOf, ChunkKinds
<1> QED
  BY <1>1, <1>2

(* A flush appends messages and the events after them. *)
LEMMA NoEndInFlush ==
    ASSUME NEW T \in SUBSET Threads, NEW after \in Seq(EventSet),
           events \in Seq(EventSet), Flush(T, after),
           \A i \in 1 .. Len(after) : after[i].type # "end"
    PROVE  HasEnd' => HasEnd
<1> DEFINE more == Flushed(T) \o after
<1>1. \A t \in Threads : Event("messages", t) \in EventSet
                           /\ Event("messages", t).type # "end"
  BY DEF Event, EventSet, EventTypes, Threads
<1>2. /\ Flushed(T) \in Seq(EventSet)
      /\ \A i \in 1 .. Len(Flushed(T)) : Flushed(T)[i].type # "end"
  BY <1>1 DEF Flushed, Threads
<1>3. more \in Seq(EventSet) /\ \A i \in 1 .. Len(more) : more[i].type # "end"
  BY <1>2
<1>4. events' = events \o more
  BY <1>2 DEF Flush
<1> HIDE DEF more
<1> QED
  BY <1>3, <1>4, NoNewEnd

(* The worker walks to any point but those of the marking of a status, and *)
(* releases the row if it held it: the invariant stays.                    *)
LEMMA WorkerMoves ==
    ASSUME RowInvariant, UNCHANGED <<status, httpVars, history>>,
           RollbackRow("worker"), status # "absent", pc' \notin {"commit", "end"},
           pc' = "mark" => outcome' \in Terminal, HasEnd' => HasEnd
    PROVE  RowInvariant'
<1>1. LockProtects'
  BY OwnersAssumption DEF RowInvariant, LockProtects, RollbackRow, httpVars
<1>2. RowExists'
  BY DEF RowInvariant, RowExists, httpVars
<1>3. EndInProgress'
  BY DEF EndInProgress
<1>4. EndMeansTerminal'
  BY DEF RowInvariant, EndMeansTerminal, history
<1> QED
  BY <1>1, <1>2, <1>3, <1>4 DEF RowInvariant

(* Steps beside the row, the requests and the coroutine leave it alone. *)
LEMMA Untouched ==
    ASSUME RowInvariant,
           UNCHANGED <<rowVars, events, httpVars, history, pc, outcome, job>>
    PROVE  RowInvariant'
  BY DEF rowVars, httpVars, history, RowInvariant, LockProtects, RowExists, EndInProgress,
     EndMeansTerminal, HasEnd

(* The lock is free of the worker outside its two transactions. *)
LEMMA WorkerHoldsNothing ==
    ASSUME RowInvariant, pc \notin {"runningCommit", "commit"}, UNCHANGED <<lock, written>>
    PROVE  RollbackRow("worker")
  BY DEF RowInvariant, LockProtects, RollbackRow

(* The row invariant: an end event without a terminal row is explained by  *)
(* one of the two windows, and nothing else in the code opens a third.     *)
THEOREM RowStep == TypeOK /\ RowInvariant /\ [Next]_vars => RowInvariant'
<1>1. ASSUME TypeOK, RowInvariant, Next PROVE RowInvariant'
  <2> USE <1>1
  <2>1. ASSUME NEW s \in Submits, SubmitLookup(s) PROVE RowInvariant'
    <3>1. HasEnd' = HasEnd
      BY <2>1 DEF SubmitLookup, HasEnd, redisVars
    <3>2. LockProtects'
      BY <2>1, OwnersAssumption DEF SubmitLookup, RowInvariant, LockProtects, RowExists,
         EndInProgress,
         TypeOK, LockRow, CommitRow, RollbackRow, CancelWrites, rowVars, workerVars, Terminal, Active
    <3>3. RowExists'
      BY <2>1 DEF SubmitLookup, RowInvariant, RowExists, LockProtects, LockRow, CommitRow,
         RollbackRow,
         TypeOK, rowVars, jobVars, workerVars, Terminal
    <3>4. EndInProgress'
      BY <2>1, OwnersAssumption DEF SubmitLookup, RowInvariant, EndInProgress, RowExists,
         LockProtects,
         LockRow, CommitRow, RollbackRow, TypeOK, rowVars, workerVars, history, Terminal
    <3>5. EndMeansTerminal'
      BY <2>1, <3>1 DEF SubmitLookup, RowInvariant, EndMeansTerminal, CommitRow, rowVars,
         history,
         Terminal
    <3> QED
      BY <3>2, <3>3, <3>4, <3>5 DEF RowInvariant
  <2>2. ASSUME NEW s \in Submits, SubmitInsert(s) PROVE RowInvariant'
    <3>1. HasEnd' = HasEnd
      BY <2>2 DEF SubmitInsert, HasEnd, redisVars
    <3>2. LockProtects'
      BY <2>2, OwnersAssumption DEF SubmitInsert, RowInvariant, LockProtects, RowExists,
         EndInProgress,
         TypeOK, LockRow, CommitRow, RollbackRow, CancelWrites, rowVars, workerVars, Terminal, Active
    <3>3. RowExists'
      BY <2>2 DEF SubmitInsert, RowInvariant, RowExists, LockProtects, LockRow, CommitRow,
         RollbackRow,
         TypeOK, rowVars, jobVars, workerVars, Terminal
    <3>4. EndInProgress'
      BY <2>2, OwnersAssumption DEF SubmitInsert, RowInvariant, EndInProgress, RowExists,
         LockProtects,
         LockRow, CommitRow, RollbackRow, TypeOK, rowVars, workerVars, history, Terminal
    <3>5. EndMeansTerminal'
      BY <2>2, <3>1 DEF SubmitInsert, RowInvariant, EndMeansTerminal, CommitRow, rowVars,
         history,
         Terminal
    <3> QED
      BY <3>2, <3>3, <3>4, <3>5 DEF RowInvariant
  <2>3. ASSUME NEW s \in Submits, SubmitEnqueue(s) PROVE RowInvariant'
    <3>1. HasEnd' = HasEnd
      BY <2>3 DEF SubmitEnqueue, HasEnd, redisVars
    <3>2. LockProtects'
      BY <2>3, OwnersAssumption DEF SubmitEnqueue, RowInvariant, LockProtects, RowExists,
         EndInProgress,
         TypeOK, LockRow, CommitRow, RollbackRow, CancelWrites, rowVars, workerVars, Terminal, Active
    <3>3. RowExists'
      BY <2>3 DEF SubmitEnqueue, RowInvariant, RowExists, LockProtects, LockRow, CommitRow,
         RollbackRow,
         TypeOK, rowVars, jobVars, workerVars, Terminal
    <3>4. EndInProgress'
      BY <2>3, OwnersAssumption DEF SubmitEnqueue, RowInvariant, EndInProgress, RowExists,
         LockProtects,
         LockRow, CommitRow, RollbackRow, TypeOK, rowVars, workerVars, history, Terminal
    <3>5. EndMeansTerminal'
      BY <2>3, <3>1 DEF SubmitEnqueue, RowInvariant, EndMeansTerminal, CommitRow, rowVars,
         history,
         Terminal
    <3> QED
      BY <3>2, <3>3, <3>4, <3>5 DEF RowInvariant
  <2>4. ASSUME NEW c \in Cancels, CancelRead(c) PROVE RowInvariant'
    <3>1. HasEnd' = HasEnd
      BY <2>4 DEF CancelRead, HasEnd, redisVars
    <3>2. LockProtects'
      BY <2>4, OwnersAssumption DEF CancelRead, RowInvariant, LockProtects, RowExists,
         EndInProgress,
         TypeOK, LockRow, CommitRow, RollbackRow, CancelWrites, rowVars, workerVars, Terminal, Active
    <3>3. RowExists'
      BY <2>4 DEF CancelRead, RowInvariant, RowExists, LockProtects, LockRow, CommitRow,
         RollbackRow,
         TypeOK, rowVars, jobVars, workerVars, Terminal
    <3>4. EndInProgress'
      BY <2>4, OwnersAssumption DEF CancelRead, RowInvariant, EndInProgress, RowExists,
         LockProtects,
         LockRow, CommitRow, RollbackRow, TypeOK, rowVars, workerVars, history, Terminal
    <3>5. EndMeansTerminal'
      BY <2>4, <3>1 DEF CancelRead, RowInvariant, EndMeansTerminal, CommitRow, rowVars, history,
         Terminal
    <3> QED
      BY <3>2, <3>3, <3>4, <3>5 DEF RowInvariant
  <2>5. ASSUME NEW c \in Cancels, CancelLock(c) PROVE RowInvariant'
    <3>1. HasEnd' = HasEnd
      BY <2>5 DEF CancelLock, HasEnd, redisVars
    <3>2. LockProtects'
      BY <2>5, OwnersAssumption DEF CancelLock, RowInvariant, LockProtects, RowExists,
         EndInProgress,
         TypeOK, LockRow, CommitRow, RollbackRow, CancelWrites, rowVars, workerVars, Terminal, Active
    <3>3. RowExists'
      BY <2>5 DEF CancelLock, RowInvariant, RowExists, LockProtects, LockRow, CommitRow,
         RollbackRow,
         TypeOK, rowVars, jobVars, workerVars, Terminal
    <3>4. EndInProgress'
      BY <2>5, OwnersAssumption DEF CancelLock, RowInvariant, EndInProgress, RowExists,
         LockProtects,
         LockRow, CommitRow, RollbackRow, TypeOK, rowVars, workerVars, history, Terminal
    <3>5. EndMeansTerminal'
      BY <2>5, <3>1 DEF CancelLock, RowInvariant, EndMeansTerminal, CommitRow, rowVars, history,
         Terminal
    <3> QED
      BY <3>2, <3>3, <3>4, <3>5 DEF RowInvariant
  <2>6. ASSUME NEW c \in Cancels, CancelPublish(c) PROVE RowInvariant'
    <3>1. HasEnd' = HasEnd
      BY <2>6 DEF CancelPublish, HasEnd, redisVars
    <3>2. LockProtects'
      BY <2>6, OwnersAssumption DEF CancelPublish, RowInvariant, LockProtects, RowExists,
         EndInProgress,
         TypeOK, LockRow, CommitRow, RollbackRow, CancelWrites, rowVars, workerVars, Terminal, Active
    <3>3. RowExists'
      BY <2>6 DEF CancelPublish, RowInvariant, RowExists, LockProtects, LockRow, CommitRow,
         RollbackRow,
         TypeOK, rowVars, jobVars, workerVars, Terminal
    <3>4. EndInProgress'
      BY <2>6, OwnersAssumption DEF CancelPublish, RowInvariant, EndInProgress, RowExists,
         LockProtects,
         LockRow, CommitRow, RollbackRow, TypeOK, rowVars, workerVars, history, Terminal
    <3>5. EndMeansTerminal'
      BY <2>6, <3>1 DEF CancelPublish, RowInvariant, EndMeansTerminal, CommitRow, rowVars,
         history,
         Terminal
    <3> QED
      BY <3>2, <3>3, <3>4, <3>5 DEF RowInvariant
  <2>7. ASSUME NEW c \in Cancels, CancelCommit(c) PROVE RowInvariant'
    <3>1. HasEnd' = HasEnd
      BY <2>7 DEF CancelCommit, HasEnd, redisVars
    <3>2. LockProtects'
      BY <2>7, OwnersAssumption DEF CancelCommit, RowInvariant, LockProtects, RowExists,
         EndInProgress,
         TypeOK, LockRow, CommitRow, RollbackRow, CancelWrites, rowVars, workerVars, Terminal, Active
    <3>3. RowExists'
      BY <2>7 DEF CancelCommit, RowInvariant, RowExists, LockProtects, LockRow, CommitRow,
         RollbackRow,
         TypeOK, rowVars, jobVars, workerVars, Terminal
    <3>4. EndInProgress'
      BY <2>7, OwnersAssumption DEF CancelCommit, RowInvariant, EndInProgress, RowExists,
         LockProtects,
         LockRow, CommitRow, RollbackRow, TypeOK, rowVars, workerVars, history, Terminal
    <3>5. EndMeansTerminal'
      BY <2>7, <3>1 DEF CancelCommit, RowInvariant, EndMeansTerminal, CommitRow, rowVars,
         history,
         Terminal
    <3> QED
      BY <3>2, <3>3, <3>4, <3>5 DEF RowInvariant
  <2>8. ASSUME JobStart PROVE RowInvariant'
    <3>1. HasEnd' = HasEnd
      BY <2>8 DEF JobStart, HasEnd, redisVars
    <3>2. RollbackRow("worker")
      BY <2>8, WorkerHoldsNothing DEF JobStart, rowVars
    <3>3. UNCHANGED <<status, httpVars, history>>
      BY <2>8 DEF JobStart, rowVars
    <3>4. status # "absent" /\ pc' \notin {"commit", "end"}
          /\ (pc' = "mark" => outcome' \in Terminal)
      BY <2>8 DEF JobStart, Terminal, RowInvariant, RowExists
    <3> QED
      BY <3>1, <3>2, <3>3, <3>4, WorkerMoves
  <2>9. ASSUME LoadRun PROVE RowInvariant'
    <3>1. HasEnd' = HasEnd
      BY <2>9 DEF LoadRun, LeaveWorker, HasEnd, redisVars
    <3>2. RollbackRow("worker")
      BY <2>9, WorkerHoldsNothing DEF LoadRun, LeaveWorker, rowVars
    <3>3. UNCHANGED <<status, httpVars, history>>
      BY <2>9 DEF LoadRun, LeaveWorker, rowVars
    <3>4. status # "absent" /\ pc' \notin {"commit", "end"}
          /\ (pc' = "mark" => outcome' \in Terminal)
      BY <2>9 DEF LoadRun, LeaveWorker, Terminal, RowInvariant, RowExists
    <3> QED
      BY <3>1, <3>2, <3>3, <3>4, WorkerMoves
  <2>10. ASSUME RunningBegin PROVE RowInvariant'
    <3>1. HasEnd' = HasEnd
      BY <2>10 DEF RunningBegin, HasEnd, redisVars
    <3>2. LockProtects'
      <4>1. CASE lock = "none"
        <5>1. /\ lock' = "worker" /\ pc' = "runningCommit"
              /\ written' # "none" => status' \in Active /\ written' # "cancel_requested"
              /\ written' \in {"none", "running"}
          BY <2>10, <4>1 DEF RunningBegin, LockRow, TypeOK, Statuses, Active, Terminal,
             RowInvariant, EndInProgress, RowExists
        <5> QED
          BY <5>1, OwnersAssumption DEF LockProtects
      <4>2. CASE lock # "none"
        BY <2>10, <4>2 DEF RunningBegin, LockRow, RowInvariant, LockProtects, httpVars
      <4> QED
        BY <4>1, <4>2
    <3>3. RowExists' /\ EndMeansTerminal'
      BY <2>10, <3>1 DEF RunningBegin, RowInvariant, RowExists, EndMeansTerminal, jobVars,
         httpVars,
         history
    <3>4. EndInProgress'
      BY <2>10 DEF RunningBegin, EndInProgress
    <3> QED
      BY <3>2, <3>3, <3>4 DEF RowInvariant
  <2>11. ASSUME RunningCommit PROVE RowInvariant'
    <3>1. HasEnd' = HasEnd
      BY <2>11 DEF RunningCommit, HasEnd, redisVars
    <3>2. LockProtects'
      <4>1. lock' # "worker"
        BY <2>11 DEF RunningCommit, CommitRow, rowVars
      <4>2. lock' = "none" => written' = "none"
        BY <2>11 DEF RunningCommit, CommitRow, rowVars, RowInvariant, LockProtects
      <4>3. ASSUME NEW c \in Cancels, lock' = c
            PROVE  lock = c /\ written' = written /\ cancel' = cancel /\ seen' = seen
        BY <2>11, <4>3, OwnersAssumption DEF RunningCommit, CommitRow, rowVars, httpVars
      <4> QED
        BY <4>1, <4>2, <4>3 DEF RowInvariant, LockProtects
    <3>3. /\ status' # "absent"
          /\ status \in Terminal => status' = status
          /\ lock = "worker" /\ written # "none" => status' = written
          /\ lock # "worker" \/ written = "none" => status' = status
      BY <2>11 DEF RunningCommit, CommitRow, rowVars, RowInvariant, RowExists, LockProtects,
         TypeOK,
         Terminal, Active
    <3>4. RowExists'
      BY <2>11, <3>3 DEF RunningCommit, RowInvariant, RowExists, httpVars
    <3>5. EndInProgress'
      BY <2>11, <3>3 DEF RunningCommit, RowInvariant, EndInProgress, LockProtects,
         LeaveWorker, history, Terminal
    <3>6. EndMeansTerminal'
      BY <2>11, <3>1, <3>3 DEF RunningCommit, RowInvariant, EndMeansTerminal, history
    <3> QED
      BY <3>2, <3>4, <3>5, <3>6 DEF RowInvariant
  <2>12. ASSUME AppendMetadata PROVE RowInvariant'
    <3>1. HasEnd' => HasEnd
      <4>1. Event("metadata", "main") \in EventSet /\ Event("metadata", "main").type # "end"
        BY DEF Event, EventSet, EventTypes, Threads
      <4>2. events' = events \/ events' = Append(events, Event("metadata", "main"))
        BY <2>12 DEF AppendMetadata
      <4>3. CASE events' = events
        BY <4>3 DEF HasEnd
      <4>4. CASE events' = Append(events, Event("metadata", "main"))
        BY <4>1, <4>4, NoEndAppended DEF TypeOK
      <4> QED
        BY <4>2, <4>3, <4>4
    <3>2. RollbackRow("worker")
      BY <2>12, WorkerHoldsNothing DEF AppendMetadata, rowVars
    <3>3. UNCHANGED <<status, httpVars, history>>
      BY <2>12 DEF AppendMetadata, rowVars
    <3>4. status # "absent" /\ pc' \notin {"commit", "end"}
          /\ (pc' = "mark" => outcome' \in Terminal)
      BY <2>12 DEF AppendMetadata, Terminal, RowInvariant, RowExists
    <3> QED
      BY <3>1, <3>2, <3>3, <3>4, WorkerMoves
  <2>13. ASSUME ClassifyInterrupt PROVE RowInvariant'
    <3>1. HasEnd' = HasEnd
      BY <2>13 DEF ClassifyInterrupt, HasEnd, redisVars
    <3>2. RollbackRow("worker")
      BY <2>13, WorkerHoldsNothing DEF ClassifyInterrupt, rowVars
    <3>3. UNCHANGED <<status, httpVars, history>>
      BY <2>13 DEF ClassifyInterrupt, rowVars
    <3>4. status # "absent" /\ pc' \notin {"commit", "end"}
          /\ (pc' = "mark" => outcome' \in Terminal)
      BY <2>13 DEF ClassifyInterrupt, Terminal, RowInvariant, RowExists
    <3> QED
      BY <3>1, <3>2, <3>3, <3>4, WorkerMoves
  <2>14. ASSUME CancelNoticed PROVE RowInvariant'
    <3>1. HasEnd' = HasEnd
      BY <2>14 DEF CancelNoticed, HasEnd, redisVars
    <3>2. RollbackRow("worker")
      BY <2>14, WorkerHoldsNothing DEF CancelNoticed, rowVars
    <3>3. UNCHANGED <<status, httpVars, history>>
      BY <2>14 DEF CancelNoticed, rowVars
    <3>4. status # "absent" /\ pc' \notin {"commit", "end"}
          /\ (pc' = "mark" => outcome' \in Terminal)
      BY <2>14 DEF CancelNoticed, Terminal, RowInvariant, RowExists
    <3> QED
      BY <3>1, <3>2, <3>3, <3>4, WorkerMoves
  <2>15. ASSUME CheckCancelled PROVE RowInvariant'
    <3>1. HasEnd' = HasEnd
      BY <2>15 DEF CheckCancelled, HasEnd, redisVars
    <3>2. RollbackRow("worker")
      BY <2>15, WorkerHoldsNothing DEF CheckCancelled, rowVars
    <3>3. UNCHANGED <<status, httpVars, history>>
      BY <2>15 DEF CheckCancelled, rowVars
    <3>4. status # "absent" /\ pc' \notin {"commit", "end"}
          /\ (pc' = "mark" => outcome' \in Terminal)
      BY <2>15 DEF CheckCancelled, Terminal, RowInvariant, RowExists
    <3> QED
      BY <3>1, <3>2, <3>3, <3>4, WorkerMoves
  <2>16. ASSUME MarkTerminal PROVE RowInvariant'
    <3>1. HasEnd' = HasEnd
      BY <2>16 DEF MarkTerminal, HasEnd, redisVars
    <3>2. LockProtects'
      <4>1. CASE lock = "none"
        <5>1. outcome \in Terminal /\ pc = "mark" /\ status \in Statuses /\ status # "absent"
          BY <2>16 DEF MarkTerminal, RowInvariant, EndInProgress, RowExists, TypeOK
        <5>2. lock' = "worker" /\ written' = TerminalWrite /\ pc' = "commit" /\ status' = status
          BY <2>16, <4>1 DEF MarkTerminal, LockRow
        <5>3. written' # "none" => status \in Active /\ written' \in Terminal
          BY <5>1, <5>2 DEF TerminalWrite, Statuses
        <5>4. "running" \notin Terminal /\ "cancel_requested" \notin Terminal
              /\ "none" \notin Terminal
          BY DEF Terminal
        <5> QED
          BY <5>2, <5>3, <5>4, OwnersAssumption DEF LockProtects
      <4>2. CASE lock # "none"
        BY <2>16, <4>2 DEF MarkTerminal, LockRow, RowInvariant, LockProtects, httpVars
      <4> QED
        BY <4>1, <4>2
    <3>3. RowExists' /\ EndMeansTerminal'
      BY <2>16, <3>1 DEF MarkTerminal, RowInvariant, RowExists, EndMeansTerminal, jobVars,
         httpVars,
         history
    <3>4. EndInProgress'
      <4>1. outcome' \in Terminal /\ pc' = "commit" /\ status' = status
        BY <2>16 DEF MarkTerminal, RowInvariant, EndInProgress
      <4>2. lost' \/ status \in Terminal \/ (lock' = "worker" /\ written' \in Terminal)
        BY <2>16, <4>1 DEF MarkTerminal, LockRow, TerminalWrite
      <4> QED
        BY <4>1, <4>2 DEF EndInProgress
    <3> QED
      BY <3>2, <3>3, <3>4 DEF RowInvariant
  <2>17. ASSUME MarkCommit PROVE RowInvariant'
    <3>1. HasEnd' = HasEnd
      BY <2>17 DEF MarkCommit, HasEnd, redisVars
    <3>2. LockProtects'
      <4>1. lock' # "worker"
        BY <2>17 DEF MarkCommit, CommitRow, rowVars
      <4>2. lock' = "none" => written' = "none"
        BY <2>17 DEF MarkCommit, CommitRow, rowVars, RowInvariant, LockProtects
      <4>3. ASSUME NEW c \in Cancels, lock' = c
            PROVE  lock = c /\ written' = written /\ cancel' = cancel /\ seen' = seen
        BY <2>17, <4>3, OwnersAssumption DEF MarkCommit, CommitRow, rowVars, httpVars
      <4> QED
        BY <4>1, <4>2, <4>3 DEF RowInvariant, LockProtects
    <3>3. /\ status' # "absent"
          /\ status \in Terminal => status' = status
          /\ lock = "worker" /\ written # "none" => status' = written
          /\ lock # "worker" \/ written = "none" => status' = status
      BY <2>17 DEF MarkCommit, CommitRow, rowVars, RowInvariant, RowExists, LockProtects, TypeOK,
         Terminal, Active
    <3>4. RowExists'
      BY <2>17, <3>3 DEF MarkCommit, RowInvariant, RowExists, httpVars
    <3>5. EndInProgress'
      BY <2>17, <3>3 DEF MarkCommit, RowInvariant, EndInProgress, LockProtects, LeaveWorker,
         history, Terminal
    <3>6. EndMeansTerminal'
      BY <2>17, <3>1, <3>3 DEF MarkCommit, RowInvariant, EndMeansTerminal, history
    <3> QED
      BY <3>2, <3>4, <3>5, <3>6 DEF RowInvariant
  <2>18. ASSUME AppendEnd PROVE RowInvariant'
    <3>1. LockProtects' /\ RowExists'
      BY <2>18 DEF AppendEnd, RowInvariant, LockProtects, RowExists, rowVars, jobVars, httpVars
    <3>2. EndInProgress'
      BY <2>18 DEF AppendEnd, EndInProgress
    <3>3. EndMeansTerminal'
      BY <2>18 DEF AppendEnd, RowInvariant, EndInProgress, EndMeansTerminal, rowVars, history
    <3> QED
      BY <3>1, <3>2, <3>3 DEF RowInvariant
  <2>19. ASSUME HandleCancelled PROVE RowInvariant'
    <3>1. HasEnd' => HasEnd
      <4>1. Flush(Threads, <<Event("interrupt", "main")>>) /\ Threads \in SUBSET Threads
        BY <2>19 DEF HandleCancelled, Threads
      <4>2. <<Event("interrupt", "main")>> \in Seq(EventSet)
            /\ \A i \in 1 .. Len(<<Event("interrupt", "main")>>) : <<Event("interrupt", "main")>>[i].type # "end"
        BY <2>19, EventsOfType DEF Event, EventSet, EventTypes, Threads, EventsOf, ChunkKinds
      <4> QED
        BY <4>1, <4>2, NoEndInFlush DEF TypeOK
    <3>2. RollbackRow("worker")
      BY <2>19, WorkerHoldsNothing DEF HandleCancelled, rowVars
    <3>3. UNCHANGED <<status, httpVars, history>>
      BY <2>19 DEF HandleCancelled, rowVars
    <3>4. status # "absent" /\ pc' \notin {"commit", "end"}
          /\ (pc' = "mark" => outcome' \in Terminal)
      BY <2>19 DEF HandleCancelled, Terminal, RowInvariant, RowExists
    <3> QED
      BY <3>1, <3>2, <3>3, <3>4, WorkerMoves
  <2>20. ASSUME HandleRaised PROVE RowInvariant'
    <3>1. HasEnd' => HasEnd
      <4>1. PICK e \in {"retry", "error"} : Flush(Threads, <<Event(e, "main")>>)
        BY <2>20 DEF HandleRaised
      <4>2. <<Event(e, "main")>> \in Seq(EventSet)
            /\ \A i \in 1 .. Len(<<Event(e, "main")>>) : <<Event(e, "main")>>[i].type # "end"
        BY DEF Event, EventSet, EventTypes, Threads
      <4> QED
        BY <4>1, <4>2, NoEndInFlush DEF TypeOK
    <3>2. RollbackRow("worker")
      BY <2>20, WorkerHoldsNothing DEF HandleRaised, rowVars
    <3>3. UNCHANGED <<status, httpVars, history>>
      BY <2>20 DEF HandleRaised, rowVars
    <3>4. status # "absent" /\ pc' \notin {"commit", "end"}
          /\ (pc' = "mark" => outcome' \in Terminal)
      BY <2>20 DEF HandleRaised, Terminal, RowInvariant, RowExists
    <3> QED
      BY <3>1, <3>2, <3>3, <3>4, WorkerMoves
  <2>21. ASSUME Finally PROVE RowInvariant'
    <3>1. HasEnd' = HasEnd
      BY <2>21 DEF Finally, LeaveWorker, HasEnd, redisVars
    <3>2. RollbackRow("worker")
      BY <2>21, WorkerHoldsNothing DEF Finally, LeaveWorker, rowVars
    <3>3. UNCHANGED <<status, httpVars, history>>
      BY <2>21 DEF Finally, LeaveWorker, rowVars
    <3>4. status # "absent" /\ pc' \notin {"commit", "end"}
          /\ (pc' = "mark" => outcome' \in Terminal)
      BY <2>21 DEF Finally, LeaveWorker, Terminal, RowInvariant, RowExists
    <3> QED
      BY <3>1, <3>2, <3>3, <3>4, WorkerMoves
  <2>22. ASSUME WatchSignal PROVE RowInvariant'
    BY <2>22, Untouched DEF WatchSignal, redisVars, jobVars
  <2>23. ASSUME NEW t \in Threads, AgentLoads(t) PROVE RowInvariant'
    <3>1. HasEnd' => HasEnd
      <4>1. Event("messages", t) \in EventSet /\ Event("messages", t).type # "end"
        BY DEF Event, EventSet, EventTypes, Threads
      <4>2. events' = events \/ events' = Append(events, Event("messages", t))
        BY <2>23 DEF AgentLoads
      <4>3. CASE events' = events
        BY <4>3 DEF HasEnd
      <4>4. CASE events' = Append(events, Event("messages", t))
        BY <4>1, <4>4, NoEndAppended DEF TypeOK
      <4> QED
        BY <4>2, <4>3, <4>4
    <3>2. RollbackRow("worker")
      BY <2>23, WorkerHoldsNothing DEF AgentLoads, Listening, rowVars
    <3>3. UNCHANGED <<status, httpVars, history>>
      BY <2>23 DEF AgentLoads, Listening, rowVars
    <3>4. status # "absent" /\ pc' \notin {"commit", "end"}
          /\ (pc' = "mark" => outcome' \in Terminal)
      BY <2>23 DEF AgentLoads, Listening, Terminal, RowInvariant, RowExists
    <3> QED
      BY <3>1, <3>2, <3>3, <3>4, WorkerMoves
  <2>24. ASSUME NEW k \in ChunkKinds, NEW t \in Threads, AgentYields(k, t) PROVE RowInvariant'
    <3>1. HasEnd' => HasEnd
      <4>1. Flush({t}, EventsOf(k, t)) /\ {t} \in SUBSET Threads
        BY <2>24 DEF AgentYields, Listening, Threads
      <4>2. EventsOf(k, t) \in Seq(EventSet)
            /\ \A i \in 1 .. Len(EventsOf(k, t)) : EventsOf(k, t)[i].type # "end"
        BY <2>24, EventsOfType, NoEndInChunk
      <4> QED
        BY <4>1, <4>2, NoEndInFlush DEF TypeOK
    <3>2. RollbackRow("worker")
      BY <2>24, WorkerHoldsNothing DEF AgentYields, Listening, rowVars
    <3>3. UNCHANGED <<status, httpVars, history>>
      BY <2>24 DEF AgentYields, Listening, rowVars
    <3>4. status # "absent" /\ pc' \notin {"commit", "end"}
          /\ (pc' = "mark" => outcome' \in Terminal)
      BY <2>24 DEF AgentYields, Listening, Terminal, RowInvariant, RowExists
    <3> QED
      BY <3>1, <3>2, <3>3, <3>4, WorkerMoves
  <2>25. ASSUME StreamEnds PROVE RowInvariant'
    <3>1. HasEnd' => HasEnd
      <4>1. Flush(Threads, <<>>) /\ Threads \in SUBSET Threads
        BY <2>25 DEF StreamEnds, Listening, Threads
      <4>2. <<>> \in Seq(EventSet)
            /\ \A i \in 1 .. Len(<<>>) : <<>>[i].type # "end"
        OBVIOUS
      <4> QED
        BY <4>1, <4>2, NoEndInFlush DEF TypeOK
    <3>2. RollbackRow("worker")
      BY <2>25, WorkerHoldsNothing DEF StreamEnds, Listening, rowVars
    <3>3. UNCHANGED <<status, httpVars, history>>
      BY <2>25 DEF StreamEnds, Listening, rowVars
    <3>4. status # "absent" /\ pc' \notin {"commit", "end"}
          /\ (pc' = "mark" => outcome' \in Terminal)
      BY <2>25 DEF StreamEnds, Listening, Terminal, RowInvariant, RowExists
    <3> QED
      BY <3>1, <3>2, <3>3, <3>4, WorkerMoves
  <2>26. ASSUME StreamRaises PROVE RowInvariant'
    <3>1. HasEnd' = HasEnd
      BY <2>26 DEF StreamRaises, Listening, HasEnd, redisVars
    <3>2. RollbackRow("worker")
      BY <2>26, WorkerHoldsNothing DEF StreamRaises, Listening, rowVars
    <3>3. UNCHANGED <<status, httpVars, history>>
      BY <2>26 DEF StreamRaises, Listening, rowVars
    <3>4. status # "absent" /\ pc' \notin {"commit", "end"}
          /\ (pc' = "mark" => outcome' \in Terminal)
      BY <2>26 DEF StreamRaises, Listening, Terminal, RowInvariant, RowExists
    <3> QED
      BY <3>1, <3>2, <3>3, <3>4, WorkerMoves
  <2>27. ASSUME NEW s \in Submits, SubmitFails(s) PROVE RowInvariant'
    <3>1. HasEnd' = HasEnd
      BY <2>27 DEF SubmitFails, HasEnd, redisVars
    <3>2. LockProtects'
      BY <2>27, OwnersAssumption DEF SubmitFails, RowInvariant, LockProtects, RowExists,
         EndInProgress,
         TypeOK, LockRow, CommitRow, RollbackRow, CancelWrites, rowVars, workerVars, Terminal, Active
    <3>3. RowExists'
      BY <2>27 DEF SubmitFails, RowInvariant, RowExists, LockProtects, LockRow, CommitRow,
         RollbackRow,
         TypeOK, rowVars, jobVars, workerVars, Terminal
    <3>4. EndInProgress'
      BY <2>27, OwnersAssumption DEF SubmitFails, RowInvariant, EndInProgress, RowExists,
         LockProtects,
         LockRow, CommitRow, RollbackRow, TypeOK, rowVars, workerVars, history, Terminal
    <3>5. EndMeansTerminal'
      BY <2>27, <3>1 DEF SubmitFails, RowInvariant, EndMeansTerminal, CommitRow, rowVars,
         history,
         Terminal
    <3> QED
      BY <3>2, <3>3, <3>4, <3>5 DEF RowInvariant
  <2>28. ASSUME NEW c \in Cancels, CancelFails(c) PROVE RowInvariant'
    <3>1. HasEnd' = HasEnd
      BY <2>28 DEF CancelFails, HasEnd, redisVars
    <3>2. LockProtects'
      BY <2>28, OwnersAssumption DEF CancelFails, RowInvariant, LockProtects, RowExists,
         EndInProgress,
         TypeOK, LockRow, CommitRow, RollbackRow, CancelWrites, rowVars, workerVars, Terminal, Active
    <3>3. RowExists'
      BY <2>28 DEF CancelFails, RowInvariant, RowExists, LockProtects, LockRow, CommitRow,
         RollbackRow,
         TypeOK, rowVars, jobVars, workerVars, Terminal
    <3>4. EndInProgress'
      BY <2>28, OwnersAssumption DEF CancelFails, RowInvariant, EndInProgress, RowExists,
         LockProtects,
         LockRow, CommitRow, RollbackRow, TypeOK, rowVars, workerVars, history, Terminal
    <3>5. EndMeansTerminal'
      BY <2>28, <3>1 DEF CancelFails, RowInvariant, EndMeansTerminal, CommitRow, rowVars,
         history,
         Terminal
    <3> QED
      BY <3>2, <3>3, <3>4, <3>5 DEF RowInvariant
  <2>29. ASSUME CancelKeyExpires PROVE RowInvariant'
    BY <2>29, Untouched DEF CancelKeyExpires, jobVars, workerVars
  <2>30. ASSUME WorkerCrash PROVE RowInvariant'
    <3>1. HasEnd' = HasEnd
      BY <2>30 DEF WorkerCrash, HasEnd, redisVars
    <3>2. RollbackRow("worker") /\ UNCHANGED <<status, httpVars, history>>
      BY <2>30 DEF WorkerCrash
    <3>3. status # "absent" /\ pc' \notin {"commit", "end", "mark"}
      BY <2>30 DEF WorkerCrash, LeaveWorker, InTry, InHandler, SetupPoints, TryPoints,
                     RowInvariant, RowExists
    <3> QED
      BY <3>1, <3>2, <3>3, WorkerMoves
  <2>31. ASSUME SetupRaises PROVE RowInvariant'
    <3>1. HasEnd' = HasEnd
      BY <2>31 DEF SetupRaises, HasEnd, redisVars
    <3>2. RollbackRow("worker") /\ UNCHANGED <<status, httpVars, history>>
      BY <2>31 DEF SetupRaises
    <3>3. status # "absent" /\ pc' \notin {"commit", "end", "mark"}
      BY <2>31 DEF SetupRaises, LeaveWorker, InTry, InHandler, SetupPoints, TryPoints,
                     RowInvariant, RowExists
    <3> QED
      BY <3>1, <3>2, <3>3, WorkerMoves
  <2>32. ASSUME TryRaises PROVE RowInvariant'
    <3>1. HasEnd' = HasEnd
      BY <2>32 DEF TryRaises, HasEnd, redisVars
    <3>2. RollbackRow("worker") /\ UNCHANGED <<status, httpVars, history>>
      BY <2>32 DEF TryRaises
    <3>3. status # "absent" /\ pc' \notin {"commit", "end", "mark"}
      BY <2>32 DEF TryRaises, LeaveWorker, InTry, InHandler, SetupPoints, TryPoints,
                     RowInvariant, RowExists
    <3> QED
      BY <3>1, <3>2, <3>3, WorkerMoves
  <2>33. ASSUME HandlerRaises PROVE RowInvariant'
    <3>1. HasEnd' = HasEnd
      BY <2>33 DEF HandlerRaises, HasEnd, redisVars
    <3>2. RollbackRow("worker") /\ UNCHANGED <<status, httpVars, history>>
      BY <2>33 DEF HandlerRaises
    <3>3. status # "absent" /\ pc' \notin {"commit", "end", "mark"}
      BY <2>33 DEF HandlerRaises, LeaveWorker, InTry, InHandler, SetupPoints, TryPoints,
                     RowInvariant, RowExists
    <3> QED
      BY <3>1, <3>2, <3>3, WorkerMoves
  <2>34. ASSUME WorkerStopped PROVE RowInvariant'
    <3>1. HasEnd' = HasEnd
      BY <2>34 DEF WorkerStopped, HasEnd, redisVars
    <3>2. RollbackRow("worker") /\ UNCHANGED <<status, httpVars, history>>
      BY <2>34 DEF WorkerStopped
    <3>3. status # "absent" /\ pc' \notin {"commit", "end", "mark"}
      BY <2>34 DEF WorkerStopped, LeaveWorker, InTry, InHandler, SetupPoints, TryPoints,
                     RowInvariant, RowExists
    <3> QED
      BY <3>1, <3>2, <3>3, WorkerMoves
  <2> QED
    BY <1>1, <2>1, <2>2, <2>3, <2>4, <2>5, <2>6, <2>7, <2>8, <2>9, <2>10, <2>11, <2>12, <2>13,
       <2>14, <2>15, <2>16, <2>17, <2>18, <2>19, <2>20, <2>21, <2>22, <2>23, <2>24, <2>25,
       <2>26, <2>27, <2>28, <2>29, <2>30, <2>31, <2>32, <2>33, <2>34
       DEF Next, HttpNext, WorkerSteps, AgentSteps, Failures
<1>2. ASSUME TypeOK, RowInvariant, UNCHANGED vars PROVE RowInvariant'
  BY <1>2, Untouched DEF vars, redisVars, jobVars, workerVars
<1> QED
  BY <1>1, <1>2

(* It holds in every reachable state. *)
THEOREM RowCorrect == Spec => []RowInvariant
<1>1. Init => RowInvariant
  BY OwnersAssumption DEF Init, RowInvariant, LockProtects, RowExists, EndInProgress,
     EndMeansTerminal, HasEnd
<1> QED
  BY <1>1, TypeCorrect, RowStep, PTL DEF Spec

(* An end event in the stream has a terminal row behind it, or the row was *)
(* locked when the worker wrote, or a cancel request wrote over it.        *)
THEOREM EndCorrect == Spec => []EndMeansTerminal
<1>1. RowInvariant => EndMeansTerminal
  BY DEF RowInvariant
<1> QED
  BY <1>1, RowCorrect, PTL

-----------------------------------------------------------------------------
(* The refinement. *)

(* A step that leaves the row and the cancel requests alone stutters. *)
LEMMA LifecycleStutters ==
    ASSUME UNCHANGED <<status, cancel, seen>>
    PROVE  UNCHANGED Lifecycle!vars
  BY DEF Lifecycle!vars, Deciding

(* The worker's commit starts the run, finishes it, or writes nothing. *)
LEMMA CommitIsAStep ==
    ASSUME TypeOK, RowInvariant, pc \in {"runningCommit", "commit"}, CommitRow("worker"),
           UNCHANGED <<cancel, seen>>
    PROVE  [Lifecycle!Next]_Lifecycle!vars
<1>1. CASE status' = status
  BY <1>1, LifecycleStutters
<1>2. CASE status' # status
  <2>1. status \in Active /\ written \in {"running"} \cup Terminal /\ status' = written
    BY <1>2 DEF CommitRow, rowVars, RowInvariant, LockProtects, TypeOK
  <2>2. UNCHANGED Deciding
    BY DEF Deciding
  <2>3. CASE written = "running"
    BY <2>1, <2>2, <2>3 DEF Lifecycle!Next, Lifecycle!Start, Lifecycle!Active, Active
  <2>4. CASE written \in Terminal
    BY <2>1, <2>2, <2>4 DEF Lifecycle!Next, Lifecycle!Finish, Lifecycle!Active, Active,
       Lifecycle!Terminal, Terminal
  <2> QED
    BY <2>1, <2>3, <2>4
<1> QED
  BY <1>1, <1>2

(* An answer to a cancel request that was deciding ends its deciding; one   *)
(* that was not changes nothing.                                           *)
LEMMA AnswerIsAStep ==
    ASSUME TypeOK, NEW c \in Cancels, cancel[c] \in {"lock", "publish", "commit"},
           NEW how \in {"answered", "failed"}, cancel' = [cancel EXCEPT ![c] = how],
           seen' = seen, status' \in {status, "cancel_requested"},
           seen[c] \in Terminal => status' = status
    PROVE  [Lifecycle!Next]_Lifecycle!vars
<1>1. CASE seen[c] \in Terminal
  <2>1. Deciding' = Deciding
    BY <1>1 DEF Deciding, TypeOK
  <2> QED
    BY <1>1, <2>1 DEF Lifecycle!vars
<1>2. CASE seen[c] \notin Terminal
  <2>1. c \in Deciding /\ Deciding' = Deciding \ {c}
    BY <1>2 DEF Deciding, TypeOK
  <2> QED
    BY <2>1 DEF Lifecycle!Next, Lifecycle!Answer
<1> QED
  BY <1>1, <1>2

(* Every step of the code is a step of the abstract life of a run. *)
LEMMA LifecycleStep ==
    TypeOK /\ RowInvariant /\ [Next]_vars => [Lifecycle!Next]_Lifecycle!vars
<1>1. ASSUME TypeOK, RowInvariant, Next PROVE [Lifecycle!Next]_Lifecycle!vars
  <2> USE <1>1
  <2>1. ASSUME NEW s \in Submits, SubmitInsert(s) PROVE [Lifecycle!Next]_Lifecycle!vars
    <3>1. CASE status = "absent"
      BY <2>1, <3>1 DEF SubmitInsert, Lifecycle!Next, Lifecycle!Create, Deciding
    <3>2. CASE status # "absent"
      BY <2>1, <3>2, LifecycleStutters DEF SubmitInsert
    <3> QED
      BY <3>1, <3>2
  <2>2. ASSUME NEW c \in Cancels, CancelRead(c) PROVE [Lifecycle!Next]_Lifecycle!vars
    <3>1. CASE status \in Terminal
      <4>1. Deciding' = Deciding
        BY <2>2, <3>1 DEF CancelRead, Deciding, TypeOK
      <4> QED
        BY <2>2, <4>1 DEF CancelRead, rowVars, Lifecycle!vars
    <3>2. CASE status \notin Terminal
      <4>1. Deciding' = Deciding \cup {c} /\ status' = status
        BY <2>2, <3>2 DEF CancelRead, Deciding, TypeOK, rowVars
      <4>2. status \in Lifecycle!Active
        BY <2>2, <3>2 DEF CancelRead, TypeOK, Statuses, Active, Lifecycle!Active
      <4> QED
        BY <4>1, <4>2 DEF Lifecycle!Next, Lifecycle!Decide
    <3> QED
      BY <3>1, <3>2
  <2>3. ASSUME NEW c \in Cancels, CancelLock(c) \/ CancelPublish(c)
        PROVE  [Lifecycle!Next]_Lifecycle!vars
    <3>1. Deciding' = Deciding /\ status' = status
      BY <2>3 DEF CancelLock, CancelPublish, Deciding, TypeOK, rowVars
    <3> QED
      BY <3>1 DEF Lifecycle!vars
  <2>4. ASSUME NEW c \in Cancels, CancelCommit(c) PROVE [Lifecycle!Next]_Lifecycle!vars
    <3>1. status' \in {status, "cancel_requested"} /\ (seen[c] \in Terminal => status' = status)
      BY <2>4, OwnersAssumption DEF CancelCommit, CommitRow, rowVars, RowInvariant, LockProtects
    <3>2. cancel' = [cancel EXCEPT ![c] = "answered"] /\ seen' = seen /\ cancel[c] = "commit"
      BY <2>4 DEF CancelCommit
    <3> QED
      BY <3>1, <3>2, AnswerIsAStep
  <2>5. ASSUME NEW c \in Cancels, CancelFails(c) PROVE [Lifecycle!Next]_Lifecycle!vars
    <3>1. cancel' = [cancel EXCEPT ![c] = "failed"] /\ seen' = seen /\ status' = status
          /\ cancel[c] \in {"lock", "publish", "commit"}
      BY <2>5 DEF CancelFails
    <3> QED
      BY <3>1, AnswerIsAStep
  <2>6. ASSUME RunningCommit \/ MarkCommit PROVE [Lifecycle!Next]_Lifecycle!vars
    BY <2>6, CommitIsAStep DEF RunningCommit, MarkCommit, httpVars
  <2>7. ASSUME NEW s \in Submits, SubmitLookup(s) \/ SubmitEnqueue(s) \/ SubmitFails(s)
        PROVE  [Lifecycle!Next]_Lifecycle!vars
    BY <2>7, LifecycleStutters DEF SubmitLookup, SubmitEnqueue, SubmitFails, rowVars
  <2>8. ASSUME \/ JobStart \/ LoadRun \/ RunningBegin \/ AppendMetadata \/ ClassifyInterrupt
               \/ CancelNoticed \/ CheckCancelled \/ MarkTerminal \/ AppendEnd
               \/ HandleCancelled \/ HandleRaised \/ Finally \/ WatchSignal
        PROVE  [Lifecycle!Next]_Lifecycle!vars
    <3>1. UNCHANGED <<status, cancel, seen>>
      BY <2>8 DEF JobStart, LoadRun, RunningBegin, AppendMetadata, ClassifyInterrupt,
         CancelNoticed, CheckCancelled, MarkTerminal, AppendEnd, HandleCancelled, HandleRaised,
         Finally, WatchSignal, rowVars, httpVars
    <3> QED
      BY <3>1, LifecycleStutters
  <2>9. ASSUME AgentSteps PROVE [Lifecycle!Next]_Lifecycle!vars
    <3>1. UNCHANGED <<status, cancel, seen>>
      BY <2>9 DEF AgentSteps, AgentLoads, AgentYields, StreamEnds, StreamRaises, rowVars,
         httpVars
    <3> QED
      BY <3>1, LifecycleStutters
  <2>10. ASSUME \/ CancelKeyExpires \/ WorkerCrash \/ SetupRaises \/ TryRaises
                \/ HandlerRaises \/ WorkerStopped
         PROVE  [Lifecycle!Next]_Lifecycle!vars
    <3>1. UNCHANGED <<status, cancel, seen>>
      BY <2>10 DEF CancelKeyExpires, WorkerCrash, SetupRaises, TryRaises, HandlerRaises,
         WorkerStopped, rowVars, httpVars
    <3> QED
      BY <3>1, LifecycleStutters
  <2> QED
    BY <1>1, <2>1, <2>2, <2>3, <2>4, <2>5, <2>6, <2>7, <2>8, <2>9, <2>10
       DEF Next, HttpNext, WorkerSteps, Failures
<1>2. ASSUME UNCHANGED vars PROVE UNCHANGED Lifecycle!vars
  BY <1>2, LifecycleStutters DEF vars, rowVars, httpVars
<1> QED
  BY <1>1, <1>2

(* The row, as the API, the workers and the locks write it, lives the life *)
(* RunLifecycle promises its readers.                                      *)
THEOREM LifecycleRefined == Spec => LifecycleSpec
<1>1. Init => Lifecycle!Init
  BY DEF Init, Lifecycle!Init, Deciding
<1> QED
  BY <1>1, TypeCorrect, RowCorrect, LifecycleStep, PTL DEF Spec, LifecycleSpec, Lifecycle!Spec

(* Where no cancel request exists, a terminal status is final: only the    *)
(* stale read of cancel_agent_run_view can write over one.                 *)
THEOREM FinalWithoutCancels == Cancels = {} /\ Spec => TerminalFinal
<1>1. ASSUME Cancels = {}, TypeOK, RowInvariant, [Next]_vars, status \in Terminal
      PROVE  UNCHANGED status
  <2>1. Deciding = {} /\ Deciding' = {}
    BY <1>1 DEF Deciding
  <2>2. [Lifecycle!Next]_Lifecycle!vars
    BY <1>1, LifecycleStep
  <2>3. status \notin Lifecycle!Active /\ status # "absent"
    BY <1>1 DEF Terminal, Lifecycle!Active
  <2> QED
    BY <1>1, <2>1, <2>2, <2>3 DEF Lifecycle!Next, Lifecycle!vars, Lifecycle!Create,
       Lifecycle!Start, Lifecycle!Finish, Lifecycle!Decide, Lifecycle!Answer
<1>2. ASSUME Cancels = {}
      PROVE  TypeOK /\ RowInvariant /\ [Next]_vars
               => [(status \in Terminal) => UNCHANGED status]_vars
  BY <1>1, <1>2
<1>3. CASE Cancels = {}
  BY <1>2, <1>3, TypeCorrect, RowCorrect, PTL DEF Spec, TerminalFinal
<1> QED
  BY <1>3

=============================================================================
