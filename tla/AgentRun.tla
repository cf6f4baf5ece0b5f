------------------------------ MODULE AgentRun ------------------------------
(***************************************************************************)
(* The life of ONE agent run, from the HTTP request that creates it to the *)
(* terminal status of its row:                                             *)
(*                                                                         *)
(*   - the row of table agent_runs, written through AgentRunRepository     *)
(*     inside transactions that take the row lock with SKIP LOCKED;        *)
(*   - the HTTP requests that create it (idempotent on request_id) and     *)
(*     those that ask for its cancellation;                                *)
(*   - the Redis cancel key and the Redis stream of events;                *)
(*   - the ARQ job that carries the run id (external: redelivery, tries);  *)
(*   - the worker coroutine process_agent_run, one action per database or  *)
(*     Redis round trip, with the agent's chunks as its input.             *)
(*                                                                         *)
(* Runs share nothing but the worker pool, so one run is enough here.      *)
(*                                                                         *)
(* A few definitions have a twin just before them that no action uses      *)
(* (LockRowAnyway, FlushLate, ...): the same definition with a bug it     *)
(* could plausibly have, for the mutants of PROJECT.json.                  *)
(***************************************************************************)
EXTENDS Naturals, Sequences

CONSTANTS
    Submits,        \* the create_run requests that carry this run's request_id
    Cancels,        \* the cancel requests for this run
    MaxTries,       \* WorkerSettings.max_tries
    RetryOnError,   \* whether ARQ runs a job again when its coroutine raises
    UseMemory,      \* the agent's use_memory flag
    MaxChunks,      \* bound: chunks the agent yields, over all attempts
    MaxCrashes,     \* bound: worker processes killed
    MaxStops,       \* bound: coroutine cancelled by ARQ (job_timeout, shutdown)
    MaxFaults,      \* bound: database or Redis calls that raise
    MaxExpiries     \* bound: times the cancel key outlives its TTL

ASSUME MaxTriesAssumption == MaxTries \in Nat \ {0}
ASSUME FlagsAssumption == RetryOnError \in BOOLEAN /\ UseMemory \in BOOLEAN
ASSUME BoundsAssumption ==
    /\ MaxChunks \in Nat /\ MaxCrashes \in Nat /\ MaxStops \in Nat
    /\ MaxFaults \in Nat /\ MaxExpiries \in Nat
ASSUME OwnersAssumption == {"none", "worker"} \cap Cancels = {}

Terminal == {"completed", "failed", "cancelled", "interrupted"}
Active   == {"pending", "running", "cancel_requested"}
Statuses == {"absent"} \cup Active \cup Terminal

(* The conversation's own thread, and the thread of a delegated subagent. *)
Threads == {"main", "child"}

(* What the agent may yield; "ask" stands for ask_user_question_required   *)
(* and human_approval_required, "state" for agent_state, warning, init and *)
(* every other status that only becomes a "custom" event.                  *)
ChunkKinds == {"loading", "state", "ask", "interrupted", "error", "finished"}

(* "retry" stands for an error event that says retryable. *)
EventTypes == {"metadata", "messages", "custom", "interrupt", "error", "retry", "end"}

VARIABLES
    status,       \* the committed status of the row ("absent": no row)
    lock,         \* who holds the row lock: "none", "worker" or a cancel request
    written,      \* the status the lock holder wrote and has not committed, or "none"
    cancelKey,    \* the key run:cancel:{run_id} is set
    events,       \* the Redis stream run:events:{run_id}
    job,          \* the ARQ job run:{run_id}
    tries,        \* its job_try
    memoryJob,    \* the job memory:{run_id} was enqueued
    submit,       \* the create_run requests
    cancel,       \* the cancel requests
    seen,         \* the status each cancel request read before locking
    pc,           \* where process_agent_run is
    mode,         \* which part of it: "setup", "chunk", "fallback" or "handler"
    outcome,      \* the status it is about to mark
    leaving,      \* how it leaves: "return", "error" or "stopped"
    cancelEvent,  \* RunContext.cancel_event
    terminalSet,  \* its local variable terminal_set
    buffers,      \* the threads whose ChunkedEventWriter buffer is not empty
    agent,        \* the agent's generator: "streaming", "asked" or "over"
    retryable,    \* the exception being handled is retryable
    budget,       \* how much of each bound is used
    lost,         \* history: a terminal status was not written, the row being locked
    reopened      \* history: a cancel request replaced a terminal status

rowVars    == <<status, lock, written>>
redisVars  == <<cancelKey, events>>
jobVars    == <<job, tries, memoryJob>>
httpVars   == <<submit, cancel, seen>>
workerVars == <<pc, mode, outcome, leaving, cancelEvent, terminalSet, buffers,
                agent, retryable>>
history    == <<lost, reopened>>
vars == <<rowVars, redisVars, jobVars, httpVars, workerVars, budget, history>>

Event(type, thread) == [type |-> type, thread |-> thread, status |-> "none"]
EndEventCompleted(s) == [type |-> "end", thread |-> "main", status |-> "completed"]

EndEvent(s) == [type |-> "end", thread |-> "main", status |-> s]
EventSet == [type : EventTypes, thread : Threads, status : Terminal \cup {"none"}]

(* Before the try statement, inside it, inside its handlers or finally. *)
SetupPoints == {"load", "running", "runningCommit", "metadata"}
TryPoints   == {"stream", "classify", "mark", "commit", "end", "check"}
Points == SetupPoints \cup TryPoints
            \cup {"idle", "cancelled", "raised", "finally"}
InTry == pc \in TryPoints /\ mode \in {"chunk", "fallback"}
InHandler == mode = "handler" /\ pc \in {"mark", "commit", "end"}

Bounds == {"chunks", "crashes", "stops", "faults", "expiries"}

-----------------------------------------------------------------------------
Init ==
    /\ status = "absent" /\ lock = "none" /\ written = "none"
    /\ cancelKey = FALSE /\ events = <<>>
    /\ job = "none" /\ tries = 0 /\ memoryJob = FALSE
    /\ submit = [s \in Submits |-> "new"]
    /\ cancel = [c \in Cancels |-> "new"]
    /\ seen = [c \in Cancels |-> "absent"]
    /\ pc = "idle" /\ mode = "setup" /\ outcome = "none" /\ leaving = "return"
    /\ cancelEvent = FALSE /\ terminalSet = FALSE /\ buffers = {}
    /\ agent = "streaming" /\ retryable = FALSE
    /\ budget = [b \in Bounds |-> 0]
    /\ lost = FALSE /\ reopened = FALSE

Limit == [chunks |-> MaxChunks, crashes |-> MaxCrashes, stops |-> MaxStops,
          faults |-> MaxFaults, expiries |-> MaxExpiries]
Spend(b) == budget[b] < Limit[b] /\ budget' = [budget EXCEPT ![b] = @ + 1]

-----------------------------------------------------------------------------
(* The row lock: SELECT ... FOR UPDATE SKIP LOCKED.  Whoever finds the row  *)
(* free holds it with what it wrote until it commits or rolls back;        *)
(* whoever finds it taken gets no row and writes nothing.                  *)

LockRowAnyway(owner, new) == lock' = owner /\ written' = new

LockRow(owner, new) ==
    IF lock = "none" THEN lock' = owner /\ written' = new
                     ELSE UNCHANGED <<lock, written>>

CommitRow(owner) == IF lock = owner
    THEN /\ status' = IF written = "none" THEN status ELSE written
         /\ lock' = "none" /\ written' = "none"
    ELSE UNCHANGED rowVars

RollbackRow(owner) ==
    IF lock = owner THEN lock' = "none" /\ written' = "none"
                    ELSE UNCHANGED <<lock, written>>

-----------------------------------------------------------------------------
(* create_run.  Several requests may carry one request_id: a client that   *)
(* saw a timeout submits again.                                            *)

SubmitLookup(s) ==
    /\ submit[s] = "new"
    /\ submit' = [submit EXCEPT ![s] = IF status = "absent" THEN "validated"
                                       ELSE "answered"]
    /\ UNCHANGED <<rowVars, redisVars, jobVars, cancel, seen, workerVars, budget, history>>

(* INSERT and COMMIT; the unique index on request_id makes the second      *)
(* insert fail, and that request answers with the row it finds.            *)
SubmitInsert(s) ==
    /\ submit[s] = "validated"
    /\ IF status = "absent"
       THEN status' = "pending" /\ submit' = [submit EXCEPT ![s] = "inserted"]
       ELSE status' = status /\ submit' = [submit EXCEPT ![s] = "answered"]
    /\ UNCHANGED <<lock, written, redisVars, jobVars, cancel, seen, workerVars, budget, history>>

SubmitEnqueue(s) ==
    /\ submit[s] = "inserted"
    /\ submit' = [submit EXCEPT ![s] = "answered"]
    /\ job' = IF job = "none" THEN "queued" ELSE job
    /\ UNCHANGED <<rowVars, redisVars, tries, memoryJob, cancel, seen, workerVars, budget, history>>

(* The API process dies, or a call raises, between any two of the steps. *)
SubmitFails(s) ==
    /\ submit[s] \in {"validated", "inserted"}
    /\ Spend("faults")
    /\ submit' = [submit EXCEPT ![s] = "failed"]
    /\ UNCHANGED <<rowVars, redisVars, jobVars, cancel, seen, workerVars, history>>

-----------------------------------------------------------------------------
(* cancel_agent_run_view.  get_run_for_user loads the row into the         *)
(* session's identity map, and the later SELECT ... FOR UPDATE does not    *)
(* refresh an object that is already there: the terminal test of           *)
(* request_cancel looks at the status seen by the first read.  The signal  *)
(* is published before get_db commits the transaction.                     *)

CancelRead(c) ==
    /\ cancel[c] = "new" /\ status # "absent"
    /\ cancel' = [cancel EXCEPT ![c] = "lock"]
    /\ seen' = [seen EXCEPT ![c] = status]
    /\ UNCHANGED <<rowVars, redisVars, jobVars, submit, workerVars, budget, history>>

CancelWritesAlways(c) == "cancel_requested"

(* The session writes the column only if the value it loaded changes.       *)
CancelWrites(c) == IF seen[c] \in {"pending", "running"} THEN "cancel_requested" ELSE "none"
CancelLock(c) ==
    /\ cancel[c] = "lock"
    /\ cancel' = [cancel EXCEPT ![c] = "publish"]
    /\ LockRow(c, CancelWrites(c))
    /\ UNCHANGED <<status, redisVars, jobVars, submit, seen, workerVars, budget, history>>

(* publish_cancel_signal swallows a Redis error: the key may stay unset. *)
CancelPublish(c) ==
    /\ cancel[c] = "publish"
    /\ cancel' = [cancel EXCEPT ![c] = "commit"]
    /\ \/ cancelKey' = TRUE /\ UNCHANGED budget
       \/ Spend("faults") /\ UNCHANGED cancelKey
    /\ UNCHANGED <<rowVars, events, jobVars, submit, seen, workerVars, history>>

CancelCommit(c) ==
    /\ cancel[c] = "commit"
    /\ cancel' = [cancel EXCEPT ![c] = "answered"]
    /\ CommitRow(c)
    /\ reopened' = (reopened \/ (lock = c /\ written # "none" /\ status \in Terminal))
    /\ UNCHANGED <<redisVars, jobVars, submit, seen, workerVars, budget, lost>>

(* The request raises or its process dies: the transaction rolls back. *)
CancelFails(c) ==
    /\ cancel[c] \in {"lock", "publish", "commit"}
    /\ Spend("faults")
    /\ cancel' = [cancel EXCEPT ![c] = "failed"]
    /\ RollbackRow(c)
    /\ UNCHANGED <<status, redisVars, jobVars, submit, seen, workerVars, history>>

(* RUN_CANCEL_KEY_TTL_SECONDS (30 min) passes.  A worker that watches the  *)
(* key polls it every 0.2 s, so the key cannot expire unseen under it.     *)
Watching == mode # "setup" \/ pc = "metadata"
CancelKeyExpires ==
    /\ cancelKey /\ ~Watching
    /\ Spend("expiries")
    /\ cancelKey' = FALSE
    /\ UNCHANGED <<rowVars, events, jobVars, httpVars, workerVars, history>>

-----------------------------------------------------------------------------
(* The ARQ job (external) and the ways process_agent_run leaves the worker. *)

TriesLeftOffByOne == tries <= MaxTries

(* job_try is counted when the job starts; past max_tries ARQ drops it.    *)
TriesLeft == tries < MaxTries
JobStart ==
    /\ job = "queued" /\ pc = "idle"
    /\ IF TriesLeft
       THEN job' = "active" /\ tries' = tries + 1 /\ pc' = "load"
       ELSE job' = "dropped" /\ UNCHANGED <<tries, pc>>
    /\ UNCHANGED <<rowVars, redisVars, memoryJob, httpVars, mode, outcome, leaving,
                   cancelEvent, terminalSet, buffers, agent, retryable, budget, history>>

FreshLocals ==
    /\ mode' = "setup" /\ outcome' = "none" /\ leaving' = "return"
    /\ cancelEvent' = FALSE /\ terminalSet' = FALSE /\ buffers' = {}
    /\ agent' = "streaming" /\ retryable' = FALSE

(* retry_jobs: a cancelled coroutine is queued again, and so is one that   *)
(* raised where RetryOnError.                                              *)
JobAfter(how) == IF how = "stopped" \/ (how = "error" /\ RetryOnError)
                 THEN "queued" ELSE "done"

LeaveWorker(how) == pc' = "idle" /\ FreshLocals /\ job' = JobAfter(how)

(* The process is killed: no handler runs, PostgreSQL rolls back, ARQ hands *)
(* the job to another worker when its in-progress key expires.             *)
WorkerCrash ==
    /\ pc # "idle"
    /\ Spend("crashes")
    /\ LeaveWorker("stopped") /\ RollbackRow("worker")
    /\ UNCHANGED <<status, redisVars, tries, memoryJob, httpVars, history>>

-----------------------------------------------------------------------------
(* process_agent_run, before the try statement. *)

(* The status is read once; the user may have been deleted since. *)
LoadRun ==
    /\ pc = "load"
    /\ IF status \in Terminal
       THEN LeaveWorker("return")
       ELSE /\ \/ pc' = "running" /\ UNCHANGED outcome
               \/ pc' = "mark" /\ outcome' = "failed"
            /\ UNCHANGED <<job, mode, leaving, cancelEvent, terminalSet, buffers,
                           agent, retryable>>
    /\ UNCHANGED <<rowVars, redisVars, tries, memoryJob, httpVars, budget, history>>

(* mark_run_running: lock and write, skipped if another transaction holds  *)
(* the row; "running" also replaces "cancel_requested".                    *)
RunningBegin ==
    /\ pc = "running"
    /\ pc' = "runningCommit"
    /\ LockRow("worker", IF status \in Terminal THEN "none" ELSE "running")
    /\ UNCHANGED <<status, redisVars, jobVars, httpVars, mode, outcome, leaving,
                   cancelEvent, terminalSet, buffers, agent, retryable, budget, history>>

RunningCommit ==
    /\ pc = "runningCommit"
    /\ pc' = "metadata"
    /\ CommitRow("worker")
    /\ UNCHANGED <<redisVars, jobVars, httpVars, mode, outcome, leaving,
                   cancelEvent, terminalSet, buffers, agent, retryable, budget, history>>

AppendMetadata ==
    /\ pc = "metadata"
    /\ events' = Append(events, Event("metadata", "main"))
    /\ pc' = "stream" /\ mode' = "chunk"
    /\ UNCHANGED <<rowVars, cancelKey, jobVars, httpVars, outcome, leaving,
                   cancelEvent, terminalSet, buffers, agent, retryable, budget, history>>

WatchNotStarted == FALSE /\ UNCHANGED vars

(* RunContext._watch_cancel_signal, a task of its own beside the coroutine. *)
WatchSignal ==
    /\ Watching /\ cancelKey /\ ~cancelEvent
    /\ cancelEvent' = TRUE
    /\ UNCHANGED <<rowVars, redisVars, jobVars, httpVars, pc, mode, outcome, leaving,
                   terminalSet, buffers, agent, retryable, budget, history>>

-----------------------------------------------------------------------------
(* The consumption of the agent's stream. *)

(* ChunkedEventWriter.flush of the threads in T, then the events "after". *)
Flushed(T) == (IF "child" \in T \cap buffers THEN <<Event("messages", "child")>> ELSE <<>>)
              \o (IF "main" \in T \cap buffers THEN <<Event("messages", "main")>> ELSE <<>>)

FlushLate(T, after) == IF T = Threads
    THEN events' = events \o Flushed(T) \o after /\ buffers' = buffers \ T
    ELSE events' = events \o after /\ UNCHANGED buffers

Flush(T, after) == events' = events \o Flushed(T) \o after /\ buffers' = buffers \ T

(* _consume_stream_with_cancel prefers the cancel event to a chunk, so the *)
(* agent is only heard while the event is clear.                           *)
Listening == pc = "stream" /\ ~cancelEvent

(* A loading chunk is buffered, and flushed with its thread's buffer when  *)
(* the interval or the size is reached; no cancel test follows it.         *)
AgentLoads(t) ==
    /\ Listening /\ agent = "streaming"
    /\ Spend("chunks")
    /\ \/ buffers' = buffers \cup {t} /\ UNCHANGED events
       \/ buffers' = buffers \ {t} /\ events' = Append(events, Event("messages", t))
    /\ UNCHANGED <<rowVars, cancelKey, jobVars, httpVars, pc, mode, outcome, leaving,
                   cancelEvent, terminalSet, agent, retryable, history>>

(* _map_chunk_to_run_event; "finished" maps to "end", appended later. *)
EventsOf(k, t) ==
    CASE k = "state"                -> <<Event("custom", t)>>
      [] k \in {"ask", "interrupted"} -> <<Event("interrupt", t)>>
      [] k = "error"                -> <<Event("error", t)>>
      [] OTHER                      -> <<>>

(* What the agent's generator can yield and what it does next: after an    *)
(* interrupt it may still report its state, after any other terminal chunk *)
(* it returns.                                                             *)
MayYield(k, t) == \/ agent = "streaming" /\ (t = "main" \/ k = "state")
                  \/ agent = "asked" /\ k = "state" /\ t = "main"

(* Any other chunk: flush its thread, append its event, then drive the     *)
(* run's status if it belongs to the run's own thread.                     *)
AgentYields(k, t) ==
    /\ Listening /\ k # "loading" /\ MayYield(k, t)
    /\ Spend("chunks")
    /\ Flush({t}, EventsOf(k, t))
    /\ agent' = CASE k = "state" -> agent
                  [] k = "ask"   -> "asked"
                  [] OTHER       -> "over"
    /\ \/ k = "state" /\ pc' = "check" /\ UNCHANGED outcome
       \/ k = "interrupted" /\ pc' = "classify" /\ UNCHANGED outcome
       \/ k = "ask" /\ pc' = "mark" /\ outcome' = "interrupted"
       \/ k = "error" /\ pc' = "mark" /\ outcome' = "failed"
       \/ k = "finished" /\ pc' = "mark" /\ outcome' = "completed"
    /\ UNCHANGED <<rowVars, cancelKey, jobVars, httpVars, mode, leaving, cancelEvent,
                   terminalSet, retryable, history>>

(* _is_cancel_requested: a read of the committed status. *)
ClassifyInterrupt ==
    /\ pc = "classify"
    /\ outcome' = IF status = "cancel_requested" THEN "cancelled" ELSE "interrupted"
    /\ pc' = "mark"
    /\ UNCHANGED <<rowVars, redisVars, jobVars, httpVars, mode, leaving, cancelEvent,
                   terminalSet, buffers, agent, retryable, budget, history>>

NeedsFallbackInverted == terminalSet

(* The generator returns: flush everything, and mark the run completed if  *)
(* no chunk did.                                                           *)
NeedsFallback == ~terminalSet
StreamEnds ==
    /\ Listening
    /\ Flush(Threads, <<>>)
    /\ agent' = "over"
    /\ IF NeedsFallback
       THEN pc' = "mark" /\ mode' = "fallback" /\ outcome' = "completed"
       ELSE pc' = "finally" /\ UNCHANGED <<mode, outcome>>
    /\ UNCHANGED <<rowVars, cancelKey, jobVars, httpVars, leaving, cancelEvent,
                   terminalSet, retryable, budget, history>>

(* The agent's generator raises: most of its errors become chunks, those   *)
(* raised while it sets up or saves a partial message do not.              *)
StreamRaises ==
    /\ Listening /\ agent = "streaming"
    /\ pc' = "raised"
    /\ retryable' \in BOOLEAN
    /\ UNCHANGED <<rowVars, redisVars, jobVars, httpVars, mode, outcome, leaving,
                   cancelEvent, terminalSet, buffers, agent, budget, history>>

CancelNoticed ==
    /\ pc = "stream" /\ cancelEvent
    /\ pc' = "cancelled"
    /\ UNCHANGED <<rowVars, redisVars, jobVars, httpVars, mode, outcome, leaving,
                   cancelEvent, terminalSet, buffers, agent, retryable, budget, history>>

(* run_ctx.is_cancelled() after a chunk. *)
CheckCancelled ==
    /\ pc = "check"
    /\ cancelEvent' = (cancelEvent \/ cancelKey)
    /\ pc' = IF cancelEvent' THEN "cancelled" ELSE "stream"
    /\ UNCHANGED <<rowVars, redisVars, jobVars, httpVars, mode, outcome, leaving,
                   terminalSet, buffers, agent, retryable, budget, history>>

-----------------------------------------------------------------------------
(* mark_run_terminal and the end event. *)

(* set_terminal_status: nothing is written over a terminal status, nor when *)
(* another transaction holds the row.  The memory hook runs whichever way  *)
(* that went, on the status the worker meant; the trigger hook does        *)
(* nothing, since no input_payload carries a trigger_id (see Triggers).    *)
TerminalWrite == IF status \in Terminal THEN "none" ELSE outcome

MemoryHookAlways == UseMemory

MemoryHook == UseMemory /\ outcome = "completed"

MarkTerminal ==
    /\ pc = "mark"
    /\ pc' = "commit"
    /\ LockRow("worker", TerminalWrite)
    /\ lost' = (lost \/ lock # "none")
    /\ memoryJob' = (memoryJob \/ MemoryHook)
    /\ UNCHANGED <<status, redisVars, job, tries, httpVars, mode, outcome, leaving,
                   cancelEvent, terminalSet, buffers, agent, retryable, budget, reopened>>

(* The branch for a deleted user returns here, without an end event. *)
MarkCommit ==
    /\ pc = "commit"
    /\ CommitRow("worker")
    /\ IF mode = "setup"
       THEN LeaveWorker("return")
       ELSE pc' = "end" /\ UNCHANGED <<job, mode, outcome, leaving, cancelEvent,
                                       terminalSet, buffers, agent, retryable>>
    /\ UNCHANGED <<redisVars, tries, memoryJob, httpVars, budget, history>>

AppendEnd ==
    /\ pc = "end"
    /\ events' = Append(events, EndEvent(outcome))
    /\ IF mode = "chunk"
       THEN pc' = "check" /\ terminalSet' = TRUE
       ELSE pc' = "finally" /\ UNCHANGED terminalSet
    /\ UNCHANGED <<rowVars, cancelKey, jobVars, httpVars, mode, outcome, leaving,
                   cancelEvent, buffers, agent, retryable, budget, history>>

-----------------------------------------------------------------------------
(* The exception handlers; neither looks at terminal_set. *)

HandleCancelled ==
    /\ pc = "cancelled"
    /\ Flush(Threads, <<Event("interrupt", "main")>>)
    /\ pc' = "mark" /\ mode' = "handler" /\ outcome' = "cancelled"
    /\ UNCHANGED <<rowVars, cancelKey, jobVars, httpVars, leaving, cancelEvent,
                   terminalSet, agent, retryable, budget, history>>

LastTryOffByOne == tries > MaxTries

LastTry == tries >= MaxTries

(* A retryable exception before the last try is raised again for ARQ. *)
HandleRaised ==
    /\ pc = "raised"
    /\ Flush(Threads, <<Event(IF retryable THEN "retry" ELSE "error", "main")>>)
    /\ mode' = "handler"
    /\ IF retryable /\ ~LastTry
       THEN pc' = "finally" /\ leaving' = "error" /\ UNCHANGED outcome
       ELSE pc' = "mark" /\ outcome' = "failed" /\ UNCHANGED leaving
    /\ UNCHANGED <<rowVars, cancelKey, jobVars, httpVars, cancelEvent,
                   terminalSet, agent, retryable, budget, history>>

(* run_ctx.close() and clear_cancel_signal. *)
Finally ==
    /\ pc = "finally"
    /\ cancelKey' = FALSE
    /\ LeaveWorker(leaving)
    /\ UNCHANGED <<rowVars, events, tries, memoryJob, httpVars, budget, history>>

(* A database or Redis call raises.  Before the try statement nothing      *)
(* catches it; inside, it is handled like any exception; in a handler it   *)
(* replaces the one being handled.                                         *)
SetupRaises ==
    /\ pc \in SetupPoints \/ (mode = "setup" /\ pc \in {"mark", "commit"})
    /\ Spend("faults")
    /\ LeaveWorker("error") /\ RollbackRow("worker")
    /\ UNCHANGED <<status, redisVars, tries, memoryJob, httpVars, history>>

TryRaises ==
    /\ InTry
    /\ Spend("faults")
    /\ pc' = "raised"
    /\ retryable' \in BOOLEAN
    /\ RollbackRow("worker")
    /\ UNCHANGED <<status, redisVars, jobVars, httpVars, mode, outcome, leaving,
                   cancelEvent, terminalSet, buffers, agent, history>>

HandlerRaises ==
    /\ InHandler
    /\ Spend("faults")
    /\ pc' = "finally" /\ leaving' = "error"
    /\ RollbackRow("worker")
    /\ UNCHANGED <<status, redisVars, jobVars, httpVars, mode, outcome,
                   cancelEvent, terminalSet, buffers, agent, retryable, history>>

(* ARQ cancels the coroutine (job_timeout, shutdown of the worker): inside *)
(* the try statement this is handled like the user's cancellation.         *)
WorkerStopped ==
    /\ \/ /\ pc \in SetupPoints \/ (mode = "setup" /\ pc \in {"mark", "commit"})
          /\ LeaveWorker("stopped")
       \/ /\ InTry
          /\ pc' = "cancelled"
          /\ UNCHANGED <<job, mode, outcome, leaving, cancelEvent, terminalSet,
                         buffers, agent, retryable>>
       \/ /\ InHandler
          /\ pc' = "finally" /\ leaving' = "stopped"
          /\ UNCHANGED <<job, mode, outcome, cancelEvent, terminalSet, buffers,
                         agent, retryable>>
    /\ Spend("stops")
    /\ RollbackRow("worker")
    /\ UNCHANGED <<status, redisVars, tries, memoryJob, httpVars, history>>

-----------------------------------------------------------------------------
HttpNext ==
    \/ \E s \in Submits : SubmitLookup(s) \/ SubmitInsert(s) \/ SubmitEnqueue(s)
    \/ \E c \in Cancels : CancelRead(c) \/ CancelLock(c) \/ CancelPublish(c) \/ CancelCommit(c)

(* What the worker does by itself; it never depends on the agent's answer. *)
WorkerSteps ==
    \/ JobStart \/ LoadRun \/ RunningBegin \/ RunningCommit \/ AppendMetadata
    \/ ClassifyInterrupt \/ CancelNoticed \/ CheckCancelled
    \/ MarkTerminal \/ MarkCommit \/ AppendEnd
    \/ HandleCancelled \/ HandleRaised \/ Finally

AgentSteps ==
    \/ \E t \in Threads : AgentLoads(t)
    \/ \E k \in ChunkKinds, t \in Threads : AgentYields(k, t)
    \/ StreamEnds \/ StreamRaises

Failures ==
    \/ \E s \in Submits : SubmitFails(s)
    \/ \E c \in Cancels : CancelFails(c)
    \/ CancelKeyExpires \/ WorkerCrash
    \/ SetupRaises \/ TryRaises \/ HandlerRaises \/ WorkerStopped

Next == HttpNext \/ WorkerSteps \/ WatchSignal \/ AgentSteps \/ Failures

Spec == Init /\ [][Next]_vars

(* Requests, the ARQ worker and the watch task are scheduled by event      *)
(* loops that never abandon a ready coroutine; an agent owes no answer     *)
(* unless AgentAnswers is assumed, and failures are never owed.            *)
Fairness ==
    /\ \A s \in Submits : WF_vars(SubmitLookup(s)) /\ WF_vars(SubmitInsert(s))
                             /\ WF_vars(SubmitEnqueue(s))
    /\ \A c \in Cancels : WF_vars(CancelLock(c)) /\ WF_vars(CancelPublish(c))
                             /\ WF_vars(CancelCommit(c))
    /\ WF_vars(WorkerSteps) /\ WF_vars(WatchSignal)
FairSpec == Spec /\ Fairness

(* The agent returns in the end (its model calls have timeouts). *)
AgentAnswers == WF_vars(StreamEnds)
=============================================================================
