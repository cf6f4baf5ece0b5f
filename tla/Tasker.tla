------------------------------- MODULE Tasker -------------------------------
(***************************************************************************)
(* The in-process background task queue of the API process (task_service): *)
(* a dictionary of tasks and an asyncio queue behind one asyncio.Lock that *)
(* every operation holds across its database write, the workers that run   *)
(* the tasks, shutdown, and the table that survives a restart.             *)
(*                                                                         *)
(* A step ends where the code awaits with somebody else able to run: at    *)
(* the lock, at the database while the lock is held, in the task's own     *)
(* coroutine.  A waiter gets the lock in some order, not only in order of  *)
(* arrival.                                                                *)
(***************************************************************************)
EXTENDS Naturals, Sequences, FiniteSets

CONSTANTS
    Tasks,          \* the tasks ever asked for
    Builds,         \* those enqueued by enqueue_unique_by_payload, for one kb_id
    Workers,
    MaxCancels, MaxDeletes,  \* bounds: operations of the administrator
    MaxFaults,      \* bound: database writes that raise
    MaxRestarts     \* bound: times the process is killed and started again

ASSUME TasksAssumption == Builds \subseteq Tasks /\ "none" \notin Tasks

VARIABLES
    mem,             \* _tasks: the status of each task in the dictionary, or "none"
    cancelRequested, \* the flag on the Task object, which outlives the dictionary
    row,             \* the status of each row of the table, or "none"
    queue,           \* _queue
    locked,          \* _lock
    api,             \* the enqueue request of each task
    cancelling,      \* tasks whose cancellation is being persisted
    deleting,        \* tasks out of the dictionary whose row is not deleted yet
    at, holds, out,  \* each worker: where it is, its task, the status it is about to mark
    struck,          \* workers cancelled by shutdown that have not run since
    phase,           \* "up", "stopping" or "down"
    late,            \* history: tasks whose cancellation came when their coroutine was over
    budget

store   == <<mem, cancelRequested, row>>
apiVars == <<api, cancelling, deleting>>
pool    == <<at, holds, out, struck>>
vars    == <<store, queue, locked, apiVars, pool, phase, late, budget>>

Terminal == {"success", "failed", "cancelled"}
Active   == {"pending", "running"}

Bounds == {"cancels", "deletes", "faults", "restarts"}
Limit  == [cancels |-> MaxCancels, deletes |-> MaxDeletes,
           faults |-> MaxFaults, restarts |-> MaxRestarts]
Spend(b) == budget[b] < Limit[b] /\ budget' = [budget EXCEPT ![b] = @ + 1]

Init ==
    /\ mem = [t \in Tasks |-> "none"] /\ row = [t \in Tasks |-> "none"]
    /\ cancelRequested = [t \in Tasks |-> FALSE]
    /\ queue = <<>> /\ locked = FALSE
    /\ api = [t \in Tasks |-> "new"] /\ cancelling = {} /\ deleting = {}
    /\ at = [w \in Workers |-> "get"] /\ holds = [w \in Workers |-> "none"]
    /\ out = [w \in Workers |-> "none"] /\ struck = {}
    /\ phase = "up" /\ late = {}
    /\ budget = [b \in Bounds |-> 0]

-----------------------------------------------------------------------------
(* The lock and the database write under it. *)

Lock   == ~locked /\ locked' = TRUE
Locks  == ~locked /\ UNCHANGED locked   \* taken and released without an await
Unlock == locked' = FALSE

Remember(t, s) == mem' = [mem EXCEPT ![t] = s]

PersistNothing(t) == UNCHANGED row

(* _persist_task: the whole task is written as memory has it. *)
Persist(t) == row' = [row EXCEPT ![t] = mem[t]]

-----------------------------------------------------------------------------
(* The API. *)

ExistingRunning(t) == t \in Builds /\ \E b \in Builds : mem[b] = "running"

(* _find_task_by_payload_locked, with the statuses pending and running. *)
Existing(t) == t \in Builds /\ \E b \in Builds : mem[b] \in Active

Enqueue(t) ==
    /\ phase = "up" /\ api[t] = "new"
    /\ IF Existing(t)
       THEN api' = [api EXCEPT ![t] = "refused"] /\ Locks /\ UNCHANGED mem
       ELSE api' = [api EXCEPT ![t] = "persisting"] /\ Lock /\ Remember(t, "pending")
    /\ UNCHANGED <<cancelRequested, row, queue, cancelling, deleting, pool, phase, late, budget>>

QueuePutDropping(t) == queue' = IF queue = <<>> THEN <<t>> ELSE queue

QueuePut(t) == queue' = Append(queue, t)
EnqueuePersisted(t) ==
    /\ api[t] = "persisting"
    /\ Persist(t) /\ QueuePut(t) /\ Unlock
    /\ api' = [api EXCEPT ![t] = "enqueued"]
    /\ UNCHANGED <<mem, cancelRequested, cancelling, deleting, pool, phase, late, budget>>

(* The task stays in the dictionary. *)
EnqueueFails(t) ==
    /\ api[t] = "persisting"
    /\ Spend("faults") /\ Unlock
    /\ api' = [api EXCEPT ![t] = "failed"]
    /\ UNCHANGED <<store, queue, cancelling, deleting, pool, phase, late>>

CoroutineOver(t) == \E w \in Workers : holds[w] = t /\ at[w] \in {"mark", "marking"}

CancelTask(t) ==
    /\ phase = "up" /\ mem[t] \in Active
    /\ Spend("cancels") /\ Lock
    /\ cancelRequested' = [cancelRequested EXCEPT ![t] = TRUE]
    /\ cancelling' = cancelling \cup {t}
    /\ late' = IF CoroutineOver(t) THEN late \cup {t} ELSE late
    /\ UNCHANGED <<mem, row, queue, api, deleting, pool, phase>>

CancelPersisted(t) ==
    /\ t \in cancelling
    /\ \/ Persist(t) /\ UNCHANGED budget
       \/ Spend("faults") /\ UNCHANGED row
    /\ cancelling' = cancelling \ {t} /\ Unlock
    /\ UNCHANGED <<mem, cancelRequested, queue, api, deleting, pool, phase, late>>

(* Out of the dictionary under the lock, then out of the table without it. *)
DeleteTask(t) ==
    /\ phase = "up" /\ mem[t] # "none"
    /\ Spend("deletes") /\ Locks
    /\ Remember(t, "none")
    /\ deleting' = deleting \cup {t}
    /\ UNCHANGED <<cancelRequested, row, queue, api, cancelling, pool, phase, late>>

DeleteRow(t) ==
    /\ t \in deleting
    /\ \/ row' = [row EXCEPT ![t] = "none"] /\ UNCHANGED budget
       \/ Spend("faults") /\ UNCHANGED row
    /\ deleting' = deleting \ {t}
    /\ UNCHANGED <<mem, cancelRequested, queue, locked, api, cancelling, pool, phase, late>>

-----------------------------------------------------------------------------
(* _worker_loop.  A worker that shutdown cancelled does nothing else first. *)

At(w, where) == at[w] = where /\ w \notin struck
Goes(w, where) == at' = [at EXCEPT ![w] = where]
Will(w, where, status) == Goes(w, where) /\ out' = [out EXCEPT ![w] = status]
Rests(w, where) == Will(w, where, "none") /\ holds' = [holds EXCEPT ![w] = "none"]

Takes(w) ==
    /\ At(w, "get") /\ queue # <<>>
    /\ holds' = [holds EXCEPT ![w] = Head(queue)] /\ queue' = Tail(queue)
    /\ Goes(w, "look")
    /\ UNCHANGED <<store, locked, apiVars, out, struck, phase, late, budget>>

SkipCancelled(w) == Rests(w, "get")

(* A task cancelled while it was queued. *)
MarkQueuedCancel(w) == Will(w, "mark", "cancelled") /\ UNCHANGED holds
Looks(w) ==
    /\ At(w, "look") /\ Locks
    /\ \/ mem[holds[w]] = "none" /\ Rests(w, "get")
       \/ mem[holds[w]] # "none" /\ cancelRequested[holds[w]] /\ MarkQueuedCancel(w)
       \/ /\ mem[holds[w]] # "none" /\ ~cancelRequested[holds[w]]
          /\ Goes(w, "begin") /\ UNCHANGED <<holds, out>>
    /\ UNCHANGED <<store, queue, apiVars, struck, phase, late, budget>>

(* _update_task does nothing for a task that was deleted meanwhile, and     *)
(* the coroutine runs all the same.                                        *)
Begins(w) ==
    /\ At(w, "begin")
    /\ IF mem[holds[w]] = "none"
       THEN Locks /\ Goes(w, "work") /\ UNCHANGED mem
       ELSE Lock /\ Goes(w, "beginning") /\ Remember(holds[w], "running")
    /\ UNCHANGED <<cancelRequested, row, queue, apiVars, holds, out, struck, phase, late, budget>>

(* If the write fails the worker goes on to the next task. *)
BeginPersisted(w) ==
    /\ At(w, "beginning") /\ Unlock
    /\ \/ Persist(holds[w]) /\ Goes(w, "work") /\ UNCHANGED <<holds, out, budget>>
       \/ Spend("faults") /\ Rests(w, "get") /\ UNCHANGED row
    /\ UNCHANGED <<mem, cancelRequested, queue, apiVars, struck, phase, late>>

(* The coroutine reports progress or a result. *)
Reports(w) ==
    /\ At(w, "work") /\ mem[holds[w]] # "none" /\ Lock
    /\ Goes(w, "reporting")
    /\ UNCHANGED <<store, queue, apiVars, holds, out, struck, phase, late, budget>>

ReportPersisted(w) ==
    /\ At(w, "reporting") /\ Unlock
    /\ \/ Persist(holds[w]) /\ Goes(w, "work") /\ UNCHANGED <<out, budget>>
       \/ Spend("faults") /\ Will(w, "mark", "failed") /\ UNCHANGED row
    /\ UNCHANGED <<mem, cancelRequested, queue, apiVars, holds, struck, phase, late>>

OutcomeSuccess(w) == "success"

(* "overtaken": the coroutine returned although its cancellation was asked. *)
Outcome(w) == IF cancelRequested[holds[w]] THEN "overtaken" ELSE "success"
Returns(w) ==
    /\ At(w, "work")
    /\ Will(w, "mark", Outcome(w))
    /\ UNCHANGED <<store, queue, locked, apiVars, holds, struck, phase, late, budget>>

(* It raises, or looks at its cancellation through its context. *)
Raises(w) ==
    /\ At(w, "work")
    /\ \/ Will(w, "mark", "failed")
       \/ /\ mem[holds[w]] # "none" /\ cancelRequested[holds[w]]
          /\ Will(w, "mark", "cancelled")
    /\ UNCHANGED <<store, queue, locked, apiVars, holds, struck, phase, late, budget>>

StatusOfRaw(o) == o

StatusOf(o) == IF o = "overtaken" THEN "cancelled" ELSE o
Marks(w) ==
    /\ At(w, "mark")
    /\ IF mem[holds[w]] = "none"
       THEN Locks /\ Rests(w, "get") /\ UNCHANGED mem
       ELSE /\ Lock /\ Goes(w, "marking") /\ Remember(holds[w], StatusOf(out[w]))
            /\ UNCHANGED <<holds, out>>
    /\ UNCHANGED <<cancelRequested, row, queue, apiVars, struck, phase, late, budget>>

(* An error while the end is marked inside the inner try statement marks   *)
(* the task failed; one in its handlers is only logged.                    *)
InTry(w) == out[w] \in {"success", "overtaken"}
MarkPersisted(w) ==
    /\ At(w, "marking") /\ Unlock
    /\ \/ Persist(holds[w]) /\ Rests(w, "get") /\ UNCHANGED budget
       \/ /\ Spend("faults") /\ UNCHANGED row
          /\ IF InTry(w) THEN Will(w, "mark", "failed") /\ UNCHANGED holds ELSE Rests(w, "get")
    /\ UNCHANGED <<mem, cancelRequested, queue, apiVars, struck, phase, late>>

-----------------------------------------------------------------------------
(* shutdown: the lock is held until every worker is over.  The server      *)
(* answers its last requests first.                                        *)

ShutdownBegins ==
    /\ phase = "up" /\ deleting = {} /\ Lock
    /\ phase' = "stopping" /\ struck' = Workers
    /\ UNCHANGED <<store, queue, apiVars, at, holds, out, late, budget>>

StaysInLoop(w) == Rests(w, "get")

LeavesLoop(w) == Rests(w, "over")

(* CancelledError leaves the loop, except inside the inner try statement,   *)
(* whose handler marks the task cancelled.                                 *)
BreaksOut(w) == at[w] \in {"get", "look", "begin"} \/ (at[w] = "mark" /\ ~InTry(w))
Strikes(w) ==
    /\ w \in struck /\ at[w] # "over" /\ struck' = struck \ {w}
    /\ IF BreaksOut(w) THEN LeavesLoop(w)
                       ELSE Will(w, "mark", "cancelled") /\ UNCHANGED holds
    /\ UNCHANGED <<store, queue, locked, apiVars, phase, late, budget>>

ShutdownIsOver ==
    /\ phase = "stopping" /\ \A w \in Workers : at[w] = "over"
    /\ phase' = "down" /\ Unlock
    /\ UNCHANGED <<store, queue, apiVars, pool, late, budget>>

RecoveredAll(s) == IF s = "none" THEN "none" ELSE "failed"

(* The process is killed, or ends; the next one starts: _load_state fails   *)
(* what the table says is active, and fills no dictionary.                 *)
Recovered(s) == IF s \in Active THEN "failed" ELSE s
Restart ==
    /\ Spend("restarts")
    /\ mem' = [t \in Tasks |-> "none"] /\ row' = [t \in Tasks |-> Recovered(row[t])]
    /\ queue' = <<>> /\ locked' = FALSE
    /\ api' = [t \in Tasks |-> IF api[t] = "persisting" THEN "failed" ELSE api[t]]
    /\ cancelling' = {} /\ deleting' = {}
    /\ at' = [w \in Workers |-> "get"] /\ holds' = [w \in Workers |-> "none"]
    /\ out' = [w \in Workers |-> "none"] /\ struck' = {} /\ phase' = "up"
    /\ UNCHANGED <<cancelRequested, late>>

-----------------------------------------------------------------------------
ApiNext ==
    \E t \in Tasks : \/ Enqueue(t) \/ EnqueuePersisted(t) \/ EnqueueFails(t)
                     \/ CancelTask(t) \/ CancelPersisted(t) \/ DeleteTask(t) \/ DeleteRow(t)

(* What a worker does by itself; only "work" waits for a coroutine. *)
WorkerSteps(w) ==
    \/ Looks(w) \/ Begins(w) \/ BeginPersisted(w) \/ ReportPersisted(w) \/ Marks(w)
    \/ MarkPersisted(w) \/ Strikes(w)

Next ==
    \/ ApiNext \/ ShutdownBegins \/ ShutdownIsOver \/ Restart
    \/ \E w \in Workers : WorkerSteps(w) \/ Takes(w) \/ Reports(w) \/ Returns(w) \/ Raises(w)

Spec == Init /\ [][Next]_vars

(* asyncio runs what is ready, serves its lock in order of arrival, and the *)
(* database answers.                                                       *)
Fairness ==
    /\ \A t \in Tasks : WF_vars(EnqueuePersisted(t)) /\ WF_vars(CancelPersisted(t))
                          /\ WF_vars(DeleteRow(t))
    /\ \A w \in Workers : SF_vars(WorkerSteps(w)) /\ WF_vars(Takes(w))
    /\ WF_vars(ShutdownIsOver)

(* Every coroutine returns in the end. *)
CoroutinesEnd == \A w \in Workers : SF_vars(Returns(w))
FairSpec == Spec /\ Fairness /\ CoroutinesEnd

-----------------------------------------------------------------------------
(* Properties. *)

(* Type correctness of the dictionary, the table, the lock and the workers. *)
TypeOK ==
    /\ mem \in [Tasks -> {"none"} \cup Active \cup Terminal]
    /\ row \in [Tasks -> {"none"} \cup Active \cup Terminal]
    /\ cancelRequested \in [Tasks -> BOOLEAN] /\ late \subseteq Tasks
    /\ queue \in Seq(Tasks) /\ locked \in BOOLEAN
    /\ api \in [Tasks -> {"new", "refused", "persisting", "enqueued", "failed"}]
    /\ cancelling \subseteq Tasks /\ deleting \subseteq Tasks
    /\ at \in [Workers -> {"get", "look", "begin", "beginning", "work", "reporting",
                           "mark", "marking", "over"}]
    /\ holds \in [Workers -> Tasks \cup {"none"}] /\ struck \subseteq Workers
    /\ out \in [Workers -> Terminal \cup {"none", "overtaken"}]
    /\ phase \in {"up", "stopping", "down"} /\ budget \in [Bounds -> Nat]

Working(w) == at[w] \in {"work", "reporting"}

(* "this knowledge base already has a graph build running" (409): two       *)
(* builds of one knowledge base are never at work together, unless one was *)
(* deleted while it ran, which its coroutine does not notice.              *)
OneBuild == \A v, w \in Workers :
    v # w /\ Working(v) /\ Working(w) /\ holds[v] \in Builds /\ holds[w] \in Builds
        => mem[holds[v]] = "none" \/ mem[holds[w]] = "none"

(* The inductive invariant behind OneBuild: a task is in one place of the   *)
(* queue or in one worker's hands, only after it was enqueued;             *)
InOnePlace ==
    /\ \A i, j \in 1 .. Len(queue) : queue[i] = queue[j] => i = j
    /\ \A v, w \in Workers : holds[v] = holds[w] /\ holds[v] # "none" => v = w
    /\ \A i \in 1 .. Len(queue), w \in Workers : queue[i] # holds[w]
    /\ \A i \in 1 .. Len(queue) : api[queue[i]] = "enqueued"
    /\ \A w \in Workers : holds[w] # "none" => api[holds[w]] = "enqueued"
    /\ \A w \in Workers : at[w] \in {"get", "over"} <=> holds[w] = "none"

(* a task that is not deleted is pending until its worker begins it and     *)
(* running until that worker marks its end;                                *)
StatusByPlace ==
    /\ \A t \in Tasks : api[t] = "persisting" => mem[t] \in {"none", "pending"}
    /\ \A i \in 1 .. Len(queue) : mem[queue[i]] \in {"none", "pending"}
    /\ \A w \in Workers : at[w] \in {"look", "begin"} => mem[holds[w]] \in {"none", "pending"}
    /\ \A w \in Workers :
          at[w] \in {"beginning", "work", "reporting"} => mem[holds[w]] \in {"none", "running"}

(* and one build of the knowledge base at most is pending or running.      *)
OneActiveBuild ==
    \A b, c \in Builds : mem[b] \in Active /\ mem[c] \in Active => b = c

BuildInvariant == InOnePlace /\ StatusByPlace /\ OneActiveBuild

(* Whenever the lock is free the table says what memory says, and has no    *)
(* row of a deleted task, as long as no write failed.                      *)
Saved == budget["faults"] = 0 /\ ~locked => \A t \in Tasks :
    \/ row[t] = mem[t] \/ t \in deleting
    \/ mem[t] = "none" /\ budget["restarts"] > 0

(* A task shown as pending or running, and so refusing other builds, is in  *)
(* the queue or in a worker's hands, as long as no write failed and the    *)
(* process is not shutting down.                                           *)
ActiveIsCarried == budget["faults"] = 0 /\ phase = "up" => \A t \in Tasks :
    mem[t] \in Active =>
        \/ api[t] = "persisting" \/ \E i \in DOMAIN queue : queue[i] = t
        \/ \E w \in Workers : holds[w] = t /\ at[w] \notin {"get", "over"}

(* A task whose cancellation was accepted while its coroutine ran, or       *)
(* earlier, is never reported as a success.                                *)
CancelBeatsSuccess == \A t \in Tasks :
    cancelRequested[t] /\ "success" \in {mem[t], row[t]} => t \in late

(* A terminal row is never rewritten, whatever is marked, retried, deleted  *)
(* or recovered around it.                                                 *)
RowFinal == [][\A t \in Tasks : row[t] \in Terminal => row'[t] \in {row[t], "none"}]_row

(* Every accepted task ends, deleted ones included, if no write failed and  *)
(* the process goes on.                                                    *)
TaskEnds == \A t \in Tasks : (api[t] = "enqueued" /\ row[t] \in Active) ~>
    (row[t] \notin Active \/ budget["faults"] > 0 \/ phase # "up")

(* A shutdown that finds every worker between two tasks is over in the end. *)
IdleShutdownEnds ==
    (phase = "stopping" /\ \A w \in Workers : at[w] \in {"get", "look", "begin"})
        ~> (phase # "stopping")

(* "await tasker.shutdown()" in the lifespan, before the shared connections *)
(* are closed so that no driver leaks: every shutdown is over in the end.  *)
ShutdownEnds == (phase = "stopping") ~> (phase # "stopping")
=============================================================================
