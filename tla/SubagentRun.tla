---------------------------- MODULE SubagentRun ----------------------------
(***************************************************************************)
(* Delegation: parents that call the task tool once, and the child run     *)
(* each call creates, executed by the workers of another ARQ queue.        *)
(*                                                                         *)
(* The parent is process_agent_run seen from its tool call (atask); its    *)
(* own row is AgentRun's matter.  A child's row is written in transactions *)
(* short enough to be single steps here: the two windows of the row lock   *)
(* are AgentRun's matter too.  A retried parent repeats its tool call with *)
(* the same tool_call_id, so a call is identified with its parent.         *)
(***************************************************************************)
EXTENDS Naturals, FiniteSets

CONSTANTS
    Parents,
    MainSlots,       \* jobs the main workers run at once
    SubSlots,        \* SubAgentWorkerSettings.max_jobs
    MaxTries,        \* SubAgentWorkerSettings.max_tries
    RetryOnError,    \* whether ARQ runs a job again when its coroutine raises
    MaxCancels,      \* bound: cancellations asked by users
    MaxMishaps       \* bound: crashes, faults, timeouts, retries and expiries together

ASSUME SlotsAssumption == MainSlots \in Nat \ {0} /\ SubSlots \in Nat \ {0}
ASSUME MaxTriesAssumption == MaxTries \in Nat \ {0} /\ RetryOnError \in BOOLEAN
ASSUME BoundsAssumption == MaxCancels \in Nat /\ MaxMishaps \in Nat

Terminal == {"completed", "failed", "cancelled"}
Active   == {"pending", "running", "cancel_requested"}

VARIABLES
    parent,    \* where each parent's coroutine is
    answer,    \* what its tool call returned: a status, "timeout" or "none"
    signalled, \* the parents whose cancellation was asked for
    child,     \* the status of each child's row, or "absent"
    job,       \* its ARQ job: "none", "queued", "active", "done" or "dropped"
    tries,     \* its job_try
    key,       \* its cancel key
    worker,    \* where process_subagent_run is
    gone,      \* history: children whose cancel key was lost before they ended
    harmed,    \* history: calls hit where nothing in the code makes up for it
    budget     \* how much of each bound is used

parentVars == <<parent, answer, signalled>>
childVars  == <<child, job, tries, key, worker>>
vars == <<parentVars, childVars, gone, harmed, budget>>

Running  == {"thinking", "enqueue", "waiting", "answered"}
Finished == {"done", "cancelled", "cascaded"}

Bounds == {"cancels", "mishaps"}
Limit == [cancels |-> MaxCancels, mishaps |-> MaxMishaps]
Spend(b) == budget[b] < Limit[b] /\ budget' = [budget EXCEPT ![b] = @ + 1]

Init ==
    /\ parent = [p \in Parents |-> "queued"] /\ answer = [p \in Parents |-> "none"]
    /\ signalled = {}
    /\ child = [p \in Parents |-> "absent"] /\ job = [p \in Parents |-> "none"]
    /\ tries = [p \in Parents |-> 0] /\ key = [p \in Parents |-> FALSE]
    /\ worker = [p \in Parents |-> "idle"]
    /\ gone = {} /\ harmed = {}
    /\ budget = [b \in Bounds |-> 0]

-----------------------------------------------------------------------------
(* The two pools. *)

InMain == {p \in Parents : parent[p] \in Running}
InSub  == {p \in Parents : job[p] = "active"}

FreeMain == Cardinality(InMain) < MainSlots

(* One queue for both: a child needs a slot that its parent may hold. *)
FreeSubShared == Cardinality(InMain) + Cardinality(InSub) < MainSlots

FreeSub == Cardinality(InSub) < SubSlots

-----------------------------------------------------------------------------
(* The parent. *)

To(p, where) == parent' = [parent EXCEPT ![p] = where]

SetTerminal(p, s) ==
    child' = IF child[p] \in Terminal THEN child ELSE [child EXCEPT ![p] = s]

ParentStarts(p) ==
    /\ parent[p] = "queued" /\ FreeMain
    /\ To(p, "thinking")
    /\ UNCHANGED <<answer, signalled, childVars, gone, harmed, budget>>

(* _create_subagent_run: a repeated call finds the run by its request_id;   *)
(* it is answered at once if that is over, and only a new run is enqueued. *)
ParentCalls(p) ==
    /\ parent[p] = "thinking"
    /\ CASE child[p] = "absent" ->
                /\ child' = [child EXCEPT ![p] = "pending"]
                /\ To(p, "enqueue") /\ UNCHANGED answer
         [] child[p] \in Terminal ->
                /\ answer' = [answer EXCEPT ![p] = child[p]]
                /\ To(p, "answered") /\ UNCHANGED child
         [] OTHER ->
                To(p, "waiting") /\ UNCHANGED <<child, answer>>
    /\ UNCHANGED <<signalled, job, tries, key, worker, gone, harmed, budget>>

(* The model may also answer without a subagent. *)
ParentAnswersAlone(p) ==
    /\ parent[p] = "thinking"
    /\ To(p, "answered")
    /\ UNCHANGED <<answer, signalled, childVars, gone, harmed, budget>>

ParentEnqueues(p) ==
    /\ parent[p] = "enqueue"
    /\ job' = [job EXCEPT ![p] = "queued"]
    /\ To(p, "waiting")
    /\ UNCHANGED <<answer, signalled, child, tries, key, worker, gone, harmed, budget>>

OnEnqueueErrorIgnored(p) == UNCHANGED child

(* The enqueueing raises: the child is marked failed. *)
OnEnqueueError(p) == SetTerminal(p, "failed")
EnqueueFails(p) ==
    /\ parent[p] = "enqueue"
    /\ OnEnqueueError(p)
    /\ answer' = [answer EXCEPT ![p] = "failed"]
    /\ To(p, "answered")
    /\ UNCHANGED <<signalled, job, tries, key, worker, gone, harmed, budget>>

OverTooEarly(p) == child[p] \in Terminal \cup {"cancel_requested"}

(* _await_subagent_terminal polls the row. *)
Over(p) == child[p] \in Terminal
ParentPolls(p) ==
    /\ parent[p] = "waiting" /\ Over(p)
    /\ answer' = [answer EXCEPT ![p] = child[p]]
    /\ To(p, "answered")
    /\ UNCHANGED <<signalled, childVars, gone, harmed, budget>>

ParentTimesOut(p) ==
    /\ parent[p] = "waiting" /\ ~Over(p)
    /\ Spend("mishaps")
    /\ key' = [key EXCEPT ![p] = TRUE]
    /\ answer' = [answer EXCEPT ![p] = "timeout"]
    /\ To(p, "answered")
    /\ UNCHANGED <<signalled, child, job, tries, worker, gone, harmed>>

(* The poll itself raises: the tool call fails, and nobody tells the child. *)
ParentPollFails(p) ==
    /\ parent[p] = "waiting"
    /\ Spend("mishaps")
    /\ harmed' = harmed \cup {p}
    /\ To(p, "answered")
    /\ UNCHANGED <<answer, signalled, childVars, gone>>

ParentFinishes(p) ==
    /\ parent[p] = "answered"
    /\ To(p, "done")
    /\ UNCHANGED <<answer, signalled, childVars, gone, harmed, budget>>

CascadeForgotten(p) == UNCHANGED key

(* The cancellation of a waiting parent cascades; elsewhere in atask it     *)
(* does not, not even between the commit of the child's row and its job.   *)
Cascade(p) == key' = [key EXCEPT ![p] = TRUE]
ParentIsCancelled(p) ==
    /\ p \in signalled
    /\ \/ /\ parent[p] = "waiting"
          /\ Cascade(p) /\ To(p, "cascaded") /\ UNCHANGED <<job, harmed>>
       \/ /\ parent[p] \in {"thinking", "answered"}
          /\ To(p, "cancelled") /\ UNCHANGED <<key, job, harmed>>
       \/ /\ parent[p] = "enqueue"
          /\ job' \in {job, [job EXCEPT ![p] = "queued"]}
          /\ harmed' = harmed \cup {p}
          /\ To(p, "cancelled") /\ UNCHANGED key
    /\ UNCHANGED <<answer, signalled, child, tries, worker, gone, budget>>

(* Its worker dies; ARQ queues it again (its own tries: see AgentRun). *)
ParentCrashes(p) ==
    /\ parent[p] \in Running
    /\ Spend("mishaps")
    /\ To(p, "queued") /\ answer' = [answer EXCEPT ![p] = "none"]
    /\ harmed' = IF child[p] \in Active THEN harmed \cup {p} ELSE harmed
    /\ UNCHANGED <<signalled, childVars, gone>>

-----------------------------------------------------------------------------
(* The users: cancel_agent_run_view on the parent or on the child. *)

UserCancelsParent(p) ==
    /\ parent[p] \notin Finished /\ p \notin signalled
    /\ Spend("cancels")
    /\ signalled' = signalled \cup {p}
    /\ UNCHANGED <<parent, answer, childVars, gone, harmed>>

UserCancelsChild(p) ==
    /\ child[p] # "absent"
    /\ Spend("cancels")
    /\ child' = IF child[p] \in {"pending", "running"}
                THEN [child EXCEPT ![p] = "cancel_requested"] ELSE child
    /\ key' = [key EXCEPT ![p] = TRUE]
    /\ UNCHANGED <<parentVars, job, tries, worker, gone, harmed>>

-----------------------------------------------------------------------------
(* process_subagent_run. *)

At(p, where) == worker[p] = where
Goes(p, where) == worker' = [worker EXCEPT ![p] = where]
Leaves(p, how) == Goes(p, "idle") /\ job' = [job EXCEPT ![p] = how]

TriesLeft(p) == tries[p] < MaxTries
ChildStarts(p) ==
    /\ job[p] = "queued" /\ FreeSub
    /\ IF TriesLeft(p)
       THEN /\ job' = [job EXCEPT ![p] = "active"] /\ tries' = [tries EXCEPT ![p] = @ + 1]
            /\ Goes(p, "load")
       ELSE job' = [job EXCEPT ![p] = "dropped"] /\ UNCHANGED <<tries, worker>>
    /\ UNCHANGED <<parentVars, child, key, gone, harmed, budget>>

ChildLoads(p) ==
    /\ At(p, "load")
    /\ IF child[p] \in Terminal THEN Leaves(p, "done") ELSE Goes(p, "check") /\ UNCHANGED job
    /\ UNCHANGED <<parentVars, child, tries, key, gone, harmed, budget>>

(* has_cancel_signal: cancelled while it was queued. *)
QueuedCancel(p) == key[p]
ChildChecks(p) ==
    /\ At(p, "check")
    /\ \/ /\ QueuedCancel(p)
          /\ SetTerminal(p, "cancelled") /\ Goes(p, "close") /\ UNCHANGED job
       \/ /\ ~QueuedCancel(p)
          /\ Goes(p, "begin") /\ UNCHANGED <<child, job>>
       \/ /\ ~QueuedCancel(p)    \* its user or its agent is gone
          /\ SetTerminal(p, "failed") /\ Leaves(p, "done")
    /\ UNCHANGED <<parentVars, tries, key, gone, harmed, budget>>

(* mark_run_running and run_ctx.start. *)
ChildBegins(p) ==
    /\ At(p, "begin")
    /\ child' = IF child[p] \in Terminal THEN child ELSE [child EXCEPT ![p] = "running"]
    /\ Goes(p, "stream")
    /\ UNCHANGED <<parentVars, job, tries, key, gone, harmed, budget>>

(* The child's graph ends or raises, perhaps before the signal is noticed. *)
ChildEnds(p) ==
    /\ At(p, "stream")
    /\ \E s \in {"completed", "failed"} : SetTerminal(p, s)
    /\ Goes(p, "close")
    /\ UNCHANGED <<parentVars, job, tries, key, gone, harmed, budget>>

(* A retryable exception, not on the last try, is raised again for ARQ. *)
LastTry(p) == tries[p] >= MaxTries
ChildRaises(p) ==
    /\ At(p, "stream") /\ ~LastTry(p)
    /\ Spend("mishaps")
    /\ Goes(p, "retry")
    /\ UNCHANGED <<parentVars, child, job, tries, key, gone, harmed>>

NoticedNever(p) == FALSE

(* RunContext's watch, then _consume_stream_with_cancel. *)
Noticed(p) == key[p]
ChildIsCancelled(p) ==
    /\ At(p, "stream") /\ Noticed(p)
    /\ SetTerminal(p, "cancelled") /\ Goes(p, "close")
    /\ UNCHANGED <<parentVars, job, tries, key, gone, harmed, budget>>

(* job_timeout, or the shutdown of the worker: handled as a cancellation. *)
ChildIsStopped(p) ==
    /\ At(p, "stream")
    /\ Spend("mishaps")
    /\ SetTerminal(p, "cancelled") /\ Goes(p, "close")
    /\ UNCHANGED <<parentVars, job, tries, key, gone, harmed>>

(* The finally clause clears the signal, on the way to a retry too. *)
ChildCloses(p) ==
    /\ worker[p] \in {"close", "retry"}
    /\ Leaves(p, IF At(p, "retry") /\ RetryOnError THEN "queued" ELSE "done")
    /\ key' = [key EXCEPT ![p] = FALSE]
    /\ gone' = IF At(p, "retry") /\ key[p] THEN gone \cup {p} ELSE gone
    /\ harmed' = IF At(p, "retry") /\ ~RetryOnError THEN harmed \cup {p} ELSE harmed
    /\ UNCHANGED <<parentVars, child, tries, budget>>

(* The worker is killed anywhere, or stopped before the try statement: the *)
(* job is queued again.                                                    *)
ChildCrashes(p) ==
    /\ job[p] = "active"
    /\ Spend("mishaps")
    /\ Leaves(p, "queued")
    /\ harmed' = harmed \cup {p}
    /\ UNCHANGED <<parentVars, child, tries, key, gone>>

(* A database call raises where nothing catches it: before the try         *)
(* statement, or in a handler, whose finally clause still runs.            *)
ChildFaults(p) ==
    /\ worker[p] \in {"load", "check", "begin", "stream"}
    /\ Spend("mishaps")
    /\ Leaves(p, IF RetryOnError THEN "queued" ELSE "done")
    /\ key' = IF At(p, "stream") THEN [key EXCEPT ![p] = FALSE] ELSE key
    /\ harmed' = harmed \cup {p}
    /\ UNCHANGED <<parentVars, child, tries, gone>>

(* The signal of a child that waits in the queue outlives its TTL. *)
KeyExpires(p) ==
    /\ key[p] /\ job[p] # "active"
    /\ Spend("mishaps")
    /\ key' = [key EXCEPT ![p] = FALSE]
    /\ gone' = gone \cup {p}
    /\ UNCHANGED <<parentVars, child, job, tries, worker, harmed>>

-----------------------------------------------------------------------------
ParentSteps(p) ==
    \/ ParentStarts(p) \/ ParentCalls(p) \/ ParentAnswersAlone(p) \/ ParentEnqueues(p)
    \/ EnqueueFails(p) \/ ParentPolls(p) \/ ParentFinishes(p) \/ ParentIsCancelled(p)

ChildSteps(p) ==
    \/ ChildStarts(p) \/ ChildLoads(p) \/ ChildChecks(p) \/ ChildBegins(p)
    \/ ChildIsCancelled(p) \/ ChildCloses(p)

Environment(p) ==
    \/ UserCancelsParent(p) \/ UserCancelsChild(p) \/ KeyExpires(p)
    \/ ParentTimesOut(p) \/ ParentPollFails(p) \/ ParentCrashes(p)
    \/ ChildRaises(p) \/ ChildIsStopped(p) \/ ChildCrashes(p) \/ ChildFaults(p)

Next == \E p \in Parents : ParentSteps(p) \/ ChildSteps(p) \/ ChildEnds(p) \/ Environment(p)

Spec == Init /\ [][Next]_vars

(* Each pool serves its queue in order of arrival, so a job that waits for  *)
(* a slot gets one when slots are freed again and again.  A child's graph  *)
(* owes no answer: that it does is the assumption ChildrenAnswer.          *)
FairSpec == /\ Spec
            /\ \A p \in Parents : /\ SF_vars(ParentStarts(p)) /\ WF_vars(ParentSteps(p))
                                  /\ SF_vars(ChildStarts(p)) /\ WF_vars(ChildSteps(p))

ChildrenAnswer == \A p \in Parents : WF_vars(ChildEnds(p))

-----------------------------------------------------------------------------
(* Properties. *)

(* Type correctness of the parents, the children and their jobs. *)
TypeOK ==
    /\ parent \in [Parents -> {"queued"} \cup Running \cup Finished]
    /\ answer \in [Parents -> Terminal \cup {"timeout", "none"}]
    /\ signalled \subseteq Parents /\ gone \subseteq Parents
    /\ harmed \subseteq Parents /\ budget \in [Bounds -> Nat]
    /\ child \in [Parents -> {"absent"} \cup Active \cup Terminal]
    /\ job \in [Parents -> {"none", "queued", "active", "done", "dropped"}]
    /\ tries \in [Parents -> 0 .. MaxTries] /\ key \in [Parents -> BOOLEAN]
    /\ worker \in [Parents -> {"idle", "load", "check", "begin", "stream", "close", "retry"}]
    /\ \A p \in Parents : job[p] = "active" <=> worker[p] # "idle"

(* What the parent's model is told of its subagent is how the child's run   *)
(* ended, and stays so.                                                    *)
AnswerIsTheEnd == \A p \in Parents : answer[p] \notin {"none", "timeout"} => child[p] = answer[p]

(* A child whose row is active and that no job will ever end. *)
Stranded(p) == child[p] \in Active /\ job[p] \in {"none", "done", "dropped"}
                 /\ parent[p] # "enqueue"

(* A child whose row is active always has a job that will end it or a       *)
(* parent that will make one, unless a kill, an uncaught error or a         *)
(* cancellation hit its call just between two of its steps.                *)
StrandedOnlyIfHarmed == \A p \in Parents : Stranded(p) => p \in harmed

(* No child works on for nobody: once its parent is over, its run is over   *)
(* or its signal stands, unless the signal expired in the queue, a retried *)
(* attempt cleared it, or the call was hit as above.                       *)
NoOrphan == \A p \in Parents :
    parent[p] \in Finished /\ child[p] \in Active => key[p] \/ p \in gone \cup harmed

(* A child whose parent was cancelled ends although its graph never         *)
(* answers, except while other children hold all the slots.                *)
CascadeEnds == \A p \in Parents : (parent[p] = "cascaded") ~>
    \/ child[p] \in Terminal \/ p \in gone \cup harmed
    \/ job[p] = "queued" /\ ~FreeSub

(* No parent waits for ever for a slot that a waiting parent holds: where   *)
(* children answer, every parent ends, unless its child is stranded.       *)
ParentsEnd ==
    ChildrenAnswer => \A p \in Parents : (parent[p] = "queued") ~>
        (parent[p] \in Finished \/ Stranded(p))
=============================================================================
