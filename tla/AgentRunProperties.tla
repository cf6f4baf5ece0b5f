------------------------- MODULE AgentRunProperties -------------------------
(* The properties of AgentRun, and the abstract row it implements. *)
EXTENDS AgentRun

(* Type correctness of the whole state of process_agent_run, the row,      *)
(* Redis and the requests.                                                 *)
TypeOK ==
    /\ status \in Statuses
    /\ lock \in {"none", "worker"} \cup Cancels
    /\ written \in {"none", "running", "cancel_requested"} \cup Terminal
    /\ cancelKey \in BOOLEAN /\ events \in Seq(EventSet)
    /\ job \in {"none", "queued", "active", "done", "dropped"}
    /\ tries \in 0 .. MaxTries /\ memoryJob \in BOOLEAN
    /\ submit \in [Submits -> {"new", "validated", "inserted", "answered", "failed"}]
    /\ cancel \in [Cancels -> {"new", "lock", "publish", "commit", "answered", "failed"}]
    /\ seen \in [Cancels -> Statuses]
    /\ pc \in Points /\ mode \in {"setup", "chunk", "fallback", "handler"}
    /\ outcome \in Terminal \cup {"none"} /\ leaving \in {"return", "error", "stopped"}
    /\ cancelEvent \in BOOLEAN /\ terminalSet \in BOOLEAN
    /\ buffers \subseteq Threads /\ agent \in {"streaming", "asked", "over"}
    /\ retryable \in BOOLEAN
    /\ budget \in [Bounds -> Nat]
    /\ lost \in BOOLEAN /\ reopened \in BOOLEAN

-----------------------------------------------------------------------------
(* Row and stream. *)

Ends == {i \in 1 .. Len(events) : events[i].type = "end"}
HasEnd == \E i \in 1 .. Len(events) : events[i].type = "end"

(* "On termination mark the run, then write the end event"                 *)
(* (process_agent_run): a client that saw an end event should find a       *)
(* terminal row.  An end event with a row that is still active has exactly *)
(* two explanations: the worker's write met a locked row and was dropped   *)
(* by SKIP LOCKED, or a cancel request that had read the run active wrote  *)
(* over its terminal status.                                               *)
EndMeansTerminal == HasEnd => status \in Terminal \/ lost \/ reopened

(* The first end event, the one at which readers stop, carries the status  *)
(* the row ends with, unless a call raised, ARQ stopped the coroutine, or  *)
(* one of the two windows above was met.                                   *)
Undisturbed == ~lost /\ ~reopened /\ budget["faults"] = 0 /\ budget["stops"] = 0
FirstEndIsTheStatus ==
    Undisturbed => \A i \in Ends :
        (\A j \in Ends : i <= j) => events[i].status = status

(* A run that nobody has asked to cancel tells its end once: terminal_set  *)
(* is there to avoid marking twice.  (A cancel that is noticed after the   *)
(* end event, in the test that follows a chunk, tells a second end,        *)
(* "cancelled"; so do a stop and a raising call after the end event, and   *)
(* the try that follows a crash.)                                          *)
OneEnd ==
    /\ \A c \in Cancels : cancel[c] = "new"
    /\ Undisturbed /\ budget["crashes"] = 0
    => \A i, j \in Ends : i = j

-----------------------------------------------------------------------------
(* The inductive invariant behind EndMeansTerminal and the refinement.     *)

(* The holder of the lock is in the middle of its transaction, and what it *)
(* wrote was decided on a status that is still there (the worker) or that  *)
(* it read earlier (a cancel request).                                     *)
LockProtects ==
    /\ lock = "none" => written = "none"
    /\ lock = "worker" =>
        /\ pc \in {"runningCommit", "commit"}
        /\ written # "none" => status \in Active /\ written # "cancel_requested"
        /\ pc = "commit" => written # "running"
    /\ \A c \in Cancels : lock = c =>
        /\ cancel[c] \in {"publish", "commit"}
        /\ written # "none" => seen[c] \notin Terminal /\ written = "cancel_requested"

(* A job, hence a worker, only exists for a stored row, and so do the       *)
(* requests that read it.                                                  *)
RowExists ==
    /\ job # "none" \/ pc # "idle" => status # "absent"
    /\ \A s \in Submits : submit[s] = "inserted" => status # "absent"

(* Between the commit of a terminal status and the end event.              *)
EndInProgress ==
    /\ pc \in {"mark", "commit", "end"} => outcome \in Terminal
    /\ pc = "commit" => lost \/ reopened \/ status \in Terminal
                          \/ (lock = "worker" /\ written \in Terminal)
    /\ pc = "end" => lost \/ reopened \/ status \in Terminal

RowInvariant == LockProtects /\ RowExists /\ EndInProgress /\ EndMeansTerminal

-----------------------------------------------------------------------------
(* Requests and hooks. *)

(* Nothing is in flight: no request, no job, no worker. *)
AtRest ==
    /\ \A s \in Submits : submit[s] \in {"answered", "failed"}
    /\ \A c \in Cancels : cancel[c] \in {"new", "answered", "failed"}
    /\ job \in {"none", "done", "dropped"}

(* When nothing is in flight a run without a terminal status was failed by *)
(* something: a raising call, a killed or stopped worker, or one of the    *)
(* two windows of the row lock.  Nothing else leaves a run behind.         *)
NothingLeftBehind ==
    AtRest /\ status \in Active =>
        \/ lost \/ reopened \/ ~RetryOnError
        \/ budget["faults"] > 0 \/ budget["crashes"] > 0 \/ budget["stops"] > 0

(* The memory hook is for completed runs only: at rest, and with no        *)
(* failure, memories are extracted of a completed run.                     *)
MemoryOfCompleted ==
    memoryJob /\ AtRest /\ Undisturbed /\ budget["crashes"] = 0 => status = "completed"

-----------------------------------------------------------------------------
(* Action properties. *)

(* A run that has finished stays as it finished (the tests of              *)
(* TERMINAL_RUN_STATUSES in AgentRunRepository).                           *)
TerminalFinal == [][(status \in Terminal) => UNCHANGED status]_vars

(* The cancel requests that found the run active and are not answered. *)
Deciding == {c \in Cancels : /\ cancel[c] \in {"lock", "publish", "commit"}
                             /\ seen[c] \notin Terminal}

(* The row implements the abstract life of a run. *)
Lifecycle == INSTANCE RunLifecycle WITH deciding <- Deciding
LifecycleSpec == Lifecycle!Spec

(* What one write of the worker may append: the flushed tokens of the two   *)
(* threads, then at most one event more.                                   *)
Tokens == {<<>>, <<Event("messages", "child")>>, <<Event("messages", "main")>>,
           <<Event("messages", "child"), Event("messages", "main")>>}
LastWords == {<<>>} \cup {<<Event(e, t)>> : e \in EventTypes \ {"end"}, t \in Threads}
                   \cup {<<EndEvent(s)>> : s \in Terminal}
Outputs == {a \o b : a \in Tokens, b \in LastWords}

(* The row and the stream together implement what readers rely on: no end  *)
(* while the row is active, no token of the run's own thread after it is   *)
(* terminal.  With cancel requests this holds until one of the two windows *)
(* of the row lock is met.                                                 *)
Output == INSTANCE RunOutput
OutputUntilWindow ==
    Output!Init /\ [][Output!Next \/ lost' \/ reopened']_<<status, events>>

-----------------------------------------------------------------------------
(* Liveness. *)

(* A cancel signal stops a run that is streaming, even when the agent      *)
(* never yields again: _consume_stream_with_cancel waits for both.         *)
CancelStopsRun == (pc = "stream" /\ cancelKey) ~> (pc = "idle")

(* A run that was accepted ends, cancelled or not, if its agent answers in  *)
(* the end: the comment of the fallback promises that no run stays in      *)
(* "running".  Only what NothingLeftBehind names can keep it from ending.  *)
AcceptedEnds ==
    AgentAnswers => ((job = "queued") ~> \/ status \in Terminal \/ lost \/ reopened
                                         \/ budget["crashes"] > 0 \/ budget["stops"] > 0
                                         \/ budget["faults"] > 0)
=============================================================================
