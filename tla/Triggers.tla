------------------------------ MODULE Triggers ------------------------------
(***************************************************************************)
(* A trigger: a cron or kb_sync trigger that the scan of each minute finds *)
(* due, or a webhook; the runs it starts; and the row of triggers that     *)
(* shows how the last one went.                                            *)
(*                                                                         *)
(* The scan puts one ARQ job per minute in the queue, under an id made of  *)
(* the trigger and the minute; a cron job starts a run and returns, and    *)
(* the run's end is to reach the row through the hook of                   *)
(* mark_run_terminal; a kb_sync job does its work itself.  The run is      *)
(* AgentRun's, here only its end; the files are KnowledgeFiles'.  The      *)
(* trigger is due every minute.                                            *)
(***************************************************************************)
EXTENDS Naturals, Sequences, FiniteSets

CONSTANTS
    Minutes,        \* bound: the minutes of the clock are 1 .. Minutes
    Requests,       \* the calls of the webhook
    MaxTries,       \* max_tries of the worker
    MaxScans,       \* bound: scans, of all minutes and workers
    MaxDeaths,      \* bound: jobs killed with their worker, or stopped
    MaxFaults       \* bound: database or Redis calls that raise

ASSUME BoundsAssumption ==
    /\ Minutes \in Nat \ {0} /\ MaxTries \in Nat \ {0}
    /\ MaxScans \in Nat /\ MaxDeaths \in Nat /\ MaxFaults \in Nat

Slots == 1 .. Minutes
Calls == Slots \cup Requests

ASSUME RequestsAssumption == Requests \cap Slots = {}

VARIABLES
    kind,       \* trigger_type
    life,       \* "active", "inactive" or "deleted"
    shown,      \* last_run_status
    lastRun,    \* last_run_id, 0 for none
    count,      \* run_count
    clock,      \* the minute
    scan,       \* the minute a scan has read from the clock, 0 when none runs
    job,        \* the ARQ job of each minute
    tries,      \* its tries
    at,         \* where each execution is
    read,       \* what a kb_sync that ends has read of the row
    runs,       \* the runs, as records of their call and whether they are over
    finished,   \* history: the minutes whose kb_sync was counted
    crossed,    \* history: two kb_syncs were counted at once
    late,       \* history: a scan put a job in after its minute was over
    lost,       \* history: a job was given up after its first try
    deaths, faults, scans

rowVars   == <<life, shown, lastRun, count>>
queueVars == <<job, tries>>
history   == <<finished, crossed, late, lost>>
bounds    == <<deaths, faults, scans>>
vars == <<kind, rowVars, clock, scan, queueVars, at, read, runs, history, bounds>>

Init ==
    /\ kind \in {"cron", "webhook", "kb_sync"}
    /\ life = "active" /\ shown = "none" /\ lastRun = 0 /\ count = 0
    /\ clock = 1 /\ scan = 0
    /\ job = [s \in Slots |-> "none"] /\ tries = [s \in Slots |-> 0]
    /\ at = [c \in Calls |-> "idle"] /\ read = [c \in Calls |-> 0]
    /\ runs = <<>>
    /\ finished = {} /\ crossed = FALSE /\ late = FALSE /\ lost = FALSE
    /\ deaths = 0 /\ faults = 0 /\ scans = 0

Exists == life # "deleted"
Fault == faults < MaxFaults /\ faults' = faults + 1 /\ UNCHANGED <<deaths, scans>>
Goes(c, place) == at' = [at EXCEPT ![c] = place]

(* A call is over, and with it the job of its minute. *)
Returns(c) ==
    /\ Goes(c, "idle")
    /\ job' = IF c \in Slots THEN [job EXCEPT ![c] = "done"] ELSE job
    /\ UNCHANGED tries

(* An UPDATE of the row; a deleted row is not found. *)
Shows(status, run) ==
    IF Exists THEN shown' = status /\ lastRun' = run ELSE UNCHANGED <<shown, lastRun>>

-----------------------------------------------------------------------------
(* The clock, the owner, and scan_triggers. *)

Minute ==
    /\ clock < Minutes
    /\ clock' = clock + 1
    /\ UNCHANGED <<kind, rowVars, scan, queueVars, at, read, runs, history, bounds>>

(* The owner's PUT and DELETE. *)
OwnerEdits ==
    /\ \/ life = "active" /\ life' \in {"inactive", "deleted"}
       \/ life = "inactive" /\ life' = "active" /\ scans < MaxScans
    /\ UNCHANGED <<kind, shown, lastRun, count, clock, scan, queueVars, at, read, runs,
                   history, bounds>>

(* A scan, of any worker, late or not, reads the clock and the triggers. *)
ScanReads ==
    /\ scan = 0 /\ scans < MaxScans /\ scans' = scans + 1
    /\ kind \in {"cron", "kb_sync"} /\ life = "active"
    /\ scan' = clock
    /\ UNCHANGED <<kind, rowVars, clock, queueVars, at, read, runs, history, deaths, faults>>

(* Whether enqueue_job finds the id free: no job, and no result kept. *)
IdIsFreeAlways(s) == TRUE
IdIsFree(s) == job[s] \in {"none", "gone"}

ScanEnqueues ==
    /\ scan # 0
    /\ scan' = 0
    /\ IF IdIsFree(scan)
       THEN /\ job' = [job EXCEPT ![scan] = "queued"] /\ tries' = [tries EXCEPT ![scan] = 0]
            /\ late' = (late \/ job[scan] = "gone")
       ELSE UNCHANGED <<queueVars, late>>
    /\ UNCHANGED <<kind, rowVars, clock, at, read, runs, finished, crossed, lost, bounds>>

(* It is logged; the minute is lost unless another scan finds it. *)
ScanRaises ==
    /\ scan # 0 /\ scan' = 0
    /\ Fault
    /\ UNCHANGED <<kind, rowVars, clock, queueVars, at, read, runs, history>>

-----------------------------------------------------------------------------
(* ARQ: results are kept for 60 seconds; a job whose worker died or was     *)
(* stopped is queued again.                                                *)

ResultExpires(s) ==
    /\ job[s] = "done" /\ clock > s
    /\ job' = [job EXCEPT ![s] = "gone"]
    /\ UNCHANGED <<kind, rowVars, clock, scan, tries, at, read, runs, history, bounds>>

JobStarts(s) ==
    /\ job[s] = "queued"
    /\ IF tries[s] < MaxTries
       THEN /\ tries' = [tries EXCEPT ![s] = @ + 1]
            /\ job' = [job EXCEPT ![s] = "active"]
            /\ Goes(s, IF kind = "kb_sync" THEN "begin" ELSE "check")
            /\ UNCHANGED lost
       ELSE job' = [job EXCEPT ![s] = "done"] /\ lost' = TRUE /\ UNCHANGED <<tries, at>>
    /\ UNCHANGED <<kind, rowVars, clock, scan, read, runs, finished, crossed, late, bounds>>

JobDies(s) ==
    /\ job[s] = "active"
    /\ deaths < MaxDeaths /\ deaths' = deaths + 1
    /\ job' = [job EXCEPT ![s] = "queued"]
    /\ Goes(s, "idle")
    /\ UNCHANGED <<kind, rowVars, clock, scan, tries, read, runs, history, faults, scans>>

-----------------------------------------------------------------------------
(* execute_trigger, execute_webhook_trigger and _do_execute_trigger. *)

Checks(s) ==
    /\ at[s] = "check"
    /\ IF life = "active" THEN Goes(s, "create") /\ UNCHANGED queueVars ELSE Returns(s)
    /\ UNCHANGED <<kind, rowVars, clock, scan, read, runs, history, bounds>>

WebhookCalled(q) ==
    /\ at[q] = "idle" /\ \A r \in 1 .. Len(runs) : runs[r].call # q
    /\ kind = "webhook" /\ life = "active"
    /\ Goes(q, "create")
    /\ UNCHANGED <<kind, rowVars, clock, scan, queueVars, read, runs, history, bounds>>

(* create_conversation and create_run: the run is stored and in its queue. *)
Creates(c) ==
    /\ at[c] = "create"
    /\ runs' = Append(runs, [call |-> c, over |-> FALSE])
    /\ read' = [read EXCEPT ![c] = Len(runs')]
    /\ Goes(c, "mark")
    /\ UNCHANGED <<kind, rowVars, clock, scan, queueVars, history, bounds>>

MarksRunning(c) ==
    /\ at[c] = "mark"
    /\ Shows("running", read[c])
    /\ Returns(c)
    /\ UNCHANGED <<kind, life, count, clock, scan, read, runs, history, bounds>>

(* create_run refuses, or a call raises, before or after the run exists:    *)
(* mark_finished writes "failed" without a run, unless it raises as well.  *)
ExecutionFails(c) ==
    /\ at[c] \in {"create", "mark"}
    /\ Fault
    /\ Shows("failed", lastRun) \/ UNCHANGED <<shown, lastRun>>
    /\ Returns(c)
    /\ UNCHANGED <<kind, life, count, clock, scan, read, runs, history>>

(* What create_run stores in input_payload: of meta only the attachments,   *)
(* use_knowledge, the source and the evaluation.                           *)
PayloadKeys == {"query", "resume", "parent_run_id", "resume_request_id", "run_type", "config",
                "image_content", "model_spec", "agent_id", "backend_id", "thread_id", "uid",
                "request_id", "attachment_file_ids", "use_knowledge", "source", "evaluation",
                "created_at"}

(* A run ends; the hook of mark_run_terminal looks for its trigger. *)
RunEnds(r) ==
    /\ ~runs[r].over
    /\ runs' = [runs EXCEPT ![r].over = TRUE]
    /\ IF "trigger_id" \in PayloadKeys /\ Exists /\ lastRun = r
       THEN shown' \in {"completed", "failed"} /\ count' = count + 1
       ELSE UNCHANGED <<shown, count>>
    /\ UNCHANGED <<kind, life, lastRun, clock, scan, queueVars, at, read, history, bounds>>

-----------------------------------------------------------------------------
(* execute_kb_sync. *)

SyncBegins(s) ==
    /\ at[s] = "begin"
    /\ IF life = "active"
       THEN Shows("running", 0) /\ Goes(s, "sync") /\ UNCHANGED <<queueVars, lost>>
       ELSE Returns(s) /\ lost' = (lost \/ tries[s] > 1) /\ UNCHANGED <<shown, lastRun>>
    /\ UNCHANGED <<kind, life, count, clock, scan, read, runs, finished, crossed, late, bounds>>

(* _finish in a session of its own: the row is read ... *)
SyncReads(s) ==
    /\ at[s] = "sync"
    /\ IF Exists THEN /\ read' = [read EXCEPT ![s] = count]
                      /\ Goes(s, "finish") /\ UNCHANGED queueVars
                 ELSE Returns(s) /\ UNCHANGED read
    /\ UNCHANGED <<kind, rowVars, clock, scan, runs, history, bounds>>

NextCountStale(s) == count
NextCount(s) == read[s] + 1

StatusKept(s) == {"running"}
SyncStatus(s) == {"completed", "failed"}

(* ... and written with the count that was read. *)
SyncEnds(s) ==
    /\ at[s] = "finish"
    /\ IF Exists
       THEN /\ shown' \in SyncStatus(s) /\ count' = NextCount(s)
            /\ finished' = finished \cup {s}
            /\ crossed' = (crossed \/ \E u \in Slots \ {s} : at[u] = "finish")
       ELSE UNCHANGED <<shown, count, finished, crossed>>
    /\ Returns(s)
    /\ UNCHANGED <<kind, life, lastRun, clock, scan, read, runs, late, lost, bounds>>

(* A database call of execute_kb_sync raises, or the job's timeout cancels  *)
(* it: the job has failed.                                                 *)
SyncRaises(s) ==
    /\ at[s] \in {"begin", "sync", "finish"}
    /\ Fault /\ Returns(s)
    /\ UNCHANGED <<kind, rowVars, clock, scan, read, runs, history>>

-----------------------------------------------------------------------------
JobSteps(s) ==
    \/ JobStarts(s) \/ Checks(s) \/ Creates(s) \/ MarksRunning(s)
    \/ SyncBegins(s) \/ SyncReads(s) \/ SyncEnds(s)

Next ==
    \/ Minute \/ OwnerEdits \/ ScanReads \/ ScanEnqueues \/ ScanRaises
    \/ \E s \in Slots : JobSteps(s) \/ ResultExpires(s) \/ JobDies(s) \/ ExecutionFails(s)
                            \/ SyncRaises(s)
    \/ \E q \in Requests : WebhookCalled(q) \/ Creates(q) \/ MarksRunning(q) \/ ExecutionFails(q)
    \/ \E r \in 1 .. Len(runs) : RunEnds(r)

Spec == Init /\ [][Next]_vars

(* The worker takes the jobs of its queue and goes on with each of them. *)
FairSpec == Spec /\ \A s \in Slots : WF_vars(JobSteps(s))

-----------------------------------------------------------------------------
(* Properties. *)

RunsOf(c) == {r \in 1 .. Len(runs) : runs[r].call = c}

(* "The same (trigger, scheduled time) is enqueued once" (scan_triggers):   *)
(* however many scans and workers there are, late or not, a due minute      *)
(* starts one run, unless a worker died in its job, which then starts over *)
(* with a new run, or a scan was so late that the result was forgotten.    *)
OneRunPerSlot ==
    \A s \in Slots : Cardinality(RunsOf(s)) > 1 => deaths > 0 \/ late

AtRest ==
    /\ scan = 0 /\ \A c \in Calls : at[c] = "idle"
    /\ \A s \in Slots : job[s] \notin {"queued", "active"}

(* A kb_sync trigger counts the minutes it has synchronised, once each,     *)
(* unless two of its ends crossed (the count is read and written back), a   *)
(* worker died between the count and the end of the job, or a scan was so   *)
(* late that the minute was done again.                                    *)
CountedOnce ==
    kind = "kb_sync" /\ Exists /\ ~crossed /\ deaths = 0 /\ ~late =>
        count = Cardinality(finished)

(* A kb_sync trigger does not stay "running": the row shows an end at last, *)
(* whichever syncs overlap and whichever try is killed, unless a job was    *)
(* given up after a killed try (its tries were used up, or the owner had   *)
(* deactivated the trigger), or a call of the job raised or timed out.     *)
SyncSettles ==
    (kind = "kb_sync" /\ Exists /\ shown = "running") ~>
        (shown # "running" \/ ~Exists \/ lost \/ faults > 0)

(* "The status is pushed by the hook of mark_run_terminal" (service.py):    *)
(* when nothing is at work and the trigger's last run is over, the row      *)
(* does not show it as running.                                            *)
EndIsShown == AtRest /\ Exists /\ lastRun # 0 /\ runs[lastRun].over => shown # "running"
=============================================================================
