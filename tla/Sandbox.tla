------------------------------- MODULE Sandbox -------------------------------
(***************************************************************************)
(* One sandbox of a thread: the container the provisioner keeps for it,    *)
(* the idle reaper that deletes it, and the processes (API, worker) whose  *)
(* provider caches its address.  The sandbox's id is a hash of user and    *)
(* thread, so every process means the same container.                      *)
(*                                                                         *)
(* Time is relative: every age is reset by the event it counts from, grows *)
(* with Tick and stops at the largest value the code compares it with, so  *)
(* a behaviour of any length has finitely many states.                     *)
(***************************************************************************)
EXTENDS Integers, FiniteSets

CONSTANTS Callers,         \* threads that run commands in the sandbox
          Processes,       \* the processes they run in, one provider each
          ProcessOf,       \* Callers -> Processes
          Api,             \* the process whose lifespan releases sandboxes
          ConfiguredIdle,  \* SANDBOX_IDLE_TIMEOUT_SECONDS, in ticks
          Exec,            \* SANDBOX_EXEC_TIMEOUT_SECONDS
          Margin,          \* what the reaper adds to Exec: 30 seconds
          Interval,        \* SANDBOX_KEEPALIVE_INTERVAL_SECONDS
          Latency,         \* the client's timeout for one request
          MaxFaults        \* bound on failing calls, crashes and restarts

ASSUME SandboxAssumption ==
    /\ ProcessOf \in [Callers -> Processes]
    /\ Api \in Processes
    /\ {ConfiguredIdle, Exec, Interval, Latency} \subseteq Nat \ {0}
    /\ Margin \in Nat
    /\ MaxFaults \in Nat

(* A configured timeout that a command could outlive is raised. *)
Idle == IF ConfiguredIdle <= Exec THEN Exec + Margin ELSE ConfiguredIdle

Untracked == -1

VARIABLES container,  \* "none", "unready" (booting or broken) or "ready"
          activity,   \* age of the reaper's last_activity_at, or Untracked
          reaper,     \* the reaper's place in its loop
          server,     \* each caller's request at the provisioner
          record,     \* the address in a create request's answer
          phase,      \* each caller's place in get() and execute()
          age,        \* age of its request, or of its command
          address,    \* each provider's cached connection
          since,      \* age of its last_touch_at, up to Interval
          release,    \* the API's delete request when it shuts down
          faults,     \* failing calls, crashes and restarts so far
          cause       \* why the container is untracked, for the properties

provisionerVars == <<container, activity, reaper, server, record, cause>>
clientVars == <<phase, age, address, since>>
vars == <<provisionerVars, clientVars, release, faults>>

Running == {"run", "blind"}     \* blind: after a touch that raised
Waiting == {"touch", "create"}
Addresses == {"none", "live", "dead"}

Least(a, b) == IF a <= b THEN a ELSE b

TypeOK ==
    /\ container \in {"none", "unready", "ready"}
    /\ activity \in Untracked..Idle
    /\ reaper \in {"wait", "delete", "forget"}
    /\ server \in [Callers -> {"none", "look", "mark", "queue", "wait",
                               "boot", "made", "ok", "gone", "error"}]
    /\ record \in [Callers -> Addresses]
    /\ phase \in [Callers -> {"rest"} \union Waiting \union Running]
    /\ age \in [Callers -> Nat]
    /\ \A c \in Callers : /\ phase[c] \in Running => age[c] <= Exec
                          /\ phase[c] \in Waiting => age[c] <= Latency
    /\ address \in [Processes -> Addresses]
    /\ since \in [Processes -> 0..Interval]
    /\ release \in {"no", "delete", "forget"}
    /\ faults \in 0..MaxFaults
    /\ cause \in {"no", "boot", "forget", "seed"}

Init ==
    /\ container = "none" /\ activity = Untracked /\ reaper = "wait"
    /\ server = [c \in Callers |-> "none"]
    /\ record = [c \in Callers |-> "none"]
    /\ phase = [c \in Callers |-> "rest"]
    /\ age = [c \in Callers |-> 0]
    /\ address = [p \in Processes |-> "none"]
    /\ since = [p \in Processes |-> 0]
    /\ release = "no" /\ faults = 0 /\ cause = "no"

Fault == faults < MaxFaults /\ faults' = faults + 1

Dead(a) == IF a = "live" THEN "dead" ELSE a

CommandsFail ==
    /\ phase' = [c \in Callers |-> IF phase[c] \in Running THEN "rest"
                                   ELSE phase[c]]
    /\ age' = [c \in Callers |-> IF phase[c] \in Running THEN 0 ELSE age[c]]

(* The container goes, and with it the commands in it.  The next one gets  *)
(* another host port: the addresses that were its are dead for good.       *)
Lose ==
    /\ address' = [p \in Processes |-> Dead(address[p])]
    /\ record' = [c \in Callers |-> Dead(record[c])]
    /\ CommandsFail
    /\ cause' = "no"

(* SandboxIdleReaper.touch and forget *)
MarkActive == activity' = 0 /\ cause' = "no"
Forget ==
    /\ activity' = Untracked
    /\ cause' = IF container = "none" THEN "no" ELSE "forget"

-----------------------------------------------------------------------------
(* The provider's get() and the command that follows it                    *)

LockFree(p) ==
    \A d \in Callers : ProcessOf[d] = p => phase[d] \notin Waiting

ShouldTouch(p) == since[p] >= Interval

Ask(c, request, step) ==
    /\ phase' = [phase EXCEPT ![c] = request]
    /\ age' = [age EXCEPT ![c] = 0]
    /\ server' = [server EXCEPT ![c] = step]

(* A command on an address without a ready container fails at once.        *)
Use(c, how, a) ==
    /\ phase' = [phase EXCEPT ![c] =
                     IF a = "live" /\ container = "ready" THEN how ELSE "rest"]
    /\ age' = [age EXCEPT ![c] = 0]

Enters(c) ==
    /\ phase[c] = "rest" /\ server[c] = "none"
    /\ LockFree(ProcessOf[c])

GetCached(c) ==
    LET p == ProcessOf[c] IN
    /\ Enters(c)
    /\ address[p] # "none" /\ ~ShouldTouch(p)
    /\ Use(c, "run", address[p])
    /\ UNCHANGED <<provisionerVars, address, since, release, faults>>

GetTouches(c) ==
    LET p == ProcessOf[c] IN
    /\ Enters(c)
    /\ address[p] # "none" /\ ShouldTouch(p)
    /\ Ask(c, "touch", "look")
    /\ UNCHANGED <<container, activity, reaper, record, cause,
                   address, since, release, faults>>

GetCreates(c) ==
    /\ Enters(c)
    /\ address[ProcessOf[c]] = "none"
    /\ Ask(c, "create", "queue")
    /\ UNCHANGED <<container, activity, reaper, record, cause,
                   address, since, release, faults>>

Answered(c, request, answer) == phase[c] = request /\ server[c] = answer

(* The touch found the sandbox: the cached connection is returned. *)
TouchAlive(c) ==
    LET p == ProcessOf[c] IN
    /\ Answered(c, "touch", "ok")
    /\ Use(c, "run", address[p])
    /\ since' = [since EXCEPT ![p] = 0]
    /\ server' = [server EXCEPT ![c] = "none"]
    /\ UNCHANGED <<container, activity, reaper, record, cause, address,
                   release, faults>>

(* 404: the connection is dropped and the sandbox created, same lock. *)
TouchGone(c) ==
    LET p == ProcessOf[c] IN
    /\ Answered(c, "touch", "gone")
    /\ address' = [address EXCEPT ![p] = "none"]
    /\ since' = [since EXCEPT ![p] = 0]
    /\ Ask(c, "create", "queue")
    /\ UNCHANGED <<container, activity, reaper, record, cause,
                   release, faults>>

TimedOut(c) == age[c] = Latency

(* A touch that raises is logged and the cached connection returned; its   *)
(* last_touch_at is not moved.                                             *)
TouchRaises(c) ==
    /\ phase[c] = "touch" /\ (server[c] = "error" \/ TimedOut(c))
    /\ Use(c, "blind", address[ProcessOf[c]])
    /\ server' = [server EXCEPT ![c] = IF @ = "error" THEN "none" ELSE @]
    /\ UNCHANGED <<container, activity, reaper, record, cause,
                   address, since, release, faults>>

CreateDone(c) ==
    LET p == ProcessOf[c] IN
    /\ Answered(c, "create", "ok")
    /\ address' = [address EXCEPT ![p] = record[c]]
    /\ since' = [since EXCEPT ![p] = 0]
    /\ Use(c, "run", record[c])
    /\ server' = [server EXCEPT ![c] = "none"]
    /\ record' = [record EXCEPT ![c] = "none"]
    /\ UNCHANGED <<container, activity, reaper, cause, release, faults>>

(* create() is outside get()'s try: the command fails with its error. *)
CreateRaises(c) ==
    /\ phase[c] = "create" /\ (server[c] = "error" \/ TimedOut(c))
    /\ phase' = [phase EXCEPT ![c] = "rest"]
    /\ age' = [age EXCEPT ![c] = 0]
    /\ server' = [server EXCEPT ![c] = IF @ = "error" THEN "none" ELSE @]
    /\ UNCHANGED <<container, activity, reaper, record, cause,
                   address, since, release, faults>>

(* The provisioner's answer to a request that was given up goes nowhere. *)
AnswerDropped(c) ==
    /\ phase[c] \notin Waiting /\ server[c] \in {"ok", "gone", "error"}
    /\ server' = [server EXCEPT ![c] = "none"]
    /\ record' = [record EXCEPT ![c] = "none"]
    /\ UNCHANGED <<container, activity, reaper, cause, clientVars,
                   release, faults>>

CommandEnds(c) ==
    /\ phase[c] \in Running
    /\ phase' = [phase EXCEPT ![c] = "rest"]
    /\ age' = [age EXCEPT ![c] = 0]
    /\ UNCHANGED <<provisionerVars, address, since, release, faults>>

-----------------------------------------------------------------------------
(* The provisioner's routes                                                *)

Serve(c, step) == server' = [server EXCEPT ![c] = step]

(* touch_sandbox: discover(), without the backend's lock *)
Discover(c) ==
    /\ server[c] = "look"
    /\ Serve(c, IF container = "ready" THEN "mark" ELSE "gone")
    /\ UNCHANGED <<container, activity, reaper, record, cause, clientVars,
                   release, faults>>

(* Docker does not answer: 500. *)
DiscoverRaises(c) ==
    /\ server[c] = "look" /\ Fault
    /\ Serve(c, "error")
    /\ UNCHANGED <<container, activity, reaper, record, cause, clientVars,
                   release>>

TouchMarksNothing(c) ==
    /\ server[c] = "mark"
    /\ Serve(c, "ok")
    /\ UNCHANGED <<container, activity, reaper, record, cause, clientVars,
                   release, faults>>

TouchMarks(c) ==
    /\ server[c] = "mark"
    /\ MarkActive
    /\ Serve(c, "ok")
    /\ UNCHANGED <<container, reaper, record, clientVars, release, faults>>

Creating == {"wait", "boot"}
BackendLockFreeAlways == TRUE
BackendLockFree == \A d \in Callers : server[d] \notin Creating

(* A running, healthy container is reused. *)
CreateReuses(c) ==
    /\ server[c] = "queue" /\ BackendLockFree
    /\ container = "ready"
    /\ Serve(c, "made")
    /\ record' = [record EXCEPT ![c] = "live"]
    /\ UNCHANGED <<container, activity, reaper, cause, clientVars,
                   release, faults>>

(* One that runs and is not ready yet is waited for. *)
CreateWaits(c) ==
    /\ server[c] = "queue" /\ BackendLockFree
    /\ container = "unready"
    /\ Serve(c, "wait")
    /\ UNCHANGED <<container, activity, reaper, record, cause, clientVars,
                   release, faults>>

(* Otherwise what is left of it is removed and a new one started; the      *)
(* second disjunct: the wait for an existing one was given up.             *)
CreateStarts(c) ==
    /\ \/ server[c] = "queue" /\ BackendLockFree /\ container # "ready"
       \/ server[c] = "wait" /\ container # "ready"
    /\ container' = "unready"
    /\ Lose
    /\ Serve(c, "boot")
    /\ UNCHANGED <<activity, reaper, since, release, faults>>

CreateReady(c) ==
    /\ server[c] \in Creating /\ container = "ready"
    /\ Serve(c, "made")
    /\ record' = [record EXCEPT ![c] = "live"]
    /\ UNCHANGED <<container, activity, reaper, cause, clientVars,
                   release, faults>>

(* Deleted meanwhile, or not ready in time: 500, and what there is of the  *)
(* container stays.                                                        *)
CreateFails(c) ==
    /\ server[c] = "boot" /\ container # "ready"
    /\ IF container = "none" THEN UNCHANGED faults ELSE Fault
    /\ Serve(c, "error")
    /\ cause' = IF container # "none" /\ activity = Untracked
                THEN "boot" ELSE cause
    /\ UNCHANGED <<container, activity, reaper, record, clientVars, release>>

CreateMarksNothing(c) ==
    /\ server[c] = "made"
    /\ Serve(c, "ok")
    /\ UNCHANGED <<container, activity, reaper, record, cause, clientVars,
                   release, faults>>

CreateMarks(c) ==
    /\ server[c] = "made"
    /\ MarkActive
    /\ Serve(c, "ok")
    /\ UNCHANGED <<container, reaper, record, clientVars, release, faults>>

ContainerReady ==
    /\ container = "unready"
    /\ container' = "ready"
    /\ UNCHANGED <<activity, reaper, server, record, cause, clientVars,
                   release, faults>>

ContainerBreaks ==
    /\ container = "ready" /\ Fault
    /\ container' = "unready"
    /\ CommandsFail
    /\ UNCHANGED <<activity, reaper, server, record, cause, address, since,
                   release>>

-----------------------------------------------------------------------------
(* The idle reaper: collect, then delete, then forget                      *)

Expired == activity # Untracked /\ activity >= Idle

ReaperCollectsUnheld ==
    /\ reaper = "wait" /\ Expired
    /\ \A p \in Processes : address[p] = "none"
    /\ reaper' = "delete"
    /\ UNCHANGED <<container, activity, server, record, cause, clientVars,
                   release, faults>>

ReaperCollects ==
    /\ reaper = "wait" /\ Expired
    /\ reaper' = "delete"
    /\ UNCHANGED <<container, activity, server, record, cause, clientVars,
                   release, faults>>

Delete ==
    /\ container' = "none"
    /\ Lose

ReaperDeletes ==
    /\ reaper = "delete"
    /\ Delete
    /\ reaper' = "forget"
    /\ UNCHANGED <<activity, server, since, release, faults>>

ReaperDeleteRaises ==
    /\ reaper = "delete" /\ Fault
    /\ reaper' = "wait"
    /\ UNCHANGED <<container, activity, server, record, cause, clientVars,
                   release>>

ReaperForgets ==
    /\ reaper = "forget"
    /\ Forget
    /\ reaper' = "wait"
    /\ UNCHANGED <<container, server, record, clientVars, release, faults>>

-----------------------------------------------------------------------------
(* Shutdowns and restarts                                                  *)

(* The API's lifespan ends when its requests are over; its provider drops  *)
(* its connections and asks for the deletion of each.                      *)
ApiShutsDown ==
    /\ release = "no" /\ Fault
    /\ \A c \in Callers : ProcessOf[c] = Api => phase[c] = "rest"
    /\ address[Api] # "none"
    /\ address' = [address EXCEPT ![Api] = "none"]
    /\ since' = [since EXCEPT ![Api] = 0]
    /\ release' = "delete"
    /\ UNCHANGED <<provisionerVars, phase, age>>

(* delete_sandbox *)
ReleaseDeletes ==
    /\ release = "delete"
    /\ Delete
    /\ release' = "forget"
    /\ UNCHANGED <<activity, reaper, server, since, faults>>

(* Logged and left; the shutdown was counted already. *)
ReleaseRaises ==
    /\ release = "delete"
    /\ release' = "no"
    /\ UNCHANGED <<provisionerVars, clientVars, faults>>

ReleaseForgets ==
    /\ release = "forget"
    /\ Forget
    /\ release' = "no"
    /\ UNCHANGED <<container, reaper, server, record, clientVars, faults>>

(* A process is killed: its cache and its callers are gone, what it asked  *)
(* the provisioner for goes on.                                            *)
ProcessDies(p) ==
    /\ Fault
    /\ address' = [address EXCEPT ![p] = "none"]
    /\ since' = [since EXCEPT ![p] = 0]
    /\ phase' = [c \in Callers |-> IF ProcessOf[c] = p THEN "rest"
                                   ELSE phase[c]]
    /\ age' = [c \in Callers |-> IF ProcessOf[c] = p THEN 0 ELSE age[c]]
    /\ UNCHANGED <<provisionerVars, release>>

(* The provisioner restarts: requests end, and start() takes the           *)
(* containers it finds as active now, or none when listing them fails.     *)
ProvisionerRestarts ==
    /\ Fault
    /\ reaper' = "wait" /\ release' = "no"
    /\ server' = [c \in Callers |-> IF server[c] = "none" THEN "none"
                                    ELSE "error"]
    /\ record' = [c \in Callers |-> "none"]
    /\ \/ activity' = (IF container = "none" THEN Untracked ELSE 0)
          /\ cause' = "no"
       \/ activity' = Untracked
          /\ cause' = IF container = "none" THEN "no" ELSE "seed"
    /\ UNCHANGED <<container, clientVars>>

-----------------------------------------------------------------------------
(* No command outlives Exec and no request is waited for beyond Latency.   *)
Tick ==
    /\ \A c \in Callers : /\ phase[c] \in Running => age[c] < Exec
                          /\ phase[c] \in Waiting => age[c] < Latency
    /\ activity' = IF activity = Untracked THEN Untracked
                   ELSE Least(activity + 1, Idle)
    /\ age' = [c \in Callers |-> IF phase[c] = "rest" THEN age[c]
                                 ELSE age[c] + 1]
    /\ since' = [p \in Processes |-> IF address[p] = "none" THEN since[p]
                                     ELSE Least(since[p] + 1, Interval)]
    /\ UNCHANGED <<container, reaper, server, record, cause, phase, address,
                   release, faults>>

Get(c) == GetCached(c) \/ GetTouches(c) \/ GetCreates(c)

Returns(c) ==
    \/ TouchAlive(c) \/ TouchGone(c) \/ TouchRaises(c)
    \/ CreateDone(c) \/ CreateRaises(c) \/ AnswerDropped(c)

Provisions(c) ==
    \/ Discover(c) \/ TouchMarks(c) \/ CreateMarks(c)
    \/ CreateReuses(c) \/ CreateWaits(c) \/ CreateStarts(c)
    \/ CreateReady(c) \/ CreateFails(c)

Reaps == ReaperCollects \/ ReaperDeletes \/ ReaperForgets

Failure ==
    \/ \E c \in Callers : DiscoverRaises(c)
    \/ \E p \in Processes : ProcessDies(p)
    \/ ContainerBreaks \/ ReaperDeleteRaises \/ ReleaseRaises
    \/ ProvisionerRestarts

Next ==
    \/ \E c \in Callers : \/ Get(c) \/ Returns(c) \/ CommandEnds(c)
                          \/ Provisions(c)
    \/ Reaps \/ ContainerReady
    \/ ApiShutsDown \/ ReleaseDeletes \/ ReleaseForgets
    \/ Failure
    \/ Tick

(* The clock, the reaper's thread and the provisioner's threads go on;     *)
(* nobody has to call.                                                     *)
Fairness ==
    /\ WF_vars(Tick) /\ WF_vars(Reaps) /\ WF_vars(ContainerReady)
    /\ WF_vars(ReleaseDeletes) /\ WF_vars(ReleaseForgets)
    /\ \A c \in Callers : /\ WF_vars(Returns(c)) /\ WF_vars(CommandEnds(c))
                          /\ WF_vars(Provisions(c))

Spec == Init /\ [][Next]_vars
FairSpec == Spec /\ Fairness

-----------------------------------------------------------------------------
(* What the sandbox promises                                               *)

(* The locks: a process has one get() at work, the provisioner one create. *)
Locked ==
    /\ \A c, d \in Callers :
           /\ phase[c] \in Waiting /\ phase[d] \in Waiting
           /\ ProcessOf[c] = ProcessOf[d]
           => c = d
    /\ \A c, d \in Callers :
           server[c] \in Creating /\ server[d] \in Creating => c = d

(* How old the reaper's mark can be: as old as an answer not yet read, as  *)
(* an address plus one request, or as a command plus the time its address  *)
(* may go without a keep-alive.                                            *)
NotOlderThan(bound) == activity # Untracked => activity <= bound
ActivityBound ==
    /\ \A c \in Callers :
           /\ phase[c] = "touch" /\ server[c] = "ok"
                  /\ address[ProcessOf[c]] = "live" => NotOlderThan(age[c])
           /\ phase[c] = "create" /\ server[c] = "ok" /\ record[c] = "live"
                  => NotOlderThan(age[c])
           /\ phase[c] = "run"
                  => NotOlderThan(Latency + Interval - 1 + age[c])
    /\ \A p \in Processes :
           address[p] = "live" /\ since[p] < Interval
               => NotOlderThan(Latency + since[p])

SandboxInvariant == TypeOK /\ Locked /\ ActivityBound

(* The reaper deletes no container under a running command, unless the     *)
(* container was marked active after the reaper collected it, or the       *)
(* command was let through by a keep-alive that raised.                    *)
ReapsOnlyIdle ==
    [][ReaperDeletes /\ (\E c \in Callers : phase[c] = "run")
           => activity < Idle]_vars

(* A container the reaper does not know of, and would never delete, is one *)
(* being created, one whose creation failed, one created between a         *)
(* deletion and its forget, or one from before a restart that could not    *)
(* list it.                                                                *)
Tracked ==
    container # "none" /\ activity = Untracked =>
        \/ cause # "no"
        \/ \E c \in Callers : server[c] \in Creating \union {"made"}

(* Once nobody uses it any more, the sandbox is deleted, or was lost sight *)
(* of as Tracked says.                                                     *)
Quiet == \A c \in Callers : phase[c] = "rest"
IdleIsReaped ==
    <>[]Quiet => <>[](container = "none" \/ activity = Untracked)

(* A keep-alive that is answered "alive" means that the address the        *)
(* process holds can be reached.                                           *)
AliveMeansReachable ==
    [][\A c \in Callers : TouchAlive(c) /\ container = "ready"
           => address[ProcessOf[c]] = "live"]_vars
=============================================================================
