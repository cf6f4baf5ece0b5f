------------------------- MODULE SubagentRunProofs --------------------------
(* Proofs about SubagentRun for any number of parents, slots, tries,        *)
(* cancellations and mishaps.                                              *)
EXTENDS SubagentRun, TLAPS

-----------------------------------------------------------------------------
(* The inductive invariant, call by call.                                  *)

(* The job of a call is made after its child's row and before any try, and  *)
(* only by the attempt of the parent that made the row.                    *)
JobAfterRow(p) ==
    /\ child[p] = "absent" => job[p] = "none"
    /\ parent[p] = "enqueue" => job[p] = "none" /\ child[p] \in Active
    /\ job[p] = "none" => tries[p] = 0

(* A worker lets its job go when the child is over, or with a try to spare. *)
WorkerEndsIt(p) ==
    /\ worker[p] = "close" => child[p] \in Terminal
    /\ worker[p] = "retry" => tries[p] < MaxTries
    /\ job[p] = "queued" => tries[p] < MaxTries \/ p \in harmed

(* A parent turns away from an active child only with a signal left behind *)
(* or in one of the mishaps; one that starts over was hit before.          *)
SignalStays(p) ==
    /\ parent[p] \in {"queued", "thinking"} /\ child[p] \in Active => p \in harmed
    /\ parent[p] \notin {"enqueue", "waiting"} /\ child[p] \in Active
           => key[p] \/ p \in gone \cup harmed

Told(p) == answer[p] \notin {"none", "timeout"} => child[p] = answer[p]
Carried(p) == Stranded(p) => p \in harmed

CallInvariant(p) == JobAfterRow(p) /\ WorkerEndsIt(p) /\ SignalStays(p) /\ Told(p) /\ Carried(p)

DelegationInvariant == TypeOK /\ \A p \in Parents : CallInvariant(p)

-----------------------------------------------------------------------------
USE DEF parentVars, childVars

(* What the steps of a call leave alone: the other calls. *)
OthersKept(p) ==
    \A q \in Parents \ {p} :
        /\ parent'[q] = parent[q] /\ answer'[q] = answer[q] /\ child'[q] = child[q]
        /\ job'[q] = job[q] /\ tries'[q] = tries[q] /\ key'[q] = key[q]
        /\ worker'[q] = worker[q]
        /\ (q \in gone => q \in gone') /\ (q \in harmed => q \in harmed')

(* A step of one call keeps the invariant of the others. *)
LEMMA OthersKeepTheirs ==
    ASSUME NEW p \in Parents, OthersKept(p), NEW q \in Parents \ {p}, CallInvariant(q)
    PROVE  CallInvariant(q)'
  BY DEF OthersKept, CallInvariant, JobAfterRow, WorkerEndsIt, SignalStays, Told, Carried,
     Stranded

(* Every step of a call keeps the types and the other calls. *)
LEMMA TypeStep ==
    ASSUME TypeOK, NEW p \in Parents, CallInvariant(p),
           ParentSteps(p) \/ ChildSteps(p) \/ ChildEnds(p) \/ Environment(p)
    PROVE  TypeOK' /\ OthersKept(p)
<1> USE MaxTriesAssumption, BoundsAssumption
        DEF TypeOK, OthersKept, Running, Finished, Terminal, Active, Bounds
<1>1. ASSUME ParentStarts(p) PROVE TypeOK' /\ OthersKept(p)
  BY <1>1 DEF ParentStarts, To
<1>2. ASSUME ParentCalls(p) PROVE TypeOK' /\ OthersKept(p)
  BY <1>2 DEF ParentCalls, To
<1>3. ASSUME ParentAnswersAlone(p) PROVE TypeOK' /\ OthersKept(p)
  BY <1>3 DEF ParentAnswersAlone, To
<1>4. ASSUME ParentEnqueues(p) PROVE TypeOK' /\ OthersKept(p)
  BY <1>4 DEF ParentEnqueues, To, CallInvariant, JobAfterRow
<1>5. ASSUME EnqueueFails(p) PROVE TypeOK' /\ OthersKept(p)
  BY <1>5 DEF EnqueueFails, To, OnEnqueueError, SetTerminal
<1>6. ASSUME ParentPolls(p) PROVE TypeOK' /\ OthersKept(p)
  BY <1>6 DEF ParentPolls, To, Over
<1>7. ASSUME ParentFinishes(p) PROVE TypeOK' /\ OthersKept(p)
  BY <1>7 DEF ParentFinishes, To
<1>8. ASSUME ParentIsCancelled(p) PROVE TypeOK' /\ OthersKept(p)
  <2>1. /\ \E where \in {"cascaded", "cancelled"} : parent' = [parent EXCEPT ![p] = where]
        /\ key' \in {key, [key EXCEPT ![p] = TRUE]}
        /\ harmed' \in {harmed, harmed \cup {p}}
        /\ UNCHANGED <<answer, signalled, child, tries, worker, gone, budget>>
    BY <1>8 DEF ParentIsCancelled, To, Cascade
  <2>2. job' = job \/ (job' = [job EXCEPT ![p] = "queued"] /\ parent[p] = "enqueue")
    BY <1>8 DEF ParentIsCancelled
  <2>3. job' = job \/ (job' = [job EXCEPT ![p] = "queued"] /\ job[p] = "none")
    BY <2>2 DEF CallInvariant, JobAfterRow
  <2>4. /\ job' \in [Parents -> {"none", "queued", "active", "done", "dropped"}]
        /\ \A q \in Parents : job'[q] = "active" <=> worker[q] # "idle"
        /\ \A q \in Parents \ {p} : job'[q] = job[q]
    <3>1. CASE job' = job
      BY <3>1
    <3>2. CASE job' = [job EXCEPT ![p] = "queued"] /\ job[p] = "none"
      <4>1. \A q \in Parents : job'[q] = IF q = p THEN "queued" ELSE job[q]
        BY <3>2
      <4>2. worker[p] = "idle"
        BY <3>2
      <4> QED
        BY <3>2, <4>1, <4>2
    <3> QED
      BY <2>3, <3>1, <3>2
  <2>5. /\ parent' \in [Parents -> {"queued"} \cup Running \cup Finished]
        /\ \A q \in Parents \ {p} : parent'[q] = parent[q]
    BY <2>1
  <2>6. /\ key' \in [Parents -> BOOLEAN] /\ \A q \in Parents \ {p} : key'[q] = key[q]
    <3>1. CASE key' = key
      BY <3>1
    <3>2. CASE key' = [key EXCEPT ![p] = TRUE]
      BY <3>2
    <3> QED
      BY <2>1, <3>1, <3>2
  <2>7. harmed' \subseteq Parents /\ harmed \subseteq harmed'
    BY <2>1
  <2> QED
    BY <2>1, <2>4, <2>5, <2>6, <2>7
<1>9. ASSUME ChildStarts(p) PROVE TypeOK' /\ OthersKept(p)
  BY <1>9 DEF ChildStarts, Goes, TriesLeft
<1>10. ASSUME ChildLoads(p) PROVE TypeOK' /\ OthersKept(p)
  BY <1>10 DEF ChildLoads, Leaves, Goes, At
<1>11. ASSUME ChildChecks(p) PROVE TypeOK' /\ OthersKept(p)
  BY <1>11 DEF ChildChecks, Leaves, Goes, At, QueuedCancel, SetTerminal
<1>12. ASSUME ChildBegins(p) PROVE TypeOK' /\ OthersKept(p)
  BY <1>12 DEF ChildBegins, Goes, At
<1>13. ASSUME ChildIsCancelled(p) PROVE TypeOK' /\ OthersKept(p)
  BY <1>13 DEF ChildIsCancelled, Goes, At, Noticed, SetTerminal
<1>14. ASSUME ChildCloses(p) PROVE TypeOK' /\ OthersKept(p)
  BY <1>14 DEF ChildCloses, Leaves, Goes, At
<1>15. ASSUME ChildEnds(p) PROVE TypeOK' /\ OthersKept(p)
  BY <1>15 DEF ChildEnds, Goes, At, SetTerminal
<1>16. ASSUME UserCancelsParent(p) PROVE TypeOK' /\ OthersKept(p)
  BY <1>16 DEF UserCancelsParent, Spend
<1>17. ASSUME UserCancelsChild(p) PROVE TypeOK' /\ OthersKept(p)
  BY <1>17 DEF UserCancelsChild, Spend
<1>18. ASSUME KeyExpires(p) PROVE TypeOK' /\ OthersKept(p)
  BY <1>18 DEF KeyExpires, Spend
<1>19. ASSUME ParentTimesOut(p) PROVE TypeOK' /\ OthersKept(p)
  BY <1>19 DEF ParentTimesOut, To, Spend, Over
<1>20. ASSUME ParentPollFails(p) PROVE TypeOK' /\ OthersKept(p)
  BY <1>20 DEF ParentPollFails, To, Spend
<1>21. ASSUME ParentCrashes(p) PROVE TypeOK' /\ OthersKept(p)
  BY <1>21 DEF ParentCrashes, To, Spend
<1>22. ASSUME ChildRaises(p) PROVE TypeOK' /\ OthersKept(p)
  BY <1>22 DEF ChildRaises, Goes, At, Spend, LastTry
<1>23. ASSUME ChildIsStopped(p) PROVE TypeOK' /\ OthersKept(p)
  BY <1>23 DEF ChildIsStopped, Goes, At, Spend, SetTerminal
<1>24. ASSUME ChildCrashes(p) PROVE TypeOK' /\ OthersKept(p)
  BY <1>24 DEF ChildCrashes, Leaves, Goes, Spend
<1>25. ASSUME ChildFaults(p) PROVE TypeOK' /\ OthersKept(p)
  BY <1>25 DEF ChildFaults, Leaves, Goes, At, Spend
<1> QED
  BY <1>1, <1>2, <1>3, <1>4, <1>5, <1>6, <1>7, <1>8, <1>9, <1>10, <1>11, <1>12, <1>13, <1>14,
     <1>15, <1>16, <1>17, <1>18, <1>19, <1>20, <1>21, <1>22, <1>23, <1>24, <1>25 DEF
     ParentSteps, ChildSteps, Environment

(* Every step of a call keeps what is its own. *)
LEMMA OwnStep ==
    ASSUME TypeOK, TypeOK', NEW p \in Parents, CallInvariant(p),
           ParentSteps(p) \/ ChildSteps(p) \/ ChildEnds(p) \/ Environment(p)
    PROVE  CallInvariant(p)'
<1> USE MaxTriesAssumption, BoundsAssumption
        DEF TypeOK, Running, Finished, Terminal, Active, Bounds,
            CallInvariant, JobAfterRow, WorkerEndsIt, SignalStays, Told, Carried, Stranded
<1>1. ASSUME ParentStarts(p) PROVE CallInvariant(p)'
  BY <1>1 DEF ParentStarts, To
<1>2. ASSUME ParentCalls(p) PROVE CallInvariant(p)'
  BY <1>2 DEF ParentCalls, To
<1>3. ASSUME ParentAnswersAlone(p) PROVE CallInvariant(p)'
  BY <1>3 DEF ParentAnswersAlone, To
<1>4. ASSUME ParentEnqueues(p) PROVE CallInvariant(p)'
  BY <1>4 DEF ParentEnqueues, To, CallInvariant, JobAfterRow
<1>5. ASSUME EnqueueFails(p) PROVE CallInvariant(p)'
  BY <1>5 DEF EnqueueFails, To, OnEnqueueError, SetTerminal
<1>6. ASSUME ParentPolls(p) PROVE CallInvariant(p)'
  BY <1>6 DEF ParentPolls, To, Over
<1>7. ASSUME ParentFinishes(p) PROVE CallInvariant(p)'
  BY <1>7 DEF ParentFinishes, To
<1>8. ASSUME ParentIsCancelled(p) PROVE CallInvariant(p)'
  BY <1>8 DEF ParentIsCancelled, To, Cascade
<1>9. ASSUME ChildStarts(p) PROVE CallInvariant(p)'
  BY <1>9 DEF ChildStarts, Goes, TriesLeft
<1>10. ASSUME ChildLoads(p) PROVE CallInvariant(p)'
  BY <1>10 DEF ChildLoads, Leaves, Goes, At
<1>11. ASSUME ChildChecks(p) PROVE CallInvariant(p)'
  BY <1>11 DEF ChildChecks, Leaves, Goes, At, QueuedCancel, SetTerminal
<1>12. ASSUME ChildBegins(p) PROVE CallInvariant(p)'
  BY <1>12 DEF ChildBegins, Goes, At
<1>13. ASSUME ChildIsCancelled(p) PROVE CallInvariant(p)'
  BY <1>13 DEF ChildIsCancelled, Goes, At, Noticed, SetTerminal
<1>14. ASSUME ChildCloses(p) PROVE CallInvariant(p)'
  BY <1>14 DEF ChildCloses, Leaves, Goes, At
<1>15. ASSUME ChildEnds(p) PROVE CallInvariant(p)'
  BY <1>15 DEF ChildEnds, Goes, At, SetTerminal
<1>16. ASSUME UserCancelsParent(p) PROVE CallInvariant(p)'
  BY <1>16 DEF UserCancelsParent, Spend
<1>17. ASSUME UserCancelsChild(p) PROVE CallInvariant(p)'
  BY <1>17 DEF UserCancelsChild, Spend
<1>18. ASSUME KeyExpires(p) PROVE CallInvariant(p)'
  BY <1>18 DEF KeyExpires, Spend
<1>19. ASSUME ParentTimesOut(p) PROVE CallInvariant(p)'
  BY <1>19 DEF ParentTimesOut, To, Spend, Over
<1>20. ASSUME ParentPollFails(p) PROVE CallInvariant(p)'
  BY <1>20 DEF ParentPollFails, To, Spend
<1>21. ASSUME ParentCrashes(p) PROVE CallInvariant(p)'
  BY <1>21 DEF ParentCrashes, To, Spend
<1>22. ASSUME ChildRaises(p) PROVE CallInvariant(p)'
  BY <1>22 DEF ChildRaises, Goes, At, Spend, LastTry
<1>23. ASSUME ChildIsStopped(p) PROVE CallInvariant(p)'
  BY <1>23 DEF ChildIsStopped, Goes, At, Spend, SetTerminal
<1>24. ASSUME ChildCrashes(p) PROVE CallInvariant(p)'
  BY <1>24 DEF ChildCrashes, Leaves, Goes, Spend
<1>25. ASSUME ChildFaults(p) PROVE CallInvariant(p)'
  BY <1>25 DEF ChildFaults, Leaves, Goes, At, Spend
<1> QED
  BY <1>1, <1>2, <1>3, <1>4, <1>5, <1>6, <1>7, <1>8, <1>9, <1>10, <1>11, <1>12, <1>13, <1>14,
     <1>15, <1>16, <1>17, <1>18, <1>19, <1>20, <1>21, <1>22, <1>23, <1>24, <1>25 DEF
     ParentSteps, ChildSteps, Environment

(* The invariant holds in every reachable state, whatever the number of     *)
(* parents, slots and tries, and whether ARQ runs a raising job again.     *)
THEOREM DelegationInvariantHolds == Spec => []DelegationInvariant
<1>1. Init => DelegationInvariant
  <2> SUFFICES ASSUME Init PROVE DelegationInvariant
    OBVIOUS
  <2>1. TypeOK
    BY MaxTriesAssumption DEF Init, TypeOK, Bounds, Terminal
  <2>2. ASSUME NEW p \in Parents PROVE CallInvariant(p)
    BY DEF Init, CallInvariant, JobAfterRow, WorkerEndsIt, SignalStays, Told, Carried, Stranded,
           Active
  <2> QED
    BY <2>1, <2>2 DEF DelegationInvariant
<1>2. DelegationInvariant /\ [Next]_vars => DelegationInvariant'
  <2> SUFFICES ASSUME DelegationInvariant, [Next]_vars PROVE DelegationInvariant'
    OBVIOUS
  <2>1. CASE UNCHANGED vars
    BY <2>1 DEF DelegationInvariant, vars, TypeOK, CallInvariant, JobAfterRow, WorkerEndsIt,
                SignalStays, Told, Carried, Stranded
  <2>2. ASSUME NEW p \in Parents,
               ParentSteps(p) \/ ChildSteps(p) \/ ChildEnds(p) \/ Environment(p)
        PROVE  DelegationInvariant'
    <3>1. TypeOK /\ TypeOK' /\ OthersKept(p) /\ \A q \in Parents : CallInvariant(q)
      BY <2>2, TypeStep DEF DelegationInvariant
    <3>2. CallInvariant(p)'
      BY <2>2, <3>1, OwnStep
    <3>3. \A q \in Parents \ {p} : CallInvariant(q)'
      BY <3>1, OthersKeepTheirs
    <3> QED
      BY <3>1, <3>2, <3>3 DEF DelegationInvariant
  <2> QED
    BY <2>1, <2>2 DEF Next
<1> QED
  BY <1>1, <1>2, PTL DEF Spec

(* Parents, children, jobs, keys and workers keep their types.             *)
THEOREM DelegationTypeOK == Spec => []TypeOK
<1>1. DelegationInvariant => TypeOK
  BY DEF DelegationInvariant
<1> QED
  BY <1>1, DelegationInvariantHolds, PTL

(* What the parent's model was told is how the child's run ended, for good. *)
THEOREM AnswerIsTheEndHolds == Spec => []AnswerIsTheEnd
<1>1. DelegationInvariant => AnswerIsTheEnd
  BY DEF DelegationInvariant, CallInvariant, Told, AnswerIsTheEnd
<1> QED
  BY <1>1, DelegationInvariantHolds, PTL

(* Only a mishap leaves an active child without a job that will end it.     *)
THEOREM StrandedOnlyIfHarmedHolds == Spec => []StrandedOnlyIfHarmed
<1>1. DelegationInvariant => StrandedOnlyIfHarmed
  BY DEF DelegationInvariant, CallInvariant, Carried, StrandedOnlyIfHarmed
<1> QED
  BY <1>1, DelegationInvariantHolds, PTL

(* No child works on for nobody: the signal stands, or was lost, or the     *)
(* call was hit.                                                           *)
THEOREM NoOrphanHolds == Spec => []NoOrphan
<1>1. DelegationInvariant => NoOrphan
  BY DEF DelegationInvariant, CallInvariant, SignalStays, NoOrphan, Finished
<1> QED
  BY <1>1, DelegationInvariantHolds, PTL
=============================================================================
