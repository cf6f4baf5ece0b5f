--------------------------- MODULE TriggersProofs ----------------------------
(* Proofs about Triggers for any number of minutes, scans, tries, deaths    *)
(* and failing calls.                                                      *)
EXTENDS Triggers, FiniteSetTheorems, SequenceTheorems, TLAPS

Runs == [call : Calls, over : BOOLEAN]
Places == {"idle", "check", "create", "mark", "begin", "sync", "finish"}
JobStates == {"none", "queued", "active", "done", "gone"}

(* The type invariant. *)
TypeOK ==
    /\ kind \in {"cron", "webhook", "kb_sync"}
    /\ life \in {"active", "inactive", "deleted"}
    /\ count \in Nat
    /\ clock \in Slots /\ scan \in Slots \cup {0}
    /\ job \in [Slots -> JobStates]
    /\ at \in [Calls -> Places]
    /\ read \in [Calls -> Nat]
    /\ runs \in Seq(Runs)
    /\ finished \in SUBSET Slots /\ IsFiniteSet(finished)
    /\ crossed \in BOOLEAN /\ late \in BOOLEAN
    /\ deaths \in Nat

USE DEF rowVars, queueVars, history, bounds

(* A new run is the last one, and the others stay what they were. *)
LEMMA NewRun ==
    ASSUME runs \in Seq(Runs), NEW run \in Runs, runs' = Append(runs, run)
    PROVE  /\ runs' \in Seq(Runs) /\ Len(runs') = Len(runs) + 1
           /\ \A i \in 1 .. Len(runs) : runs'[i] = runs[i]
           /\ runs'[Len(runs) + 1] = run
  BY AppendProperties

(* A run that ends keeps its call. *)
LEMMA RunOver ==
    ASSUME NEW run \in Runs
    PROVE  [run EXCEPT !.over = TRUE] \in Runs /\ [run EXCEPT !.over = TRUE].call = run.call
  BY DEF Runs

(* The end of a run changes whose no run is. *)
LEMMA EndedRun ==
    ASSUME runs \in Seq(Runs), NEW r \in 1 .. Len(runs), RunEnds(r)
    PROVE  /\ runs' \in Seq(Runs) /\ Len(runs') = Len(runs)
           /\ \A i \in 1 .. Len(runs) : runs'[i].call = runs[i].call
<1> DEFINE ended == [runs[r] EXCEPT !.over = TRUE]
<1>1. runs[r] \in Runs /\ ended \in Runs /\ ended.call = runs[r].call
  <2>1. runs[r] \in Runs
    OBVIOUS
  <2> QED
    BY <2>1, RunOver
<1>2. runs' = [runs EXCEPT ![r] = ended]
  BY DEF RunEnds
<1>3. /\ [runs EXCEPT ![r] = ended] \in Seq(Runs)
      /\ Len([runs EXCEPT ![r] = ended]) = Len(runs)
      /\ \A i \in 1 .. Len(runs) :
            [runs EXCEPT ![r] = ended][i] = IF i = r THEN ended ELSE runs[i]
  <2> HIDE DEF ended
  <2> QED
    BY <1>1, ExceptSeq
<1> HIDE DEF ended
<1> QED
  BY <1>1, <1>2, <1>3

(* The minutes are finitely many calls, none of them of the webhook. *)
LEMMA SlotsAreCalls ==
    /\ Slots \subseteq Calls /\ Requests \subseteq Calls
    /\ \A q \in Requests : q \notin Slots
    /\ 1 \in Slots /\ 0 \notin Slots
  BY BoundsAssumption, RequestsAssumption DEF Slots, Calls

(* Every step keeps the types. *)
LEMMA TypeStep == TypeOK /\ [Next]_vars => TypeOK'
<1> SUFFICES ASSUME TypeOK, [Next]_vars PROVE TypeOK'
  OBVIOUS
<1> USE SlotsAreCalls, BoundsAssumption DEF TypeOK, Places, JobStates
<1>1. CASE Minute
  BY <1>1 DEF Minute, Slots
<1>2. CASE OwnerEdits
  BY <1>2 DEF OwnerEdits
<1>3. CASE ScanReads
  BY <1>3 DEF ScanReads
<1>4. CASE ScanEnqueues
  BY <1>4 DEF ScanEnqueues, IdIsFree
<1>5. CASE ScanRaises
  BY <1>5 DEF ScanRaises, Fault
<1>6. ASSUME NEW s \in Slots, JobStarts(s) PROVE TypeOK'
  BY <1>6 DEF JobStarts, Goes
<1>7. ASSUME NEW s \in Slots, Checks(s) PROVE TypeOK'
  BY <1>7 DEF Checks, Goes, Returns
<1>8. ASSUME NEW s \in Slots, SyncBegins(s) PROVE TypeOK'
  <2>1. CASE life = "active"
    BY <1>8, <2>1 DEF SyncBegins, Goes
  <2>2. CASE life # "active"
    BY <1>8, <2>2 DEF SyncBegins, Goes, Returns
  <2> QED
    BY <2>1, <2>2
<1>9. ASSUME NEW s \in Slots, SyncReads(s) PROVE TypeOK'
  <2>1. CASE Exists
    <3>1. /\ read' = [read EXCEPT ![s] = count] /\ at' = [at EXCEPT ![s] = "finish"]
          /\ UNCHANGED <<kind, rowVars, clock, scan, queueVars, runs, history, bounds>>
      BY <1>9, <2>1 DEF SyncReads, Goes
    <3>2. read' \in [Calls -> Nat] /\ at' \in [Calls -> Places]
      BY <3>1
    <3> QED
      BY <3>1, <3>2
  <2>2. CASE ~Exists
    BY <1>9, <2>2 DEF SyncReads, Goes, Returns
  <2> QED
    BY <2>1, <2>2
<1>10. ASSUME NEW s \in Slots, SyncEnds(s) PROVE TypeOK'
  <2>1. IsFiniteSet(finished \cup {s})
    BY FS_AddElement
  <2>2. finished' \in SUBSET Slots /\ IsFiniteSet(finished')
    BY <1>10, <2>1 DEF SyncEnds
  <2>3. count' \in Nat
    BY <1>10, SlotsAreCalls DEF SyncEnds, NextCount
  <2>4. crossed' \in BOOLEAN
    BY <1>10, Zenon DEF SyncEnds
  <2> QED
    BY <1>10, <2>2, <2>3, <2>4 DEF SyncEnds, Goes, Returns, Exists
<1>11. ASSUME NEW s \in Slots, ResultExpires(s) PROVE TypeOK'
  BY <1>11 DEF ResultExpires
<1>12. ASSUME NEW s \in Slots, JobDies(s) PROVE TypeOK'
  BY <1>12 DEF JobDies, Goes
<1>13. ASSUME NEW s \in Slots, SyncRaises(s) PROVE TypeOK'
  BY <1>13 DEF SyncRaises, Goes, Returns, Fault
<1>14. ASSUME NEW q \in Requests, WebhookCalled(q) PROVE TypeOK'
  BY <1>14 DEF WebhookCalled, Goes
<1>15. ASSUME NEW c \in Calls, Creates(c) PROVE TypeOK'
  <2>1. [call |-> c, over |-> FALSE] \in Runs
    BY DEF Runs
  <2>2. runs' \in Seq(Runs) /\ Len(runs') \in Nat
    BY <1>15, <2>1, NewRun DEF Creates
  <2> QED
    BY <1>15, <2>2 DEF Creates, Goes
<1>16. ASSUME NEW c \in Calls, MarksRunning(c) PROVE TypeOK'
  BY <1>16 DEF MarksRunning, Goes, Returns, Shows, Exists
<1>17. ASSUME NEW c \in Calls, ExecutionFails(c) PROVE TypeOK'
  BY <1>17 DEF ExecutionFails, Goes, Returns, Shows, Exists, Fault
<1>18. ASSUME NEW r \in 1 .. Len(runs), RunEnds(r) PROVE TypeOK'
  <2>1. runs' \in Seq(Runs)
    BY <1>18, EndedRun
  <2>2. count' \in Nat
    BY <1>18 DEF RunEnds
  <2> QED
    BY <1>18, <2>1, <2>2 DEF RunEnds
<1>19. CASE UNCHANGED vars
  BY <1>19 DEF vars
<1> QED
  BY SlotsAreCalls, <1>1, <1>2, <1>3, <1>4, <1>5, <1>6, <1>7, <1>8, <1>9, <1>10, <1>11,
     <1>12, <1>13, <1>14, <1>15, <1>16, <1>17, <1>18, <1>19 DEF Next, JobSteps

-----------------------------------------------------------------------------
(* One run for a minute                                                    *)

(* A job is active as long as its execution is somewhere; and before it     *)
(* has created its run there is none, unless a worker died or a scan was    *)
(* late.                                                                   *)
Runless(s) == job[s] \in {"none", "queued"} \/ at[s] \in {"check", "create"}

OneRun ==
    /\ \A s \in Slots : at[s] # "idle" => job[s] = "active"
    /\ deaths = 0 /\ ~late =>
           \A s \in Slots :
               /\ Runless(s) => \A r \in 1 .. Len(runs) : runs[r].call # s
               /\ \A r, q \in 1 .. Len(runs) : runs[r].call = s /\ runs[q].call = s => r = q

(* Every step keeps it. *)
LEMMA OneRunStep == TypeOK /\ OneRun /\ [Next]_vars => OneRun'
<1> SUFFICES ASSUME TypeOK, OneRun, [Next]_vars PROVE OneRun'
  OBVIOUS
<1> USE SlotsAreCalls DEF TypeOK, OneRun, Runless
<1>1. CASE Minute
  BY <1>1 DEF Minute
<1>2. CASE OwnerEdits
  BY <1>2 DEF OwnerEdits
<1>3. CASE ScanReads
  BY <1>3 DEF ScanReads
<1>4. CASE ScanEnqueues
  BY <1>4 DEF ScanEnqueues, IdIsFree
<1>5. CASE ScanRaises
  BY <1>5 DEF ScanRaises, Fault
<1>6. ASSUME NEW s \in Slots, JobStarts(s) PROVE OneRun'
  BY <1>6 DEF JobStarts, Goes
<1>7. ASSUME NEW s \in Slots, Checks(s) PROVE OneRun'
  BY <1>7 DEF Checks, Goes, Returns
<1>8. ASSUME NEW s \in Slots, SyncBegins(s) PROVE OneRun'
  BY <1>8 DEF SyncBegins, Goes, Returns
<1>9. ASSUME NEW s \in Slots, SyncReads(s) PROVE OneRun'
  BY <1>9 DEF SyncReads, Goes, Returns
<1>10. ASSUME NEW s \in Slots, SyncEnds(s) PROVE OneRun'
  BY <1>10 DEF SyncEnds, Goes, Returns
<1>11. ASSUME NEW s \in Slots, ResultExpires(s) PROVE OneRun'
  BY <1>11 DEF ResultExpires
<1>12. ASSUME NEW s \in Slots, JobDies(s) PROVE OneRun'
  BY <1>12 DEF JobDies, Goes
<1>13. ASSUME NEW s \in Slots, SyncRaises(s) PROVE OneRun'
  BY <1>13 DEF SyncRaises, Goes, Returns, Fault
<1>14. ASSUME NEW q \in Requests, WebhookCalled(q) PROVE OneRun'
  BY <1>14 DEF WebhookCalled, Goes
<1>15. ASSUME NEW c \in Calls, Creates(c) PROVE OneRun'
  <2>1. [call |-> c, over |-> FALSE] \in Runs
    BY DEF Runs
  <2>2. /\ Len(runs') = Len(runs) + 1 /\ runs'[Len(runs) + 1].call = c
        /\ \A i \in 1 .. Len(runs) : runs'[i] = runs[i]
    BY <1>15, <2>1, NewRun DEF Creates
  <2>3. /\ at[c] = "create" /\ UNCHANGED <<job, deaths, late>>
        /\ at'[c] = "mark" /\ \A d \in Calls \ {c} : at'[d] = at[d]
    BY <1>15 DEF Creates, Goes
  <2>4. \A i \in 1 .. Len(runs') : i \in 1 .. Len(runs) \/ i = Len(runs) + 1
    BY <2>2
  <2>5. \A s \in Slots : at'[s] # "idle" => job'[s] = "active"
    BY <2>3
  <2>6. ASSUME deaths' = 0, ~late', NEW s \in Slots
        PROVE  /\ Runless(s)' => \A r \in 1 .. Len(runs') : runs'[r].call # s
               /\ \A r, q \in 1 .. Len(runs') : runs'[r].call = s /\ runs'[q].call = s => r = q
    <3>1. CASE s = c
      <4>1. ~Runless(s)' /\ \A r \in 1 .. Len(runs) : runs[r].call # s
        BY <2>3, <2>6, <3>1
      <4> QED
        BY <2>2, <2>4, <4>1
    <3>2. CASE s # c
      <4>1. Runless(s)' => Runless(s)
        BY <2>3, <3>2
      <4>2. /\ Runless(s) => \A r \in 1 .. Len(runs) : runs[r].call # s
            /\ \A r, q \in 1 .. Len(runs) : runs[r].call = s /\ runs[q].call = s => r = q
        BY <2>3, <2>6
      <4>3. ASSUME NEW r \in 1 .. Len(runs'), runs'[r].call = s
            PROVE  r \in 1 .. Len(runs) /\ runs[r].call = s
        BY <2>2, <2>4, <3>2, <4>3
      <4> QED
        BY <4>1, <4>2, <4>3
    <3> QED
      BY <3>1, <3>2
  <2> QED
    BY <2>5, <2>6
<1>16. ASSUME NEW c \in Calls, MarksRunning(c) PROVE OneRun'
  BY <1>16 DEF MarksRunning, Goes, Returns
<1>17. ASSUME NEW c \in Calls, ExecutionFails(c) PROVE OneRun'
  BY <1>17 DEF ExecutionFails, Goes, Returns, Fault
<1>18. ASSUME NEW r \in 1 .. Len(runs), RunEnds(r) PROVE OneRun'
  BY <1>18, EndedRun DEF RunEnds
<1>19. CASE UNCHANGED vars
  BY <1>19 DEF vars
<1> QED
  BY SlotsAreCalls, <1>1, <1>2, <1>3, <1>4, <1>5, <1>6, <1>7, <1>8, <1>9, <1>10, <1>11,
     <1>12, <1>13, <1>14, <1>15, <1>16, <1>17, <1>18, <1>19 DEF Next, JobSteps

(* A minute that is due starts one run, however many scans find it, unless *)
(* a worker died in its job or a scan came after its result was forgotten. *)
THEOREM EverySlotRunsOnce == Spec => []OneRunPerSlot
<1>1. Init => TypeOK /\ OneRun
  <2> SUFFICES ASSUME Init PROVE TypeOK /\ OneRun
    OBVIOUS
  <2>1. runs \in Seq(Runs) /\ Len(runs) = 0
    BY DEF Init
  <2>2. TypeOK
    BY <2>1, SlotsAreCalls, FS_EmptySet DEF Init, TypeOK, Places, JobStates
  <2> QED
    BY <2>1, <2>2, SlotsAreCalls DEF Init, OneRun
<1>2. TypeOK /\ OneRun /\ [Next]_vars => TypeOK' /\ OneRun'
  BY TypeStep, OneRunStep
<1>3. TypeOK /\ OneRun => OneRunPerSlot
  <2> SUFFICES ASSUME TypeOK, OneRun, NEW s \in Slots, deaths = 0, ~late
               PROVE  ~(Cardinality(RunsOf(s)) > 1)
    BY DEF OneRunPerSlot, TypeOK
  <2>1. \A r, q \in RunsOf(s) : r = q
    BY DEF OneRun, RunsOf
  <2>2. CASE RunsOf(s) = {}
    BY <2>2, FS_EmptySet
  <2>3. ASSUME NEW r \in RunsOf(s) PROVE ~(Cardinality(RunsOf(s)) > 1)
    <3>1. RunsOf(s) = {r}
      BY <2>1, <2>3
    <3> QED
      BY <3>1, FS_Singleton
  <2> QED
    BY <2>2, <2>3
<1> QED
  BY <1>1, <1>2, <1>3, PTL DEF Spec

-----------------------------------------------------------------------------
(* Nothing has spoiled the count of a kb_sync trigger. *)
Counted == kind = "kb_sync" /\ Exists /\ ~crossed /\ deaths = 0 /\ ~late

(* What is counted is over, and what is about to be has read the count. *)
CountIsRight ==
    /\ count = Cardinality(finished)
    /\ \A s \in Slots : at[s] = "finish" => read[s] = count
    /\ \A s \in finished : at[s] = "idle" /\ job[s] \in {"done", "gone"}

Counting == Counted => CountIsRight

(* Every step keeps it. *)
LEMMA CountingStep == TypeOK /\ Counting /\ [Next]_vars => Counting'
<1> SUFFICES ASSUME TypeOK, Counting, [Next]_vars PROVE Counting'
  OBVIOUS
<1> USE SlotsAreCalls DEF TypeOK, Counting, Counted, CountIsRight, Exists
<1>1. CASE Minute
  BY <1>1 DEF Minute
<1>2. CASE OwnerEdits
  BY <1>2 DEF OwnerEdits
<1>3. CASE ScanReads
  BY <1>3 DEF ScanReads
<1>4. CASE ScanEnqueues
  BY <1>4 DEF ScanEnqueues, IdIsFree
<1>5. CASE ScanRaises
  BY <1>5 DEF ScanRaises, Fault
<1>6. ASSUME NEW s \in Slots, JobStarts(s) PROVE Counting'
  BY <1>6 DEF JobStarts, Goes
<1>7. ASSUME NEW s \in Slots, Checks(s) PROVE Counting'
  BY <1>7 DEF Checks, Goes, Returns
<1>8. ASSUME NEW s \in Slots, SyncBegins(s) PROVE Counting'
  BY <1>8 DEF SyncBegins, Goes, Returns
<1>9. ASSUME NEW s \in Slots, SyncReads(s) PROVE Counting'
  BY <1>9 DEF SyncReads, Goes, Returns
<1>10. ASSUME NEW s \in Slots, SyncEnds(s) PROVE Counting'
  <2>1. CASE ~Exists
    BY <1>10, <2>1 DEF SyncEnds, Goes, Returns
  <2>2. CASE Exists
    <3>1. /\ at[s] = "finish" /\ count' = read[s] + 1 /\ UNCHANGED <<kind, life, deaths, late, read>>
          /\ finished' = finished \cup {s}
          /\ ~crossed' => ~crossed /\ \A u \in Slots \ {s} : at[u] # "finish"
          /\ job'[s] = "done" /\ at'[s] = "idle"
          /\ \A u \in Slots \ {s} : job'[u] = job[u] /\ at'[u] = at[u]
      BY <1>10, <2>2 DEF SyncEnds, Goes, Returns, NextCount
    <3>2. ASSUME Counted' PROVE CountIsRight'
      <4>1. Counted /\ \A u \in Slots \ {s} : at[u] # "finish"
        BY <3>1, <3>2, <2>2
      <4>2. s \notin finished /\ read[s] = count /\ count = Cardinality(finished)
        BY <3>1, <4>1
      <4>3. Cardinality(finished') = Cardinality(finished) + 1
        BY <3>1, <4>2, FS_AddElement
      <4> QED
        BY <3>1, <4>1, <4>2, <4>3
    <3> HIDE DEF Counted, CountIsRight
    <3> QED
      BY <3>2
  <2> QED
    BY <2>1, <2>2
<1>11. ASSUME NEW s \in Slots, ResultExpires(s) PROVE Counting'
  BY <1>11 DEF ResultExpires
<1>12. ASSUME NEW s \in Slots, JobDies(s) PROVE Counting'
  BY <1>12 DEF JobDies, Goes
<1>13. ASSUME NEW s \in Slots, SyncRaises(s) PROVE Counting'
  BY <1>13 DEF SyncRaises, Goes, Returns, Fault
<1>14. ASSUME NEW q \in Requests, WebhookCalled(q) PROVE Counting'
  BY <1>14 DEF WebhookCalled, Goes
<1>15. ASSUME NEW c \in Calls, Creates(c) PROVE Counting'
  BY <1>15 DEF Creates, Goes
<1>16. ASSUME NEW c \in Calls, MarksRunning(c) PROVE Counting'
  BY <1>16 DEF MarksRunning, Goes, Returns
<1>17. ASSUME NEW c \in Calls, ExecutionFails(c) PROVE Counting'
  BY <1>17 DEF ExecutionFails, Goes, Returns, Fault
<1>18. ASSUME NEW r \in 1 .. Len(runs), RunEnds(r) PROVE Counting'
  BY <1>18 DEF RunEnds, PayloadKeys
<1>19. CASE UNCHANGED vars
  BY <1>19 DEF vars
<1> QED
  BY SlotsAreCalls, <1>1, <1>2, <1>3, <1>4, <1>5, <1>6, <1>7, <1>8, <1>9, <1>10, <1>11,
     <1>12, <1>13, <1>14, <1>15, <1>16, <1>17, <1>18, <1>19 DEF Next, JobSteps

(* A kb_sync trigger counts each minute it has synchronised once, unless    *)
(* ends crossed, a worker died or a scan was late.                         *)
THEOREM EverySyncIsCounted == Spec => []CountedOnce
<1>1. Init => TypeOK /\ Counting
  <2> SUFFICES ASSUME Init PROVE TypeOK /\ Counting
    OBVIOUS
  <2>1. runs \in Seq(Runs) /\ Cardinality(finished) = 0 /\ IsFiniteSet(finished)
    BY FS_EmptySet DEF Init
  <2>2. TypeOK
    BY <2>1, SlotsAreCalls DEF Init, TypeOK, Places, JobStates
  <2> QED
    BY <2>1, <2>2, SlotsAreCalls DEF Init, Counting, CountIsRight
<1>2. TypeOK /\ Counting /\ [Next]_vars => TypeOK' /\ Counting'
  BY TypeStep, CountingStep
<1>3. Counting => CountedOnce
  BY DEF Counting, Counted, CountIsRight, CountedOnce
<1> QED
  BY <1>1, <1>2, <1>3, PTL DEF Spec
=============================================================================
