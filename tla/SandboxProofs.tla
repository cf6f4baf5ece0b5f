---------------------------- MODULE SandboxProofs ----------------------------
(* Proofs about Sandbox for every number of callers and processes and for  *)
(* every length of its timeouts.                                           *)
EXTENDS Sandbox, TLAPS

USE DEF Running, Waiting, Creating, Addresses, Untracked, clientVars, provisionerVars

(* The reaper's timeout is a positive number of ticks. *)
LEMMA IdleType == Idle \in Nat \ {0}
  BY SandboxAssumption DEF Idle

(* Every variable keeps its type, no command outlives its timeout and no   *)
(* request is waited for beyond the client's.                              *)
LEMMA TypeStep == TypeOK /\ [Next]_vars => TypeOK'
<1> SUFFICES ASSUME TypeOK, [Next]_vars PROVE TypeOK'
  OBVIOUS
<1> USE SandboxAssumption, IdleType DEF TypeOK
<1>1. ASSUME NEW c \in Callers, GetCached(c) PROVE TypeOK'
    BY <1>1 DEF GetCached, Enters, Use, ShouldTouch
<1>2. ASSUME NEW c \in Callers, GetTouches(c) PROVE TypeOK'
    BY <1>2 DEF GetTouches, Enters, Ask
<1>3. ASSUME NEW c \in Callers, GetCreates(c) PROVE TypeOK'
    BY <1>3 DEF GetCreates, Enters, Ask
<1>4. ASSUME NEW c \in Callers, TouchAlive(c) PROVE TypeOK'
    BY <1>4 DEF TouchAlive, Answered, Use
<1>5. ASSUME NEW c \in Callers, TouchGone(c) PROVE TypeOK'
    BY <1>5 DEF TouchGone, Answered, Ask
<1>6. ASSUME NEW c \in Callers, TouchRaises(c) PROVE TypeOK'
    BY <1>6 DEF TouchRaises, Use
<1>7. ASSUME NEW c \in Callers, CreateDone(c) PROVE TypeOK'
    BY <1>7 DEF CreateDone, Answered, Use
<1>8. ASSUME NEW c \in Callers, CreateRaises(c) PROVE TypeOK'
    BY <1>8 DEF CreateRaises
<1>9. ASSUME NEW c \in Callers, AnswerDropped(c) PROVE TypeOK'
    BY <1>9 DEF AnswerDropped
<1>10. ASSUME NEW c \in Callers, CommandEnds(c) PROVE TypeOK'
    BY <1>10 DEF CommandEnds
<1>11. ASSUME NEW c \in Callers, Discover(c) PROVE TypeOK'
    BY <1>11 DEF Discover, Serve
<1>12. ASSUME NEW c \in Callers, TouchMarks(c) PROVE TypeOK'
    BY <1>12 DEF TouchMarks, Serve, MarkActive
<1>13. ASSUME NEW c \in Callers, CreateMarks(c) PROVE TypeOK'
    BY <1>13 DEF CreateMarks, Serve, MarkActive
<1>14. ASSUME NEW c \in Callers, CreateReuses(c) PROVE TypeOK'
    BY <1>14 DEF CreateReuses, Serve, BackendLockFree
<1>15. ASSUME NEW c \in Callers, CreateWaits(c) PROVE TypeOK'
    BY <1>15 DEF CreateWaits, Serve, BackendLockFree
<1>16. ASSUME NEW c \in Callers, CreateStarts(c) PROVE TypeOK'
    BY <1>16 DEF CreateStarts, Serve, Lose, CommandsFail, Dead, BackendLockFree
<1>17. ASSUME NEW c \in Callers, CreateReady(c) PROVE TypeOK'
    BY <1>17 DEF CreateReady, Serve
<1>18. ASSUME NEW c \in Callers, CreateFails(c) PROVE TypeOK'
    BY <1>18 DEF CreateFails, Serve, Fault
<1>19. ASSUME NEW c \in Callers, DiscoverRaises(c) PROVE TypeOK'
    BY <1>19 DEF DiscoverRaises, Serve, Fault
<1>20. ASSUME NEW p \in Processes, ProcessDies(p) PROVE TypeOK'
    BY <1>20 DEF ProcessDies, Fault
<1>21. CASE ReaperCollects
    BY <1>21 DEF ReaperCollects, Expired
<1>22. CASE ReaperDeletes
    BY <1>22 DEF ReaperDeletes, Delete, Lose, CommandsFail, Dead
<1>23. CASE ReaperForgets
    BY <1>23 DEF ReaperForgets, Forget
<1>24. CASE ContainerReady
    BY <1>24 DEF ContainerReady
<1>25. CASE ApiShutsDown
    BY <1>25 DEF ApiShutsDown, Fault
<1>26. CASE ReleaseDeletes
    BY <1>26 DEF ReleaseDeletes, Delete, Lose, CommandsFail, Dead
<1>27. CASE ReleaseForgets
    BY <1>27 DEF ReleaseForgets, Forget
<1>28. CASE ReleaseRaises
    BY <1>28 DEF ReleaseRaises
<1>29. CASE ContainerBreaks
    BY <1>29 DEF ContainerBreaks, Fault, CommandsFail
<1>30. CASE ReaperDeleteRaises
    BY <1>30 DEF ReaperDeleteRaises, Fault
<1>31. CASE ProvisionerRestarts
    BY <1>31 DEF ProvisionerRestarts, Fault
<1>32. CASE Tick
    BY <1>32 DEF Tick, Least
<1>33. CASE UNCHANGED vars
    BY <1>33 DEF vars
<1> QED
    BY <1>1, <1>2, <1>3, <1>4, <1>5, <1>6, <1>7, <1>8, <1>9, <1>10, <1>11,
       <1>12, <1>13, <1>14, <1>15, <1>16, <1>17, <1>18, <1>19, <1>20, <1>21,
       <1>22, <1>23, <1>24, <1>25, <1>26, <1>27, <1>28, <1>29, <1>30, <1>31,
       <1>32, <1>33 DEF Next, Get, Returns, Provisions, Reaps, Failure

(* A get() is entered only when the process has none at work, a create     *)
(* only when the provisioner has none.                                     *)
LEMMA LockedStep == TypeOK /\ Locked /\ [Next]_vars => Locked'
<1> SUFFICES ASSUME TypeOK, Locked, [Next]_vars PROVE Locked'
  OBVIOUS
<1> USE SandboxAssumption DEF TypeOK, Locked
<1>1. ASSUME NEW c \in Callers, GetCached(c) PROVE Locked'
    BY <1>1 DEF GetCached, Enters, Use, ShouldTouch, LockFree
<1>2. ASSUME NEW c \in Callers, GetTouches(c) PROVE Locked'
    BY <1>2 DEF GetTouches, Enters, Ask, LockFree
<1>3. ASSUME NEW c \in Callers, GetCreates(c) PROVE Locked'
    BY <1>3 DEF GetCreates, Enters, Ask, LockFree
<1>4. ASSUME NEW c \in Callers, TouchAlive(c) PROVE Locked'
    BY <1>4 DEF TouchAlive, Answered, Use
<1>5. ASSUME NEW c \in Callers, TouchGone(c) PROVE Locked'
    BY <1>5 DEF TouchGone, Answered, Ask
<1>6. ASSUME NEW c \in Callers, TouchRaises(c) PROVE Locked'
    BY <1>6 DEF TouchRaises, Use
<1>7. ASSUME NEW c \in Callers, CreateDone(c) PROVE Locked'
    BY <1>7 DEF CreateDone, Answered, Use
<1>8. ASSUME NEW c \in Callers, CreateRaises(c) PROVE Locked'
    BY <1>8 DEF CreateRaises
<1>9. ASSUME NEW c \in Callers, AnswerDropped(c) PROVE Locked'
    BY <1>9 DEF AnswerDropped
<1>10. ASSUME NEW c \in Callers, CommandEnds(c) PROVE Locked'
    BY <1>10 DEF CommandEnds
<1>11. ASSUME NEW c \in Callers, Discover(c) PROVE Locked'
    BY <1>11 DEF Discover, Serve
<1>12. ASSUME NEW c \in Callers, TouchMarks(c) PROVE Locked'
    BY <1>12 DEF TouchMarks, Serve, MarkActive
<1>13. ASSUME NEW c \in Callers, CreateMarks(c) PROVE Locked'
    BY <1>13 DEF CreateMarks, Serve, MarkActive
<1>14. ASSUME NEW c \in Callers, CreateReuses(c) PROVE Locked'
    BY <1>14 DEF CreateReuses, Serve, BackendLockFree
<1>15. ASSUME NEW c \in Callers, CreateWaits(c) PROVE Locked'
    BY <1>15 DEF CreateWaits, Serve, BackendLockFree
<1>16. ASSUME NEW c \in Callers, CreateStarts(c) PROVE Locked'
    BY <1>16 DEF CreateStarts, Serve, Lose, CommandsFail, Dead, BackendLockFree
<1>17. ASSUME NEW c \in Callers, CreateReady(c) PROVE Locked'
    BY <1>17 DEF CreateReady, Serve
<1>18. ASSUME NEW c \in Callers, CreateFails(c) PROVE Locked'
    BY <1>18 DEF CreateFails, Serve, Fault
<1>19. ASSUME NEW c \in Callers, DiscoverRaises(c) PROVE Locked'
    BY <1>19 DEF DiscoverRaises, Serve, Fault
<1>20. ASSUME NEW p \in Processes, ProcessDies(p) PROVE Locked'
    BY <1>20 DEF ProcessDies, Fault
<1>21. CASE ReaperCollects
    BY <1>21 DEF ReaperCollects, Expired
<1>22. CASE ReaperDeletes
    BY <1>22 DEF ReaperDeletes, Delete, Lose, CommandsFail, Dead
<1>23. CASE ReaperForgets
    BY <1>23 DEF ReaperForgets, Forget
<1>24. CASE ContainerReady
    BY <1>24 DEF ContainerReady
<1>25. CASE ApiShutsDown
    BY <1>25 DEF ApiShutsDown, Fault
<1>26. CASE ReleaseDeletes
    BY <1>26 DEF ReleaseDeletes, Delete, Lose, CommandsFail, Dead
<1>27. CASE ReleaseForgets
    BY <1>27 DEF ReleaseForgets, Forget
<1>28. CASE ReleaseRaises
    BY <1>28 DEF ReleaseRaises
<1>29. CASE ContainerBreaks
    BY <1>29 DEF ContainerBreaks, Fault, CommandsFail
<1>30. CASE ReaperDeleteRaises
    BY <1>30 DEF ReaperDeleteRaises, Fault
<1>31. CASE ProvisionerRestarts
    BY <1>31 DEF ProvisionerRestarts, Fault
<1>32. CASE Tick
    BY <1>32 DEF Tick, Least
<1>33. CASE UNCHANGED vars
    BY <1>33 DEF vars
<1> QED
    BY <1>1, <1>2, <1>3, <1>4, <1>5, <1>6, <1>7, <1>8, <1>9, <1>10, <1>11,
       <1>12, <1>13, <1>14, <1>15, <1>16, <1>17, <1>18, <1>19, <1>20, <1>21,
       <1>22, <1>23, <1>24, <1>25, <1>26, <1>27, <1>28, <1>29, <1>30, <1>31,
       <1>32, <1>33 DEF Next, Get, Returns, Provisions, Reaps, Failure

(* The mark is no older than what was learned from it. *)
LEMMA BoundStep ==
    TypeOK /\ Locked /\ ActivityBound /\ [Next]_vars => ActivityBound'
<1> SUFFICES ASSUME TypeOK, Locked, ActivityBound, [Next]_vars
             PROVE  ActivityBound'
  OBVIOUS
<1> USE SandboxAssumption, IdleType DEF TypeOK, Locked, ActivityBound, NotOlderThan
<1>1. ASSUME NEW c \in Callers, GetCached(c) PROVE ActivityBound'
    BY <1>1 DEF GetCached, Enters, Use, ShouldTouch
<1>2. ASSUME NEW c \in Callers, GetTouches(c) PROVE ActivityBound'
    BY <1>2 DEF GetTouches, Enters, Ask
<1>3. ASSUME NEW c \in Callers, GetCreates(c) PROVE ActivityBound'
    BY <1>3 DEF GetCreates, Enters, Ask
<1>4. ASSUME NEW c \in Callers, TouchAlive(c) PROVE ActivityBound'
    BY <1>4 DEF TouchAlive, Answered, Use
<1>5. ASSUME NEW c \in Callers, TouchGone(c) PROVE ActivityBound'
    BY <1>5 DEF TouchGone, Answered, Ask
<1>6. ASSUME NEW c \in Callers, TouchRaises(c) PROVE ActivityBound'
    BY <1>6 DEF TouchRaises, Use
<1>7. ASSUME NEW c \in Callers, CreateDone(c) PROVE ActivityBound'
  <2> DEFINE p == ProcessOf[c]
  <2>1. p \in Processes /\ phase[c] = "create" /\ server[c] = "ok"
    BY <1>7 DEF CreateDone, Answered
  <2>2. \A d \in Callers : d # c /\ ProcessOf[d] = p => phase[d] \notin Waiting
    BY <2>1
  <2>3. record[c] = "live" => NotOlderThan(Latency)
    BY <2>1
  <2>4. UNCHANGED activity
    BY <1>7 DEF CreateDone
  <2>5. ASSUME NEW q \in Processes, address'[q] = "live", since'[q] < Interval,
               activity # Untracked
        PROVE  activity <= Latency + since'[q]
    <3>1. CASE q = p
      BY <1>7, <3>1, <2>3, <2>5 DEF CreateDone
    <3>2. CASE q # p
      BY <1>7, <3>2, <2>5 DEF CreateDone
    <3> QED
      BY <3>1, <3>2
  <2>6. ASSUME NEW d \in Callers, d # c PROVE
               /\ phase'[d] = phase[d] /\ age'[d] = age[d]
               /\ server'[d] = server[d] /\ record'[d] = record[d]
               /\ ProcessOf[d] # p => address'[ProcessOf[d]] = address[ProcessOf[d]]
    BY <1>7, <2>6 DEF CreateDone, Use
  <2>7. ASSUME NEW d \in Callers, d # c, activity # Untracked
        PROVE  /\ phase'[d] = "touch" /\ server'[d] = "ok"
                      /\ address'[ProcessOf[d]] = "live" => activity <= age'[d]
               /\ phase'[d] = "create" /\ server'[d] = "ok"
                      /\ record'[d] = "live" => activity <= age'[d]
               /\ phase'[d] = "run"
                      => activity <= Latency + Interval - 1 + age'[d]
    BY <2>7, <2>6, <2>2
  <2>8. phase'[c] \in {"run", "rest"} /\ age'[c] = 0
        /\ (phase'[c] = "run" => record[c] = "live")
    BY <1>7 DEF CreateDone, Use
  <2>9. phase'[c] = "run" => NotOlderThan(Latency + Interval - 1 + age'[c])
    BY <2>8, <2>3
  <2> QED
    BY <2>4, <2>5, <2>7, <2>8, <2>9
<1>8. ASSUME NEW c \in Callers, CreateRaises(c) PROVE ActivityBound'
    BY <1>8 DEF CreateRaises
<1>9. ASSUME NEW c \in Callers, AnswerDropped(c) PROVE ActivityBound'
    BY <1>9 DEF AnswerDropped
<1>10. ASSUME NEW c \in Callers, CommandEnds(c) PROVE ActivityBound'
    BY <1>10 DEF CommandEnds
<1>11. ASSUME NEW c \in Callers, Discover(c) PROVE ActivityBound'
    BY <1>11 DEF Discover, Serve
<1>12. ASSUME NEW c \in Callers, TouchMarks(c) PROVE ActivityBound'
    BY <1>12 DEF TouchMarks, Serve, MarkActive
<1>13. ASSUME NEW c \in Callers, CreateMarks(c) PROVE ActivityBound'
    BY <1>13 DEF CreateMarks, Serve, MarkActive
<1>14. ASSUME NEW c \in Callers, CreateReuses(c) PROVE ActivityBound'
    BY <1>14 DEF CreateReuses, Serve, BackendLockFree
<1>15. ASSUME NEW c \in Callers, CreateWaits(c) PROVE ActivityBound'
    BY <1>15 DEF CreateWaits, Serve, BackendLockFree
<1>16. ASSUME NEW c \in Callers, CreateStarts(c) PROVE ActivityBound'
    BY <1>16 DEF CreateStarts, Serve, Lose, CommandsFail, Dead, BackendLockFree
<1>17. ASSUME NEW c \in Callers, CreateReady(c) PROVE ActivityBound'
    BY <1>17 DEF CreateReady, Serve
<1>18. ASSUME NEW c \in Callers, CreateFails(c) PROVE ActivityBound'
    BY <1>18 DEF CreateFails, Serve, Fault
<1>19. ASSUME NEW c \in Callers, DiscoverRaises(c) PROVE ActivityBound'
    BY <1>19 DEF DiscoverRaises, Serve, Fault
<1>20. ASSUME NEW p \in Processes, ProcessDies(p) PROVE ActivityBound'
    BY <1>20 DEF ProcessDies, Fault
<1>21. CASE ReaperCollects
    BY <1>21 DEF ReaperCollects, Expired
<1>22. CASE ReaperDeletes
    BY <1>22 DEF ReaperDeletes, Delete, Lose, CommandsFail, Dead
<1>23. CASE ReaperForgets
    BY <1>23 DEF ReaperForgets, Forget
<1>24. CASE ContainerReady
    BY <1>24 DEF ContainerReady
<1>25. CASE ApiShutsDown
    BY <1>25 DEF ApiShutsDown, Fault
<1>26. CASE ReleaseDeletes
    BY <1>26 DEF ReleaseDeletes, Delete, Lose, CommandsFail, Dead
<1>27. CASE ReleaseForgets
    BY <1>27 DEF ReleaseForgets, Forget
<1>28. CASE ReleaseRaises
    BY <1>28 DEF ReleaseRaises
<1>29. CASE ContainerBreaks
    BY <1>29 DEF ContainerBreaks, Fault, CommandsFail
<1>30. CASE ReaperDeleteRaises
    BY <1>30 DEF ReaperDeleteRaises, Fault
<1>31. CASE ProvisionerRestarts
    BY <1>31 DEF ProvisionerRestarts, Fault
<1>32. CASE Tick
    BY <1>32 DEF Tick, Least
<1>33. CASE UNCHANGED vars
    BY <1>33 DEF vars
<1> QED
    BY <1>1, <1>2, <1>3, <1>4, <1>5, <1>6, <1>7, <1>8, <1>9, <1>10, <1>11,
       <1>12, <1>13, <1>14, <1>15, <1>16, <1>17, <1>18, <1>19, <1>20, <1>21,
       <1>22, <1>23, <1>24, <1>25, <1>26, <1>27, <1>28, <1>29, <1>30, <1>31,
       <1>32, <1>33 DEF Next, Get, Returns, Provisions, Reaps, Failure

(* The inductive invariant: types, locks, and how old the reaper's mark of *)
(* the sandbox can be.                                                     *)
THEOREM SandboxInvariantHolds == Spec => []SandboxInvariant
<1>1. Init => SandboxInvariant
  BY SandboxAssumption, IdleType
     DEF Init, SandboxInvariant, TypeOK, Locked, ActivityBound, NotOlderThan
<1>2. SandboxInvariant /\ [Next]_vars => SandboxInvariant'
  BY TypeStep, LockedStep, BoundStep DEF SandboxInvariant
<1> QED
  BY <1>1, <1>2, PTL DEF Spec

(* With an idle timeout of at least the command's, the keep-alive's and    *)
(* the request's together, the reaper deletes no sandbox under a command.  *)
THEOREM RoomyReapsOnlyIdle ==
    ASSUME Idle >= Exec + Interval + Latency
    PROVE  Spec => ReapsOnlyIdle
<1>1. ASSUME SandboxInvariant, ReaperDeletes, NEW c \in Callers, phase[c] = "run"
      PROVE  activity < Idle
  <2>1. age[c] \in Nat /\ age[c] <= Exec
    BY <1>1 DEF SandboxInvariant, TypeOK
  <2>2. activity # Untracked => activity <= Latency + Interval - 1 + age[c]
    BY <1>1 DEF SandboxInvariant, ActivityBound, NotOlderThan
  <2>3. activity \in Untracked .. Idle
    BY <1>1 DEF SandboxInvariant, TypeOK
  <2> QED
    BY <2>1, <2>2, <2>3, SandboxAssumption, IdleType
<1>2. SandboxInvariant /\ [Next]_vars
          => [ReaperDeletes /\ (\E c \in Callers : phase[c] = "run")
                  => activity < Idle]_vars
  BY <1>1
<1> QED
  BY <1>2, SandboxInvariantHolds, PTL DEF Spec, ReapsOnlyIdle

(* The step of Tracked: the mark is lost only where cause says so. *)
LEMMA TrackedStep == TypeOK /\ Tracked /\ [Next]_vars => Tracked'
<1> SUFFICES ASSUME TypeOK, Tracked, [Next]_vars PROVE Tracked'
  OBVIOUS
<1> USE SandboxAssumption, IdleType DEF TypeOK, Tracked
<1>1. ASSUME NEW c \in Callers, GetCached(c) PROVE Tracked'
    BY <1>1 DEF GetCached, Enters, Use, ShouldTouch
<1>2. ASSUME NEW c \in Callers, GetTouches(c) PROVE Tracked'
    BY <1>2 DEF GetTouches, Enters, Ask
<1>3. ASSUME NEW c \in Callers, GetCreates(c) PROVE Tracked'
    BY <1>3 DEF GetCreates, Enters, Ask
<1>4. ASSUME NEW c \in Callers, TouchAlive(c) PROVE Tracked'
    BY <1>4 DEF TouchAlive, Answered, Use
<1>5. ASSUME NEW c \in Callers, TouchGone(c) PROVE Tracked'
    BY <1>5 DEF TouchGone, Answered, Ask
<1>6. ASSUME NEW c \in Callers, TouchRaises(c) PROVE Tracked'
    BY <1>6 DEF TouchRaises, Use
<1>7. ASSUME NEW c \in Callers, CreateDone(c) PROVE Tracked'
    BY <1>7 DEF CreateDone, Answered, Use
<1>8. ASSUME NEW c \in Callers, CreateRaises(c) PROVE Tracked'
    BY <1>8 DEF CreateRaises
<1>9. ASSUME NEW c \in Callers, AnswerDropped(c) PROVE Tracked'
    BY <1>9 DEF AnswerDropped
<1>10. ASSUME NEW c \in Callers, CommandEnds(c) PROVE Tracked'
    BY <1>10 DEF CommandEnds
<1>11. ASSUME NEW c \in Callers, Discover(c) PROVE Tracked'
    BY <1>11 DEF Discover, Serve
<1>12. ASSUME NEW c \in Callers, TouchMarks(c) PROVE Tracked'
    BY <1>12 DEF TouchMarks, Serve, MarkActive
<1>13. ASSUME NEW c \in Callers, CreateMarks(c) PROVE Tracked'
    BY <1>13 DEF CreateMarks, Serve, MarkActive
<1>14. ASSUME NEW c \in Callers, CreateReuses(c) PROVE Tracked'
    BY <1>14 DEF CreateReuses, Serve, BackendLockFree
<1>15. ASSUME NEW c \in Callers, CreateWaits(c) PROVE Tracked'
    BY <1>15 DEF CreateWaits, Serve, BackendLockFree
<1>16. ASSUME NEW c \in Callers, CreateStarts(c) PROVE Tracked'
    BY <1>16 DEF CreateStarts, Serve, Lose, CommandsFail, Dead, BackendLockFree
<1>17. ASSUME NEW c \in Callers, CreateReady(c) PROVE Tracked'
    BY <1>17 DEF CreateReady, Serve
<1>18. ASSUME NEW c \in Callers, CreateFails(c) PROVE Tracked'
    BY <1>18 DEF CreateFails, Serve, Fault
<1>19. ASSUME NEW c \in Callers, DiscoverRaises(c) PROVE Tracked'
    BY <1>19 DEF DiscoverRaises, Serve, Fault
<1>20. ASSUME NEW p \in Processes, ProcessDies(p) PROVE Tracked'
    BY <1>20 DEF ProcessDies, Fault
<1>21. CASE ReaperCollects
    BY <1>21 DEF ReaperCollects, Expired
<1>22. CASE ReaperDeletes
    BY <1>22 DEF ReaperDeletes, Delete, Lose, CommandsFail, Dead
<1>23. CASE ReaperForgets
    BY <1>23 DEF ReaperForgets, Forget
<1>24. CASE ContainerReady
    BY <1>24 DEF ContainerReady
<1>25. CASE ApiShutsDown
    BY <1>25 DEF ApiShutsDown, Fault
<1>26. CASE ReleaseDeletes
    BY <1>26 DEF ReleaseDeletes, Delete, Lose, CommandsFail, Dead
<1>27. CASE ReleaseForgets
    BY <1>27 DEF ReleaseForgets, Forget
<1>28. CASE ReleaseRaises
    BY <1>28 DEF ReleaseRaises
<1>29. CASE ContainerBreaks
    BY <1>29 DEF ContainerBreaks, Fault, CommandsFail
<1>30. CASE ReaperDeleteRaises
    BY <1>30 DEF ReaperDeleteRaises, Fault
<1>31. CASE ProvisionerRestarts
    BY <1>31 DEF ProvisionerRestarts, Fault
<1>32. CASE Tick
    BY <1>32 DEF Tick, Least
<1>33. CASE UNCHANGED vars
    BY <1>33 DEF vars
<1> QED
    BY <1>1, <1>2, <1>3, <1>4, <1>5, <1>6, <1>7, <1>8, <1>9, <1>10, <1>11,
       <1>12, <1>13, <1>14, <1>15, <1>16, <1>17, <1>18, <1>19, <1>20, <1>21,
       <1>22, <1>23, <1>24, <1>25, <1>26, <1>27, <1>28, <1>29, <1>30, <1>31,
       <1>32, <1>33 DEF Next, Get, Returns, Provisions, Reaps, Failure

(* A container the reaper has lost sight of was lost in one of three ways. *)
THEOREM TrackedHolds == Spec => []Tracked
<1>1. Init => Tracked
  BY DEF Init, Tracked
<1>2. TypeOK /\ Tracked /\ [Next]_vars => Tracked'
  BY TrackedStep
<1>3. Spec => []TypeOK
  BY SandboxInvariantHolds, PTL DEF SandboxInvariant
<1> QED
  BY <1>1, <1>2, <1>3, PTL DEF Spec
=============================================================================
