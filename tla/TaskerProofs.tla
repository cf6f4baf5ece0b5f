---------------------------- MODULE TaskerProofs ----------------------------
(* Proofs about Tasker for every number of tasks, workers and failures. *)
EXTENDS Tasker, TLAPS

(* The queue without its head, and with one task more. *)
LEMMA TailFacts ==
    ASSUME NEW S, NEW s \in Seq(S), s # <<>>
    PROVE  /\ Tail(s) \in Seq(S) /\ Head(s) \in S /\ Head(s) = s[1]
           /\ Len(s) \in Nat \ {0} /\ Len(Tail(s)) = Len(s) - 1
           /\ \A i \in 1 .. Len(Tail(s)) : Tail(s)[i] = s[i + 1] /\ i + 1 \in 1 .. Len(s)
  OBVIOUS

(* And the end of one. *)
LEMMA AppendFacts ==
    ASSUME NEW S, NEW s \in Seq(S), NEW e \in S
    PROVE  /\ Append(s, e) \in Seq(S) /\ Len(Append(s, e)) = Len(s) + 1 /\ Len(s) \in Nat
           /\ \A i \in 1 .. Len(s) : Append(s, e)[i] = s[i]
           /\ Append(s, e)[Len(s) + 1] = e
  OBVIOUS

(* What a failure costs. *)
LEMMA SpendType ==
    ASSUME NEW b \in Bounds, budget \in [Bounds -> Nat], Spend(b)
    PROVE  budget' \in [Bounds -> Nat]
  BY DEF Spend

(* Writing to the table and to the dictionary, for a worker without a task *)
(* too.                                                                    *)
LEMMA PersistType ==
    ASSUME TypeOK, NEW t \in Tasks \cup {"none"}, Persist(t)
    PROVE  row' \in [Tasks -> {"none"} \cup Active \cup Terminal]
  BY TasksAssumption DEF TypeOK, Persist

(* The dictionary. *)
LEMMA RememberType ==
    ASSUME TypeOK, NEW t \in Tasks \cup {"none"}, NEW s \in {"none"} \cup Active \cup Terminal,
           Remember(t, s)
    PROVE  mem' \in [Tasks -> {"none"} \cup Active \cup Terminal]
  BY TasksAssumption DEF TypeOK, Remember

(* The dictionary, the table, the lock and the workers keep their types. *)
THEOREM TypeCorrect == Spec => []TypeOK
<1>1. Init => TypeOK
  <2> SUFFICES ASSUME Init PROVE TypeOK
    OBVIOUS
  <2>1. cancelRequested \in [Tasks -> BOOLEAN] /\ locked \in BOOLEAN
    BY DEF Init
  <2>2. queue \in Seq(Tasks) /\ budget \in [Bounds -> Nat]
    BY DEF Init
  <2> QED
    BY <2>1, <2>2 DEF Init, TypeOK, Active, Terminal
<1>2. TypeOK /\ [Next]_vars => TypeOK'
  <2> SUFFICES ASSUME TypeOK, [Next]_vars PROVE TypeOK'
    OBVIOUS
  <2> USE DEF TypeOK, store, apiVars, pool, Active, Terminal
  <2>1. ASSUME NEW t \in Tasks, Enqueue(t) PROVE TypeOK'
    BY <2>1 DEF Enqueue, Locks, Lock, Remember
  <2>2. ASSUME NEW t \in Tasks, EnqueuePersisted(t) PROVE TypeOK'
    <3>1. queue' \in Seq(Tasks)
      BY <2>2, AppendFacts DEF EnqueuePersisted, QueuePut
    <3> QED
      BY <2>2, <3>1 DEF EnqueuePersisted, Persist, QueuePut, Unlock
  <2>3. ASSUME NEW t \in Tasks, EnqueueFails(t) PROVE TypeOK'
    <3>1. budget' \in [Bounds -> Nat]
      BY <2>3, SpendType DEF EnqueueFails, Bounds
    <3> QED
      BY <2>3, <3>1 DEF EnqueueFails, Unlock
  <2>4. ASSUME NEW t \in Tasks, CancelTask(t) PROVE TypeOK'
    <3>1. budget' \in [Bounds -> Nat]
      BY <2>4, SpendType DEF CancelTask, Bounds
    <3> QED
      BY <2>4, <3>1 DEF CancelTask, Lock
  <2>5. ASSUME NEW t \in Tasks, CancelPersisted(t) PROVE TypeOK'
    <3>1. budget' \in [Bounds -> Nat]
      BY <2>5, SpendType DEF CancelPersisted, Bounds
    <3>2. row' \in [Tasks -> {"none"} \cup Active \cup Terminal]
      BY <2>5, PersistType DEF CancelPersisted
    <3>3. locked' \in BOOLEAN
      BY <2>5 DEF CancelPersisted, Unlock
    <3> QED
      BY <2>5, <3>1, <3>2, <3>3 DEF CancelPersisted
  <2>6. ASSUME NEW t \in Tasks, DeleteTask(t) PROVE TypeOK'
    <3>1. budget' \in [Bounds -> Nat]
      BY <2>6, SpendType DEF DeleteTask, Bounds
    <3> QED
      BY <2>6, <3>1 DEF DeleteTask, Locks, Remember
  <2>7. ASSUME NEW t \in Tasks, DeleteRow(t) PROVE TypeOK'
    <3>1. budget' \in [Bounds -> Nat]
      BY <2>7, SpendType DEF DeleteRow, Bounds
    <3> QED
      BY <2>7, <3>1 DEF DeleteRow
  <2>8. ASSUME NEW w \in Workers, Looks(w) PROVE TypeOK'
    BY <2>8 DEF Looks, At, Locks, Rests, Will, Goes, MarkQueuedCancel
  <2>9. ASSUME NEW w \in Workers, Begins(w) PROVE TypeOK'
    BY <2>9 DEF Begins, At, Locks, Lock, Goes, Remember
  <2>10. ASSUME NEW w \in Workers, BeginPersisted(w) PROVE TypeOK'
    <3>1. budget' \in [Bounds -> Nat]
      BY <2>10, SpendType DEF BeginPersisted, Bounds
    <3>2. row' \in [Tasks -> {"none"} \cup Active \cup Terminal]
      BY <2>10, PersistType DEF BeginPersisted
    <3>3. locked' \in BOOLEAN
      BY <2>10 DEF BeginPersisted, Unlock
    <3>4. \E p \in {"work", "get"} : at' = [at EXCEPT ![w] = p]
      BY <2>10 DEF BeginPersisted, At, Goes, Rests, Will
    <3>7. at' \in [Workers -> {"get", "look", "begin", "beginning", "work", "reporting",
                           "mark", "marking", "over"}]
      BY <3>4
    <3>5. holds' \in [Workers -> Tasks \cup {"none"}]
      BY <2>10 DEF BeginPersisted, At, Goes, Rests, Will
    <3>6. out' \in [Workers -> Terminal \cup {"none", "overtaken"}]
      BY <2>10 DEF BeginPersisted, At, Goes, Rests, Will
    <3> QED
      BY <2>10, <3>1, <3>2, <3>3, <3>5, <3>6, <3>7 DEF BeginPersisted
  <2>11. ASSUME NEW w \in Workers, ReportPersisted(w) PROVE TypeOK'
    <3>1. budget' \in [Bounds -> Nat]
      BY <2>11, SpendType DEF ReportPersisted, Bounds
    <3>2. row' \in [Tasks -> {"none"} \cup Active \cup Terminal]
      BY <2>11, PersistType DEF ReportPersisted
    <3>3. locked' \in BOOLEAN
      BY <2>11 DEF ReportPersisted, Unlock
    <3>4. at' \in [Workers -> {"get", "look", "begin", "beginning", "work", "reporting",
                           "mark", "marking", "over"}]
      BY <2>11 DEF ReportPersisted, At, Goes, Will
    <3>5. holds' \in [Workers -> Tasks \cup {"none"}]
      BY <2>11 DEF ReportPersisted, At, Goes, Will
    <3>6. out' \in [Workers -> Terminal \cup {"none", "overtaken"}]
      BY <2>11 DEF ReportPersisted, At, Goes, Will
    <3> QED
      BY <2>11, <3>1, <3>2, <3>3, <3>4, <3>5, <3>6 DEF ReportPersisted
  <2>12. ASSUME NEW w \in Workers, Marks(w) PROVE TypeOK'
    <3>1. locked' \in BOOLEAN
      BY <2>12 DEF Marks, Locks, Lock
    <3>2. StatusOf(out[w]) \in {"none"} \cup Active \cup Terminal
      BY DEF StatusOf
    <3>3. mem' \in [Tasks -> {"none"} \cup Active \cup Terminal]
      BY <2>12, <3>2, RememberType DEF Marks
    <3>4. \E p \in {"marking", "get"} : at' = [at EXCEPT ![w] = p]
      BY <2>12 DEF Marks, Rests, Goes, Will
    <3>7. at' \in [Workers -> {"get", "look", "begin", "beginning", "work", "reporting",
                           "mark", "marking", "over"}]
      BY <3>4
    <3>5. holds' \in [Workers -> Tasks \cup {"none"}]
      BY <2>12 DEF Marks, At, Rests, Goes, Will
    <3>6. out' \in [Workers -> Terminal \cup {"none", "overtaken"}]
      BY <2>12 DEF Marks, At, Rests, Goes, Will
    <3> QED
      BY <2>12, <3>1, <3>3, <3>5, <3>6, <3>7 DEF Marks
  <2>13. ASSUME NEW w \in Workers, MarkPersisted(w) PROVE TypeOK'
    <3>1. budget' \in [Bounds -> Nat]
      BY <2>13, SpendType DEF MarkPersisted, Bounds
    <3>2. row' \in [Tasks -> {"none"} \cup Active \cup Terminal]
      BY <2>13, PersistType DEF MarkPersisted
    <3>3. locked' \in BOOLEAN
      BY <2>13 DEF MarkPersisted, Unlock
    <3>4. at' \in [Workers -> {"get", "look", "begin", "beginning", "work", "reporting",
                           "mark", "marking", "over"}]
      BY <2>13 DEF MarkPersisted, At, Rests, Will, Goes, InTry
    <3>5. holds' \in [Workers -> Tasks \cup {"none"}]
      BY <2>13 DEF MarkPersisted, At, Rests, Will, Goes, InTry
    <3>6. out' \in [Workers -> Terminal \cup {"none", "overtaken"}]
      BY <2>13 DEF MarkPersisted, At, Rests, Will, Goes, InTry
    <3> QED
      BY <2>13, <3>1, <3>2, <3>3, <3>4, <3>5, <3>6 DEF MarkPersisted
  <2>14. ASSUME NEW w \in Workers, Strikes(w) PROVE TypeOK'
    BY <2>14 DEF Strikes, Rests, Will, Goes, LeavesLoop, BreaksOut
  <2>15. ASSUME NEW w \in Workers, Takes(w) PROVE TypeOK'
    <3>1. queue' \in Seq(Tasks) /\ holds' \in [Workers -> Tasks \cup {"none"}]
      BY <2>15, TailFacts DEF Takes, At
    <3> QED
      BY <2>15, <3>1 DEF Takes, At, Goes
  <2>16. ASSUME NEW w \in Workers, Reports(w) PROVE TypeOK'
    BY <2>16 DEF Reports, At, Lock, Goes
  <2>17. ASSUME NEW w \in Workers, Returns(w) PROVE TypeOK'
    BY <2>17 DEF Returns, At, Will, Goes, Outcome
  <2>18. ASSUME NEW w \in Workers, Raises(w) PROVE TypeOK'
    BY <2>18 DEF Raises, At, Will, Goes
  <2>19. ASSUME ShutdownBegins PROVE TypeOK'
    BY <2>19 DEF ShutdownBegins, Lock
  <2>20. ASSUME ShutdownIsOver PROVE TypeOK'
    BY <2>20 DEF ShutdownIsOver, Unlock
  <2>21. ASSUME Restart PROVE TypeOK'
    <3>1. budget' \in [Bounds -> Nat]
      BY <2>21, SpendType DEF Restart, Bounds
    <3>2. row' \in [Tasks -> {"none"} \cup Active \cup Terminal]
      BY <2>21 DEF Restart, Recovered
    <3>3. queue' \in Seq(Tasks)
      <4>1. queue' = <<>>
        BY <2>21 DEF Restart
      <4> QED
        BY <4>1
    <3>4. locked' \in BOOLEAN
      BY <2>21 DEF Restart
    <3>5. api' \in [Tasks -> {"new", "refused", "persisting", "enqueued", "failed"}]
      BY <2>21 DEF Restart
    <3> QED
      BY <2>21, <3>1, <3>2, <3>3, <3>4, <3>5 DEF Restart
  <2>22. CASE UNCHANGED vars
    BY <2>22 DEF vars
  <2> QED
    BY <2>1, <2>2, <2>3, <2>4, <2>5, <2>6, <2>7, <2>8, <2>9, <2>10, <2>11, <2>12, <2>13,
       <2>14, <2>15, <2>16, <2>17, <2>18, <2>19, <2>20, <2>21, <2>22 DEF Next, ApiNext,
       WorkerSteps
<1> QED
  BY <1>1, <1>2, PTL DEF Spec

(* Steps that leave the queue, the dictionary and the workers alone. *)
LEMMA Frame ==
    ASSUME BuildInvariant, UNCHANGED <<mem, api, queue, at, holds>>
    PROVE  BuildInvariant'
  BY DEF BuildInvariant, InOnePlace, StatusByPlace, OneActiveBuild

(* A worker goes on with its task, whose status allows its next place. *)
LEMMA GoesOn ==
    ASSUME TypeOK, BuildInvariant, NEW w \in Workers,
           NEW p \in {"begin", "work", "reporting", "mark"},
           UNCHANGED <<mem, api, queue, holds>>, at' = [at EXCEPT ![w] = p],
           at[w] \notin {"get", "over"},
           p = "begin" => at[w] = "look",
           p \in {"work", "reporting"} => mem[holds[w]] \in {"none", "running"}
    PROVE  BuildInvariant'
<1>1. InOnePlace'
  BY DEF TypeOK, BuildInvariant, InOnePlace
<1>2. StatusByPlace'
  BY DEF TypeOK, BuildInvariant, StatusByPlace
<1> QED
  BY <1>1, <1>2 DEF BuildInvariant, OneActiveBuild

(* A worker lets its task go. *)
LEMMA LetsGo ==
    ASSUME TypeOK, BuildInvariant, NEW w \in Workers, NEW p \in {"get", "over"},
           UNCHANGED <<mem, api, queue>>, at' = [at EXCEPT ![w] = p],
           holds' = [holds EXCEPT ![w] = "none"]
    PROVE  BuildInvariant'
<1>0. \A i \in 1 .. Len(queue) : queue[i] \in Tasks
  BY DEF TypeOK
<1>1. InOnePlace'
  <2>1. \A u, v \in Workers : holds'[u] = holds'[v] /\ holds'[u] # "none" => u = v
    BY DEF TypeOK, BuildInvariant, InOnePlace
  <2>2. \A i \in 1 .. Len(queue), v \in Workers : queue[i] # holds'[v]
    BY <1>0, TasksAssumption DEF TypeOK, BuildInvariant, InOnePlace
  <2>3. \A v \in Workers : holds'[v] # "none" => api[holds'[v]] = "enqueued"
    BY DEF TypeOK, BuildInvariant, InOnePlace
  <2>4. \A v \in Workers : at'[v] \in {"get", "over"} <=> holds'[v] = "none"
    BY DEF TypeOK, BuildInvariant, InOnePlace
  <2> QED
    BY <2>1, <2>2, <2>3, <2>4 DEF BuildInvariant, InOnePlace
<1>2. StatusByPlace'
  BY DEF TypeOK, BuildInvariant, StatusByPlace
<1> QED
  BY <1>1, <1>2 DEF BuildInvariant, OneActiveBuild

(* A worker writes the status of its own task into the dictionary. *)
LEMMA WritesStatus ==
    ASSUME TypeOK, BuildInvariant, NEW w \in Workers, NEW p, NEW s,
           UNCHANGED <<api, queue, holds>>, at' = [at EXCEPT ![w] = p],
           mem' = [mem EXCEPT ![holds[w]] = s], mem[holds[w]] # "none",
           \/ at[w] = "begin" /\ p = "beginning" /\ s = "running"
           \/ at[w] = "mark" /\ p = "marking" /\ s \in {"none"} \cup Terminal
    PROVE  BuildInvariant'
<1>1. holds[w] # "none" /\ holds[w] \in Tasks /\ api[holds[w]] = "enqueued"
  BY DEF TypeOK, BuildInvariant, InOnePlace
<1>2. InOnePlace'
  BY DEF TypeOK, BuildInvariant, InOnePlace
<1>3. mem'[holds[w]] = s /\ \A t \in Tasks : t # holds[w] => mem'[t] = mem[t]
  BY <1>1 DEF TypeOK
<1>4. StatusByPlace'
  <2>1. \A t \in Tasks : api[t] = "persisting" => mem'[t] \in {"none", "pending"}
    BY <1>1, <1>3 DEF BuildInvariant, StatusByPlace
  <2>2. \A i \in 1 .. Len(queue) : mem'[queue[i]] \in {"none", "pending"}
    <3>1. \A i \in 1 .. Len(queue) : queue[i] \in Tasks /\ queue[i] # holds[w]
      BY DEF TypeOK, BuildInvariant, InOnePlace
    <3> QED
      BY <3>1, <1>3 DEF BuildInvariant, StatusByPlace
  <2>3. ASSUME NEW v \in Workers, v # w, at[v] \notin {"get", "over"}
        PROVE  at'[v] = at[v] /\ mem'[holds[v]] = mem[holds[v]]
    <3>1. holds[v] \in Tasks /\ holds[v] # holds[w]
      BY <2>3, <1>1 DEF TypeOK, BuildInvariant, InOnePlace
    <3> QED
      BY <3>1, <2>3, <1>3 DEF TypeOK
  <2>4. at'[w] = p /\ p \in {"beginning", "marking"} /\ (p = "beginning" => s = "running")
    BY DEF TypeOK
  <2>5. \A v \in Workers : v # w => at'[v] = at[v]
    BY DEF TypeOK
  <2>6. \A v \in Workers : at'[v] \in {"look", "begin"} => mem'[holds[v]] \in {"none", "pending"}
    BY <2>3, <2>4, <2>5 DEF BuildInvariant, StatusByPlace
  <2>7. \A v \in Workers :
            at'[v] \in {"beginning", "work", "reporting"} => mem'[holds[v]] \in {"none", "running"}
    BY <2>3, <2>4, <2>5, <1>3 DEF BuildInvariant, StatusByPlace
  <2> QED
    BY <2>1, <2>2, <2>6, <2>7 DEF StatusByPlace
<1>5. OneActiveBuild'
  <2>1. at[w] = "begin" => mem[holds[w]] = "pending"
    BY DEF BuildInvariant, StatusByPlace
  <2>2. \A t \in Tasks : mem'[t] \in Active => mem[t] \in Active
    BY <1>1, <1>3, <2>1 DEF Active, Terminal
  <2> QED
    BY <2>2, TasksAssumption DEF BuildInvariant, OneActiveBuild
<1> QED
  BY <1>2, <1>4, <1>5 DEF BuildInvariant

(* An empty dictionary and queue, and idle workers. *)
LEMMA FreshStart ==
    ASSUME mem' = [t \in Tasks |-> "none"], queue' = <<>>,
           at' = [w \in Workers |-> "get"], holds' = [w \in Workers |-> "none"]
    PROVE  BuildInvariant'
<1>1. \A i \in 1 .. Len(queue') : FALSE
  OBVIOUS
<1>2. InOnePlace'
  BY <1>1 DEF InOnePlace
<1>3. StatusByPlace'
  BY <1>1 DEF StatusByPlace
<1>4. OneActiveBuild'
  BY TasksAssumption DEF OneActiveBuild, Active
<1> QED
  BY <1>2, <1>3, <1>4 DEF BuildInvariant

(* The invariant behind OneBuild is inductive. *)
LEMMA BuildStep == TypeOK /\ BuildInvariant /\ [Next]_vars => BuildInvariant'
<1> SUFFICES ASSUME TypeOK, BuildInvariant, [Next]_vars PROVE BuildInvariant'
  OBVIOUS
<1> USE DEF store, apiVars, pool
<1>1. ASSUME NEW t \in Tasks, Enqueue(t) PROVE BuildInvariant'
  <2>0. api[t] = "new" /\ UNCHANGED <<queue, at, holds>>
    BY <1>1 DEF Enqueue
  <2>1. CASE Existing(t)
    <3>1. api' = [api EXCEPT ![t] = "refused"] /\ UNCHANGED mem
      BY <1>1, <2>1 DEF Enqueue
    <3>2. InOnePlace'
      BY <2>0, <3>1 DEF TypeOK, BuildInvariant, InOnePlace
    <3>3. StatusByPlace'
      BY <2>0, <3>1 DEF TypeOK, BuildInvariant, StatusByPlace
    <3> QED
      BY <3>1, <3>2, <3>3 DEF BuildInvariant, OneActiveBuild
  <2>2. CASE ~Existing(t)
    <3>1. api' = [api EXCEPT ![t] = "persisting"] /\ mem' = [mem EXCEPT ![t] = "pending"]
      BY <1>1, <2>2 DEF Enqueue, Remember
    <3>2. InOnePlace'
      BY <2>0, <3>1 DEF TypeOK, BuildInvariant, InOnePlace
    <3>3. \A u \in Tasks : u # t => mem'[u] = mem[u] /\ api'[u] = api[u]
      BY <3>1 DEF TypeOK
    <3>4. mem'[t] = "pending"
      BY <3>1 DEF TypeOK
    <3>5. StatusByPlace'
      <4>1. \A u \in Tasks : api'[u] = "persisting" => mem'[u] \in {"none", "pending"}
        BY <3>3, <3>4 DEF BuildInvariant, StatusByPlace
      <4>2. \A i \in 1 .. Len(queue) : queue[i] \in Tasks /\ mem'[queue[i]] \in {"none", "pending"}
        BY <3>3, <3>4 DEF TypeOK, BuildInvariant, StatusByPlace
      <4>3. \A w \in Workers : at[w] \notin {"get", "over"} => holds[w] \in Tasks /\ holds[w] # t
        BY <2>0 DEF TypeOK, BuildInvariant, InOnePlace
      <4> QED
        BY <2>0, <3>3, <4>1, <4>2, <4>3 DEF BuildInvariant, StatusByPlace
    <3>6. OneActiveBuild'
      BY <2>2, <3>3, TasksAssumption DEF BuildInvariant, OneActiveBuild, Existing
    <3> QED
      BY <3>2, <3>5, <3>6 DEF BuildInvariant
  <2> QED
    BY <2>1, <2>2
<1>2. ASSUME NEW t \in Tasks, EnqueuePersisted(t) PROVE BuildInvariant'
  <2>0. /\ queue' = Append(queue, t) /\ queue \in Seq(Tasks) /\ api[t] = "persisting"
        /\ api' = [api EXCEPT ![t] = "enqueued"] /\ UNCHANGED <<mem, at, holds>>
    BY <1>2 DEF EnqueuePersisted, QueuePut, TypeOK
  <2>9. /\ Len(queue') = Len(queue) + 1 /\ Len(queue) \in Nat
        /\ \A i \in 1 .. Len(queue) : queue'[i] = queue[i] /\ queue'[Len(queue) + 1] = t
    BY <2>0, AppendFacts
  <2>1. InOnePlace'
    BY <2>0, <2>9, TasksAssumption DEF TypeOK, BuildInvariant, InOnePlace
  <2>2. StatusByPlace'
    BY <2>0, <2>9 DEF TypeOK, BuildInvariant, StatusByPlace
  <2> QED
    BY <2>0, <2>1, <2>2 DEF BuildInvariant, OneActiveBuild
<1>3. ASSUME NEW t \in Tasks, EnqueueFails(t) PROVE BuildInvariant'
  <2>0. /\ api[t] = "persisting" /\ api' = [api EXCEPT ![t] = "failed"]
        /\ UNCHANGED <<mem, queue, at, holds>>
    BY <1>3 DEF EnqueueFails
  <2>1. InOnePlace'
    BY <2>0 DEF TypeOK, BuildInvariant, InOnePlace
  <2>2. StatusByPlace'
    BY <2>0 DEF TypeOK, BuildInvariant, StatusByPlace
  <2> QED
    BY <2>0, <2>1, <2>2 DEF BuildInvariant, OneActiveBuild
<1>4. ASSUME NEW t \in Tasks, CancelTask(t) PROVE BuildInvariant'
  BY <1>4, Frame DEF CancelTask
<1>5. ASSUME NEW t \in Tasks, CancelPersisted(t) PROVE BuildInvariant'
  BY <1>5, Frame DEF CancelPersisted
<1>6. ASSUME NEW t \in Tasks, DeleteTask(t) PROVE BuildInvariant'
  <2>0. mem' = [mem EXCEPT ![t] = "none"] /\ UNCHANGED <<api, queue, at, holds>>
    BY <1>6 DEF DeleteTask, Remember
  <2>1. InOnePlace'
    BY <2>0 DEF BuildInvariant, InOnePlace
  <2>2. StatusByPlace'
    BY <2>0 DEF TypeOK, BuildInvariant, StatusByPlace
  <2>3. OneActiveBuild'
    BY <2>0, TasksAssumption DEF TypeOK, BuildInvariant, OneActiveBuild, Active
  <2> QED
    BY <2>1, <2>2, <2>3 DEF BuildInvariant
<1>7. ASSUME NEW t \in Tasks, DeleteRow(t) PROVE BuildInvariant'
  BY <1>7, Frame DEF DeleteRow
<1>8. ASSUME NEW w \in Workers, Looks(w) PROVE BuildInvariant'
  <2>0. at[w] = "look" /\ UNCHANGED <<mem, api, queue>>
    BY <1>8 DEF Looks, At
  <2>1. CASE Rests(w, "get")
    BY <2>0, <2>1, LetsGo DEF Rests, Will, Goes
  <2>2. CASE MarkQueuedCancel(w)
    BY <2>0, <2>2, GoesOn DEF MarkQueuedCancel, Will, Goes
  <2>3. CASE Goes(w, "begin") /\ UNCHANGED holds
    BY <2>0, <2>3, GoesOn DEF Goes
  <2> QED
    BY <1>8, <2>1, <2>2, <2>3 DEF Looks
<1>9. ASSUME NEW w \in Workers, Begins(w) PROVE BuildInvariant'
  <2>0. at[w] = "begin" /\ UNCHANGED <<api, queue, holds>>
    BY <1>9 DEF Begins, At
  <2>1. CASE mem[holds[w]] = "none"
    BY <1>9, <2>0, <2>1, GoesOn DEF Begins, Goes
  <2>2. CASE mem[holds[w]] # "none"
    <3>1. at' = [at EXCEPT ![w] = "beginning"] /\ mem' = [mem EXCEPT ![holds[w]] = "running"]
      BY <1>9, <2>2 DEF Begins, Goes, Remember
    <3> QED
      BY <2>0, <2>2, <3>1, WritesStatus
  <2> QED
    BY <2>1, <2>2
<1>10. ASSUME NEW w \in Workers, BeginPersisted(w) PROVE BuildInvariant'
  <2>0. at[w] = "beginning" /\ UNCHANGED <<mem, api, queue>>
    BY <1>10 DEF BeginPersisted, At
  <2>1. mem[holds[w]] \in {"none", "running"}
    BY <2>0 DEF BuildInvariant, StatusByPlace
  <2>2. CASE Goes(w, "work") /\ UNCHANGED holds
    BY <2>0, <2>1, <2>2, GoesOn DEF Goes
  <2>3. CASE Rests(w, "get")
    BY <2>0, <2>3, LetsGo DEF Rests, Will, Goes
  <2> QED
    BY <1>10, <2>2, <2>3 DEF BeginPersisted
<1>11. ASSUME NEW w \in Workers, ReportPersisted(w) PROVE BuildInvariant'
  <2>0. at[w] = "reporting" /\ UNCHANGED <<mem, api, queue, holds>>
    BY <1>11 DEF ReportPersisted, At
  <2>1. mem[holds[w]] \in {"none", "running"}
    BY <2>0 DEF BuildInvariant, StatusByPlace
  <2>2. CASE Goes(w, "work")
    BY <2>0, <2>1, <2>2, GoesOn DEF Goes
  <2>3. CASE Goes(w, "mark")
    BY <2>0, <2>3, GoesOn DEF Goes
  <2> QED
    BY <1>11, <2>2, <2>3 DEF ReportPersisted, Will
<1>12. ASSUME NEW w \in Workers, Marks(w) PROVE BuildInvariant'
  <2>0. at[w] = "mark" /\ UNCHANGED <<api, queue>>
    BY <1>12 DEF Marks, At
  <2>1. CASE mem[holds[w]] = "none"
    BY <1>12, <2>0, <2>1, LetsGo DEF Marks, Rests, Will, Goes
  <2>2. CASE mem[holds[w]] # "none"
    <3>1. /\ at' = [at EXCEPT ![w] = "marking"] /\ UNCHANGED holds
          /\ mem' = [mem EXCEPT ![holds[w]] = StatusOf(out[w])]
      BY <1>12, <2>2 DEF Marks, Goes, Remember
    <3>2. StatusOf(out[w]) \in {"none"} \cup Terminal
      BY DEF StatusOf, TypeOK, Terminal
    <3> QED
      BY <2>0, <2>2, <3>1, <3>2, WritesStatus
  <2> QED
    BY <2>1, <2>2
<1>13. ASSUME NEW w \in Workers, MarkPersisted(w) PROVE BuildInvariant'
  <2>0. at[w] = "marking" /\ UNCHANGED <<mem, api, queue>>
    BY <1>13 DEF MarkPersisted, At
  <2>1. CASE Rests(w, "get")
    BY <2>0, <2>1, LetsGo DEF Rests, Will, Goes
  <2>2. CASE Will(w, "mark", "failed") /\ UNCHANGED holds
    BY <2>0, <2>2, GoesOn DEF Will, Goes
  <2> QED
    BY <1>13, <2>1, <2>2 DEF MarkPersisted
<1>14. ASSUME NEW w \in Workers, Strikes(w) PROVE BuildInvariant'
  <2>0. UNCHANGED <<mem, api, queue>>
    BY <1>14 DEF Strikes
  <2>1. CASE BreaksOut(w)
    BY <1>14, <2>0, <2>1, LetsGo DEF Strikes, LeavesLoop, Rests, Will, Goes
  <2>2. CASE ~BreaksOut(w)
    <3>1. at' = [at EXCEPT ![w] = "mark"] /\ UNCHANGED holds
      BY <1>14, <2>2 DEF Strikes, Will, Goes
    <3>2. at[w] \notin {"get", "over"}
      BY <1>14, <2>2 DEF Strikes, BreaksOut
    <3> QED
      BY <2>0, <3>1, <3>2, GoesOn
  <2> QED
    BY <2>1, <2>2
<1>15. ASSUME NEW w \in Workers, Takes(w) PROVE BuildInvariant'
  <2>0. /\ queue' = Tail(queue) /\ queue \in Seq(Tasks) /\ queue # <<>> /\ at[w] = "get"
        /\ holds' = [holds EXCEPT ![w] = Head(queue)] /\ at' = [at EXCEPT ![w] = "look"]
        /\ UNCHANGED <<mem, api>>
    BY <1>15 DEF Takes, At, Goes, TypeOK
  <2>9. /\ Head(queue) = queue[1] /\ Len(queue) \in Nat \ {0} /\ Len(queue') = Len(queue) - 1
        /\ \A i \in 1 .. Len(queue') : queue'[i] = queue[i + 1] /\ i + 1 \in 1 .. Len(queue)
    BY <2>0, TailFacts
  <2>1. InOnePlace'
    BY <2>0, <2>9, TasksAssumption DEF TypeOK, BuildInvariant, InOnePlace
  <2>2. StatusByPlace'
    BY <2>0, <2>9, TasksAssumption DEF TypeOK, BuildInvariant, InOnePlace, StatusByPlace,
       Active, Terminal
  <2> QED
    BY <2>0, <2>1, <2>2 DEF BuildInvariant, OneActiveBuild
<1>16. ASSUME NEW w \in Workers, Reports(w) PROVE BuildInvariant'
  <2>0. /\ at[w] = "work" /\ at' = [at EXCEPT ![w] = "reporting"]
        /\ UNCHANGED <<mem, api, queue, holds>>
    BY <1>16 DEF Reports, At, Goes
  <2>1. mem[holds[w]] \in {"none", "running"}
    BY <2>0 DEF BuildInvariant, StatusByPlace
  <2> QED
    BY <2>0, <2>1, GoesOn
<1>17. ASSUME NEW w \in Workers, Returns(w) PROVE BuildInvariant'
  BY <1>17, GoesOn DEF Returns, At, Will, Goes
<1>18. ASSUME NEW w \in Workers, Raises(w) PROVE BuildInvariant'
  BY <1>18, GoesOn DEF Raises, At, Will, Goes
<1>19. ASSUME ShutdownBegins PROVE BuildInvariant'
  BY <1>19, Frame DEF ShutdownBegins
<1>20. ASSUME ShutdownIsOver PROVE BuildInvariant'
  BY <1>20, Frame DEF ShutdownIsOver
<1>21. ASSUME Restart PROVE BuildInvariant'
  <2>1. /\ mem' = [t \in Tasks |-> "none"] /\ queue' = <<>>
        /\ at' = [w \in Workers |-> "get"] /\ holds' = [w \in Workers |-> "none"]
    BY <1>21 DEF Restart
  <2> QED
    BY <2>1, FreshStart
<1>22. CASE UNCHANGED vars
  BY <1>22, Frame DEF vars
<1> QED
  BY <1>1, <1>2, <1>3, <1>4, <1>5, <1>6, <1>7, <1>8, <1>9, <1>10, <1>11, <1>12, <1>13, <1>14,
     <1>15, <1>16, <1>17, <1>18, <1>19, <1>20, <1>21, <1>22 DEF Next, ApiNext, WorkerSteps

(* Nobody has a task yet. *)
LEMMA BuildInit == Init => BuildInvariant
<1> SUFFICES ASSUME Init PROVE BuildInvariant
  OBVIOUS
<1>1. /\ mem = [t \in Tasks |-> "none"] /\ queue = <<>>
      /\ at = [w \in Workers |-> "get"] /\ holds = [w \in Workers |-> "none"]
  BY DEF Init
<1>2. \A i \in 1 .. Len(queue) : FALSE
  BY <1>1
<1>3. InOnePlace
  BY <1>1, <1>2 DEF InOnePlace
<1>4. StatusByPlace
  BY <1>1, <1>2 DEF StatusByPlace
<1>5. OneActiveBuild
  BY <1>1, TasksAssumption DEF OneActiveBuild, Active
<1> QED
  BY <1>3, <1>4, <1>5 DEF BuildInvariant

(* Every reachable state has each task in one place with the status of that *)
(* place, and at most one active build.                                    *)
THEOREM BuildCorrect == Spec => []BuildInvariant
  BY BuildInit, BuildStep, TypeCorrect, PTL DEF Spec

(* Two builds of one knowledge base only work together if one was deleted. *)
THEOREM OneBuildCorrect == Spec => []OneBuild
<1>1. TypeOK /\ BuildInvariant => OneBuild
  <2> SUFFICES ASSUME TypeOK, BuildInvariant,
                      NEW v \in Workers, NEW w \in Workers, v # w, Working(v), Working(w),
                      holds[v] \in Builds, holds[w] \in Builds,
                      mem[holds[v]] # "none", mem[holds[w]] # "none"
               PROVE  FALSE
    BY DEF OneBuild
  <2>1. mem[holds[v]] = "running" /\ mem[holds[w]] = "running"
    BY DEF BuildInvariant, StatusByPlace, Working
  <2>2. holds[v] = holds[w]
    BY <2>1 DEF BuildInvariant, OneActiveBuild, Active
  <2>3. holds[v] # "none"
    BY TasksAssumption
  <2> QED
    BY <2>2, <2>3 DEF BuildInvariant, InOnePlace
<1> QED
  BY <1>1, TypeCorrect, BuildCorrect, PTL

-----------------------------------------------------------------------------
(* What the lock, the table and the history add to the invariant.          *)

Writing(w) == at[w] \in {"beginning", "reporting", "marking"}

(* One at most holds the lock: a request that persists its task, one that   *)
(* persists a cancellation, a worker at a write, or the shutdown.          *)
OneHolder ==
    /\ ~locked => /\ cancelling = {} /\ phase # "stopping"
                  /\ \A t \in Tasks : api[t] # "persisting"
                  /\ \A w \in Workers : ~Writing(w)
    /\ \A t \in Tasks : api[t] = "persisting" =>
           /\ cancelling = {} /\ phase # "stopping"
           /\ \A u \in Tasks : api[u] = "persisting" => u = t
           /\ \A w \in Workers : ~Writing(w)
    /\ \A t \in cancelling :
           phase # "stopping" /\ cancelling = {t} /\ \A w \in Workers : ~Writing(w)
    /\ \A w \in Workers : Writing(w) =>
           phase # "stopping" /\ \A v \in Workers : Writing(v) => v = w

(* A task's status at the steps that the invariant of the builds leaves out. *)
StatusByStep ==
    /\ \A t \in Tasks : api[t] = "new" =>
           mem[t] = "none" /\ row[t] = "none" /\ t \notin deleting
    /\ \A t \in cancelling : mem[t] \in Active
    /\ \A t \in deleting : mem[t] = "none"
    /\ \A w \in Workers : at[w] = "marking" => mem[holds[w]] \notin Active
    /\ phase = "up" => struck = {}
    /\ phase = "down" => \A w \in Workers : at[w] = "over"

(* A task whose row says how it ended is deleted, or nobody's any more.     *)
EndedIsReleased == \A t \in Tasks : row[t] \in Terminal =>
    \/ mem[t] = "none"
    \/ /\ mem[t] = row[t] /\ api[t] # "persisting"
       /\ \A i \in 1 .. Len(queue) : queue[i] # t
       /\ \A w \in Workers : holds[w] # t

(* The table lags behind memory only for the task that is being written.    *)
Unwritten(t) ==
    \/ api[t] = "persisting" \/ t \in cancelling
    \/ \E w \in Workers : holds[w] = t /\ Writing(w)
SavedOrUnwritten == budget["faults"] = 0 => \A t \in Tasks :
    \/ row[t] = mem[t] \/ t \in deleting \/ Unwritten(t)
    \/ mem[t] = "none" /\ budget["restarts"] > 0

(* A worker about to report a success knows of no cancellation in time.    *)
SuccessIsLate == \A w \in Workers :
    at[w] \in {"mark", "marking"} /\ out[w] = "success" /\ cancelRequested[holds[w]]
        => holds[w] \in late

TaskInvariant ==
    /\ OneHolder /\ StatusByStep /\ EndedIsReleased /\ SavedOrUnwritten
    /\ ActiveIsCarried /\ SuccessIsLate /\ CancelBeatsSuccess

-----------------------------------------------------------------------------
(* A step takes the lock when nobody holds it, or lets it go. *)
LEMMA HolderStep ==
    ASSUME TypeOK, BuildInvariant, OneHolder, [Next]_vars
    PROVE  OneHolder'
<1> USE DEF store, apiVars, pool, TypeOK, OneHolder, Writing
<1>1. ASSUME NEW t \in Tasks, Enqueue(t) PROVE OneHolder'
  BY <1>1 DEF Enqueue, Existing, Locks, Lock, Remember
<1>2. ASSUME NEW t \in Tasks, EnqueuePersisted(t) PROVE OneHolder'
  BY <1>2 DEF EnqueuePersisted, Persist, QueuePut, Unlock
<1>3. ASSUME NEW t \in Tasks, EnqueueFails(t) PROVE OneHolder'
  BY <1>3 DEF EnqueueFails, Unlock
<1>4. ASSUME NEW t \in Tasks, CancelTask(t) PROVE OneHolder'
  BY <1>4 DEF CancelTask, Lock, CoroutineOver
<1>5. ASSUME NEW t \in Tasks, CancelPersisted(t) PROVE OneHolder'
  BY <1>5 DEF CancelPersisted, Persist, Unlock
<1>6. ASSUME NEW t \in Tasks, DeleteTask(t) PROVE OneHolder'
  BY <1>6 DEF DeleteTask, Locks, Remember
<1>7. ASSUME NEW t \in Tasks, DeleteRow(t) PROVE OneHolder'
  BY <1>7 DEF DeleteRow
<1>8. ASSUME NEW w \in Workers, Looks(w) PROVE OneHolder'
  BY <1>8 DEF Looks, At, Locks, Rests, Will, Goes, MarkQueuedCancel
<1>9. ASSUME NEW w \in Workers, Begins(w) PROVE OneHolder'
  BY <1>9 DEF Begins, At, Locks, Lock, Goes, Remember
<1>10. ASSUME NEW w \in Workers, BeginPersisted(w) PROVE OneHolder'
  <2>1. /\ Writing(w) /\ locked' = FALSE /\ UNCHANGED <<api, cancelling, phase>>
        /\ \E p \in {"work", "get", "mark"} : at' = [at EXCEPT ![w] = p]
    BY <1>10 DEF BeginPersisted, At, Unlock, Persist, Goes, Rests, Will
  <2>2. ~Writing(w)' /\ \A v \in Workers : v # w => (Writing(v)' <=> Writing(v))
    BY <2>1
  <2> QED
    BY <2>1, <2>2
<1>11. ASSUME NEW w \in Workers, ReportPersisted(w) PROVE OneHolder'
  <2>1. /\ Writing(w) /\ locked' = FALSE /\ UNCHANGED <<api, cancelling, phase>>
        /\ \E p \in {"work", "get", "mark"} : at' = [at EXCEPT ![w] = p]
    BY <1>11 DEF ReportPersisted, At, Unlock, Persist, Goes, Will
  <2>2. ~Writing(w)' /\ \A v \in Workers : v # w => (Writing(v)' <=> Writing(v))
    BY <2>1
  <2> QED
    BY <2>1, <2>2
<1>12. ASSUME NEW w \in Workers, Marks(w) PROVE OneHolder'
  BY <1>12 DEF Marks, At, Locks, Lock, Goes, Rests, Will, Remember, StatusOf
<1>13. ASSUME NEW w \in Workers, MarkPersisted(w) PROVE OneHolder'
  <2>1. /\ Writing(w) /\ locked' = FALSE /\ UNCHANGED <<api, cancelling, phase>>
        /\ \E p \in {"work", "get", "mark"} : at' = [at EXCEPT ![w] = p]
    BY <1>13 DEF MarkPersisted, At, Unlock, Persist, Goes, Rests, Will, InTry
  <2>2. ~Writing(w)' /\ \A v \in Workers : v # w => (Writing(v)' <=> Writing(v))
    BY <2>1
  <2> QED
    BY <2>1, <2>2
<1>14. ASSUME NEW w \in Workers, Strikes(w) PROVE OneHolder'
  BY <1>14 DEF Strikes, BreaksOut, LeavesLoop, Rests, Will, Goes, InTry
<1>15. ASSUME NEW w \in Workers, Takes(w) PROVE OneHolder'
  BY <1>15 DEF Takes, At, Goes
<1>16. ASSUME NEW w \in Workers, Reports(w) PROVE OneHolder'
  BY <1>16 DEF Reports, At, Lock, Goes
<1>17. ASSUME NEW w \in Workers, Returns(w) PROVE OneHolder'
  BY <1>17 DEF Returns, At, Will, Goes, Outcome
<1>18. ASSUME NEW w \in Workers, Raises(w) PROVE OneHolder'
  BY <1>18 DEF Raises, At, Will, Goes
<1>19. ASSUME ShutdownBegins PROVE OneHolder'
  BY <1>19 DEF ShutdownBegins, Lock
<1>20. ASSUME ShutdownIsOver PROVE OneHolder'
  BY <1>20 DEF ShutdownIsOver, Unlock
<1>21. ASSUME Restart PROVE OneHolder'
  BY <1>21 DEF Restart, Recovered
<1>22. CASE UNCHANGED vars
  BY <1>22 DEF vars
<1> QED
  BY <1>1, <1>2, <1>3, <1>4, <1>5, <1>6, <1>7, <1>8, <1>9, <1>10, <1>11, <1>12, <1>13,
     <1>14, <1>15, <1>16, <1>17, <1>18, <1>19, <1>20, <1>21, <1>22 DEF Next, ApiNext,
        WorkerSteps

(* The steps keep a task's status and its place in step. *)
LEMMA StatusStep ==
    ASSUME TypeOK, BuildInvariant, OneHolder, StatusByStep, [Next]_vars
    PROVE  StatusByStep'
<1> USE TasksAssumption DEF store, apiVars, pool, TypeOK, BuildInvariant, InOnePlace,
         StatusByPlace, OneHolder, Writing, StatusByStep, Active, Terminal
<1>1. ASSUME NEW t \in Tasks, Enqueue(t) PROVE StatusByStep'
  <2>1. CASE Existing(t)
    BY <1>1, <2>1 DEF Enqueue, Locks
  <2>2. CASE ~Existing(t)
    BY <1>1, <2>2 DEF Enqueue, Lock, Remember
  <2> QED
    BY <2>1, <2>2
<1>2. ASSUME NEW t \in Tasks, EnqueuePersisted(t) PROVE StatusByStep'
  BY <1>2 DEF EnqueuePersisted, Persist, QueuePut, Unlock
<1>3. ASSUME NEW t \in Tasks, EnqueueFails(t) PROVE StatusByStep'
  BY <1>3 DEF EnqueueFails, Unlock
<1>4. ASSUME NEW t \in Tasks, CancelTask(t) PROVE StatusByStep'
  BY <1>4 DEF CancelTask, Lock, CoroutineOver
<1>5. ASSUME NEW t \in Tasks, CancelPersisted(t) PROVE StatusByStep'
  BY <1>5 DEF CancelPersisted, Persist, Unlock
<1>6. ASSUME NEW t \in Tasks, DeleteTask(t) PROVE StatusByStep'
  BY <1>6 DEF DeleteTask, Locks, Remember
<1>7. ASSUME NEW t \in Tasks, DeleteRow(t) PROVE StatusByStep'
  BY <1>7 DEF DeleteRow
<1>8. ASSUME NEW w \in Workers, Looks(w) PROVE StatusByStep'
  BY <1>8 DEF Looks, At, Locks, Rests, Will, Goes, MarkQueuedCancel
<1>9. ASSUME NEW w \in Workers, Begins(w) PROVE StatusByStep'
  BY <1>9 DEF Begins, At, Locks, Lock, Goes, Remember
<1>10. ASSUME NEW w \in Workers, BeginPersisted(w) PROVE StatusByStep'
  <2>1. /\ at[w] = "beginning" /\ UNCHANGED <<mem, api, cancelling, deleting, struck, phase>>
        /\ row' = row \/ row' = [row EXCEPT ![holds[w]] = mem[holds[w]]]
    BY <1>10 DEF BeginPersisted, At, Persist
  <2>2. \E p \in {"work", "get"} : at' = [at EXCEPT ![w] = p]
    BY <1>10 DEF BeginPersisted, Goes, Rests, Will
  <2>3. \A v \in Workers : v # w => holds'[v] = holds[v]
    BY <1>10 DEF BeginPersisted, Rests
  <2> QED
    BY <2>1, <2>2, <2>3
<1>11. ASSUME NEW w \in Workers, ReportPersisted(w) PROVE StatusByStep'
  BY <1>11 DEF ReportPersisted, At, Unlock, Persist, Goes, Will
<1>12. ASSUME NEW w \in Workers, Marks(w) PROVE StatusByStep'
  BY <1>12 DEF Marks, At, Locks, Lock, Goes, Rests, Will, Remember, StatusOf
<1>13. ASSUME NEW w \in Workers, MarkPersisted(w) PROVE StatusByStep'
  BY <1>13 DEF MarkPersisted, At, Unlock, Persist, Goes, Rests, Will, InTry
<1>14. ASSUME NEW w \in Workers, Strikes(w) PROVE StatusByStep'
  BY <1>14 DEF Strikes, BreaksOut, LeavesLoop, Rests, Will, Goes, InTry
<1>15. ASSUME NEW w \in Workers, Takes(w) PROVE StatusByStep'
  BY <1>15 DEF Takes, At, Goes
<1>16. ASSUME NEW w \in Workers, Reports(w) PROVE StatusByStep'
  BY <1>16 DEF Reports, At, Lock, Goes
<1>17. ASSUME NEW w \in Workers, Returns(w) PROVE StatusByStep'
  BY <1>17 DEF Returns, At, Will, Goes, Outcome
<1>18. ASSUME NEW w \in Workers, Raises(w) PROVE StatusByStep'
  BY <1>18 DEF Raises, At, Will, Goes
<1>19. ASSUME ShutdownBegins PROVE StatusByStep'
  BY <1>19 DEF ShutdownBegins, Lock
<1>20. ASSUME ShutdownIsOver PROVE StatusByStep'
  BY <1>20 DEF ShutdownIsOver, Unlock
<1>21. ASSUME Restart PROVE StatusByStep'
  BY <1>21 DEF Restart, Recovered
<1>22. CASE UNCHANGED vars
  BY <1>22 DEF vars
<1> QED
  BY <1>1, <1>2, <1>3, <1>4, <1>5, <1>6, <1>7, <1>8, <1>9, <1>10, <1>11, <1>12, <1>13,
     <1>14, <1>15, <1>16, <1>17, <1>18, <1>19, <1>20, <1>21, <1>22 DEF Next, ApiNext,
        WorkerSteps

(* No step forgets an active task. *)
LEMMA CarriedStep ==
    ASSUME TypeOK, BuildInvariant, StatusByStep, ActiveIsCarried, [Next]_vars
    PROVE  ActiveIsCarried'
<1> USE TasksAssumption DEF store, apiVars, pool, TypeOK, BuildInvariant, InOnePlace,
         StatusByPlace, StatusByStep, ActiveIsCarried, Active, Terminal, Spend, Bounds
<1>1. ASSUME NEW t \in Tasks, Enqueue(t) PROVE ActiveIsCarried'
  BY <1>1 DEF Enqueue, Existing, Locks, Lock, Remember
<1>2. ASSUME NEW t \in Tasks, EnqueuePersisted(t) PROVE ActiveIsCarried'
  <2>1. /\ queue' = Append(queue, t) /\ queue \in Seq(Tasks)
        /\ api' = [api EXCEPT ![t] = "enqueued"] /\ UNCHANGED <<mem, at, holds, budget, phase>>
    BY <1>2 DEF EnqueuePersisted, QueuePut
  <2>2. /\ Len(queue') = Len(queue) + 1 /\ Len(queue) \in Nat
        /\ \A i \in 1 .. Len(queue) : queue'[i] = queue[i] /\ queue'[Len(queue) + 1] = t
        /\ DOMAIN queue = 1 .. Len(queue) /\ DOMAIN queue' = 1 .. Len(queue')
    BY <2>1, AppendFacts
  <2>3. DOMAIN queue \subseteq DOMAIN queue' /\ Len(queue) + 1 \in DOMAIN queue'
    BY <2>2
  <2> QED
    BY <2>1, <2>2, <2>3
<1>3. ASSUME NEW t \in Tasks, EnqueueFails(t) PROVE ActiveIsCarried'
  BY <1>3 DEF EnqueueFails, Unlock
<1>4. ASSUME NEW t \in Tasks, CancelTask(t) PROVE ActiveIsCarried'
  BY <1>4 DEF CancelTask, Lock, CoroutineOver
<1>5. ASSUME NEW t \in Tasks, CancelPersisted(t) PROVE ActiveIsCarried'
  BY <1>5 DEF CancelPersisted, Persist, Unlock
<1>6. ASSUME NEW t \in Tasks, DeleteTask(t) PROVE ActiveIsCarried'
  BY <1>6 DEF DeleteTask, Locks, Remember
<1>7. ASSUME NEW t \in Tasks, DeleteRow(t) PROVE ActiveIsCarried'
  BY <1>7 DEF DeleteRow
<1>8. ASSUME NEW w \in Workers, Looks(w) PROVE ActiveIsCarried'
  <2>1. UNCHANGED <<mem, queue, api, budget, phase>>
    BY <1>8 DEF Looks
  <2>2. CASE mem[holds[w]] = "none" /\ Rests(w, "get")
    BY <2>1, <2>2 DEF Rests, Will, Goes
  <2>3. CASE MarkQueuedCancel(w) \/ (Goes(w, "begin") /\ UNCHANGED holds)
    BY <2>1, <2>3 DEF MarkQueuedCancel, Will, Goes
  <2> QED
    BY <1>8, <2>2, <2>3 DEF Looks
<1>9. ASSUME NEW w \in Workers, Begins(w) PROVE ActiveIsCarried'
  BY <1>9 DEF Begins, At, Locks, Lock, Goes, Remember
<1>10. ASSUME NEW w \in Workers, BeginPersisted(w) PROVE ActiveIsCarried'
  <2>1. UNCHANGED <<mem, queue, api, phase>> /\ at[w] = "beginning"
    BY <1>10 DEF BeginPersisted, At
  <2>2. CASE Goes(w, "work") /\ UNCHANGED <<holds, budget>>
    BY <2>1, <2>2 DEF Goes
  <2>3. CASE Spend("faults")
    BY <2>3
  <2> QED
    BY <1>10, <2>2, <2>3 DEF BeginPersisted
<1>11. ASSUME NEW w \in Workers, ReportPersisted(w) PROVE ActiveIsCarried'
  BY <1>11 DEF ReportPersisted, At, Unlock, Persist, Goes, Will
<1>12. ASSUME NEW w \in Workers, Marks(w) PROVE ActiveIsCarried'
  BY <1>12 DEF Marks, At, Locks, Lock, Goes, Rests, Will, Remember, StatusOf
<1>13. ASSUME NEW w \in Workers, MarkPersisted(w) PROVE ActiveIsCarried'
  BY <1>13 DEF MarkPersisted, At, Unlock, Persist, Goes, Rests, Will, InTry
<1>14. ASSUME NEW w \in Workers, Strikes(w) PROVE ActiveIsCarried'
  BY <1>14 DEF Strikes, BreaksOut, LeavesLoop, Rests, Will, Goes, InTry
<1>15. ASSUME NEW w \in Workers, Takes(w) PROVE ActiveIsCarried'
  <2>1. /\ queue' = Tail(queue) /\ queue \in Seq(Tasks) /\ queue # <<>> /\ at[w] = "get"
        /\ holds' = [holds EXCEPT ![w] = Head(queue)] /\ at' = [at EXCEPT ![w] = "look"]
        /\ UNCHANGED <<mem, api, budget, phase>>
    BY <1>15 DEF Takes, At, Goes
  <2>2. /\ Head(queue) = queue[1] /\ Len(queue) \in Nat \ {0} /\ Len(queue') = Len(queue) - 1
        /\ \A i \in 1 .. Len(queue') : queue'[i] = queue[i + 1] /\ i + 1 \in 1 .. Len(queue)
        /\ DOMAIN queue = 1 .. Len(queue) /\ DOMAIN queue' = 1 .. Len(queue')
    BY <2>1, TailFacts
  <2>3. \A i \in DOMAIN queue : i = 1 \/ (i - 1 \in DOMAIN queue' /\ queue'[i - 1] = queue[i])
    BY <2>2
  <2>4. holds'[w] = queue[1] /\ at'[w] = "look"
    BY <2>1, <2>2
  <2>5. \A v \in Workers : v # w => holds'[v] = holds[v] /\ at'[v] = at[v]
    BY <2>1
  <2> SUFFICES ASSUME budget["faults"] = 0, phase = "up", NEW t \in Tasks, mem[t] \in Active
               PROVE  \/ api[t] = "persisting" \/ \E i \in DOMAIN queue' : queue'[i] = t
                      \/ \E v \in Workers : holds'[v] = t /\ at'[v] \notin {"get", "over"}
    BY <2>1
  <2>6. CASE \E i \in DOMAIN queue : queue[i] = t
    BY <2>3, <2>4, <2>6
  <2>7. CASE \E v \in Workers : holds[v] = t /\ at[v] \notin {"get", "over"}
    BY <2>1, <2>5, <2>7
  <2> QED
    BY <2>6, <2>7
<1>16. ASSUME NEW w \in Workers, Reports(w) PROVE ActiveIsCarried'
  BY <1>16 DEF Reports, At, Lock, Goes
<1>17. ASSUME NEW w \in Workers, Returns(w) PROVE ActiveIsCarried'
  BY <1>17 DEF Returns, At, Will, Goes, Outcome
<1>18. ASSUME NEW w \in Workers, Raises(w) PROVE ActiveIsCarried'
  BY <1>18 DEF Raises, At, Will, Goes
<1>19. ASSUME ShutdownBegins PROVE ActiveIsCarried'
  BY <1>19 DEF ShutdownBegins, Lock
<1>20. ASSUME ShutdownIsOver PROVE ActiveIsCarried'
  BY <1>20 DEF ShutdownIsOver, Unlock
<1>21. ASSUME Restart PROVE ActiveIsCarried'
  BY <1>21 DEF Restart, Recovered
<1>22. CASE UNCHANGED vars
  BY <1>22 DEF vars
<1> QED
  BY <1>1, <1>2, <1>3, <1>4, <1>5, <1>6, <1>7, <1>8, <1>9, <1>10, <1>11, <1>12, <1>13,
     <1>14, <1>15, <1>16, <1>17, <1>18, <1>19, <1>20, <1>21, <1>22 DEF Next, ApiNext,
        WorkerSteps

(* The end of a task reaches the table in the step that lets it go. *)
LEMMA ReleasedStep ==
    ASSUME TypeOK, BuildInvariant, OneHolder, StatusByStep, EndedIsReleased, [Next]_vars
    PROVE  EndedIsReleased'
<1> USE TasksAssumption DEF store, apiVars, pool, TypeOK, BuildInvariant, InOnePlace,
         StatusByPlace, OneHolder, Writing, StatusByStep, EndedIsReleased, Active, Terminal
<1>1. ASSUME NEW t \in Tasks, Enqueue(t) PROVE EndedIsReleased'
  BY <1>1 DEF Enqueue, Existing, Locks, Lock, Remember
<1>2. ASSUME NEW t \in Tasks, EnqueuePersisted(t) PROVE EndedIsReleased'
  BY <1>2 DEF EnqueuePersisted, Persist, QueuePut, Unlock
<1>3. ASSUME NEW t \in Tasks, EnqueueFails(t) PROVE EndedIsReleased'
  BY <1>3 DEF EnqueueFails, Unlock
<1>4. ASSUME NEW t \in Tasks, CancelTask(t) PROVE EndedIsReleased'
  BY <1>4 DEF CancelTask, Lock, CoroutineOver
<1>5. ASSUME NEW t \in Tasks, CancelPersisted(t) PROVE EndedIsReleased'
  BY <1>5 DEF CancelPersisted, Persist, Unlock
<1>6. ASSUME NEW t \in Tasks, DeleteTask(t) PROVE EndedIsReleased'
  BY <1>6 DEF DeleteTask, Locks, Remember
<1>7. ASSUME NEW t \in Tasks, DeleteRow(t) PROVE EndedIsReleased'
  BY <1>7 DEF DeleteRow
<1>8. ASSUME NEW w \in Workers, Looks(w) PROVE EndedIsReleased'
  BY <1>8 DEF Looks, At, Locks, Rests, Will, Goes, MarkQueuedCancel
<1>9. ASSUME NEW w \in Workers, Begins(w) PROVE EndedIsReleased'
  BY <1>9 DEF Begins, At, Locks, Lock, Goes, Remember
<1>10. ASSUME NEW w \in Workers, BeginPersisted(w) PROVE EndedIsReleased'
  BY <1>10 DEF BeginPersisted, At, Unlock, Persist, Goes, Rests, Will
<1>11. ASSUME NEW w \in Workers, ReportPersisted(w) PROVE EndedIsReleased'
  BY <1>11 DEF ReportPersisted, At, Unlock, Persist, Goes, Will
<1>12. ASSUME NEW w \in Workers, Marks(w) PROVE EndedIsReleased'
  BY <1>12 DEF Marks, At, Locks, Lock, Goes, Rests, Will, Remember, StatusOf
<1>13. ASSUME NEW w \in Workers, MarkPersisted(w) PROVE EndedIsReleased'
  BY <1>13 DEF MarkPersisted, At, Unlock, Persist, Goes, Rests, Will, InTry
<1>14. ASSUME NEW w \in Workers, Strikes(w) PROVE EndedIsReleased'
  BY <1>14 DEF Strikes, BreaksOut, LeavesLoop, Rests, Will, Goes, InTry
<1>15. ASSUME NEW w \in Workers, Takes(w) PROVE EndedIsReleased'
  BY <1>15 DEF Takes, At, Goes
<1>16. ASSUME NEW w \in Workers, Reports(w) PROVE EndedIsReleased'
  BY <1>16 DEF Reports, At, Lock, Goes
<1>17. ASSUME NEW w \in Workers, Returns(w) PROVE EndedIsReleased'
  BY <1>17 DEF Returns, At, Will, Goes, Outcome
<1>18. ASSUME NEW w \in Workers, Raises(w) PROVE EndedIsReleased'
  BY <1>18 DEF Raises, At, Will, Goes
<1>19. ASSUME ShutdownBegins PROVE EndedIsReleased'
  BY <1>19 DEF ShutdownBegins, Lock
<1>20. ASSUME ShutdownIsOver PROVE EndedIsReleased'
  BY <1>20 DEF ShutdownIsOver, Unlock
<1>21. ASSUME Restart PROVE EndedIsReleased'
  BY <1>21 DEF Restart, Recovered
<1>22. CASE UNCHANGED vars
  BY <1>22 DEF vars
<1> QED
  BY <1>1, <1>2, <1>3, <1>4, <1>5, <1>6, <1>7, <1>8, <1>9, <1>10, <1>11, <1>12, <1>13,
     <1>14, <1>15, <1>16, <1>17, <1>18, <1>19, <1>20, <1>21, <1>22 DEF Next, ApiNext,
        WorkerSteps

(* A step that lets the lock go has written what memory says. *)
LEMMA SavedStep ==
    ASSUME TypeOK, BuildInvariant, OneHolder, StatusByStep, SavedOrUnwritten, [Next]_vars
    PROVE  SavedOrUnwritten'
<1> USE TasksAssumption DEF store, apiVars, pool, TypeOK, BuildInvariant, InOnePlace,
         StatusByPlace, OneHolder, Writing, Unwritten, StatusByStep, SavedOrUnwritten, Active,
         Terminal, Spend, Bounds
<1>1. ASSUME NEW t \in Tasks, Enqueue(t) PROVE SavedOrUnwritten'
  BY <1>1 DEF Enqueue, Existing, Locks, Lock, Remember
<1>2. ASSUME NEW t \in Tasks, EnqueuePersisted(t) PROVE SavedOrUnwritten'
  BY <1>2 DEF EnqueuePersisted, Persist, QueuePut, Unlock
<1>3. ASSUME NEW t \in Tasks, EnqueueFails(t) PROVE SavedOrUnwritten'
  BY <1>3 DEF EnqueueFails, Unlock
<1>4. ASSUME NEW t \in Tasks, CancelTask(t) PROVE SavedOrUnwritten'
  BY <1>4 DEF CancelTask, Lock, CoroutineOver
<1>5. ASSUME NEW t \in Tasks, CancelPersisted(t) PROVE SavedOrUnwritten'
  BY <1>5 DEF CancelPersisted, Persist, Unlock
<1>6. ASSUME NEW t \in Tasks, DeleteTask(t) PROVE SavedOrUnwritten'
  BY <1>6 DEF DeleteTask, Locks, Remember
<1>7. ASSUME NEW t \in Tasks, DeleteRow(t) PROVE SavedOrUnwritten'
  BY <1>7 DEF DeleteRow
<1>8. ASSUME NEW w \in Workers, Looks(w) PROVE SavedOrUnwritten'
  BY <1>8 DEF Looks, At, Locks, Rests, Will, Goes, MarkQueuedCancel
<1>9. ASSUME NEW w \in Workers, Begins(w) PROVE SavedOrUnwritten'
  BY <1>9 DEF Begins, At, Locks, Lock, Goes, Remember
<1>10. ASSUME NEW w \in Workers, BeginPersisted(w) PROVE SavedOrUnwritten'
  BY <1>10 DEF BeginPersisted, At, Unlock, Persist, Goes, Rests, Will
<1>11. ASSUME NEW w \in Workers, ReportPersisted(w) PROVE SavedOrUnwritten'
  BY <1>11 DEF ReportPersisted, At, Unlock, Persist, Goes, Will
<1>12. ASSUME NEW w \in Workers, Marks(w) PROVE SavedOrUnwritten'
  BY <1>12 DEF Marks, At, Locks, Lock, Goes, Rests, Will, Remember, StatusOf
<1>13. ASSUME NEW w \in Workers, MarkPersisted(w) PROVE SavedOrUnwritten'
  BY <1>13 DEF MarkPersisted, At, Unlock, Persist, Goes, Rests, Will, InTry
<1>14. ASSUME NEW w \in Workers, Strikes(w) PROVE SavedOrUnwritten'
  <2>1. phase = "stopping"
    BY <1>14 DEF Strikes
  <2>2. ~Writing(w)
    BY <2>1
  <2> QED
    BY <1>14, <2>2 DEF Strikes, BreaksOut, LeavesLoop, Rests, Will, Goes
<1>15. ASSUME NEW w \in Workers, Takes(w) PROVE SavedOrUnwritten'
  BY <1>15 DEF Takes, At, Goes
<1>16. ASSUME NEW w \in Workers, Reports(w) PROVE SavedOrUnwritten'
  BY <1>16 DEF Reports, At, Lock, Goes
<1>17. ASSUME NEW w \in Workers, Returns(w) PROVE SavedOrUnwritten'
  BY <1>17 DEF Returns, At, Will, Goes, Outcome
<1>18. ASSUME NEW w \in Workers, Raises(w) PROVE SavedOrUnwritten'
  BY <1>18 DEF Raises, At, Will, Goes
<1>19. ASSUME ShutdownBegins PROVE SavedOrUnwritten'
  BY <1>19 DEF ShutdownBegins, Lock
<1>20. ASSUME ShutdownIsOver PROVE SavedOrUnwritten'
  BY <1>20 DEF ShutdownIsOver, Unlock
<1>21. ASSUME Restart PROVE SavedOrUnwritten'
  BY <1>21 DEF Restart, Recovered
<1>22. CASE UNCHANGED vars
  BY <1>22 DEF vars
<1> QED
  BY <1>1, <1>2, <1>3, <1>4, <1>5, <1>6, <1>7, <1>8, <1>9, <1>10, <1>11, <1>12, <1>13,
     <1>14, <1>15, <1>16, <1>17, <1>18, <1>19, <1>20, <1>21, <1>22 DEF Next, ApiNext,
        WorkerSteps

(* No step makes a success of a task that was cancelled in time. *)
LEMMA SuccessStep ==
    ASSUME TypeOK, BuildInvariant, OneHolder, StatusByStep, EndedIsReleased, SuccessIsLate,
       CancelBeatsSuccess, [Next]_vars
    PROVE  (SuccessIsLate /\ CancelBeatsSuccess)'
<1> USE TasksAssumption DEF store, apiVars, pool, TypeOK, BuildInvariant, InOnePlace,
         StatusByPlace, StatusByStep, EndedIsReleased, SuccessIsLate, CancelBeatsSuccess,
         Active, Terminal
<1>1. ASSUME NEW t \in Tasks, Enqueue(t) PROVE (SuccessIsLate /\ CancelBeatsSuccess)'
  BY <1>1 DEF Enqueue, Existing, Locks, Lock, Remember
<1>2. ASSUME NEW t \in Tasks, EnqueuePersisted(t) PROVE (SuccessIsLate /\ CancelBeatsSuccess)'
  BY <1>2 DEF EnqueuePersisted, Persist, QueuePut, Unlock
<1>3. ASSUME NEW t \in Tasks, EnqueueFails(t) PROVE (SuccessIsLate /\ CancelBeatsSuccess)'
  BY <1>3 DEF EnqueueFails, Unlock
<1>4. ASSUME NEW t \in Tasks, CancelTask(t) PROVE (SuccessIsLate /\ CancelBeatsSuccess)'
  BY <1>4 DEF CancelTask, Lock, CoroutineOver
<1>5. ASSUME NEW t \in Tasks, CancelPersisted(t) PROVE (SuccessIsLate /\ CancelBeatsSuccess)'
  BY <1>5 DEF CancelPersisted, Persist, Unlock
<1>6. ASSUME NEW t \in Tasks, DeleteTask(t) PROVE (SuccessIsLate /\ CancelBeatsSuccess)'
  BY <1>6 DEF DeleteTask, Locks, Remember
<1>7. ASSUME NEW t \in Tasks, DeleteRow(t) PROVE (SuccessIsLate /\ CancelBeatsSuccess)'
  BY <1>7 DEF DeleteRow
<1>8. ASSUME NEW w \in Workers, Looks(w) PROVE (SuccessIsLate /\ CancelBeatsSuccess)'
  BY <1>8 DEF Looks, At, Locks, Rests, Will, Goes, MarkQueuedCancel
<1>9. ASSUME NEW w \in Workers, Begins(w) PROVE (SuccessIsLate /\ CancelBeatsSuccess)'
  BY <1>9 DEF Begins, At, Locks, Lock, Goes, Remember
<1>10. ASSUME NEW w \in Workers, BeginPersisted(w) PROVE (SuccessIsLate /\ CancelBeatsSuccess)'
  BY <1>10 DEF BeginPersisted, At, Unlock, Persist, Goes, Rests, Will
<1>11. ASSUME NEW w \in Workers, ReportPersisted(w) PROVE (SuccessIsLate /\ CancelBeatsSuccess)'
  <2>1. /\ at[w] = "reporting" /\ mem[holds[w]] \in {"none", "running"}
        /\ UNCHANGED <<mem, cancelRequested, holds, late>>
        /\ row' = row \/ row' = [row EXCEPT ![holds[w]] = mem[holds[w]]]
        /\ \/ at' = [at EXCEPT ![w] = "work"] /\ UNCHANGED out
           \/ at' = [at EXCEPT ![w] = "mark"] /\ out' = [out EXCEPT ![w] = "failed"]
    BY <1>11 DEF ReportPersisted, At, Persist, Goes, Will
  <2>2. SuccessIsLate'
    BY <2>1
  <2>3. CancelBeatsSuccess'
    BY <2>1
  <2> QED
    BY <2>2, <2>3
<1>12. ASSUME NEW w \in Workers, Marks(w) PROVE (SuccessIsLate /\ CancelBeatsSuccess)'
  BY <1>12 DEF Marks, At, Locks, Lock, Goes, Rests, Will, Remember, StatusOf
<1>13. ASSUME NEW w \in Workers, MarkPersisted(w) PROVE (SuccessIsLate /\ CancelBeatsSuccess)'
  BY <1>13 DEF MarkPersisted, At, Unlock, Persist, Goes, Rests, Will, InTry
<1>14. ASSUME NEW w \in Workers, Strikes(w) PROVE (SuccessIsLate /\ CancelBeatsSuccess)'
  BY <1>14 DEF Strikes, BreaksOut, LeavesLoop, Rests, Will, Goes, InTry
<1>15. ASSUME NEW w \in Workers, Takes(w) PROVE (SuccessIsLate /\ CancelBeatsSuccess)'
  BY <1>15 DEF Takes, At, Goes
<1>16. ASSUME NEW w \in Workers, Reports(w) PROVE (SuccessIsLate /\ CancelBeatsSuccess)'
  BY <1>16 DEF Reports, At, Lock, Goes
<1>17. ASSUME NEW w \in Workers, Returns(w) PROVE (SuccessIsLate /\ CancelBeatsSuccess)'
  BY <1>17 DEF Returns, At, Will, Goes, Outcome
<1>18. ASSUME NEW w \in Workers, Raises(w) PROVE (SuccessIsLate /\ CancelBeatsSuccess)'
  BY <1>18 DEF Raises, At, Will, Goes
<1>19. ASSUME ShutdownBegins PROVE (SuccessIsLate /\ CancelBeatsSuccess)'
  BY <1>19 DEF ShutdownBegins, Lock
<1>20. ASSUME ShutdownIsOver PROVE (SuccessIsLate /\ CancelBeatsSuccess)'
  BY <1>20 DEF ShutdownIsOver, Unlock
<1>21. ASSUME Restart PROVE (SuccessIsLate /\ CancelBeatsSuccess)'
  BY <1>21 DEF Restart, Recovered
<1>22. CASE UNCHANGED vars
  BY <1>22 DEF vars
<1> QED
  BY <1>1, <1>2, <1>3, <1>4, <1>5, <1>6, <1>7, <1>8, <1>9, <1>10, <1>11, <1>12, <1>13,
     <1>14, <1>15, <1>16, <1>17, <1>18, <1>19, <1>20, <1>21, <1>22 DEF Next, ApiNext,
        WorkerSteps

(* A row changes to what memory says of a task that is being written, is    *)
(* deleted, or is failed by the next process.                              *)
LEMMA RowMoves ==
    ASSUME TypeOK, BuildInvariant, [Next]_vars, NEW t \in Tasks
    PROVE  row'[t] \in {row[t], "none"} \/ (Unwritten(t) /\ row'[t] = mem[t]) \/ row[t] \in Active
<1> USE DEF TypeOK, store, Writing, Unwritten
<1>1. ASSUME NEW u \in Tasks, EnqueuePersisted(u) \/ CancelPersisted(u)
      PROVE  row'[t] = row[t] \/ (Unwritten(t) /\ row'[t] = mem[t])
  BY <1>1 DEF EnqueuePersisted, CancelPersisted, Persist
<1>2. ASSUME NEW u \in Tasks, DeleteRow(u) PROVE row'[t] \in {row[t], "none"}
  BY <1>2 DEF DeleteRow
<1>3. ASSUME NEW w \in Workers, BeginPersisted(w) \/ ReportPersisted(w) \/ MarkPersisted(w)
      PROVE  row'[t] = row[t] \/ (Unwritten(t) /\ row'[t] = mem[t])
  <2>1. Writing(w) /\ (UNCHANGED row \/ Persist(holds[w]))
    BY <1>3 DEF BeginPersisted, ReportPersisted, MarkPersisted, At
  <2> QED
    BY <2>1 DEF Persist
<1>4. CASE Restart
  BY <1>4 DEF Restart, Recovered
<1>5. CASE UNCHANGED row
  BY <1>5
<1> QED
  BY <1>1, <1>2, <1>3, <1>4, <1>5 DEF Next, ApiNext, WorkerSteps, vars, Enqueue, EnqueueFails,
     CancelTask, DeleteTask, Looks, Begins, Marks, Strikes, Takes, Reports, Returns, Raises,
     ShutdownBegins, ShutdownIsOver

(* Nor is anything to be written. *)
LEMMA TaskInit == Init => TaskInvariant
<1> SUFFICES ASSUME Init PROVE TaskInvariant
  OBVIOUS
<1>1. OneHolder /\ StatusByStep
  BY DEF Init, OneHolder, StatusByStep, Writing
<1>2. EndedIsReleased /\ SavedOrUnwritten /\ ActiveIsCarried
  BY DEF Init, EndedIsReleased, SavedOrUnwritten, ActiveIsCarried, Active, Terminal
<1>3. SuccessIsLate /\ CancelBeatsSuccess
  BY DEF Init, SuccessIsLate, CancelBeatsSuccess
<1> QED
  BY <1>1, <1>2, <1>3 DEF TaskInvariant

(* The lock has one holder, the table lags only behind it, and a row that   *)
(* says how its task ended belongs to nobody: in every reachable state.    *)
THEOREM TaskCorrect == Spec => []TaskInvariant
<1>1. TypeOK /\ BuildInvariant /\ TaskInvariant /\ [Next]_vars => TaskInvariant'
  BY HolderStep, StatusStep, CarriedStep, ReleasedStep, SavedStep, SuccessStep DEF TaskInvariant
<1> QED
  BY <1>1, TaskInit, TypeCorrect, BuildCorrect, PTL DEF Spec

(* Whenever the lock is free the table says what memory says, if no write   *)
(* failed.                                                                 *)
THEOREM SavedCorrect == Spec => []Saved
<1>1. TaskInvariant => Saved
  BY DEF TaskInvariant, OneHolder, SavedOrUnwritten, Unwritten, Saved
<1> QED
  BY <1>1, TaskCorrect, PTL

(* A task shown as active is on its way to a worker or with one, if no      *)
(* write failed and the process is up.                                     *)
THEOREM CarriedCorrect == Spec => []ActiveIsCarried
<1>1. TaskInvariant => ActiveIsCarried
  BY DEF TaskInvariant
<1> QED
  BY <1>1, TaskCorrect, PTL

(* A task cancelled in time is never reported as a success.                *)
THEOREM CancelCorrect == Spec => []CancelBeatsSuccess
<1>1. TaskInvariant => CancelBeatsSuccess
  BY DEF TaskInvariant
<1> QED
  BY <1>1, TaskCorrect, PTL

(* A row that says how its task ended is only ever deleted.                *)
THEOREM RowFinalCorrect == Spec => RowFinal
<1>1. TypeOK /\ BuildInvariant /\ TaskInvariant /\ [Next]_vars
          => [\A t \in Tasks : row[t] \in Terminal => row'[t] \in {row[t], "none"}]_row
  <2> SUFFICES ASSUME TypeOK, BuildInvariant, TaskInvariant, [Next]_vars,
                      NEW t \in Tasks, row[t] \in Terminal
               PROVE  row'[t] \in {row[t], "none"}
    OBVIOUS
  <2>1. row[t] \notin Active
    BY DEF Active, Terminal
  <2>2. mem[t] = "none" \/ (mem[t] = row[t] /\ ~Unwritten(t))
    BY DEF TaskInvariant, EndedIsReleased, StatusByStep, Unwritten, Active, Terminal
  <2> QED
    BY <2>1, <2>2, RowMoves
<1> QED
  BY <1>1, TaskCorrect, TypeCorrect, BuildCorrect, PTL DEF Spec, RowFinal
=============================================================================
