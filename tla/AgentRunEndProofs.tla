------------------------- MODULE AgentRunEndProofs -------------------------
(* Proofs about how a run of AgentRun ends: what it tells its readers, that *)
(* it tells it once, and that nothing but a failure leaves it active.       *)
EXTENDS AgentRunProofs, SequenceTheorems

(* Two texts of one event each, one after the other.                       *)
LEMMA Pair ==
    ASSUME NEW x \in EventSet, NEW y \in EventSet
    PROVE  <<x>> \o <<y>> = <<x, y>>
<1>1. <<x>> \in Seq(EventSet) /\ <<y>> \in Seq(EventSet) /\ <<x, y>> \in Seq(EventSet)
  OBVIOUS
<1>2. Len(<<x>> \o <<y>>) = 2 /\ <<x>> \o <<y>> \in Seq(EventSet)
  BY <1>1
<1>3. (<<x>> \o <<y>>)[1] = x /\ (<<x>> \o <<y>>)[2] = y
  BY <1>1
<1>4. Len(<<x, y>>) = 2 /\ <<x, y>>[1] = x /\ <<x, y>>[2] = y
  OBVIOUS
<1>5. \A i \in 1 .. Len(<<x, y>>) : i = 1 \/ i = 2
  BY <1>4
<1> QED
  BY <1>1, <1>2, <1>3, <1>4, <1>5, SeqEqual

-----------------------------------------------------------------------------
(* The invariant behind the rest: what one attempt may be doing, and what   *)
(* the status and the stream say about it.                                 *)

(* Nothing was dropped by SKIP LOCKED and no cancel request wrote over a    *)
(* terminal status; nor, in a quiet run, did anything fail.                *)
Calm == ~lost /\ ~reopened
Quiet == Undisturbed /\ budget["crashes"] = 0
Unasked == Quiet /\ \A c \in Cancels : cancel[c] = "new"

(* Where an attempt may be, by the part of process_agent_run it is in.     *)
AttemptShape ==
    /\ pc # "idle" <=> job = "active"
    /\ job = "none" => tries = 0
    /\ pc # "finally" => leaving = "return"
    /\ mode = "setup" => /\ pc \in SetupPoints \cup {"idle", "mark", "commit"}
                         /\ pc \in {"mark", "commit"} => outcome = "failed"
    /\ mode = "chunk" => pc \in TryPoints \cup {"cancelled", "raised", "finally"}
    /\ mode = "fallback" => pc \in {"mark", "commit", "end", "cancelled", "raised", "finally"}
    /\ mode = "handler" => /\ pc \in {"mark", "commit", "end", "finally"}
                           /\ pc # "finally" => outcome \in {"cancelled", "failed"}

(* What a chunk with a last word leaves behind: the agent has stopped       *)
(* streaming tokens, and those of the run's own thread are written.        *)
AgentShape ==
    /\ mode = "chunk" /\ pc \in {"classify", "mark", "commit", "end"}
         => ~terminalSet /\ agent # "streaming"
    /\ mode = "setup" => ~terminalSet
    /\ terminalSet => HasEnd /\ agent # "streaming"
    /\ "main" \in buffers => mode = "chunk" /\ agent = "streaming"

(* The worker commits the status it means; a request read a stored row.    *)
MeansIt ==
    /\ lock = "worker" /\ pc = "commit" /\ written # "none" => written = outcome
    /\ lock = "worker" /\ pc = "runningCommit" => written \in {"none", "running"}
    /\ \A c \in Cancels : cancel[c] # "new" => status # "absent"

(* A calm run whose row is terminal: either the attempt that ended it is    *)
(* past its agent's tokens, or a later attempt is about to see that.       *)
SilentOnceOver ==
    Calm /\ status \in Terminal =>
        /\ mode = "setup" => pc \in {"idle", "load"}
        /\ mode = "chunk" => agent # "streaming"

(* In a run that nothing disturbed a terminal status is marked once outside *)
(* the handlers.                                                           *)
MarkedOnce ==
    Undisturbed /\ status \in Terminal =>
        /\ mode = "chunk" => terminalSet \/ pc = "end"
        /\ mode = "fallback" => pc \in {"end", "finally"}

(* Between the commit of the status and its end event, which a crash may    *)
(* keep from being written, the worker still means that status.            *)
EndToCome ==
    Undisturbed /\ status \in Terminal /\ Ends = {} =>
        pc \in {"idle", "load"} \/ (pc = "end" /\ outcome = status)

(* A memory job runs ahead of the status by one commit at most.            *)
MemoryFollows ==
    Quiet /\ memoryJob =>
        status = "completed" \/ (pc = "commit" /\ outcome = "completed" /\ status \notin Terminal)

(* A run nobody asked to cancel leaves the stream it has ended.            *)
ToldOnce ==
    Unasked =>
        /\ ~cancelKey /\ ~cancelEvent /\ pc # "cancelled"
        /\ HasEnd => pc \in {"idle", "load", "finally"}
                       \/ (pc \in {"check", "stream"} /\ terminalSet)

(* An active row of a quiet run has a request about to queue its job, or a  *)
(* job with a try to go, or a worker that will not let it go as it is.     *)
StillGoing ==
    Quiet /\ RetryOnError /\ status \in Active =>
        /\ \/ job = "none" /\ \E s \in Submits : submit[s] = "inserted"
           \/ job = "queued" /\ tries < MaxTries
           \/ job = "active"
        /\ pc = "finally" => leaving = "error" /\ tries < MaxTries

EndInvariant ==
    /\ AttemptShape /\ AgentShape /\ MeansIt /\ SilentOnceOver /\ MarkedOnce
    /\ EndToCome /\ FirstEndIsTheStatus /\ MemoryFollows /\ ToldOnce /\ OneEnd /\ StillGoing

-----------------------------------------------------------------------------
(* What one step writes to the stream.                                     *)

(* A token of the run's own thread is there to be written. *)
MainSpeaks == "main" \in buffers \/ (pc = "stream" /\ agent = "streaming")

(* A text that ends no run, with tokens of that thread if they were there.  *)
Said(es) ==
    /\ es \in Seq(EventSet) /\ es \in Outputs
    /\ \A i \in 1 .. Len(es) : /\ es[i].type # "end"
                               /\ es[i].type = "messages" /\ es[i].thread = "main" => MainSpeaks

(* The tokens of the run's own thread among what a flush writes.           *)
OwnTokens == {<<Event("messages", "main")>>,
              <<Event("messages", "child"), Event("messages", "main")>>}

(* The events that may follow the tokens and that are no end.              *)
Closing == {<<>>} \cup {<<Event(e, t)>> : e \in EventTypes \ {"end", "messages"}, t \in Threads}

(* Every event the code builds is well formed.                             *)
LEMMA EventIsEvent == \A e \in EventTypes, t \in Threads : Event(e, t) \in EventSet
  BY DEF Event, EventSet

(* The tokens of a flush are well formed.                                  *)
LEMMA TokensAreEvents ==
    ASSUME NEW a \in Tokens, a \in OwnTokens => MainSpeaks
    PROVE  /\ a \in Seq(EventSet)
           /\ \A i \in 1 .. Len(a) : /\ a[i].type # "end"
                                     /\ a[i].type = "messages" /\ a[i].thread = "main" => MainSpeaks
<1> DEFINE c == Event("messages", "child")
           m == Event("messages", "main")
<1>1. c \in EventSet /\ m \in EventSet
  BY EventIsEvent DEF EventTypes, Threads
<1>2. c.type # "end" /\ m.type # "end" /\ c.thread # "main"
  BY DEF Event
<1>3. a \in {<<>>, <<c>>, <<m>>, <<c, m>>} /\ (a \in {<<m>>, <<c, m>>} => MainSpeaks)
  BY DEF Tokens, OwnTokens
<1> HIDE DEF c, m
<1>4. CASE a = <<>>
  BY <1>4
<1>5. CASE a = <<c>>
  BY <1>1, <1>2, <1>5
<1>6. CASE a = <<m>>
  BY <1>1, <1>2, <1>3, <1>6
<1>7. CASE a = <<c, m>>
  BY <1>1, <1>2, <1>3, <1>7
<1> QED
  BY <1>3, <1>4, <1>5, <1>6, <1>7

(* So is what follows them.                                                *)
LEMMA ClosingIsEvents ==
    ASSUME NEW b \in Closing
    PROVE  /\ b \in Seq(EventSet) /\ b \in LastWords
           /\ \A i \in 1 .. Len(b) : b[i].type \notin {"end", "messages"}
<1>1. CASE b = <<>>
  BY <1>1 DEF LastWords
<1>2. ASSUME NEW e \in EventTypes \ {"end", "messages"}, NEW t \in Threads, b = <<Event(e, t)>>
      PROVE  /\ b \in Seq(EventSet) /\ b \in LastWords
             /\ \A i \in 1 .. Len(b) : b[i].type \notin {"end", "messages"}
  <2>1. Event(e, t) \in EventSet
    BY EventIsEvent
  <2>2. Event(e, t).type = e
    BY DEF Event
  <2>3. b \in LastWords
    BY <1>2 DEF LastWords
  <2> QED
    BY <1>2, <2>1, <2>2, <2>3
<1> QED
  BY <1>1, <1>2 DEF Closing

(* Tokens that were there and one event more may be written.               *)
LEMMA SaidTogether ==
    ASSUME NEW a \in Tokens, NEW b \in Closing, a \in OwnTokens => MainSpeaks
    PROVE  Said(a \o b)
<1>1. a \o b \in Outputs
  BY ClosingIsEvents DEF Outputs
<1>2. /\ a \in Seq(EventSet)
      /\ \A i \in 1 .. Len(a) : /\ a[i].type # "end"
                                /\ a[i].type = "messages" /\ a[i].thread = "main" => MainSpeaks
  BY TokensAreEvents
<1>3. /\ b \in Seq(EventSet)
      /\ \A i \in 1 .. Len(b) : b[i].type \notin {"end", "messages"}
  BY ClosingIsEvents
<1>4. a \o b \in Seq(EventSet)
  BY <1>2, <1>3
<1>5. ASSUME NEW i \in 1 .. Len(a \o b)
      PROVE  /\ (a \o b)[i].type # "end"
             /\ (a \o b)[i].type = "messages" /\ (a \o b)[i].thread = "main" => MainSpeaks
  <2>1. CASE i <= Len(a)
    <3>1. (a \o b)[i] = a[i] /\ i \in 1 .. Len(a)
      BY <2>1, <1>2, <1>3
    <3> QED
      BY <3>1, <1>2
  <2>2. CASE i > Len(a)
    <3>1. (a \o b)[i] = b[i - Len(a)] /\ i - Len(a) \in 1 .. Len(b)
      BY <2>2, <1>2, <1>3
    <3> QED
      BY <3>1, <1>3
  <2> QED
    BY <2>1, <2>2, <1>2
<1> QED
  BY <1>1, <1>4, <1>5 DEF Said

(* A flush writes tokens that were buffered.                               *)
LEMMA FlushSays ==
    ASSUME NEW T \in SUBSET Threads, NEW after \in Closing, Flush(T, after),
           events \in Seq(EventSet)
    PROVE  \E es \in Seq(EventSet) : events' = events \o es /\ Said(es)
<1>1. Flushed(T) \in Tokens /\ (Flushed(T) \in OwnTokens => MainSpeaks)
  <2> DEFINE c == <<Event("messages", "child")>>
             m == <<Event("messages", "main")>>
  <2>1. c \in Seq(EventSet) /\ m \in Seq(EventSet) /\ <<>> \in Seq(EventSet)
    BY EventIsEvent DEF EventTypes, Threads
  <2>2. c \o <<>> = c /\ <<>> \o m = m /\ <<>> \o <<>> = <<>>
    BY <2>1, ConcatEmptySeq
  <2>3. c \o m = <<Event("messages", "child"), Event("messages", "main")>>
    BY EventIsEvent, Pair DEF EventTypes, Threads
  <2>4. c # m /\ <<>> # m
    <3>1. c[1].thread # m[1].thread
      BY DEF Event
    <3>2. Len(m) = 1 /\ Len(<<>>) = 0
      OBVIOUS
    <3> QED
      BY <3>1, <3>2
  <2>7. c # c \o m /\ <<>> # c \o m
    <3>1. Len(c) = 1 /\ Len(c \o m) = 2 /\ Len(<<>>) = 0
      BY <2>3
    <3> QED
      BY <3>1
  <2>5. CASE "main" \in T \cap buffers
    <3>1. Flushed(T) \in {m, c \o m}
      BY <2>2, <2>5 DEF Flushed
    <3> QED
      BY <2>3, <2>5, <3>1 DEF Tokens, MainSpeaks
  <2>6. CASE "main" \notin T \cap buffers
    <3>1. Flushed(T) \in {c, <<>>}
      BY <2>2, <2>6 DEF Flushed
    <3>2. Flushed(T) \notin OwnTokens
      BY <2>4, <2>7, <3>1, <2>3 DEF OwnTokens
    <3> QED
      BY <3>1, <3>2 DEF Tokens
  <2> QED
    BY <2>5, <2>6
<1>2. Said(Flushed(T) \o after)
  BY <1>1, SaidTogether
<1>3. Flushed(T) \in Seq(EventSet) /\ after \in Seq(EventSet)
  BY <1>1, TokensAreEvents, ClosingIsEvents
<1>4. events' = events \o (Flushed(T) \o after)
  BY <1>3 DEF Flush
<1>5. Flushed(T) \o after \in Seq(EventSet)
  BY <1>3
<1> QED
  BY <1>2, <1>4, <1>5

(* One token of a thread, when the agent yields it.                        *)
LEMMA TokenSays ==
    ASSUME NEW t \in Threads, MainSpeaks, events \in Seq(EventSet),
           events' = Append(events, Event("messages", t))
    PROVE  \E es \in Seq(EventSet) : events' = events \o es /\ Said(es)
<1> DEFINE a == <<Event("messages", t)>>
<1>1. a \in Tokens /\ <<>> \in Closing
  BY DEF Tokens, Threads, Closing
<1>2. Said(a \o <<>>)
  BY <1>1, SaidTogether
<1>3. a \in Seq(EventSet) /\ a \o <<>> = a
  BY EventIsEvent, ConcatEmptySeq DEF EventTypes
<1>4. events' = events \o a
  BY <1>3, EventIsEvent, AppendIsConcat DEF EventTypes
<1> QED
  BY <1>2, <1>3, <1>4

(* Only the worker, for a stored row, writes to the stream; it writes one   *)
(* end event, or tokens that were there and one event more.                *)
LEMMA StepSays ==
    ASSUME TypeOK, RowInvariant, [Next]_vars
    PROVE  \/ events' = events
           \/ AppendEnd
           \/ /\ pc # "idle" /\ status # "absent" /\ UNCHANGED status
              /\ \E es \in Seq(EventSet) : events' = events \o es /\ Said(es)
<1> DEFINE Wrote == \E es \in Seq(EventSet) : events' = events \o es /\ Said(es)
<1>1. events \in Seq(EventSet)
  BY DEF TypeOK
<1>2. pc # "idle" => status # "absent"
  BY DEF RowInvariant, RowExists
<1>3. ASSUME HttpNext PROVE events' = events
  BY <1>3 DEF HttpNext, SubmitLookup, SubmitInsert, SubmitEnqueue, CancelRead, CancelLock,
     CancelPublish, CancelCommit, redisVars
<1>4. ASSUME \/ JobStart \/ LoadRun \/ RunningBegin \/ RunningCommit \/ ClassifyInterrupt
             \/ CancelNoticed \/ CheckCancelled \/ MarkTerminal \/ MarkCommit \/ Finally
             \/ WatchSignal \/ StreamRaises
      PROVE  events' = events
  BY <1>4 DEF JobStart, LoadRun, RunningBegin, RunningCommit, ClassifyInterrupt, CancelNoticed,
     CheckCancelled, MarkTerminal, MarkCommit, Finally, WatchSignal, StreamRaises, redisVars
<1>5. ASSUME Failures PROVE events' = events
  BY <1>5 DEF Failures, SubmitFails, CancelFails, CancelKeyExpires, WorkerCrash, SetupRaises,
     TryRaises, HandlerRaises, WorkerStopped, redisVars
<1>6. ASSUME AppendMetadata PROVE pc # "idle" /\ UNCHANGED status /\ Wrote
  <2> DEFINE b == <<Event("metadata", "main")>>
  <2>1. b \in Closing /\ <<>> \in Tokens /\ <<>> \notin OwnTokens
    <3>1. \A x, y : Len(<<x>>) = 1 /\ Len(<<x, y>>) = 2 /\ Len(<<>>) = 0
      OBVIOUS
    <3>2. <<>> \notin OwnTokens
      BY <3>1 DEF OwnTokens
    <3> QED
      BY <3>2 DEF Closing, EventTypes, Threads, Tokens
  <2>2. Said(<<>> \o b)
    BY <2>1, SaidTogether
  <2>3. b \in Seq(EventSet) /\ <<>> \o b = b
    BY EventIsEvent, ConcatEmptySeq DEF EventTypes, Threads
  <2>4. events' = events \o b
    BY <1>1, <1>6, EventIsEvent, AppendIsConcat DEF AppendMetadata, EventTypes, Threads
  <2> QED
    BY <1>6, <2>2, <2>3, <2>4 DEF AppendMetadata, rowVars
<1>7. ASSUME HandleCancelled PROVE pc # "idle" /\ UNCHANGED status /\ Wrote
  <2>1. Flush(Threads, <<Event("interrupt", "main")>>)
    BY <1>7 DEF HandleCancelled
  <2>2. <<Event("interrupt", "main")>> \in Closing
    BY DEF Closing, EventTypes, Threads
  <2>3. Wrote
    BY <1>1, <2>1, <2>2, FlushSays
  <2> QED
    BY <1>7, <2>3 DEF HandleCancelled, rowVars
<1>8. ASSUME HandleRaised PROVE pc # "idle" /\ UNCHANGED status /\ Wrote
  <2>1. PICK e \in {"retry", "error"} : Flush(Threads, <<Event(e, "main")>>)
    BY <1>8 DEF HandleRaised
  <2>2. <<Event(e, "main")>> \in Closing
    BY DEF Closing, EventTypes, Threads
  <2>3. Wrote
    BY <1>1, <2>1, <2>2, FlushSays
  <2> QED
    BY <1>8, <2>3 DEF HandleRaised, rowVars
<1>9. ASSUME NEW t \in Threads, AgentLoads(t)
      PROVE  pc # "idle" /\ UNCHANGED status /\ (events' = events \/ Wrote)
  <2>1. MainSpeaks
    BY <1>9 DEF AgentLoads, Listening, MainSpeaks
  <2>2. events' = events \/ events' = Append(events, Event("messages", t))
    BY <1>9 DEF AgentLoads
  <2>3. events' = events \/ Wrote
    BY <1>1, <2>1, <2>2, TokenSays
  <2> QED
    BY <1>9, <2>3 DEF AgentLoads, Listening, rowVars
<1>10. ASSUME NEW k \in ChunkKinds, NEW t \in Threads, AgentYields(k, t)
       PROVE  pc # "idle" /\ UNCHANGED status /\ Wrote
  <2>1. Flush({t}, EventsOf(k, t)) /\ {t} \in SUBSET Threads
    BY <1>10 DEF AgentYields
  <2>2. EventsOf(k, t) \in Closing
    BY DEF EventsOf, ChunkKinds, Closing, EventTypes
  <2>3. Wrote
    BY <1>1, <2>1, <2>2, FlushSays
  <2> QED
    BY <1>10, <2>3 DEF AgentYields, Listening, rowVars
<1>11. ASSUME StreamEnds PROVE pc # "idle" /\ UNCHANGED status /\ Wrote
  <2>1. Flush(Threads, <<>>) /\ <<>> \in Closing
    BY <1>11 DEF StreamEnds, Closing
  <2>2. Wrote
    BY <1>1, <2>1, FlushSays
  <2> QED
    BY <1>11, <2>2 DEF StreamEnds, Listening, rowVars
<1>12. CASE UNCHANGED vars
  BY <1>12 DEF vars, redisVars
<1> QED
  BY <1>2, <1>3, <1>4, <1>5, <1>6, <1>7, <1>8, <1>9, <1>10, <1>11, <1>12
     DEF Next, WorkerSteps, AgentSteps

(* No step but AppendEnd adds an end event; none changes what is written.   *)
LEMMA EndsStay ==
    ASSUME TypeOK, RowInvariant, [Next]_vars
    PROVE  \/ Ends' = Ends /\ \A i \in Ends : events'[i] = events[i]
           \/ AppendEnd
<1>1. events \in Seq(EventSet)
  BY DEF TypeOK
<1>2. CASE events' = events
  BY <1>2 DEF Ends
<1>3. ASSUME NEW es \in Seq(EventSet), events' = events \o es, Said(es)
      PROVE  Ends' = Ends /\ \A i \in Ends : events'[i] = events[i]
  <2>1. Len(events') = Len(events) + Len(es)
    BY <1>1, <1>3
  <2>2. \A i \in 1 .. Len(events) : i \in 1 .. Len(events') /\ events'[i] = events[i]
    BY <1>1, <1>3, <2>1
  <2>3. ASSUME NEW i \in 1 .. Len(events'), i \notin 1 .. Len(events)
        PROVE  events'[i].type # "end"
    <3>1. events'[i] = es[i - Len(events)] /\ i - Len(events) \in 1 .. Len(es)
      BY <1>1, <1>3, <2>1, <2>3
    <3> QED
      BY <1>3, <3>1 DEF Said
  <2> QED
    BY <2>2, <2>3 DEF Ends
<1> QED
  BY <1>2, <1>3, StepSays

(* AppendEnd adds the end event of the status it means, as the last one.   *)
LEMMA EndAppended ==
    ASSUME TypeOK, AppendEnd
    PROVE  /\ \A i \in Ends : events'[i] = events[i]
           /\ \E n \in Nat : /\ Ends' = Ends \cup {n} /\ events'[n].status = outcome
                             /\ \A i \in Ends : i < n
<1> DEFINE n == Len(events) + 1
<1>1. events \in Seq(EventSet) /\ events' = Append(events, EndEvent(outcome))
  BY DEF TypeOK, AppendEnd
<1>2. Len(events') = n /\ events'[n] = EndEvent(outcome) /\ n \in Nat
  BY <1>1
<1>3. \A i \in 1 .. Len(events) : events'[i] = events[i] /\ i < n /\ i \in 1 .. n
  BY <1>1
<1>4. \A i \in 1 .. n : i = n \/ i \in 1 .. Len(events)
  BY <1>1
<1>5. EndEvent(outcome).type = "end" /\ EndEvent(outcome).status = outcome
  BY DEF EndEvent
<1>6. Ends' = Ends \cup {n}
  BY <1>2, <1>3, <1>4, <1>5 DEF Ends
<1> QED
  BY <1>2, <1>3, <1>5, <1>6 DEF Ends

(* What disturbs a run is not undone.                                      *)
LEMMA NothingUndone ==
    ASSUME TypeOK, [Next]_vars
    PROVE  (Calm' => Calm) /\ (Undisturbed' => Undisturbed) /\ (Quiet' => Quiet)
<1>1. budget \in [Bounds -> Nat]
  BY DEF TypeOK
<1>2. (lost => lost') /\ (reopened => reopened')
  <2>1. ASSUME NEW c \in Cancels, CancelCommit(c) PROVE (lost => lost') /\ (reopened => reopened')
    BY <2>1 DEF CancelCommit
  <2>2. CASE MarkTerminal
    BY <2>2 DEF MarkTerminal
  <2>3. ASSUME \/ HttpNext \/ WorkerSteps \/ AgentSteps \/ Failures \/ WatchSignal,
               ~MarkTerminal, \A c \in Cancels : ~CancelCommit(c)
        PROVE  UNCHANGED history
    BY <2>3 DEF HttpNext, WorkerSteps, AgentSteps, Failures, SubmitLookup, SubmitInsert,
       SubmitEnqueue, SubmitFails, CancelRead, CancelLock, CancelPublish, CancelFails,
       CancelKeyExpires, WorkerCrash, SetupRaises, TryRaises, HandlerRaises, WorkerStopped,
       JobStart, LoadRun, RunningBegin, RunningCommit, AppendMetadata, WatchSignal, AgentLoads,
       AgentYields, ClassifyInterrupt, StreamEnds, StreamRaises, CancelNoticed, CheckCancelled,
       MarkCommit, AppendEnd, HandleCancelled, HandleRaised, Finally
  <2> QED
    BY <2>1, <2>2, <2>3 DEF Next, vars, history
<1> DEFINE Grows == budget' = budget \/ \E b \in Bounds : budget' = [budget EXCEPT ![b] = @ + 1]
<1>3. Grows
  <2>1. ASSUME NEW b \in Bounds, Spend(b) PROVE Grows
    BY <2>1 DEF Spend
  <2>2. ASSUME HttpNext PROVE Grows
    BY <2>1, <2>2 DEF HttpNext, SubmitLookup, SubmitInsert, SubmitEnqueue, CancelRead,
       CancelLock, CancelPublish, CancelCommit, Bounds
  <2>3. ASSUME WorkerSteps PROVE Grows
    BY <2>3 DEF WorkerSteps, JobStart, LoadRun, RunningBegin, RunningCommit, AppendMetadata,
       ClassifyInterrupt, CancelNoticed, CheckCancelled, MarkTerminal, MarkCommit, AppendEnd,
       HandleCancelled, HandleRaised, Finally
  <2>4. ASSUME AgentSteps PROVE Grows
    BY <2>1, <2>4 DEF AgentSteps, AgentLoads, AgentYields, StreamEnds, StreamRaises, Bounds
  <2>5. ASSUME Failures PROVE Grows
    BY <2>1, <2>5 DEF Failures, SubmitFails, CancelFails, CancelKeyExpires, WorkerCrash,
       SetupRaises, TryRaises, HandlerRaises, WorkerStopped, Bounds
  <2> QED
    BY <2>2, <2>3, <2>4, <2>5 DEF Next, WatchSignal, vars
<1>4. \A b \in Bounds : budget'[b] = 0 => budget[b] = 0
  BY <1>1, <1>3
<1> QED
  BY <1>2, <1>4 DEF Calm, Undisturbed, Quiet, Bounds

(* A call that raises and a stopped coroutine disturb the run; a killed     *)
(* worker makes it unquiet.                                                *)
LEMMA SpentIsDisturbed ==
    ASSUME TypeOK
    PROVE  /\ Spend("faults") \/ Spend("stops") => ~Undisturbed'
           /\ Spend("crashes") => ~Quiet'
<1>1. ASSUME NEW b \in Bounds, Spend(b) PROVE budget'[b] # 0
  BY <1>1 DEF TypeOK, Spend
<1> QED
  BY <1>1 DEF Undisturbed, Quiet, Bounds

(* An end event stays, and only AppendEnd adds one.                        *)
LEMMA EndsMove ==
    ASSUME TypeOK, RowInvariant, [Next]_vars
    PROVE  /\ HasEnd => HasEnd'
           /\ ~AppendEnd => (HasEnd' => HasEnd)
           /\ AppendEnd => HasEnd'
           /\ HasEnd <=> Ends # {}
           /\ HasEnd' <=> Ends' # {}
<1>1. (HasEnd <=> Ends # {}) /\ (HasEnd' <=> Ends' # {})
  BY DEF HasEnd, Ends
<1>2. AppendEnd => Ends \subseteq Ends' /\ Ends' # {}
  BY EndAppended
<1> QED
  BY <1>1, <1>2, EndsStay

(* In a calm run a terminal status stands.                                 *)
LEMMA TerminalStays ==
    ASSUME TypeOK, RowInvariant, [Next]_vars, Calm', status \in Terminal
    PROVE  status' = status
<1>1. status # "absent" /\ status \notin Active
  BY DEF Terminal, Active
<1>2. ASSUME NEW s \in Submits, SubmitInsert(s) PROVE status' = status
  BY <1>1, <1>2 DEF SubmitInsert
<1>3. ASSUME NEW c \in Cancels, CancelCommit(c) PROVE status' = status
  BY <1>3 DEF CancelCommit, CommitRow, rowVars, Calm
<1>4. ASSUME RunningCommit \/ MarkCommit PROVE status' = status
  BY <1>1, <1>4 DEF RunningCommit, MarkCommit, CommitRow, rowVars, RowInvariant, LockProtects
<1>5. ASSUME NEW s \in Submits, SubmitLookup(s) \/ SubmitEnqueue(s) \/ SubmitFails(s)
      PROVE  status' = status
  BY <1>5 DEF SubmitLookup, SubmitEnqueue, SubmitFails, rowVars
<1>6. ASSUME NEW c \in Cancels,
             CancelRead(c) \/ CancelLock(c) \/ CancelPublish(c) \/ CancelFails(c)
      PROVE  status' = status
  BY <1>6 DEF CancelRead, CancelLock, CancelPublish, CancelFails, rowVars
<1>7. ASSUME WorkerSteps, ~RunningCommit, ~MarkCommit PROVE status' = status
  BY <1>7 DEF WorkerSteps, JobStart, LoadRun, RunningBegin, AppendMetadata, ClassifyInterrupt,
     CancelNoticed, CheckCancelled, MarkTerminal, AppendEnd, HandleCancelled, HandleRaised,
     Finally, rowVars
<1>8. ASSUME \/ AgentSteps \/ WatchSignal \/ CancelKeyExpires \/ WorkerCrash \/ SetupRaises
             \/ TryRaises \/ HandlerRaises \/ WorkerStopped
      PROVE  status' = status
  BY <1>8 DEF AgentSteps, AgentLoads, AgentYields, StreamEnds, StreamRaises, WatchSignal,
     CancelKeyExpires, WorkerCrash, SetupRaises, TryRaises, HandlerRaises, WorkerStopped, rowVars
<1>9. CASE UNCHANGED vars
  BY <1>9 DEF vars, rowVars
<1> QED
  BY <1>2, <1>3, <1>4, <1>5, <1>6, <1>7, <1>8, <1>9 DEF Next, HttpNext, Failures

(* An attempt walks through process_agent_run as AttemptShape says.        *)
LEMMA AttemptShapeStep ==
    ASSUME TypeOK, RowInvariant, EndInvariant, [Next]_vars
    PROVE  AttemptShape'
<1> USE DEF rowVars, redisVars, jobVars, httpVars, workerVars, history, EndInvariant,
   AttemptShape, SetupPoints, TryPoints
<1>1. ASSUME NEW s \in Submits,
             \/ SubmitLookup(s) \/ SubmitInsert(s) \/ SubmitEnqueue(s) \/ SubmitFails(s)
      PROVE  AttemptShape'
  BY <1>1 DEF SubmitLookup, SubmitInsert, SubmitEnqueue, SubmitFails
<1>2. ASSUME NEW c \in Cancels,
             \/ CancelRead(c) \/ CancelLock(c) \/ CancelPublish(c) \/ CancelCommit(c)
             \/ CancelFails(c)
      PROVE  AttemptShape'
  BY <1>2 DEF CancelRead, CancelLock, CancelPublish, CancelCommit, CancelFails
<1>3. ASSUME \/ CancelKeyExpires \/ WatchSignal PROVE AttemptShape'
  BY <1>3 DEF CancelKeyExpires, WatchSignal
<1>4. ASSUME JobStart PROVE AttemptShape'
  BY <1>4 DEF JobStart
<1>5. ASSUME LoadRun PROVE AttemptShape'
  BY <1>5 DEF LoadRun, LeaveWorker, FreshLocals, JobAfter
<1>6. ASSUME RunningBegin PROVE AttemptShape'
  BY <1>6 DEF RunningBegin
<1>7. ASSUME RunningCommit PROVE AttemptShape'
  BY <1>7 DEF RunningCommit
<1>8. ASSUME AppendMetadata PROVE AttemptShape'
  BY <1>8 DEF AppendMetadata
<1>9. ASSUME ClassifyInterrupt PROVE AttemptShape'
  BY <1>9 DEF ClassifyInterrupt
<1>10. ASSUME CancelNoticed PROVE AttemptShape'
  BY <1>10 DEF CancelNoticed
<1>11. ASSUME CheckCancelled PROVE AttemptShape'
  BY <1>11 DEF CheckCancelled
<1>12. ASSUME MarkTerminal PROVE AttemptShape'
  BY <1>12 DEF MarkTerminal
<1>13. ASSUME MarkCommit PROVE AttemptShape'
  BY <1>13 DEF MarkCommit, LeaveWorker, FreshLocals, JobAfter
<1>14. ASSUME AppendEnd PROVE AttemptShape'
  BY <1>14 DEF AppendEnd
<1>15. ASSUME HandleCancelled PROVE AttemptShape'
  BY <1>15 DEF HandleCancelled
<1>16. ASSUME HandleRaised PROVE AttemptShape'
  BY <1>16 DEF HandleRaised
<1>17. ASSUME Finally PROVE AttemptShape'
  BY <1>17 DEF Finally, LeaveWorker, FreshLocals, JobAfter
<1>18. ASSUME NEW t \in Threads, AgentLoads(t) PROVE AttemptShape'
  BY <1>18 DEF AgentLoads
<1>19. ASSUME NEW k \in ChunkKinds, NEW t \in Threads, AgentYields(k, t) PROVE AttemptShape'
  BY <1>19 DEF AgentYields, Listening
<1>20. ASSUME StreamEnds PROVE AttemptShape'
  BY <1>20 DEF StreamEnds, Listening
<1>21. ASSUME StreamRaises PROVE AttemptShape'
  BY <1>21 DEF StreamRaises, Listening
<1>22. ASSUME WorkerCrash PROVE AttemptShape'
  BY <1>22 DEF WorkerCrash, LeaveWorker, FreshLocals, JobAfter
<1>23. ASSUME SetupRaises PROVE AttemptShape'
  BY <1>23 DEF SetupRaises, LeaveWorker, FreshLocals, JobAfter
<1>24. ASSUME TryRaises PROVE AttemptShape'
  BY <1>24 DEF TryRaises, InTry
<1>25. ASSUME HandlerRaises PROVE AttemptShape'
  BY <1>25 DEF HandlerRaises, InHandler
<1>26. ASSUME WorkerStopped PROVE AttemptShape'
  BY <1>26 DEF WorkerStopped, LeaveWorker, FreshLocals, JobAfter, InTry, InHandler
<1>27. CASE UNCHANGED vars
  BY <1>27 DEF vars
<1> HIDE DEF rowVars, redisVars, jobVars, httpVars, workerVars, history, EndInvariant,
   AttemptShape, SetupPoints, TryPoints
<1> QED
  BY <1>1, <1>2, <1>3, <1>4, <1>5, <1>6, <1>7, <1>8, <1>9, <1>10, <1>11, <1>12, <1>13, <1>14,
     <1>15, <1>16, <1>17, <1>18, <1>19, <1>20, <1>21, <1>22, <1>23, <1>24, <1>25, <1>26, <1>27
     DEF Next, HttpNext, WorkerSteps, AgentSteps, Failures

(* Its agent and its buffers are as AgentShape says.                       *)
LEMMA AgentShapeStep ==
    ASSUME TypeOK, RowInvariant, EndInvariant, [Next]_vars
    PROVE  AgentShape'
<1> USE DEF rowVars, redisVars, jobVars, httpVars, workerVars, history, EndInvariant,
   AttemptShape, AgentShape, SetupPoints, TryPoints, Threads
<1>m. mode \in {"setup", "chunk", "fallback", "handler"}
  BY DEF TypeOK
<1>e. (HasEnd => HasEnd') /\ (AppendEnd => HasEnd')
  BY EndsMove
<1>1. ASSUME NEW s \in Submits,
             \/ SubmitLookup(s) \/ SubmitInsert(s) \/ SubmitEnqueue(s) \/ SubmitFails(s)
      PROVE  AgentShape'
  BY <1>1, <1>e DEF SubmitLookup, SubmitInsert, SubmitEnqueue, SubmitFails
<1>2. ASSUME NEW c \in Cancels,
             \/ CancelRead(c) \/ CancelLock(c) \/ CancelPublish(c) \/ CancelCommit(c)
             \/ CancelFails(c)
      PROVE  AgentShape'
  BY <1>2, <1>e DEF CancelRead, CancelLock, CancelPublish, CancelCommit, CancelFails
<1>3. ASSUME \/ CancelKeyExpires \/ WatchSignal PROVE AgentShape'
  BY <1>3, <1>e DEF CancelKeyExpires, WatchSignal
<1>4. ASSUME JobStart PROVE AgentShape'
  BY <1>4, <1>m DEF JobStart
<1>5. ASSUME LoadRun PROVE AgentShape'
  BY <1>5, <1>m DEF LoadRun, LeaveWorker, FreshLocals
<1>6. ASSUME RunningBegin PROVE AgentShape'
  BY <1>6, <1>m DEF RunningBegin
<1>7. ASSUME RunningCommit PROVE AgentShape'
  BY <1>7, <1>m DEF RunningCommit
<1>8. ASSUME AppendMetadata PROVE AgentShape'
  BY <1>8, <1>m DEF AppendMetadata
<1>9. ASSUME ClassifyInterrupt PROVE AgentShape'
  BY <1>9, <1>m DEF ClassifyInterrupt
<1>10. ASSUME CancelNoticed PROVE AgentShape'
  BY <1>10, <1>e DEF CancelNoticed
<1>11. ASSUME CheckCancelled PROVE AgentShape'
  BY <1>11, <1>e DEF CheckCancelled
<1>12. ASSUME MarkTerminal PROVE AgentShape'
  BY <1>12, <1>e DEF MarkTerminal
<1>13. ASSUME MarkCommit PROVE AgentShape'
  BY <1>13, <1>e DEF MarkCommit, LeaveWorker, FreshLocals
<1>14. ASSUME AppendEnd PROVE AgentShape'
  BY <1>14, <1>e DEF AppendEnd
<1>15. ASSUME HandleCancelled PROVE AgentShape'
  BY <1>15, <1>e DEF HandleCancelled, Flush
<1>16. ASSUME HandleRaised PROVE AgentShape'
  BY <1>16, <1>e DEF HandleRaised, Flush
<1>17. ASSUME Finally PROVE AgentShape'
  BY <1>17 DEF Finally, LeaveWorker, FreshLocals
<1>18. ASSUME NEW t \in Threads, AgentLoads(t) PROVE AgentShape'
  BY <1>18, <1>m DEF AgentLoads, Listening
<1>19. ASSUME NEW k \in ChunkKinds, NEW t \in Threads, AgentYields(k, t) PROVE AgentShape'
  BY <1>19, <1>e DEF AgentYields, MayYield, Flush
<1>20. ASSUME StreamEnds PROVE AgentShape'
  BY <1>20, <1>e DEF StreamEnds, Flush
<1>21. ASSUME StreamRaises PROVE AgentShape'
  BY <1>21 DEF StreamRaises
<1>22. ASSUME WorkerCrash PROVE AgentShape'
  BY <1>22 DEF WorkerCrash, LeaveWorker, FreshLocals
<1>23. ASSUME SetupRaises PROVE AgentShape'
  BY <1>23 DEF SetupRaises, LeaveWorker, FreshLocals
<1>24. ASSUME TryRaises PROVE AgentShape'
  BY <1>24, <1>e DEF TryRaises
<1>25. ASSUME HandlerRaises PROVE AgentShape'
  BY <1>25, <1>e DEF HandlerRaises
<1>26. ASSUME WorkerStopped PROVE AgentShape'
  BY <1>26, <1>e DEF WorkerStopped, LeaveWorker, FreshLocals
<1>27. CASE UNCHANGED vars
  BY <1>27, <1>e DEF vars
<1> HIDE DEF rowVars, redisVars, jobVars, httpVars, workerVars, history, EndInvariant,
   AttemptShape, AgentShape, SetupPoints, TryPoints, Threads
<1> QED
  BY <1>1, <1>2, <1>3, <1>4, <1>5, <1>6, <1>7, <1>8, <1>9, <1>10, <1>11, <1>12, <1>13, <1>14,
     <1>15, <1>16, <1>17, <1>18, <1>19, <1>20, <1>21, <1>22, <1>23, <1>24, <1>25, <1>26, <1>27
     DEF Next, HttpNext, WorkerSteps, AgentSteps, Failures

(* The worker writes what it means.                                        *)
LEMMA MeansItStep ==
    ASSUME TypeOK, RowInvariant, EndInvariant, [Next]_vars
    PROVE  MeansIt'
<1> USE DEF rowVars, redisVars, jobVars, httpVars, workerVars, history, EndInvariant,
   AttemptShape, MeansIt, RowInvariant, LockProtects, TypeOK, LockRow, CommitRow, RollbackRow
<1>1. ASSUME NEW s \in Submits,
             \/ SubmitLookup(s) \/ SubmitInsert(s) \/ SubmitEnqueue(s) \/ SubmitFails(s)
      PROVE  MeansIt'
  BY <1>1 DEF SubmitLookup, SubmitInsert, SubmitEnqueue, SubmitFails
<1>2. ASSUME NEW c \in Cancels,
             \/ CancelRead(c) \/ CancelLock(c) \/ CancelPublish(c) \/ CancelCommit(c)
             \/ CancelFails(c)
      PROVE  MeansIt'
  BY <1>2, OwnersAssumption DEF CancelRead, CancelLock, CancelPublish, CancelCommit, CancelFails
<1>3. ASSUME \/ CancelKeyExpires \/ WatchSignal PROVE MeansIt'
  BY <1>3 DEF CancelKeyExpires, WatchSignal
<1>4. ASSUME JobStart PROVE MeansIt'
  BY <1>4 DEF JobStart
<1>5. ASSUME LoadRun PROVE MeansIt'
  BY <1>5 DEF LoadRun, LeaveWorker
<1>6. ASSUME RunningBegin PROVE MeansIt'
  BY <1>6 DEF RunningBegin
<1>7. ASSUME RunningCommit PROVE MeansIt'
  BY <1>7 DEF RunningCommit
<1>8. ASSUME AppendMetadata PROVE MeansIt'
  BY <1>8 DEF AppendMetadata
<1>9. ASSUME ClassifyInterrupt PROVE MeansIt'
  BY <1>9 DEF ClassifyInterrupt
<1>10. ASSUME CancelNoticed PROVE MeansIt'
  BY <1>10 DEF CancelNoticed
<1>11. ASSUME CheckCancelled PROVE MeansIt'
  BY <1>11 DEF CheckCancelled
<1>12. ASSUME MarkTerminal PROVE MeansIt'
  BY <1>12 DEF MarkTerminal, TerminalWrite
<1>13. ASSUME MarkCommit PROVE MeansIt'
  <2>1. lock' # "worker"
    BY <1>13 DEF MarkCommit
  <2>2. \A c \in Cancels : cancel'[c] # "new" => status' # "absent"
    BY <1>13 DEF MarkCommit, Terminal
  <2> QED
    BY <2>1, <2>2
<1>14. ASSUME AppendEnd PROVE MeansIt'
  BY <1>14 DEF AppendEnd
<1>15. ASSUME HandleCancelled PROVE MeansIt'
  BY <1>15 DEF HandleCancelled
<1>16. ASSUME HandleRaised PROVE MeansIt'
  BY <1>16 DEF HandleRaised
<1>17. ASSUME Finally PROVE MeansIt'
  BY <1>17 DEF Finally, LeaveWorker
<1>18. ASSUME NEW t \in Threads, AgentLoads(t) PROVE MeansIt'
  BY <1>18 DEF AgentLoads
<1>19. ASSUME NEW k \in ChunkKinds, NEW t \in Threads, AgentYields(k, t) PROVE MeansIt'
  BY <1>19 DEF AgentYields
<1>20. ASSUME StreamEnds PROVE MeansIt'
  BY <1>20 DEF StreamEnds
<1>21. ASSUME StreamRaises PROVE MeansIt'
  BY <1>21 DEF StreamRaises
<1>22. ASSUME WorkerCrash PROVE MeansIt'
  BY <1>22 DEF WorkerCrash, LeaveWorker
<1>23. ASSUME SetupRaises PROVE MeansIt'
  BY <1>23 DEF SetupRaises, LeaveWorker
<1>24. ASSUME TryRaises PROVE MeansIt'
  BY <1>24 DEF TryRaises
<1>25. ASSUME HandlerRaises PROVE MeansIt'
  BY <1>25 DEF HandlerRaises
<1>26. ASSUME WorkerStopped PROVE MeansIt'
  BY <1>26 DEF WorkerStopped, LeaveWorker
<1>27. CASE UNCHANGED vars
  BY <1>27 DEF vars
<1> HIDE DEF rowVars, redisVars, jobVars, httpVars, workerVars, history, EndInvariant,
   AttemptShape, MeansIt, RowInvariant, LockProtects, TypeOK, LockRow, CommitRow, RollbackRow
<1> QED
  BY <1>1, <1>2, <1>3, <1>4, <1>5, <1>6, <1>7, <1>8, <1>9, <1>10, <1>11, <1>12, <1>13, <1>14,
     <1>15, <1>16, <1>17, <1>18, <1>19, <1>20, <1>21, <1>22, <1>23, <1>24, <1>25, <1>26, <1>27
     DEF Next, HttpNext, WorkerSteps, AgentSteps, Failures

(* Once the row is terminal the agent is past its tokens.                  *)
LEMMA SilentOnceOverStep ==
    ASSUME TypeOK, RowInvariant, EndInvariant, [Next]_vars
    PROVE  SilentOnceOver'
<1> USE DEF rowVars, redisVars, jobVars, httpVars, workerVars, history, EndInvariant,
   AttemptShape, AgentShape, MeansIt, SilentOnceOver, SetupPoints, TryPoints, RowInvariant,
   LockProtects, Terminal, Active, CommitRow
<1>m. mode \in {"setup", "chunk", "fallback", "handler"}
  BY DEF TypeOK
<1>n. (Calm' => Calm) /\ (Undisturbed' => Undisturbed) /\ (Quiet' => Quiet)
  BY NothingUndone
<1>1. ASSUME NEW s \in Submits,
             \/ SubmitLookup(s) \/ SubmitInsert(s) \/ SubmitEnqueue(s) \/ SubmitFails(s)
      PROVE  SilentOnceOver'
  BY <1>1, <1>n DEF SubmitLookup, SubmitInsert, SubmitEnqueue, SubmitFails
<1>2. ASSUME NEW c \in Cancels,
             \/ CancelRead(c) \/ CancelLock(c) \/ CancelPublish(c) \/ CancelCommit(c)
             \/ CancelFails(c)
      PROVE  SilentOnceOver'
  BY <1>2, <1>n DEF CancelRead, CancelLock, CancelPublish, CancelCommit, CancelFails
<1>3. ASSUME \/ CancelKeyExpires \/ WatchSignal PROVE SilentOnceOver'
  BY <1>3, <1>n DEF CancelKeyExpires, WatchSignal
<1>4. ASSUME JobStart PROVE SilentOnceOver'
  BY <1>4 DEF JobStart
<1>5. ASSUME LoadRun PROVE SilentOnceOver'
  BY <1>5 DEF LoadRun, LeaveWorker, FreshLocals
<1>6. ASSUME RunningBegin PROVE SilentOnceOver'
  BY <1>6, <1>n DEF RunningBegin
<1>7. ASSUME RunningCommit PROVE SilentOnceOver'
  BY <1>7, <1>n DEF RunningCommit
<1>8. ASSUME AppendMetadata PROVE SilentOnceOver'
  BY <1>8, <1>n, <1>m DEF AppendMetadata
<1>9. ASSUME ClassifyInterrupt PROVE SilentOnceOver'
  BY <1>9 DEF ClassifyInterrupt
<1>10. ASSUME CancelNoticed PROVE SilentOnceOver'
  BY <1>10, <1>n DEF CancelNoticed
<1>11. ASSUME CheckCancelled PROVE SilentOnceOver'
  BY <1>11, <1>n DEF CheckCancelled
<1>12. ASSUME MarkTerminal PROVE SilentOnceOver'
  BY <1>12, <1>n DEF MarkTerminal
<1>13. ASSUME MarkCommit PROVE SilentOnceOver'
  BY <1>13 DEF MarkCommit, LeaveWorker, FreshLocals
<1>14. ASSUME AppendEnd PROVE SilentOnceOver'
  BY <1>14 DEF AppendEnd
<1>15. ASSUME HandleCancelled PROVE SilentOnceOver'
  BY <1>15 DEF HandleCancelled
<1>16. ASSUME HandleRaised PROVE SilentOnceOver'
  BY <1>16 DEF HandleRaised
<1>17. ASSUME Finally PROVE SilentOnceOver'
  BY <1>17 DEF Finally, LeaveWorker, FreshLocals
<1>18. ASSUME NEW t \in Threads, AgentLoads(t) PROVE SilentOnceOver'
  BY <1>18, <1>n DEF AgentLoads
<1>19. ASSUME NEW k \in ChunkKinds, NEW t \in Threads, AgentYields(k, t) PROVE SilentOnceOver'
  BY <1>19, <1>n DEF AgentYields, Listening
<1>20. ASSUME StreamEnds PROVE SilentOnceOver'
  BY <1>20 DEF StreamEnds, Listening
<1>21. ASSUME StreamRaises PROVE SilentOnceOver'
  BY <1>21, <1>n DEF StreamRaises, Listening
<1>22. ASSUME WorkerCrash PROVE SilentOnceOver'
  BY <1>22 DEF WorkerCrash, LeaveWorker, FreshLocals
<1>23. ASSUME SetupRaises PROVE SilentOnceOver'
  BY <1>23 DEF SetupRaises, LeaveWorker, FreshLocals
<1>24. ASSUME TryRaises PROVE SilentOnceOver'
  BY <1>24, <1>n DEF TryRaises, InTry
<1>25. ASSUME HandlerRaises PROVE SilentOnceOver'
  BY <1>25 DEF HandlerRaises, InHandler
<1>26. ASSUME WorkerStopped PROVE SilentOnceOver'
  BY <1>26, <1>n DEF WorkerStopped, LeaveWorker, FreshLocals, InTry, InHandler
<1>27. CASE UNCHANGED vars
  BY <1>27, <1>n DEF vars
<1> HIDE DEF rowVars, redisVars, jobVars, httpVars, workerVars, history, EndInvariant,
   AttemptShape, AgentShape, MeansIt, SilentOnceOver, SetupPoints, TryPoints, RowInvariant,
   LockProtects, Terminal, Active, CommitRow
<1> QED
  BY <1>1, <1>2, <1>3, <1>4, <1>5, <1>6, <1>7, <1>8, <1>9, <1>10, <1>11, <1>12, <1>13, <1>14,
     <1>15, <1>16, <1>17, <1>18, <1>19, <1>20, <1>21, <1>22, <1>23, <1>24, <1>25, <1>26, <1>27
     DEF Next, HttpNext, WorkerSteps, AgentSteps, Failures

(* The status is marked once.                                              *)
LEMMA MarkedOnceStep ==
    ASSUME TypeOK, RowInvariant, EndInvariant, [Next]_vars
    PROVE  MarkedOnce'
<1> USE DEF rowVars, redisVars, jobVars, httpVars, workerVars, history, EndInvariant,
   AttemptShape, AgentShape, MeansIt, SilentOnceOver, MarkedOnce, SetupPoints, TryPoints,
   RowInvariant, LockProtects, Terminal, Active, CommitRow
<1>m. mode \in {"setup", "chunk", "fallback", "handler"}
  BY DEF TypeOK
<1>n. (Calm' => Calm) /\ (Undisturbed' => Undisturbed) /\ (Quiet' => Quiet)
  BY NothingUndone
<1>d. /\ Spend("faults") \/ Spend("stops") => ~Undisturbed'
      /\ Spend("crashes") => ~Quiet'
  BY SpentIsDisturbed
<1>c. Undisturbed => Calm
  BY DEF Undisturbed, Calm
<1>1. ASSUME NEW s \in Submits,
             \/ SubmitLookup(s) \/ SubmitInsert(s) \/ SubmitEnqueue(s) \/ SubmitFails(s)
      PROVE  MarkedOnce'
  BY <1>1, <1>n DEF SubmitLookup, SubmitInsert, SubmitEnqueue, SubmitFails
<1>2. ASSUME NEW c \in Cancels,
             \/ CancelRead(c) \/ CancelLock(c) \/ CancelPublish(c) \/ CancelCommit(c)
             \/ CancelFails(c)
      PROVE  MarkedOnce'
  BY <1>2, <1>n DEF CancelRead, CancelLock, CancelPublish, CancelCommit, CancelFails
<1>3. ASSUME \/ CancelKeyExpires \/ WatchSignal PROVE MarkedOnce'
  BY <1>3, <1>n DEF CancelKeyExpires, WatchSignal
<1>4. ASSUME JobStart PROVE MarkedOnce'
  BY <1>4 DEF JobStart
<1>5. ASSUME LoadRun PROVE MarkedOnce'
  BY <1>5 DEF LoadRun, LeaveWorker, FreshLocals
<1>6. ASSUME RunningBegin PROVE MarkedOnce'
  BY <1>6 DEF RunningBegin
<1>7. ASSUME RunningCommit PROVE MarkedOnce'
  BY <1>7 DEF RunningCommit
<1>8. ASSUME AppendMetadata PROVE MarkedOnce'
  BY <1>8, <1>n, <1>m, <1>c DEF AppendMetadata
<1>9. ASSUME ClassifyInterrupt PROVE MarkedOnce'
  BY <1>9, <1>n DEF ClassifyInterrupt
<1>10. ASSUME CancelNoticed PROVE MarkedOnce'
  BY <1>10, <1>n DEF CancelNoticed
<1>11. ASSUME CheckCancelled PROVE MarkedOnce'
  BY <1>11, <1>n DEF CheckCancelled
<1>12. ASSUME MarkTerminal PROVE MarkedOnce'
  BY <1>12, <1>n DEF MarkTerminal
<1>13. ASSUME MarkCommit PROVE MarkedOnce'
  BY <1>13 DEF MarkCommit, LeaveWorker, FreshLocals
<1>14. ASSUME AppendEnd PROVE MarkedOnce'
  BY <1>14 DEF AppendEnd
<1>15. ASSUME HandleCancelled PROVE MarkedOnce'
  BY <1>15 DEF HandleCancelled
<1>16. ASSUME HandleRaised PROVE MarkedOnce'
  BY <1>16 DEF HandleRaised
<1>17. ASSUME Finally PROVE MarkedOnce'
  BY <1>17 DEF Finally, LeaveWorker, FreshLocals
<1>18. ASSUME NEW t \in Threads, AgentLoads(t) PROVE MarkedOnce'
  BY <1>18, <1>n DEF AgentLoads
<1>19. ASSUME NEW k \in ChunkKinds, NEW t \in Threads, AgentYields(k, t) PROVE MarkedOnce'
  BY <1>19, <1>n DEF AgentYields, Listening
<1>20. ASSUME StreamEnds PROVE MarkedOnce'
  BY <1>20, <1>n, <1>m DEF StreamEnds, Listening, NeedsFallback
<1>21. ASSUME StreamRaises PROVE MarkedOnce'
  BY <1>21, <1>n DEF StreamRaises, Listening
<1>22. ASSUME WorkerCrash PROVE MarkedOnce'
  BY <1>22 DEF WorkerCrash, LeaveWorker, FreshLocals
<1>23. ASSUME SetupRaises PROVE MarkedOnce'
  BY <1>23 DEF SetupRaises, LeaveWorker, FreshLocals
<1>24. ASSUME TryRaises PROVE MarkedOnce'
  BY <1>24, <1>d DEF TryRaises
<1>25. ASSUME HandlerRaises PROVE MarkedOnce'
  BY <1>25 DEF HandlerRaises, InHandler
<1>26. ASSUME WorkerStopped PROVE MarkedOnce'
  BY <1>26, <1>d DEF WorkerStopped, LeaveWorker
<1>27. CASE UNCHANGED vars
  BY <1>27, <1>n DEF vars
<1> HIDE DEF rowVars, redisVars, jobVars, httpVars, workerVars, history, EndInvariant,
   AttemptShape, AgentShape, MeansIt, SilentOnceOver, MarkedOnce, SetupPoints, TryPoints,
   RowInvariant, LockProtects, Terminal, Active, CommitRow
<1> QED
  BY <1>1, <1>2, <1>3, <1>4, <1>5, <1>6, <1>7, <1>8, <1>9, <1>10, <1>11, <1>12, <1>13, <1>14,
     <1>15, <1>16, <1>17, <1>18, <1>19, <1>20, <1>21, <1>22, <1>23, <1>24, <1>25, <1>26, <1>27
     DEF Next, HttpNext, WorkerSteps, AgentSteps, Failures

(* The end event of a terminal status is still to come, or is there.        *)
LEMMA EndToComeStep ==
    ASSUME TypeOK, RowInvariant, EndInvariant, [Next]_vars
    PROVE  EndToCome'
<1> USE DEF rowVars, redisVars, jobVars, httpVars, workerVars, history, EndInvariant,
   AttemptShape, MeansIt, EndToCome, EndInProgress, SetupPoints, TryPoints, RowInvariant,
   LockProtects, Terminal, Active, CommitRow
<1>n. (Calm' => Calm) /\ (Undisturbed' => Undisturbed) /\ (Quiet' => Quiet)
  BY NothingUndone
<1>d. /\ Spend("faults") \/ Spend("stops") => ~Undisturbed'
      /\ Spend("crashes") => ~Quiet'
  BY SpentIsDisturbed
<1>e. Ends' = {} => Ends = {} /\ ~AppendEnd
  BY EndsMove
<1>1. ASSUME NEW s \in Submits,
             \/ SubmitLookup(s) \/ SubmitInsert(s) \/ SubmitEnqueue(s) \/ SubmitFails(s)
      PROVE  EndToCome'
  BY <1>1, <1>n, <1>e DEF SubmitLookup, SubmitInsert, SubmitEnqueue, SubmitFails
<1>2. ASSUME NEW c \in Cancels,
             \/ CancelRead(c) \/ CancelLock(c) \/ CancelPublish(c) \/ CancelCommit(c)
             \/ CancelFails(c)
      PROVE  EndToCome'
  BY <1>2, <1>n, <1>e DEF CancelRead, CancelLock, CancelPublish, CancelCommit, CancelFails
<1>3. ASSUME \/ CancelKeyExpires \/ WatchSignal PROVE EndToCome'
  BY <1>3, <1>n, <1>e DEF CancelKeyExpires, WatchSignal
<1>4. ASSUME JobStart PROVE EndToCome'
  BY <1>4 DEF JobStart
<1>5. ASSUME LoadRun PROVE EndToCome'
  BY <1>5 DEF LoadRun, LeaveWorker
<1>6. ASSUME RunningBegin PROVE EndToCome'
  BY <1>6, <1>n, <1>e DEF RunningBegin
<1>7. ASSUME RunningCommit PROVE EndToCome'
  BY <1>7, <1>n, <1>e DEF RunningCommit
<1>8. ASSUME AppendMetadata PROVE EndToCome'
  BY <1>8, <1>n, <1>e DEF AppendMetadata
<1>9. ASSUME ClassifyInterrupt PROVE EndToCome'
  BY <1>9, <1>n, <1>e DEF ClassifyInterrupt
<1>10. ASSUME CancelNoticed PROVE EndToCome'
  BY <1>10, <1>n, <1>e DEF CancelNoticed
<1>11. ASSUME CheckCancelled PROVE EndToCome'
  BY <1>11, <1>n, <1>e DEF CheckCancelled
<1>12. ASSUME MarkTerminal PROVE EndToCome'
  BY <1>12, <1>n, <1>e DEF MarkTerminal
<1>13. ASSUME MarkCommit PROVE EndToCome'
  BY <1>13, <1>n, <1>e DEF MarkCommit, LeaveWorker
<1>14. ASSUME AppendEnd PROVE EndToCome'
  BY <1>14, <1>e DEF AppendEnd
<1>15. ASSUME HandleCancelled PROVE EndToCome'
  BY <1>15, <1>n, <1>e DEF HandleCancelled
<1>16. ASSUME HandleRaised PROVE EndToCome'
  BY <1>16, <1>n, <1>e DEF HandleRaised
<1>17. ASSUME Finally PROVE EndToCome'
  BY <1>17 DEF Finally, LeaveWorker
<1>18. ASSUME NEW t \in Threads, AgentLoads(t) PROVE EndToCome'
  BY <1>18, <1>n, <1>e DEF AgentLoads
<1>19. ASSUME NEW k \in ChunkKinds, NEW t \in Threads, AgentYields(k, t) PROVE EndToCome'
  BY <1>19, <1>n, <1>e DEF AgentYields, Listening
<1>20. ASSUME StreamEnds PROVE EndToCome'
  BY <1>20, <1>n, <1>e DEF StreamEnds, Listening
<1>21. ASSUME StreamRaises PROVE EndToCome'
  BY <1>21, <1>n, <1>e DEF StreamRaises, Listening
<1>22. ASSUME WorkerCrash PROVE EndToCome'
  BY <1>22 DEF WorkerCrash, LeaveWorker
<1>23. ASSUME SetupRaises PROVE EndToCome'
  BY <1>23 DEF SetupRaises, LeaveWorker
<1>24. ASSUME TryRaises PROVE EndToCome'
  BY <1>24, <1>d DEF TryRaises
<1>25. ASSUME HandlerRaises PROVE EndToCome'
  BY <1>25, <1>d DEF HandlerRaises
<1>26. ASSUME WorkerStopped PROVE EndToCome'
  BY <1>26, <1>d DEF WorkerStopped, LeaveWorker
<1>27. CASE UNCHANGED vars
  BY <1>27, <1>n, <1>e DEF vars
<1> HIDE DEF rowVars, redisVars, jobVars, httpVars, workerVars, history, EndInvariant,
   AttemptShape, MeansIt, EndToCome, EndInProgress, SetupPoints, TryPoints, RowInvariant,
   LockProtects, Terminal, Active, CommitRow
<1> QED
  BY <1>1, <1>2, <1>3, <1>4, <1>5, <1>6, <1>7, <1>8, <1>9, <1>10, <1>11, <1>12, <1>13, <1>14,
     <1>15, <1>16, <1>17, <1>18, <1>19, <1>20, <1>21, <1>22, <1>23, <1>24, <1>25, <1>26, <1>27
     DEF Next, HttpNext, WorkerSteps, AgentSteps, Failures

(* The memory job follows a completed run.                                  *)
LEMMA MemoryFollowsStep ==
    ASSUME TypeOK, RowInvariant, EndInvariant, [Next]_vars
    PROVE  MemoryFollows'
<1> USE DEF rowVars, redisVars, jobVars, httpVars, workerVars, history, EndInvariant,
   AttemptShape, AgentShape, MeansIt, MarkedOnce, MemoryFollows, EndInProgress, SetupPoints,
   TryPoints, RowInvariant, LockProtects, Terminal, Active, CommitRow
<1>m. mode \in {"setup", "chunk", "fallback", "handler"}
  BY DEF TypeOK
<1>n. (Calm' => Calm) /\ (Undisturbed' => Undisturbed) /\ (Quiet' => Quiet)
  BY NothingUndone
<1>d. /\ Spend("faults") \/ Spend("stops") => ~Undisturbed'
      /\ Spend("crashes") => ~Quiet'
  BY SpentIsDisturbed
<1>r. Quiet' => Undisturbed' /\ Calm'
  BY DEF Quiet, Undisturbed, Calm
<1>1. ASSUME NEW s \in Submits,
             \/ SubmitLookup(s) \/ SubmitInsert(s) \/ SubmitEnqueue(s) \/ SubmitFails(s)
      PROVE  MemoryFollows'
  BY <1>1, <1>n DEF SubmitLookup, SubmitInsert, SubmitEnqueue, SubmitFails
<1>2. ASSUME NEW c \in Cancels,
             \/ CancelRead(c) \/ CancelLock(c) \/ CancelPublish(c) \/ CancelCommit(c)
             \/ CancelFails(c)
      PROVE  MemoryFollows'
  BY <1>2, <1>n, <1>r DEF CancelRead, CancelLock, CancelPublish, CancelCommit, CancelFails, Calm
<1>3. ASSUME \/ CancelKeyExpires \/ WatchSignal PROVE MemoryFollows'
  BY <1>3, <1>n DEF CancelKeyExpires, WatchSignal
<1>4. ASSUME JobStart PROVE MemoryFollows'
  BY <1>4, <1>n DEF JobStart
<1>5. ASSUME LoadRun PROVE MemoryFollows'
  BY <1>5, <1>n DEF LoadRun, LeaveWorker
<1>6. ASSUME RunningBegin PROVE MemoryFollows'
  BY <1>6, <1>n DEF RunningBegin
<1>7. ASSUME RunningCommit PROVE MemoryFollows'
  BY <1>7, <1>n DEF RunningCommit
<1>8. ASSUME AppendMetadata PROVE MemoryFollows'
  BY <1>8, <1>n DEF AppendMetadata
<1>9. ASSUME ClassifyInterrupt PROVE MemoryFollows'
  BY <1>9, <1>n DEF ClassifyInterrupt
<1>10. ASSUME CancelNoticed PROVE MemoryFollows'
  BY <1>10, <1>n DEF CancelNoticed
<1>11. ASSUME CheckCancelled PROVE MemoryFollows'
  BY <1>11, <1>n DEF CheckCancelled
<1>12. ASSUME MarkTerminal PROVE MemoryFollows'
  BY <1>12, <1>n, <1>m, <1>r DEF MarkTerminal, MemoryHook
<1>13. ASSUME MarkCommit PROVE MemoryFollows'
  BY <1>13, <1>n, <1>r DEF MarkCommit, LeaveWorker, Calm
<1>14. ASSUME AppendEnd PROVE MemoryFollows'
  BY <1>14, <1>n DEF AppendEnd
<1>15. ASSUME HandleCancelled PROVE MemoryFollows'
  BY <1>15, <1>n DEF HandleCancelled
<1>16. ASSUME HandleRaised PROVE MemoryFollows'
  BY <1>16, <1>n DEF HandleRaised
<1>17. ASSUME Finally PROVE MemoryFollows'
  BY <1>17, <1>n DEF Finally, LeaveWorker
<1>18. ASSUME NEW t \in Threads, AgentLoads(t) PROVE MemoryFollows'
  BY <1>18, <1>n DEF AgentLoads
<1>19. ASSUME NEW k \in ChunkKinds, NEW t \in Threads, AgentYields(k, t) PROVE MemoryFollows'
  BY <1>19, <1>n DEF AgentYields, Listening
<1>20. ASSUME StreamEnds PROVE MemoryFollows'
  BY <1>20, <1>n DEF StreamEnds, Listening
<1>21. ASSUME StreamRaises PROVE MemoryFollows'
  BY <1>21, <1>n DEF StreamRaises, Listening
<1>22. ASSUME WorkerCrash PROVE MemoryFollows'
  BY <1>22, <1>d DEF WorkerCrash, LeaveWorker
<1>23. ASSUME SetupRaises PROVE MemoryFollows'
  BY <1>23, <1>n DEF SetupRaises, LeaveWorker
<1>24. ASSUME TryRaises PROVE MemoryFollows'
  BY <1>24, <1>d, <1>r DEF TryRaises
<1>25. ASSUME HandlerRaises PROVE MemoryFollows'
  BY <1>25, <1>n DEF HandlerRaises, InHandler
<1>26. ASSUME WorkerStopped PROVE MemoryFollows'
  BY <1>26, <1>d, <1>r DEF WorkerStopped, LeaveWorker
<1>27. CASE UNCHANGED vars
  BY <1>27, <1>n DEF vars
<1> HIDE DEF rowVars, redisVars, jobVars, httpVars, workerVars, history, EndInvariant,
   AttemptShape, AgentShape, MeansIt, MarkedOnce, MemoryFollows, EndInProgress, SetupPoints,
   TryPoints, RowInvariant, LockProtects, Terminal, Active, CommitRow
<1> QED
  BY <1>1, <1>2, <1>3, <1>4, <1>5, <1>6, <1>7, <1>8, <1>9, <1>10, <1>11, <1>12, <1>13, <1>14,
     <1>15, <1>16, <1>17, <1>18, <1>19, <1>20, <1>21, <1>22, <1>23, <1>24, <1>25, <1>26, <1>27
     DEF Next, HttpNext, WorkerSteps, AgentSteps, Failures

(* A run nobody asked to cancel leaves the stream it has ended.              *)
LEMMA ToldOnceStep ==
    ASSUME TypeOK, RowInvariant, EndInvariant, [Next]_vars
    PROVE  ToldOnce'
<1> USE DEF rowVars, redisVars, jobVars, httpVars, workerVars, history, EndInvariant,
   AttemptShape, AgentShape, ToldOnce, SetupPoints, TryPoints
<1>n. (Calm' => Calm) /\ (Undisturbed' => Undisturbed) /\ (Quiet' => Quiet)
  BY NothingUndone
<1>d. /\ Spend("faults") \/ Spend("stops") => ~Undisturbed'
      /\ Spend("crashes") => ~Quiet'
  BY SpentIsDisturbed
<1>r. Quiet' => Undisturbed' /\ Calm'
  BY DEF Quiet, Undisturbed, Calm
<1>e. (HasEnd => HasEnd') /\ (pc # "end" => (HasEnd' => HasEnd))
  BY EndsMove DEF AppendEnd
<1>h. Calm /\ HasEnd => status \in Terminal
  BY DEF RowInvariant, EndMeansTerminal, Calm
<1>1. ASSUME NEW s \in Submits,
             \/ SubmitLookup(s) \/ SubmitInsert(s) \/ SubmitEnqueue(s) \/ SubmitFails(s)
      PROVE  ToldOnce'
  BY <1>1, <1>n DEF SubmitLookup, SubmitInsert, SubmitEnqueue, SubmitFails, Unasked, HasEnd
<1>2. ASSUME NEW c \in Cancels,
             \/ CancelRead(c) \/ CancelLock(c) \/ CancelPublish(c) \/ CancelCommit(c)
             \/ CancelFails(c)
      PROVE  ToldOnce'
  BY <1>2 DEF CancelRead, CancelLock, CancelPublish, CancelCommit, CancelFails, Unasked, TypeOK,
     HasEnd
<1>3. ASSUME \/ CancelKeyExpires \/ WatchSignal PROVE ToldOnce'
  BY <1>3, <1>n DEF CancelKeyExpires, WatchSignal, Unasked, HasEnd
<1>4. ASSUME JobStart PROVE ToldOnce'
  BY <1>4, <1>n DEF JobStart, Unasked
<1>5. ASSUME LoadRun PROVE ToldOnce'
  BY <1>5, <1>n, <1>r, <1>e, <1>h DEF LoadRun, LeaveWorker, FreshLocals, Unasked
<1>6. ASSUME RunningBegin PROVE ToldOnce'
  BY <1>6, <1>n, <1>e DEF RunningBegin, Unasked
<1>7. ASSUME RunningCommit PROVE ToldOnce'
  BY <1>7, <1>n, <1>e DEF RunningCommit, Unasked
<1>8. ASSUME AppendMetadata PROVE ToldOnce'
  BY <1>8, <1>n, <1>e DEF AppendMetadata, Unasked
<1>9. ASSUME ClassifyInterrupt PROVE ToldOnce'
  BY <1>9, <1>n, <1>e DEF ClassifyInterrupt, Unasked
<1>10. ASSUME CancelNoticed PROVE ToldOnce'
  BY <1>10, <1>n DEF CancelNoticed, Unasked
<1>11. ASSUME CheckCancelled PROVE ToldOnce'
  BY <1>11, <1>n, <1>e DEF CheckCancelled, Unasked
<1>12. ASSUME MarkTerminal PROVE ToldOnce'
  BY <1>12, <1>n, <1>e DEF MarkTerminal, Unasked
<1>13. ASSUME MarkCommit PROVE ToldOnce'
  BY <1>13, <1>n, <1>e DEF MarkCommit, LeaveWorker, FreshLocals, Unasked
<1>14. ASSUME AppendEnd PROVE ToldOnce'
  BY <1>14, <1>n DEF AppendEnd, Unasked
<1>15. ASSUME HandleCancelled PROVE ToldOnce'
  BY <1>15, <1>n DEF HandleCancelled, Unasked
<1>16. ASSUME HandleRaised PROVE ToldOnce'
  BY <1>16, <1>n, <1>e DEF HandleRaised, Unasked
<1>17. ASSUME Finally PROVE ToldOnce'
  BY <1>17 DEF Finally, LeaveWorker, FreshLocals
<1>18. ASSUME NEW t \in Threads, AgentLoads(t) PROVE ToldOnce'
  BY <1>18, <1>n, <1>e DEF AgentLoads, Listening, Unasked
<1>19. ASSUME NEW k \in ChunkKinds, NEW t \in Threads, AgentYields(k, t) PROVE ToldOnce'
  BY <1>19, <1>n, <1>e DEF AgentYields, Listening, MayYield, Unasked
<1>20. ASSUME StreamEnds PROVE ToldOnce'
  BY <1>20, <1>n, <1>e DEF StreamEnds, Listening, NeedsFallback, Unasked
<1>21. ASSUME StreamRaises PROVE ToldOnce'
  BY <1>21, <1>n, <1>e DEF StreamRaises, Listening, Unasked
<1>22. ASSUME WorkerCrash PROVE ToldOnce'
  BY <1>22, <1>n DEF WorkerCrash, LeaveWorker, FreshLocals, Unasked
<1>23. ASSUME SetupRaises PROVE ToldOnce'
  BY <1>23, <1>n DEF SetupRaises, LeaveWorker, FreshLocals, Unasked
<1>24. ASSUME TryRaises PROVE ToldOnce'
  BY <1>24, <1>d, <1>r DEF TryRaises, Unasked
<1>25. ASSUME HandlerRaises PROVE ToldOnce'
  BY <1>25, <1>n DEF HandlerRaises, Unasked
<1>26. ASSUME WorkerStopped PROVE ToldOnce'
  BY <1>26, <1>d, <1>r DEF WorkerStopped, LeaveWorker, Unasked
<1>27. CASE UNCHANGED vars
  BY <1>27 DEF vars, Unasked, Quiet, Undisturbed, HasEnd
<1> HIDE DEF rowVars, redisVars, jobVars, httpVars, workerVars, history, EndInvariant,
   AttemptShape, AgentShape, ToldOnce, SetupPoints, TryPoints
<1> QED
  BY <1>1, <1>2, <1>3, <1>4, <1>5, <1>6, <1>7, <1>8, <1>9, <1>10, <1>11, <1>12, <1>13, <1>14,
     <1>15, <1>16, <1>17, <1>18, <1>19, <1>20, <1>21, <1>22, <1>23, <1>24, <1>25, <1>26, <1>27
     DEF Next, HttpNext, WorkerSteps, AgentSteps, Failures

(* An active row of a quiet run is still going somewhere.                    *)
LEMMA StillGoingStep ==
    ASSUME TypeOK, RowInvariant, EndInvariant, [Next]_vars
    PROVE  StillGoing'
<1> USE DEF rowVars, redisVars, jobVars, httpVars, workerVars, history, EndInvariant,
   AttemptShape, AgentShape, MeansIt, StillGoing, EndInProgress, RowExists, SetupPoints,
   TryPoints, RowInvariant, LockProtects, Terminal, Active, CommitRow, TypeOK
<1>n. (Calm' => Calm) /\ (Undisturbed' => Undisturbed) /\ (Quiet' => Quiet)
  BY NothingUndone
<1>d. /\ Spend("faults") \/ Spend("stops") => ~Undisturbed'
      /\ Spend("crashes") => ~Quiet'
  BY SpentIsDisturbed
<1>r. Quiet' => Undisturbed' /\ Calm'
  BY DEF Quiet, Undisturbed, Calm
<1>h. Calm /\ HasEnd => status \in Terminal
  BY DEF RowInvariant, EndMeansTerminal, Calm
<1>1. ASSUME NEW s \in Submits, SubmitLookup(s) PROVE StillGoing'
  BY <1>1, <1>n DEF SubmitLookup
<1>2. ASSUME NEW s \in Submits, SubmitInsert(s) PROVE StillGoing'
  BY <1>2, <1>n DEF SubmitInsert
<1>3. ASSUME NEW s \in Submits, SubmitEnqueue(s) PROVE StillGoing'
  BY <1>3, <1>n, MaxTriesAssumption DEF SubmitEnqueue
<1>4. ASSUME NEW c \in Cancels, CancelRead(c) PROVE StillGoing'
  BY <1>4, <1>n DEF CancelRead
<1>5. ASSUME NEW c \in Cancels, CancelLock(c) PROVE StillGoing'
  BY <1>5, <1>n DEF CancelLock
<1>6. ASSUME NEW c \in Cancels, CancelPublish(c) PROVE StillGoing'
  BY <1>6, <1>n DEF CancelPublish
<1>7. ASSUME NEW c \in Cancels, CancelCommit(c) PROVE StillGoing'
  <2>1. Calm' => (status' \in Active => status \in Active)
    BY <1>7, OwnersAssumption DEF CancelCommit, Calm, Statuses
  <2>2. UNCHANGED <<job, tries, submit, pc, leaving>>
    BY <1>7 DEF CancelCommit
  <2> QED
    BY <2>1, <2>2, <1>n, <1>r
<1>8. ASSUME NEW s \in Submits, SubmitFails(s) PROVE StillGoing'
  BY <1>8, <1>d, <1>r DEF SubmitFails
<1>9. ASSUME NEW c \in Cancels, CancelFails(c) PROVE StillGoing'
  BY <1>9, <1>n DEF CancelFails
<1>10. ASSUME CancelKeyExpires PROVE StillGoing'
  BY <1>10, <1>n DEF CancelKeyExpires
<1>11. ASSUME WatchSignal PROVE StillGoing'
  BY <1>11, <1>n DEF WatchSignal
<1>12. ASSUME JobStart PROVE StillGoing'
  BY <1>12, <1>n DEF JobStart, TriesLeft
<1>13. ASSUME LoadRun PROVE StillGoing'
  BY <1>13 DEF LoadRun, LeaveWorker
<1>14. ASSUME RunningBegin PROVE StillGoing'
  BY <1>14 DEF RunningBegin
<1>15. ASSUME RunningCommit PROVE StillGoing'
  BY <1>15 DEF RunningCommit
<1>16. ASSUME AppendMetadata PROVE StillGoing'
  BY <1>16 DEF AppendMetadata
<1>17. ASSUME ClassifyInterrupt PROVE StillGoing'
  BY <1>17 DEF ClassifyInterrupt
<1>18. ASSUME CancelNoticed PROVE StillGoing'
  BY <1>18 DEF CancelNoticed
<1>19. ASSUME CheckCancelled PROVE StillGoing'
  BY <1>19 DEF CheckCancelled
<1>20. ASSUME MarkTerminal PROVE StillGoing'
  BY <1>20 DEF MarkTerminal
<1>21. ASSUME MarkCommit PROVE StillGoing'
  BY <1>21, <1>r DEF MarkCommit, LeaveWorker, Calm
<1>22. ASSUME AppendEnd PROVE StillGoing'
  BY <1>22, <1>r DEF AppendEnd, Calm
<1>23. ASSUME HandleCancelled PROVE StillGoing'
  BY <1>23 DEF HandleCancelled
<1>24. ASSUME HandleRaised PROVE StillGoing'
  BY <1>24, MaxTriesAssumption DEF HandleRaised, LastTry
<1>25. ASSUME Finally PROVE StillGoing'
  BY <1>25, <1>n DEF Finally, LeaveWorker, JobAfter
<1>26. ASSUME NEW t \in Threads, AgentLoads(t) PROVE StillGoing'
  BY <1>26 DEF AgentLoads, Listening
<1>27. ASSUME NEW k \in ChunkKinds, NEW t \in Threads, AgentYields(k, t) PROVE StillGoing'
  BY <1>27 DEF AgentYields, Listening
<1>28. ASSUME StreamEnds PROVE StillGoing'
  BY <1>28, <1>r, <1>h DEF StreamEnds, Listening, NeedsFallback, Calm
<1>29. ASSUME StreamRaises PROVE StillGoing'
  BY <1>29 DEF StreamRaises, Listening
<1>30. ASSUME WorkerCrash PROVE StillGoing'
  BY <1>30, <1>d DEF WorkerCrash, LeaveWorker
<1>31. ASSUME SetupRaises PROVE StillGoing'
  BY <1>31, <1>d, <1>r DEF SetupRaises, LeaveWorker
<1>32. ASSUME TryRaises PROVE StillGoing'
  BY <1>32 DEF TryRaises, InTry
<1>33. ASSUME HandlerRaises PROVE StillGoing'
  BY <1>33, <1>d, <1>r DEF HandlerRaises
<1>34. ASSUME WorkerStopped PROVE StillGoing'
  BY <1>34, <1>d, <1>r DEF WorkerStopped, LeaveWorker
<1>35. CASE UNCHANGED vars
  BY <1>35, <1>n DEF vars
<1> HIDE DEF rowVars, redisVars, jobVars, httpVars, workerVars, history, EndInvariant,
   AttemptShape, AgentShape, MeansIt, StillGoing, EndInProgress, RowExists, SetupPoints,
   TryPoints, RowInvariant, LockProtects, Terminal, Active, CommitRow, TypeOK
<1> QED
  BY <1>1, <1>2, <1>3, <1>4, <1>5, <1>6, <1>7, <1>8, <1>9, <1>10, <1>11, <1>12, <1>13, <1>14,
     <1>15, <1>16, <1>17, <1>18, <1>19, <1>20, <1>21, <1>22, <1>23, <1>24, <1>25, <1>26, <1>27,
     <1>28, <1>29, <1>30, <1>31, <1>32, <1>33, <1>34, <1>35 DEF Next, HttpNext, WorkerSteps,
     AgentSteps, Failures

(* The first end event stays the first, and tells the status.              *)
LEMMA FirstEndStep ==
    ASSUME TypeOK, RowInvariant, EndInvariant, [Next]_vars
    PROVE  FirstEndIsTheStatus'
<1> SUFFICES ASSUME Undisturbed', NEW i \in Ends', \A j \in Ends' : i <= j
             PROVE  events'[i].status = status'
  BY DEF FirstEndIsTheStatus
<1>1. Undisturbed /\ Calm /\ Calm'
  BY NothingUndone DEF Undisturbed, Calm
<1>2. Ends # {} => status \in Terminal
  BY <1>1, EndsMove DEF RowInvariant, EndMeansTerminal, Calm
<1>3. status \in Terminal => status' = status
  BY <1>1, TerminalStays
<1>4. FirstEndIsTheStatus /\ EndToCome
  BY DEF EndInvariant
<1>5. CASE Ends' = Ends /\ \A k \in Ends : events'[k] = events[k]
  BY <1>1, <1>2, <1>3, <1>4, <1>5 DEF FirstEndIsTheStatus
<1>6. CASE AppendEnd
  <2>1. PICK n \in Nat : /\ Ends' = Ends \cup {n} /\ events'[n].status = outcome
                         /\ \A k \in Ends : k < n /\ events'[k] = events[k]
    BY <1>6, EndAppended
  <2>2. CASE Ends = {}
    <3>1. status \in Terminal /\ outcome = status
      BY <1>1, <1>4, <1>6, <2>2 DEF AppendEnd, EndToCome, RowInvariant, EndInProgress, Calm
    <3> QED
      BY <1>3, <2>1, <2>2, <3>1
  <2>3. CASE Ends # {}
    <3>1. Ends \subseteq Nat
      BY DEF Ends
    <3>2. i \in Ends
      <4>1. PICK k \in Ends : TRUE
        BY <2>3
      <4>2. i <= k /\ k < n /\ i \in Nat
        BY <2>1, <3>1, <4>1
      <4> QED
        BY <2>1, <3>1, <4>2
    <3> QED
      BY <1>1, <1>2, <1>3, <1>4, <2>1, <2>3, <3>2 DEF FirstEndIsTheStatus
  <2> QED
    BY <2>2, <2>3
<1> QED
  BY <1>5, <1>6, EndsStay

(* A run nobody asked to cancel tells no second end.                       *)
LEMMA OneEndStep ==
    ASSUME TypeOK, RowInvariant, EndInvariant, [Next]_vars
    PROVE  OneEnd'
<1> SUFFICES ASSUME Unasked', NEW i \in Ends', NEW j \in Ends' PROVE i = j
  BY DEF OneEnd, Unasked, Quiet
<1>1. Quiet
  BY NothingUndone DEF Unasked
<1>2. \A c \in Cancels : cancel[c] = "new"
  <2> SUFFICES ASSUME NEW d \in Cancels, cancel[d] # "new" PROVE cancel'[d] # "new"
    BY DEF Unasked
  <2>1. ASSUME NEW c \in Cancels, \/ CancelRead(c) \/ CancelLock(c) \/ CancelPublish(c)
                                  \/ CancelCommit(c) \/ CancelFails(c)
        PROVE  cancel'[d] # "new"
    BY <2>1 DEF CancelRead, CancelLock, CancelPublish, CancelCommit, CancelFails, TypeOK
  <2>2. ASSUME NEW s \in Submits, \/ SubmitLookup(s) \/ SubmitInsert(s) \/ SubmitEnqueue(s)
                                  \/ SubmitFails(s)
        PROVE  cancel' = cancel
    BY <2>2 DEF SubmitLookup, SubmitInsert, SubmitEnqueue, SubmitFails
  <2>3. ASSUME \/ WorkerSteps \/ AgentSteps \/ WatchSignal \/ CancelKeyExpires \/ WorkerCrash
               \/ SetupRaises \/ TryRaises \/ HandlerRaises \/ WorkerStopped
        PROVE  cancel' = cancel
    BY <2>3 DEF WorkerSteps, JobStart, LoadRun, RunningBegin, RunningCommit, AppendMetadata,
       ClassifyInterrupt, CancelNoticed, CheckCancelled, MarkTerminal, MarkCommit, AppendEnd,
       HandleCancelled, HandleRaised, Finally, AgentSteps, AgentLoads, AgentYields, StreamEnds,
       StreamRaises, WatchSignal, CancelKeyExpires, WorkerCrash, SetupRaises, TryRaises,
       HandlerRaises, WorkerStopped, httpVars
  <2>4. CASE UNCHANGED vars
    BY <2>4 DEF vars, httpVars
  <2> QED
    BY <2>1, <2>2, <2>3, <2>4 DEF Next, HttpNext, Failures
<1>3. Unasked /\ OneEnd /\ ToldOnce
  BY <1>1, <1>2 DEF Unasked, EndInvariant
<1>4. CASE Ends' = Ends
  BY <1>3, <1>4 DEF OneEnd, Unasked, Quiet
<1>5. CASE AppendEnd
  <2>1. Ends = {}
    BY <1>3, <1>5, EndsMove DEF ToldOnce, AppendEnd
  <2>2. PICK n \in Nat : Ends' = Ends \cup {n}
    BY <1>5, EndAppended
  <2> QED
    BY <2>1, <2>2
<1> QED
  BY <1>4, <1>5, EndsStay

(* Every step keeps the invariant, and it holds at first.                  *)
LEMMA EndInvariantStep == TypeOK /\ RowInvariant /\ EndInvariant /\ [Next]_vars => EndInvariant'
  BY AttemptShapeStep, AgentShapeStep, MeansItStep, SilentOnceOverStep, MarkedOnceStep,
     EndToComeStep, FirstEndStep, MemoryFollowsStep, ToldOnceStep, OneEndStep, StillGoingStep
     DEF EndInvariant

(* It holds when nothing was submitted yet.                                *)
LEMMA EndInvariantInit == Init => EndInvariant
<1> SUFFICES ASSUME Init PROVE EndInvariant
  OBVIOUS
<1>1. ~HasEnd /\ Ends = {}
  BY DEF Init, HasEnd, Ends
<1>2. AttemptShape /\ AgentShape
  BY <1>1 DEF Init, AttemptShape, AgentShape, SetupPoints, TryPoints
<1>3. MeansIt /\ SilentOnceOver /\ MarkedOnce /\ EndToCome
  BY <1>1, OwnersAssumption DEF Init, MeansIt, SilentOnceOver, MarkedOnce, EndToCome, Terminal
<1>4. FirstEndIsTheStatus /\ MemoryFollows /\ ToldOnce /\ OneEnd /\ StillGoing
  BY <1>1 DEF Init, FirstEndIsTheStatus, MemoryFollows, ToldOnce, OneEnd, StillGoing, Active
<1> QED
  BY <1>2, <1>3, <1>4 DEF EndInvariant

(* What one attempt may be doing, and what row and stream say about it, is  *)
(* as EndInvariant says in every reachable state.                          *)
THEOREM EndInvariantHolds == Spec => []EndInvariant
  BY EndInvariantInit, EndInvariantStep, TypeCorrect, RowCorrect, PTL DEF Spec

(* The first end event a reader meets carries the status the row ends with, *)
(* whatever the interleaving of requests, crashes and attempts, as long as *)
(* no call raises, ARQ stops nothing and the row lock drops no write.      *)
THEOREM FirstEndCorrect == Spec => []FirstEndIsTheStatus
<1>1. EndInvariant => FirstEndIsTheStatus
  BY DEF EndInvariant
<1> QED
  BY <1>1, EndInvariantHolds, PTL

(* A run nobody has asked to cancel, and nothing failed, tells one end.     *)
THEOREM OneEndCorrect == Spec => []OneEnd
<1>1. EndInvariant => OneEnd
  BY DEF EndInvariant
<1> QED
  BY <1>1, EndInvariantHolds, PTL

(* Memories are extracted of completed runs only, where nothing failed.     *)
THEOREM MemoryCorrect == Spec => []MemoryOfCompleted
<1>1. EndInvariant => MemoryOfCompleted
  BY DEF EndInvariant, MemoryOfCompleted, MemoryFollows, AttemptShape, AtRest, Quiet
<1> QED
  BY <1>1, EndInvariantHolds, PTL

(* When everything has come to rest a run is active only because something  *)
(* failed or the row lock dropped a write.                                 *)
THEOREM NothingLeftCorrect == Spec => []NothingLeftBehind
<1>1. ASSUME TypeOK, EndInvariant, AtRest, status \in Active
      PROVE  \/ lost \/ reopened \/ ~RetryOnError
             \/ budget["faults"] > 0 \/ budget["crashes"] > 0 \/ budget["stops"] > 0
  <2>1. ~(Quiet /\ RetryOnError)
    BY <1>1 DEF EndInvariant, StillGoing, AtRest
  <2>2. \A b \in Bounds : budget[b] \in Nat
    BY <1>1 DEF TypeOK
  <2> QED
    BY <2>1, <2>2 DEF Quiet, Undisturbed, Bounds
<1> QED
  BY <1>1, EndInvariantHolds, TypeCorrect, PTL DEF NothingLeftBehind

-----------------------------------------------------------------------------
(* The row and the stream together implement RunOutput until a window of    *)
(* the row lock is met.                                                    *)

(* In a calm run the row moves as RunOutput lets it.                       *)
LEMMA CalmRowMoves ==
    ASSUME TypeOK, RowInvariant, EndInvariant, [Next]_vars, Calm'
    PROVE  \/ status' = status
           \/ status = "absent" /\ status' = "pending"
           \/ status \in Active /\ status' \in {"running", "cancel_requested"} \cup Terminal
<1>1. [Lifecycle!Next]_Lifecycle!vars
  BY LifecycleStep
<1>2. status \in Terminal => status' = status
  BY TerminalStays
<1>3. Deciding # {} => status # "absent"
  BY DEF Deciding, EndInvariant, MeansIt
<1>4. status = "absent" \/ status \in Active \/ status \in Terminal
  BY DEF TypeOK, Statuses
<1> QED
  BY <1>1, <1>2, <1>3, <1>4 DEF Lifecycle!Next, Lifecycle!vars, Lifecycle!Create,
     Lifecycle!Start, Lifecycle!Finish, Lifecycle!Decide, Lifecycle!Answer,
     Lifecycle!Active, Lifecycle!Terminal, Active, Terminal

(* Once the row of a calm run is terminal no token of its own thread is     *)
(* left to be written: buffers are flushed before a status is marked.      *)
LEMMA MainIsSilent ==
    ASSUME TypeOK, EndInvariant, Calm, status \in Terminal
    PROVE  ~MainSpeaks
  BY DEF TypeOK, EndInvariant, AttemptShape, AgentShape, SilentOnceOver, MainSpeaks, SetupPoints

(* Tokens and one event after them may be written at once.                 *)
LEMMA WrittenTogether == \A a \in Tokens, b \in LastWords : a \o b \in Outputs
  BY DEF Outputs

(* Every step of a calm run is one of RunOutput.                           *)
LEMMA OutputStep ==
    ASSUME TypeOK, RowInvariant, EndInvariant, [Next]_vars, Calm'
    PROVE  Output!Next \/ UNCHANGED <<status, events>>
<1>1. Calm
  BY NothingUndone
<1>2. CASE events' = events
  BY <1>2, CalmRowMoves DEF Output!Next, Output!Create, Output!Progress, Output!Finish,
     Output!Active, Output!Terminal, Active, Terminal
<1>3. CASE AppendEnd
  <2> DEFINE es == <<EndEvent(outcome)>>
  <2>1. status \in Terminal /\ status # "absent" /\ status \notin Output!Active
    BY <1>1, <1>3 DEF AppendEnd, RowInvariant, EndInProgress, Calm, Terminal, Output!Active
  <2>2. outcome \in Terminal
    BY <1>3 DEF AppendEnd, RowInvariant, EndInProgress
  <2>3. EndEvent(outcome) \in EventSet
    BY <2>2 DEF EndEvent, EventSet, EventTypes, Threads
  <2>4. es \in Outputs
    <3>1. <<>> \in Tokens /\ es \in LastWords
      BY <2>2 DEF Tokens, LastWords
    <3>2. es \in Seq(EventSet)
      BY <2>3
    <3> HIDE DEF es
    <3>3. <<>> \o es \in Outputs
      BY <3>1, WrittenTogether
    <3>4. <<>> \o es = es
      BY <3>2, ConcatEmptySeq
    <3> QED
      BY <3>3, <3>4
  <2>5. events' = events \o es /\ status' = status
    BY <1>3, <2>3, AppendIsConcat DEF AppendEnd, TypeOK, rowVars
  <2>6. \A i \in 1 .. Len(es) : ~Output!IsToken(es[i])
    BY DEF Output!IsToken, EndEvent
  <2> QED
    BY <2>1, <2>4, <2>5, <2>6 DEF Output!Next, Output!Write
<1>4. ASSUME NEW es \in Seq(EventSet), events' = events \o es, Said(es), status' = status,
             status # "absent"
      PROVE  Output!Next
  <2>1. \A i \in 1 .. Len(es) : ~Output!IsEnd(es[i])
    BY <1>4 DEF Said, Output!IsEnd
  <2>2. status \notin Output!Active => status \in Terminal
    BY <1>4 DEF TypeOK, Statuses, Active, Output!Active
  <2>3. status \in Terminal => \A i \in 1 .. Len(es) : ~Output!IsToken(es[i])
    BY <1>1, <1>4, MainIsSilent DEF Said, Output!IsToken
  <2> QED
    BY <1>4, <2>1, <2>2, <2>3 DEF Output!Next, Output!Write, Said
<1> QED
  BY <1>2, <1>3, <1>4, StepSays

(* No end event is written while the row is active, and no token of the     *)
(* run's own thread once it is terminal, until a window of the row lock.   *)
THEOREM OutputRefined == Spec => OutputUntilWindow
<1>1. Init => Output!Init
  BY DEF Init, Output!Init
<1>2. TypeOK /\ RowInvariant /\ EndInvariant /\ [Next]_vars
        => [Output!Next \/ lost' \/ reopened']_<<status, events>>
  <2> SUFFICES ASSUME TypeOK, RowInvariant, EndInvariant, [Next]_vars
               PROVE  [Output!Next \/ lost' \/ reopened']_<<status, events>>
    OBVIOUS
  <2>1. CASE Calm'
    BY <2>1, OutputStep
  <2>2. CASE ~Calm'
    BY <2>2 DEF Calm
  <2> QED
    BY <2>1, <2>2
<1> QED
  BY <1>1, <1>2, TypeCorrect, RowCorrect, EndInvariantHolds, PTL DEF Spec, OutputUntilWindow
====
