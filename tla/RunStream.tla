----------------------------- MODULE RunStream -----------------------------
(***************************************************************************)
(* Following a run: the generator stream_agent_run_events behind           *)
(* GET /runs/{run_id}/events, the connection that carries its frames, and  *)
(* the page that applies them (useAgentRunStream).                         *)
(*                                                                         *)
(* The run itself is RunOutput.  An event's sequence number is its place   *)
(* in the stream; entries up to "base" are gone, the Redis key having      *)
(* outlived its TTL.  The page asks for verbose=false, so metadata events  *)
(* move the server's cursor and are not sent.  Heartbeats are left out.    *)
(***************************************************************************)
EXTENDS Naturals, Sequences, FiniteSets

CONSTANTS
    Outputs,        \* what one write of the worker appends
    BatchLimit,     \* the limit of list_run_stream_events (200)
    MaxEvents,      \* bound: length of the stream
    MaxErrors,      \* bound: database or Redis errors of the server, of requests
    MaxDrops,       \* bound: connections lost
    MaxTimeouts,    \* bound: connections closed at SSE_MAX_CONNECTION_MINUTES
    MaxReloads,     \* bound: page reloads
    MaxExpiries     \* bound: times the TTL of the stream passes

ASSUME BatchAssumption == BatchLimit \in Nat \ {0}
ASSUME BoundsAssumption ==
    /\ MaxEvents \in Nat /\ MaxErrors \in Nat /\ MaxDrops \in Nat
    /\ MaxTimeouts \in Nat /\ MaxReloads \in Nat /\ MaxExpiries \in Nat
ASSUME OutputsAssumption == \A es \in Outputs : es \in Seq({es[i] : i \in DOMAIN es})

VARIABLES
    status, events, \* the run: see RunOutput
    base,           \* the entries that expired with the stream's key
    server,         \* the generator: "closed", "row", "read" or "last"
    rowSeen,        \* the status it read at the top of this round
    lastSeq,        \* its cursor last_seq, 0 for "0-0"
    wire,           \* frames sent and not yet read by the page
    page,           \* "new", "open", "check", "wait", "resume" or "done"
    cursor,         \* runLastSeq of the page
    applied,        \* the events the page has applied, as sequence numbers
    how,            \* why the page is done: "end", "error", "status" or "none"
    budget

runVars    == <<status, events>>
serverVars == <<server, rowSeen, lastSeq>>
pageVars   == <<page, cursor, applied, how>>
vars == <<runVars, base, serverVars, wire, pageVars, budget>>

Run == INSTANCE RunOutput

Bounds == {"errors", "drops", "timeouts", "reloads", "expiries"}
Limit == [errors |-> MaxErrors, drops |-> MaxDrops, timeouts |-> MaxTimeouts,
          reloads |-> MaxReloads, expiries |-> MaxExpiries]
Spend(b) == budget[b] < Limit[b] /\ budget' = [budget EXCEPT ![b] = @ + 1]

(* A frame: an event of the stream with its id, or one the server made up. *)
Frame(type, seq) == [type |-> type, seq |-> seq]

Init ==
    /\ Run!Init /\ base = 0
    /\ server = "closed" /\ rowSeen = "absent" /\ lastSeq = 0 /\ wire = <<>>
    /\ page = "new" /\ cursor = 0 /\ applied = <<>> /\ how = "none"
    /\ budget = [b \in Bounds |-> 0]

-----------------------------------------------------------------------------
RunSteps ==
    /\ Run!Next /\ Len(events') <= MaxEvents
    /\ UNCHANGED <<base, serverVars, wire, pageVars, budget>>

(* RUN_EVENTS_STREAM_TTL_SECONDS after the last append: entries only go    *)
(* all together, and the ids of later ones are still larger.               *)
StreamExpires ==
    /\ base < Len(events)
    /\ Spend("expiries")
    /\ base' = Len(events)
    /\ UNCHANGED <<runVars, serverVars, wire, pageVars>>

-----------------------------------------------------------------------------
(* stream_agent_run_events: the row is read first, the stream second. *)

ServerReadsRow ==
    /\ server = "row"
    /\ rowSeen' = status
    /\ server' = "read"
    /\ UNCHANGED <<runVars, base, lastSeq, wire, pageVars, budget>>

Least(a, b) == IF a <= b THEN a ELSE b
Last(seqs)  == CHOOSE i \in seqs : \A j \in seqs : j <= i

(* xrange(min="(" + after_seq, count=limit) *)
FirstAfterSkipping(seq) == (IF seq > base THEN seq ELSE base) + 2
FirstAfterInclusive(seq) == IF seq > base THEN seq ELSE base + 1

FirstAfter(seq) == (IF seq > base THEN seq ELSE base) + 1
Batch(seq) == FirstAfter(seq) .. Least(Len(events), FirstAfter(seq) + BatchLimit - 1)

(* The places of some entries, in the order of the stream. *)
Ascending(seqs) ==
    CHOOSE s \in [1 .. Cardinality(seqs) -> seqs] : \A i, j \in DOMAIN s : i < j => s[i] < s[j]

Sent(seqs) ==
    LET kept == Ascending({i \in seqs : events[i].type # "metadata"})
    IN  [k \in DOMAIN kept |-> Frame(events[kept[k]].type, kept[k])]

OverSeenEarly == rowSeen \in Run!Terminal \cup {"cancel_requested"}

(* What the round knows of the row: what it read before the stream. *)
OverSeen == rowSeen \in Run!Terminal

NothingLeftUnchecked(batch) == TRUE

(* "not events": a full batch may have more behind it. *)
NothingLeft(batch) == batch = {}

(* One round: send the batch; stop after an end event; make one up if the   *)
(* row was terminal before the stream was found empty; else sleep, unless   *)
(* the connection is too old.                                              *)
ServerReadsStream ==
    /\ server = "read"
    /\ LET batch == Batch(lastSeq)
           hasEnd == \E i \in batch : events[i].type = "end"
           madeUp == ~hasEnd /\ OverSeen /\ NothingLeft(batch)
           sent == wire \o Sent(batch)
       IN
       /\ lastSeq' = IF batch = {} THEN lastSeq ELSE Last(batch)
       /\ \/ hasEnd /\ server' = "closed" /\ wire' = sent /\ UNCHANGED budget
          \/ madeUp /\ lastSeq' = 0 /\ server' = "last" /\ wire' = sent /\ UNCHANGED budget
          \/ /\ madeUp /\ lastSeq' # 0
             /\ server' = "closed" /\ wire' = Append(sent, Frame("end", lastSeq'))
             /\ UNCHANGED budget
          \/ /\ ~hasEnd /\ ~madeUp /\ wire' = sent
             /\ \/ server' = "row" /\ UNCHANGED budget
                \/ server' = "closed" /\ Spend("timeouts")
    /\ UNCHANGED <<runVars, base, rowSeen, pageVars>>

(* get_last_run_stream_seq: the id of the made-up end for a reader that    *)
(* has no cursor; none if the stream is empty.                             *)
ServerReadsLast ==
    /\ server = "last"
    /\ server' = "closed"
    /\ wire' = Append(wire, Frame("end", IF Len(events) > base THEN Len(events) ELSE 0))
    /\ UNCHANGED <<runVars, base, rowSeen, lastSeq, pageVars, budget>>

(* A database or Redis error becomes an error frame without an id. *)
ServerErrs ==
    /\ server \in {"row", "read"}
    /\ Spend("errors")
    /\ server' = "closed" /\ wire' = Append(wire, Frame("error", 0))
    /\ UNCHANGED <<runVars, base, rowSeen, lastSeq, pageVars>>

(* get_last_run_stream_seq raises: nothing catches it, the response breaks *)
(* off and the page reconnects.                                            *)
ServerBreaks ==
    /\ server = "last"
    /\ Spend("errors")
    /\ server' = "closed"
    /\ page' = IF page = "open" THEN "wait" ELSE page
    /\ UNCHANGED <<runVars, base, rowSeen, lastSeq, wire, cursor, applied, how>>

-----------------------------------------------------------------------------
(* useAgentRunStream. *)

OpenNext(seq) ==
    /\ page' = "open" /\ cursor' = seq + 1
    /\ server' = "row" /\ lastSeq' = seq + 1 /\ wire' = <<>>
    /\ UNCHANGED rowSeen

Open(seq) ==
    /\ page' = "open" /\ cursor' = seq
    /\ server' = "row" /\ lastSeq' = seq /\ wire' = <<>>
    /\ UNCHANGED rowSeen

(* The page starts with the run the POST has created, or reconnects. *)
PageOpens ==
    /\ (page = "new" /\ status # "absent") \/ page = "wait"
    /\ Open(cursor)
    /\ UNCHANGED <<runVars, base, applied, how, budget>>

Finish(why) == page' = "done" /\ how' = why

(* compareRunSeq: a frame whose id is not newer than the cursor is dropped. *)
Stale(f) == f.seq # 0 /\ f.seq <= cursor

(* A frame is read; a dropped one changes nothing, a retryable error is    *)
(* waited out, an end or any other error ends the page's interest.         *)
PageReads ==
    /\ page = "open" /\ wire # <<>>
    /\ LET f == Head(wire) IN
       /\ wire' = Tail(wire)
       /\ IF Stale(f)
          THEN UNCHANGED pageVars
          ELSE /\ cursor' = IF f.seq = 0 THEN cursor ELSE f.seq
               /\ applied' = IF f.seq = 0 THEN applied ELSE Append(applied, f.seq)
               /\ CASE f.type = "end"   -> Finish("end")
                    [] f.type = "error" -> Finish("error")
                    [] OTHER            -> UNCHANGED <<page, how>>
    /\ UNCHANGED <<runVars, base, serverVars, budget>>

(* The body ended without a terminal event. *)
PageFindsClosed ==
    /\ page = "open" /\ server = "closed" /\ wire = <<>>
    /\ page' = "check"
    /\ UNCHANGED <<runVars, base, serverVars, wire, cursor, applied, how, budget>>

(* GET /runs/{run_id}; if it fails the page reconnects all the same. *)
PageChecks ==
    /\ page = "check"
    /\ \/ status \in Run!Terminal /\ Finish("status") /\ UNCHANGED budget
       \/ status \notin Run!Terminal /\ page' = "wait" /\ UNCHANGED <<how, budget>>
       \/ Spend("errors") /\ page' = "wait" /\ UNCHANGED how
    /\ UNCHANGED <<runVars, base, serverVars, wire, cursor, applied>>

(* The network fails: what was in flight is lost, the generator is         *)
(* cancelled, the page reconnects.                                         *)
ConnectionDrops ==
    /\ page = "open"
    /\ Spend("drops")
    /\ server' = "closed" /\ wire' = <<>> /\ page' = "wait"
    /\ UNCHANGED <<runVars, base, rowSeen, lastSeq, cursor, applied, how>>

(* A reloaded page has rendered nothing: it drops its cursor and asks for   *)
(* the run, then replays the stream, or shows the stored messages.          *)
PageReloads ==
    /\ page \in {"open", "check", "wait"}
    /\ Spend("reloads")
    /\ page' = "resume" /\ cursor' = 0 /\ applied' = <<>>
    /\ server' = "closed" /\ wire' = <<>>
    /\ UNCHANGED <<runVars, base, rowSeen, lastSeq, how>>

PageResumes ==
    /\ page = "resume"
    /\ IF status \in Run!Terminal \ {"interrupted"}
       THEN Finish("status") /\ UNCHANGED <<cursor, serverVars, wire>>
       ELSE Open(0) /\ UNCHANGED how
    /\ UNCHANGED <<runVars, base, applied, budget>>

-----------------------------------------------------------------------------
ServerSteps == ServerReadsRow \/ ServerReadsStream \/ ServerReadsLast
PageSteps == PageOpens \/ PageReads \/ PageFindsClosed \/ PageChecks \/ PageResumes
Failures == StreamExpires \/ ServerErrs \/ ServerBreaks \/ ConnectionDrops \/ PageReloads

Next == RunSteps \/ ServerSteps \/ PageSteps \/ Failures

Spec == Init /\ [][Next]_vars

(* The generator and the page run on event loops that resume a coroutine   *)
(* whose awaited read has answered.  The run owes nothing.                 *)
FairSpec == Spec /\ WF_vars(ServerSteps) /\ WF_vars(PageSteps)

-----------------------------------------------------------------------------
(* Properties. *)

(* Type correctness of the server, the connection and the page. *)
TypeOK ==
    /\ base \in 0 .. Len(events)
    /\ server \in {"closed", "row", "read", "last"}
    /\ rowSeen \in {"absent"} \cup Run!Active \cup Run!Terminal
    /\ lastSeq \in 0 .. Len(events) /\ cursor \in 0 .. Len(events)
    /\ \A i \in 1 .. Len(wire) : wire[i].seq \in 0 .. Len(events)
    /\ page \in {"new", "open", "check", "wait", "resume", "done"}
    /\ how \in {"none", "end", "error", "status"}
    /\ \A b \in Bounds : budget[b] \in 0 .. Limit[b]

Applied == {applied[i] : i \in 1 .. Len(applied)}

(* Whatever connections are lost, reconnections replay nothing and skip     *)
(* nothing: the page applies each event once, in order, and, as long as it *)
(* has not been told the end, every event up to its cursor that it could   *)
(* still read.                                                             *)
ExactReplay ==
    /\ \A i, j \in 1 .. Len(applied) : i < j => applied[i] < applied[j]
    /\ how # "end" => \A i \in base + 1 .. cursor : events[i].type # "metadata" => i \in Applied

(* A page that ends at an end frame, real or made up, has the whole answer: *)
(* every token of the run's own thread that has not expired.  The server    *)
(* must read the row before the stream for this.                           *)
EndHasTheAnswer ==
    how = "end" => \A i \in base + 1 .. Len(events) : Run!IsToken(events[i]) => i \in Applied

(* A page only leaves a run that is over, whether it stops for an end frame, *)
(* real or made up, or for the row's status.  The exceptions are an error    *)
(* the run reported itself and an error frame of the generator, whose        *)
(* message asks to reconnect and which the page takes for the run's end.     *)
LeavesOnlyOver ==
    page = "done" =>
        \/ status \in Run!Terminal
        \/ /\ how = "error"
           /\ \/ budget["errors"] > 0
              \/ \E i \in Applied : events[i].type = "error"

(* Every page that follows a run learns that it is over, though the end     *)
(* event was never written, or expired, or was lost with its connection.    *)
PageEnds == (page # "new" /\ status \in Run!Terminal) ~> (page = "done")
=============================================================================
