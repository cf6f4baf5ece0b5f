----------------------------- MODULE RunOutput -----------------------------
(***************************************************************************)
(* What a run promises to those who follow it: the status of its row and   *)
(* the Redis stream of its events, to which it only appends.               *)
(*                                                                         *)
(*   - no end event is written while the row is active;                    *)
(*   - no token of the run's own thread is written once it is terminal,    *)
(*     so whoever saw the row terminal finds the whole answer behind it.   *)
(*                                                                         *)
(* AgentRun implements this (AgentRunProperties); RunStream relies on it.  *)
(***************************************************************************)
EXTENDS Naturals, Sequences

CONSTANT Outputs    \* the sequences of events that one write may append

VARIABLES status, events

vars == <<status, events>>

Terminal == {"completed", "failed", "cancelled", "interrupted"}
Active   == {"pending", "running", "cancel_requested"}

IsEnd(e)   == e.type = "end"
IsToken(e) == e.type = "messages" /\ e.thread = "main"

Init == status = "absent" /\ events = <<>>

Create == status = "absent" /\ status' = "pending" /\ UNCHANGED events

Progress == status \in Active /\ status' \in {"running", "cancel_requested"} /\ UNCHANGED events

Finish(s) == status \in Active /\ status' = s /\ UNCHANGED events

Write(es) ==
    /\ status # "absent"
    /\ \A i \in 1 .. Len(es) : IF status \in Active THEN ~IsEnd(es[i]) ELSE ~IsToken(es[i])
    /\ events' = events \o es
    /\ UNCHANGED status

Next == \/ Create \/ Progress
        \/ \E s \in Terminal : Finish(s)
        \/ \E es \in Outputs : Write(es)

Spec == Init /\ [][Next]_vars
=============================================================================
