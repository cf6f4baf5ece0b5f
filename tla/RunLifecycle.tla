---------------------------- MODULE RunLifecycle ----------------------------
(***************************************************************************)
(* What the row of a run promises to those who read it: it is created      *)
(* pending, it is active until it gets one terminal status, and a cancel   *)
(* request decides from the status it reads whether it will write          *)
(* cancel_requested, then writes it later or not at all.  How the writes   *)
(* are locked, retried or lost is left to AgentRun, which implements this. *)
(***************************************************************************)
CONSTANT Cancels    \* the cancel requests

VARIABLES
    status,         \* the committed status, "absent" before the row exists
    deciding        \* the cancel requests that found the run active and are
                    \* not answered yet

vars == <<status, deciding>>

Terminal == {"completed", "failed", "cancelled", "interrupted"}
Active   == {"pending", "running", "cancel_requested"}

Init == status = "absent" /\ deciding = {}

Create == status = "absent" /\ status' = "pending" /\ UNCHANGED deciding

Start == status \in Active /\ status' = "running" /\ UNCHANGED deciding

Finish(s) == status \in Active /\ status' = s /\ UNCHANGED deciding

Decide(c) ==
    /\ status \in Active
    /\ deciding' = deciding \cup {c}
    /\ UNCHANGED status

Answer(c) ==
    /\ c \in deciding
    /\ deciding' = deciding \ {c}
    /\ status' \in {status, "cancel_requested"}

Next == \/ Create \/ Start
        \/ \E s \in Terminal : Finish(s)
        \/ \E c \in Cancels : Decide(c) \/ Answer(c)

Spec == Init /\ [][Next]_vars

(* A terminal status stands as soon as no undecided cancel request is left. *)
SettledIsFinal == [][(status \in Terminal /\ deciding = {}) => UNCHANGED status]_vars
=============================================================================
