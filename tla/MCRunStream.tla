---------------------------- MODULE MCRunStream ----------------------------
(* RunStream on small instances.  A run writes its own tokens, metadata at *)
(* the start of an attempt, errors and ends, one or two events at a time.  *)
EXTENDS RunStream

Ev(type, thread) == [type |-> type, thread |-> thread, status |-> "none"]
Token == Ev("messages", "main")
MCOutputs == {<<Token>>, <<Ev("metadata", "main")>>, <<Token, Ev("error", "main")>>,
              <<Ev("retry", "main")>>, <<Ev("end", "main")>>}
=============================================================================
