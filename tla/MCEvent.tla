------------------------------ MODULE MCEvent ------------------------------
(***************************************************************************)
(* An instance of Event: the memory controller and the election subscribe  *)
(* to the panic event, one with a function and one with a lambda.          *)
(***************************************************************************)
EXTENDS Event

MCId == [memory |-> "panic", election |-> "panic"]
MCPriority == [memory |-> "HIGH", election |-> "LOW"]

\* UbseEventConfigCheck starts at least two workers for each priority; the
\* smaller instance has one for the handler that does not hang.
MCThreads == [HIGH |-> 2, LOW |-> 2]
MCThreadsFew == [HIGH |-> 1, LOW |-> 2]
=============================================================================
