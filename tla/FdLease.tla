------------------------------ MODULE FdLease -------------------------------
(***************************************************************************)
(* What the memory controller promises its clients about one named memory: *)
(* the name is held by at most one borrow at a time, it stays held until a *)
(* return request, and every request gets one answer, "ok" or "fail",      *)
(* which is never taken back.  FdBorrow implements this.                   *)
(***************************************************************************)
CONSTANTS Borrows, Returns

VARIABLES
    lease,    \* the name is held by a successful borrow
    todo,     \* requests not yet received
    answers   \* answers[r]: the answers given to r

vars == <<lease, todo, answers>>

Requests == Borrows \cup Returns

Init ==
    /\ lease = FALSE
    /\ todo = Requests
    /\ answers = [r \in Requests |-> {}]

Pending(r) == r \notin todo /\ answers[r] = {}

Answer(r, how) == answers' = [answers EXCEPT ![r] = {how}]

Receive(r) ==
    /\ r \in todo
    /\ todo' = todo \ {r}
    /\ UNCHANGED <<lease, answers>>

\* A request may be refused when it is received, and fail at any time later.
Refuse(r) ==
    /\ r \in todo \/ Pending(r)
    /\ todo' = todo \ {r}
    /\ Answer(r, "fail")
    /\ UNCHANGED lease

Grant(b) ==
    /\ Pending(b)
    /\ ~lease
    /\ lease' = TRUE
    /\ Answer(b, "ok")
    /\ UNCHANGED todo

\* The importer gave the memory up; what is left for the return r to do may
\* still succeed, fail, or be done.
Release(r) ==
    /\ Pending(r)
    /\ lease
    /\ lease' = FALSE
    /\ \/ UNCHANGED answers
       \/ \E how \in {"ok", "fail"} : Answer(r, how)
    /\ UNCHANGED todo

Complete(r) ==
    /\ Pending(r)
    /\ ~lease
    /\ Answer(r, "ok")
    /\ UNCHANGED <<lease, todo>>

Next ==
    \/ \E r \in Requests : Receive(r) \/ Refuse(r)
    \/ \E b \in Borrows : Grant(b)
    \/ \E r \in Returns : Release(r) \/ Complete(r)

Spec == Init /\ [][Next]_vars
=============================================================================
