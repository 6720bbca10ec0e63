----------------------------- MODULE AtomicQuery -----------------------------
(***************************************************************************)
(* What a caller may rely on when it calls a function that reads a data    *)
(* structure of the drive: the call ends in one of a few ways, and this    *)
(* alone decides what it returns and whether its global was written.       *)
(* NVMeTool uses the functions in this form.                               *)
(***************************************************************************)
EXTENDS QueryShapes

CONSTANT Queries \* the functions that are called

VARIABLES
  last,   \* the function called last, how the call ended, what it returned
  memory  \* how the call ended that wrote each global

aqVars == <<last, memory>>

Called(q, v) == [query |-> q, verdict |-> v, result |-> ResultOf(q, v)]

Init ==
  /\ last \in {Called(q, "noMemory") : q \in Queries}
  /\ memory = [g \in Kept |-> "none"]

Call(q, v) ==
  /\ last' = Called(q, v)
  /\ memory' = IF Stores(q, v) THEN [memory EXCEPT ![q.keeps] = v] ELSE memory

Next == \E q \in Queries : \E v \in VerdictsOf(q) : Call(q, v)

Spec == Init /\ [][Next]_aqVars
=============================================================================
