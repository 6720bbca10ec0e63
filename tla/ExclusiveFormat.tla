--------------------------- MODULE ExclusiveFormat ---------------------------
(***************************************************************************)
(* What the user of Format NVM may rely on: the drive is erased in one step*)
(* and while no other process has a file open on it.                       *)
(***************************************************************************)
EXTENDS Naturals

CONSTANT Users

VARIABLES
  open,   \* the processes that have files open
  formats \* how often the drive has been erased

Init == open = {} /\ formats = 0

Open(u) == open' = open \cup {u} /\ UNCHANGED formats
Close(u) == open' = open \ {u} /\ UNCHANGED formats
Erase == open = {} /\ formats' = formats + 1 /\ UNCHANGED open

Next == Erase \/ \E u \in Users : Open(u) \/ Close(u)

Spec == Init /\ [][Next]_<<open, formats>>
=============================================================================
