--------------------------- MODULE MonotonicReads ---------------------------
(***************************************************************************)
(* What a reader of the tool's reports may rely on in one session: a       *)
(* report shows a state the drive has been in, and never one older than a  *)
(* report of the same thing has shown before.                              *)
(***************************************************************************)
EXTENDS Integers

CONSTANT Items

VARIABLES
  current, \* per item, the version on the drive
  seen     \* per item, the version shown last, -1 before the first

Init == current = [i \in Items |-> 0] /\ seen = [i \in Items |-> -1]

Change(i) ==
  /\ current'[i] \in Nat /\ current'[i] > current[i]
  /\ current' = [current EXCEPT ![i] = current'[i]]
  /\ UNCHANGED seen

Show(i) ==
  /\ \E v \in 0 .. current[i] : v >= seen[i] /\ seen' = [seen EXCEPT ![i] = v]
  /\ UNCHANGED current

NewSession == seen' = [i \in Items |-> -1] /\ UNCHANGED current

Next == NewSession \/ \E i \in Items : Change(i) \/ Show(i)

Spec == Init /\ [][Next]_<<current, seen>>
=============================================================================
