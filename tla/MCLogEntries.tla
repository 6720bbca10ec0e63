---------------------------- MODULE MCLogEntries ----------------------------
(* Three entries in a list (one NSID descriptor); drives with up to two more. *)
EXTENDS LogEntries
MCRoom == [l \in Lists |-> IF l \in First THEN 1 ELSE 3]
MCAnnounced == 0 .. 5
=============================================================================
