---------------------------- MODULE MCFieldReport ----------------------------
(* Drives that report nothing but what every drive has, one field more, or *)
(* every field of the three structures; with ordinary values and with rare *)
(* ones.                                                                   *)
EXTENDS FieldReport
MCVersions == {Version(1, 2, 1), V13, Version(1, 3, 1), V14, Version(1, 4, 2), V20}

Always == [controller |-> {"VID", "NN", "VER"}, namespace |-> {"NSZE"}, SMART |-> {"Temperature"}]
\* A field, and the capability it depends on where there is one.
With(f) ==
  {{f} \cup c : c \in IF Depends(f) = {} THEN {{}} ELSE {{k} : k \in Depends(f)}}
FieldSets(r) ==
  {Always[r]} \cup
  {Always[r] \cup d : d \in UNION {With(f) : f \in DOMAIN Documented[r]}} \cup
  {UNION {DOMAIN Documented[q] : q \in Reports}}
MCDrives ==
  [r \in Reports |->
     UNION {{[fields |-> d, rare |-> {}], [fields |-> d, rare |-> d]} : d \in FieldSets(r)}]
=============================================================================
