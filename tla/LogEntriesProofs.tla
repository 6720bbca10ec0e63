-------------------------- MODULE LogEntriesProofs --------------------------
(***************************************************************************)
(* Proofs about LogEntries, for structures of any size and drives with any *)
(* number of entries: what is printed was sent, and a report that does not *)
(* complain is complete.                                                   *)
(***************************************************************************)
EXTENDS LogEntries, FiniteSetTheorems, TLAPS

-----------------------------------------------------------------------------
(* What the drive holds.                                                   *)

N == Cardinality(has)

Reply ==
  /\ list \in Lists /\ has \in Holdings(list) /\ sent \in 0 .. Room[list]
  /\ genuine \in BOOLEAN /\ protected \in BOOLEAN

\* The lists with a beginning and an end.
Prefixed == list \notin Marked /\ list \notin Fixed

LEMMA RoomIsPositive == Reply => Room[list] \in Nat \ {0}
BY RoomAssumption DEF Reply

\* A list with a beginning and an end has its entries in front.
LEMMA PrefixShape ==
  ASSUME Reply, Prefixed
  PROVE  /\ N \in Nat /\ has = 0 .. N - 1
         /\ N <= Room[list] \/ list \notin {"ActiveNSIDList", "LBARange"}
         /\ N > 0 \/ list \notin {"LBAFormats", "PowerStates", "LBARange"}
<1>1. PICK n \in {a \in Announced :
         /\ a <= Room[list] \/ list \notin {"ActiveNSIDList", "LBARange"}
         /\ a > 0 \/ list \notin {"LBAFormats", "PowerStates", "LBARange"}} : has = 0 .. n - 1
  BY DEF Reply, Prefixed, Holdings
<1>2. n \in Nat
  BY <1>1, AnnouncedAssumption
<1>3. Cardinality(0 .. n - 1) = n
  <2>1. 0 \in Int /\ n - 1 \in Int
    BY <1>2
  <2>2. Cardinality(0 .. n - 1) = IF 0 > n - 1 THEN 0 ELSE (n - 1) - 0 + 1
    BY <2>1, FS_Interval
  <2>. QED  BY <1>2, <2>2
<1>. QED  BY <1>1, <1>2, <1>3 DEF N

LEMMA OtherShapes ==
  ASSUME Reply
  PROVE  /\ list \in Marked => has \subseteq Positions(list)
         /\ list \in Fixed => has = Positions(list)
BY DEF Reply, Holdings, Marked, Fixed

\* How far the loop goes, by the kind of the list.
LEMMA Lengths ==
  ASSUME Reply
  PROVE  /\ list \in Marked \cup Terminated \cup Fixed => Length = Room[list]
         /\ list \in First => Length = 1
         /\ list = "EnduranceGroupEvents" => Length = IF N < Room[list] THEN N ELSE Room[list]
         /\ list = "LBARange" => Length = N - 1
         /\ list \in {"LBAFormats", "PowerStates"} => Length = N
<1>1. Prefixed => N \in Nat
  BY PrefixShape
<1>2. Prefixed => Field = IF list = "EnduranceGroupEvents" THEN N ELSE N - 1
  BY DEF Field, N
<1>3. list \in {"LBAFormats", "PowerStates"} => Length = Field + 1
  BY DEF Length, First
<1>4. list = "LBARange" => Length = Field
  BY DEF Length, First
<1>5. list = "EnduranceGroupEvents" => Length = IF Field < Room[list] THEN Field ELSE Room[list]
  BY DEF Length, First
<1>6. list \in First => Length = 1
  BY DEF Length, First
<1>7. list \in Marked \cup Terminated \cup Fixed => Length = Room[list]
  BY DEF Length, Marked, Terminated, Fixed, First
<1>8. list \in Counted => Prefixed
  BY DEF Counted, Prefixed, Marked, Fixed
<1>. QED  BY <1>1, <1>2, <1>3, <1>4, <1>5, <1>6, <1>7, <1>8 DEF Counted

\* No loop goes past the structure, or past the number the drive announces.
LEMMA LengthInside ==
  ASSUME Reply
  PROVE  /\ Length \in Nat /\ Reach \in Nat /\ Length <= Reach
         /\ list \notin Uncapped => Length <= Room[list]
<1>. USE DEF Reach, Uncapped
<1>1. Room[list] \in Nat \ {0}
  BY RoomIsPositive
<1>2. CASE list \in Marked \cup Terminated \cup Fixed \cup First
  BY <1>1, <1>2, Lengths DEF Marked, Terminated, Fixed, First
<1>3. CASE list \in Counted
  <2>1. Prefixed
    BY <1>3 DEF Prefixed, Counted, Marked, Fixed
  <2>2. /\ N \in Nat
        /\ list = "LBARange" => N <= Room[list]
        /\ N > 0 \/ list = "EnduranceGroupEvents"
    BY <1>3, <2>1, PrefixShape DEF Counted
  <2>. QED  BY <1>1, <1>3, <2>2, Lengths DEF Counted, N
<1>. QED  BY <1>2, <1>3 DEF Reply, Lists

-----------------------------------------------------------------------------
(* The inductive invariant.                                                *)

\* The reply was accepted.
Passed == genuine /\ sent >= Required(list)

\* What an entry has to be to be printed.
Printable(i) ==
  /\ LooksValid(i) /\ i < Length
  /\ list \in Terminated \cup First => Valid(i)

PlacesTyped ==
  /\ pc \in {"check", "head", "walk", "done"} /\ complained \in BOOLEAN
  /\ at \in 0 .. Length /\ shown \subseteq 0 .. at - 1

\* What each step has established.
Progress ==
  /\ pc \in {"check", "head"} => at = 0
  /\ pc \in {"head", "walk"} \/ shown # {} => Passed
  /\ pc = "walk" => complained = Warns /\ (Warns => list = "EnduranceGroupEvents")
  /\ pc = "done" /\ ~complained =>
       /\ Passed /\ ~Warns
       /\ at = Length \/ (list \in Terminated /\ at < Length /\ ~Valid(at))

\* What the loop has done with the entries behind it.
Walked ==
  /\ \A i \in shown : Printable(i)
  /\ \A i \in 0 .. at - 1 : i \in shown \/ ~LooksValid(i)

IInv == Reply /\ PlacesTyped /\ Progress /\ Walked

LEMMA InitIInv == Init => IInv
<1>. SUFFICES ASSUME Init PROVE IInv
  OBVIOUS
<1>1. Reply
  BY DEF Init, Reply
<1>2. Length \in Nat
  BY <1>1, LengthInside
<1>3. pc = "check" /\ at = 0 /\ shown = {} /\ complained = FALSE
  BY DEF Init
<1>4. PlacesTyped
  <2>1. at \in 0 .. Length /\ shown \subseteq 0 .. at - 1
    BY <1>2, <1>3
  <2>2. pc \in {"check", "head", "walk", "done"} /\ complained \in BOOLEAN
    BY <1>3
  <2>. QED  BY <2>1, <2>2 DEF PlacesTyped
<1>5. Progress
  BY <1>3 DEF Progress
<1>6. Walked
  BY <1>3 DEF Walked
<1>. QED  BY <1>1, <1>4, <1>5, <1>6 DEF IInv

\* A step leaves the reply alone, and with it all that is computed from it.
LEMMA ReplyStays ==
  ASSUME UNCHANGED reply
  PROVE  /\ Reply' = Reply /\ Length' = Length /\ Warns' = Warns /\ Passed' = Passed
         /\ \A i : Valid(i)' = Valid(i) /\ LooksValid(i)' = LooksValid(i)
BY DEF reply, Reply, Holdings, Length, Field, Warns, Passed, Required, Valid, LooksValid, Positions

\* One entry more is behind the loop.
LEMMA Advancing ==
  ASSUME IInv, UNCHANGED <<pc, reply, complained>>, pc = "walk", at < Length, at' = at + 1,
         \/ shown' = shown /\ ~LooksValid(at)
         \/ shown' = shown \cup {at} /\ Printable(at)
  PROVE  IInv'
<1>1. Length \in Nat /\ at \in 0 .. Length /\ shown \subseteq 0 .. at - 1
  BY LengthInside DEF IInv, PlacesTyped
<1>2. Reply' /\ Length' = Length /\ Warns' = Warns /\ Passed' = Passed
  BY ReplyStays DEF IInv
<1>3. at' \in 0 .. Length /\ shown' \subseteq 0 .. at' - 1
  <2>1. at' \in 0 .. Length /\ at' - 1 = at /\ 0 .. at - 1 \subseteq 0 .. at /\ at \in 0 .. at
    BY <1>1
  <2>2. shown' \subseteq 0 .. at
    BY <1>1, <2>1
  <2>. QED  BY <2>1, <2>2
<1>4. PlacesTyped'
  BY <1>2, <1>3 DEF IInv, PlacesTyped
<1>5. Progress'
  <2>1. pc' = "walk" /\ complained' = complained /\ list' = list
    BY DEF reply
  <2>2. Passed /\ complained = Warns /\ (Warns => list = "EnduranceGroupEvents")
    BY DEF IInv, Progress
  <2>. QED  BY <1>2, <2>1, <2>2 DEF Progress
<1>6. \A i : Printable(i)' = Printable(i)
  BY <1>2, ReplyStays DEF Printable, reply
<1>7. \A i \in shown' : Printable(i)'
  BY <1>6 DEF IInv, Walked
<1>8. \A i \in 0 .. at' - 1 : i \in shown' \/ ~LooksValid(i)'
  <2>. SUFFICES ASSUME NEW i \in 0 .. at' - 1 PROVE i \in shown' \/ ~LooksValid(i)
    BY ReplyStays
  <2>1. i = at \/ i \in 0 .. at - 1
    BY <1>1
  <2>. QED  BY <2>1 DEF IInv, Walked
<1>. QED  BY <1>2, <1>4, <1>5, <1>7, <1>8 DEF IInv, Walked

\* A step of the check or of the lines before and after the loop.
LEMMA Staying ==
  ASSUME IInv, UNCHANGED <<reply, at, shown>>, Progress',
         pc' \in {"check", "head", "walk", "done"}, complained' \in BOOLEAN
  PROVE  IInv'
<1>1. Reply' /\ Length' = Length
  BY ReplyStays DEF IInv
<1>2. PlacesTyped'
  BY <1>1 DEF IInv, PlacesTyped
<1>3. \A i : Printable(i)' = Printable(i) /\ LooksValid(i)' = LooksValid(i)
  BY <1>1, ReplyStays DEF Printable, reply
<1>4. Walked'
  BY <1>3 DEF IInv, Walked
<1>. QED  BY <1>1, <1>2, <1>4 DEF IInv

LEMMA NextIInv == IInv /\ [Next]_vars => IInv'
<1>. SUFFICES ASSUME IInv, [Next]_vars PROVE IInv'
  OBVIOUS
<1>1. Length \in Nat /\ at \in 0 .. Length /\ shown \subseteq 0 .. at - 1
  BY LengthInside DEF IInv, PlacesTyped
<1>2. Warns \in BOOLEAN
  <2>1. (Field > Room[list]) \in BOOLEAN /\ (~Valid(0)) \in BOOLEAN /\ (~protected) \in BOOLEAN
    <3>1. (Field > Room[list]) \in BOOLEAN
      BY SMT
    <3>2. (~Valid(0)) \in BOOLEAN /\ (~protected) \in BOOLEAN
      BY Zenon DEF Valid
    <3>. QED  BY <3>1, <3>2, Zenon
  <2>2. CASE list = "EnduranceGroupEvents"
    BY <2>1, <2>2 DEF Warns, First, Fixed
  <2>3. CASE list \in First
    BY <2>1, <2>3 DEF Warns, First, Fixed
  <2>4. CASE list \in Fixed
    BY <2>1, <2>4 DEF Warns, First, Fixed
  <2>5. CASE list # "EnduranceGroupEvents" /\ list \notin First \cup Fixed
    BY <2>5 DEF Warns
  <2>. QED  BY <2>2, <2>3, <2>4, <2>5
<1>3. CASE Check
  <2>1. UNCHANGED <<reply, at, shown>> /\ at = 0
    BY <1>3 DEF Check, IInv, Progress
  <2>2. shown = {}
    BY <1>1, <2>1
  <2>3. Passed' = Passed
    BY <2>1, ReplyStays
  <2>4. (pc' = "head" /\ Passed) \/ (pc' = "done" /\ complained' = TRUE)
    <3>1. CASE Passed
      BY <1>3, <3>1 DEF Check, Passed
    <3>2. CASE ~Passed
      BY <1>3, <3>2 DEF Check, Passed
    <3>. QED  BY <3>1, <3>2
  <2>5. Progress'
    BY <2>1, <2>2, <2>3, <2>4 DEF Progress
  <2>6. pc' \in {"head", "done"} /\ complained' \in BOOLEAN
    BY <1>3 DEF Check, IInv, PlacesTyped
  <2>. QED  BY <2>1, <2>5, <2>6, Staying
<1>4. CASE Head
  <2>1. /\ UNCHANGED <<reply, at, shown>> /\ at = 0 /\ Passed
        /\ complained' = Warns
        /\ \/ pc' = "done" /\ Warns
           \/ pc' = "walk" /\ (Warns => list = "EnduranceGroupEvents")
    BY <1>4 DEF Head, IInv, Progress
  <2>2. Passed' = Passed /\ Warns' = Warns /\ list' = list
    BY <2>1, ReplyStays DEF reply
  <2>3. Progress'
    BY <2>1, <2>2 DEF Progress
  <2>. QED  BY <1>2, <2>1, <2>3, Staying
<1>5. CASE Skip
  BY <1>5, Advancing DEF Skip
<1>6. CASE Show
  <2>1. pc = "walk" /\ at < Length /\ LooksValid(at) /\ (list \in Terminated => Valid(at))
    BY <1>6 DEF Show
  <2>2. list \in First => Valid(at)
    <3>1. ASSUME list \in First PROVE at = 0 /\ ~Warns
      BY <1>1, <2>1, <3>1, Lengths DEF IInv, Progress, First
    <3>2. list \in First /\ ~Warns => Valid(0)
      BY DEF Warns, First, Fixed
    <3>. QED  BY <3>1, <3>2
  <2>3. Printable(at)
    BY <2>1, <2>2 DEF Printable
  <2>. QED  BY <1>6, <2>1, <2>3, Advancing DEF Show
<1>7. CASE Break
  <2>1. /\ UNCHANGED <<reply, at, shown, complained>> /\ pc' = "done" /\ Passed
        /\ complained = Warns /\ list \in Terminated /\ at < Length /\ ~Valid(at)
    BY <1>7 DEF Break, IInv, Progress
  <2>2. Passed' = Passed /\ Warns' = Warns /\ Length' = Length /\ list' = list
    BY <2>1, ReplyStays DEF reply
  <2>3. Valid(at)' = Valid(at)
    BY <2>1 DEF Valid, reply
  <2>4. Progress'
    BY <2>1, <2>2, <2>3 DEF Progress
  <2>. QED  BY <1>2, <2>1, <2>4, Staying
<1>8. CASE Finish
  <2>1. /\ UNCHANGED <<reply, at, shown, complained>> /\ pc' = "done" /\ Passed
        /\ complained = Warns /\ at = Length
    BY <1>1, <1>8 DEF Finish, IInv, Progress
  <2>2. Passed' = Passed /\ Warns' = Warns /\ Length' = Length
    BY <2>1, ReplyStays
  <2>3. Progress'
    BY <2>1, <2>2 DEF Progress
  <2>. QED  BY <1>2, <2>1, <2>3, Staying
<1>9. CASE UNCHANGED vars
  <2>1. UNCHANGED <<pc, reply, at, shown, complained>>
    BY <1>9 DEF vars
  <2>2. Passed' = Passed /\ Warns' = Warns /\ Length' = Length /\ list' = list
    BY <2>1, ReplyStays DEF reply
  <2>3. Valid(at)' = Valid(at)
    BY <2>1 DEF Valid, reply
  <2>4. Progress'
    BY <2>1, <2>2, <2>3 DEF IInv, Progress
  <2>5. pc' \in {"check", "head", "walk", "done"} /\ complained' \in BOOLEAN
    BY <2>1 DEF IInv, PlacesTyped
  <2>. QED  BY <2>1, <2>4, <2>5, Staying
<1>. QED  BY <1>3, <1>4, <1>5, <1>6, <1>7, <1>8, <1>9 DEF Next

-----------------------------------------------------------------------------
(* The theorems.                                                           *)

\* The strengthening is an invariant of the loops.
THEOREM InductiveInvariant == Spec => []IInv
BY InitIInv, NextIInv, PTL DEF Spec

\* Every variable has its type; no loop reads past the entries of its structure but
\* those over the LBA formats and the power states, which go as far as the drive says.
THEOREM TypeCorrect == Spec => []TypeOK
<1>1. IInv => TypeOK
  <2>. SUFFICES ASSUME IInv PROVE TypeOK
    OBVIOUS
  <2>1. Length \in Nat /\ Length <= Reach /\ Reach \in Nat
    BY LengthInside DEF IInv
  <2>2. at \in 0 .. Length /\ shown \subseteq 0 .. at - 1
    BY DEF IInv, PlacesTyped
  <2>3. at \in 0 .. Reach
    BY <2>1, <2>2
  <2>4. 0 .. at - 1 \subseteq 0 .. Reach - 1
    BY <2>1, <2>3
  <2>. QED  BY <2>2, <2>3, <2>4 DEF IInv, Reply, PlacesTyped, TypeOK
<1>. QED  BY <1>1, InductiveInvariant, PTL

\* An entry printed as a valid one was sent, and is valid on the drive.
THEOREM ShownWasSent == Spec => []OnlyWhatWasSent
<1>1. IInv => OnlyWhatWasSent
  <2>. SUFFICES ASSUME IInv, NEW i \in shown
       PROVE  /\ genuine
              /\ \/ Valid(i)
                 \/ i >= sent /\ list \in {"DeviceSelftestLog", "LBARange"}
                 \/ i >= Room[list] /\ list \in Uncapped
    BY DEF OnlyWhatWasSent
  <2>1. Passed /\ Printable(i) /\ Reply
    BY DEF IInv, Progress, Walked
  <2>2. /\ i \in Nat /\ i < Length /\ Length \in Nat
        /\ list \notin Uncapped => Length <= Room[list]
        /\ Room[list] \in Nat /\ sent \in Nat
    BY <2>1, LengthInside, RoomIsPositive DEF IInv, PlacesTyped, Printable, Reply
  <2>3. \/ i < sent \/ list \in {"DeviceSelftestLog", "LBARange"}
        \/ i >= Room[list] /\ list \in Uncapped
    <3>1. list \in {"DeviceSelftestLog", "LBARange"} \/ sent >= Room[list]
      BY <2>1 DEF Passed, Required
    <3>2. i < Room[list] \/ (i >= Room[list] /\ list \in Uncapped)
      BY <2>2
    <3>. QED  BY <2>2, <3>1, <3>2
  <2>4. ASSUME i < sent PROVE Valid(i)
    <3>1. CASE list \in Marked
      BY <2>1, <2>2, <2>4, <3>1 DEF Printable, LooksValid
    <3>2. CASE list \in Fixed
      BY <2>1, <2>2, <2>4, <3>2, OtherShapes DEF Valid, Positions, Fixed, Uncapped
    <3>3. CASE list \in Terminated \cup First
      BY <2>1, <3>3 DEF Printable
    <3>4. CASE list \in Counted
      <4>1. Prefixed
        BY <3>4 DEF Prefixed, Counted, Marked, Fixed
      <4>2. N \in Nat /\ has = 0 .. N - 1
        BY <2>1, <4>1, PrefixShape
      <4>3. i < N
        BY <2>1, <2>2, <3>4, <4>2, Lengths DEF Counted
      <4>. QED  BY <2>2, <2>4, <4>2, <4>3 DEF Valid
    <3>. QED  BY <2>1, <3>1, <3>2, <3>3, <3>4 DEF Reply, Lists
  <2>. QED  BY <2>1, <2>2, <2>3, <2>4 DEF Passed
<1>. QED  BY <1>1, InductiveInvariant, PTL

\* A report without a complaint has shown every entry, but for the known exceptions.
THEOREM SilenceIsComplete == Spec => []SilentIsComplete
<1>1. IInv => SilentIsComplete
  <2>. SUFFICES ASSUME IInv, pc = "done", ~complained
       PROVE  has \ shown =
                CASE list = "NSIDDescriptor" -> has \ {0}
                  [] list = "LBARange" -> {Cardinality(has) - 1}
                  [] OTHER -> {}
    BY DEF SilentIsComplete
  <2>1. /\ Reply /\ Passed /\ ~Warns /\ shown \subseteq 0 .. at - 1
        /\ at = Length \/ (list \in Terminated /\ at < Length /\ ~Valid(at))
        /\ \A i \in 0 .. at - 1 : i \in shown \/ ~LooksValid(i)
    BY DEF IInv, PlacesTyped, Progress, Walked
  <2>2. /\ Length \in Nat /\ Room[list] \in Nat /\ sent \in Nat
        /\ at \in 0 .. Length
    BY <2>1, LengthInside, RoomIsPositive DEF IInv, PlacesTyped, Reply
  <2>3. list \notin Marked => shown = 0 .. at - 1
    BY <2>1 DEF LooksValid
  <2>4. CASE list \in Marked
    <3>1. Length = Room[list] /\ has \subseteq 0 .. Room[list] - 1
      BY <2>1, <2>4, Lengths, OtherShapes DEF Positions
    <3>2. at = Length
      BY <2>1, <2>4 DEF Marked, Terminated
    <3>3. sent >= Room[list] \/ list = "DeviceSelftestLog"
      BY <2>1, <2>4 DEF Passed, Required, Marked
    <3>4. ASSUME NEW i \in has PROVE i \in shown
      <4>1. i \in 0 .. at - 1 /\ i \in Nat /\ i < Room[list]
        BY <2>2, <3>1, <3>2
      <4>2. LooksValid(i)
        BY <2>2, <3>3, <4>1 DEF LooksValid, Valid
      <4>. QED  BY <2>1, <4>1, <4>2
    <3>5. list \notin {"NSIDDescriptor", "LBARange"}
      BY <2>4 DEF Marked
    <3>. QED  BY <3>4, <3>5
  <2>5. CASE list \in Fixed
    <3>1. at = Length /\ Length = Room[list] /\ list \notin Marked
      BY <2>1, <2>5, Lengths DEF Fixed, Terminated, Marked
    <3>2. shown = has
      BY <2>1, <2>3, <2>5, <3>1, OtherShapes DEF Positions
    <3>3. list \notin {"NSIDDescriptor", "LBARange"}
      BY <2>5 DEF Fixed
    <3>. QED  BY <3>2, <3>3
  <2>6. CASE Prefixed
    <3>1. /\ N \in Nat /\ has = 0 .. N - 1 /\ shown = 0 .. at - 1
          /\ N <= Room[list] \/ list \notin {"ActiveNSIDList", "LBARange"}
          /\ N > 0 \/ list \notin {"LBAFormats", "PowerStates", "LBARange"}
      BY <2>1, <2>3, <2>6, PrefixShape DEF Prefixed
    <3>2. CASE list \in Terminated
      <4>1. sent >= Room[list] /\ Length = Room[list] /\ list = "ActiveNSIDList"
        BY <2>1, <3>2, Lengths DEF Terminated, Passed, Required
      <4>2. at >= N
        BY <2>1, <2>2, <3>1, <4>1 DEF Valid
      <4>3. has \ shown = {}
        BY <2>2, <3>1, <4>2
      <4>. QED  BY <4>1, <4>3
    <3>3. CASE list \in First
      <4>1. at = 1 /\ list = "NSIDDescriptor"
        BY <2>1, <3>3, Lengths DEF First, Terminated
      <4>2. shown = {0}
        BY <3>1, <4>1
      <4>. QED  BY <4>1, <4>2
    <3>4. CASE list = "LBARange"
      <4>1. at = N - 1 /\ N > 0
        BY <2>1, <3>1, <3>4, Lengths DEF Terminated
      <4>2. has \ shown = {N - 1}
        BY <3>1, <4>1
      <4>. QED  BY <3>4, <4>2 DEF N
    <3>5. CASE list \in {"EnduranceGroupEvents", "LBAFormats", "PowerStates"}
      <4>1. list = "EnduranceGroupEvents" => N <= Room[list]
        <5>1. list = "EnduranceGroupEvents" => Field = N
          BY DEF Field, N
        <5>. QED  BY <2>1, <2>2, <3>1, <5>1 DEF Warns, First, Fixed
      <4>2. Length = N
        BY <2>1, <2>2, <3>1, <3>5, <4>1, Lengths
      <4>3. at = N
        BY <2>1, <3>5, <4>2 DEF Terminated
      <4>. QED  BY <3>1, <3>5, <4>3
    <3>. QED  BY <2>1, <2>6, <3>2, <3>3, <3>4, <3>5 DEF Reply, Lists, Prefixed, Counted
  <2>. QED  BY <2>4, <2>5, <2>6 DEF Prefixed
<1>. QED  BY <1>1, InductiveInvariant, PTL
=============================================================================
