----------------------------- MODULE LogEntries -----------------------------
(***************************************************************************)
(* Replies that are lists: the tool checks the header and the length of a  *)
(* reply and then prints its entries one by one.  The functions differ in  *)
(* the length they insist on, in how the end of the list is found and in   *)
(* what makes an entry valid.  Their buffers are filled with zeroes before *)
(* the request, so an entry that was not sent reads as zeroes.             *)
(***************************************************************************)
EXTENDS Integers, FiniteSets

CONSTANTS
  Room,       \* per list, the entries its structure has
  Announced   \* the numbers of entries a drive can have

\* The lists, by the way their end is found:
Marked ==         \* all entries are looked at, each says whether it is valid
  {"ErrorInformation", "DeviceSelftestLog", "FwSlotInformation", "SupportedLogPages",
   "CommandEffects", "TemperatureSensors"}
Terminated == {"ActiveNSIDList"}   \* an entry of 0 ends the list
Counted ==        \* a field of the reply holds the number of entries
  {"EnduranceGroupEvents", "LBAFormats", "PowerStates", "LBARange"}
Fixed == {"ExtendedLBAFormats"}    \* every entry is valid
First == {"NSIDDescriptor"}        \* the function prints one descriptor
Lists == Marked \cup Terminated \cup Counted \cup Fixed \cup First

ASSUME RoomAssumption == DOMAIN Room = Lists /\ \A l \in Lists : Room[l] \in Nat \ {0}
ASSUME AnnouncedAssumption == Announced \subseteq Nat /\ 1 \in Announced

VARIABLES
  pc,        \* the next step: "check", "head", "walk", or "done"
  list,      \* which list it is
  has,       \* the drive: the positions of its valid entries
  sent,      \* the reply: the number of entries transferred
  genuine,   \* the reply: its header is valid
  protected, \* the namespace was seen to have protection information
  at,        \* the next entry, from 0 as in the code
  shown,     \* the entries printed as valid ones
  complained \* an error or a warning was printed

reply == <<list, has, sent, genuine, protected>>
vars == <<pc, reply, at, shown, complained>>

-----------------------------------------------------------------------------
(* The drive.  A list with an end has its entries in front, and the number *)
(* it announces may be more than the tool has room for.  Two numbers       *)
(* cannot: the NSID list has no end but its room, and the number of LBA    *)
(* ranges is a field of 6 bits over 64 entries.                            *)

Positions(l) == 0 .. Room[l] - 1
Holdings(l) ==
  CASE l \in Marked -> SUBSET Positions(l)
    [] l \in Fixed -> {Positions(l)}
    [] OTHER -> {0 .. n - 1 : n \in {a \in Announced :
         /\ a <= Room[l] \/ l \notin {"ActiveNSIDList", "LBARange"}
         /\ a > 0 \/ l \notin {"LBAFormats", "PowerStates", "LBARange"}}}

\* The field that holds the number of entries: one less but in the event log page.
Field == IF list = "EnduranceGroupEvents" THEN Cardinality(has) ELSE Cardinality(has) - 1

Init ==
  /\ list \in Lists /\ has \in Holdings(list)
  /\ sent \in 0 .. Room[list] /\ genuine \in BOOLEAN /\ protected \in BOOLEAN
  /\ pc = "check" /\ at = 0 /\ shown = {} /\ complained = FALSE

-----------------------------------------------------------------------------
(* The check of the reply.                                                 *)

\* Variant: no function looks at the length.
RequiredNone(l) == 0

\* The entries that must have been transferred.  The self-test log is compared
\* with the size of one result, the LBA ranges with nothing.
Required(l) ==
  CASE l = "DeviceSelftestLog" -> 1
    [] l = "LBARange" -> 0
    [] OTHER -> Room[l]

Check ==
  /\ pc = "check"
  /\ IF genuine /\ sent >= Required(list)
     THEN pc' = "head" /\ UNCHANGED complained
     ELSE pc' = "done" /\ complained' = TRUE
  /\ UNCHANGED <<reply, at, shown>>

-----------------------------------------------------------------------------
(* The loop.                                                               *)

\* What stands at a position: zeroes where nothing was transferred, and other bytes
\* than an entry's behind the array.
Valid(i) == i < sent /\ i \in has

\* A self-test result of zeroes is one that "Completed without error"; in the
\* other marked lists zero means that the entry is not valid.
LooksValid(i) ==
  IF list = "DeviceSelftestLog" /\ i >= sent THEN TRUE ELSE list \notin Marked \/ Valid(i)

\* Variant: the number of events is taken as it is.
LengthUncapped ==
  CASE list \in {"EnduranceGroupEvents", "LBARange"} -> Field
    [] list \in {"LBAFormats", "PowerStates"} -> Field + 1
    [] list \in First -> 1
    [] OTHER -> Room[list]

\* How far the loop goes.  The number of events is cut to what there is room for;
\* the number of LBA ranges is taken as it stands in the field, those of the LBA
\* formats and of the power states with one added, however many the array has.
Length ==
  CASE list = "EnduranceGroupEvents" -> IF Field < Room[list] THEN Field ELSE Room[list]
    [] list = "LBARange" -> Field
    [] list \in {"LBAFormats", "PowerStates"} -> Field + 1
    [] list \in First -> 1
    [] OTHER -> Room[list]

\* Variant: a drive with exactly as many events as there is room for is warned of.
WarnsAtLimit ==
  CASE list = "EnduranceGroupEvents" -> Field = Room[list]
    [] list \in First -> ~Valid(0)
    [] list \in Fixed -> ~protected
    [] OTHER -> FALSE

\* The warnings: more events than room; a descriptor of an unknown type or with
\* another length than its type has; a namespace without protection information.
Warns ==
  CASE list = "EnduranceGroupEvents" -> Field > Room[list]
    [] list \in First -> ~Valid(0)
    [] list \in Fixed -> ~protected
    [] OTHER -> FALSE

\* The lines before the loop; two of the warnings end in "skip".
Head ==
  /\ pc = "head"
  /\ complained' = Warns
  /\ pc' = IF Warns /\ list # "EnduranceGroupEvents" THEN "done" ELSE "walk"
  /\ UNCHANGED <<reply, at, shown>>

\* Variant: an entry that is not valid ends the list.
SkipBreaks ==
  /\ pc = "walk" /\ at < Length /\ ~LooksValid(at)
  /\ at' = Length
  /\ UNCHANGED <<pc, reply, shown, complained>>

Skip ==
  /\ pc = "walk" /\ at < Length /\ ~LooksValid(at)
  /\ at' = at + 1
  /\ UNCHANGED <<pc, reply, shown, complained>>

Show ==
  /\ pc = "walk" /\ at < Length /\ LooksValid(at)
  /\ list \in Terminated => Valid(at)
  /\ at' = at + 1 /\ shown' = shown \cup {at}
  /\ UNCHANGED <<pc, reply, complained>>

\* break at the first identifier of 0.
Break ==
  /\ pc = "walk" /\ list \in Terminated /\ at < Length /\ ~Valid(at)
  /\ pc' = "done"
  /\ UNCHANGED <<reply, at, shown, complained>>

Finish ==
  /\ pc = "walk" /\ at >= Length
  /\ pc' = "done"
  /\ UNCHANGED <<reply, at, shown, complained>>

Next == Check \/ Head \/ Skip \/ Show \/ Break \/ Finish

Spec == Init /\ [][Next]_vars

-----------------------------------------------------------------------------
(* Properties.                                                             *)

\* The lists whose loop believes the number of the drive.
Uncapped == {"LBAFormats", "PowerStates"}

\* Where a loop may not go past: the entries of the structure, or for an uncapped
\* list the number the drive announces.
Reach == IF list \in Uncapped THEN Cardinality(has) ELSE Room[list]

\* Every variable has its type.  No loop reads past the entries of its structure but
\* those over the LBA formats and the power states, which go as far as the drive says.
TypeOK ==
  /\ pc \in {"check", "head", "walk", "done"}
  /\ list \in Lists /\ has \in Holdings(list) /\ sent \in 0 .. Room[list]
  /\ genuine \in BOOLEAN /\ protected \in BOOLEAN /\ complained \in BOOLEAN
  /\ at \in 0 .. Reach /\ shown \subseteq 0 .. Reach - 1

\* An entry printed as a valid one was sent by the drive, in a reply that passed the
\* check, and is valid there.  In two lists, whose length is not checked, what was
\* not transferred is printed all the same; in the uncapped lists, what stands
\* behind the array.
OnlyWhatWasSent ==
  \A i \in shown :
    /\ genuine
    /\ \/ Valid(i)
       \/ i >= sent /\ list \in {"DeviceSelftestLog", "LBARange"}
       \/ i >= Room[list] /\ list \in Uncapped

\* A report that ends without an error or a warning has shown every entry the drive
\* announces, but for the further descriptors of a namespace and the last of the LBA ranges.
SilentIsComplete ==
  pc = "done" /\ ~complained =>
    has \ shown =
      CASE list = "NSIDDescriptor" -> has \ {0}
        [] list = "LBARange" -> {Cardinality(has) - 1}
        [] OTHER -> {}
=============================================================================
