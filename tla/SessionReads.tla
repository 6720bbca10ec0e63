---------------------------- MODULE SessionReads ----------------------------
(***************************************************************************)
(* The tool's copies of what it read from the drive, beside the drive:     *)
(* g_stController, g_stNamespaceData and g_stSMARTLog.  The drive changes  *)
(* while a session runs, by a Format NVM of the tool, by another process   *)
(* or by itself; some commands show a copy, and some decide by a copy what *)
(* they ask the drive for or what they say of it.                          *)
(***************************************************************************)
EXTENDS Integers

CONSTANTS
  Sensors,   \* the temperature sensors a drive can have
  ELPEs,     \* values of ELPE, the number of error log entries less one
  MaxVersion \* per item, a bound on its changes

ASSUME ELPEsAssumption == ELPEs \subseteq Nat /\ 0 \in ELPEs
Items == {"controller", "namespace", "SMART"}

ASSUME MaxVersionAssumption == MaxVersion \in [Items -> Nat]

\* What the tool uses of an item: ELPE and whether the controller is an I/O controller
\* of revision 2.0; whether protection information is enabled (DPS); the sensors.
Controllers == [elpe: ELPEs, io: BOOLEAN]
Contents(i) ==
  CASE i = "controller" -> Controllers
    [] i = "namespace" -> BOOLEAN
    [] i = "SMART" -> SUBSET Sensors

VARIABLES
  drive,      \* per item, its version and contents on the drive
  copy,       \* per item, the version and contents in the tool's memory
  identified, \* g_bNamespaceAlreadyIdentified
  pc,         \* "menu", or "IOCS" between the requests of that function
  \* What the user has been told:
  trusted,    \* the controller data stored last were accepted
  shown,      \* per item, the version printed last in this session, -1 for none
  said        \* the statement the last step made by a copy

vars == <<drive, copy, identified, pc, trusted, shown, said>>

Nothing == -1
Zeroed == [version |-> Nothing, value |-> FALSE]
NothingShown == [i \in Items |-> Nothing]

\* A statement: whether it is true of the drive, the version it was derived from
\* and the version on the drive; unread if the copy is not one of a valid reply.
Statement(topic, right, item, unread) ==
  [topic |-> topic, right |-> right, from |-> copy[item].version,
   now |-> drive[item].version, unread |-> unread]
NothingSaid == [topic |-> "none", right |-> TRUE, from |-> 0, now |-> 0, unread |-> FALSE]

\* Variant: the SMART log page is copied only when it is printed.
AtStartPrinted(d) ==
  [d EXCEPT !["namespace"] = Zeroed, !["SMART"] = [version |-> Nothing, value |-> {}]]

\* Start-up reads the controller data and the SMART log page; it ends if it cannot.
AtStart(d) == [d EXCEPT !["namespace"] = Zeroed]

Init ==
  /\ \E c \in Controllers, n \in BOOLEAN, s \in SUBSET Sensors :
       drive = [i \in Items |->
         [version |-> 0, value |-> CASE i = "controller" -> c [] i = "namespace" -> n [] i = "SMART" -> s]]
  /\ copy = AtStart(drive) /\ identified = FALSE
  /\ pc = "menu" /\ trusted = TRUE /\ shown = NothingShown /\ said = NothingSaid

\* The user leaves the tool and starts it again.
Restart ==
  /\ pc = "menu"
  /\ copy' = AtStart(drive) /\ identified' = FALSE
  /\ trusted' = TRUE /\ shown' = NothingShown /\ said' = NothingSaid
  /\ UNCHANGED <<drive, pc>>

\* A Format NVM, also one of this tool, which resets none of the copies; new
\* firmware; a sensor that begins to report.
Change(i) ==
  /\ drive[i].version < MaxVersion[i]
  /\ \E v \in Contents(i) : drive' = [drive EXCEPT ![i] = [version |-> @.version + 1, value |-> v]]
  /\ said' = NothingSaid
  /\ UNCHANGED <<copy, identified, pc, trusted, shown>>

-----------------------------------------------------------------------------
(* The commands.  One whose request fails leaves everything as it is.      *)

Stores(i) == copy' = [copy EXCEPT ![i] = drive[i]]
Prints(i, version) == shown' = [shown EXCEPT ![i] = version]

\* A reply with VID or NN 0 is copied, and then not printed.
IdentifyController ==
  /\ pc = "menu"
  /\ \/ Stores("controller") /\ trusted' = TRUE /\ Prints("controller", drive["controller"].version)
     \/ /\ \E c \in Controllers :
             copy' = [copy EXCEPT !["controller"] = [version |-> drive["controller"].version, value |-> c]]
        /\ trusted' = FALSE /\ UNCHANGED shown
  /\ said' = NothingSaid /\ UNCHANGED <<drive, identified, pc>>

\* Variant: a reply is printed each time and copied the first time; if a request fails
\* the copy is printed.
IdentifyNamespaceFallsBack ==
  /\ pc = "menu"
  /\ \/ identified /\ Prints("namespace", copy["namespace"].version) /\ UNCHANGED <<copy, identified>>
     \/ /\ Prints("namespace", drive["namespace"].version) /\ identified' = TRUE
        /\ IF identified THEN UNCHANGED copy ELSE Stores("namespace")
  /\ said' = NothingSaid /\ UNCHANGED <<drive, pc, trusted>>

\* Once retrieved the data are printed from the copy.
IdentifyNamespace ==
  /\ pc = "menu"
  /\ \/ identified /\ Prints("namespace", copy["namespace"].version) /\ UNCHANGED <<copy, identified>>
     \/ /\ ~identified /\ Stores("namespace") /\ identified' = TRUE
        /\ Prints("namespace", drive["namespace"].version)
  /\ said' = NothingSaid /\ UNCHANGED <<drive, pc, trusted>>

\* Variant: the flag is set before the reply is looked at.
IOCSNamespaceFlagFirst ==
  /\ pc = "menu" /\ pc' = "IOCS"
  /\ \/ identified /\ UNCHANGED <<copy, identified>>
     \/ ~identified /\ identified' = TRUE /\ Stores("namespace")
     \/ ~identified /\ identified' = TRUE /\ UNCHANGED copy
  /\ said' = NothingSaid /\ UNCHANGED <<drive, trusted, shown>>

\* iNVMeIdentifyIOCSNamespace retrieves the namespace data first.  For a reply that
\* is not valid iNVMeIdentifyNamespace returns 0, and the function goes on.
IOCSNamespace ==
  /\ pc = "menu" /\ pc' = "IOCS"
  /\ \/ identified /\ UNCHANGED <<copy, identified>>
     \/ ~identified /\ identified' = TRUE /\ Stores("namespace")
     \/ ~identified /\ UNCHANGED <<copy, identified>>
  /\ said' = NothingSaid /\ UNCHANGED <<drive, trusted, shown>>

\* The second request, then "does not support Protection Information" or the data,
\* by the copy of the namespace; or another type of controller, or a failure.
IOCSReply ==
  /\ pc = "IOCS" /\ pc' = "menu"
  /\ \/ /\ copy["controller"].value.io
        /\ said' = Statement("protection", copy["namespace"].value = drive["namespace"].value,
                             "namespace", ~identified)
     \/ said' = NothingSaid
  /\ UNCHANGED <<drive, copy, identified, trusted, shown>>

GetSMART ==
  /\ pc = "menu"
  /\ Stores("SMART") /\ Prints("SMART", drive["SMART"].version)
  /\ said' = NothingSaid /\ UNCHANGED <<drive, identified, pc, trusted>>

\* The sections of the report are the sensors of the copy.
TemperatureThreshold ==
  /\ pc = "menu"
  /\ said' = Statement("sensors", copy["SMART"].value = drive["SMART"].value, "SMART", FALSE)
  /\ UNCHANGED <<drive, copy, identified, pc, trusted, shown>>

\* Variant: ELPE is taken for the number of entries.
AskedForELPE == copy["controller"].value.elpe

\* The number of entries the request has room for.
AskedFor == copy["controller"].value.elpe + 1

ErrorInformation ==
  /\ pc = "menu"
  /\ said' = Statement("errors", AskedFor = drive["controller"].value.elpe + 1,
                       "controller", ~trusted)
  /\ UNCHANGED <<drive, copy, identified, pc, trusted, shown>>

Command ==
  \/ IdentifyController \/ IdentifyNamespace \/ IOCSNamespace \/ IOCSReply
  \/ GetSMART \/ TemperatureThreshold \/ ErrorInformation

Next == Restart \/ Command \/ \E i \in Items : Change(i)

Spec == Init /\ [][Next]_vars

-----------------------------------------------------------------------------
(* Properties.                                                             *)

\* Every variable has its type; no copy is ahead of the drive, and the namespace data that
\* g_bNamespaceAlreadyIdentified vouches for were sent by the drive.
TypeOK ==
  /\ \A i \in Items : drive[i].version \in 0 .. MaxVersion[i] /\ drive[i].value \in Contents(i)
  /\ \A i \in Items : copy[i].version \in Nothing .. drive[i].version /\ copy[i].value \in Contents(i)
  /\ identified => copy["namespace"].version # Nothing
  /\ identified \in BOOLEAN /\ trusted \in BOOLEAN /\ pc \in {"menu", "IOCS"}
  /\ DOMAIN shown = Items /\ \A i \in Items : shown[i] \in Nothing .. copy[i].version
  /\ said.topic \in {"none", "protection", "sensors", "errors"}
  /\ said.right \in BOOLEAN /\ said.unread \in BOOLEAN

\* A statement that is wrong was right of an earlier state of the drive.
Outdated == 0 <= said.from /\ said.from < said.now
WrongOnlyIf(topic, excuse) == said.topic = topic /\ ~said.right => excuse

\* The tool says wrongly that a namespace has no protection information, or has it, only if
\* it changed since it was read, or if no valid namespace data were ever read.
ProtectionExplained == WrongOnlyIf("protection", Outdated \/ said.unread)

\* The report on the temperature thresholds misses a sensor, or shows one too many, only if the
\* sensors changed since the SMART log page was last read, at start-up at the earliest.
SensorsExplained == WrongOnlyIf("sensors", Outdated)

\* The tool asks for fewer or more error log entries than there are only if the
\* controller data changed, or were overwritten with data that the tool rejected.
EntriesExplained == WrongOnlyIf("errors", Outdated \/ said.unread)

\* The reports of a session implement MonotonicReads: what is shown was the state of the drive
\* at some time, and nothing older than what was shown before.
Abstract ==
  INSTANCE MonotonicReads WITH current <- [i \in Items |-> drive[i].version], seen <- shown
ImplementsMonotonic == Abstract!Spec
=============================================================================
