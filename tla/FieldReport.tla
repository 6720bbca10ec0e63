----------------------------- MODULE FieldReport -----------------------------
(***************************************************************************)
(* The printers of the Identify Controller data, the Identify Namespace    *)
(* data and the SMART log page.  A report is a sequence of sections; the   *)
(* caller tests the revision of NVMe before some sections, a section tests *)
(* it before some of its lines, and many lines test a field before they    *)
(* print one.  The value of a field is 0, ordinary or rare: rare is a value*)
(* the printer has no text for, or a wrong one, where it prints the values *)
(* of the field by a text each.                                            *)
(***************************************************************************)
EXTENDS FieldTables, Sequences

CONSTANTS
  Versions, \* values of VER
  Drives    \* per report, what drives report: the fields that are not 0, the rare ones

ASSUME VersionsAssumption == Versions \subseteq Nat
ASSUME DrivesAssumption ==
  /\ DOMAIN Drives = Reports
  /\ \A r \in Reports : \A d \in Drives[r] : Consistent(d.fields) /\ d.rare \subseteq d.fields

\* bIsNVMeV13OrLater and its siblings: the tertiary number does not count.
IsOrLater(revision, ver) == revision <= ver - (ver % 256)

-----------------------------------------------------------------------------
(* Lines.  A line prints the field reads beside the name label, or says 0, *)
(* "n/a" or "not supported" where one of the fields tests is 0; it is      *)
(* printed at all from the revision since on, and where needs is not empty *)
(* only if one of these fields is not 0.  otherwise is what becomes of a   *)
(* rare value: a line prints it as any other, as another value or, where   *)
(* its switch has no case for it, as nothing.                              *)

Line(revision, label, tests, reads) ==
  [since |-> revision, needs |-> {}, label |-> label, tests |-> tests, reads |-> reads,
   otherwise |-> "own"]
Shows(revision, fields) == {Line(revision, f, {}, f) : f \in fields}
Tested(revision, capability, fields) == {Line(revision, f, {capability}, f) : f \in fields}
If(capabilities, lines) == {[l EXCEPT !.needs = capabilities] : l \in lines}
Rarely(otherwise, lines) == {[l EXCEPT !.otherwise = otherwise] : l \in lines}

Section(revision, lines) == [since |-> revision, lines |-> lines]

-----------------------------------------------------------------------------
(* Identify Controller data.                                               *)

\* Variant: the line of revision 1.4 is not guarded.
CMICUnguarded == Shows(V10, {"ANAReport", "SRIOV", "MultiControllers", "MultiPCIePorts"})

CMIC == Shows(V14, {"ANAReport"}) \cup Shows(V10, {"SRIOV", "MultiControllers", "MultiPCIePorts"})
OAES ==
  Shows(V20, {"DiscoveryLogChanged", "ZoneDesciptorChanged", "NVMSubsystemShutdown"}) \cup
  Shows(V14, {"EnduranceGroupEventAggregateLogChange", "LBAStatusInfo",
    "PredictableLatencyEventAggregateLogChange", "ANAChange"}) \cup
  Shows(V10, {"FirmwareActivation", "NamespaceAttributeChanged"})
CTRATT ==
  Shows(V20, {"ExtLBAFmt", "DelNVMSet", "DelEndGrp", "VariableCapMgmt", "FixedCapMgmt", "MDS"}) \cup
  Shows(V14, {"UUIDList", "SQAssociation", "NamespaceGranularity", "TrafficBasedKeepAlive",
    "PredictableLatencyMode", "EnduranceGroups", "ReadRecoveryLevel", "NVMSet",
    "NoopPSPermissiveModeEn"}) \cup
  Shows(V10, {"HostIdEn"})
ControllerType == Shows(V10, {"RRLS", "CNTRLTYPE"})
CRDT == Shows(V10, {"CRDT1", "CRDT2", "CRDT3"})
Management ==
  Shows(V10, {"NVMEE", "NVMESD", "VMCRV", "PCIEME", "SMBUSME"}) \cup If({"VMCRV"}, Shows(V10, {"VMCR"}))

\* Variant: the commands of revision 1.3 stand in the block of 1.4.
OACSMerged ==
  Shows(V20, {"Lockdown"}) \cup
  Shows(V14, {"GetLBAStatusCommand", "DBConfigCommand", "VirtMgmtCommands", "NVMeMICommands",
    "Directives", "DeviceSelfTest"}) \cup
  Shows(V10, {"NamespaceCommands", "FirmwareCommands", "FormatNVM", "SecurityCommands"})

OACS ==
  Shows(V20, {"Lockdown"}) \cup Shows(V14, {"GetLBAStatusCommand"}) \cup
  Shows(V13, {"DBConfigCommand", "VirtMgmtCommands", "NVMeMICommands", "Directives",
    "DeviceSelfTest"}) \cup
  Shows(V10, {"NamespaceCommands", "FirmwareCommands", "FormatNVM", "SecurityCommands"})
FRMW ==
  Shows(V20, {"MultipleUpdateDetect"}) \cup
  Shows(V10, {"ActivationWithoutReset", "SlotCount", "Slot1ReadOnly"})
LPA ==
  Shows(V20, {"TelemetryArea4", "CommandScope"}) \cup Shows(V14, {"PersistentEventLog"}) \cup
  Shows(V13, {"TelemetrySupport"}) \cup
  Shows(V10, {"LogPageExtendedData", "CommandEffectsLog", "SmartPagePerNamespace"})
VendorPowerHeat == Shows(V10, {"AVSCC", "APSTA", "WCTEMP", "CCTEMP", "MTFA", "HMPRE", "HMMIN"})

\* Above 2^64 bytes the size in GiB is computed from the unallocated capacity.
NVMCAP ==
  Shows(V10, {"TNVMCAP_L", "TNVMCAP_H", "UNVMCAP_L", "UNVMCAP_H"}) \cup
  If({"TNVMCAP_H"}, {Line(V10, "TNVMCAP_H", {}, "UNVMCAP_H")})
RPMBS == If({"RPMBUnitCount"}, Shows(V10, {"AccessSize", "TotalSize"})) \cup Shows(V10, {"RPMBUnitCount"})
SelfTest ==
  Tested(V10, "DeviceSelfTest", {"EDSTT"}) \cup
  Rarely("nothing", Tested(V10, "DeviceSelfTest", {"DSTO"})) \cup Shows(V10, {"FWUG"})
KAS == Shows(V10, {"KAS"})

\* The test of the second temperature is the test of the first.
HCTMA ==
  Shows(V10, {"HCTMA"}) \cup
  {Line(V10, t, {"HCTMA", "MNTMT"}, t) : t \in {"MNTMT", "MXTMT"}}
SANICAP ==
  If({"Overwrite", "CryptoErase", "BlockErase"},
     Shows(V14, {"NODMMAS", "NoDeallocateInhibited"}) \cup
     Shows(V10, {"Overwrite", "BlockErase", "CryptoErase"}))
HostMemory == Shows(V10, {"HMMINDS"}) \cup {Line(V10, "HMMAXD", {"HMMAXD"}, "HMMINDS")}

\* Variant: a line repeats the field of the line above it.
IdentifierLimitsRepeated ==
  Shows(V10, {"NSETIDMAX"}) \cup {Line(V10, "ENDGIDMAX", {}, "NSETIDMAX")}

IdentifierLimits == Shows(V10, {"NSETIDMAX", "ENDGIDMAX"})
AsymmetricAccess ==
  Shows(V10, {"ANATT", "NonZeroGRPIDSupport", "NoGRPIDChangeDuringAttached", "ReportChangeState",
    "ReportPersistentLossState", "ReportInaccessibleState", "ReportNonOptimizedState",
    "ReportOptimizedState", "ANAGRPMAX", "NANAGRPID", "PELS"})
Domains == Tested(V10, "MDS", {"DomainId"}) \cup Tested(V10, "EnduranceGroups", {"MEGCAP"})
Queues ==
  Shows(V10, {"SQES.MaxEntrySize", "SQES.RequiredEntrySize", "CQES.MaxEntrySize",
    "CQES.RequiredEntrySize", "MAXCMD"})
ONCS ==
  Shows(V20, {"Copy"}) \cup Shows(V14, {"Verify"}) \cup Shows(V13, {"Timestamp"}) \cup
  Shows(V10, {"Reservations", "FeatureField", "WriteZeroes", "DatasetManagement",
    "WriteUncorrectable", "Compare"})
FUSES == Shows(V10, {"CompareAndWrite"})
FNA ==
  Shows(V20, {"NotAcceptNAIDIsAllF"}) \cup
  Shows(V10, {"CryptographicEraseSupported", "SecureEraseApplyToAll", "FormatApplyToAll"})

\* FlushBehavior 3 is printed with the number 2.
VWC ==
  Rarely("another", If({"Present"}, Shows(V14, {"FlushBehavior"}))) \cup Shows(V10, {"Present"})
AtomicUnits == Shows(V10, {"AWUN", "AWUPF", "ICSVSCC"})
NWPC ==
  Shows(V10, {"PermanentWriteProtectSupport", "WriteProtectUntilPowerCycleSupport",
    "NoWriteProtectSupport"})
ACWU == Shows(V10, {"ACWU"})
OCFS == Shows(V10, {"OCFS"})

\* Without SGLs the function prints one line and returns.
SGLS ==
  If({"SGLSupported"},
     Shows(V14, {"TransactionalSGLDataBlockDescSupported"}) \cup
     Shows(V10, {"OffsetByAddrFieldSupported", "MPTRContainingSGLDescSupported",
       "SGLLengthLargerThanDataLength", "ByteAlignedContiguousPhysicalBuffer",
       "BitBucketDescrSupported", "KeyedDBDescSupported"}) \cup
     Shows(V20, {"SDT"})) \cup
  Rarely("nothing", Shows(V10, {"SGLSupported"}))
MNAN == Shows(V10, {"MNAN"})
Attachments == Shows(V10, {"MAXDNA", "MAXCNA"})
Capsules == Shows(V10, {"IOCCSZ", "IORCSZ", "ICDOFF", "FCATT", "MSDBD", "OFCS"})
PSDs == Shows(V10, {"PDS"})

\* iSum is assigned where it should be added to: the last byte decides.
FGUID == Tested(V10, "FGUID[15]", {"FGUID[0..14]", "FGUID[15]"})

\* vPrintNVMeIdentifyControllerData.
ControllerReport ==
  <<Section(V10, Shows(V10, {"VID", "SSVID", "SN", "MN", "FR", "RAB", "IEEE"}) \cup CMIC),
    Section(V10, Shows(V10, {"MDTS", "CNTLID", "VER", "RTD3R", "RTD3E"}) \cup OAES \cup CTRATT),
    Section(V14, ControllerType), Section(V13, FGUID), Section(V14, CRDT),
    Section(V20, Management),
    Section(V10, OACS \cup Shows(V10, {"ACL", "AERL"}) \cup FRMW \cup LPA),
    Section(V10, Shows(V10, {"ELPE", "NPSS"}) \cup VendorPowerHeat \cup NVMCAP \cup RPMBS),
    Section(V13, SelfTest), Section(V10, KAS), Section(V13, HCTMA \cup SANICAP),
    Section(V14, HostMemory \cup IdentifierLimits \cup AsymmetricAccess),
    Section(V20, Domains),
    Section(V10, Queues \cup Shows(V10, {"NN"}) \cup ONCS \cup FUSES \cup FNA \cup VWC
                   \cup AtomicUnits),
    Section(V14, NWPC), Section(V10, ACWU), Section(V20, OCFS), Section(V10, SGLS),
    Section(V14, MNAN), Section(V20, Attachments), Section(V10, Shows(V10, {"SUBNQN"})),
    Section(V20, Capsules), Section(V10, PSDs)>>

-----------------------------------------------------------------------------
(* Identify Namespace data.                                                *)

NSFEAT ==
  Shows(V10, {"NSZE", "NCAP", "NUSE"}) \cup Shows(V14, {"OptPerf"}) \cup
  Shows(V10, {"SkipReuseUI", "DeallocatedOrUnwrittenError", "NameSpaceAtomicWriteUnit",
    "ThinProvisioning"})
Formatted ==
  Shows(V20, {"NlbafMsb"}) \cup
  Shows(V10, {"NLBAF", "FLBAS.MetadataInExtendedDataLBA", "LbaFormatIndex"})

\* ProtectionInfoTypeEnabled above 3 is printed as 3.
Protection ==
  Shows(V10, {"MetadataInSeparateBuffer", "MC.MetadataInExtendedDataLBA", "InfoAtEndOfMetadata",
    "DPC.InfoAtBeginningOfMetadata", "ProtectionInfoType3", "ProtectionInfoType2",
    "ProtectionInfoType1", "DPS.InfoAtBeginningOfMetadata"}) \cup
  Rarely("another", Shows(V10, {"ProtectionInfoTypeEnabled"}))

\* Without the bit in the controller data RESCAP is one line, which says that
\* it is 0 or that the two conflict.
Sharing ==
  Shows(V10, {"SharedNameSpace"}) \cup
  If({"Reservations"},
     Shows(V10, {"IgnoreExistingKey", "ExclusiveAccessAllRegistrantsReservation",
       "WriteExclusiveAllRegistrantsReservation", "ExclusiveAccessRegistrantsOnlyReservation",
       "WriteExclusiveRegistrantsOnlyReservation", "ExclusiveAccessReservation",
       "WriteExclusiveReservation", "PersistThroughPowerLoss"}))
Deallocation ==
  Shows(V10, {"FPI.Supported"}) \cup If({"FPI.Supported"}, Shows(V10, {"PercentageRemained"})) \cup
  Shows(V10, {"IsGuardFieldCRC", "DeallocateInWriteZero"}) \cup
  Rarely("nothing", Shows(V10, {"ReadBehavior"}))
Atomicity == Shows(V10, {"NAWUN", "NAWUPF", "NACWU", "NABSN", "NABO", "NABSPF", "NOIOB"})

\* Variant: the lines of the capacity, copied from the report on the controller.
OptimalOfController ==
  Tested(V14, "OptPerf", {"NPWG", "NPWA", "NPDG", "NPDA", "NOWS"}) \cup
  Shows(V20, {"MSSRL", "MCL", "MSRC"}) \cup
  {Line(V10, "NVMCAP_L", {}, "TNVMCAP_L"), Line(V10, "NVMCAP_H", {}, "TNVMCAP_H")}

Optimal ==
  Tested(V14, "OptPerf", {"NPWG", "NPWA", "NPDG", "NPDA", "NOWS"}) \cup
  Shows(V20, {"MSSRL", "MCL", "MSRC"}) \cup Shows(V10, {"NVMCAP_L", "NVMCAP_H"})

\* NSATTR is printed from a bit of NSFEAT.
Groups ==
  Tested(V14, "ANAReport", {"ANAGRPID"}) \cup {Line(V14, "WriteProtect", {}, "OptPerf")} \cup
  Tested(V14, "NVMSet", {"NVMSETID"}) \cup Tested(V14, "EnduranceGroups", {"ENDGID"})
Identifiers == Shows(V10, {"NGUID", "EUI64", "LBAF"})

\* printNVMeIdentifyNamespaceData.
NamespaceReport ==
  <<Section(V10, NSFEAT), Section(V10, Formatted), Section(V10, Protection),
    Section(V10, Sharing), Section(V10, Deallocation), Section(V10, Atomicity),
    Section(V10, Optimal), Section(V10, Groups), Section(V10, Identifiers)>>

-----------------------------------------------------------------------------
(* SMART / Health Information.                                             *)

CriticalWarning ==
  Shows(V14, {"PMRDegraded"}) \cup
  Shows(V10, {"VolatileMemoryBackupDeviceFailed", "ReadOnly", "ReliabilityDegraded",
    "TemperatureThreshold", "AvailableSpaceLow", "Temperature", "AvailableSpare",
    "AvailableSpareThreshold", "PercentageUsed"})
GroupSummary == Shows(V14, {"Group.ReadOnly", "Group.ReliabilityDegraded", "Group.AvailableSpareLow"})
Counters ==
  Shows(V10, {"DataUnitRead", "DataUnitWritten", "HostReadCommands", "HostWrittenCommands",
    "ControllerBusyTime", "PowerCycle", "PowerOnHours", "UnsafeShutdowns", "MediaErrors",
    "ErrorInfoLogEntryNum", "WCTempTime", "CCTempTime"})
Sensors ==
  Shows(V10, {"TemperatureSensor1", "TemperatureSensor2", "TemperatureSensor3",
    "TemperatureSensor4", "TemperatureSensor5", "TemperatureSensor6", "TemperatureSensor7",
    "TemperatureSensor8"})
ThermalManagement ==
  Shows(V10, {"TMT1TransitionCount", "TMT2TransitionCount", "TMT1TotalTime", "TMT2TotalTime"})

\* s_vPrintNVMeSMARTLog.
SMARTReport ==
  <<Section(V10, CriticalWarning), Section(V10, GroupSummary), Section(V10, Counters),
    Section(V10, Sensors), Section(V10, ThermalManagement)>>

-----------------------------------------------------------------------------
(* A report is printed section by section.                                 *)

VARIABLES
  report, \* which report it is
  ver,    \* VER in g_stController
  drive,  \* the fields of the drive that are not 0
  rare,   \* those of them whose value is a rare one
  at,     \* the next section
  shown   \* what has been printed: a label, and the field whose value it shows

vars == <<report, ver, drive, rare, at, shown>>

Sections ==
  [controller |-> ControllerReport, namespace |-> NamespaceReport, SMART |-> SMARTReport][report]

Init ==
  /\ report \in Reports /\ ver \in Versions
  /\ \E d \in Drives[report] : drive = d.fields /\ rare = d.rare
  /\ at = 1 /\ shown = {}

HasValue(l) == l.tests \cup {l.reads} \subseteq drive
Otherwise(l, what) == HasValue(l) /\ l.reads \in rare /\ l.otherwise = what

Printed(lines) ==
  {l \in lines : /\ IsOrLater(l.since, ver)
                 /\ l.needs = {} \/ l.needs \cap drive # {}
                 /\ ~Otherwise(l, "nothing")}

\* What a line says: the value of a field, or a value the field does not have,
\* or "0" for every way to say that there is none.
Says(l) ==
  CASE ~HasValue(l) -> "0"
    [] Otherwise(l, "another") -> "another"
    [] OTHER -> l.reads

PrintSection ==
  /\ at <= Len(Sections)
  /\ LET section == Sections[at]
     IN  shown' = shown \cup
           IF IsOrLater(section.since, ver)
           THEN {[label |-> l.label, says |-> Says(l)] : l \in Printed(section.lines)}
           ELSE {}
  /\ at' = at + 1
  /\ UNCHANGED <<report, ver, drive, rare>>

Spec == Init /\ [][PrintSection]_vars

-----------------------------------------------------------------------------
(* Properties.  They compare a report with the declarations of the         *)
(* structures, which the printers do not use.                              *)

Known == Documented[report]
Finished == at = Len(Sections) + 1
Labels == {s.label : s \in shown}

\* Where the code departs from the declarations, each of them a finding: fields printed
\* too late or too early, lines that test or print another field.
ShownLate == {"NoopPSPermissiveModeEn"}
ShownEarly ==
  {"SGLSupported", "TMT1TransitionCount", "TMT2TransitionCount", "TMT1TotalTime", "TMT2TotalTime"}
Misread == {"TNVMCAP_H", "MXTMT", "HMMAXD", "FGUID[0..14]", "WriteProtect"}
\* Fields with values that are printed as another value, or as nothing.
RarelyMistold == {"FlushBehavior", "ProtectionInfoTypeEnabled"}
RarelyUntold == {"DSTO", "SGLSupported", "ReadBehavior"}

\* Every variable has its type; a line names and reads a field of the structure the
\* report is about.
TypeOK ==
  /\ report \in Reports /\ ver \in Versions
  /\ \E d \in Drives[report] : drive = d.fields /\ rare = d.rare
  /\ at \in 1 .. Len(Sections) + 1
  /\ \A s \in shown : s.label \in DOMAIN Known /\ s.says \in DOMAIN Known \cup {"0", "another"}

\* A finished report leaves nothing out: what the drive reports in a field that
\* exists in its revision stands in the report, however the tests of the
\* revision in the caller and in the section and those of other fields combine.
\* Excepted are the fields above, those of RarelyMistold and RarelyUntold only
\* where the drive has a rare value.
Told == (drive \cap DOMAIN Known) \
          (ShownLate \cup Misread \cup (rare \cap (RarelyMistold \cup RarelyUntold)))
NothingMissing ==
  Finished =>
    \A f \in Told : IsOrLater(Known[f], ver) => [label |-> f, says |-> f] \in shown

\* A field that the revision of the drive does not have is not interpreted.
NothingTooNew == \A f \in Labels \ ShownEarly : IsOrLater(Known[f], ver)

\* The value beside the name of a field is the value the drive has in that
\* field, and "not supported" is said of no field that has one; but for the
\* fields of Misread, and for the rare values of those of RarelyMistold.
OwnValue ==
  \A s \in shown : s.label \notin Misread \cup (rare \cap RarelyMistold) =>
    s.says = IF s.label \in drive THEN s.label ELSE "0"
=============================================================================
