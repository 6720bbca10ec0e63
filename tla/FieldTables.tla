----------------------------- MODULE FieldTables -----------------------------
(***************************************************************************)
(* The structures the tool decodes, as their declarations describe them:   *)
(* which fields a structure has, and the revision of NVMe that introduced  *)
(* each (the marks <rev1.3>, <rev1.4>, <rev2.0> beside the fields; no mark *)
(* is a field of the first revision).  A field has the name it has in the  *)
(* declaration, with the name of its register where two fields share one.  *)
(* The module has no state.                                                *)
(***************************************************************************)
EXTENDS Integers

\* Values of VER: major, minor and tertiary number, 16, 8 and 8 bits.
Version(major, minor, tertiary) == major * 65536 + minor * 256 + tertiary
V10 == Version(1, 0, 0)
V13 == Version(1, 3, 0)
V14 == Version(1, 4, 0)
V20 == Version(2, 0, 0)

\* A structure, or a part of one, is its fields by the revision that introduced them.
Fields(structure) == structure.v10 \cup structure.v13 \cup structure.v14 \cup structure.v20
Joined(s, t) ==
  [v10 |-> s.v10 \cup t.v10, v13 |-> s.v13 \cup t.v13,
   v14 |-> s.v14 \cup t.v14, v20 |-> s.v20 \cup t.v20]
Since(structure) ==
  [f \in Fields(structure) |->
     CASE f \in structure.v10 -> V10
       [] f \in structure.v13 -> V13
       [] f \in structure.v14 -> V14
       [] OTHER -> V20]

-----------------------------------------------------------------------------
(* Identify Controller data.                                               *)

\* Bytes 0 - 255.
CapabilityFields ==
  [v10 |-> {"VID", "SSVID", "SN", "MN", "FR", "RAB", "IEEE", "MultiPCIePorts", "MultiControllers",
     "SRIOV", "MDTS", "CNTLID", "VER", "RTD3R", "RTD3E", "NamespaceAttributeChanged",
     "FirmwareActivation", "HostIdEn"},
   v13 |-> {"NoopPSPermissiveModeEn", "FGUID[0..14]", "FGUID[15]"},
   v14 |-> {"ANAReport", "ANAChange", "PredictableLatencyEventAggregateLogChange",
     "LBAStatusInfo", "EnduranceGroupEventAggregateLogChange", "NVMSet", "ReadRecoveryLevel",
     "EnduranceGroups", "PredictableLatencyMode", "TrafficBasedKeepAlive", "NamespaceGranularity",
     "SQAssociation", "UUIDList", "RRLS", "CNTRLTYPE", "CRDT1", "CRDT2", "CRDT3"},
   v20 |-> {"NVMSubsystemShutdown", "ZoneDesciptorChanged", "DiscoveryLogChanged", "MDS",
     "FixedCapMgmt", "VariableCapMgmt", "DelEndGrp", "DelNVMSet", "ExtLBAFmt", "NVMESD", "NVMEE",
     "VMCR", "VMCRV", "SMBUSME", "PCIEME"}]

\* Bytes 256 - 511.  AuthenticationMethod has no value but 0 and is left out.
AdminFields ==
  [v10 |-> {"SecurityCommands", "FormatNVM", "FirmwareCommands", "NamespaceCommands", "ACL",
     "AERL", "Slot1ReadOnly", "SlotCount", "ActivationWithoutReset", "SmartPagePerNamespace",
     "CommandEffectsLog", "LogPageExtendedData", "ELPE", "NPSS", "AVSCC", "APSTA", "WCTEMP",
     "CCTEMP", "MTFA", "HMPRE", "HMMIN", "TNVMCAP_L", "TNVMCAP_H", "UNVMCAP_L", "UNVMCAP_H",
     "RPMBUnitCount", "TotalSize", "AccessSize", "KAS"},
   v13 |-> {"DeviceSelfTest", "Directives", "NVMeMICommands", "VirtMgmtCommands",
     "DBConfigCommand", "TelemetrySupport", "EDSTT", "DSTO", "FWUG", "HCTMA", "MNTMT", "MXTMT",
     "CryptoErase", "BlockErase", "Overwrite"},
   v14 |-> {"GetLBAStatusCommand", "PersistentEventLog", "NoDeallocateInhibited", "NODMMAS",
     "HMMINDS", "HMMAXD", "NSETIDMAX", "ENDGIDMAX", "ANATT", "ReportOptimizedState",
     "ReportNonOptimizedState", "ReportInaccessibleState", "ReportPersistentLossState",
     "ReportChangeState", "NoGRPIDChangeDuringAttached", "NonZeroGRPIDSupport", "ANAGRPMAX",
     "NANAGRPID", "PELS"},
   v20 |-> {"Lockdown", "MultipleUpdateDetect", "CommandScope", "TelemetryArea4", "DomainId",
     "MEGCAP"}]

\* Bytes 512 - 3071.
CommandSetFields ==
  [v10 |-> {"SQES.RequiredEntrySize", "SQES.MaxEntrySize", "CQES.RequiredEntrySize",
     "CQES.MaxEntrySize", "MAXCMD", "NN", "Compare", "WriteUncorrectable", "DatasetManagement",
     "WriteZeroes", "FeatureField", "Reservations", "CompareAndWrite", "FormatApplyToAll",
     "SecureEraseApplyToAll", "CryptographicEraseSupported", "Present", "AWUN", "AWUPF",
     "ICSVSCC", "ACWU", "KeyedDBDescSupported", "BitBucketDescrSupported",
     "ByteAlignedContiguousPhysicalBuffer", "SGLLengthLargerThanDataLength",
     "MPTRContainingSGLDescSupported", "OffsetByAddrFieldSupported", "SUBNQN", "PDS"},
   v13 |-> {"Timestamp", "SGLSupported"},
   v14 |-> {"Verify", "FlushBehavior", "NoWriteProtectSupport",
     "WriteProtectUntilPowerCycleSupport", "PermanentWriteProtectSupport",
     "TransactionalSGLDataBlockDescSupported", "MNAN"},
   v20 |-> {"Copy", "NotAcceptNAIDIsAllF", "OCFS", "SDT", "MAXDNA", "MAXCNA", "IOCCSZ", "IORCSZ",
     "ICDOFF", "FCATT", "MSDBD", "OFCS"}]

ControllerFields == Joined(CapabilityFields, Joined(AdminFields, CommandSetFields))

-----------------------------------------------------------------------------
\* Identify Namespace data.
NamespaceFields ==
  [v10 |-> {"NSZE", "NCAP", "NUSE", "ThinProvisioning", "NameSpaceAtomicWriteUnit",
     "DeallocatedOrUnwrittenError", "SkipReuseUI", "NLBAF", "LbaFormatIndex",
     "FLBAS.MetadataInExtendedDataLBA", "MC.MetadataInExtendedDataLBA",
     "MetadataInSeparateBuffer", "ProtectionInfoType1", "ProtectionInfoType2",
     "ProtectionInfoType3", "DPC.InfoAtBeginningOfMetadata", "InfoAtEndOfMetadata",
     "ProtectionInfoTypeEnabled", "DPS.InfoAtBeginningOfMetadata", "SharedNameSpace",
     "PersistThroughPowerLoss", "WriteExclusiveReservation", "ExclusiveAccessReservation",
     "WriteExclusiveRegistrantsOnlyReservation", "ExclusiveAccessRegistrantsOnlyReservation",
     "WriteExclusiveAllRegistrantsReservation", "ExclusiveAccessAllRegistrantsReservation",
     "IgnoreExistingKey", "PercentageRemained", "FPI.Supported", "ReadBehavior",
     "DeallocateInWriteZero", "IsGuardFieldCRC", "NAWUN", "NAWUPF", "NACWU", "NABSN", "NABO",
     "NABSPF", "NOIOB", "NVMCAP_L", "NVMCAP_H", "NGUID", "EUI64", "LBAF"},
   v13 |-> {},
   v14 |-> {"OptPerf", "NPWG", "NPWA", "NPDG", "NPDA", "NOWS", "ANAGRPID", "WriteProtect",
     "NVMSETID", "ENDGID"},
   v20 |-> {"NlbafMsb", "MSSRL", "MCL", "MSRC"}]

\* The SMART / Health Information log page.
SMARTFields ==
  [v10 |-> {"AvailableSpaceLow", "TemperatureThreshold", "ReliabilityDegraded", "ReadOnly",
     "VolatileMemoryBackupDeviceFailed", "Temperature", "AvailableSpare",
     "AvailableSpareThreshold", "PercentageUsed", "DataUnitRead", "DataUnitWritten",
     "HostReadCommands", "HostWrittenCommands", "ControllerBusyTime", "PowerCycle",
     "PowerOnHours", "UnsafeShutdowns", "MediaErrors", "ErrorInfoLogEntryNum", "WCTempTime",
     "CCTempTime", "TemperatureSensor1", "TemperatureSensor2", "TemperatureSensor3",
     "TemperatureSensor4", "TemperatureSensor5", "TemperatureSensor6", "TemperatureSensor7",
     "TemperatureSensor8"},
   v13 |-> {"TMT1TransitionCount", "TMT2TransitionCount", "TMT1TotalTime", "TMT2TotalTime"},
   v14 |-> {"PMRDegraded", "Group.AvailableSpareLow", "Group.ReliabilityDegraded",
     "Group.ReadOnly"},
   v20 |-> {}]

Reports == {"controller", "namespace", "SMART"}
Documented ==
  [controller |-> Since(ControllerFields), namespace |-> Since(NamespaceFields),
   SMART |-> Since(SMARTFields)]

-----------------------------------------------------------------------------
(* What the specification of NVMe says of the drive: a field that depends  *)
(* on a capability is 0 unless the drive has one of these capabilities,    *)
(* some of which a namespace finds in the controller data.                 *)
Depends(f) ==
  CASE f \in {"EDSTT", "DSTO"} -> {"DeviceSelfTest"}
    [] f \in {"MNTMT", "MXTMT"} -> {"HCTMA"}
    [] f \in {"NODMMAS", "NoDeallocateInhibited"} -> {"CryptoErase", "BlockErase", "Overwrite"}
    [] f \in {"TotalSize", "AccessSize"} -> {"RPMBUnitCount"}
    [] f = "DomainId" -> {"MDS"}
    [] f \in {"MEGCAP", "ENDGID"} -> {"EnduranceGroups"}
    [] f = "VMCR" -> {"VMCRV"}
    [] f = "FlushBehavior" -> {"Present"}
    [] f \in {"KeyedDBDescSupported", "SDT", "BitBucketDescrSupported",
           "ByteAlignedContiguousPhysicalBuffer", "SGLLengthLargerThanDataLength",
           "MPTRContainingSGLDescSupported", "OffsetByAddrFieldSupported",
           "TransactionalSGLDataBlockDescSupported"} -> {"SGLSupported"}
    [] f \in {"PersistThroughPowerLoss", "WriteExclusiveReservation", "ExclusiveAccessReservation",
           "WriteExclusiveRegistrantsOnlyReservation", "ExclusiveAccessRegistrantsOnlyReservation",
           "WriteExclusiveAllRegistrantsReservation", "ExclusiveAccessAllRegistrantsReservation",
           "IgnoreExistingKey"} -> {"Reservations"}
    [] f = "PercentageRemained" -> {"FPI.Supported"}
    [] f \in {"NPWG", "NPWA", "NPDG", "NPDA", "NOWS"} -> {"OptPerf"}
    [] f = "ANAGRPID" -> {"ANAReport"}
    [] f = "NVMSETID" -> {"NVMSet"}
    [] OTHER -> {}

\* A set of fields a drive can report as other than 0.
Consistent(drive) ==
  \A f \in drive : Depends(f) = {} \/ Depends(f) \cap drive # {}
=============================================================================
