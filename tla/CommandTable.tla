---------------------------- MODULE CommandTable ----------------------------
(***************************************************************************)
(* The commands of the menu and of its sub-menus as data: which letter     *)
(* selects which command, which code selects which leaf of it, and which   *)
(* capability bits of the Identify Controller data each one asks for.      *)
(***************************************************************************)
EXTENDS Integers

\* The bits of g_stController the tool tests before it sends a command.
Capability ==
  {"DatasetManagement", "SecurityCommands", "FormatNVM", "CryptographicErase",
   "DeviceSelfTest", "V14", "V20", "SmartPagePerNamespace",
   "CommandEffectsLog", "TelemetrySupport", "EnduranceGroups", "APST", "HMPRE",
   "Timestamp", "HCTM", "NoopPSPermissiveMode"}

\* eGetCommandFromConsole: the first character of the answer to the menu.
MenuOp(ch) ==
  CASE ch \in {"q", "Q"} -> "Quit"
    [] ch \in {"r", "R"} -> "Read"
    [] ch \in {"w", "W"} -> "Write"
    [] ch \in {"d", "D"} -> "Deallocate"
    [] ch \in {"f", "F"} -> "Flush"
    [] ch \in {"t", "T"} -> "SelfTest"
    [] ch \in {"z", "Z"} -> "Format"
    [] ch \in {"v", "V"} -> "SecurityReceive"
    [] ch \in {"x", "X"} -> "Vendor"
    [] ch \in {"i", "I"} -> "Identify"
    [] ch \in {"l", "L"} -> "GetLogPage"
    [] ch \in {"g", "G"} -> "GetFeatures"
    [] ch \in {"s", "S"} -> "SetFeatures"
    [] OTHER -> "Unknown"

\* The commands the menu confirms itself, and those that ask for a code.
ConfirmedByMenu == {"Read", "Write", "Deallocate", "Flush", "SelfTest",
                    "Format", "SecurityReceive", "Vendor"}
AsksForCode == {"Identify", "GetLogPage", "GetFeatures", "SetFeatures",
                "SelfTest", "SecurityReceive"}

\* The bits a menu command needs before anything of it is sent.
OpNeeds(op) ==
  CASE op = "Deallocate" -> {"DatasetManagement"}
    [] op = "SecurityReceive" -> {"SecurityCommands"}
    [] op = "SelfTest" -> {"DeviceSelfTest"}
    [] op = "Format" -> {"FormatNVM", "CryptographicErase"}
    [] OTHER -> {}

-----------------------------------------------------------------------------
\* before: bits tested before the confirmation; after: bits tested after it.
Leaf(op, code, leaf, before, after) ==
  [op |-> op, code |-> code, leaf |-> leaf, before |-> before, after |-> after]

IdentifyLeaves ==
  { Leaf("Identify", 0, "Namespace", {}, {}),
    Leaf("Identify", 1, "Controller", {}, {}),
    Leaf("Identify", 2, "ActiveNSIDList", {}, {}),
    Leaf("Identify", 3, "NSIDDescriptor", {}, {}),
    Leaf("Identify", 5, "IOCSNamespace", {}, {}) }

LogPageLeaves ==
  { Leaf("GetLogPage", 0, "SupportedLogPages", {"V20"}, {}),
    Leaf("GetLogPage", 1, "ErrorInformation", {}, {}),
    Leaf("GetLogPage", 2, "SMART", {}, {}),
    Leaf("GetLogPage", 3, "FwSlot", {}, {}),
    Leaf("GetLogPage", 5, "CommandEffects", {"CommandEffectsLog"}, {}),
    Leaf("GetLogPage", 6, "SelftestLog", {"DeviceSelfTest"}, {}),
    Leaf("GetLogPage", 7, "TelemetryHost", {"TelemetrySupport"}, {}),
    Leaf("GetLogPage", 8, "TelemetryController", {"TelemetrySupport"}, {}),
    Leaf("GetLogPage", 9, "EnduranceGroup", {"EnduranceGroups"}, {}),
    Leaf("GetLogPage", 15, "EnduranceEvents", {"V14", "EnduranceGroups"}, {}) }

SetFeatureLeaves ==
  { Leaf("SetFeatures", 6, "SetVWC", {}, {}),
    Leaf("SetFeatures", 16, "SetHCTM", {}, {"HCTM"}) }

SelfTestLeaves ==
  { Leaf("SelfTest", 1, "StartShort", {}, {}),
    Leaf("SelfTest", 2, "StartExtended", {}, {}),
    Leaf("SelfTest", 15, "AbortTest", {}, {}) }

SecurityLeaves ==
  { Leaf("SecurityReceive", 0, "ProtocolList", {}, {}),
    Leaf("SecurityReceive", 1, "Level0Discovery", {}, {}) }

\* The features read without a further test of g_stController, and the others.
PlainFeatures == {1, 2, 3, 4, 5, 6, 7, 8, 10, 11, 16, 128}
GetFeatureLeaves ==
  { Leaf("GetFeatures", fid, "GetFeature", {}, {}) : fid \in PlainFeatures } \cup
  { Leaf("GetFeatures", 12, "GetFeature", {}, {"APST"}),
    Leaf("GetFeatures", 13, "GetFeature", {}, {"HMPRE"}),
    Leaf("GetFeatures", 14, "GetFeature", {}, {"Timestamp"}),
    Leaf("GetFeatures", 17, "GetFeature", {}, {"NoopPSPermissiveMode"}) }

Leaves == IdentifyLeaves \cup LogPageLeaves \cup SetFeatureLeaves \cup
          SelfTestLeaves \cup SecurityLeaves \cup GetFeatureLeaves

-----------------------------------------------------------------------------
Ops == ConfirmedByMenu \cup AsksForCode \cup {"Quit", "Unknown"}
\* Everything a dialogue can end in; the Telemetry Host-Initiated log page is
\* one of three by then.
LeafNames ==
  {"None", "Read", "Write", "Deallocate", "Flush", "Format", "Vendor",
   "Namespace", "Controller", "ActiveNSIDList", "NSIDDescriptor", "IOCSNamespace",
   "SupportedLogPages", "ErrorInformation", "SMART", "FwSlot", "CommandEffects",
   "SelftestLog", "TelemetryHost", "CreateTelemetry", "ReadTelemetry", "InternalLog",
   "TelemetryController", "EnduranceGroup", "EnduranceEvents",
   "SetVWC", "SetHCTM", "StartShort", "StartExtended", "AbortTest",
   "ProtocolList", "Level0Discovery", "GetFeature"}
=============================================================================
