----------------------------- MODULE QueryShapes -----------------------------
(***************************************************************************)
(* Every function that reads a data structure of the drive does it in the  *)
(* same way: it allocates one buffer for the request and the reply, sends  *)
(* IOCTL_STORAGE_QUERY_PROPERTY, validates the descriptor header, validates*)
(* the offset and the length of the data, uses the data, frees the buffer. *)
(* The functions differ in the details of the validation and in what they  *)
(* return when it fails.  A shape names these details, one shape for each  *)
(* function; the module has no state.                                      *)
(***************************************************************************)
EXTENDS Integers

\* offset:  which side of sizeof(STORAGE_PROTOCOL_SPECIFIC_DATA) the function
\*          rejects ("below" or "above")
\* accepts: the data lengths it accepts ("part" is shorter than the structure)
\* invalid: what it returns when the validation fails
\* content: whether the data themselves are checked after they were copied
\* keeps:   the global the data are copied to
\* asks:    whether the user is asked for more after the buffer was allocated
\* checks:  whether the reply is validated at all
Shape(offset, accepts, invalid, content, keeps) ==
  [offset |-> offset, accepts |-> accepts, invalid |-> invalid,
   content |-> content, keeps |-> keeps, asks |-> FALSE, checks |-> TRUE]

LogPageShape == Shape("below", {"whole"}, -1, FALSE, "none")
IdentifyShape == Shape("above", {"whole"}, 0, FALSE, "none")

IdentifyController == Shape("above", {"whole"}, -1, TRUE, "g_stController")
IdentifyNamespace == Shape("above", {"whole"}, 0, FALSE, "g_stNamespaceData")
IdentifyNSIDDescriptor == IdentifyShape
IdentifyActiveNSIDList == IdentifyShape
IdentifyIOControllerNamespace == IdentifyShape
GetSMART == Shape("below", {"whole"}, -1, FALSE, "g_stSMARTLog")
GetErrorInformation == LogPageShape
GetFwSlotInformation == LogPageShape
GetSupportedLogPages == LogPageShape
GetCommandSupportedAndEffects == LogPageShape
GetDeviceSelftestLog == Shape("below", {"part", "whole"}, -1, FALSE, "none")
GetTelemetryHostInitiated == LogPageShape
GetTelemetryControllerInitiated == LogPageShape
GetEnduranceGroupInformation == [LogPageShape EXCEPT !.asks = TRUE]
GetEnduranceGroupEventAggregate == LogPageShape
\* IOCTL_STORAGE_GET_DEVICE_INTERNAL_LOG: the reply is printed as it comes.
GetDeviceInternalLog == [LogPageShape EXCEPT !.checks = FALSE]

LogPageQueries ==
  {GetErrorInformation, GetFwSlotInformation, GetSupportedLogPages,
   GetCommandSupportedAndEffects, GetDeviceSelftestLog, GetSMART,
   GetTelemetryHostInitiated, GetTelemetryControllerInitiated,
   GetEnduranceGroupInformation, GetEnduranceGroupEventAggregate}
IdentifyQueries ==
  {IdentifyController, IdentifyNamespace, IdentifyNSIDDescriptor,
   IdentifyActiveNSIDList, IdentifyIOControllerNamespace}
AllQueries == LogPageQueries \cup IdentifyQueries \cup {GetDeviceInternalLog}
Kept == {"none", "g_stController", "g_stNamespaceData", "g_stSMARTLog"}

-----------------------------------------------------------------------------
\* What the driver can answer, as far as a shape tells answers apart.
Replies == [header: BOOLEAN, offset: {"below", "exact", "above"},
            length: {"none", "part", "whole"}, content: BOOLEAN]

ValidHeader(q, r) == q.checks => r.header
ValidRange(q, r) == q.checks => r.offset # q.offset /\ r.length \in q.accepts

\* How a call can end, in the order in which it can end.
Verdicts == {"noMemory", "declined", "ioctlFailed", "rejected", "badContent", "accepted"}

\* Those a function knows.
VerdictsOf(q) ==
  {v \in Verdicts : /\ v = "declined" => q.asks
                    /\ v = "rejected" => q.checks
                    /\ v = "badContent" => q.content}

\* The value a call returns and whether its global holds new data afterwards.
ResultOf(q, v) ==
  CASE v \in {"noMemory", "declined", "ioctlFailed", "badContent"} -> -1
    [] v = "rejected" -> q.invalid
    [] v = "accepted" -> 0

Stores(q, v) == v \in {"badContent", "accepted"} /\ q.keeps # "none"
=============================================================================
