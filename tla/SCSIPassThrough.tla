--------------------------- MODULE SCSIPassThrough ---------------------------
(***************************************************************************)
(* The commands the tool sends as SCSI commands: Read, Write, Flush and the*)
(* two Security Receive commands.  Each one first asks the driver for the  *)
(* adapter and the device descriptor, in four requests; the adapter tells  *)
(* how a data buffer is aligned and which form of the pass-through request *)
(* it takes.  Any allocation and any request can fail.                     *)
(***************************************************************************)
EXTENDS Integers, FiniteSets

CONSTANTS
  Masks,      \* alignment masks an adapter can report
  SectorSize, \* bytes of the data buffer, 512 in the code
  MaxAddress, \* bound on the addresses malloc returns
  Supported   \* the sets of security protocols a drive can support

\* A mask is a power of two less one.
ASSUME MasksAssumption == Masks \subseteq Nat /\ 0 \in Masks
ASSUME SizesAssumption == SectorSize \in Nat \ {0} /\ MaxAddress \in Nat \ {0}
ASSUME SupportedAssumption == \A p \in Supported : p \subseteq 0 .. 255

Commands == {"Read", "Write", "Flush", "Level0Discovery", "ProtocolList"}

\* The opcodes; a command block full of zeroes is TEST UNIT READY.
Opcode(c) ==
  CASE c = "Read" -> "READ"
    [] c = "Write" -> "WRITE"
    [] c = "Flush" -> "SYNCHRONIZE CACHE"
    [] c \in {"Level0Discovery", "ProtocolList"} -> "SECURITY PROTOCOL IN"

VARIABLES
  pc,      \* the next step of the call
  cmd,     \* the command
  i,       \* the loop variable of QueryPropertyForDevice
  header,  \* the descriptor whose size header.Size is, "none" for 0
  desc,    \* per descriptor: not allocated, zeroes, or data of the driver
  status,  \* what QueryPropertyForDevice returns
  mask,    \* *AlignmentMask
  ex,      \* *SrbType is not 0
  held,    \* blocks allocated and not freed
  data,    \* the block of the data buffer and the pointer into it
  request, \* the request of the last call
  iResult, \* the value of the last call
  listed,  \* gau8SupportedSecurityProtocol, as the set of its ones
  sent     \* the protocols in the last reply of the drive to a request for them

query == <<i, header, desc>>
outputs == <<status, mask, ex>>
protocols == <<listed, sent>>
vars == <<pc, cmd, query, outputs, held, data, request, iResult, protocols>>

Kinds == {"adapter", "device"}
NoDescriptors == [k \in Kinds |-> "null"]
NoData == [base |-> 0, size |-> 0, ptr |-> 0]
NoRequest == [form |-> "none", opcode |-> "none", scsiStatus |-> "none"]

Init ==
  /\ pc = "idle" /\ cmd \in Commands
  /\ i = 0 /\ header = "none" /\ desc = NoDescriptors
  /\ status = FALSE /\ mask = 0 /\ ex = FALSE
  /\ held = 0 /\ data = NoData
  /\ request = NoRequest /\ iResult = -1
  /\ listed = {} /\ sent = {}

Call ==
  /\ pc = "idle"
  /\ cmd' \in Commands
  /\ pc' = "query" /\ iResult' = -1
  /\ i' = 0 /\ header' = "none" /\ desc' = NoDescriptors
  /\ status' = FALSE /\ mask' = 0 /\ ex' = FALSE
  /\ request' = NoRequest /\ data' = NoData
  /\ UNCHANGED <<held, protocols>>

-----------------------------------------------------------------------------
(* QueryPropertyForDevice: the size of a descriptor, then the descriptor,  *)
(* for the adapter and then for the device.  Some errors are ignored.      *)

Kind == IF i < 2 THEN "adapter" ELSE "device"
Advance == i' = i + 1 /\ pc' = IF i = 3 THEN "collect" ELSE "query"
Cleanup == pc' = "cleanup" /\ UNCHANGED i

\* Variant: an error that is ignored leaves the header alone.
QuerySizeStale ==
  /\ pc = "query" /\ i \in {0, 2}
  /\ UNCHANGED <<cmd, desc, outputs, held, data, request, iResult, protocols>>
  /\ \/ header' \in {"none", Kind, header} /\ Advance
     \/ header' = "none" /\ Cleanup

\* Success, an error that is ignored, an unexpected error.
QuerySize ==
  /\ pc = "query" /\ i \in {0, 2}
  /\ UNCHANGED <<cmd, desc, outputs, held, data, request, iResult, protocols>>
  /\ \/ header' \in {"none", Kind} /\ Advance
     \/ header' = "none" /\ Cleanup

QueryDescriptor ==
  /\ pc = "query" /\ i \in {1, 3}
  /\ UNCHANGED <<cmd, header, outputs, data, request, iResult, protocols>>
  /\ \/ header = "none" /\ Advance /\ UNCHANGED <<desc, held>>
     \/ header # "none" /\ Cleanup /\ UNCHANGED <<desc, held>>
     \/ /\ header # "none" /\ held' = held + 1
        /\ \/ \E content \in {"zeroes", "data"} :
                desc' = [desc EXCEPT ![Kind] = content] /\ Advance
           \/ desc' = [desc EXCEPT ![Kind] = "zeroes"] /\ Cleanup

\* Only an adapter descriptor that holds data has anything to say.
Collect ==
  /\ pc = "collect"
  /\ IF desc["adapter"] = "data"
     THEN mask' \in Masks /\ ex' \in BOOLEAN
     ELSE mask' = 0 /\ ex' = FALSE
  /\ status' = (\E k \in Kinds : desc[k] # "null")
  /\ pc' = "cleanup"
  /\ UNCHANGED <<cmd, query, held, data, request, iResult, protocols>>

Allocated == (IF desc["adapter"] # "null" THEN 1 ELSE 0) + (IF desc["device"] # "null" THEN 1 ELSE 0)

\* Variant: the early exits go past the Cleanup label.
ReleaseOnSuccess ==
  /\ pc = "cleanup"
  /\ held' = IF status THEN held - Allocated ELSE held
  /\ IF status THEN pc' = "build" /\ UNCHANGED iResult ELSE pc' = "idle" /\ iResult' = 0
  /\ UNCHANGED <<cmd, query, outputs, data, request, protocols>>

\* Cleanup, and then the test of the caller: "return false".
Release ==
  /\ pc = "cleanup"
  /\ held' = held - Allocated
  /\ IF status THEN pc' = "build" /\ UNCHANGED iResult ELSE pc' = "idle" /\ iResult' = 0
  /\ UNCHANGED <<cmd, query, outputs, data, request, protocols>>

-----------------------------------------------------------------------------
(* The request.                                                            *)

\* (ptr + mask) & ~mask
AlignUp(ptr, m) == ((ptr + m) \div (m + 1)) * (m + 1)

\* Variant: there is no room to move the pointer in.
AllocateAlignedBufferTight(base, m) == [base |-> base, size |-> SectorSize, ptr |-> AlignUp(base, m)]

AllocateAlignedBuffer(base, m) ==
  [base |-> base, size |-> SectorSize + m, ptr |-> AlignUp(base, m)]

\* Only Write has a buffer of its own: a block that is aligned for the EX form,
\* an array on the stack for the other.
Build ==
  /\ pc = "build"
  /\ UNCHANGED <<cmd, query, outputs, request, protocols>>
  /\ \/ /\ cmd # "Write"
        /\ pc' = "send" /\ UNCHANGED <<data, held, iResult>>
     \/ /\ cmd = "Write" /\ ~ex
        /\ \E base \in 1 .. MaxAddress : data' = [base |-> base, size |-> SectorSize, ptr |-> base]
        /\ pc' = "send" /\ UNCHANGED <<held, iResult>>
     \/ /\ cmd = "Write" /\ ex
        /\ \E base \in 1 .. MaxAddress : data' = AllocateAlignedBuffer(base, mask)
        /\ held' = held + 1 /\ pc' = "send" /\ UNCHANGED iResult
     \/ /\ cmd = "Write" /\ ex
        /\ pc' = "idle" /\ iResult' = 0 /\ UNCHANGED <<data, held>>

\* The two Security Receive commands do not look at the type of the adapter.
Form(c) ==
  CASE c = "Read" -> IF ex THEN "buffered EX" ELSE "buffered"
    [] c \in {"Write", "Flush"} -> IF ex THEN "direct EX" ELSE "direct"
    [] c \in {"Level0Discovery", "ProtocolList"} -> "buffered"

\* Flush fills the command block of the EX structure in both of its branches.
CdbOf(c) == IF c = "Flush" /\ ~ex THEN "TEST UNIT READY" ELSE Opcode(c)

\* The reply: reserved bytes, the length in bytes 7:6, the codes in ascending order.
Reply(p) ==
  [hi |-> Cardinality(p) \div 256, lo |-> Cardinality(p) % 256,
   code |-> [k \in 1 .. Cardinality(p) |->
               CHOOSE c \in p : Cardinality({d \in p : d < c}) = k - 1]]

\* a | b, of two bytes.
ByteOr(a, b) ==
  LET or(bit) == IF (a \div bit) % 2 = 1 \/ (b \div bit) % 2 = 1 THEN bit ELSE 0
  IN  or(128) + or(64) + or(32) + or(16) + or(8) + or(4) + or(2) + or(1)

\* Both bytes go into 8 bits, the upper one shifted by 4.
ListLength(reply) == ByteOr(reply.lo, (reply.hi * 16) % 256)

\* Variant: the array is not cleared first.
ParseListAdds(reply) == listed \cup {reply.code[k] : k \in 1 .. ListLength(reply)}

ParseList(reply) == {reply.code[k] : k \in 1 .. ListLength(reply)}

\* Only the result of the request is looked at: a command that ended in another
\* status left the zeroes in the buffer.
ReceiveList(outcome) ==
  IF cmd = "ProtocolList" /\ outcome # "failed"
  THEN \E p \in IF outcome = "good" THEN Supported ELSE {{}} :
         sent' = p /\ listed' = ParseList(Reply(p))
  ELSE UNCHANGED protocols

\* The request fails, or a command is carried out with one status or another.
Send ==
  /\ pc = "send"
  /\ \E outcome \in {"failed", "good", "check condition"} :
       /\ iResult' = IF outcome = "failed" THEN -1 ELSE 0
       /\ request' = [form |-> Form(cmd), opcode |-> CdbOf(cmd), scsiStatus |-> outcome]
       /\ ReceiveList(outcome)
  /\ held' = IF cmd = "Write" /\ ex THEN held - 1 ELSE held
  /\ pc' = "idle"
  /\ UNCHANGED <<cmd, query, outputs, data>>

Next == Call \/ QuerySize \/ QueryDescriptor \/ Collect \/ Release \/ Build \/ Send

Spec == Init /\ [][Next]_vars

-----------------------------------------------------------------------------
(* Properties.                                                             *)

\* Every variable has its type; a call never holds more than two blocks.
TypeOK ==
  /\ pc \in {"idle", "query", "collect", "cleanup", "build", "send"}
  /\ cmd \in Commands
  /\ i \in 0 .. 4 /\ header \in Kinds \cup {"none"}
  /\ desc \in [Kinds -> {"null", "zeroes", "data"}]
  /\ status \in BOOLEAN /\ mask \in Masks /\ ex \in BOOLEAN
  /\ held \in 0 .. 2
  /\ data \in [base: Nat, size: Nat, ptr: Nat]
  /\ iResult \in {-1, 0} /\ listed \subseteq 0 .. 255 /\ sent \in Supported \cup {{}}

\* Whatever fails, a call frees what it allocated before it returns.
NothingHeld == pc = "idle" => held = 0

\* A descriptor is allocated with its own size: the size of the adapter
\* descriptor that stands in the header is never used for the device.
SizedByItself ==
  pc = "query" /\ i \in {1, 3} /\ header # "none" => header = Kind

\* The data buffer of a Write in the EX form is aligned as the adapter asks, and lies inside
\* the block that was allocated for it.
AlignedInside ==
  pc = "send" /\ cmd = "Write" /\ ex =>
    /\ data.ptr % (mask + 1) = 0
    /\ data.base <= data.ptr
    /\ data.ptr + SectorSize <= data.base + data.size

\* Flush sends SYNCHRONIZE CACHE.
FlushSynchronizes ==
  request # NoRequest /\ cmd = "Flush" => request.opcode = "SYNCHRONIZE CACHE"

\* The list the tool prints, and asks before it sends Level 0 Discovery, is the one the
\* drive sent last, empty if that request did not end well; a failure leaves it alone.
\* Only the list of a drive with all 256 protocols is cut (to 16 of them).
ListedAsSent == listed = IF Cardinality(sent) = 256 THEN 0 .. 15 ELSE sent
=============================================================================
