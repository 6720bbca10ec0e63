------------------------- MODULE ProtocolQueryProofs -------------------------
(***************************************************************************)
(* Proofs about ProtocolQuery, for any set of the functions and any bound  *)
(* on the lost buffers: what a call loses, what its result means, and that *)
(* its steps amount to one step of AtomicQuery.                            *)
(***************************************************************************)
EXTENDS ProtocolQuery, TLAPS

-----------------------------------------------------------------------------
(* The shapes.                                                             *)

LEMMA ShapeFacts ==
  ASSUME NEW q \in AllQueries
  PROVE  /\ q.asks \in BOOLEAN /\ q.content \in BOOLEAN
         /\ q.invalid \in {-1, 0} /\ q.keeps \in Kept
         /\ q.accepts \subseteq {"part", "whole"} /\ q.checks \in BOOLEAN
         /\ q \in LogPageQueries \cup {IdentifyController} => q.invalid = -1 /\ q.checks
<1>. DEFINE Typed(s) == /\ s.asks \in BOOLEAN /\ s.content \in BOOLEAN
                        /\ s.invalid \in {-1, 0} /\ s.keeps \in Kept
                        /\ s.accepts \subseteq {"part", "whole"} /\ s.checks \in BOOLEAN
<1>1. Typed(LogPageShape) /\ LogPageShape.invalid = -1 /\ LogPageShape.checks
  BY DEF LogPageShape, Shape, Kept
<1>2. Typed(GetSMART) /\ GetSMART.invalid = -1 /\ GetSMART.checks
  BY DEF GetSMART, Shape, Kept
<1>3. Typed(GetDeviceSelftestLog) /\ GetDeviceSelftestLog.invalid = -1 /\ GetDeviceSelftestLog.checks
  BY DEF GetDeviceSelftestLog, Shape, Kept
<1>4. /\ Typed(GetEnduranceGroupInformation)
      /\ GetEnduranceGroupInformation.invalid = -1
      /\ GetEnduranceGroupInformation.checks
  BY DEF GetEnduranceGroupInformation, LogPageShape, Shape, Kept
<1>5. Typed(IdentifyController) /\ IdentifyController.invalid = -1 /\ IdentifyController.checks
  BY DEF IdentifyController, Shape, Kept
<1>6. Typed(IdentifyNamespace)
  BY DEF IdentifyNamespace, Shape, Kept
<1>7. Typed(IdentifyShape)
  BY DEF IdentifyShape, Shape, Kept
<1>8. q \in LogPageQueries =>
        q \in {LogPageShape, GetSMART, GetDeviceSelftestLog, GetEnduranceGroupInformation}
  BY DEF LogPageQueries, GetErrorInformation, GetFwSlotInformation, GetSupportedLogPages,
     GetCommandSupportedAndEffects, GetTelemetryHostInitiated,
     GetTelemetryControllerInitiated, GetEnduranceGroupEventAggregate
<1>9. q \in IdentifyQueries => q \in {IdentifyController, IdentifyNamespace, IdentifyShape}
  BY DEF IdentifyQueries, IdentifyNSIDDescriptor, IdentifyActiveNSIDList,
     IdentifyIOControllerNamespace
<1>10. Typed(GetDeviceInternalLog)
  BY DEF GetDeviceInternalLog, LogPageShape, Shape, Kept
<1>11. Typed(q)
  <2>. HIDE DEF Typed
  <2>. QED  BY <1>1, <1>2, <1>3, <1>4, <1>5, <1>6, <1>7, <1>8, <1>9, <1>10 DEF AllQueries
<1>12. q \in LogPageQueries \cup {IdentifyController} => q.invalid = -1 /\ q.checks
  BY <1>1, <1>2, <1>3, <1>4, <1>5, <1>8
<1>. QED  BY <1>11, <1>12

-----------------------------------------------------------------------------
(* Types and buffers.                                                      *)

BufferInv == TypeOK /\ LostOnlyByDecline

LEMMA InitBufferInv == Init => BufferInv
<1>. SUFFICES ASSUME Init PROVE BufferInv
  OBVIOUS
<1>1. NoReply \in Replies
  BY DEF NoReply, Replies
<1>2. last \in [query: Queries, verdict: Verdicts, result: {-1, 0}]
  BY DEF Init, Verdicts
<1>. QED  BY <1>1, <1>2, MaxLeakedAssumption
          DEF Init, BufferInv, TypeOK, LostOnlyByDecline

LEMMA NextBufferInv == BufferInv /\ [Next]_vars => BufferInv'
<1>. SUFFICES ASSUME BufferInv, [Next]_vars PROVE BufferInv'
  OBVIOUS
<1>. USE MaxLeakedAssumption DEF BufferInv, TypeOK, LostOnlyByDecline
<1>1. \A q \in Queries : q.invalid \in {-1, 0} /\ q.asks \in BOOLEAN
  BY QueriesAssumption, ShapeFacts
<1>2. ASSUME NEW q \in Queries, NEW v \in Verdicts, NEW res \in {-1, 0},
             query' = q, Decide(v, res)
      PROVE  /\ iResult' \in {-1, 0}
             /\ last' \in [query: Queries, verdict: Verdicts, result: {-1, 0}]
  BY <1>2 DEF Decide
<1>3. {"noMemory", "declined", "ioctlFailed", "rejected", "badContent", "accepted"}
        = Verdicts
  BY DEF Verdicts
<1>4. CASE Allocate
  <2>1. NoReply \in Replies
    BY DEF NoReply, Replies
  <2>. QED  BY <1>1, <1>2, <1>3, <1>4, <2>1 DEF Allocate
<1>5. CASE Prompt
  BY <1>2, <1>3, <1>5 DEF Prompt
<1>6. CASE Ioctl
  BY <1>2, <1>3, <1>6 DEF Ioctl
<1>7. CASE CheckHeader
  BY <1>1, <1>2, <1>3, <1>7 DEF CheckHeader, Pass, Reject
<1>8. CASE CheckRange
  BY <1>1, <1>2, <1>3, <1>8 DEF CheckRange, Pass, Reject
<1>9. CASE Copy
  BY <1>9 DEF Copy, Worth
<1>10. CASE CheckContent
  <2>1. Worth \in Verdicts /\ ContentResult \in {-1, 0}
    BY <1>3 DEF Worth, ContentResult
  <2>. QED  BY <1>2, <1>10, <2>1 DEF CheckContent
<1>11. CASE Free
  BY <1>11 DEF Free
<1>12. CASE UNCHANGED vars
  BY <1>12 DEF vars
<1>. QED  BY <1>4, <1>5, <1>6, <1>7, <1>8, <1>9, <1>10, <1>11, <1>12 DEF Next

\* Every variable has its type.
THEOREM TypeCorrect == Spec => []TypeOK
<1>1. BufferInv => TypeOK
  BY DEF BufferInv
<1>. QED  BY <1>1, InitBufferInv, NextBufferInv, PTL DEF Spec

\* A function loses its buffer when its prompt is declined, and only then.
THEOREM LeakIsTheDecline == Spec => []LostOnlyByDecline
<1>1. BufferInv => LostOnlyByDecline
  BY DEF BufferInv
<1>. QED  BY <1>1, InitBufferInv, NextBufferInv, PTL DEF Spec

-----------------------------------------------------------------------------
(* What a result of 0 means.  The strict functions return -1 for every     *)
(* reply they reject; for them the 0 is explained by the path to it.       *)

Strict == query.invalid = -1
Valid == ValidHeader(query, reply) /\ ValidRange(query, reply)
Kept0(w) == query.keeps # "none" => memory[query.keeps] = w

PathInv ==
  /\ TypeOK
  /\ pc \in {"prompt", "ioctl"} => iResult = -1
  /\ pc = "prompt" => query.asks
  /\ pc \in {"header", "range", "copy", "content"} => iResult = 0
  /\ pc \in {"range", "copy", "content"} => ValidHeader(query, reply)
  /\ pc \in {"copy", "content"} => ValidRange(query, reply)
  /\ pc = "content" => Kept0(Worth)
  /\ pc \in {"error_exit", "idle"} /\ Strict /\ iResult = 0 => Valid /\ Kept0("accepted")

LEMMA InitPathInv == Init => PathInv
<1>1. Init => TypeOK
  BY InitBufferInv DEF BufferInv
<1>. QED  BY <1>1 DEF Init, PathInv

LEMMA NextPathInv == PathInv /\ TypeOK' /\ [Next]_vars => PathInv'
<1>. SUFFICES ASSUME PathInv, TypeOK', [Next]_vars PROVE PathInv'
  OBVIOUS
<1>. USE DEF PathInv, Strict, Valid, Kept0, Worth
<1>. \A q \in Queries : q.keeps \in Kept
  BY QueriesAssumption, ShapeFacts
<1>1. CASE Allocate
  BY <1>1 DEF Allocate, Decide
<1>2. CASE Prompt
  BY <1>2 DEF Prompt, Decide
<1>3. CASE Ioctl
  BY <1>3 DEF Ioctl, Decide
<1>4. CASE CheckHeader
  BY <1>4 DEF CheckHeader, Pass, Reject, Decide
<1>5. CASE CheckRange
  BY <1>5 DEF CheckRange, Pass, Reject, Decide
<1>6. CASE Copy
  BY <1>6 DEF Copy, TypeOK
<1>7. CASE CheckContent
  BY <1>7 DEF CheckContent, Decide, ContentResult
<1>8. CASE Free
  BY <1>8 DEF Free
<1>9. CASE UNCHANGED vars
  BY <1>9 DEF vars
<1>. QED  BY <1>1, <1>2, <1>3, <1>4, <1>5, <1>6, <1>7, <1>8, <1>9 DEF Next

LEMMA PathInvariant == Spec => []PathInv
BY InitPathInv, NextPathInv, TypeCorrect, PTL DEF Spec

\* A log page function that returns 0 has shown data of a valid reply, and its
\* global holds a whole structure.
THEOREM ZeroMeansData == Spec => []SuccessMeansData
<1>1. PathInv => SuccessMeansData
  <2>. SUFFICES ASSUME PathInv, pc = "idle", iResult = 0,
                       query \in LogPageQueries \cup {IdentifyController}
                PROVE  /\ reply.header /\ ValidRange(query, reply) /\ reply.length # "none"
                       /\ query.keeps # "none" => memory[query.keeps] = "accepted"
    BY DEF SuccessMeansData
  <2>1. query \in AllQueries
    BY QueriesAssumption DEF PathInv, TypeOK
  <2>2. query.invalid = -1 /\ query.checks /\ query.accepts \subseteq {"part", "whole"}
    BY <2>1, ShapeFacts
  <2>. QED  BY <2>2 DEF PathInv, Strict, Valid, Kept0, ValidHeader, ValidRange
<1>. QED  BY <1>1, PathInvariant, PTL

-----------------------------------------------------------------------------
(* The refinement of AtomicQuery.                                          *)

mappedLast == IF pc = "content"
              THEN [query |-> query, verdict |-> Worth, result |-> ContentResult]
              ELSE last

LEMMA InitRefines == Init => Atomic!Init
<1>. SUFFICES ASSUME Init PROVE Atomic!Init
  OBVIOUS
<1>1. last = Atomic!Called(query, "noMemory")
  BY DEF Init, Atomic!Called, ResultOf, Atomic!ResultOf
<1>. QED  BY <1>1 DEF Init, Atomic!Init, Kept, Atomic!Kept

\* A call that has ended in v, for AtomicQuery: the shapes and verdicts of both
\* modules are the same.
LEMMA CallRefines ==
  ASSUME NEW q \in Queries, NEW v \in VerdictsOf(q),
         mappedLast' = [query |-> q, verdict |-> v, result |-> ResultOf(q, v)],
         memory' = IF Stores(q, v) THEN [memory EXCEPT ![q.keeps] = v] ELSE memory
  PROVE  Atomic!Next
<1>1. Atomic!Call(q, v)
  BY DEF Atomic!Call, Atomic!Called, Atomic!ResultOf, Atomic!Stores, ResultOf, Stores,
         mappedLast
<1>. QED  BY <1>1 DEF Atomic!Next, Atomic!VerdictsOf, Atomic!Verdicts, VerdictsOf, Verdicts

LEMMA StepRefines ==
  PathInv /\ PathInv' /\ [Next]_vars => [Atomic!Next]_<<mappedLast, memory>>
<1>. SUFFICES ASSUME PathInv, PathInv', [Next]_vars
              PROVE  Atomic!Next \/ UNCHANGED <<mappedLast, memory>>
  OBVIOUS
<1>. query \in Queries /\ query' \in Queries
  BY DEF PathInv, TypeOK
<1>1. CASE Allocate
  BY <1>1, CallRefines DEF Allocate, Decide, mappedLast, VerdictsOf, Verdicts, ResultOf, Stores
<1>2. CASE Prompt
  BY <1>2, CallRefines
     DEF Prompt, Decide, mappedLast, VerdictsOf, Verdicts, ResultOf, Stores, PathInv
<1>3. CASE Ioctl
  BY <1>3, CallRefines DEF Ioctl, Decide, mappedLast, VerdictsOf, Verdicts, ResultOf, Stores
<1>4. CASE CheckHeader \/ CheckRange
  BY <1>4, CallRefines DEF CheckHeader, CheckRange, Pass, Reject, Decide, mappedLast,
     VerdictsOf, Verdicts, ResultOf, Stores, ValidHeader, ValidRange
<1>5. CASE Copy
  <2>1. Worth \in VerdictsOf(query) /\ ContentResult = ResultOf(query, Worth)
    BY DEF Worth, VerdictsOf, Verdicts, ContentResult, ResultOf
  <2>2. memory' = IF Stores(query, Worth) THEN [memory EXCEPT ![query.keeps] = Worth] ELSE memory
    BY <1>5 DEF Copy, Stores, Worth
  <2>3. mappedLast' = [query |-> query, verdict |-> Worth, result |-> ContentResult]
    BY <1>5 DEF Copy, mappedLast, Worth, ContentResult
  <2>. QED  BY <2>1, <2>2, <2>3, CallRefines
<1>6. CASE CheckContent
  BY <1>6 DEF CheckContent, Decide, mappedLast
<1>7. CASE Free
  BY <1>7 DEF Free, mappedLast
<1>8. CASE UNCHANGED vars
  BY <1>8 DEF vars, mappedLast, Worth, ContentResult
<1>. QED  BY <1>1, <1>2, <1>3, <1>4, <1>5, <1>6, <1>7, <1>8 DEF Next

\* The steps of a call amount to one step of AtomicQuery.
THEOREM CallIsAtomic == Spec => ImplementsAtomic
<1>1. PathInv /\ PathInv' /\ [Next]_vars => [Atomic!Next]_(Atomic!aqVars)
  BY StepRefines DEF Atomic!aqVars, mappedLast
<1>. QED  BY <1>1, InitRefines, PathInvariant, PTL DEF Spec, ImplementsAtomic, Atomic!Spec
=============================================================================
