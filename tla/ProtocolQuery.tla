---------------------------- MODULE ProtocolQuery ----------------------------
(***************************************************************************)
(* The functions that read a data structure of the drive, step by step:    *)
(* buffer, prompt, request, validation, use, release.  One is called after *)
(* the other, with any answer of the driver; what remains from one call to *)
(* the next are the globals and the memory that was not freed.             *)
(***************************************************************************)
EXTENDS QueryShapes, FiniteSets

CONSTANTS
  Queries,  \* the functions that are called
  MaxLeaked \* bound on the buffers that are lost

ASSUME QueriesAssumption == Queries \subseteq AllQueries /\ Queries # {}
ASSUME MaxLeakedAssumption == MaxLeaked \in Nat

VARIABLES
  pc,       \* the next step of the call
  query,    \* the function that is running, or ran last
  reply,    \* the answer of the driver in the buffer
  iResult,  \* the local of that name
  buffers,  \* buffers allocated and not freed
  memory,   \* per global, what it was filled with
  \* history
  declined, \* prompts that were not answered with y
  last      \* the last call that was decided

vars == <<pc, query, reply, iResult, buffers, memory, declined, last>>

NoReply == [header |-> FALSE, offset |-> "exact", length |-> "none", content |-> FALSE]

Init ==
  /\ pc = "idle" /\ query \in Queries
  /\ reply = NoReply /\ iResult = -1
  /\ buffers = 0 /\ declined = 0
  /\ memory = [g \in Kept |-> "none"]
  /\ last = [query |-> query, verdict |-> "noMemory", result |-> -1]

Decide(v, result) ==
  iResult' = result /\ last' = [query |-> query', verdict |-> v, result |-> result]

\* iResult = -1, then malloc.
Allocate ==
  /\ pc = "idle"
  /\ buffers < MaxLeaked + 1
  /\ query' \in Queries
  /\ reply' = NoReply
  /\ \/ /\ pc' = IF query'.asks THEN "prompt" ELSE "ioctl"
        /\ iResult' = -1 /\ buffers' = buffers + 1
        /\ UNCHANGED last
     \/ /\ pc' = "idle"
        /\ Decide("noMemory", -1)
        /\ UNCHANGED buffers
  /\ UNCHANGED <<memory, declined>>

\* Variant: the prompt frees the buffer and then leaves by error_exit.
PromptFrees ==
  /\ pc = "prompt"
  /\ UNCHANGED <<query, reply, memory>>
  /\ \/ pc' = "ioctl" /\ UNCHANGED <<iResult, buffers, declined, last>>
     \/ /\ pc' = "error_exit" /\ Decide("declined", iResult)
        /\ buffers' = buffers - 1 /\ UNCHANGED declined

\* A function that asks returns here without going through its error_exit.
Prompt ==
  /\ pc = "prompt"
  /\ UNCHANGED <<query, reply, buffers, memory>>
  /\ \/ pc' = "ioctl" /\ UNCHANGED <<iResult, declined, last>>
     \/ pc' = "idle" /\ Decide("declined", iResult) /\ declined' = declined + 1

\* iIssueDeviceIoControl returns 0 or -1.
Ioctl ==
  /\ pc = "ioctl"
  /\ UNCHANGED <<query, buffers, memory, declined>>
  /\ \/ /\ reply' \in Replies
        /\ iResult' = 0 /\ pc' = "header" /\ UNCHANGED last
     \/ /\ pc' = "error_exit" /\ Decide("ioctlFailed", -1)
        /\ UNCHANGED reply

\* The log pages set iResult to -1 before they jump, Identify leaves the 0.
Reject == pc' = "error_exit" /\ Decide("rejected", query.invalid)
Pass(label) == pc' = label /\ UNCHANGED <<iResult, last>>

CheckHeader ==
  /\ pc = "header"
  /\ UNCHANGED <<query, reply, buffers, memory, declined>>
  /\ IF ValidHeader(query, reply) THEN Pass("range") ELSE Reject

\* Variant: the check of the range is forgotten.
CheckRangeNever ==
  /\ pc = "range"
  /\ Pass("copy")
  /\ UNCHANGED <<query, reply, buffers, memory, declined>>

CheckRange ==
  /\ pc = "range"
  /\ UNCHANGED <<query, reply, buffers, memory, declined>>
  /\ IF ValidRange(query, reply) THEN Pass("copy") ELSE Reject

\* What the data are worth once they have been copied.
Worth == IF query.content /\ ~reply.content THEN "badContent" ELSE "accepted"

\* Variant: the data are copied after they have been looked at.
CopyGenuine ==
  /\ pc = "copy"
  /\ memory' = IF query.keeps # "none" /\ Worth = "accepted"
               THEN [memory EXCEPT ![query.keeps] = Worth] ELSE memory
  /\ pc' = "content"
  /\ UNCHANGED <<query, reply, iResult, buffers, declined, last>>

Copy ==
  /\ pc = "copy"
  /\ memory' = IF query.keeps # "none"
               THEN [memory EXCEPT ![query.keeps] = Worth] ELSE memory
  /\ pc' = "content"
  /\ UNCHANGED <<query, reply, iResult, buffers, declined, last>>

ContentResult == IF Worth = "accepted" THEN 0 ELSE -1

\* VID and NN of the controller data; then iResult = 0.
CheckContent ==
  /\ pc = "content"
  /\ pc' = "error_exit"
  /\ UNCHANGED <<query, reply, buffers, memory, declined>>
  /\ Decide(Worth, ContentResult)

\* Variant: a failed call does not come by.
FreeOnSuccess ==
  /\ pc = "error_exit"
  /\ buffers' = IF iResult = 0 THEN buffers - 1 ELSE buffers
  /\ pc' = "idle"
  /\ UNCHANGED <<query, reply, iResult, memory, declined, last>>

Free ==
  /\ pc = "error_exit"
  /\ buffers' = buffers - 1
  /\ pc' = "idle"
  /\ UNCHANGED <<query, reply, iResult, memory, declined, last>>

Next == Allocate \/ Prompt \/ Ioctl \/ CheckHeader \/ CheckRange
        \/ Copy \/ CheckContent \/ Free

Spec == Init /\ [][Next]_vars

-----------------------------------------------------------------------------
(* Properties.                                                             *)

\* Every variable has its type; one buffer is in use during a call.
TypeOK ==
  /\ pc \in {"idle", "prompt", "ioctl", "header", "range", "copy", "content", "error_exit"}
  /\ query \in Queries
  /\ reply \in Replies
  /\ iResult \in {-1, 0}
  /\ buffers \in 0 .. MaxLeaked + 1
  /\ declined \in 0 .. MaxLeaked + 1
  /\ memory \in [Kept -> {"none", "badContent", "accepted"}]
  /\ last \in [query: Queries, verdict: Verdicts, result: {-1, 0}]

\* Buffers are lost exactly by the calls that returned from their prompt: no
\* other way out of a function leaves memory behind.
LostOnlyByDecline ==
  buffers = declined + (IF pc = "idle" THEN 0 ELSE 1)

\* A log page function that returns 0 has shown data of a valid reply, and the
\* structure it copied to its global is the whole one.
SuccessMeansData ==
  pc = "idle" /\ iResult = 0 /\ query \in LogPageQueries \cup {IdentifyController}
    => /\ reply.header /\ ValidRange(query, reply) /\ reply.length # "none"
       /\ query.keeps # "none" => memory[query.keeps] = "accepted"

\* The steps of a call amount to one step of AtomicQuery: from the copy on, the
\* rest of the call is decided.
Atomic == INSTANCE AtomicQuery
  WITH last <- IF pc = "content"
               THEN [query |-> query, verdict |-> Worth, result |-> ContentResult]
               ELSE last
ImplementsAtomic == Atomic!Spec
=============================================================================
