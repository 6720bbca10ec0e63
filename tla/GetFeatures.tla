----------------------------- MODULE GetFeatures -----------------------------
(***************************************************************************)
(* The functions behind Get Features.  Each one asks the drive for the     *)
(* current, the default and the saved value of a feature and for its       *)
(* capabilities, in four requests of which any can fail; Temperature       *)
(* Threshold does so for both thresholds of every sensor.  The values are  *)
(* shown when all are there, section by section or one by one, and another *)
(* process may set the feature in between.  A value is modelled by where it*)
(* was read: for which section, as which of the four, and at which moment. *)
(***************************************************************************)
EXTENDS Integers

CONSTANTS
  MaxSensor, \* the sensors of the SMART log, 8 in the code
  MaxChanges \* bound on the changes of the feature by others

ASSUME MaxSensorAssumption == MaxSensor \in Nat
ASSUME MaxChangesAssumption == MaxChanges \in Nat

\* shows:  when the values are printed: "together" at the end of the report,
\*         "sections" when those of a section are there, "singly" each at once
\* copies: whether the function copies the reply to the caller's variable
\* tests:  whether the function itself tests a bit of g_stController
Feature(fid, shows) ==
  [fid |-> fid, shows |-> shows, copies |-> TRUE, tests |-> FALSE]

Arbitration == Feature(1, "together")
PowerManagement == Feature(2, "together")
LBARange == Feature(3, "singly")
TemperatureThreshold == Feature(4, "sections")
ErrorRecovery == Feature(5, "together")
VolatileWriteCache == Feature(6, "together")
NumberOfQueues == Feature(7, "together")
InterruptCoalescing == Feature(8, "together")
WriteAtomicityNormal == Feature(10, "together")
AsynchronousEventConfiguration == Feature(11, "together")
APST == Feature(12, "together")
HMB == Feature(13, "singly")
Timestamp == [Feature(14, "together") EXCEPT !.copies = FALSE]
HCTM == Feature(16, "together")
NOPPME == [Feature(17, "together") EXCEPT !.tests = TRUE]
SoftwareProgressMarker == Feature(128, "together")

Features ==
  {Arbitration, PowerManagement, LBARange, TemperatureThreshold, ErrorRecovery,
   VolatileWriteCache, NumberOfQueues, InterruptCoalescing, WriteAtomicityNormal,
   AsynchronousEventConfiguration, APST, HMB, Timestamp, HCTM, NOPPME,
   SoftwareProgressMarker}

Current == 1
Saved == 3
Capabilities == 4
Selects == Current .. Capabilities
NotRead == [section |-> -1, select |-> 0, moment |-> -1]

VARIABLES
  pc,       \* "read" inside a function, "idle" outside
  feature,  \* the function that runs, or ran last
  sensors,  \* the sensors with a temperature in g_stSMARTLog
  section,  \* threshold 2n is over and 2n + 1 is under, of sensor n
  select,   \* the request it is at: ulCurrentData, ..., ulSupportedCapabilities
  values,   \* the four variables
  shown,    \* what was printed: the heading, and the value under it
  result,   \* result or iResult
  \* the drive, and history
  moment,   \* how often the feature was changed
  began     \* the moment the function was called

locals == <<feature, sensors, section, select, values, shown, result, began>>
vars == <<pc, locals, moment>>

Init ==
  /\ pc = "idle" /\ feature \in Features /\ sensors = {}
  /\ section = 0 /\ select = Current
  /\ values = [s \in Selects |-> NotRead]
  /\ shown = {} /\ result = -1
  /\ moment = 0 /\ began = 0

Sections ==
  IF feature = TemperatureThreshold
  THEN {0, 1} \cup {2 * n : n \in sensors} \cup {2 * n + 1 : n \in sensors}
  ELSE {0}

\* "return result" with the false it was initialized with.
Ignored == feature'.tests /\ pc' = "idle" /\ result' = 0

Call ==
  /\ pc = "idle"
  /\ feature' \in Features /\ sensors' \in SUBSET (1 .. MaxSensor)
  /\ section' = 0 /\ select' = Current
  /\ values' = [s \in Selects |-> NotRead]
  /\ shown' = {} /\ began' = moment
  /\ Ignored \/ (pc' = "read" /\ result' = -1)
  /\ UNCHANGED moment

-----------------------------------------------------------------------------
(* One request.                                                            *)

\* The threshold in cdw11.  The capabilities of the second section are asked
\* for with a 0.
AskedFor == IF section = 1 /\ select = Capabilities THEN 0 ELSE section

\* What a request leaves in the variable it was given.
Stored ==
  IF feature.copies \/ select = Capabilities
  THEN [section |-> AskedFor, select |-> select, moment |-> moment]
  ELSE [NotRead EXCEPT !.select = select]

\* Variant: the values of a report are printed as they come.
DueAtOnce == {select}

\* The values that are printed after the request.
Due ==
  CASE feature.shows = "singly" -> {select}
    [] feature.shows = "sections" /\ select = Saved -> Current .. Saved
    [] feature.shows = "together" /\ select = Capabilities -> Selects
    [] feature.shows = "sections" /\ select = Capabilities -> {Capabilities}
    [] OTHER -> {}

Show == shown' = shown \cup
  {[section |-> section, select |-> s, value |-> values'[s]] : s \in Due}

\* Variant: the loop over the sensors stops before the last one.
LaterSectionsShort == {s \in Sections : s > section /\ s < 2 * MaxSensor}

LaterSections == {s \in Sections : s > section}

\* Variant: one request too many.
ContinueTooFar ==
  \/ /\ select <= Capabilities
     /\ select' = select + 1 /\ UNCHANGED <<pc, section>>
  \/ /\ select > Capabilities
     /\ pc' = "idle" /\ UNCHANGED <<section, select>>

Continue ==
  \/ /\ select < Capabilities
     /\ select' = select + 1 /\ UNCHANGED <<pc, section>>
  \/ /\ select = Capabilities
     /\ \E s \in LaterSections : section' = s /\ \A t \in LaterSections : s <= t
     /\ select' = Current /\ UNCHANGED pc
  \/ /\ select = Capabilities /\ LaterSections = {}
     /\ pc' = "idle" /\ UNCHANGED <<section, select>>

\* Every function: the request succeeds, its value is stored and shown.
ReadValue ==
  /\ pc = "read"
  /\ values' = [values EXCEPT ![select] = Stored]
  /\ result' = 0
  /\ Show /\ Continue
  /\ UNCHANGED <<feature, sensors, moment, began>>

\* Variant: the result of a request is not looked at.
ReadFailsOn ==
  /\ pc = "read"
  /\ result' = -1 /\ UNCHANGED values
  /\ Show /\ Continue
  /\ UNCHANGED <<feature, sensors, moment, began>>

\* No memory, the request failed, or its header is not valid: "return result".
ReadFails ==
  /\ pc = "read"
  /\ result' = -1 /\ pc' = "idle"
  /\ UNCHANGED <<feature, sensors, section, select, values, shown, moment, began>>

\* Another process sets the feature, or the controller is reset.
Change ==
  /\ moment < MaxChanges
  /\ moment' = moment + 1
  /\ UNCHANGED <<pc, locals>>

Next == Call \/ ReadValue \/ ReadFails \/ Change

Spec == Init /\ [][Next]_vars

-----------------------------------------------------------------------------
(* Properties.                                                             *)

Reads == [section: -1 .. 2 * MaxSensor + 1, select: 0 .. Capabilities,
          moment: -1 .. MaxChanges]

\* Every variable has its type; the section is one of the feature.
TypeOK ==
  /\ pc \in {"idle", "read"} /\ feature \in Features
  /\ sensors \subseteq 1 .. MaxSensor
  /\ section \in Sections /\ select \in Selects
  /\ values \in [Selects -> Reads]
  /\ shown \subseteq [section: Sections, select: Selects, value: Reads]
  /\ result \in {-1, 0}
  /\ moment \in 0 .. MaxChanges /\ began \in 0 .. moment

OwnValue(x) ==
  /\ x.value.select = x.select
  /\ x.select # Capabilities => x.value.section = x.section
  /\ began <= x.value.moment /\ x.value.moment <= moment

\* What is printed under a heading was read by this call, as the value and for
\* the threshold the heading names: not a left-over of an earlier sensor, nor
\* a variable no request has filled.  So a report that mixes two moments was
\* overtaken by a change.  Timestamp is the exception: it prints a local variable
\* that no request has filled.
ShownAsRead == feature # Timestamp => \A x \in shown : OwnValue(x)

\* A function that returns 0 has printed four values for every section of its
\* feature, or is NOPPME without the capability: then it has printed nothing.
CompleteOnSuccess ==
  pc = "idle" /\ result = 0 =>
    \/ {<<x.section, x.select>> : x \in shown} = Sections \X Selects
    \/ feature.tests /\ shown = {}

\* A failure in the middle of a report leaves nothing printed, unless the
\* function prints as it goes; then it has printed only what came before.
NothingOnFailure ==
  pc = "idle" /\ result = -1 =>
    \A x \in shown :
      /\ feature.shows # "together"
      /\ x.section < section \/ (x.section = section /\ x.select < select)
=============================================================================
