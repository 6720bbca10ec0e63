-------------------------- MODULE GetFeaturesProofs --------------------------
(***************************************************************************)
(* Proofs about GetFeatures, for any number of sensors: what is printed    *)
(* under a heading was read for it, a failure prints nothing it has not    *)
(* read, and a success has printed everything.                             *)
(***************************************************************************)
EXTENDS GetFeatures, TLAPS

\* The variables that come before the request in progress hold values of this
\* call and of this section.
ValuesRead ==
  pc = "read" /\ feature # Timestamp =>
    \A s \in Selects : s < select =>
      OwnValue([section |-> section, select |-> s, value |-> values[s]])

\* What has been printed while a function runs came before the request in
\* progress; a report that is printed at its end has not been printed.
ShownBefore ==
  pc = "read" =>
    \A x \in shown :
      /\ feature.shows # "together"
      /\ x.section < section \/ (x.section = section /\ x.select < select)

IInv == TypeOK /\ ValuesRead /\ ShownBefore /\ ShownAsRead /\ NothingOnFailure

-----------------------------------------------------------------------------
\* The sections are numbers, and the first one is always there.
LEMMA SectionsAreNumbers ==
  ASSUME sensors \subseteq 1 .. MaxSensor
  PROVE  Sections \subseteq 0 .. 2 * MaxSensor + 1 /\ 0 \in Sections
BY MaxSensorAssumption DEF Sections

\* A report printed at its end has one section.
LEMMA TogetherIsOneSection ==
  ASSUME feature.shows = "together", section \in Sections
  PROVE  section = 0 /\ LaterSections = {}
<1>1. feature # TemperatureThreshold
  BY DEF TemperatureThreshold, Feature
<1>. QED  BY <1>1 DEF Sections, LaterSections

\* What is printed after a request has been read by then: the request itself or
\* what came before.
LEMMA DueIsRead ==
  ASSUME select \in Selects
  PROVE  /\ Due \subseteq Selects
         /\ \A s \in Due : s <= select
         /\ feature.shows = "together" /\ Due # {} => select = Capabilities
BY DEF Due, Selects, Current, Saved, Capabilities

\* The three ways to go on after a request.
LEMMA ContinueCases ==
  ASSUME TypeOK, pc = "read", Continue
  PROVE  /\ pc' \in {"idle", "read"} /\ section' \in Sections /\ select' \in Selects
         /\ pc' = "read" => \/ section' = section /\ select' = select + 1
                            \/ section < section' /\ select' = Current
         /\ pc' = "read" /\ feature.shows = "together" => select # Capabilities
<1>. USE DEF TypeOK, Continue, Selects, Current, Capabilities
<1>1. CASE select < Capabilities
  BY <1>1
<1>2. CASE select = Capabilities /\ pc' = "idle"
  BY <1>2
<1>3. CASE /\ select = Capabilities /\ pc' = pc /\ select' = Current
           /\ section' \in LaterSections
  <2>1. section' \in Sections /\ section < section'
    BY <1>3 DEF LaterSections
  <2>2. feature.shows # "together"
    BY <1>3, TogetherIsOneSection
  <2>. QED  BY <1>3, <2>1, <2>2
<1>. QED  BY <1>1, <1>2, <1>3

\* What a request stores belongs to the section and the request in progress.
LEMMA StoredIsOwn ==
  ASSUME TypeOK, pc = "read"
  PROVE  /\ Stored \in Reads
         /\ feature # Timestamp =>
              OwnValue([section |-> section, select |-> select, value |-> Stored])
<1>1. section \in 0 .. 2 * MaxSensor + 1
  BY SectionsAreNumbers DEF TypeOK
<1>2. /\ AskedFor \in 0 .. 2 * MaxSensor + 1
      /\ select # Capabilities => AskedFor = section
  BY <1>1, MaxSensorAssumption DEF AskedFor, Capabilities
<1>3. moment \in 0 .. MaxChanges /\ began \in 0 .. moment /\ select \in 1 .. 4
  BY DEF TypeOK, Selects, Current, Capabilities
<1>4. Stored \in Reads
  BY <1>2, <1>3, MaxChangesAssumption, MaxSensorAssumption
     DEF Stored, Reads, NotRead, Capabilities
<1>5. ASSUME feature # Timestamp
      PROVE  OwnValue([section |-> section, select |-> select, value |-> Stored])
  <2>1. feature.copies
    BY <1>5 DEF TypeOK, Features, Arbitration, PowerManagement, LBARange,
       TemperatureThreshold, ErrorRecovery, VolatileWriteCache, NumberOfQueues,
       InterruptCoalescing, WriteAtomicityNormal, AsynchronousEventConfiguration,
       APST, HMB, HCTM, NOPPME, SoftwareProgressMarker, Feature
  <2>2. Stored = [section |-> AskedFor, select |-> select, moment |-> moment]
    BY <2>1 DEF Stored
  <2>. QED  BY <1>2, <1>3, <2>2 DEF OwnValue
<1>. QED  BY <1>4, <1>5

-----------------------------------------------------------------------------
LEMMA InitIInv == Init => IInv
BY SectionsAreNumbers, MaxChangesAssumption, MaxSensorAssumption
   DEF Init, IInv, TypeOK, ValuesRead, ShownBefore, ShownAsRead, NothingOnFailure,
       Selects, Current, Capabilities, NotRead, Reads

LEMMA NextIInv == IInv /\ [Next]_vars => IInv'
<1>. SUFFICES ASSUME IInv, [Next]_vars PROVE IInv'
  OBVIOUS
<1>. USE MaxChangesAssumption, MaxSensorAssumption DEF IInv
<1>1. CASE Call
  <2>. USE <1>1 DEF Call, Ignored, Selects, Current, Capabilities, NotRead
  <2>1. (0 \in Sections)'
    BY DEF Sections
  <2>2. values' \in [Selects -> Reads]
    BY DEF Reads
  <2>3. TypeOK'
    BY <2>1, <2>2 DEF TypeOK, Reads
  <2>. QED  BY <2>3 DEF ValuesRead, ShownBefore, ShownAsRead, NothingOnFailure
<1>2. CASE ReadValue
  <2>. USE <1>2 DEF ReadValue
  <2>0. Sections' = Sections /\ TypeOK
    BY DEF Sections
  <2>1. /\ pc' \in {"idle", "read"} /\ section' \in Sections /\ select' \in Selects
        /\ pc' = "read" => \/ section' = section /\ select' = select + 1
                           \/ section < section' /\ select' = Current
        /\ pc' = "read" /\ feature.shows = "together" => select # Capabilities
    BY <2>0, ContinueCases
  <2>2. /\ Stored \in Reads
        /\ feature # Timestamp =>
             OwnValue([section |-> section, select |-> select, value |-> Stored])
    BY <2>0, StoredIsOwn
  <2>3. /\ Due \subseteq Selects
        /\ \A s \in Due : s <= select
        /\ feature.shows = "together" /\ Due # {} => select = Capabilities
    BY <2>0, DueIsRead DEF TypeOK
  <2>4. values' \in [Selects -> Reads] /\ values'[select] = Stored
    BY <2>0, <2>2 DEF TypeOK
  <2>5. \A x \in shown' \ shown : \E s \in Due :
          x = [section |-> section, select |-> s, value |-> values'[s]]
    BY DEF Show
  <2>6. TypeOK'
    <3>1. shown' \subseteq [section: Sections, select: Selects, value: Reads]
      BY <2>0, <2>3, <2>4, <2>5 DEF TypeOK
    <3>. QED  BY <2>0, <2>1, <2>4, <3>1 DEF TypeOK
  <2>7. ASSUME feature # Timestamp, NEW s \in Selects, s <= select
        PROVE  OwnValue([section |-> section, select |-> s, value |-> values'[s]])
    <3>1. CASE s = select
      BY <3>1, <2>2, <2>4, <2>7 DEF OwnValue
    <3>2. CASE s # select
      BY <3>2, <2>7, <2>0 DEF ValuesRead, TypeOK, Selects, Current, Capabilities
    <3>. QED  BY <3>1, <3>2
  <2>8. ValuesRead'
    BY <2>0, <2>1, <2>7 DEF ValuesRead, OwnValue, TypeOK, Selects, Current, Capabilities
  <2>9. ShownAsRead'
    BY <2>3, <2>5, <2>7 DEF ShownAsRead, OwnValue
  <2>10. NothingOnFailure'
    BY DEF NothingOnFailure
  <2>11. ASSUME pc' = "read", NEW x \in shown'
         PROVE  /\ feature.shows # "together"
                /\ x.section < section' \/ (x.section = section' /\ x.select < select')
    <3>1. section \in Int /\ section' \in Int /\ select \in Int
      BY <2>0, <2>1, SectionsAreNumbers, SMT DEF TypeOK, Selects, Current, Capabilities
    <3>2. CASE x \in shown
      <4>1. x.section \in Int /\ x.select \in Int
        BY <2>0, <3>2, SectionsAreNumbers DEF TypeOK, Selects, Current, Capabilities
      <4>2. /\ feature.shows # "together"
            /\ x.section < section \/ (x.section = section /\ x.select < select)
        BY <3>2 DEF ShownBefore
      <4>. QED  BY <2>1, <2>11, <3>1, <4>1, <4>2
    <3>3. CASE x \notin shown
      <4>1. PICK s \in Due : x = [section |-> section, select |-> s, value |-> values'[s]]
        BY <2>5, <2>11, <3>3
      <4>2. s \in Int /\ s <= select
        BY <2>3 DEF Selects, Current, Capabilities
      <4>3. feature.shows # "together"
        BY <2>1, <2>3, <2>11
      <4>4. x.section = section /\ x.select = s
        BY <4>1
      <4>. QED  BY <2>1, <2>11, <3>1, <4>2, <4>3, <4>4
    <3>. QED  BY <3>2, <3>3
  <2>12. ShownBefore'
    BY <2>11 DEF ShownBefore
  <2>. QED  BY <2>6, <2>8, <2>9, <2>10, <2>12
<1>3. CASE ReadFails
  BY <1>3 DEF ReadFails, TypeOK, Sections, ValuesRead, ShownBefore, ShownAsRead,
     OwnValue, NothingOnFailure
<1>4. CASE Change
  <2>. USE <1>4 DEF Change, locals, TypeOK
  <2>1. TypeOK'
    BY DEF Sections
  <2>2. \A x : OwnValue(x) /\ x.value.moment \in Int => OwnValue(x)'
    BY DEF OwnValue
  <2>3. ValuesRead' /\ ShownAsRead'
    BY <2>2 DEF ValuesRead, ShownAsRead, Reads
  <2>. QED  BY <2>1, <2>3 DEF ShownBefore, NothingOnFailure
<1>5. CASE UNCHANGED vars
  BY <1>5 DEF vars, locals, TypeOK, Sections, ValuesRead, ShownBefore, ShownAsRead,
     OwnValue, NothingOnFailure
<1>. QED  BY <1>1, <1>2, <1>3, <1>4, <1>5 DEF Next

-----------------------------------------------------------------------------
\* Every variable has its type, and the section is one of the feature.
THEOREM TypeCorrect == Spec => []TypeOK
<1>1. IInv => TypeOK
  BY DEF IInv
<1>. QED  BY <1>1, InitIInv, NextIInv, PTL DEF Spec

\* Nothing is printed under a heading that was not read for it by this call.
THEOREM HeadingsAreRight == Spec => []ShownAsRead
<1>1. IInv => ShownAsRead
  BY DEF IInv
<1>. QED  BY <1>1, InitIInv, NextIInv, PTL DEF Spec

\* A failed request leaves on the screen only what was read before it.
THEOREM FailurePrintsNothing == Spec => []NothingOnFailure
<1>1. IInv => NothingOnFailure
  BY DEF IInv
<1>. QED  BY <1>1, InitIInv, NextIInv, PTL DEF Spec
-----------------------------------------------------------------------------
(* A success is complete.                                                  *)

Printed(lines, n, s) == \E x \in lines : x.section = n /\ x.select = s

\* What has been printed before the request in progress: every value of the
\* earlier sections, and of this one those that are not held back.
PrintedSoFar ==
  pc = "read" =>
    /\ \A n \in Sections, s \in Selects : n < section => Printed(shown, n, s)
    /\ feature.shows = "singly" \/ (feature.shows = "sections" /\ select = Capabilities) =>
         \A s \in Selects : s < select => Printed(shown, section, s)

Coverage == PrintedSoFar /\ CompleteOnSuccess

LEMMA ShowsFacts ==
  ASSUME feature \in Features
  PROVE  feature.shows \in {"together", "sections", "singly"}
BY DEF Features, Arbitration, PowerManagement, LBARange,
   TemperatureThreshold, ErrorRecovery, VolatileWriteCache, NumberOfQueues,
   InterruptCoalescing, WriteAtomicityNormal, AsynchronousEventConfiguration,
   APST, HMB, Timestamp, HCTM, NOPPME, SoftwareProgressMarker, Feature

LEMMA InitCoverage == Init => Coverage
BY DEF Init, Coverage, PrintedSoFar, CompleteOnSuccess

\* A request prints what is due and takes nothing back.
LEMMA ShowFacts ==
  ASSUME Show
  PROVE  /\ \A n, s : Printed(shown, n, s) => Printed(shown', n, s)
         /\ \A s \in Due : Printed(shown', section, s)
<1>1. shown \subseteq shown'
  BY DEF Show
<1>2. ASSUME NEW s \in Due PROVE Printed(shown', section, s)
  <2>. DEFINE x == [section |-> section, select |-> s, value |-> values'[s]]
  <2>1. x \in shown'
    BY DEF Show
  <2>2. x.section = section /\ x.select = s
    OBVIOUS
  <2>. HIDE DEF x
  <2>. QED  BY <2>1, <2>2 DEF Printed
<1>. QED  BY <1>1, <1>2 DEF Printed

\* With its last request a section is printed in full.
LEMMA SectionIsPrinted ==
  ASSUME TypeOK, PrintedSoFar, pc = "read", Show, select = Capabilities
  PROVE  \A s \in Selects : Printed(shown', section, s)
<1>. USE DEF Due, Selects, Current, Saved, Capabilities
<1>1. feature.shows \in {"together", "sections", "singly"}
  BY ShowsFacts DEF TypeOK
<1>2. CASE feature.shows = "together"
  BY <1>2, ShowFacts
<1>3. CASE feature.shows \in {"sections", "singly"}
  <2>1. 4 \in Due
    BY <1>3
  <2>2. \A s \in 1 .. 3 : Printed(shown, section, s)
    BY <1>3 DEF PrintedSoFar
  <2>. QED  BY <2>1, <2>2, ShowFacts
<1>. QED  BY <1>1, <1>2, <1>3

LEMMA NextCoverage == TypeOK /\ TypeOK' /\ Coverage /\ [Next]_vars => Coverage'
<1>. SUFFICES ASSUME TypeOK, TypeOK', Coverage, [Next]_vars PROVE Coverage'
  OBVIOUS
<1>. USE DEF Coverage
<1>1. CASE Call
  <2>1. /\ section' = 0 /\ select' = 1 /\ shown' = {}
        /\ \/ pc' = "read" /\ result' = -1
           \/ pc' = "idle" /\ feature'.tests
    <3>1. Ignored \/ (pc' = "read" /\ result' = -1)
      BY <1>1 DEF Call
    <3>2. Ignored => pc' = "idle" /\ feature'.tests
      BY DEF Ignored
    <3>3. section' = 0 /\ select' = 1 /\ shown' = {}
      BY <1>1 DEF Call, Current
    <3>. QED  BY <3>1, <3>2, <3>3, Zenon
  <2>2. \A n \in Sections' : ~(n < 0)
    BY SectionsAreNumbers, MaxSensorAssumption DEF TypeOK, Sections
  <2>3. \A s \in Selects : ~(s < 1)
    BY DEF Selects, Current, Capabilities
  <2>. QED  BY <2>1, <2>2, <2>3 DEF PrintedSoFar, CompleteOnSuccess
<1>2. CASE ReadValue
  <2>0. /\ Sections' = Sections /\ feature' = feature /\ Show /\ Continue
        /\ pc = "read"
    BY <1>2 DEF ReadValue, Sections
  <2>1. section \in Int /\ Sections \subseteq Int /\ select \in 1 .. 4
    BY SectionsAreNumbers DEF TypeOK, Selects, Current, Capabilities
  <2>2. \A n \in Sections, s \in Selects : n < section => Printed(shown', n, s)
    BY <2>0, ShowFacts DEF PrintedSoFar
  <2>3. CASE select < Capabilities
    <3>1. pc' = "read" /\ section' = section /\ select' = select + 1
      BY <2>0, <2>1, <2>3 DEF Continue, Capabilities
    <3>2. ASSUME feature.shows = "singly" \/ (feature.shows = "sections" /\ select' = Capabilities),
                 NEW s \in Selects, s < select'
          PROVE  Printed(shown', section, s)
      <4>1. CASE feature.shows = "singly"
        <5>1. CASE s = select
          BY <4>1, <5>1, <2>0, ShowFacts DEF Due
        <5>2. CASE s < select
          BY <4>1, <5>2, <2>0, ShowFacts DEF PrintedSoFar
        <5>. QED  BY <2>1, <3>1, <3>2, <5>1, <5>2 DEF Selects, Current, Capabilities
      <4>2. CASE feature.shows = "sections" /\ select' = Capabilities
        <5>1. select = Saved /\ s \in Current .. Saved
          BY <2>1, <3>1, <3>2, <4>2 DEF Selects, Current, Saved, Capabilities
        <5>2. s \in Due
          BY <4>2, <5>1 DEF Due, Saved, Capabilities
        <5>. QED  BY <2>0, <5>2, ShowFacts
      <4>. QED  BY <3>2, <4>1, <4>2
    <3>. QED  BY <2>0, <2>2, <3>1, <3>2 DEF PrintedSoFar, CompleteOnSuccess, Printed
  <2>4. CASE select = Capabilities /\ pc' = "read"
    <3>1. \A s \in Selects : Printed(shown', section, s)
      BY <2>0, <2>4, SectionIsPrinted
    <3>2. /\ section' \in LaterSections /\ select' = Current
          /\ \A n \in LaterSections : section' <= n
      BY <2>0, <2>4 DEF Continue, Capabilities
    <3>3. ASSUME NEW n \in Sections, n < section' PROVE n < section \/ n = section
      BY <2>1, <3>2, <3>3 DEF LaterSections
    <3>4. \A s \in Selects : ~(s < select')
      BY <3>2 DEF Selects, Current, Capabilities
    <3>. QED  BY <2>0, <2>2, <2>4, <3>1, <3>3, <3>4 DEF PrintedSoFar, CompleteOnSuccess
  <2>5. CASE select = Capabilities /\ pc' = "idle"
    <3>1. \A s \in Selects : Printed(shown', section, s)
      BY <2>0, <2>5, SectionIsPrinted
    <3>2. LaterSections = {}
      BY <2>0, <2>5 DEF Continue
    <3>3. \A n \in Sections : n < section \/ n = section
      BY <2>1, <3>2 DEF LaterSections
    <3>4. \A n \in Sections, s \in Selects : Printed(shown', n, s)
      BY <2>2, <3>1, <3>3
    <3>5. {<<x.section, x.select>> : x \in shown'} = Sections \X Selects
      <4>1. \A x \in shown' : x.section \in Sections /\ x.select \in Selects
        BY <2>0 DEF TypeOK, Selects
      <4>2. \A n \in Sections, s \in Selects :
              \E x \in shown' : x.section = n /\ x.select = s
        BY <3>4 DEF Printed
      <4>. QED  BY <4>1, <4>2
    <3>. QED  BY <2>0, <2>5, <3>5 DEF PrintedSoFar, CompleteOnSuccess, Selects
  <2>. QED  BY <2>0, <2>1, <2>3, <2>4, <2>5 DEF Continue, Capabilities
<1>3. CASE ReadFails
  BY <1>3 DEF ReadFails, PrintedSoFar, CompleteOnSuccess
<1>4. CASE UNCHANGED <<pc, feature, sensors, section, select, shown, result>>
  BY <1>4 DEF PrintedSoFar, CompleteOnSuccess, Printed, Sections
<1>5. CASE Change \/ UNCHANGED vars
  BY <1>4, <1>5 DEF Change, vars, locals
<1>. QED  BY <1>1, <1>2, <1>3, <1>5 DEF Next

\* A function that returns 0 has printed every value of every section, for any
\* number of sensors and whatever set of them has a temperature.
THEOREM SuccessIsComplete == Spec => []CompleteOnSuccess
<1>1. Coverage => CompleteOnSuccess
  BY DEF Coverage
<1>. QED  BY <1>1, InitCoverage, NextCoverage, TypeCorrect, PTL DEF Spec
=============================================================================
