------------------------- MODULE SessionReadsProofs -------------------------
(***************************************************************************)
(* Proofs about SessionReads, for any sensors, any values of ELPE and any  *)
(* number of changes: a copy of the version the drive still has is equal   *)
(* to what the drive has, so that what the tool says by a copy is wrong    *)
(* only of another version; and a session reads monotonically.             *)
(***************************************************************************)
EXTENDS SessionReads, TLAPS

-----------------------------------------------------------------------------
(* The inductive invariant.                                                *)

Values == Controllers \cup BOOLEAN \cup SUBSET Sensors
Versioned == [version: Int, value: Values]

\* What the commands leave alone of the copies.
Shaped == drive \in [Items -> Versioned] /\ copy \in [Items -> Versioned] /\ shown \in [Items -> Int]

\* Nothing is shown before it is copied, nor copied before it is on the drive.
Ordered ==
  \A i \in Items :
    /\ 0 <= drive[i].version
    /\ Nothing <= shown[i] /\ shown[i] <= copy[i].version
    /\ copy[i].version <= drive[i].version

\* A copy of the version on the drive is what the drive has, unless the reply was rejected.
Faithful ==
  \A i \in Items :
    copy[i].version = drive[i].version /\ (i = "controller" => trusted)
      => copy[i].value = drive[i].value

\* Everything but the namespace has been read at start-up.
Read ==
  /\ copy["SMART"].version >= 0 /\ copy["controller"].version >= 0
  /\ identified => copy["namespace"].version >= 0

Explained == ProtectionExplained /\ SensorsExplained /\ EntriesExplained

IInv == Shaped /\ Ordered /\ Faithful /\ Read /\ Explained

LEMMA ContentsAreValues ==
  ASSUME NEW i \in Items
  PROVE  Contents(i) \subseteq Values
BY DEF Contents, Values, Items

LEMMA InitIInv == Init => IInv
<1>. SUFFICES ASSUME Init PROVE IInv
  OBVIOUS
<1>1. PICK c \in Controllers, n \in BOOLEAN, s \in SUBSET Sensors :
        drive = [i \in Items |->
          [version |-> 0, value |-> CASE i = "controller" -> c [] i = "namespace" -> n [] i = "SMART" -> s]]
  BY DEF Init
<1>2. drive \in [Items -> Versioned] /\ Zeroed \in Versioned
  <2>1. c \in Values /\ n \in Values /\ s \in Values /\ FALSE \in Values
    BY DEF Values
  <2>3. ASSUME NEW i \in Items
        PROVE  (CASE i = "controller" -> c [] i = "namespace" -> n [] i = "SMART" -> s) \in Values
    BY <2>1 DEF Items
  <2>4. ASSUME NEW v \in Values, NEW k \in Int
        PROVE  [version |-> k, value |-> v] \in Versioned
    BY DEF Versioned
  <2>5. Zeroed \in Versioned
    <3>1. -1 \in Int
      OBVIOUS
    <3>. QED  BY <2>1, <2>4, <3>1, Zenon DEF Zeroed, Nothing
  <2>. DEFINE First(i) ==
               CASE i = "controller" -> c [] i = "namespace" -> n [] i = "SMART" -> s
  <2>6. drive = [i \in Items |-> [version |-> 0, value |-> First(i)]]
    BY <1>1
  <2>7. \A i \in Items : First(i) \in Values
    BY <2>3
  <2>. HIDE DEF First
  <2>8. ASSUME NEW i \in Items
        PROVE  [version |-> 0, value |-> First(i)] \in Versioned
    <3>1. 0 \in Int
      OBVIOUS
    <3>. QED  BY <2>4, <2>7, <3>1
  <2>. QED  BY <2>5, <2>6, <2>8
<1>3. \A i \in Items : drive[i].version = 0
  BY <1>1
<1>4. Shaped
  <2>1. copy = [drive EXCEPT !["namespace"] = Zeroed] /\ shown = [i \in Items |-> -1]
    BY DEF Init, AtStart, NothingShown, Nothing
  <2>2. shown \in [Items -> Int]
    BY <2>1
  <2>3. copy \in [Items -> Versioned]
    BY <1>2, <2>1, Zenon
  <2>. QED  BY <1>2, <2>2, <2>3 DEF Shaped
<1>5. /\ copy["namespace"] = Zeroed
      /\ \A i \in Items \ {"namespace"} : copy[i] = drive[i]
  BY <1>2 DEF Init, AtStart, Items
<1>6. Ordered /\ Faithful
  <2>1. \A i \in Items : shown[i] = -1
    BY DEF Init, NothingShown, Nothing
  <2>2. copy["namespace"].version = -1
    BY <1>5 DEF Zeroed, Nothing
  <2>3. \A i \in Items \ {"namespace"} : copy[i].version = 0 /\ copy[i].value = drive[i].value
    BY <1>3, <1>5
  <2>4. Ordered
    BY <1>3, <2>1, <2>2, <2>3 DEF Ordered, Nothing
  <2>5. Faithful
    BY <1>3, <2>2, <2>3 DEF Faithful
  <2>. QED  BY <2>4, <2>5
<1>7. Read
  BY <1>3, <1>5 DEF Init, Read, Items
<1>8. Explained
  BY DEF Init, Explained, ProtectionExplained, SensorsExplained, EntriesExplained,
     WrongOnlyIf, NothingSaid
<1>. QED  BY <1>4, <1>6, <1>7, <1>8 DEF IInv

\* A step that says nothing explains everything.
LEMMA Silent ==
  ASSUME said' = NothingSaid
  PROVE  Explained'
BY DEF Explained, ProtectionExplained, SensorsExplained, EntriesExplained, WrongOnlyIf, NothingSaid

\* A statement by a copy is wrong only if it is outdated or unread.
LEMMA Saying ==
  ASSUME IInv, NEW item \in Items, NEW right \in BOOLEAN, NEW unread \in BOOLEAN,
         NEW topic, said' = Statement(topic, right, item, unread),
         copy[item].version >= 0 \/ unread,
         item = "controller" /\ ~trusted => unread,
         copy[item].value = drive[item].value => right
  PROVE  ~said'.right => Outdated' \/ said'.unread
<1>1. /\ said'.right = right /\ said'.unread = unread
      /\ said'.from = copy[item].version /\ said'.now = drive[item].version
  BY DEF Statement
<1>2. copy[item].version \in Int /\ drive[item].version \in Int
  BY DEF IInv, Shaped, Versioned
<1>3. copy[item].version <= drive[item].version
  BY DEF IInv, Ordered
<1>4. CASE unread
  BY <1>1, <1>4
<1>5. CASE right
  BY <1>1, <1>5
<1>6. CASE ~unread /\ ~right
  <2>1. copy[item].version # drive[item].version
    BY <1>6 DEF IInv, Faithful
  <2>2. 0 <= said'.from /\ said'.from < said'.now
    BY <1>1, <1>2, <1>3, <1>6, <2>1
  <2>. QED  BY <2>2 DEF Outdated
<1>. QED  BY <1>4, <1>5, <1>6

\* A step that stores what the drive has, and prints the same.
LEMMA Storing ==
  ASSUME IInv, NEW item \in Items, copy' = [copy EXCEPT ![item] = drive[item]],
         UNCHANGED drive, item # "controller" => UNCHANGED trusted,
         item = "controller" => trusted',
         \/ UNCHANGED shown
         \/ shown' = [shown EXCEPT ![item] = drive[item].version],
         identified' => identified \/ item = "namespace"
  PROVE  Shaped' /\ Ordered' /\ Faithful' /\ Read'
<1>1. /\ copy'[item] = drive[item]
      /\ \A i \in Items \ {item} : copy'[i] = copy[i]
      /\ copy' \in [Items -> Versioned]
  BY DEF IInv, Shaped
<1>2. Shaped'
  <2>1. drive[item].version \in Int
    BY DEF IInv, Shaped, Versioned
  <2>. QED  BY <1>1, <2>1 DEF IInv, Shaped
<1>3. Ordered'
  <2>. SUFFICES ASSUME NEW i \in Items
       PROVE  /\ 0 <= drive[i].version
              /\ Nothing <= shown'[i] /\ shown'[i] <= copy'[i].version
              /\ copy'[i].version <= drive[i].version
    BY DEF Ordered
  <2>1. /\ 0 <= drive[i].version /\ copy[i].version <= drive[i].version
        /\ Nothing <= shown[i] /\ shown[i] <= copy[i].version
    BY DEF IInv, Ordered
  <2>2. /\ drive[i].version \in Int /\ copy[i].version \in Int /\ shown[i] \in Int
    BY DEF IInv, Shaped, Versioned
  <2>3. shown'[i] = shown[i] \/ (i = item /\ shown'[i] = drive[i].version)
    BY DEF IInv, Shaped
  <2>4. CASE i = item
    BY <1>1, <2>1, <2>2, <2>3, <2>4 DEF Nothing
  <2>5. CASE i # item
    BY <1>1, <2>1, <2>2, <2>3, <2>5
  <2>. QED  BY <2>4, <2>5
<1>4. Faithful'
  BY <1>1 DEF IInv, Faithful
<1>5. Read'
  <2>1. 0 <= drive[item].version /\ drive[item].version \in Int
    BY DEF IInv, Ordered, Shaped, Versioned
  <2>. QED  BY <1>1, <2>1 DEF IInv, Read, Items
<1>. QED  BY <1>2, <1>3, <1>4, <1>5

-----------------------------------------------------------------------------
(* The steps.                                                              *)

LEMMA RestartStep == IInv /\ Restart => IInv'
<1>. SUFFICES ASSUME IInv, Restart PROVE IInv'
  OBVIOUS
<1>1. /\ copy' = [drive EXCEPT !["namespace"] = Zeroed] /\ drive' = drive
      /\ shown' = [i \in Items |-> -1] /\ ~identified' /\ trusted'
  BY DEF Restart, AtStart, NothingShown, Nothing
<1>2. Zeroed.version = -1
  BY DEF Zeroed, Nothing
<1>3. Zeroed \in Versioned
  <2>1. -1 \in Int /\ FALSE \in Values
    BY DEF Values
  <2>. QED  BY <2>1, Zenon DEF Zeroed, Nothing, Versioned
<1>4. Shaped'
  <2>1. drive \in [Items -> Versioned]
    BY DEF IInv, Shaped
  <2>2. shown' \in [Items -> Int]
    BY <1>1
  <2>3. copy' \in [Items -> Versioned]
    BY <1>1, <1>3, <2>1, Zenon
  <2>. QED  BY <1>1, <2>1, <2>2, <2>3 DEF Shaped
<1>5. /\ copy'["namespace"] = Zeroed
      /\ \A i \in Items \ {"namespace"} : copy'[i] = drive[i]
  BY <1>1 DEF IInv, Shaped, Items
<1>6. \A i \in Items : drive[i].version \in Int /\ 0 <= drive[i].version
  BY DEF IInv, Shaped, Ordered, Versioned
<1>7. Ordered' /\ Faithful'
  BY <1>1, <1>2, <1>5, <1>6 DEF Ordered, Faithful, Nothing
<1>8. Read'
  BY <1>1, <1>5, <1>6 DEF Read, Items
<1>9. Explained'
  BY Silent DEF Restart
<1>. QED  BY <1>4, <1>7, <1>8, <1>9 DEF IInv

LEMMA ChangeStep ==
  ASSUME IInv, NEW item \in Items, Change(item)
  PROVE  IInv'
<1>1. PICK v \in Contents(item) :
        drive' = [drive EXCEPT ![item] = [version |-> drive[item].version + 1, value |-> v]]
  BY DEF Change, IInv, Shaped
<1>2. UNCHANGED <<copy, identified, trusted, shown>>
  BY DEF Change
<1>3. \A i \in Items : drive[i].version \in Int /\ copy[i].version \in Int
  BY DEF IInv, Shaped, Versioned
<1>4. /\ drive'[item] = [version |-> drive[item].version + 1, value |-> v]
      /\ \A i \in Items \ {item} : drive'[i] = drive[i]
  BY <1>1 DEF IInv, Shaped
<1>5. Shaped'
  <2>1. v \in Values
    BY ContentsAreValues
  <2>2. drive[item].version + 1 \in Int
    BY <1>3
  <2>3. [version |-> drive[item].version + 1, value |-> v] \in Versioned
    BY <2>1, <2>2 DEF Versioned
  <2>. QED  BY <1>1, <1>2, <2>3 DEF IInv, Shaped
<1>6. Ordered'
  BY <1>2, <1>3, <1>4 DEF IInv, Ordered
<1>7. Faithful'
  <2>. SUFFICES ASSUME NEW i \in Items,
                       copy[i].version = drive'[i].version, i = "controller" => trusted
       PROVE  copy[i].value = drive'[i].value
    BY <1>2 DEF Faithful
  <2>1. copy[i].version <= drive[i].version
    BY DEF IInv, Ordered
  <2>2. i # item
    BY <1>3, <1>4, <2>1
  <2>. QED  BY <1>4, <2>2 DEF IInv, Faithful
<1>8. Read'
  BY <1>2 DEF IInv, Read
<1>9. Explained'
  BY Silent DEF Change
<1>. QED  BY <1>5, <1>6, <1>7, <1>8, <1>9 DEF IInv

LEMMA IdentifyControllerStep == IInv /\ IdentifyController => IInv'
<1>. SUFFICES ASSUME IInv, IdentifyController PROVE IInv'
  OBVIOUS
<1>1. Explained'
  BY Silent DEF IdentifyController
<1>2. CASE Stores("controller") /\ trusted' /\ Prints("controller", drive["controller"].version)
  BY <1>1, <1>2, Storing DEF IdentifyController, Stores, Prints, IInv, Items
<1>3. CASE /\ \E c \in Controllers :
                copy' = [copy EXCEPT !["controller"] =
                           [version |-> drive["controller"].version, value |-> c]]
           /\ trusted' = FALSE /\ UNCHANGED shown
  <2>1. PICK c \in Controllers :
          copy' = [copy EXCEPT !["controller"] =
                     [version |-> drive["controller"].version, value |-> c]]
    BY <1>3
  <2>2. UNCHANGED <<drive, identified, shown>>
    BY <1>3 DEF IdentifyController
  <2>3. \A i \in Items : drive[i].version \in Int /\ copy[i].version \in Int /\ shown[i] \in Int
    BY DEF IInv, Shaped, Versioned
  <2>4. /\ copy'["controller"] = [version |-> drive["controller"].version, value |-> c]
        /\ \A i \in Items \ {"controller"} : copy'[i] = copy[i]
    BY <2>1 DEF IInv, Shaped, Items
  <2>5. Shaped'
    <3>1. c \in Values
      BY DEF Values
    <3>2. drive["controller"].version \in Int
      BY <2>3 DEF Items
    <3>3. [version |-> drive["controller"].version, value |-> c] \in Versioned
      BY <3>1, <3>2 DEF Versioned
    <3>. QED  BY <2>1, <2>2, <3>3 DEF IInv, Shaped
  <2>6. Ordered'
    BY <2>2, <2>3, <2>4 DEF IInv, Ordered
  <2>7. Faithful'
    BY <1>3, <2>2, <2>4 DEF IInv, Faithful
  <2>8. Read'
    BY <2>2, <2>3, <2>4 DEF IInv, Read, Ordered, Items
  <2>. QED  BY <1>1, <2>5, <2>6, <2>7, <2>8 DEF IInv
<1>. QED  BY <1>2, <1>3 DEF IdentifyController

\* A step that leaves the copies alone leaves their part of the invariant alone.
LEMMA Leaving ==
  ASSUME IInv, UNCHANGED <<drive, copy, identified, trusted>>,
         \/ UNCHANGED shown
         \/ \E item \in Items : shown' = [shown EXCEPT ![item] = copy[item].version]
  PROVE  Shaped' /\ Ordered' /\ Faithful' /\ Read'
<1>1. \A i \in Items : copy[i].version \in Int /\ shown[i] \in Int
  BY DEF IInv, Shaped, Versioned
<1>2. shown' \in [Items -> Int]
  BY <1>1 DEF IInv, Shaped
<1>3. \A i \in Items : shown'[i] \in {shown[i], copy[i].version}
  BY DEF IInv, Shaped
<1>4. Ordered'
  BY <1>1, <1>3 DEF IInv, Ordered, Nothing
<1>. QED  BY <1>2, <1>4 DEF IInv, Shaped, Faithful, Read

LEMMA IdentifyNamespaceStep == IInv /\ IdentifyNamespace => IInv'
<1>. SUFFICES ASSUME IInv, IdentifyNamespace PROVE IInv'
  OBVIOUS
<1>1. Explained'
  BY Silent DEF IdentifyNamespace
<1>2. CASE identified /\ Prints("namespace", copy["namespace"].version)
            /\ UNCHANGED <<copy, identified>>
  BY <1>1, <1>2, Leaving DEF IdentifyNamespace, Prints, IInv, Items
<1>3. CASE /\ ~identified /\ Stores("namespace") /\ identified' = TRUE
           /\ Prints("namespace", drive["namespace"].version)
  BY <1>1, <1>3, Storing DEF IdentifyNamespace, Stores, Prints, IInv, Items
<1>. QED  BY <1>2, <1>3 DEF IdentifyNamespace

LEMMA IOCSNamespaceStep == IInv /\ IOCSNamespace => IInv'
<1>. SUFFICES ASSUME IInv, IOCSNamespace PROVE IInv'
  OBVIOUS
<1>1. Explained'
  BY Silent DEF IOCSNamespace
<1>2. CASE UNCHANGED <<copy, identified>>
  BY <1>1, <1>2, Leaving DEF IOCSNamespace, IInv
<1>3. CASE ~identified /\ identified' = TRUE /\ Stores("namespace")
  BY <1>1, <1>3, Storing DEF IOCSNamespace, Stores, IInv, Items
<1>. QED  BY <1>2, <1>3 DEF IOCSNamespace

LEMMA GetSMARTStep == IInv /\ GetSMART => IInv'
<1>. SUFFICES ASSUME IInv, GetSMART PROVE IInv'
  OBVIOUS
<1>1. Explained'
  BY Silent DEF GetSMART
<1>. QED  BY <1>1, Storing DEF GetSMART, Stores, Prints, IInv, Items

LEMMA IOCSReplyStep == IInv /\ IOCSReply => IInv'
<1>. SUFFICES ASSUME IInv, IOCSReply PROVE IInv'
  OBVIOUS
<1>1. Shaped' /\ Ordered' /\ Faithful' /\ Read'
  BY Leaving DEF IOCSReply
<1>2. CASE said' = NothingSaid
  BY <1>1, <1>2, Silent DEF IInv
<1>3. CASE said' = Statement("protection", copy["namespace"].value = drive["namespace"].value,
                             "namespace", ~identified)
  <2>1. ~said'.right => Outdated' \/ said'.unread
    BY <1>3, Saying DEF IInv, Read, Items
  <2>2. said'.topic = "protection"
    BY <1>3 DEF Statement
  <2>3. Explained'
    BY <2>1, <2>2 DEF Explained, ProtectionExplained, SensorsExplained, EntriesExplained,
       WrongOnlyIf
  <2>. QED  BY <1>1, <2>3 DEF IInv
<1>. QED  BY <1>2, <1>3 DEF IOCSReply

LEMMA TemperatureThresholdStep == IInv /\ TemperatureThreshold => IInv'
<1>. SUFFICES ASSUME IInv, TemperatureThreshold PROVE IInv'
  OBVIOUS
<1>1. Shaped' /\ Ordered' /\ Faithful' /\ Read'
  BY Leaving DEF TemperatureThreshold
<1>2. said' = Statement("sensors", copy["SMART"].value = drive["SMART"].value, "SMART", FALSE)
  BY DEF TemperatureThreshold
<1>3. ~said'.right => Outdated' \/ said'.unread
  BY <1>2, Saying DEF IInv, Read, Items
<1>4. said'.topic = "sensors" /\ said'.unread = FALSE
  BY <1>2 DEF Statement
<1>5. Explained'
  BY <1>3, <1>4 DEF Explained, ProtectionExplained, SensorsExplained, EntriesExplained, WrongOnlyIf
<1>. QED  BY <1>1, <1>5 DEF IInv

LEMMA ErrorInformationStep == IInv /\ ErrorInformation => IInv'
<1>. SUFFICES ASSUME IInv, ErrorInformation PROVE IInv'
  OBVIOUS
<1>1. Shaped' /\ Ordered' /\ Faithful' /\ Read'
  BY Leaving DEF ErrorInformation
<1>2. said' = Statement("errors", AskedFor = drive["controller"].value.elpe + 1,
                        "controller", ~trusted)
  BY DEF ErrorInformation
<1>3. ~said'.right => Outdated' \/ said'.unread
  BY <1>2, Saying DEF IInv, Read, Items, AskedFor
<1>4. said'.topic = "errors"
  BY <1>2 DEF Statement
<1>5. Explained'
  BY <1>3, <1>4 DEF Explained, ProtectionExplained, SensorsExplained, EntriesExplained, WrongOnlyIf
<1>. QED  BY <1>1, <1>5 DEF IInv

LEMMA IInvStep == IInv /\ [Next]_vars => IInv'
<1>. SUFFICES ASSUME IInv, [Next]_vars PROVE IInv'
  OBVIOUS
<1>1. CASE UNCHANGED vars
  <2>1. Explained'
    BY <1>1 DEF IInv, vars, Explained, ProtectionExplained, SensorsExplained, EntriesExplained,
       WrongOnlyIf, Outdated
  <2>. QED  BY <1>1, <2>1 DEF IInv, vars, Shaped, Ordered, Faithful, Read
<1>. QED  BY <1>1, RestartStep, ChangeStep, IdentifyControllerStep, IdentifyNamespaceStep,
             IOCSNamespaceStep, IOCSReplyStep, GetSMARTStep, TemperatureThresholdStep,
             ErrorInformationStep DEF Next, Command

-----------------------------------------------------------------------------
(* The theorems.                                                           *)

\* The strengthening is an invariant of the session.
THEOREM InductiveInvariant == Spec => []IInv
BY InitIInv, IInvStep, PTL DEF Spec

\* The tool is wrong about protection information only if the namespace changed since it was
\* read, or was never read.
THEOREM ProtectionIsExplained == Spec => []ProtectionExplained
<1>1. IInv => ProtectionExplained
  BY DEF IInv, Explained
<1>. QED  BY <1>1, InductiveInvariant, PTL

\* The threshold report is wrong about the sensors only if they changed since the last log.
THEOREM SensorsAreExplained == Spec => []SensorsExplained
<1>1. IInv => SensorsExplained
  BY DEF IInv, Explained
<1>. QED  BY <1>1, InductiveInvariant, PTL

\* The tool asks for a wrong number of entries only if the controller data changed or were
\* overwritten with rejected data.
THEOREM EntriesAreExplained == Spec => []EntriesExplained
<1>1. IInv => EntriesExplained
  BY DEF IInv, Explained
<1>. QED  BY <1>1, InductiveInvariant, PTL

-----------------------------------------------------------------------------
(* Type correctness.                                                       *)

\* What TypeOK says beyond IInv of the contents of the items, and of the rest.
ContentsTyped ==
  \A i \in Items :
    /\ drive[i].version <= MaxVersion[i] /\ drive[i].value \in Contents(i)
    /\ copy[i].value \in Contents(i)
RestTyped ==
  /\ identified \in BOOLEAN /\ trusted \in BOOLEAN /\ pc \in {"menu", "IOCS"}
  /\ said.topic \in {"none", "protection", "sensors", "errors"}
  /\ said.right \in BOOLEAN /\ said.unread \in BOOLEAN

LEMMA ContentsOf ==
  /\ Contents("controller") = Controllers
  /\ Contents("namespace") = BOOLEAN
  /\ Contents("SMART") = SUBSET Sensors
BY DEF Contents

LEMMA Typing == IInv /\ ContentsTyped /\ RestTyped => TypeOK
<1>. SUFFICES ASSUME IInv, ContentsTyped, RestTyped PROVE TypeOK
  OBVIOUS
<1>1. \A i \in Items :
        /\ drive[i].version \in Int /\ copy[i].version \in Int /\ shown[i] \in Int
        /\ MaxVersion[i] \in Nat
  BY MaxVersionAssumption DEF IInv, Shaped, Versioned
<1>2. \A i \in Items :
        /\ drive[i].version \in 0 .. MaxVersion[i]
        /\ copy[i].version \in Nothing .. drive[i].version
        /\ shown[i] \in Nothing .. copy[i].version
  <2>1. -1 \in Int
    OBVIOUS
  <2>. QED  BY <1>1, <2>1 DEF IInv, Ordered, ContentsTyped, Nothing
<1>3. identified => copy["namespace"].version # Nothing
  BY <1>1 DEF IInv, Read, Items, Nothing
<1>4. DOMAIN shown = Items
  BY DEF IInv, Shaped
<1>. QED  BY <1>2, <1>3, <1>4 DEF TypeOK, ContentsTyped, RestTyped

LEMMA InitTyped == Init => ContentsTyped /\ RestTyped
<1>. SUFFICES ASSUME Init PROVE ContentsTyped /\ RestTyped
  OBVIOUS
<1>1. PICK c \in Controllers, n \in BOOLEAN, s \in SUBSET Sensors :
        drive = [i \in Items |->
          [version |-> 0, value |-> CASE i = "controller" -> c [] i = "namespace" -> n [] i = "SMART" -> s]]
  BY DEF Init
<1>2. /\ drive["controller"].value = c /\ drive["namespace"].value = n
      /\ drive["SMART"].value = s
  BY <1>1 DEF Items
<1>3. \A i \in Items : drive[i].version = 0 /\ drive[i].value \in Contents(i)
  BY <1>1, <1>2, ContentsOf DEF Items
<1>4. copy = [drive EXCEPT !["namespace"] = Zeroed] /\ Zeroed.value = FALSE
  BY DEF Init, AtStart, Zeroed
<1>5. \A i \in Items : copy[i].value \in Contents(i)
  BY <1>1, <1>3, <1>4, ContentsOf DEF Items
<1>6. ContentsTyped
  BY <1>3, <1>5, MaxVersionAssumption DEF ContentsTyped
<1>7. RestTyped
  BY DEF Init, RestTyped, NothingSaid
<1>. QED  BY <1>6, <1>7

LEMMA RestStep == IInv /\ RestTyped /\ [Next]_vars => RestTyped'
<1>. SUFFICES ASSUME IInv, RestTyped, [Next]_vars PROVE RestTyped'
  OBVIOUS
<1>1. CASE said' = NothingSaid /\ (IdentifyController \/ IdentifyNamespace \/ IOCSNamespace
                                     \/ IOCSReply \/ GetSMART)
  BY <1>1 DEF RestTyped, NothingSaid, IdentifyController, IdentifyNamespace, IOCSNamespace,
              IOCSReply, GetSMART
<1>2. CASE Restart \/ \E i \in Items : Change(i)
  <2>1. /\ said' = NothingSaid /\ UNCHANGED pc /\ trusted' \in {trusted, TRUE}
        /\ identified' \in {identified, FALSE}
    BY <1>2 DEF Restart, Change
  <2>. QED  BY <2>1 DEF RestTyped, NothingSaid
<1>3. CASE IOCSReply /\ said' # NothingSaid
  <2>1. said' = Statement("protection", copy["namespace"].value = drive["namespace"].value,
                          "namespace", ~identified)
    BY <1>3 DEF IOCSReply
  <2>2. /\ said'.topic = "protection" /\ said'.unread = ~identified
        /\ said'.right = (copy["namespace"].value = drive["namespace"].value)
    BY <2>1 DEF Statement
  <2>. QED  BY <1>3, <2>2 DEF RestTyped, IOCSReply
<1>4. CASE TemperatureThreshold
  <2>1. /\ said'.topic = "sensors" /\ said'.unread = FALSE
        /\ said'.right = (copy["SMART"].value = drive["SMART"].value)
    BY <1>4 DEF TemperatureThreshold, Statement
  <2>. QED  BY <1>4, <2>1 DEF RestTyped, TemperatureThreshold
<1>5. CASE ErrorInformation
  <2>1. /\ said'.topic = "errors" /\ said'.unread = ~trusted
        /\ said'.right = (AskedFor = drive["controller"].value.elpe + 1)
    BY <1>5 DEF ErrorInformation, Statement
  <2>. QED  BY <1>5, <2>1 DEF RestTyped, ErrorInformation
<1>6. CASE UNCHANGED vars
  BY <1>6 DEF RestTyped, vars
<1>7. IdentifyController \/ IdentifyNamespace \/ IOCSNamespace \/ GetSMART => said' = NothingSaid
  BY DEF IdentifyController, IdentifyNamespace, IOCSNamespace, GetSMART
<1>. QED  BY <1>1, <1>2, <1>3, <1>4, <1>5, <1>6, <1>7 DEF Next, Command

LEMMA ContentsStep == IInv /\ ContentsTyped /\ [Next]_vars => ContentsTyped'
<1>. SUFFICES ASSUME IInv, ContentsTyped, [Next]_vars PROVE ContentsTyped'
  OBVIOUS
<1>1. ASSUME NEW item \in Items, Stores(item), UNCHANGED drive PROVE ContentsTyped'
  <2>1. copy'[item] = drive[item] /\ \A i \in Items \ {item} : copy'[i] = copy[i]
    BY <1>1 DEF Stores, IInv, Shaped
  <2>. QED  BY <1>1, <2>1 DEF ContentsTyped
<1>2. CASE UNCHANGED <<drive, copy>>
  BY <1>2 DEF ContentsTyped
<1>3. CASE Restart
  <2>1. copy' = [drive EXCEPT !["namespace"] = Zeroed] /\ Zeroed.value = FALSE /\ UNCHANGED drive
    BY <1>3 DEF Restart, AtStart, Zeroed
  <2>. QED  BY <2>1, ContentsOf DEF ContentsTyped, IInv, Shaped, Items
<1>4. ASSUME NEW item \in Items, Change(item) PROVE ContentsTyped'
  <2>1. PICK v \in Contents(item) :
          drive' = [drive EXCEPT ![item] = [version |-> drive[item].version + 1, value |-> v]]
    BY <1>4 DEF Change, IInv, Shaped
  <2>2. /\ drive'[item].version = drive[item].version + 1 /\ drive'[item].value = v
        /\ \A i \in Items \ {item} : drive'[i] = drive[i]
    BY <2>1 DEF IInv, Shaped
  <2>3. drive[item].version + 1 <= MaxVersion[item]
    <3>1. drive[item].version < MaxVersion[item]
      BY <1>4 DEF Change
    <3>2. drive[item].version \in Int /\ MaxVersion[item] \in Int
      BY MaxVersionAssumption DEF IInv, Shaped, Versioned
    <3>. QED  BY <3>1, <3>2
  <2>4. UNCHANGED copy
    BY <1>4 DEF Change
  <2>. QED  BY <2>1, <2>2, <2>3, <2>4 DEF ContentsTyped
<1>5. CASE IdentifyController
  <2>1. CASE Stores("controller")
    BY <1>1, <1>5, <2>1 DEF IdentifyController, Items
  <2>2. CASE \E c \in Controllers :
               copy' = [copy EXCEPT !["controller"] =
                          [version |-> drive["controller"].version, value |-> c]]
    <3>1. /\ copy'["controller"].value \in Controllers
          /\ \A i \in Items \ {"controller"} : copy'[i] = copy[i]
      BY <2>2 DEF IInv, Shaped, Items
    <3>2. UNCHANGED drive
      BY <1>5 DEF IdentifyController
    <3>. QED  BY <3>1, <3>2, ContentsOf DEF ContentsTyped, Items
  <2>. QED  BY <1>5, <2>1, <2>2 DEF IdentifyController
<1>6. CASE IdentifyNamespace \/ IOCSNamespace
  BY <1>1, <1>2, <1>6 DEF IdentifyNamespace, IOCSNamespace, Items
<1>7. CASE GetSMART
  BY <1>1, <1>7 DEF GetSMART, Items
<1>8. CASE IOCSReply \/ TemperatureThreshold \/ ErrorInformation
  BY <1>2, <1>8 DEF IOCSReply, TemperatureThreshold, ErrorInformation
<1>9. CASE UNCHANGED vars
  BY <1>2, <1>9 DEF vars
<1>. QED  BY <1>3, <1>4, <1>5, <1>6, <1>7, <1>8, <1>9 DEF Next, Command

\* Every variable has its type, and no copy is ahead of the drive.
THEOREM TypeCorrect == Spec => []TypeOK
<1>1. Init => ContentsTyped /\ RestTyped
  BY InitTyped
<1>2. IInv /\ (ContentsTyped /\ RestTyped) /\ [Next]_vars => (ContentsTyped /\ RestTyped)'
  BY ContentsStep, RestStep
<1>3. IInv /\ (ContentsTyped /\ RestTyped) => TypeOK
  BY Typing
<1>. QED  BY <1>1, <1>2, <1>3, InitIInv, IInvStep, PTL DEF Spec

-----------------------------------------------------------------------------
(* The refinement of MonotonicReads.                                       *)

current == [i \in Items |-> drive[i].version]

LEMMA InitRefines == Init => Abstract!Init
<1>. SUFFICES ASSUME Init PROVE Abstract!Init
  OBVIOUS
<1>1. \A i \in Items : drive[i].version = 0
  BY DEF Init
<1>2. shown = [i \in Items |-> -1]
  BY DEF Init, NothingShown, Nothing
<1>. QED  BY <1>1, <1>2 DEF Abstract!Init

\* Printing a version between the one shown last and the one on the drive.
LEMMA PrintingRefines ==
  ASSUME IInv, UNCHANGED drive, NEW item \in Items, NEW v \in Int, Prints(item, v),
         0 <= v, shown[item] <= v, v <= drive[item].version
  PROVE  Abstract!Show(item)
<1>1. v \in 0 .. current[item] /\ current[item] = drive[item].version
  BY DEF current, IInv, Shaped, Versioned
<1>2. current' = current
  BY DEF current
<1>. QED  BY <1>1, <1>2 DEF Abstract!Show, Prints, current

LEMMA ChangeRefines ==
  ASSUME IInv, NEW item \in Items, Change(item)
  PROVE  Abstract!Change(item)
<1>1. PICK v \in Contents(item) :
        drive' = [drive EXCEPT ![item] = [version |-> drive[item].version + 1, value |-> v]]
  BY DEF Change, IInv, Shaped
<1>2. drive[item].version \in Int /\ 0 <= drive[item].version
  BY DEF IInv, Shaped, Versioned, Ordered
<1>3. /\ drive'[item].version = drive[item].version + 1
      /\ \A i \in Items \ {item} : drive'[i] = drive[i]
  BY <1>1 DEF IInv, Shaped
<1>4. current' = [current EXCEPT ![item] = drive'[item].version] /\ UNCHANGED shown
  BY <1>3 DEF current, Change
<1>5. current'[item] = drive'[item].version /\ current[item] = drive[item].version
  BY DEF current
<1>6. current'[item] \in Nat /\ current'[item] > current[item]
  BY <1>2, <1>3, <1>5
<1>7. current' = [current EXCEPT ![item] = current'[item]]
  BY <1>4, <1>5
<1>. QED  BY <1>4, <1>6, <1>7 DEF Abstract!Change, current

\* Only the reports and the drive's own steps can be seen.
LEMMA StepRefines == IInv /\ [Next]_vars => [Abstract!Next]_<<current, shown>>
<1>. SUFFICES ASSUME IInv, [Next]_vars PROVE [Abstract!Next]_<<current, shown>>
  OBVIOUS
<1>1. \A i \in Items :
        /\ drive[i].version \in Int /\ copy[i].version \in Int /\ shown[i] \in Int
        /\ 0 <= drive[i].version /\ shown[i] <= copy[i].version /\ copy[i].version <= drive[i].version
  BY DEF IInv, Shaped, Versioned, Ordered
<1>2. CASE UNCHANGED drive /\ UNCHANGED shown
  BY <1>2 DEF current
<1>3. ASSUME NEW item \in Items, UNCHANGED drive, Prints(item, drive[item].version)
      PROVE  Abstract!Next
  BY <1>1, <1>3, PrintingRefines DEF Abstract!Next
<1>4. CASE IdentifyController
  BY <1>2, <1>3, <1>4 DEF IdentifyController, Items
<1>5. CASE IdentifyNamespace
  <2>1. CASE identified /\ Prints("namespace", copy["namespace"].version)
    BY <1>1, <1>5, <2>1, PrintingRefines DEF IdentifyNamespace, IInv, Read, Items, Abstract!Next
  <2>2. CASE Prints("namespace", drive["namespace"].version)
    BY <1>3, <1>5, <2>2 DEF IdentifyNamespace, Items
  <2>. QED  BY <1>5, <2>1, <2>2 DEF IdentifyNamespace
<1>6. CASE GetSMART
  BY <1>3, <1>6 DEF GetSMART, Items
<1>7. CASE IOCSNamespace \/ IOCSReply \/ TemperatureThreshold \/ ErrorInformation
  BY <1>2, <1>7 DEF IOCSNamespace, IOCSReply, TemperatureThreshold, ErrorInformation
<1>8. CASE Restart
  BY <1>8 DEF Restart, NothingShown, Nothing, Abstract!Next, Abstract!NewSession
<1>9. CASE \E i \in Items : Change(i)
  BY <1>9, ChangeRefines DEF Abstract!Next
<1>10. CASE UNCHANGED vars
  BY <1>2, <1>10 DEF vars
<1>. QED  BY <1>4, <1>5, <1>6, <1>7, <1>8, <1>9, <1>10 DEF Next, Command

\* What a session shows was the state of the drive, and never goes back.
THEOREM ReadsAreMonotonic == Spec => ImplementsMonotonic
BY InitIInv, IInvStep, InitRefines, StepRefines, PTL
   DEF Spec, ImplementsMonotonic, Abstract!Spec, current
=============================================================================
