--------------------------- MODULE NVMeToolProofs ---------------------------
(***************************************************************************)
(* Proofs about NVMeTool, for every set of inputs and of controller data.  *)
(* The safety properties follow from the inductive invariant IInv; the     *)
(* lemmas before it are facts about the command tables.                    *)
(***************************************************************************)
EXTENDS NVMeTool, TLAPS

-----------------------------------------------------------------------------
(* The tables.                                                             *)

\* The menu knows its commands by name, and y is not one of its letters.
LEMMA MenuOpFacts ==
  ASSUME NEW ch
  PROVE  /\ MenuOp(ch) \in Ops
         /\ ch \in {"y", "Y"} => MenuOp(ch) = "Unknown"
<1>1. ch \in {"y", "Y"} => MenuOp(ch) = "Unknown"
  BY DEF MenuOp
<1>2. MenuOp(ch) \in Ops
  BY DEF MenuOp, Ops, ConfirmedByMenu, AsksForCode
<1>. QED  BY <1>1, <1>2

\* A code selects a leaf that is not one of the commands the menu sends itself,
\* and the leaves that change the drive have a code other than 0.
LEMMA LeafFacts ==
  ASSUME NEW l \in Leaves
  PROVE  /\ l.leaf \in LeafNames /\ l.code \in Int
         /\ l.leaf \in Destructive => l.code # 0
<1>1. CASE l \in IdentifyLeaves
  BY <1>1 DEF IdentifyLeaves, Leaf, Destructive, LeafNames
<1>2. CASE l \in LogPageLeaves
  BY <1>2 DEF LogPageLeaves, Leaf, Destructive, LeafNames
<1>3. CASE l \in SetFeatureLeaves
  BY <1>3 DEF SetFeatureLeaves, Leaf, Destructive, LeafNames
<1>4. CASE l \in SelfTestLeaves
  BY <1>4 DEF SelfTestLeaves, Leaf, Destructive, LeafNames
<1>5. CASE l \in SecurityLeaves
  BY <1>5 DEF SecurityLeaves, Leaf, Destructive, LeafNames
<1>6. CASE l \in GetFeatureLeaves
  BY <1>6 DEF GetFeatureLeaves, PlainFeatures, Leaf, Destructive, LeafNames
<1>. QED  BY <1>1, <1>2, <1>3, <1>4, <1>5, <1>6 DEF Leaves

\* What a leaf owes when it has been selected: its own prompt, for two of them
\* a second one, and the confirmation of the menu where the menu asked for it.
LEMMA LeafConsent ==
  ASSUME NEW l \in Leaves
  PROVE  Consent(l.leaf) \subseteq
           {"leaf"} \cup (IF l.leaf \in AskedTwice THEN {"final"} ELSE {})
                    \cup (IF l.op \in ConfirmedByMenu THEN {"menu"} ELSE {})
<1>. USE DEF Leaf, Consent, AskedTwice, ConfirmedByMenu
<1>1. CASE l \in IdentifyLeaves
  BY <1>1 DEF IdentifyLeaves
<1>2. CASE l \in LogPageLeaves
  BY <1>2 DEF LogPageLeaves
<1>3. CASE l \in SetFeatureLeaves
  BY <1>3 DEF SetFeatureLeaves
<1>4. CASE l \in SelfTestLeaves
  BY <1>4 DEF SelfTestLeaves
<1>5. CASE l \in SecurityLeaves
  BY <1>5 DEF SecurityLeaves
<1>6. CASE l \in GetFeatureLeaves
  BY <1>6 DEF GetFeatureLeaves, PlainFeatures
<1>. QED  BY <1>1, <1>2, <1>3, <1>4, <1>5, <1>6 DEF Leaves

\* No leaf is one of the commands the menu sends itself; the features share a
\* name; the controller data can be asked for whatever they say.
LEMMA LeafKinds ==
  ASSUME NEW l \in Leaves
  PROVE  /\ l.leaf \notin ConfirmedByMenu \cup {"None"}
         /\ SelectedAs(l.leaf) = l.leaf
         /\ l.op = "GetFeatures" <=> l.leaf = "GetFeature"
         /\ l.leaf = "Controller" =>
              OpNeeds(l.op) = {} /\ l.before = {} /\ l.after = {}
<1>. USE DEF Leaf, ConfirmedByMenu, SelectedAs, OpNeeds
<1>1. CASE l \in IdentifyLeaves
  BY <1>1 DEF IdentifyLeaves
<1>2. CASE l \in LogPageLeaves
  BY <1>2 DEF LogPageLeaves
<1>3. CASE l \in SetFeatureLeaves
  BY <1>3 DEF SetFeatureLeaves
<1>4. CASE l \in SelfTestLeaves
  BY <1>4 DEF SelfTestLeaves
<1>5. CASE l \in SecurityLeaves
  BY <1>5 DEF SecurityLeaves
<1>6. CASE l \in GetFeatureLeaves
  BY <1>6 DEF GetFeatureLeaves, PlainFeatures
<1>. QED  BY <1>1, <1>2, <1>3, <1>4, <1>5, <1>6 DEF Leaves

\* A name, with the code of a feature, belongs to one leaf only.
LEMMA LeafNamesOne ==
  ASSUME NEW k \in Leaves, NEW l \in Leaves,
         k.leaf = l.leaf, k.leaf = "GetFeature" => k.code = l.code
  PROVE  k = l
<1>. USE DEF Leaf
<1>1. CASE k \in IdentifyLeaves
  <2>1. l \in IdentifyLeaves
    BY <1>1 DEF IdentifyLeaves, LogPageLeaves, SetFeatureLeaves, SelfTestLeaves,
                SecurityLeaves, GetFeatureLeaves, Leaves
  <2>. QED  BY <1>1, <2>1 DEF IdentifyLeaves
<1>2. CASE k \in LogPageLeaves
  <2>1. l \in LogPageLeaves
    BY <1>2 DEF IdentifyLeaves, LogPageLeaves, SetFeatureLeaves, SelfTestLeaves,
                SecurityLeaves, GetFeatureLeaves, Leaves
  <2>. QED  BY <1>2, <2>1 DEF LogPageLeaves
<1>3. CASE k \in SetFeatureLeaves
  <2>1. l \in SetFeatureLeaves
    BY <1>3 DEF IdentifyLeaves, LogPageLeaves, SetFeatureLeaves, SelfTestLeaves,
                SecurityLeaves, GetFeatureLeaves, Leaves
  <2>. QED  BY <1>3, <2>1 DEF SetFeatureLeaves
<1>4. CASE k \in SelfTestLeaves
  <2>1. l \in SelfTestLeaves
    BY <1>4 DEF IdentifyLeaves, LogPageLeaves, SetFeatureLeaves, SelfTestLeaves,
                SecurityLeaves, GetFeatureLeaves, Leaves
  <2>. QED  BY <1>4, <2>1 DEF SelfTestLeaves
<1>5. CASE k \in SecurityLeaves
  <2>1. l \in SecurityLeaves
    BY <1>5 DEF IdentifyLeaves, LogPageLeaves, SetFeatureLeaves, SelfTestLeaves,
                SecurityLeaves, GetFeatureLeaves, Leaves
  <2>. QED  BY <1>5, <2>1 DEF SecurityLeaves
<1>6. CASE k \in GetFeatureLeaves
  <2>1. l \in GetFeatureLeaves
    BY <1>6 DEF IdentifyLeaves, LogPageLeaves, SetFeatureLeaves, SelfTestLeaves,
                SecurityLeaves, GetFeatureLeaves, Leaves
  <2>. QED  BY <1>6, <2>1 DEF GetFeatureLeaves, PlainFeatures
<1>. QED  BY <1>1, <1>2, <1>3, <1>4, <1>5, <1>6 DEF Leaves

-----------------------------------------------------------------------------
(* What a request depends on.                                              *)

\* A command of the menu needs its own bits, no leaf's.
LEMMA NeedsOfMenu ==
  ASSUME NEW o \in ConfirmedByMenu, NEW d
  PROVE  Needs([leaf |-> o, data |-> d]) \subseteq OpNeeds(o)
<1>1. SelectedAs(o) = o
  BY DEF SelectedAs, ConfirmedByMenu
<1>2. \A k \in Leaves : k.leaf # o
  BY LeafKinds
<1>. QED  BY <1>1, <1>2 DEF Needs

\* A leaf needs the bits of its entry, under each of the names it is sent by.
LEMMA NeedsOfLeaf ==
  ASSUME NEW l \in Leaves, NEW x, NEW d,
         SelectedAs(x) = l.leaf, x \notin ConfirmedByMenu,
         l.op = "GetFeatures" => d = <<l.code>>
  PROVE  Needs([leaf |-> x, data |-> d]) \subseteq OpNeeds(l.op) \cup l.before \cup l.after
<1>1. ASSUME NEW k \in Leaves, k.leaf = SelectedAs(x), k.op = "GetFeatures" => d = <<k.code>>
      PROVE  k = l
  <2>1. CASE k.leaf = "GetFeature"
    <3>1. k.op = "GetFeatures" /\ l.op = "GetFeatures"
      BY <1>1, <2>1, LeafKinds
    <3>2. <<k.code>> = <<l.code>>
      BY <1>1, <3>1
    <3>3. k.code = l.code
      BY <3>2
    <3>. QED  BY <1>1, <3>3, LeafNamesOne
  <2>2. CASE k.leaf # "GetFeature"
    BY <1>1, <2>2, LeafNamesOne
  <2>. QED  BY <2>1, <2>2
<1>. QED  BY <1>1 DEF Needs

\* The numbers of a request matter for Get Features only.
LEMMA NeedsOfName ==
  ASSUME NEW x, NEW y, NEW d, NEW e, SelectedAs(x) = SelectedAs(y), SelectedAs(x) # "GetFeature",
         x \notin ConfirmedByMenu, y \notin ConfirmedByMenu
  PROVE  Needs([leaf |-> x, data |-> d]) = Needs([leaf |-> y, data |-> e])
<1>1. \A k \in Leaves : k.leaf = SelectedAs(x) => k.op # "GetFeatures"
  BY LeafKinds
<1>. QED  BY <1>1 DEF Needs

LEMMA NeedsNothing ==
  ASSUME NEW d
  PROVE  /\ Needs([leaf |-> "Controller", data |-> d]) = {}
         /\ Needs(Nothing) = {}
<1>1. "Controller" \notin ConfirmedByMenu /\ "None" \notin ConfirmedByMenu
  BY DEF ConfirmedByMenu
<1>2. SelectedAs("Controller") = "Controller" /\ SelectedAs("None") = "None"
  BY DEF SelectedAs
<1>3. Needs([leaf |-> "Controller", data |-> d]) = {}
  BY <1>1, <1>2, LeafKinds DEF Needs
<1>4. Needs(Nothing) = {}
  BY <1>1, <1>2, LeafKinds DEF Needs, Nothing
<1>. QED  BY <1>3, <1>4

-----------------------------------------------------------------------------
(* The helpers of the actions.                                             *)

\* What a read leaves in the buffer: numbers in hex and dec, and the input does
\* not begin again.
LEMMA ReadFacts ==
  ASSUME DialogueTypes, ReadFirst \/ ReadAgain
  PROVE  /\ buf' \in Chunks \cup {Blank} /\ ended' \in BOOLEAN
         /\ buf'.hex \in Int /\ buf'.dec \in Int
         /\ buf'.ch \in {"y", "Y"} => buf'.hex = 0 /\ buf'.dec = 0
         /\ ended => ended'
<1>1. buf' \in Chunks \cup {Blank} /\ ended' \in BOOLEAN /\ (ended => ended')
  BY DEF DialogueTypes, ReadFirst, ReadAgain
<1>2. CASE buf' \in Chunks
  BY <1>1, <1>2, ChunksAssumption
<1>3. CASE buf' = Blank
  <2>1. buf'.hex = 0 /\ buf'.dec = 0
    BY <1>3 DEF Blank
  <2>2. buf'.hex \in Int /\ buf'.dec \in Int
    BY <2>1
  <2>. QED  BY <1>1, <2>1, <2>2
<1>. QED  BY <1>1, <1>2, <1>3

\* Fields of 16 bits hold the temperatures of a controller.
LEMMA WordFacts ==
  ASSUME NEW x \in Int
  PROVE  /\ x % 65536 \in Int
         /\ 0 <= x /\ x < 65536 => x % 65536 = x
<1>1. x % 65536 \in Int  BY SMT
<1>2. 0 <= x /\ x < 65536 => x % 65536 = x  BY SMT
<1>. QED  BY <1>1, <1>2

LEMMA ControllerFacts ==
  ASSUME NEW c \in ControllerData \cup {ZeroController}
  PROVE  /\ c.genuine \in BOOLEAN /\ c.caps \in SUBSET Capability
         /\ c.mntmt \in Word16 /\ c.mxtmt \in Word16
<1>1. CASE c \in ControllerData
  BY <1>1, ControllerDataAssumption
<1>2. CASE c = ZeroController
  BY <1>2 DEF ZeroController, Word16
<1>. QED  BY <1>1, <1>2

\* Numbers between two that fit in 16 bits fit too.
LEMMA BetweenFacts ==
  ASSUME NEW lo \in Int, NEW hi \in Int, NEW x \in Int, NEW y \in Int,
         0 <= lo, hi < 65536, x < y, lo <= x, y <= hi
  PROVE  0 <= x /\ x < 65536 /\ 0 < y /\ y < 65536
OBVIOUS

LEMMA BoundsFacts ==
  ASSUME NEW c \in ControllerData \cup {ZeroController}
  PROVE  /\ c.mntmt \in Int /\ 0 <= c.mntmt
         /\ c.mxtmt \in Int /\ c.mxtmt < 65536
BY ControllerFacts DEF Word16

\* Temperatures a controller allows fit in 16 bits, and the second is not 0.
LEMMA RangeFacts ==
  ASSUME NEW c \in ControllerData \cup {ZeroController}
  PROVE  \A x, y \in Int :
           x < y /\ c.mntmt <= x /\ y <= c.mxtmt =>
             0 <= x /\ x < 65536 /\ 0 < y /\ y < 65536
BY BoundsFacts, BetweenFacts

\* The sequences of numbers a dialogue collects.
LEMMA ArgsFacts ==
  /\ <<>> \in Seq(Int)
  /\ \A x \in Int : <<x>> \in Seq(Int) /\ Len(<<x>>) = 1 /\ <<x>>[1] = x
  /\ \A x, y \in Int : /\ <<x, y>> \in Seq(Int) /\ Len(<<x, y>>) = 2
                       /\ <<x, y>>[1] = x /\ <<x, y>>[2] = y
OBVIOUS

LEMMA PairFacts ==
  ASSUME NEW s \in Seq(Int)
  PROVE  /\ Len(s) = 1 => s[1] \in Int
         /\ Len(s) = 2 => s[1] \in Int /\ s[2] \in Int
OBVIOUS

\* Identify Controller: data that were accepted once stay accepted data.
LEMMA CallIdentifyControllerFacts ==
  ASSUME GlobalTypes, NEW res, CallIdentifyController(res)
  PROVE  /\ ctrl' \in ControllerData \cup {ZeroController}
         /\ trusted' \in ControllerData \cup {ZeroController}
         /\ trusted.genuine \/ res = 0 => trusted'.genuine
<1>1. PICK v \in VerdictsOf(IdentifyController), data \in ControllerData :
        /\ v = "accepted" => data.genuine
        /\ res = ResultOf(IdentifyController, v)
        /\ ctrl' = IF Stores(IdentifyController, v) THEN data ELSE ctrl
        /\ trusted' = IF v = "accepted" THEN data ELSE trusted
  BY DEF CallIdentifyController
<1>2. res = 0 => v = "accepted"
  BY <1>1 DEF VerdictsOf, Verdicts, ResultOf, IdentifyController, Shape
<1>. QED  BY <1>1, <1>2 DEF GlobalTypes

\* The SMART log page: success means data.
LEMMA CallGetSMARTFacts ==
  ASSUME GlobalTypes, NEW res, CallGetSMART(res)
  PROVE  smart' \in BOOLEAN /\ (smart \/ res = 0 => smart')
<1>1. PICK v \in VerdictsOf(GetSMART) :
        res = ResultOf(GetSMART, v) /\ smart' = (smart \/ Stores(GetSMART, v))
  BY DEF CallGetSMART
<1>2. res = 0 => Stores(GetSMART, v)
  BY <1>1 DEF VerdictsOf, Verdicts, ResultOf, Stores, GetSMART, Shape
<1>3. smart' \in BOOLEAN
  BY <1>1
<1>. QED  BY <1>1, <1>2, <1>3

LEMMA CallIdentifyNamespaceFacts ==
  ASSUME GlobalTypes, NEW res, CallIdentifyNamespace(res)
  PROVE  nsKnown' \in BOOLEAN
<1>1. CASE nsKnown
  BY <1>1 DEF CallIdentifyNamespace, GlobalTypes
<1>2. CASE ~nsKnown
  BY <1>2 DEF CallIdentifyNamespace, Stores
<1>. QED  BY <1>1, <1>2

LEMMA CallGetProtocolListFacts ==
  ASSUME GlobalTypes, NEW res, CallGetProtocolList(res)
  PROVE  /\ protocols' \in ProtocolLists \cup {{}} /\ listed' \in BOOLEAN
         /\ protocols' # protocols => listed'
         /\ listed => listed'
BY DEF CallGetProtocolList, GlobalTypes

-----------------------------------------------------------------------------
(* The inductive invariant, one lemma for each of its parts.               *)

LEMMA DialogueTypesStep ==
  ASSUME TypeOK, PromptOfLeaf, Next
  PROVE  DialogueTypes'
<1>. DialogueTypes  BY DEF TypeOK
<1>. USE DEF consoleVars, dialogue, Goto, BackToMenu, Continue, Agree, Prompts
<1>1. CASE Startup
  BY <1>1 DEF Startup, Usage, CreateFile, StartIdentify, StartSMART, StartProtocolList,
              Exit, DialogueTypes
<1>2. CASE AnyKey
  BY <1>2 DEF AnyKey, DialogueTypes
<1>3. ASSUME ReadFirst \/ ReadAgain, op' \in Ops, leaf' \in LeafNames,
             args' \in Seq(Int), yes' \in SUBSET Prompts
      PROVE  DialogueTypes'
  BY <1>3, ReadFacts DEF DialogueTypes
<1>4. "Unknown" \in Ops /\ "None" \in LeafNames /\ <<>> \in Seq(Int)
  BY DEF Ops, LeafNames
<1>5. CASE ReadMenu
  <2>1. op' \in Ops  BY <1>5, MenuOpFacts DEF ReadMenu
  <2>. QED  BY <1>3, <1>4, <1>5, <2>1 DEF ReadMenu
<1>6. CASE ConfirmMenu
  <2>1. op \in ConfirmedByMenu
    BY <1>6 DEF ConfirmMenu, PromptOfLeaf
  <2>2. op \notin AsksForCode => op \in LeafNames
    BY <2>1 DEF ConfirmedByMenu, AsksForCode, LeafNames
  <2>3. /\ op' \in {op, "Unknown"} /\ leaf' \in LeafNames
        /\ args' \in {args, <<>>} /\ yes' \in {yes, yes \cup {"menu"}}
    BY <1>4, <1>6, <2>2 DEF ConfirmMenu, DialogueTypes
  <2>4. ReadAgain  BY <1>6 DEF ConfirmMenu
  <2>. QED  BY <1>3, <1>4, <2>3, <2>4 DEF DialogueTypes
<1>7. CASE ChooseCode
  <2>1. leaf' \in LeafNames /\ args' \in Seq(Int)
    <3>1. CASE BackToMenu
      BY <1>4, <3>1
    <3>2. CASE \E l \in Leaves : leaf' = l.leaf /\ args' = <<l.code>>
      BY <3>2, LeafFacts, ArgsFacts
    <3>. QED  BY <1>7, <3>1, <3>2 DEF ChooseCode, Selected
  <2>. QED  BY <1>3, <1>4, <1>7, <2>1 DEF ChooseCode, DialogueTypes
<1>8. CASE ChooseTest
  <2>1. leaf' \in LeafNames /\ args' \in Seq(Int)
    <3>1. CASE BackToMenu
      BY <1>4, <3>1
    <3>2. CASE \E l \in Leaves : leaf' = l.leaf /\ args' = <<l.code>>
      BY <3>2, LeafFacts, ArgsFacts
    <3>. QED  BY <1>8, <3>1, <3>2 DEF ChooseTest, Selected
  <2>. QED  BY <1>3, <1>4, <1>8, <2>1 DEF ChooseTest, DialogueTypes
<1>9. CASE ConfirmLeaf
  BY <1>3, <1>4, <1>9 DEF ConfirmLeaf, DialogueTypes
<1>10. CASE AskNSID \/ AskEGID \/ AskTMT1
  <2>1. ReadFirst \/ ReadAgain
    BY <1>10 DEF AskNSID, AskEGID, AskTMT1
  <2>2. args' \in Seq(Int)
    BY <1>10, <2>1, ReadFacts, ArgsFacts DEF AskNSID, AskEGID, AskTMT1
  <2>. QED  BY <1>3, <1>10, <2>1, <2>2 DEF AskNSID, AskEGID, AskTMT1, DialogueTypes
<1>11. CASE ConfirmNSID \/ ConfirmValue \/ ConfirmEGID \/ ConfirmTMT
  BY <1>3, <1>4, <1>11 DEF ConfirmNSID, ConfirmValue, ConfirmEGID, ConfirmTMT, DialogueTypes
<1>12. CASE ChooseTelemetry
  BY <1>3, <1>4, <1>12 DEF ChooseTelemetry, DialogueTypes, LeafNames
<1>13. CASE ChooseInternalLog
  BY <1>3, <1>13 DEF ChooseInternalLog, DialogueTypes, LeafNames
<1>14. CASE AskValue
  <2>1. ReadFirst
    BY <1>14 DEF AskValue
  <2>2. args' \in Seq(Int)
    BY <1>4, <1>14, <2>1, ReadFacts, ArgsFacts DEF AskValue
  <2>. QED  BY <1>3, <1>4, <1>14, <2>1, <2>2 DEF AskValue, DialogueTypes
<1>15. CASE AskTMT2
  <2>1. args \in Seq(Int) /\ Len(args) = 1
    BY <1>15 DEF AskTMT2, TypeOK, ArgsCollected, DialogueTypes
  <2>2. args[1] \in Int
    BY <2>1
  <2>3. ReadAgain
    BY <1>15 DEF AskTMT2
  <2>4. args' \in Seq(Int)
    BY <1>15, <2>2, <2>3, ReadFacts, ArgsFacts DEF AskTMT2
  <2>. QED  BY <1>3, <1>15, <2>4 DEF AskTMT2, DialogueTypes
<1>16. CASE Issue
  BY <1>4, <1>16 DEF Issue, DialogueTypes
<1>17. Request => Issue
  BY DEF Request, SendIdentifyController, SendGetSMART, SendIdentifyNamespace,
         SendIOCSNamespace, SendGetProtocolList, SendOther
<1>. QED  BY <1>1, <1>2, <1>5, <1>6, <1>7, <1>8, <1>9, <1>10, <1>11, <1>12, <1>13,
             <1>14, <1>15, <1>16, <1>17 DEF Next, Menu, SubMenu

\* The globals keep their types; what the start-up has got from the drive stays.
LEMMA GlobalsStep ==
  ASSUME TypeOK, StartedInOrder, Next
  PROVE  /\ GlobalTypes'
         /\ trusted.genuine => trusted'.genuine
         /\ smart => smart'
         /\ protocols' # {} => listed'
<1>. GlobalTypes /\ (protocols # {} => listed)
  BY DEF TypeOK, StartedInOrder
<1>1. CASE UNCHANGED globals
  BY <1>1 DEF globals, GlobalTypes
<1>2. ASSUME NEW res, CallIdentifyController(res),
             UNCHANGED <<smart, nsKnown, protocols, listed>>
      PROVE  /\ GlobalTypes' /\ (trusted.genuine => trusted'.genuine)
             /\ (smart => smart') /\ (protocols' # {} => listed')
  BY <1>2, CallIdentifyControllerFacts DEF GlobalTypes
<1>3. ASSUME NEW res, CallGetSMART(res),
             UNCHANGED <<ctrl, nsKnown, protocols, trusted, listed>>
      PROVE  /\ GlobalTypes' /\ (trusted.genuine => trusted'.genuine)
             /\ (smart => smart') /\ (protocols' # {} => listed')
  BY <1>3, CallGetSMARTFacts DEF GlobalTypes
<1>4. ASSUME NEW res, CallIdentifyNamespace(res),
             UNCHANGED <<ctrl, smart, protocols, trusted, listed>>
      PROVE  /\ GlobalTypes' /\ (trusted.genuine => trusted'.genuine)
             /\ (smart => smart') /\ (protocols' # {} => listed')
  BY <1>4, CallIdentifyNamespaceFacts DEF GlobalTypes
<1>5. ASSUME NEW res, CallGetProtocolList(res),
             UNCHANGED <<ctrl, smart, nsKnown, trusted>>
      PROVE  /\ GlobalTypes' /\ (trusted.genuine => trusted'.genuine)
             /\ (smart => smart') /\ (protocols' # {} => listed')
  BY <1>5, CallGetProtocolListFacts DEF GlobalTypes
<1>6. CASE StartIdentify \/ SendIdentifyController
  BY <1>2, <1>6 DEF StartIdentify, SendIdentifyController
<1>7. CASE StartSMART \/ SendGetSMART
  BY <1>3, <1>7 DEF StartSMART, SendGetSMART
<1>8. CASE SendIdentifyNamespace \/ SendIOCSNamespace
  BY <1>4, <1>8 DEF SendIdentifyNamespace, SendIOCSNamespace
<1>9. CASE StartProtocolList \/ SendGetProtocolList
  BY <1>5, <1>9 DEF StartProtocolList, SendGetProtocolList
<1>10. CASE Usage \/ CreateFile \/ AnyKey \/ ReadMenu \/ SendOther
  BY <1>1, <1>10 DEF Usage, CreateFile, AnyKey, ReadMenu, SendOther
<1>11. CASE ConfirmMenu \/ SubMenu
  BY <1>1, <1>11 DEF ConfirmMenu, SubMenu, ChooseCode, ChooseTest, ConfirmLeaf, AskNSID,
     ConfirmNSID, ChooseTelemetry, ChooseInternalLog, AskEGID, ConfirmEGID, AskValue,
     ConfirmValue, AskTMT1, AskTMT2, ConfirmTMT, Goto, BackToMenu, Continue, globals
<1>. QED  BY <1>6, <1>7, <1>8, <1>9, <1>10, <1>11 DEF Next, Startup, Menu, Request

\* The requests share their effect on the dialogue.
LEMMA RequestIssues == Request => Issue /\ iResult' \in Results
BY DEF Request, SendIdentifyController, SendGetSMART, SendIdentifyNamespace,
       SendIOCSNamespace, SendGetProtocolList, SendOther, Results

\* A step that is no request leaves no request behind.
LEMMA OthersSendNothing ==
  ASSUME SentThenMenu, Startup \/ Menu \/ SubMenu
  PROVE  sent' = Nothing
<1>1. CASE Startup
  BY <1>1 DEF SentThenMenu, Startup, Usage, CreateFile, StartIdentify, StartSMART,
     StartProtocolList
<1>2. CASE Menu
  BY <1>2 DEF SentThenMenu, Menu, AnyKey, ReadMenu, ConfirmMenu
<1>3. CASE SubMenu
  BY <1>3 DEF SentThenMenu, SubMenu, ChooseCode, ChooseTest, ConfirmLeaf, AskNSID,
     ConfirmNSID, ChooseTelemetry, ChooseInternalLog, AskEGID, ConfirmEGID, AskValue,
     ConfirmValue, AskTMT1, AskTMT2, ConfirmTMT, Continue
<1>. QED  BY <1>1, <1>2, <1>3

LEMMA SentThenMenuStep ==
  ASSUME SentThenMenu, Next
  PROVE  SentThenMenu'
<1>1. CASE Request
  BY <1>1, RequestIssues DEF Issue, SentThenMenu
<1>2. CASE Startup \/ Menu \/ SubMenu
  BY <1>2, OthersSendNothing DEF SentThenMenu, Nothing
<1>. QED  BY <1>1, <1>2 DEF Next

LEMMA AfterAskFacts ==
  ASSUME NEW l
  PROVE  /\ AfterAsk(l) \in {"NSID", "EGID", "Internal", "Value", "TMT1", "Send"}
         /\ AfterAsk(l) = "NSID" => l = "SMART"
         /\ AfterAsk(l) = "EGID" => l = "EnduranceGroup"
         /\ AfterAsk(l) = "Internal" => l = "CreateTelemetry"
         /\ AfterAsk(l) = "Value" => l = "SetVWC"
         /\ AfterAsk(l) = "TMT1" => l = "SetHCTM"
         /\ AfterAsk(l) = "Send" => l \notin {"EnduranceGroup", "CreateTelemetry", "SetVWC", "SetHCTM"}
BY DEF AfterAsk

LEMMA LabelsStep ==
  ASSUME TypeOK, Next
  PROVE  pc' \in Labels /\ iResult' \in Results
<1>. iResult \in Results  BY DEF TypeOK
<1>. USE DEF Labels, StartupLabels, Results, Goto, BackToMenu, Continue, Exit
<1>1. CASE Startup
  BY <1>1 DEF Startup, Usage, CreateFile, StartIdentify, StartSMART, StartProtocolList
<1>2. CASE Menu
  BY <1>2 DEF Menu, AnyKey, ReadMenu, ConfirmMenu
<1>3. CASE ConfirmLeaf
  BY <1>3, AfterAskFacts DEF ConfirmLeaf
<1>4. CASE ChooseCode \/ ChooseTest
  BY <1>4 DEF ChooseCode, ChooseTest
<1>5. CASE AskNSID \/ ConfirmNSID \/ ChooseTelemetry \/ ChooseInternalLog
  BY <1>5 DEF AskNSID, ConfirmNSID, ChooseTelemetry, ChooseInternalLog
<1>6. CASE AskEGID \/ ConfirmEGID \/ AskValue \/ ConfirmValue
  BY <1>6 DEF AskEGID, ConfirmEGID, AskValue, ConfirmValue
<1>7. CASE AskTMT1 \/ AskTMT2 \/ ConfirmTMT
  BY <1>7 DEF AskTMT1, AskTMT2, ConfirmTMT
<1>8. CASE Request
  BY <1>8, RequestIssues DEF Issue
<1>. QED  BY <1>1, <1>2, <1>3, <1>4, <1>5, <1>6, <1>7, <1>8 DEF Next, SubMenu

\* The sub-menu steps that lead to a request, and where each one comes from.
LEMMA PromptOfLeafStep ==
  ASSUME TypeOK, PromptOfLeaf, Next
  PROVE  PromptOfLeaf'
<1>. USE DEF PromptOfLeaf, Goto, BackToMenu, Continue, Exit
<1>1. CASE Startup
  BY <1>1 DEF Startup, Usage, CreateFile, StartIdentify, StartSMART, StartProtocolList
<1>2. CASE AnyKey \/ ConfirmMenu
  BY <1>2 DEF AnyKey, ConfirmMenu
<1>3. CASE ReadMenu
  BY <1>3 DEF ReadMenu
<1>4. CASE ConfirmLeaf
  BY <1>4, AfterAskFacts DEF ConfirmLeaf
<1>5. CASE ChooseCode \/ ChooseTest
  BY <1>5 DEF ChooseCode, ChooseTest
<1>6. CASE AskNSID \/ ConfirmNSID \/ ChooseTelemetry \/ ChooseInternalLog
  BY <1>6 DEF AskNSID, ConfirmNSID, ChooseTelemetry, ChooseInternalLog
<1>7. CASE AskEGID \/ ConfirmEGID \/ AskValue \/ ConfirmValue
  BY <1>7 DEF AskEGID, ConfirmEGID, AskValue, ConfirmValue
<1>8. CASE AskTMT1 \/ AskTMT2 \/ ConfirmTMT
  BY <1>8 DEF AskTMT1, AskTMT2, ConfirmTMT
<1>9. CASE Request
  BY <1>9, RequestIssues DEF Issue
<1>. QED  BY <1>1, <1>2, <1>3, <1>4, <1>5, <1>6, <1>7, <1>8, <1>9 DEF Next, Menu, SubMenu

\* The numbers a later prompt uses have been collected by then.
LEMMA ArgsCollectedStep ==
  ASSUME TypeOK, PromptOfLeaf, Next
  PROVE  ArgsCollected'
<1>. ArgsCollected /\ DialogueTypes
  BY DEF TypeOK
<1>. USE DEF ArgsCollected, Goto, BackToMenu, Continue, Exit
<1>1. CASE Startup
  BY <1>1 DEF Startup, Usage, CreateFile, StartIdentify, StartSMART, StartProtocolList
<1>2. CASE AnyKey \/ ReadMenu
  BY <1>2 DEF AnyKey, ReadMenu
<1>3. CASE ConfirmMenu
  <2>1. leaf' \notin {"SetVWC", "SetHCTM"} \/ pc' # "Send"
    BY <1>3 DEF ConfirmMenu, PromptOfLeaf, ConfirmedByMenu
  <2>2. pc' \in {"Menu", "Code", "Send"}
    BY <1>3 DEF ConfirmMenu
  <2>. QED  BY <2>1, <2>2
<1>4. CASE ConfirmLeaf
  <2>1. leaf' \notin {"SetVWC", "SetHCTM"} \/ pc' # "Send"
    BY <1>4, AfterAskFacts DEF ConfirmLeaf
  <2>2. pc' \notin {"TMT2", "ValueAsk", "TMTAsk"}
    BY <1>4, AfterAskFacts DEF ConfirmLeaf
  <2>. QED  BY <2>1, <2>2
<1>5. CASE ChooseCode \/ ChooseTest
  BY <1>5 DEF ChooseCode, ChooseTest
<1>6. CASE AskNSID \/ ConfirmNSID \/ ChooseTelemetry \/ ChooseInternalLog
  BY <1>6 DEF AskNSID, ConfirmNSID, ChooseTelemetry, ChooseInternalLog, PromptOfLeaf
<1>7. CASE AskEGID \/ ConfirmEGID
  BY <1>7 DEF AskEGID, ConfirmEGID, PromptOfLeaf
<1>8. CASE AskValue
  BY <1>8, ArgsFacts DEF AskValue
<1>9. CASE ConfirmValue
  BY <1>9 DEF ConfirmValue, PromptOfLeaf
<1>10. CASE AskTMT1
  BY <1>10, ArgsFacts, ReadFacts DEF AskTMT1
<1>11. CASE AskTMT2
  <2>0. args \in Seq(Int) /\ Len(args) = 1
    BY <1>11 DEF AskTMT2, DialogueTypes
  <2>1. args[1] \in Int
    BY <2>0, PairFacts
  <2>2. ReadAgain
    BY <1>11 DEF AskTMT2
  <2>3. Len(args') = 2
    BY <1>11, <2>1, <2>2, ArgsFacts, ReadFacts DEF AskTMT2
  <2>. QED  BY <1>11, <2>3 DEF AskTMT2
<1>12. CASE ConfirmTMT
  BY <1>12 DEF ConfirmTMT, PromptOfLeaf
<1>13. CASE Request
  BY <1>13, RequestIssues DEF Issue
<1>. QED  BY <1>1, <1>2, <1>3, <1>4, <1>5, <1>6, <1>7, <1>8, <1>9, <1>10, <1>11, <1>12,
             <1>13 DEF Next, Menu, SubMenu

\* A request carries a sequence of numbers.
LEMMA SentTypeStep ==
  ASSUME TypeOK, SentThenMenu, Next
  PROVE  sent' \in [leaf: LeafNames, data: Seq(Int)]
<1>. DialogueTypes /\ ArgsCollected
  BY DEF TypeOK
<1>1. CASE Startup \/ Menu \/ SubMenu
  <2>1. sent' = [leaf |-> "None", data |-> <<>>]
    BY <1>1, OthersSendNothing DEF Nothing
  <2>2. "None" \in LeafNames /\ <<>> \in Seq(Int)
    BY ArgsFacts DEF LeafNames
  <2>. QED  BY <2>1, <2>2
<1>2. CASE Request
  <2>. pc = "Send" /\ sent' = [leaf |-> leaf, data |-> RequestData] /\ leaf \in LeafNames
    BY <1>2, RequestIssues DEF Issue, DialogueTypes
  <2>1. CASE leaf = "SetHCTM"
    <3>0. args \in Seq(Int) /\ Len(args) = 2
      BY <2>1 DEF ArgsCollected, DialogueTypes
    <3>1. args[1] \in Int /\ args[2] \in Int
      BY <3>0, PairFacts
    <3>2. PackHCTM(args[1], args[2]) \in Seq(Int)
      BY <3>1, WordFacts, ArgsFacts DEF PackHCTM
    <3>. QED  BY <2>1, <3>2 DEF RequestData
  <2>2. CASE leaf = "SetVWC"
    <3>1. args[1] \in Int
      BY <2>2 DEF ArgsCollected, DialogueTypes
    <3>2. <<6, args[1]>> \in Seq(Int) /\ <<0, 0>> \in Seq(Int)
      BY <3>1, ArgsFacts
    <3>. QED  BY <2>2, <3>2 DEF RequestData
  <2>3. CASE leaf \notin {"SetHCTM", "SetVWC"}
    BY <2>3, ArgsFacts DEF RequestData, DialogueTypes
  <2>. QED  BY <2>1, <2>2, <2>3
<1>. QED  BY <1>1, <1>2 DEF Next

\* Every prompt on the way to a request has been answered with y, or is the
\* prompt the dialogue is at.
LEMMA ConsentSoFarStep ==
  ASSUME TypeOK, PromptOfLeaf, ConsentSoFar, Next
  PROVE  ConsentSoFar'
<1>. USE DEF Goto, BackToMenu, Continue, Exit, Agree, dialogue
<1>1. CASE Startup
  BY <1>1 DEF ConsentSoFar, Startup, Usage, CreateFile, StartIdentify, StartSMART,
              StartProtocolList
<1>2. CASE AnyKey
  BY <1>2 DEF ConsentSoFar, AnyKey
<1>3. CASE ReadMenu
  BY <1>3 DEF ConsentSoFar, ReadMenu
<1>4. CASE ConfirmMenu
  <2>1. op \in ConfirmedByMenu
    BY <1>4 DEF ConfirmMenu, PromptOfLeaf
  <2>2. op \notin AsksForCode => Consent(op) = {"menu"}
    BY <2>1 DEF ConfirmedByMenu, AsksForCode, Consent
  <2>. QED  BY <1>4, <2>2 DEF ConsentSoFar, ConfirmMenu
<1>5. CASE ChooseCode \/ ChooseTest
  <2>1. UNCHANGED yes /\ pc = "Code"
    BY <1>5 DEF ChooseCode, ChooseTest
  <2>2. CASE BackToMenu
    BY <2>2 DEF ConsentSoFar
  <2>3. ASSUME NEW l \in Leaves, l.op = op, leaf' = l.leaf, pc' \in {"Kind", "Ask"}
        PROVE  ConsentSoFar'
    BY <2>1, <2>3, LeafConsent DEF ConsentSoFar
  <2>. QED  BY <1>5, <2>2, <2>3 DEF ChooseCode, ChooseTest, Selected
<1>6. CASE ConfirmLeaf
  <2>1. CASE BackToMenu
    BY <2>1 DEF ConsentSoFar
  <2>2. CASE ~BackToMenu
    <3>1. yes' = yes \cup {"leaf"} /\ pc' = AfterAsk(leaf) /\ leaf' = leaf /\ pc = "Ask"
      BY <1>6, <2>2 DEF ConfirmLeaf
    <3>2. leaf \in AskedTwice => pc' \in {"TMT1", "EGID"}
      BY <3>1 DEF AskedTwice, AfterAsk
    <3>. QED  BY <3>1, <3>2, AfterAskFacts DEF ConsentSoFar, AskedTwice
  <2>. QED  BY <2>1, <2>2
<1>7. CASE ChooseTelemetry
  BY <1>7 DEF ChooseTelemetry, ConsentSoFar, Consent
<1>8. CASE ChooseInternalLog
  BY <1>8 DEF ChooseInternalLog, ConsentSoFar, Consent, PromptOfLeaf
<1>9. CASE AskNSID \/ ConfirmNSID \/ AskEGID \/ ConfirmEGID
  BY <1>9 DEF AskNSID, ConfirmNSID, AskEGID, ConfirmEGID, ConsentSoFar
<1>10. CASE AskValue \/ ConfirmValue
  BY <1>10 DEF AskValue, ConfirmValue, ConsentSoFar
<1>11. CASE AskTMT1 \/ AskTMT2 \/ ConfirmTMT
  BY <1>11 DEF AskTMT1, AskTMT2, ConfirmTMT, ConsentSoFar
<1>12. CASE Request
  BY <1>12, RequestIssues DEF Issue, ConsentSoFar
<1>. QED  BY <1>1, <1>2, <1>3, <1>4, <1>5, <1>6, <1>7, <1>8, <1>9, <1>10, <1>11, <1>12
             DEF Next, Menu, SubMenu

\* What the buffer holds when the input ends is no consent to change the drive.
LEMMA BufferNoConsentStep ==
  ASSUME TypeOK, PromptOfLeaf, BufferNoConsent, TemperaturesChecked, Next
  PROVE  BufferNoConsent'
<1>. DialogueTypes /\ ctrl \in ControllerData \cup {ZeroController}
  BY DEF TypeOK, GlobalTypes
<1>. USE DEF Goto, BackToMenu, Continue, Exit, dialogue, consoleVars
<1>1. CASE Startup
  BY <1>1 DEF BufferNoConsent, Startup, Usage, CreateFile, StartIdentify, StartSMART,
              StartProtocolList
<1>2. CASE AnyKey \/ ReadMenu
  BY <1>2 DEF BufferNoConsent, AnyKey, ReadMenu
<1>3. CASE ConfirmMenu
  <2>1. CASE pc' # "Send"
    <3>1. pc = "Confirm" /\ "final" \notin yes /\ yes' \in {yes, yes \cup {"menu"}}
      BY <1>3 DEF ConfirmMenu, BufferNoConsent, Agree
    <3>2. pc' \in {"Menu", "Code"}
      BY <1>3, <2>1 DEF ConfirmMenu
    <3>. QED  BY <3>1, <3>2 DEF BufferNoConsent
  <2>2. CASE pc' = "Send"
    <3>1. op = MenuOp(buf.ch) /\ op \in ConfirmedByMenu
      BY <1>3 DEF ConfirmMenu, PromptOfLeaf
    <3>2. buf'.ch = "y"
      BY <1>3, <2>2 DEF ConfirmMenu, Answered
    <3>3. buf' # buf
      BY <3>1, <3>2, MenuOpFacts DEF ConfirmedByMenu
    <3>4. ~ended'
      BY <1>3, <3>3 DEF ConfirmMenu, ReadAgain, DialogueTypes
    <3>. QED  BY <2>2, <3>4 DEF BufferNoConsent
  <2>. QED  BY <2>1, <2>2
<1>4. CASE ChooseCode \/ ChooseTest
  <2>1. ReadFirst
    BY <1>4 DEF ChooseCode, ChooseTest
  <2>2. CASE BackToMenu
    BY <2>2 DEF BufferNoConsent
  <2>3. ASSUME NEW l \in Leaves, l.code = buf'.hex, leaf' = l.leaf, pc' \in {"Kind", "Ask"}
        PROVE  BufferNoConsent'
    <3>1. leaf' \in Destructive => buf'.ch \notin {"y", "Y"}
      BY <2>1, <2>3, LeafFacts, ReadFacts
    <3>. QED  BY <1>4, <2>3, <3>1 DEF BufferNoConsent, ChooseCode, ChooseTest
  <2>. QED  BY <1>4, <2>2, <2>3 DEF ChooseCode, ChooseTest, Selected
<1>5. CASE ConfirmLeaf
  <2>1. CASE BackToMenu
    BY <2>1 DEF BufferNoConsent
  <2>2. CASE ~BackToMenu
    <3>1. pc' = AfterAsk(leaf) /\ leaf' = leaf /\ pc = "Ask" /\ buf'.ch = "y"
      BY <1>5, <2>2 DEF ConfirmLeaf, Answered
    <3>2. leaf \in Destructive => buf' # buf
      BY <3>1 DEF BufferNoConsent
    <3>3. leaf \in Destructive => ~ended'
      BY <1>5, <3>2 DEF ConfirmLeaf, ReadAgain, DialogueTypes
    <3>4. "final" \notin yes /\ yes' = yes \cup {"leaf"}
      BY <1>5, <2>2 DEF ConfirmLeaf, BufferNoConsent, Agree
    <3>5. leaf = "CreateTelemetry" => leaf \in Destructive
      BY DEF Destructive
    <3>. QED  BY <3>1, <3>3, <3>4, <3>5, AfterAskFacts DEF BufferNoConsent
  <2>. QED  BY <2>1, <2>2
<1>6. CASE AskNSID \/ ConfirmNSID \/ AskEGID \/ ConfirmEGID
  BY <1>6 DEF AskNSID, ConfirmNSID, AskEGID, ConfirmEGID, BufferNoConsent, PromptOfLeaf,
              Destructive
<1>7. CASE ChooseTelemetry
  BY <1>7 DEF ChooseTelemetry, BufferNoConsent, Answered, Destructive
<1>8. CASE ChooseInternalLog
  BY <1>8 DEF ChooseInternalLog, BufferNoConsent, PromptOfLeaf
<1>13. CASE AskValue
  <2>1. CASE BackToMenu
    BY <2>1 DEF BufferNoConsent
  <2>2. CASE pc' = "ValueAsk" /\ args' = <<buf'.dec>>
    <3>1. args'[1] = buf'.dec
      BY <2>2
    <3>2. "final" \notin yes'
      BY <1>13 DEF AskValue, BufferNoConsent
    <3>. QED  BY <2>2, <3>1, <3>2 DEF BufferNoConsent
  <2>. QED  BY <1>13, <2>1, <2>2 DEF AskValue
<1>14. CASE ConfirmValue
  <2>1. /\ pc = "ValueAsk" /\ pc' = "Send" /\ leaf = "SetVWC" /\ leaf' = leaf
        /\ args' = args /\ args[1] = buf.dec /\ "final" \notin yes
    BY <1>14 DEF ConfirmValue, PromptOfLeaf, BufferNoConsent
  <2>2. ended' /\ "final" \in yes' => args'[1] = 0
    <3>1. HAVE ended' /\ "final" \in yes'
    <3>2. buf'.ch = "y"
      BY <1>14, <2>1, <3>1 DEF ConfirmValue, Answered
    <3>3. ReadAgain
      BY <1>14 DEF ConfirmValue
    <3>4. buf' = buf
      BY <3>1, <3>3 DEF ReadAgain, DialogueTypes
    <3>5. buf'.dec = 0
      BY <3>2, <3>3, ReadFacts
    <3>. QED  BY <2>1, <3>4, <3>5
  <2>. QED  BY <2>1, <2>2 DEF BufferNoConsent
<1>9. CASE AskTMT1
  BY <1>9 DEF AskTMT1, BufferNoConsent
<1>10. CASE AskTMT2
  <2>1. args' = <<args[1], buf'.dec>> /\ pc' = "TMTAsk"
    BY <1>10 DEF AskTMT2
  <2>. QED  BY <2>1 DEF BufferNoConsent
<1>11. CASE ConfirmTMT
  <2>1. CASE BackToMenu
    BY <2>1 DEF BufferNoConsent
  <2>2. CASE ~BackToMenu
    <3>1. /\ pc = "TMTAsk" /\ pc' = "Send" /\ ReadAgain
          /\ buf'.ch \in {"y", "Y"} /\ InHCTMRange(args[1], args[2])
      BY <1>11, <2>2 DEF ConfirmTMT, Answered
    <3>2. args \in Seq(Int) /\ Len(args) = 2
      BY <3>1 DEF TypeOK, ArgsCollected, DialogueTypes
    <3>3. args[1] \in Int /\ args[2] \in Int
      BY <3>2, PairFacts
    <3>4. 0 < args[2]
      <4>1. args[1] < args[2] /\ ctrl.mntmt <= args[1] /\ args[2] <= ctrl.mxtmt
        BY <3>1 DEF InHCTMRange
      <4>. QED  BY <3>3, <4>1, RangeFacts
    <3>5. args[2] = buf.dec
      BY <3>1 DEF BufferNoConsent
    <3>6. buf'.dec = 0
      BY <3>1, ReadFacts
    <3>7. buf' # buf
      BY <3>4, <3>5, <3>6
    <3>8. ~ended'
      BY <3>1, <3>7 DEF ReadAgain, DialogueTypes
    <3>. QED  BY <3>1, <3>8 DEF BufferNoConsent
  <2>. QED  BY <2>1, <2>2
<1>12. CASE Request
  BY <1>12, RequestIssues DEF Issue, BufferNoConsent
<1>. QED  BY <1>1, <1>2, <1>3, <1>4, <1>5, <1>6, <1>7, <1>8, <1>9, <1>10, <1>11, <1>12,
             <1>13, <1>14 DEF Next, Menu, SubMenu

\* The temperatures that are about to be sent have been compared with the
\* controller data the program still holds.
LEMMA TemperaturesCheckedStep ==
  ASSUME PromptOfLeaf, TemperaturesChecked, Next
  PROVE  TemperaturesChecked'
<1>. USE DEF Goto, BackToMenu, Continue, Exit, dialogue, globals
<1>1. CASE Startup
  BY <1>1 DEF TemperaturesChecked, Startup, Usage, CreateFile, StartIdentify, StartSMART,
              StartProtocolList
<1>2. CASE AnyKey \/ ReadMenu
  BY <1>2 DEF TemperaturesChecked, AnyKey, ReadMenu
<1>3. CASE ConfirmMenu
  BY <1>3 DEF TemperaturesChecked, ConfirmMenu, PromptOfLeaf, ConfirmedByMenu
<1>4. CASE ChooseCode \/ ChooseTest
  BY <1>4 DEF TemperaturesChecked, ChooseCode, ChooseTest
<1>5. CASE ConfirmLeaf
  BY <1>5, AfterAskFacts DEF TemperaturesChecked, ConfirmLeaf
<1>6. CASE AskNSID \/ ConfirmNSID \/ AskEGID \/ ConfirmEGID
  BY <1>6 DEF AskNSID, ConfirmNSID, AskEGID, ConfirmEGID, TemperaturesChecked, PromptOfLeaf
<1>7. CASE ChooseTelemetry \/ ChooseInternalLog \/ AskValue \/ ConfirmValue
  BY <1>7 DEF ChooseTelemetry, ChooseInternalLog, AskValue, ConfirmValue,
              TemperaturesChecked, PromptOfLeaf
<1>8. CASE AskTMT1 \/ AskTMT2
  BY <1>8 DEF AskTMT1, AskTMT2, TemperaturesChecked
<1>9. CASE ConfirmTMT
  BY <1>9 DEF ConfirmTMT, TemperaturesChecked, InHCTMRange
<1>10. CASE Request
  BY <1>10, RequestIssues DEF Issue, TemperaturesChecked
<1>. QED  BY <1>1, <1>2, <1>3, <1>4, <1>5, <1>6, <1>7, <1>8, <1>9, <1>10
             DEF Next, Menu, SubMenu

LEMMA StartedInOrderStep ==
  ASSUME TypeOK, PromptOfLeaf, StartedInOrder, Next
  PROVE  StartedInOrder'
<1>1. /\ trusted.genuine => trusted'.genuine
      /\ smart => smart'
      /\ protocols' # {} => listed'
  BY GlobalsStep
<1>2. pc' \notin {"Create", "Identify", "Exited"} => trusted'.genuine
  <2>. USE DEF StartedInOrder
  <2>1. CASE pc \notin {"Create", "Identify", "Exited"}
    BY <1>1, <2>1
  <2>2. CASE Usage \/ CreateFile
    BY <2>2 DEF Usage, CreateFile, Exit
  <2>3. CASE StartIdentify
    <3>1. PICK res \in {0, -1} : /\ CallIdentifyController(res)
                                 /\ pc' = IF res = 0 THEN "GetSMART" ELSE "Exited"
      BY <2>3 DEF StartIdentify
    <3>. QED  BY <3>1, CallIdentifyControllerFacts DEF TypeOK
  <2>4. pc \in {"Create", "Identify", "Exited"} => Usage \/ CreateFile \/ StartIdentify
    BY DEF Next, Startup, StartSMART, StartProtocolList, Menu, AnyKey, ReadMenu, ConfirmMenu,
       SubMenu, ChooseCode, ChooseTest, ConfirmLeaf, AskNSID, ConfirmNSID, ChooseTelemetry,
       ChooseInternalLog, AskEGID, ConfirmEGID, AskValue, ConfirmValue, AskTMT1, AskTMT2,
       ConfirmTMT, Request, SendIdentifyController, SendGetSMART, SendIdentifyNamespace,
       SendIOCSNamespace, SendGetProtocolList, SendOther, Issue
  <2>. QED  BY <2>1, <2>2, <2>3, <2>4
<1>3. pc' \notin {"Create", "Identify", "GetSMART", "Exited"} => smart'
  <2>. USE DEF StartedInOrder
  <2>1. CASE pc \notin {"Create", "Identify", "GetSMART", "Exited"}
    BY <1>1, <2>1
  <2>2. CASE Usage \/ CreateFile \/ StartIdentify
    BY <2>2 DEF Usage, CreateFile, Exit, StartIdentify
  <2>3. CASE StartSMART
    <3>1. PICK res \in {0, -1} : CallGetSMART(res) /\ (res # 0 => pc' = "Exited")
      BY <2>3 DEF StartSMART
    <3>. QED  BY <3>1, CallGetSMARTFacts DEF TypeOK
  <2>4. pc \in {"Create", "Identify", "GetSMART", "Exited"} =>
          Usage \/ CreateFile \/ StartIdentify \/ StartSMART
    BY DEF Next, Startup, StartProtocolList, Menu, AnyKey, ReadMenu, ConfirmMenu,
       SubMenu, ChooseCode, ChooseTest, ConfirmLeaf, AskNSID, ConfirmNSID, ChooseTelemetry,
       ChooseInternalLog, AskEGID, ConfirmEGID, AskValue, ConfirmValue, AskTMT1, AskTMT2,
       ConfirmTMT, Request, SendIdentifyController, SendGetSMART, SendIdentifyNamespace,
       SendIOCSNamespace, SendGetProtocolList, SendOther, Issue
  <2>. QED  BY <2>1, <2>2, <2>3, <2>4
<1>4. pc' = "Send" /\ leaf' = "Level0Discovery" => 1 \in protocols'
  <2>. USE DEF Goto, BackToMenu, Continue, Exit, dialogue, globals
  <2>1. CASE Startup
    BY <2>1 DEF Startup, Usage, CreateFile, StartIdentify, StartSMART, StartProtocolList
  <2>2. CASE AnyKey \/ ReadMenu
    BY <2>2 DEF AnyKey, ReadMenu
  <2>3. CASE ConfirmMenu
    BY <2>3 DEF ConfirmMenu, PromptOfLeaf, ConfirmedByMenu
  <2>4. CASE ConfirmLeaf
    BY <2>4 DEF ConfirmLeaf, AllowedAfter
  <2>5. CASE ChooseCode \/ ChooseTest
    BY <2>5 DEF ChooseCode, ChooseTest
  <2>6. CASE AskNSID \/ ConfirmNSID \/ ChooseTelemetry \/ ChooseInternalLog
    BY <2>6 DEF AskNSID, ConfirmNSID, ChooseTelemetry, ChooseInternalLog, PromptOfLeaf
  <2>7. CASE AskEGID \/ ConfirmEGID \/ AskValue \/ ConfirmValue
    BY <2>7 DEF AskEGID, ConfirmEGID, AskValue, ConfirmValue, PromptOfLeaf
  <2>8. CASE AskTMT1 \/ AskTMT2 \/ ConfirmTMT
    BY <2>8 DEF AskTMT1, AskTMT2, ConfirmTMT, PromptOfLeaf
  <2>9. CASE Request
    BY <2>9, RequestIssues DEF Issue
  <2>. QED  BY <2>1, <2>2, <2>3, <2>4, <2>5, <2>6, <2>7, <2>8, <2>9 DEF Next, Menu, SubMenu
<1>. QED  BY <1>1, <1>2, <1>3, <1>4 DEF StartedInOrder

-----------------------------------------------------------------------------
(* The capability gate.                                                    *)

\* No step of the program changes the controller data, except the two that
\* identify the controller.
LEMMA CtrlKept ==
  ASSUME Next
  PROVE  UNCHANGED <<ctrl, trusted>> \/ StartIdentify \/ SendIdentifyController
<1>. USE DEF globals, Goto, BackToMenu, Continue
<1>1. CASE Usage \/ CreateFile \/ StartSMART \/ StartProtocolList
  BY <1>1 DEF Usage, CreateFile, StartSMART, StartProtocolList
<1>2. CASE Menu
  BY <1>2 DEF Menu, AnyKey, ReadMenu, ConfirmMenu
<1>3. CASE SubMenu
  BY <1>3 DEF SubMenu, ChooseCode, ChooseTest, ConfirmLeaf, AskNSID, ConfirmNSID,
     ChooseTelemetry, ChooseInternalLog, AskEGID, ConfirmEGID, AskValue, ConfirmValue,
     AskTMT1, AskTMT2, ConfirmTMT
<1>4. CASE SendGetSMART \/ SendIdentifyNamespace \/ SendIOCSNamespace
           \/ SendGetProtocolList \/ SendOther
  BY <1>4 DEF SendGetSMART, SendIdentifyNamespace, SendIOCSNamespace, SendGetProtocolList,
              SendOther
<1>. QED  BY <1>1, <1>2, <1>3, <1>4 DEF Next, Startup, Request

\* A code is asked for when the bits of the menu command have been tested.
LEMMA CodeGatedStep ==
  ASSUME Next
  PROVE  CodeGated'
<1>. USE DEF CodeGated, Goto, BackToMenu, Continue, Exit, globals
<1>1. CASE Startup
  BY <1>1 DEF Startup, Usage, CreateFile, StartIdentify, StartSMART, StartProtocolList
<1>2. CASE AnyKey
  BY <1>2 DEF AnyKey
<1>3. CASE ReadMenu
  <2>1. op' \notin ConfirmedByMenu => OpNeeds(op') = {}
    BY DEF ConfirmedByMenu, OpNeeds
  <2>2. pc' = "Code" => op' \in AsksForCode \ ConfirmedByMenu
    BY <1>3 DEF ReadMenu
  <2>. QED  BY <2>1, <2>2
<1>4. CASE ConfirmMenu
  BY <1>4 DEF ConfirmMenu
<1>5. CASE ConfirmLeaf
  BY <1>5, AfterAskFacts DEF ConfirmLeaf
<1>6. CASE ChooseCode \/ ChooseTest \/ ChooseTelemetry \/ ChooseInternalLog
  BY <1>6 DEF ChooseCode, ChooseTest, ChooseTelemetry, ChooseInternalLog
<1>7. CASE AskNSID \/ ConfirmNSID \/ AskEGID \/ ConfirmEGID \/ AskValue \/ ConfirmValue
           \/ AskTMT1 \/ AskTMT2 \/ ConfirmTMT
  BY <1>7 DEF AskNSID, ConfirmNSID, AskEGID, ConfirmEGID, AskValue, ConfirmValue,
              AskTMT1, AskTMT2, ConfirmTMT
<1>8. CASE Request
  BY <1>8, RequestIssues DEF Issue
<1>. QED  BY <1>1, <1>2, <1>3, <1>4, <1>5, <1>6, <1>7, <1>8 DEF Next, Menu, SubMenu

\* Two steps select a leaf, and one tells the telemetry requests apart.
LEMMA LeafGatedStep ==
  ASSUME CodeGated, LeafGated, Next
  PROVE  LeafGated'
<1>. USE DEF Goto, BackToMenu, Continue, Exit, globals
<1>1. ASSUME pc' \notin {"Kind", "Ask"}
      PROVE  LeafGated'
  BY <1>1 DEF LeafGated
<1>2. ASSUME pc = "Code", NEW l \in Selected, leaf' = l.leaf, args' = <<l.code>>, op' = op,
             pc' = IF l.leaf = "TelemetryHost" THEN "Kind" ELSE "Ask",
             ctrl' = ctrl, l.before \subseteq ctrl.caps
      PROVE  LeafGated'
  <2>1. l \in Leaves /\ l.op = op /\ SelectedAs(leaf') = l.leaf
    BY <1>2, LeafKinds DEF Selected
  <2>2. OpNeeds(op) \subseteq ctrl.caps
    BY <1>2 DEF CodeGated
  <2>. QED  BY <1>2, <2>1, <2>2 DEF LeafGated
<1>3. CASE ChooseCode
  BY <1>1, <1>2, <1>3 DEF ChooseCode
<1>4. CASE ChooseTest
  <2>1. ASSUME NEW l \in Leaves, l.op = "SelfTest"
        PROVE  l.before = {} /\ l.leaf # "TelemetryHost"
    BY <2>1 DEF Leaves, IdentifyLeaves, LogPageLeaves, SetFeatureLeaves, SelfTestLeaves,
                SecurityLeaves, GetFeatureLeaves, Leaf
  <2>2. CASE BackToMenu
    BY <1>1, <2>2
  <2>3. CASE \E l \in Selected : /\ leaf' = l.leaf /\ Goto("Ask")
                                 /\ args' = <<l.code>> /\ UNCHANGED op
    <3>1. PICK l \in Selected : /\ leaf' = l.leaf /\ Goto("Ask")
                                /\ args' = <<l.code>> /\ UNCHANGED op
      BY <2>3
    <3>2. l.before = {} /\ l.leaf # "TelemetryHost"
      BY <1>4, <2>1 DEF ChooseTest, Selected
    <3>. QED  BY <1>2, <1>4, <3>1, <3>2 DEF ChooseTest
  <2>. QED  BY <1>4, <2>2, <2>3 DEF ChooseTest
<1>5. CASE ChooseTelemetry
  <2>1. SelectedAs("CreateTelemetry") = "TelemetryHost"
        /\ SelectedAs("ReadTelemetry") = "TelemetryHost"
        /\ SelectedAs("TelemetryHost") = "TelemetryHost"
    BY DEF SelectedAs
  <2>2. CASE pc' = "Menu"
    BY <1>1, <2>2
  <2>3. CASE pc' = "Ask"
    <3>1. /\ pc = "Kind" /\ SelectedAs(leaf') = "TelemetryHost"
          /\ op' = op /\ args' = args /\ ctrl' = ctrl
      BY <1>5, <2>1, <2>3 DEF ChooseTelemetry
    <3>. QED  BY <2>1, <2>3, <3>1 DEF LeafGated
  <2>. QED  BY <1>5, <2>2, <2>3 DEF ChooseTelemetry
<1>6. CASE Startup
  BY <1>1, <1>6 DEF Startup, Usage, CreateFile, StartIdentify, StartSMART, StartProtocolList
<1>7. CASE Menu
  BY <1>1, <1>7 DEF Menu, AnyKey, ReadMenu, ConfirmMenu
<1>8. CASE ConfirmLeaf
  BY <1>1, <1>8, AfterAskFacts DEF ConfirmLeaf
<1>9. CASE AskNSID \/ ConfirmNSID \/ ChooseInternalLog \/ AskEGID \/ ConfirmEGID
           \/ AskValue \/ ConfirmValue \/ AskTMT1 \/ AskTMT2 \/ ConfirmTMT
  BY <1>1, <1>9 DEF AskNSID, ConfirmNSID, ChooseInternalLog, AskEGID, ConfirmEGID, AskValue,
     ConfirmValue, AskTMT1, AskTMT2, ConfirmTMT
<1>10. CASE Request
  BY <1>1, <1>10, RequestIssues DEF Issue
<1>. QED  BY <1>3, <1>4, <1>5, <1>6, <1>7, <1>8, <1>9, <1>10 DEF Next, SubMenu

\* A dialogue that is past its tests keeps what it has tested: the prompts that
\* are left change the numbers, and not those of a Get Features.
LEMMA RequestGatedStep ==
  ASSUME PromptOfLeaf, LeafGated, RequestGated, Next
  PROVE  RequestGated'
<1>. USE DEF Goto, BackToMenu, Continue, Exit, globals
<1>1. ASSUME pc' \notin PastTheTests
      PROVE  RequestGated'
  BY <1>1 DEF RequestGated
<1>2. CASE ConfirmMenu
  <2>1. CASE pc' # "Send"
    BY <1>1, <1>2, <2>1 DEF ConfirmMenu, PastTheTests
  <2>2. CASE pc' = "Send"
    <3>1. /\ leaf' = op /\ op \in ConfirmedByMenu /\ ctrl' = ctrl
          /\ OpNeeds(op) \subseteq ctrl.caps
      BY <1>2, <2>2 DEF ConfirmMenu, PromptOfLeaf
    <3>2. Needs([leaf |-> leaf', data |-> args']) \subseteq OpNeeds(op)
      BY <3>1, NeedsOfMenu
    <3>. QED  BY <3>1, <3>2 DEF RequestGated
  <2>. QED  BY <2>1, <2>2
<1>3. CASE ConfirmLeaf
  <2>1. CASE BackToMenu
    BY <1>1, <2>1 DEF PastTheTests
  <2>2. CASE AllowedAfter /\ UNCHANGED <<op, leaf, args, ctrl>>
    <3>1. PICK l \in Leaves : /\ l.op = op /\ l.leaf = SelectedAs(leaf) /\ args = <<l.code>>
                              /\ OpNeeds(l.op) \cup l.before \subseteq ctrl.caps
      BY <1>3 DEF ConfirmLeaf, LeafGated
    <3>2. l.after \subseteq ctrl.caps
      BY <2>2, <3>1 DEF AllowedAfter
    <3>3. leaf \notin ConfirmedByMenu
      BY <3>1, LeafKinds DEF SelectedAs, ConfirmedByMenu
    <3>4. Needs([leaf |-> leaf, data |-> args]) \subseteq OpNeeds(l.op) \cup l.before \cup l.after
      BY <3>1, <3>3, NeedsOfLeaf
    <3>. QED  BY <2>2, <3>1, <3>2, <3>4 DEF RequestGated
  <2>. QED  BY <1>3, <2>1, <2>2 DEF ConfirmLeaf
<1>4. ASSUME pc \in PastTheTests, ctrl' = ctrl, NEW x, NEW y, leaf = x, leaf' = y,
             <<x, y>> \in {<<"SMART", "SMART">>, <<"EnduranceGroup", "EnduranceGroup">>,
                           <<"SetVWC", "SetVWC">>, <<"SetHCTM", "SetHCTM">>,
                           <<"CreateTelemetry", "CreateTelemetry">>,
                           <<"CreateTelemetry", "InternalLog">>}
      PROVE  RequestGated'
  <2>1. /\ SelectedAs(x) = SelectedAs(y) /\ SelectedAs(x) # "GetFeature"
        /\ x \notin ConfirmedByMenu /\ y \notin ConfirmedByMenu
    BY <1>4 DEF SelectedAs, ConfirmedByMenu
  <2>2. Needs([leaf |-> leaf', data |-> args']) = Needs([leaf |-> leaf, data |-> args])
    BY <1>4, <2>1, NeedsOfName
  <2>. QED  BY <1>4, <2>2 DEF RequestGated
<1>5. CASE AskNSID \/ ConfirmNSID
  BY <1>4, <1>5 DEF AskNSID, ConfirmNSID, PromptOfLeaf, PastTheTests
<1>6. CASE ChooseInternalLog
  BY <1>4, <1>6 DEF ChooseInternalLog, PromptOfLeaf, PastTheTests
<1>7. CASE AskEGID \/ ConfirmEGID
  BY <1>1, <1>4, <1>7 DEF AskEGID, ConfirmEGID, PromptOfLeaf, PastTheTests
<1>8. CASE AskValue \/ ConfirmValue
  BY <1>1, <1>4, <1>8 DEF AskValue, ConfirmValue, PromptOfLeaf, PastTheTests
<1>9. CASE AskTMT1 \/ AskTMT2 \/ ConfirmTMT
  BY <1>1, <1>4, <1>9 DEF AskTMT1, AskTMT2, ConfirmTMT, PromptOfLeaf, PastTheTests
<1>10. CASE ChooseCode \/ ChooseTest \/ ChooseTelemetry
  BY <1>1, <1>10 DEF ChooseCode, ChooseTest, ChooseTelemetry, PastTheTests
<1>11. CASE Startup
  BY <1>1, <1>11 DEF Startup, Usage, CreateFile, StartIdentify, StartSMART, StartProtocolList,
                     PastTheTests
<1>12. CASE AnyKey \/ ReadMenu
  BY <1>1, <1>12 DEF AnyKey, ReadMenu, PastTheTests
<1>13. CASE Request
  BY <1>1, <1>13, RequestIssues DEF Issue, PastTheTests
<1>. QED  BY <1>2, <1>3, <1>5, <1>6, <1>7, <1>8, <1>9, <1>10, <1>11, <1>12, <1>13
             DEF Next, Menu, SubMenu

-----------------------------------------------------------------------------
(* The inductive invariant as a whole.                                     *)

LEMMA InitIInv == Init => IInv
<1>. SUFFICES ASSUME Init PROVE IInv
  OBVIOUS
<1>. USE DEF Init
<1>1. DialogueTypes
  BY ArgsFacts DEF DialogueTypes, Ops, LeafNames, Prompts
<1>2. GlobalTypes /\ ArgsCollected
  BY DEF GlobalTypes, ArgsCollected
<1>3. sent \in [leaf: LeafNames, data: Seq(Int)]
  <2>1. "None" \in LeafNames /\ <<>> \in Seq(Int)
    BY ArgsFacts DEF LeafNames
  <2>. QED  BY <2>1 DEF Nothing
<1>4. TypeOK
  BY <1>1, <1>2, <1>3 DEF TypeOK, Labels, StartupLabels, Results
<1>5. SentThenMenu /\ PromptOfLeaf /\ ConsentSoFar /\ BufferNoConsent
  BY DEF SentThenMenu, PromptOfLeaf, ConsentSoFar, BufferNoConsent
<1>6. TemperaturesChecked /\ StartedInOrder
  BY DEF TemperaturesChecked, StartedInOrder
<1>7. CodeGated /\ LeafGated /\ RequestGated
  BY DEF CodeGated, LeafGated, RequestGated, PastTheTests
<1>. QED  BY <1>4, <1>5, <1>6, <1>7 DEF IInv

LEMMA NextIInv == IInv /\ Next => IInv'
<1>. SUFFICES ASSUME IInv, Next PROVE IInv'
  OBVIOUS
<1>. /\ TypeOK /\ SentThenMenu /\ PromptOfLeaf /\ ConsentSoFar
     /\ BufferNoConsent /\ TemperaturesChecked /\ StartedInOrder
     /\ CodeGated /\ LeafGated /\ RequestGated
  BY DEF IInv
<1>1. TypeOK'
  BY LabelsStep, DialogueTypesStep, GlobalsStep, ArgsCollectedStep, SentTypeStep DEF TypeOK
<1>2. SentThenMenu' /\ PromptOfLeaf' /\ ConsentSoFar'
  BY SentThenMenuStep, PromptOfLeafStep, ConsentSoFarStep
<1>3. BufferNoConsent' /\ TemperaturesChecked' /\ StartedInOrder'
  BY BufferNoConsentStep, TemperaturesCheckedStep, StartedInOrderStep
<1>4. CodeGated' /\ LeafGated' /\ RequestGated'
  BY CodeGatedStep, LeafGatedStep, RequestGatedStep
<1>. QED  BY <1>1, <1>2, <1>3, <1>4 DEF IInv

LEMMA StutterIInv == IInv /\ UNCHANGED vars => IInv'
BY DEF IInv, TypeOK, DialogueTypes, GlobalTypes, ArgsCollected, SentThenMenu, PromptOfLeaf,
       ConsentSoFar, BufferNoConsent, TemperaturesChecked, StartedInOrder, InHCTMRange,
       CodeGated, LeafGated, RequestGated, vars, consoleVars, dialogue, globals

\* Every reachable state satisfies the inductive invariant.
THEOREM InductiveInvariant == Spec => []IInv
BY InitIInv, NextIInv, StutterIInv, PTL DEF Spec

\* Every variable has its type, and a dialogue has collected the numbers its
\* next step uses.
THEOREM TypeCorrect == Spec => []TypeOK
<1>1. IInv => TypeOK
  BY DEF IInv
<1>. QED  BY <1>1, InductiveInvariant, PTL

-----------------------------------------------------------------------------
(* The safety properties speak of the request that was sent.  A request is *)
(* looked at when it is issued; the next step forgets it.                  *)

\* No request leaves the program before every prompt on its way was answered
\* with y.
THEOREM OnlyConfirmedRequests == Spec => []SentOnlyConfirmed
<1>1. Init => SentOnlyConfirmed
  BY DEF Init, Nothing, SentOnlyConfirmed, Consent
<1>2. ASSUME IInv, Next PROVE SentOnlyConfirmed'
  <2>1. CASE Request
    BY <1>2, <2>1, RequestIssues DEF Issue, IInv, ConsentSoFar, SentOnlyConfirmed
  <2>2. CASE Startup \/ Menu \/ SubMenu
    BY <1>2, <2>2, OthersSendNothing DEF IInv, Nothing, SentOnlyConfirmed, Consent
  <2>. QED  BY <1>2, <2>1, <2>2 DEF Next
<1>3. SentOnlyConfirmed /\ UNCHANGED vars => SentOnlyConfirmed'
  BY DEF SentOnlyConfirmed, vars, dialogue
<1>. QED  BY <1>1, <1>2, <1>3, InductiveInvariant, PTL DEF Spec

\* Once the input has ended, no command that changes the drive is sent but
\* those whose last question follows the confirmation: new telemetry data, and
\* the cache, of which no value but 0 can be set.
THEOREM EndIsSafe == Spec => []NothingDestructiveAfterEnd
<1>. USE DEF NothingDestructiveAfterEnd, AfterLastConfirmation
<1>1. Init => NothingDestructiveAfterEnd
  BY DEF Init, Nothing, Destructive
<1>2. ASSUME IInv, Next PROVE NothingDestructiveAfterEnd'
  <2>1. pc' = "Internal" => ~ended'
    BY <1>2, NextIInv DEF IInv, BufferNoConsent
  <2>2. ASSUME ended', sent'.leaf \in Destructive PROVE AfterLastConfirmation'
    <3>1. CASE Request
      <4>1. /\ pc = "Send" /\ sent' = [leaf |-> leaf, data |-> RequestData]
            /\ ended' = ended
        BY <3>1, RequestIssues DEF Issue, consoleVars
      <4>3. ended /\ sent'.leaf = leaf /\ sent'.data = RequestData
        BY <2>2, <4>1
      <4>2. \/ leaf \in {"CreateTelemetry", "InternalLog"}
            \/ leaf = "SetVWC" /\ ("final" \in yes => args[1] = 0)
        BY <1>2, <2>2, <4>1, <4>3 DEF IInv, BufferNoConsent
      <4>. QED  BY <4>2, <4>3 DEF RequestData
    <3>2. CASE Startup \/ Menu \/ SubMenu
      BY <1>2, <2>2, <3>2, OthersSendNothing DEF IInv, Nothing, Destructive
    <3>. QED  BY <1>2, <3>1, <3>2 DEF Next
  <2>. QED  BY <2>1, <2>2
<1>3. NothingDestructiveAfterEnd /\ UNCHANGED vars => NothingDestructiveAfterEnd'
  BY DEF vars, consoleVars
<1>. QED  BY <1>1, <1>2, <1>3, InductiveInvariant, PTL DEF Spec

\* The 16-bit temperatures of a Set Features HCTM lie in the range of the
\* controller, in order.
THEOREM TemperaturesInRange == Spec => []HctmInRange
<1>1. Init => HctmInRange
  BY DEF Init, Nothing, HctmInRange
<1>2. ASSUME IInv, Next PROVE HctmInRange'
  <2>1. CASE Startup \/ Menu \/ SubMenu
    BY <1>2, <2>1, OthersSendNothing DEF IInv, Nothing, HctmInRange
  <2>2. CASE Request /\ leaf # "SetHCTM"
    BY <1>2, <2>2, RequestIssues DEF Issue, HctmInRange
  <2>3. CASE Request /\ leaf = "SetHCTM"
    <3>1. pc = "Send" /\ sent' = [leaf |-> "SetHCTM", data |-> PackHCTM(args[1], args[2])]
      BY <2>3, RequestIssues DEF Issue, RequestData
    <3>2. SendOther
      BY <2>3 DEF Request, SendIdentifyController, SendGetSMART, SendIdentifyNamespace,
         SendIOCSNamespace, SendGetProtocolList
    <3>3. ctrl' = ctrl
      BY <3>2 DEF SendOther, globals
    <3>4. args \in Seq(Int) /\ Len(args) = 2 /\ InHCTMRange(args[1], args[2])
      BY <1>2, <2>3, <3>1 DEF IInv, TypeOK, ArgsCollected, DialogueTypes, TemperaturesChecked
    <3>5. args[1] \in Int /\ args[2] \in Int
      BY <3>4, PairFacts
    <3>6. ctrl \in ControllerData \cup {ZeroController}
      BY <1>2 DEF IInv, TypeOK, GlobalTypes
    <3>7. /\ args[1] < args[2] /\ ctrl.mntmt <= args[1] /\ args[2] <= ctrl.mxtmt
      BY <3>4 DEF InHCTMRange
    <3>8. args[1] % 65536 = args[1] /\ args[2] % 65536 = args[2]
      <4>1. 0 <= args[1] /\ args[1] < 65536 /\ 0 <= args[2] /\ args[2] < 65536
        BY <3>5, <3>6, <3>7, RangeFacts
      <4>. QED  BY <3>5, <4>1, WordFacts
    <3>9. sent'.data[1] = args[1] /\ sent'.data[2] = args[2]
      BY <3>1, <3>5, <3>8, ArgsFacts DEF PackHCTM
    <3>. QED  BY <3>3, <3>7, <3>9 DEF HctmInRange
  <2>. QED  BY <1>2, <2>1, <2>2, <2>3 DEF Next
<1>3. HctmInRange /\ UNCHANGED vars => HctmInRange'
  BY DEF HctmInRange, vars, globals
<1>. QED  BY <1>1, <1>2, <1>3, InductiveInvariant, PTL DEF Spec

\* The menu is never shown without data of the drive.
THEOREM MenuHasData == Spec => []MenuReady
<1>1. IInv => MenuReady
  BY DEF IInv, StartedInOrder, MenuReady, Labels, StartupLabels
<1>. QED  BY <1>1, InductiveInvariant, PTL

\* Level 0 Discovery goes only to a drive that listed protocol 01h.
THEOREM DiscoveryIsListed == Spec => []Level0Listed
<1>1. Init => Level0Listed
  BY DEF Init, Nothing, Level0Listed
<1>2. ASSUME IInv, Next PROVE Level0Listed'
  <2>1. CASE Startup \/ Menu \/ SubMenu
    BY <1>2, <2>1, OthersSendNothing DEF IInv, Nothing, Level0Listed
  <2>2. CASE Request /\ leaf # "Level0Discovery"
    BY <1>2, <2>2, RequestIssues DEF Issue, Level0Listed
  <2>3. CASE Request /\ leaf = "Level0Discovery"
    <3>1. SendOther
      BY <2>3 DEF Request, SendIdentifyController, SendGetSMART, SendIdentifyNamespace,
         SendIOCSNamespace, SendGetProtocolList
    <3>. QED  BY <1>2, <2>3, <3>1
              DEF SendOther, Issue, globals, IInv, StartedInOrder, Level0Listed
  <2>. QED  BY <1>2, <2>1, <2>2, <2>3 DEF Next
<1>3. Level0Listed /\ UNCHANGED vars => Level0Listed'
  BY DEF Level0Listed, vars, globals
<1>. QED  BY <1>1, <1>2, <1>3, InductiveInvariant, PTL DEF Spec
\* A command that depends on an optional capability is sent only while the
\* controller data the program holds declare it.
THEOREM RequestsAreGated == Spec => []GatedByController
<1>1. Init => GatedByController
  BY NeedsNothing DEF Init, GatedByController
<1>2. ASSUME IInv, Next PROVE GatedByController'
  <2>1. CASE Startup \/ Menu \/ SubMenu
    BY <1>2, <2>1, OthersSendNothing, NeedsNothing DEF IInv, GatedByController
  <2>2. CASE Request
    <3>1. pc = "Send" /\ sent' = [leaf |-> leaf, data |-> RequestData]
      BY <2>2, RequestIssues DEF Issue
    <3>2. CASE leaf = "Controller"
      BY <3>1, <3>2, NeedsNothing DEF GatedByController
    <3>3. CASE leaf # "Controller"
      <4>1. ctrl' = ctrl
        BY <1>2, <2>2, <3>1, <3>3, CtrlKept DEF SendIdentifyController, StartIdentify
      <4>2. Needs([leaf |-> leaf, data |-> RequestData]) = Needs([leaf |-> leaf, data |-> args])
        <5>1. CASE leaf = "GetFeature"
          BY <5>1 DEF RequestData
        <5>2. CASE leaf # "GetFeature" /\ leaf \notin ConfirmedByMenu
          <6>1. SelectedAs(leaf) # "GetFeature"
            BY <5>2 DEF SelectedAs
          <6>. QED  BY <5>2, <6>1, NeedsOfName
        <5>3. CASE leaf \in ConfirmedByMenu
          <6>1. RequestData = <<>> /\ leaf # "GetFeature"
            BY <5>3 DEF RequestData, ConfirmedByMenu
          <6>2. SelectedAs(leaf) = leaf /\ \A k \in Leaves : k.leaf # leaf
            BY <5>3, LeafKinds DEF SelectedAs, ConfirmedByMenu
          <6>. QED  BY <6>1, <6>2 DEF Needs
        <5>. QED  BY <5>1, <5>2, <5>3
      <4>3. Needs([leaf |-> leaf, data |-> args]) \subseteq ctrl.caps
        BY <1>2, <3>1 DEF IInv, RequestGated, PastTheTests
      <4>. QED  BY <3>1, <4>1, <4>2, <4>3 DEF GatedByController
    <3>. QED  BY <3>2, <3>3
  <2>. QED  BY <1>2, <2>1, <2>2 DEF Next
<1>3. GatedByController /\ UNCHANGED vars => GatedByController'
  BY DEF GatedByController, vars, globals
<1>. QED  BY <1>1, <1>2, <1>3, InductiveInvariant, PTL DEF Spec

-----------------------------------------------------------------------------
(* Rejected controller data.  GatedByTrusted fails (Identify Controller    *)
(* keeps what it rejects), but only while the data held are such.          *)

TrustedWhileGenuine == ctrl.genuine => ctrl = trusted

LEMMA TrustedWhileGenuineStep ==
  ASSUME TrustedWhileGenuine, Next
  PROVE  TrustedWhileGenuine'
<1>1. CASE StartIdentify \/ SendIdentifyController
  <2>1. PICK v \in VerdictsOf(IdentifyController), data \in ControllerData :
          /\ v = "badContent" => ~data.genuine
          /\ ctrl' = IF Stores(IdentifyController, v) THEN data ELSE ctrl
          /\ trusted' = IF v = "accepted" THEN data ELSE trusted
    BY <1>1 DEF StartIdentify, SendIdentifyController, CallIdentifyController
  <2>2. CASE v = "accepted"
    BY <2>1, <2>2 DEF Stores, IdentifyController, Shape, TrustedWhileGenuine
  <2>3. CASE v # "accepted"
    BY <2>1, <2>3 DEF Stores, TrustedWhileGenuine
  <2>. QED  BY <2>2, <2>3
<1>2. CASE ~(StartIdentify \/ SendIdentifyController)
  BY <1>2, CtrlKept DEF TrustedWhileGenuine
<1>. QED  BY <1>1, <1>2

\* While the controller data the program holds have a vendor and a namespace, a
\* command that depends on an optional capability is sent only if the last data
\* the program accepted declare it.
THEOREM RejectedDataAreTheCause == Spec => [](ctrl.genuine => GatedByTrusted)
<1>1. Init => TrustedWhileGenuine
  BY DEF Init, TrustedWhileGenuine, ZeroController
<1>2. TrustedWhileGenuine /\ UNCHANGED vars => TrustedWhileGenuine'
  BY DEF TrustedWhileGenuine, vars, globals
<1>3. TrustedWhileGenuine /\ GatedByController => (ctrl.genuine => GatedByTrusted)
  BY DEF TrustedWhileGenuine, GatedByController, GatedByTrusted
<1>. QED  BY <1>1, <1>2, <1>3, TrustedWhileGenuineStep, RequestsAreGated, PTL DEF Spec

-----------------------------------------------------------------------------
(* The safety half of DialogueEnds.                                        *)

LEMMA RemainingFacts ==
  /\ Remaining("Menu") = 0 /\ Remaining("Exited") = 0
  /\ Remaining("Send") = 1 /\ Remaining("AnyKey") = 1 /\ Remaining("GetProtocolList") = 1
  /\ Remaining("NSIDAsk") = 2 /\ Remaining("Internal") = 2 /\ Remaining("EGIDAsk") = 2
  /\ Remaining("ValueAsk") = 2 /\ Remaining("TMTAsk") = 2 /\ Remaining("GetSMART") = 2
  /\ Remaining("NSID") = 3 /\ Remaining("EGID") = 3 /\ Remaining("Value") = 3
  /\ Remaining("TMT2") = 3 /\ Remaining("Identify") = 3
  /\ Remaining("TMT1") = 4 /\ Remaining("Create") = 4
  /\ Remaining("Ask") = 5 /\ Remaining("Kind") = 6
  /\ Remaining("Code") = 7 /\ Remaining("Confirm") = 8
BY DEF Remaining

\* Every step of start-up and of a dialogue leaves fewer to come.
THEOREM DialoguesAdvance == Spec => DialogueAdvances
<1>1. ASSUME Next, pc # "Menu" PROVE Remaining(pc') < Remaining(pc)
  <2>. USE <1>1, RemainingFacts DEF Goto, BackToMenu, Continue, Exit
  <2>1. CASE Startup
    BY <2>1 DEF Startup, Usage, CreateFile, StartIdentify, StartSMART, StartProtocolList
  <2>2. CASE Menu
    <3>1. CASE AnyKey
      BY <3>1 DEF AnyKey
    <3>2. CASE ConfirmMenu
      <4>1. pc = "Confirm" /\ pc' \in {"Menu", "Code", "Send"}
        BY <3>2 DEF ConfirmMenu
      <4>. QED  BY <4>1
    <3>. QED  BY <2>2, <3>1, <3>2 DEF Menu, ReadMenu
  <2>3. CASE ConfirmLeaf
    <3>1. pc = "Ask" /\ pc' \in {"Menu", AfterAsk(leaf)}
      BY <2>3 DEF ConfirmLeaf
    <3>. QED  BY <3>1, AfterAskFacts
  <2>4. CASE ChooseCode \/ ChooseTest
    BY <2>4 DEF ChooseCode, ChooseTest
  <2>5. CASE AskNSID \/ ConfirmNSID \/ ChooseTelemetry \/ ChooseInternalLog
    BY <2>5 DEF AskNSID, ConfirmNSID, ChooseTelemetry, ChooseInternalLog
  <2>6. CASE AskEGID \/ ConfirmEGID \/ AskValue \/ ConfirmValue
    BY <2>6 DEF AskEGID, ConfirmEGID, AskValue, ConfirmValue
  <2>7. CASE AskTMT1 \/ AskTMT2 \/ ConfirmTMT
    BY <2>7 DEF AskTMT1, AskTMT2, ConfirmTMT
  <2>8. CASE Request
    BY <2>8, RequestIssues DEF Issue
  <2>. QED  BY <2>1, <2>2, <2>3, <2>4, <2>5, <2>6, <2>7, <2>8 DEF Next, SubMenu
<1>. QED  BY <1>1, PTL DEF Spec, DialogueAdvances
=============================================================================
