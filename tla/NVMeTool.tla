------------------------------ MODULE NVMeTool ------------------------------
(***************************************************************************)
(* One run of nvmetool: start-up, the menu loop of main and the dialogue of*)
(* every command up to the moment its request goes to the driver.  The     *)
(* program is one thread; it interleaves with a user who answers each      *)
(* prompt with any line or ends the input, and with a driver that may fail *)
(* or answer anything.  A step of the program is the code between two      *)
(* prompts or requests.                                                    *)
(***************************************************************************)
EXTENDS CommandTable, QueryShapes, Sequences

CONSTANTS
  Chunks,         \* what one fgets of 128 bytes can deliver
  ControllerData, \* Identify Controller data the driver can return
  ProtocolLists   \* security protocol lists the drive can return

Word16 == {w \in Nat : w < 65536}

\* ch: the first character; hex, dec: what sscanf %x and %d make of the chunk,
\* 0 when they fail.
ASSUME ChunksAssumption ==
  /\ Chunks # {}
  /\ \A c \in Chunks :
       /\ c = [ch |-> c.ch, hex |-> c.hex, dec |-> c.dec]
       /\ c.ch \in STRING /\ c.hex \in Int /\ c.dec \in Int
       /\ c.ch \in {"y", "Y"} => c.hex = 0 /\ c.dec = 0

\* genuine: VID and NN are not 0.
ASSUME ControllerDataAssumption ==
  ControllerData \subseteq [genuine: BOOLEAN, caps: SUBSET Capability,
                            mntmt: Word16, mxtmt: Word16]

ASSUME ProtocolListsAssumption == ProtocolLists \subseteq SUBSET (0 .. 255)

VARIABLES
  pc,        \* the prompt or the request the program is at
  op,        \* the menu command of the dialogue
  leaf,      \* what the dialogue has selected to send
  buf,       \* strCmd of the function that is prompting
  ended,     \* a read has met the end of the input
  args,      \* the numbers the dialogue has collected
  ctrl,      \* g_stController
  smart,     \* g_stSMARTLog holds data of the drive
  nsKnown,   \* g_bNamespaceAlreadyIdentified
  protocols, \* gau8SupportedSecurityProtocol
  iResult,   \* the value main would return
  sent,      \* the request the last dialogue ended with
  \* history, for the properties only
  yes,       \* the confirmations of the dialogue that were answered with y
  trusted,   \* the last Identify Controller data that passed validation
  listed     \* a security protocol list has been retrieved

consoleVars == <<buf, ended>>
dialogue == <<op, leaf, args, yes>>
globals == <<ctrl, smart, nsKnown, protocols, trusted, listed>>
vars == <<pc, consoleVars, dialogue, globals, iResult, sent>>

Blank == [ch |-> "", hex |-> 0, dec |-> 0]
ZeroController == [genuine |-> FALSE, caps |-> {}, mntmt |-> 0, mxtmt |-> 0]
Nothing == [leaf |-> "None", data |-> <<>>]

Init ==
  /\ pc = "Create"
  /\ buf = Blank /\ ended = FALSE
  /\ op = "Unknown" /\ leaf = "None" /\ args = <<>> /\ yes = {}
  /\ ctrl = ZeroController /\ trusted = ZeroController
  /\ smart = FALSE /\ nsKnown = FALSE
  /\ protocols = {} /\ listed = FALSE
  /\ iResult = -1 /\ sent = Nothing

-----------------------------------------------------------------------------
(* The console.  At the end of the input fgets leaves the buffer as it is: *)
(* indeterminate if the function reads for the first time.                 *)

ReadFirst == buf' \in Chunks /\ ended' \in {ended, TRUE}

\* Variant: every prompt has a buffer of its own.
ReadAgainFresh == ReadFirst

ReadAgain ==
  \/ ~ended /\ buf' \in Chunks /\ UNCHANGED ended
  \/ ended' = TRUE /\ UNCHANGED buf

Answered(ch) == buf'.ch = ch

-----------------------------------------------------------------------------
(* Calls that change a global.                                             *)

\* iNVMeIdentifyController copies the data before it looks at them.
CallIdentifyController(res) ==
  \E v \in VerdictsOf(IdentifyController), data \in ControllerData :
    /\ v = "accepted" => data.genuine
    /\ v = "badContent" => ~data.genuine
    /\ res = ResultOf(IdentifyController, v)
    /\ ctrl' = IF Stores(IdentifyController, v) THEN data ELSE ctrl
    /\ trusted' = IF v = "accepted" THEN data ELSE trusted

CallGetSMART(res) ==
  \E v \in VerdictsOf(GetSMART) :
    /\ res = ResultOf(GetSMART, v)
    /\ smart' = (smart \/ Stores(GetSMART, v))

CallIdentifyNamespace(res) ==
  IF nsKnown
  THEN res = 0 /\ UNCHANGED nsKnown
  ELSE \E v \in VerdictsOf(IdentifyNamespace) :
         /\ res = ResultOf(IdentifyNamespace, v)
         /\ nsKnown' = Stores(IdentifyNamespace, v)

\* No adapter answers the test: false is returned, which is 0.
CallGetProtocolList(res) ==
  \/ res \in {0, -1} /\ UNCHANGED <<protocols, listed>>
  \/ res = 0 /\ protocols' \in ProtocolLists /\ listed' = TRUE

-----------------------------------------------------------------------------
(* main before the menu.                                                   *)

Exit(res) == pc' = "Exited" /\ iResult' = res

Usage == /\ pc = "Create"
         /\ Exit(0)
         /\ UNCHANGED <<consoleVars, dialogue, globals, sent>>

CreateFile == /\ pc = "Create"
              /\ \/ pc' = "Identify" /\ UNCHANGED iResult
                 \/ Exit(-1)
              /\ UNCHANGED <<consoleVars, dialogue, globals, sent>>

StartIdentify ==
  /\ pc = "Identify"
  /\ \E res \in {0, -1} :
       /\ CallIdentifyController(res)
       /\ iResult' = res
       /\ pc' = IF res = 0 THEN "GetSMART" ELSE "Exited"
  /\ UNCHANGED <<consoleVars, dialogue, smart, nsKnown, protocols, listed, sent>>

\* Variant: the log page is optional.
StartSMARTOptional ==
  /\ pc = "GetSMART"
  /\ \E res \in {0, -1} : CallGetSMART(res) /\ iResult' = res
  /\ pc' = IF "SecurityCommands" \in ctrl.caps THEN "GetProtocolList" ELSE "Menu"
  /\ UNCHANGED <<consoleVars, dialogue, ctrl, nsKnown, protocols, trusted,
                 listed, sent>>

StartSMART ==
  /\ pc = "GetSMART"
  /\ \E res \in {0, -1} :
       /\ CallGetSMART(res)
       /\ iResult' = res
       /\ pc' = IF res # 0 THEN "Exited"
                ELSE IF "SecurityCommands" \in ctrl.caps THEN "GetProtocolList"
                ELSE "Menu"
  /\ UNCHANGED <<consoleVars, dialogue, ctrl, nsKnown, protocols, trusted,
                 listed, sent>>

StartProtocolList ==
  /\ pc = "GetProtocolList"
  /\ \E res \in {0, -1} :
       /\ CallGetProtocolList(res)
       /\ iResult' = res
       /\ pc' = IF res = 0 THEN "Menu" ELSE "Exited"
  /\ UNCHANGED <<consoleVars, dialogue, ctrl, smart, nsKnown, trusted, sent>>

-----------------------------------------------------------------------------
(* The menu.                                                               *)

Goto(label) == pc' = label /\ UNCHANGED <<globals, iResult>>

\* What the commands return: -1, 0, or 1 from those that return a BOOL.  main
\* stores it and overwrites it when it quits.
Results == {-1, 0, 1}

\* The dialogue is over: its locals go out of scope.
BackToMenu ==
  /\ pc' = "Menu"
  /\ op' = "Unknown" /\ leaf' = "None" /\ args' = <<>>
  /\ iResult' \in {iResult, -1, 0}
  /\ UNCHANGED globals

\* The answer to a prompt is read into buf and the program goes on at label.
Continue(label) == Goto(label) /\ UNCHANGED <<op, leaf, args, sent>>

ReadMenu ==
  /\ pc = "Menu"
  /\ ReadFirst
  /\ op' = MenuOp(buf'.ch)
  /\ leaf' = "None" /\ args' = <<>> /\ yes' = {} /\ sent' = Nothing
  /\ UNCHANGED globals
  /\ \/ /\ op' = "Quit"
        /\ pc' = "AnyKey" /\ iResult' = 0
     \/ /\ op' = "Unknown"
        /\ pc' = "Menu" /\ UNCHANGED iResult
     \/ /\ op' \in ConfirmedByMenu
        /\ pc' = "Confirm" /\ UNCHANGED iResult
     \/ /\ op' \in AsksForCode \ ConfirmedByMenu
        /\ pc' = "Code" /\ UNCHANGED iResult

\* "Press any key to terminate program": getc returns at the end of the input.
AnyKey == /\ pc = "AnyKey"
          /\ pc' = "Exited"
          /\ ended' \in {ended, TRUE}
          /\ UNCHANGED <<buf, dialogue, globals, iResult, sent>>

Agree(prompt) == yes' = yes \cup {prompt}

\* Variant: the prompt is repeated until the answer is y.
ConfirmMenuInsists ==
  /\ pc = "Confirm"
  /\ ReadAgain
  /\ UNCHANGED <<sent, yes>>
  /\ Goto(IF ~Answered("y") THEN "Confirm" ELSE IF op \in AsksForCode THEN "Code" ELSE "Send")
  /\ UNCHANGED <<op, args>>
  /\ leaf' = IF Answered("y") /\ op \notin AsksForCode THEN op ELSE leaf

ConfirmMenu ==
  /\ pc = "Confirm"
  /\ ReadAgain
  /\ UNCHANGED sent
  /\ \/ /\ ~Answered("y") \/ ~(OpNeeds(op) \subseteq ctrl.caps)
        /\ BackToMenu /\ UNCHANGED yes
     \/ /\ Answered("y") /\ OpNeeds(op) \subseteq ctrl.caps
        /\ Agree("menu")
        /\ IF op \in AsksForCode
           THEN Goto("Code") /\ UNCHANGED <<op, leaf, args>>
           ELSE Goto("Send") /\ leaf' = op /\ UNCHANGED <<op, args>>

-----------------------------------------------------------------------------
(* The sub-menus: a code in hexadecimal, then a confirmation.              *)

Selected == {l \in Leaves : l.op = op /\ l.code = buf'.hex}

ChooseCode ==
  /\ pc = "Code"
  /\ op # "SelfTest"
  /\ ReadFirst
  /\ UNCHANGED <<yes, sent>>
  /\ \/ /\ \A l \in Selected : ~(l.before \subseteq ctrl.caps)
        /\ BackToMenu
     \/ \E l \in Selected :
          /\ l.before \subseteq ctrl.caps
          /\ leaf' = l.leaf
          /\ Goto(IF l.leaf = "TelemetryHost" THEN "Kind" ELSE "Ask")
          /\ args' = <<l.code>> /\ UNCHANGED op

\* iNVMeDeviceSelftest reads the log after the code was typed and before the
\* user is asked to confirm; the log tells whether a test is running.
ChooseTest ==
  /\ pc = "Code"
  /\ op = "SelfTest"
  /\ ReadFirst
  /\ UNCHANGED <<yes, sent>>
  /\ \/ BackToMenu
     \/ \E running \in BOOLEAN, l \in Selected :
          /\ running = (l.leaf = "AbortTest")
          /\ leaf' = l.leaf
          /\ Goto("Ask")
          /\ args' = <<l.code>> /\ UNCHANGED op

\* Where a leaf goes when its confirmation is answered with y.
AfterAsk(l) ==
  CASE l = "SMART" -> IF "SmartPagePerNamespace" \in ctrl.caps THEN "NSID" ELSE "Send"
    [] l = "EnduranceGroup" -> "EGID"
    [] l = "CreateTelemetry" -> "Internal"
    [] l = "SetVWC" -> "Value"
    [] l = "SetHCTM" -> "TMT1"
    [] OTHER -> "Send"

\* The tests made after the confirmation: bits, and the list for TCG.
\* Variants: one of the two tests is missing.
AllowedAfterListOnly == leaf = "Level0Discovery" => 1 \in protocols
AllowedAfterBitsOnly ==
  \A l \in Leaves : l.op = op /\ args = <<l.code>> => l.after \subseteq ctrl.caps

AllowedAfter ==
  /\ \A l \in Leaves : l.op = op /\ args = <<l.code>> => l.after \subseteq ctrl.caps
  /\ leaf = "Level0Discovery" => 1 \in protocols

\* Variant: the answer is read and not looked at.
ConfirmLeafUnread ==
  /\ pc = "Ask"
  /\ ReadAgain
  /\ UNCHANGED <<sent, yes>>
  /\ IF AllowedAfter
     THEN Goto(AfterAsk(leaf)) /\ UNCHANGED <<op, leaf, args>>
     ELSE BackToMenu

ConfirmLeaf ==
  /\ pc = "Ask"
  /\ ReadAgain
  /\ UNCHANGED sent
  /\ \/ /\ ~Answered("y") \/ ~AllowedAfter
        /\ BackToMenu /\ UNCHANGED yes
     \/ /\ Answered("y") /\ AllowedAfter
        /\ Agree("leaf")
        /\ Goto(AfterAsk(leaf)) /\ UNCHANGED <<op, leaf, args>>

-----------------------------------------------------------------------------
(* The dialogues that ask for more.                                        *)

\* Log page 02h: the last answer is read and not looked at.
AskNSID ==
  /\ pc = "NSID"
  /\ ReadAgain
  /\ args' = <<buf'.dec>>
  /\ Goto("NSIDAsk") /\ UNCHANGED <<op, leaf, yes, sent>>

ConfirmNSID ==
  /\ pc = "NSIDAsk"
  /\ ReadAgain
  /\ IF Answered("y") THEN Agree("final") ELSE UNCHANGED yes
  /\ Continue("Send")

\* Log page 07h: create new telemetry data or not.
ChooseTelemetry ==
  /\ pc = "Kind"
  /\ ReadAgain
  /\ UNCHANGED <<yes, sent>>
  /\ \/ /\ Answered("1") \/ Answered("0")
        /\ leaf' = IF Answered("1") THEN "CreateTelemetry" ELSE "ReadTelemetry"
        /\ Goto("Ask") /\ UNCHANGED <<op, args>>
     \/ /\ ~Answered("1") /\ ~Answered("0")
        /\ BackToMenu

\* Asked on Windows builds that know IOCTL_STORAGE_GET_DEVICE_INTERNAL_LOG.
ChooseInternalLog ==
  /\ pc = "Internal"
  /\ UNCHANGED <<yes, sent>>
  /\ \/ UNCHANGED <<consoleVars, leaf>>
     \/ ReadFirst /\ leaf' = IF Answered("y") THEN "InternalLog" ELSE leaf
  /\ Goto("Send") /\ UNCHANGED <<op, args>>

AskEGID ==
  /\ pc = "EGID"
  /\ ReadFirst
  /\ args' = <<buf'.hex>>
  /\ Goto("EGIDAsk") /\ UNCHANGED <<op, leaf, yes, sent>>

ConfirmEGID ==
  /\ pc = "EGIDAsk"
  /\ ReadAgain
  /\ UNCHANGED sent
  /\ IF Answered("y") \/ Answered("Y")
     THEN Agree("final") /\ Goto("Send") /\ UNCHANGED <<op, leaf, args>>
     ELSE BackToMenu /\ UNCHANGED yes

\* iNVMeSetFeaturesVWC
AskValue ==
  /\ pc = "Value"
  /\ ReadFirst
  /\ UNCHANGED <<yes, sent>>
  /\ IF buf'.dec \in 0 .. 3
     THEN Goto("ValueAsk") /\ args' = <<buf'.dec>> /\ UNCHANGED <<op, leaf>>
     ELSE BackToMenu

\* cdw10 and cdw11 stay 0 without the y; the request is issued all the same.
ConfirmValue ==
  /\ pc = "ValueAsk"
  /\ ReadAgain
  /\ IF Answered("y") THEN Agree("final") ELSE UNCHANGED yes
  /\ Continue("Send")

\* iNVMeSetFeaturesHCTM
AskTMT1 ==
  /\ pc = "TMT1"
  /\ ReadFirst
  /\ args' = <<buf'.dec>>
  /\ Goto("TMT2") /\ UNCHANGED <<op, leaf, yes, sent>>

\* Variant: the second temperature replaces the first.
AskTMT2Overwrites ==
  /\ pc = "TMT2"
  /\ ReadAgain
  /\ args' = <<buf'.dec>>
  /\ Goto("TMTAsk") /\ UNCHANGED <<op, leaf, yes, sent>>

AskTMT2 ==
  /\ pc = "TMT2"
  /\ ReadAgain
  /\ args' = <<args[1], buf'.dec>>
  /\ Goto("TMTAsk") /\ UNCHANGED <<op, leaf, yes, sent>>

\* Variant: each bound is tested against the other temperature.
InHCTMRangeCrossed(tmt1, tmt2) ==
  tmt1 < tmt2 /\ ctrl.mntmt <= tmt2 /\ tmt1 <= ctrl.mxtmt

InHCTMRange(tmt1, tmt2) ==
  tmt1 < tmt2 /\ ctrl.mntmt <= tmt1 /\ tmt2 <= ctrl.mxtmt

ConfirmTMT ==
  /\ pc = "TMTAsk"
  /\ ReadAgain
  /\ UNCHANGED sent
  /\ \/ /\ Answered("y") \/ Answered("Y")
        /\ InHCTMRange(args[1], args[2])
        /\ Agree("final")
        /\ Goto("Send") /\ UNCHANGED <<op, leaf, args>>
     \/ /\ ~(Answered("y") \/ Answered("Y")) \/ ~InHCTMRange(args[1], args[2])
        /\ BackToMenu /\ UNCHANGED yes

-----------------------------------------------------------------------------
(* The request.  data is the part of it a property looks at: the fields    *)
(* TMT1 and TMT2 of Set Features HCTM, 16 bits each; the identifier and the*)
(* value of Set Features VWC; the identifier of Get Features.              *)

PackHCTM(tmt1, tmt2) == <<tmt1 % 65536, tmt2 % 65536>>

RequestData ==
  CASE leaf = "SetHCTM" -> PackHCTM(args[1], args[2])
    [] leaf = "SetVWC" -> IF "final" \in yes THEN <<6, args[1]>> ELSE <<0, 0>>
    [] leaf = "GetFeature" -> args
    [] OTHER -> <<>>

Issue ==
  /\ pc = "Send"
  /\ sent' = [leaf |-> leaf, data |-> RequestData]
  /\ pc' = "Menu"
  /\ op' = "Unknown" /\ leaf' = "None" /\ args' = <<>>
  /\ UNCHANGED <<consoleVars, yes>>

SendIdentifyController ==
  /\ leaf = "Controller"
  /\ Issue
  /\ \E res \in {0, -1} : CallIdentifyController(res) /\ iResult' = res
  /\ UNCHANGED <<smart, nsKnown, protocols, listed>>

SendGetSMART ==
  /\ leaf = "SMART"
  /\ Issue
  /\ \E res \in {0, -1} : CallGetSMART(res) /\ iResult' = res
  /\ UNCHANGED <<ctrl, nsKnown, protocols, trusted, listed>>

SendIdentifyNamespace ==
  /\ leaf = "Namespace"
  /\ Issue
  /\ \E res \in {0, -1} : CallIdentifyNamespace(res) /\ iResult' = res
  /\ UNCHANGED <<ctrl, smart, protocols, trusted, listed>>

\* iNVMeIdentifyIOCSNamespace gets the namespace data first.
SendIOCSNamespace ==
  /\ leaf = "IOCSNamespace"
  /\ Issue
  /\ \E res \in {0, -1} :
       /\ CallIdentifyNamespace(res)
       /\ iResult' \in IF res = 0 /\ "V20" \in ctrl.caps THEN {0, -1} ELSE {-1}
  /\ UNCHANGED <<ctrl, smart, protocols, trusted, listed>>

SendGetProtocolList ==
  /\ leaf = "ProtocolList"
  /\ Issue
  /\ \E res \in {0, -1} : CallGetProtocolList(res) /\ iResult' = res
  /\ UNCHANGED <<ctrl, smart, nsKnown, trusted>>

\* The other requests leave the globals alone.
SendOther ==
  /\ leaf \notin {"Controller", "SMART", "Namespace", "IOCSNamespace", "ProtocolList"}
  /\ Issue
  /\ iResult' \in Results
  /\ UNCHANGED globals

-----------------------------------------------------------------------------
Startup == \/ Usage \/ CreateFile
           \/ StartIdentify \/ StartSMART \/ StartProtocolList
Menu == ReadMenu \/ ConfirmMenu \/ AnyKey
SubMenu == \/ ChooseCode \/ ChooseTest \/ ConfirmLeaf
           \/ AskNSID \/ ConfirmNSID
           \/ ChooseTelemetry \/ ChooseInternalLog
           \/ AskEGID \/ ConfirmEGID
           \/ AskValue \/ ConfirmValue
           \/ AskTMT1 \/ AskTMT2 \/ ConfirmTMT
Request == \/ SendIdentifyController \/ SendGetSMART \/ SendIdentifyNamespace
           \/ SendIOCSNamespace \/ SendGetProtocolList \/ SendOther

Next == Startup \/ Menu \/ SubMenu \/ Request

Spec == Init /\ [][Next]_vars
\* The thread runs on, and the user answers or ends the input: fgets returns.
FairSpec == Spec /\ WF_vars(Next)

-----------------------------------------------------------------------------
(* Properties.                                                             *)

StartupLabels == {"Create", "Identify", "GetSMART", "GetProtocolList"}
Labels == StartupLabels \cup
  {"Menu", "Confirm", "Code", "Ask", "NSID", "NSIDAsk", "Kind", "Internal", "EGID",
   "EGIDAsk", "Value", "ValueAsk", "TMT1", "TMT2", "TMTAsk", "Send", "AnyKey", "Exited"}
Prompts == {"menu", "leaf", "final"}

GlobalTypes ==
  /\ ctrl \in ControllerData \cup {ZeroController}
  /\ trusted \in ControllerData \cup {ZeroController}
  /\ smart \in BOOLEAN /\ nsKnown \in BOOLEAN /\ listed \in BOOLEAN
  /\ protocols \in ProtocolLists \cup {{}}
DialogueTypes ==
  /\ buf \in Chunks \cup {Blank} /\ ended \in BOOLEAN
  /\ op \in Ops /\ leaf \in LeafNames
  /\ args \in Seq(Int) /\ yes \in SUBSET Prompts
ArgsCollected ==
  /\ pc \in {"TMT2", "ValueAsk"} \/ (pc = "Send" /\ leaf = "SetVWC") => Len(args) = 1
  /\ pc = "TMTAsk" \/ (pc = "Send" /\ leaf = "SetHCTM") => Len(args) = 2

\* Every variable has its type, and a dialogue has collected the numbers its
\* next step uses: TMT1 when TMT2 is asked for, both when they are confirmed.
TypeOK ==
  /\ pc \in Labels
  /\ DialogueTypes /\ GlobalTypes /\ ArgsCollected
  /\ iResult \in Results
  /\ sent \in [leaf: LeafNames, data: Seq(Int)]

\* The confirmations a request needs before it may leave the program.
Consent(l) ==
  CASE l \in {"Read", "Write", "Deallocate", "Flush", "Format", "Vendor"} -> {"menu"}
    [] l \in {"StartShort", "StartExtended", "AbortTest", "ProtocolList",
              "Level0Discovery"} -> {"menu", "leaf"}
    [] l \in {"SetHCTM", "EnduranceGroup"} -> {"leaf", "final"}
    [] l = "None" -> {}
    [] OTHER -> {"leaf"}

\* No request goes to the drive before every prompt on its way that says
\* "Press 'y' to continue" was answered with y in the same dialogue.  The two
\* exceptions are the second prompts of the SMART log page and of Set Features
\* VWC, which VwcNeedsConsent is about.
SentOnlyConfirmed == Consent(sent.leaf) \subseteq yes

\* The commands that change the drive: its data, a setting, a running self-test,
\* the telemetry data it keeps.
Destructive == {"Write", "Deallocate", "Format", "Vendor", "StartShort",
                "StartExtended", "AbortTest", "SetHCTM", "SetVWC",
                "CreateTelemetry", "InternalLog"}

\* Two ways of Destructive end with a question that is asked once the command
\* is confirmed: with which request to create telemetry data, and the value of
\* the cache.  Set Features VWC goes out when the input ends there: as a feature
\* 0 that nobody confirmed, or, where the answer in the buffer is a y, which is
\* read as the value 0 and then as its confirmation, to disable the cache.
AfterLastConfirmation ==
  \/ sent.leaf \in {"CreateTelemetry", "InternalLog"}
  \/ sent.leaf = "SetVWC" /\ sent.data \in {<<0, 0>>, <<6, 0>>}

\* Once the input has ended, no command that changes the drive is sent but
\* those of AfterLastConfirmation, whatever the prompts find in their buffers:
\* fgets leaves the answer to the previous prompt there, and no answer is a
\* choice and its confirmation at once, but for the value 0 of Set Features VWC.
\* New telemetry data are confirmed by a line that was read: the input has not
\* ended when the question after that confirmation is asked.
NothingDestructiveAfterEnd ==
  /\ ended /\ sent.leaf \in Destructive => AfterLastConfirmation
  /\ pc = "Internal" => ~ended

\* The capabilities a request depends on; the Telemetry Host-Initiated log page
\* is selected once and sent in three ways.
SelectedAs(l) ==
  IF l \in {"CreateTelemetry", "ReadTelemetry", "InternalLog"} THEN "TelemetryHost" ELSE l
Needs(request) ==
  LET chosen == {k \in Leaves : /\ k.leaf = SelectedAs(request.leaf)
                                /\ k.op = "GetFeatures" => request.data = <<k.code>>}
  IN  UNION ({OpNeeds(o) : o \in ConfirmedByMenu \cap {request.leaf}} \cup
             {OpNeeds(k.op) \cup k.before \cup k.after : k \in chosen})

\* A command that depends on an optional capability is sent only while the
\* controller data the program holds declare it, however many prompts lie
\* between the test and the request.
GatedByController == Needs(sent) \subseteq ctrl.caps

\* The same for the last controller data the program accepted.
GatedByTrusted == Needs(sent) \subseteq trusted.caps

\* The thermal management temperatures that reach the drive, cut to 16 bits
\* each, satisfy TMT1 < TMT2, MNTMT <= TMT1 and TMT2 <= MXTMT.
HctmInRange ==
  sent.leaf = "SetHCTM" =>
    /\ ctrl.mntmt <= sent.data[1]
    /\ sent.data[1] < sent.data[2]
    /\ sent.data[2] <= ctrl.mxtmt

\* The menu is never shown without data of the drive: the controller data were
\* accepted once and the SMART log page was read.
MenuReady == pc \in Labels \ (StartupLabels \cup {"Exited"}) => smart /\ trusted.genuine

\* TCG Level 0 Discovery is sent only to a drive that listed protocol 01h.
Level0Listed == sent.leaf = "Level0Discovery" => listed /\ 1 \in protocols

\* Set Features VWC is sent only after "Press 'y' to continue" was answered
\* with y.
VwcNeedsConsent == sent.leaf = "SetVWC" => "final" \in yes

\* Every dialogue comes back to the menu, or the program ends: no answer and
\* no end of the input can trap the user in a sub-menu.
DialogueEnds == pc # "Menu" ~> pc \in {"Menu", "Exited"}

\* The steps that are at most left until the menu is shown or the program ends: a prompt or a
\* request each.
Remaining(label) ==
  CASE label \in {"Menu", "Exited"} -> 0
    [] label \in {"Send", "AnyKey", "GetProtocolList"} -> 1
    [] label \in {"NSIDAsk", "Internal", "EGIDAsk", "ValueAsk", "TMTAsk", "GetSMART"} -> 2
    [] label \in {"NSID", "EGID", "Value", "TMT2", "Identify"} -> 3
    [] label \in {"TMT1", "Create"} -> 4
    [] label = "Ask" -> 5
    [] label = "Kind" -> 6
    [] label = "Code" -> 7
    [] label = "Confirm" -> 8

\* What DialogueEnds rests on: no prompt is ever repeated or come back to in a
\* dialogue, and so no start-up and no dialogue takes more than eight steps,
\* whatever the user types and the driver answers.
DialogueAdvances == [][pc # "Menu" => Remaining(pc') < Remaining(pc)]_vars

-----------------------------------------------------------------------------
(* The inductive invariant behind the safety properties: what each prompt  *)
(* has established, and what it still owes to the request it leads to.     *)

\* A request that was sent is forgotten when the next dialogue starts.
SentThenMenu == sent = Nothing \/ pc = "Menu"

PromptOfLeaf ==
  /\ pc = "Confirm" => op \in ConfirmedByMenu /\ op = MenuOp(buf.ch)
  /\ pc \in {"NSID", "NSIDAsk"} => leaf = "SMART"
  /\ pc = "Internal" => leaf = "CreateTelemetry"
  /\ pc \in {"EGID", "EGIDAsk"} => leaf = "EnduranceGroup"
  /\ pc \in {"Value", "ValueAsk"} => leaf = "SetVWC"
  /\ pc \in {"TMT1", "TMT2", "TMTAsk"} => leaf = "SetHCTM"

AskedTwice == {"SetHCTM", "EnduranceGroup"}
ConsentSoFar ==
  /\ pc = "Code" /\ op \in ConfirmedByMenu => "menu" \in yes
  /\ pc = "Ask" => Consent(leaf) \subseteq yes \cup {"leaf"} \cup
                     (IF leaf \in AskedTwice THEN {"final"} ELSE {})
  /\ pc \in {"TMT1", "TMT2", "TMTAsk", "EGID", "EGIDAsk"} =>
       Consent(leaf) \subseteq yes \cup {"final"}
  /\ pc \in {"NSID", "NSIDAsk", "Internal", "Value", "ValueAsk", "Send"} =>
       Consent(leaf) \subseteq yes

\* What stands in the buffer when the input ends is not a y, or it is a
\* temperature of 0 or the value 0 of the cache.
BufferNoConsent ==
  /\ pc = "Ask" /\ leaf \in Destructive => buf.ch \notin {"y", "Y"}
  /\ pc = "Internal" => ~ended
  /\ pc = "TMTAsk" => args[2] = buf.dec
  /\ pc = "ValueAsk" => args[1] = buf.dec
  /\ pc \in {"Confirm", "Code", "Kind", "Ask", "Value", "ValueAsk"} => "final" \notin yes
  /\ pc = "Send" /\ leaf \in Destructive /\ ended =>
       \/ leaf \in {"CreateTelemetry", "InternalLog"}
       \/ leaf = "SetVWC" /\ ("final" \in yes => args[1] = 0)

TemperaturesChecked ==
  pc = "Send" /\ leaf = "SetHCTM" => InHCTMRange(args[1], args[2])

StartedInOrder ==
  /\ pc \notin {"Create", "Identify", "Exited"} => trusted.genuine
  /\ pc \notin {"Create", "Identify", "GetSMART", "Exited"} => smart
  /\ protocols # {} => listed
  /\ pc = "Send" /\ leaf = "Level0Discovery" => 1 \in protocols

\* What has been tested of the controller data so far: the bits of the menu
\* command; then those a leaf asks for before its confirmation; past it, all
\* that the request depends on.  No prompt changes the controller data.
CodeGated == pc = "Code" => OpNeeds(op) \subseteq ctrl.caps
LeafGated ==
  /\ pc = "Kind" => leaf = "TelemetryHost"
  /\ pc \in {"Ask", "Kind"} =>
       \E l \in Leaves : /\ l.op = op /\ l.leaf = SelectedAs(leaf) /\ args = <<l.code>>
                         /\ OpNeeds(l.op) \cup l.before \subseteq ctrl.caps
PastTheTests == {"NSID", "NSIDAsk", "Internal", "EGID", "EGIDAsk", "Value", "ValueAsk",
                 "TMT1", "TMT2", "TMTAsk", "Send"}
RequestGated ==
  pc \in PastTheTests => Needs([leaf |-> leaf, data |-> args]) \subseteq ctrl.caps

IInv ==
  /\ TypeOK /\ SentThenMenu /\ PromptOfLeaf /\ ConsentSoFar
  /\ BufferNoConsent /\ TemperaturesChecked /\ StartedInOrder
  /\ CodeGated /\ LeafGated /\ RequestGated
=============================================================================
