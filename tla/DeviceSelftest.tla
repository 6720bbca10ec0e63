--------------------------- MODULE DeviceSelftest ---------------------------
(***************************************************************************)
(* iNVMeDeviceSelftest run by several processes on one drive.  The function*)
(* reads the Device Self-test log, asks the user to confirm and sends the  *)
(* command; the drive starts and ends tests in between.  The drive runs one*)
(* test at a time and fails a command that would start a second one; an    *)
(* abort without a test has no effect.  What every module has (the initial *)
(* states, the steps, the types) bears the name of the command here, since *)
(* SharedDriveProofs extends this module together with FormatNVM.          *)
(***************************************************************************)
EXTENDS Naturals, FiniteSets

CONSTANTS
  Hosts,   \* the processes that run the tool on the drive
  MaxTests \* bound on the tests the drive starts

ASSUME HostsAssumption == Hosts # {} /\ IsFiniteSet(Hosts)
ASSUME MaxTestsAssumption == MaxTests \in Nat

\* other: any line that is not one of the three codes of the menu.
Codes == {"short", "extended", "abort", "other"}
Starts == {"short", "extended"}
None == 0

VARIABLES
  stage,   \* per host: where its dialogue is
  code,    \* per host: iStc
  seen,    \* per host: the test its log page showed, None for bInProgress = false
  running, \* the test the drive runs: tests are numbered in the order they start
  started, \* how many tests have been started
  \* history
  known,   \* per host: how many tests had started when it read its log page
  owner    \* who started each test

hostVars == <<stage, code, seen, known>>
driveVars == <<running, started, owner>>
selftestVars == <<hostVars, driveVars>>

Tests == 1 .. MaxTests

SelftestInit ==
  /\ stage = [h \in Hosts |-> "menu"]
  /\ code = [h \in Hosts |-> "short"]
  /\ seen = [h \in Hosts |-> None]
  /\ running = None /\ started = 0
  /\ known = [h \in Hosts |-> 0]
  /\ owner = [t \in {} |-> t]

Enter(h, label) == stage' = [stage EXCEPT ![h] = label]

-----------------------------------------------------------------------------
(* A process.                                                              *)

\* The code is typed, and looked at only after the log was read.
ChooseCode(h) ==
  /\ stage[h] = "menu"
  /\ Enter(h, "log")
  /\ \E c \in Codes : code' = [code EXCEPT ![h] = c]
  /\ UNCHANGED <<seen, known, driveVars>>

InProgress(t) == t # None

\* Variant: every code that is not the abort is taken for a start.
AppliesUnlessAbort(c, t) == IF c = "abort" THEN InProgress(t) ELSE ~InProgress(t)

\* Whether the switch comes to a prompt: an unknown code never does.
Applies(c, t) ==
  \/ c \in Starts /\ ~InProgress(t)
  \/ c = "abort" /\ InProgress(t)

\* Variant: the code decides alone.
ReadLogAny(h) ==
  /\ stage[h] = "log"
  /\ seen' = [seen EXCEPT ![h] = running]
  /\ known' = [known EXCEPT ![h] = started]
  /\ Enter(h, "prompt")
  /\ UNCHANGED <<code, driveVars>>

\* iNVMeGetDeviceSelftestLog; when it fails the operation is abandoned.
ReadLog(h) ==
  /\ stage[h] = "log"
  /\ known' = [known EXCEPT ![h] = started]
  /\ UNCHANGED <<code, driveVars>>
  /\ \/ /\ seen' = [seen EXCEPT ![h] = running]
        /\ Enter(h, IF Applies(code[h], running) THEN "prompt" ELSE "menu")
     \/ /\ seen' = [seen EXCEPT ![h] = None]
        /\ Enter(h, "menu")

Confirm(h) ==
  /\ stage[h] = "prompt"
  /\ Enter(h, "send") \/ Enter(h, "menu")
  /\ UNCHANGED <<code, seen, known, driveVars>>

\* siNVMeDST: the request fails, the drive refuses it, or it obeys.
SendStart(h) ==
  /\ stage[h] = "send" /\ code[h] \in Starts
  /\ Enter(h, "menu")
  /\ UNCHANGED <<code, seen, known>>
  /\ \/ UNCHANGED <<running, started, owner>>
     \/ /\ running = None /\ started < MaxTests
        /\ started' = started + 1 /\ running' = started + 1
        /\ owner' = [t \in 1 .. started + 1 |-> IF t = started + 1 THEN h ELSE owner[t]]

SendAbort(h) ==
  /\ stage[h] = "send" /\ code[h] = "abort"
  /\ Enter(h, "menu")
  /\ running' \in {running, None}
  /\ UNCHANGED <<code, seen, known, started, owner>>

-----------------------------------------------------------------------------
\* The test completes, or a reset of the controller ends it.
TestEnds ==
  /\ running # None
  /\ running' = None
  /\ UNCHANGED <<hostVars, started, owner>>

SelftestNext ==
  \/ \E h \in Hosts :
       ChooseCode(h) \/ ReadLog(h) \/ Confirm(h) \/ SendStart(h) \/ SendAbort(h)
  \/ TestEnds

SelftestSpec == SelftestInit /\ [][SelftestNext]_selftestVars

-----------------------------------------------------------------------------
(* Properties.                                                             *)

\* What a process has been offered: a start where its log page showed no test, an
\* abort where it showed one, and nothing for a code the menu does not have.
Offered(h) == code[h] \in IF seen[h] = None THEN Starts ELSE {"abort"}

\* Every variable has its type; the running test is the youngest; and the code
\* that waits for its confirmation, or is on its way to the drive, is one the
\* switch offers for the log page this process read.
SelftestTypeOK ==
  /\ stage \in [Hosts -> {"menu", "log", "prompt", "send"}]
  /\ code \in [Hosts -> Codes]
  /\ seen \in [Hosts -> Tests \cup {None}]
  /\ started \in 0 .. MaxTests
  /\ running \in {None, started}
  /\ owner \in [1 .. started -> Hosts]
  /\ known \in [Hosts -> 0 .. started]
  /\ \A h \in Hosts : stage[h] \in {"prompt", "send"} => Offered(h)

Starting(h) == stage[h] \in {"prompt", "send"} /\ code[h] \in Starts
Aborting(h) == stage[h] \in {"prompt", "send"} /\ code[h] = "abort"

\* The only test that can stand in the way of a start is one that another
\* process started after this process had read the log page; the only test an
\* abort can hit is the one the user was told about, or one started since.
RaceWindow ==
  running # None =>
    \A h \in Hosts :
      /\ Starting(h) => running > known[h] /\ owner[running] # h
      /\ Aborting(h) => running = seen[h] \/ running > known[h]
=============================================================================
