-------------------------- MODULE SharedDriveProofs --------------------------
(***************************************************************************)
(* Proofs about the two commands in which several processes meet at one    *)
(* drive, for any number of processes: Format NVM and Device Self-test.    *)
(***************************************************************************)
EXTENDS FormatNVM, DeviceSelftest, TLAPS

-----------------------------------------------------------------------------
(* Format NVM.  The type invariant, the lock held while a process formats  *)
(* and the lock given back afterwards are inductive together.              *)

IInv == TypeOK /\ FormatsOnlyLocked /\ LockGivenBack

LEMMA InitIInv == Init => IInv
BY NoOneAssumption, MaxFormatsAssumption
   DEF Init, IInv, TypeOK, FormatsOnlyLocked, LockGivenBack

LEMMA NextIInv == IInv /\ [Next]_vars => IInv'
<1>. SUFFICES ASSUME IInv, [Next]_vars PROVE IInv'
  OBVIOUS
<1>. USE NoOneAssumption, MaxFormatsAssumption
     DEF IInv, TypeOK, FormatsOnlyLocked, LockGivenBack, Goto
<1>1. ASSUME NEW t \in Tools, Start(t) PROVE IInv'
  BY <1>1 DEF Start
<1>2. ASSUME NEW t \in Tools, Lock(t) PROVE IInv'
  BY <1>2 DEF Lock, Grantable
<1>3. ASSUME NEW t \in Tools, Format(t) PROVE IInv'
  BY <1>3 DEF Format
<1>4. ASSUME NEW t \in Tools, Unlock(t) PROVE IInv'
  BY <1>4 DEF Unlock
<1>5. ASSUME NEW t \in Tools, Restart(t) PROVE IInv'
  BY <1>5 DEF Restart
<1>6. ASSUME NEW u \in Users, Open(u) PROVE IInv'
  BY <1>6 DEF Open
<1>7. ASSUME NEW u \in Users, Close(u) PROVE IInv'
  BY <1>7 DEF Close
<1>8. CASE UNCHANGED vars
  BY <1>8 DEF vars
<1>. QED  BY <1>1, <1>2, <1>3, <1>4, <1>5, <1>6, <1>7, <1>8 DEF Next, Step

\* Every variable has its type.
THEOREM TypeCorrect == Spec => []TypeOK
<1>1. IInv => TypeOK
  BY DEF IInv
<1>. QED  BY <1>1, InitIInv, NextIInv, PTL DEF Spec

\* A process that formats or unlocks holds the lock, and nobody has a file open.
THEOREM LockedWhileFormatting == Spec => []FormatsOnlyLocked
<1>1. IInv => FormatsOnlyLocked
  BY DEF IInv
<1>. QED  BY <1>1, InitIInv, NextIInv, PTL DEF Spec

\* A process back at its menu has given the lock back, or its unlock failed.
THEOREM LockReturned == Spec => []LockGivenBack
<1>1. IInv => LockGivenBack
  BY DEF IInv
<1>. QED  BY <1>1, InitIInv, NextIInv, PTL DEF Spec

-----------------------------------------------------------------------------
(* The refinement of ExclusiveFormat.                                      *)

LEMMA InitRefines == Init => Exclusive!Init
BY DEF Init, Exclusive!Init

\* A format that erases the drive does so under the lock; the other requests
\* of the tool are stuttering steps.
LEMMA StepRefines ==
  IInv /\ [Next]_vars => [Exclusive!Next]_<<open, formats>>
<1>. SUFFICES ASSUME IInv, [Next]_vars PROVE [Exclusive!Next]_<<open, formats>>
  OBVIOUS
<1>1. ASSUME NEW t \in Tools, Format(t) PROVE Exclusive!Erase \/ UNCHANGED <<open, formats>>
  BY <1>1 DEF Format, IInv, FormatsOnlyLocked, Exclusive!Erase
<1>2. ASSUME NEW t \in Tools, Start(t) \/ Lock(t) \/ Unlock(t) \/ Restart(t)
      PROVE  UNCHANGED <<open, formats>>
  BY <1>2 DEF Start, Lock, Unlock, Restart
<1>3. ASSUME NEW u \in Users, Open(u) PROVE Exclusive!Open(u)
  BY <1>3 DEF Open, Exclusive!Open
<1>4. ASSUME NEW u \in Users, Close(u) PROVE Exclusive!Close(u)
  BY <1>4 DEF Close, Exclusive!Close
<1>. QED  BY <1>1, <1>2, <1>3, <1>4 DEF Next, Step, vars, Exclusive!Next

\* Lock, format and unlock together are one exclusive step.
THEOREM FormatIsExclusive == Spec => ImplementsExclusive
BY InitIInv, NextIInv, InitRefines, StepRefines, PTL
   DEF Spec, ImplementsExclusive, Exclusive!Spec

-----------------------------------------------------------------------------
(* Device Self-test.  What a process saw in the log page can only be       *)
(* overtaken by tests that other processes started since.                  *)

SelftestInv == SelftestTypeOK /\ RaceWindow

LEMMA InitSelftestInv == SelftestInit => SelftestInv
BY HostsAssumption, MaxTestsAssumption
   DEF SelftestInit, SelftestInv, SelftestTypeOK, RaceWindow, Starting, Aborting, Offered, Codes,
       Starts, None, Tests

LEMMA NextSelftestInv == SelftestInv /\ [SelftestNext]_selftestVars => SelftestInv'
<1>. SUFFICES ASSUME SelftestInv, [SelftestNext]_selftestVars PROVE SelftestInv'
  OBVIOUS
<1>. USE MaxTestsAssumption
     DEF SelftestInv, SelftestTypeOK, RaceWindow, Starting, Aborting, Offered, Codes, Starts,
         None, Tests, Enter, hostVars, driveVars
<1>1. ASSUME NEW h \in Hosts, ChooseCode(h) PROVE SelftestInv'
  BY <1>1 DEF ChooseCode
<1>2. ASSUME NEW h \in Hosts, ReadLog(h) PROVE SelftestInv'
  <2>. USE <1>2 DEF ReadLog
  <2>1. SelftestTypeOK'
    <3>1. stage' \in [Hosts -> {"menu", "log", "prompt", "send"}]
      OBVIOUS
    <3>2. running \in (1 .. MaxTests) \cup {0}
      OBVIOUS
    <3>3. seen' \in [Hosts -> (1 .. MaxTests) \cup {0}]
      BY <3>2
    <3>4. known' \in [Hosts -> 0 .. started]
      OBVIOUS
    <3>5. ASSUME NEW g \in Hosts, stage'[g] \in {"prompt", "send"} PROVE Offered(g)'
      BY <3>5 DEF Applies, InProgress
    <3>. QED  BY <3>1, <3>3, <3>4, <3>5
  <2>2. ASSUME NEW g \in Hosts, g # h, running # 0
        PROVE  /\ Starting(g)' => running' > known'[g] /\ owner'[running'] # g
               /\ Aborting(g)' => running' = seen'[g] \/ running' > known'[g]
    BY <2>2
  <2>3. /\ ~(running' # 0 /\ Starting(h)')
        /\ running' # 0 /\ Aborting(h)' => running' = seen'[h]
    BY DEF Applies, InProgress
  <2>. QED  BY <2>1, <2>2, <2>3
<1>3. ASSUME NEW h \in Hosts, Confirm(h) PROVE SelftestInv'
  BY <1>3 DEF Confirm
<1>4. ASSUME NEW h \in Hosts, SendStart(h) PROVE SelftestInv'
  BY <1>4 DEF SendStart
<1>5. ASSUME NEW h \in Hosts, SendAbort(h) PROVE SelftestInv'
  BY <1>5 DEF SendAbort
<1>6. CASE TestEnds
  BY <1>6 DEF TestEnds
<1>7. CASE UNCHANGED selftestVars
  BY <1>7 DEF selftestVars
<1>. QED  BY <1>1, <1>2, <1>3, <1>4, <1>5, <1>6, <1>7 DEF SelftestNext

\* Every variable has its type, and the running test is the youngest.
THEOREM SelftestTypeCorrect == SelftestSpec => []SelftestTypeOK
<1>1. SelftestInv => SelftestTypeOK
  BY DEF SelftestInv
<1>. QED  BY <1>1, InitSelftestInv, NextSelftestInv, PTL DEF SelftestSpec

\* A start can meet, and an abort can hit by mistake, only a test that was
\* started after the log page was read.
THEOREM RaceIsBounded == SelftestSpec => []RaceWindow
<1>1. SelftestInv => RaceWindow
  BY DEF SelftestInv
<1>. QED  BY <1>1, InitSelftestInv, NextSelftestInv, PTL DEF SelftestSpec
=============================================================================
