------------------------------ MODULE FormatNVM ------------------------------
(***************************************************************************)
(* iNVMeFormatNVM run by several processes on a drive that other processes *)
(* use: lock the drive, format it, unlock it.  Each of the three requests  *)
(* may fail.  Windows grants the lock while no process has a file open and *)
(* nobody else holds it, keeps files from being opened while it is held,   *)
(* and takes it back when the handle of its holder is closed.              *)
(***************************************************************************)
EXTENDS Naturals, FiniteSets

CONSTANTS
  Tools,     \* the processes that run the tool
  Users,     \* the processes that open files of the drive
  NoOne,     \* nobody
  MaxFormats \* bound on the formats

ASSUME NoOneAssumption == NoOne \notin Tools
ASSUME MaxFormatsAssumption == MaxFormats \in Nat

VARIABLES
  pc,      \* per tool: the request it is at
  locker,  \* who holds the lock
  open,    \* the users that have files open
  formats, \* how often the drive was erased
  stuck    \* history: the tools whose unlock failed

vars == <<pc, locker, open, formats, stuck>>

Init ==
  /\ pc = [t \in Tools |-> "menu"]
  /\ locker = NoOne /\ open = {} /\ formats = 0 /\ stuck = {}

Goto(t, label) == pc' = [pc EXCEPT ![t] = label]

\* The command was confirmed and the drive declares Format NVM and
\* cryptographic erase.
Start(t) ==
  /\ pc[t] = "menu"
  /\ Goto(t, "lock")
  /\ UNCHANGED <<locker, open, formats, stuck>>

Grantable(t) == open = {} /\ locker \in {NoOne, t}

\* Variant: the lock is asked for and its result is not looked at.
LockIgnored(t) ==
  /\ pc[t] = "lock"
  /\ locker' \in {locker} \cup {x \in {t} : Grantable(x)}
  /\ Goto(t, "format")
  /\ UNCHANGED <<open, formats, stuck>>

\* siLockDrive; without the lock nothing else is done.
Lock(t) ==
  /\ pc[t] = "lock"
  /\ UNCHANGED <<open, formats, stuck>>
  /\ \/ Grantable(t) /\ locker' = t /\ Goto(t, "format")
     \/ UNCHANGED locker /\ Goto(t, "menu")

\* Variant: a failed format returns at once.
FormatReturnsEarly(t) ==
  /\ pc[t] = "format"
  /\ \/ formats < MaxFormats /\ formats' = formats + 1 /\ Goto(t, "unlock")
     \/ UNCHANGED formats /\ Goto(t, "menu")
  /\ UNCHANGED <<locker, open, stuck>>

\* siNVMeDoFormat: when it fails the drive may have been erased or not.
Format(t) ==
  /\ pc[t] = "format"
  /\ formats' \in {formats} \cup {n \in {formats + 1} : n <= MaxFormats}
  /\ Goto(t, "unlock")
  /\ UNCHANGED <<locker, open, stuck>>

\* svUnlockDrive: a failure is reported and ignored.
Unlock(t) ==
  /\ pc[t] = "unlock"
  /\ Goto(t, "menu")
  /\ UNCHANGED <<open, formats>>
  /\ \/ locker' = NoOne /\ stuck' = stuck \ {t}
     \/ UNCHANGED locker /\ stuck' = stuck \cup {t}

\* The process is closed or killed at any point, and started again.
Restart(t) ==
  /\ Goto(t, "menu")
  /\ locker' = IF locker = t THEN NoOne ELSE locker
  /\ stuck' = stuck \ {t}
  /\ UNCHANGED <<open, formats>>

Open(u) ==
  /\ locker = NoOne /\ u \notin open
  /\ open' = open \cup {u}
  /\ UNCHANGED <<pc, locker, formats, stuck>>

Close(u) ==
  /\ u \in open
  /\ open' = open \ {u}
  /\ UNCHANGED <<pc, locker, formats, stuck>>

Step(t) == Lock(t) \/ Format(t) \/ Unlock(t)

Next ==
  \/ \E t \in Tools : Start(t) \/ Step(t) \/ Restart(t)
  \/ \E u \in Users : Open(u) \/ Close(u)

\* DeviceIoControl returns; nothing makes a user choose the command again.
Spec == Init /\ [][Next]_vars
FairSpec == Spec /\ \A t \in Tools : WF_vars(Step(t))

-----------------------------------------------------------------------------
(* Properties.                                                             *)

\* Every variable has its type.
TypeOK ==
  /\ pc \in [Tools -> {"menu", "lock", "format", "unlock"}]
  /\ locker \in Tools \cup {NoOne}
  /\ open \subseteq Users
  /\ formats \in 0 .. MaxFormats
  /\ stuck \subseteq Tools

\* "before format, need to obtain lock for the designated drive": a process
\* that is about to format or to unlock holds the lock, so no two are, and no
\* other process has a file open.
FormatsOnlyLocked ==
  \A t \in Tools : pc[t] \in {"format", "unlock"} => locker = t /\ open = {}

\* A process that is back at its menu has given the lock back, unless the
\* request to unlock failed: whichever way the format went.
LockGivenBack ==
  \A t \in Tools : pc[t] \in {"menu", "lock"} /\ locker = t => t \in stuck

\* A held lock is given back, or its unlock has failed: nobody is kept from
\* the drive for ever by a command that is over.
LockComesBack ==
  \A t \in Tools : locker = t ~> locker # t \/ t \in stuck

\* Lock, format and unlock together are one step of ExclusiveFormat.
Exclusive == INSTANCE ExclusiveFormat
ImplementsExclusive == Exclusive!Spec
=============================================================================
