# nvmetool-win in TLA+

nvmetool-win is a console program for Windows that opens one NVMe drive
(`\\.\PhysicalDriveN`), reads its basic data and then offers a menu: each command
is a short dialogue of prompts that ends in a request to the Windows NVMe
driver. This directory models that program, checks the models with TLC and
proves their most important properties with TLAPS. Paths below are relative to
`src/src/`; `PROJECT.json` maps every definition to its lines.

## 1. The system

### Parts, state and interaction

| Part | Code | State it keeps | Operations |
|---|---|---|---|
| Session | `NVMeTool.c`, `NVMeUtils.c`, `NVMeIdentify.c`, `NVMeGetLogPage.c`, `NVMeSetFeatures.c` | the globals `g_stController`, `g_stSMARTLog`, `g_bNamespaceAlreadyIdentified`, `gau8SupportedSecurityProtocol`; `iResult`; a line buffer per function | start-up, menu, sub-menus |
| Protocol queries | `NVMeIdentify*.c` and the log page files | one buffer per call; the globals above are their outputs | 15 functions of one shape, one request without validation |
| Set Features | `NVMeFeaturesVWC.c`, `NVMeFeaturesHCTM.c` | locals of a dialogue | ask, check, send |
| Get Features | `NVMeGetFeatures.c`, `NVMeFeatures{LBARange,APST,HMB,Timestamp}.c` | four variables per report | 16 functions |
| Telemetry | `NVMeGetTelemetry.c` | one buffer per call | two log pages, the internal log |
| SCSI pass-through | `NVMeSCSIPassThrough.c` | descriptors and a data buffer per call; the list of security protocols | Read, Write, Flush, two Security Receives |
| Device Self-test | `NVMeDeviceSelftest.c` | locals; the test runs in the drive | read log, confirm, start or abort |
| Format NVM | `NVMeFormatNVM.c` | the volume lock, held by Windows | lock, format, unlock |
| Deallocate, vendor command | `NVMeDeallocate.c`, `NVMeAdminVendorSpecificCommand.c` | none | one request each |
| Windows wrapper | `WinFunc.c` | version of Windows | `DeviceIoControl`, `CreateFile` |
| Printers | `NVMeIdentifyControllerData.c` and the print functions of the others | none; they read `g_stController` for the revision of the drive | three long reports, thirteen lists |

The program is one thread. All calls are synchronous: a dialogue calls
`iIssueDeviceIoControl`, which returns 0 or -1. The parts share the globals: the
start-up fills `g_stController` and `g_stSMARTLog`, later Identify and Get Log
Page commands overwrite them, and every other part reads capability bits from
them. The concurrency is around the program: the drive goes on working between
two requests, other processes (another nvmetool among them) use the same drive,
and the user may end the input or close the window at any prompt.

### What is hard here, and what makes each part correct

* **Session.** Between the test of a capability and the request there are
  several prompts, and the test is sometimes in another file. `fgets` leaves
  the buffer as it is at the end of the input, so a prompt may find the answer
  to the one before; a line that is no number counts as 0. Correct means: a
  request leaves only after its confirmations, only if the controller declares
  the capability, only within the limits of the controller, never unattended;
  the menu appears only with data behind it; every dialogue ends.
* **Protocol queries.** Allocation, request and two validations, each with an
  exit of its own; some functions differ in what they return there. Correct
  means: 0 means valid data, a rejected reply changes nothing, no exit loses the
  buffer.
* **Copies.** The drive changes while a session runs; the tool resets none of
  its copies, shows one of them instead of asking again, and decides by others
  what to ask for and what to say. Correct means: what is shown was once true
  and never goes back; what is said by a copy is wrong only of a changed drive.
* **Printers.** Some 250 lines look alike; the revision of the drive is tested
  in the caller, in the section, or in both; lists end in four different ways
  and are read out of replies whose length is checked in four different ways.
  Correct means: every field the revision has, under its own name, no other;
  every entry that was sent, and none that was not.
* **Get Features.** Four requests per report (for Temperature Threshold, eight
  per sensor), any of which may fail or be overtaken by another process.
  Correct means: a heading stands above its own value, a success is complete, a
  failure prints no half report.
* **SCSI pass-through.** The descriptors come in a loop of four requests with
  ignored errors and a reused header; the adapter decides between two request
  structures and asks for an alignment; the length of a list stands in two bytes
  and is computed in one.
* **Device Self-test.** The log is read, the user thinks, the command is sent.
* **Format NVM.** Three requests that fail one by one; a process may die in
  between.

`PROJECT.json` lists all hazards at their lines, with the properties that cover
them or the reason why none does.

## 2. Modules

```
CommandTable   QueryShapes          the commands and the queries as data
      \        /      \      \
      NVMeTool    AtomicQuery <- ProtocolQuery       (<- implements)
      /      \                   /          \
MCNVMeTool  NVMeToolProofs  MCProtocolQuery  ProtocolQueryProofs

ExclusiveFormat <- FormatNVM   DeviceSelftest      the commands in which
                          \     /                  processes meet at a drive
                     SharedDriveProofs
GetFeatures - GetFeaturesProofs
SCSIPassThrough - SCSIPassThroughProofs
      \
   MCSCSIPassThrough

MonotonicReads <- SessionReads - SessionReadsProofs
                       \
                    MCSessionReads
FieldTables - FieldReport - FieldReportProofs
                   \
                MCFieldReport
LogEntries - LogEntriesProofs
      \
   MCLogEntries
```

### CommandTable
`MenuOp` is `eGetCommandFromConsole`. `Leaves` has one record per entry of a
sub-menu: the code that selects it, the bits of `g_stController` tested before
the confirmation, and those tested after it.

### NVMeTool
One session. `pc` is the prompt or the request the program is at; a step is the
code between two of them. `buf` is the `strCmd` of the function that prompts,
and a line is modelled by what the code makes of it: its first character and
the values `%x` and `%d` give. `ReadFirst` reads into an uninitialised buffer
(any content if the input has ended), `ReadAgain` into one that keeps its
content at the end. `ctrl`, `smart`, `nsKnown`, `protocols` are the globals;
`sent` is the request the last dialogue ended in. `yes`, `trusted` and `listed`
are history variables. The actions follow the functions: `StartIdentify`,
`StartSMART`, `StartProtocolList` are `main` before the menu; `ReadMenu` and
`ConfirmMenu` are the menu of `NVMeUtils.c` together with the tests of `main`;
`ChooseCode`, `ConfirmLeaf` and the `Ask...`/`Confirm...` pairs are the
sub-menus; the `Send...` actions issue the request and apply its effect on the
globals, which they take from `QueryShapes` in the one-step form of
`AtomicQuery`.

### QueryShapes, AtomicQuery, ProtocolQuery
`QueryShapes` names the details in which the 16 request functions differ: which
offsets they reject, which lengths they accept, what they return for a rejected
reply, whether they look at the contents, which global they fill, whether they
prompt, whether they validate at all (the internal-log request does not). `ProtocolQuery` runs one function after the other, step by step
(`Allocate`, `Prompt`, `Ioctl`, `CheckHeader`, `CheckRange`, `Copy`,
`CheckContent`, `Free`) with every reply of the driver. `AtomicQuery` is the
contract a caller may rely on: a call is one of a few verdicts, and the verdict
determines the result and whether the global was written. `ImplementsAtomic`
shows the first to implement the second; the refinement mapping decides the call
at the copy, since from there on the outcome is fixed. This justifies the single
steps of `NVMeTool`.

### GetFeatures
One record per function says when the values are printed, whether the reply is
copied, and whether the function tests a capability. `ReadValue` and `ReadFails`
are `iNVMeGetFeature32` and its siblings; a value is modelled by where it was
read: for which section, as which of the four, at which moment.

### SCSIPassThrough
`QuerySize`, `QueryDescriptor`, `Collect` and `Release` are
`QueryPropertyForDevice` and `TestViaSCSIPassThrough`; `Build` and `Send` are
the five commands. `AllocateAlignedBuffer` computes with addresses, `ParseList`
with the two bytes of the length as the code does. The drive (external) sends
its protocols in any order that starts with 0, as many as it has.

### SessionReads, MonotonicReads
Three items of the drive, each with a version and the part of its contents that
the tool acts on, and the tool's copy of each. `Change` is everything that
changes the drive; it is external, and a Format NVM of the tool itself is one
of its causes, since `iNVMeFormatNVM` touches no copy. `IdentifyController` may
store a rejected reply, `IdentifyNamespace` prints the copy once it has one,
`IOCSNamespace` goes on without namespace data after a rejected reply. `said` is
the statement the last step made by a copy: whether it is true of the drive, and
of which version it was derived. `MonotonicReads` is what a reader may rely on.

### FieldTables, FieldReport
`FieldTables` holds the three structures as their declarations give them: a
structure is a record of its fields by the revision marked beside them, and
`Since` is the revision of each field. `FieldReport` holds the printers: one
definition per print function, in the order of the calls, each a set of lines
with the test of the revision, the tests of other fields, the name printed and
the field whose value stands beside it. The properties compare the two. The
value of a field is 0, ordinary or rare; a rare value is one for which a printer
that has a text for each value has none, or a wrong one, and `Rarely` says what
becomes of it: it is printed as another value (`FlushBehavior` 3, types 4 to 7
of `ProtectionInfoTypeEnabled`) or as nothing (`DSTO`, `SGLSupported`,
`ReadBehavior`). Where the number on a line can be computed back it counts as
the value: the report of `KAS` says 1 and the time made of the value. `Depends`
(external) gives, for a field, the capabilities without which it is 0, and a
drive is any set of fields that respects them, some of them with rare values.

### LogEntries
The thirteen lists, by the way their end is found: entries that say whether they
are valid, a terminating 0, a count, or neither. `Check` is the test of the
reply, `Head` the lines before the loop, `Skip`, `Show`, `Break` and `Finish`
the loop. What was not transferred reads as zeroes, as the buffers are cleared.
A drive may announce any number of events, LBA formats, power states and
descriptors; only the number of events is cut to what there is room for. What
the loops over the LBA formats and the power states find behind their arrays are
other bytes than an entry's, first of the same reply, then (power states) of
whatever follows `g_stController`. The number of LBA ranges is a field of six
bits over 64 entries and stays inside.

### DeviceSelftest
Several hosts, each running the dialogue, and one drive that numbers its tests.
The drive is external: it runs one test at a time and ends it at any moment.
`Applies` is the `switch` with its tests of `bInProgress`; a code that is none
of the three leads to no prompt.
The definitions every module has bear the name of the command here
(`SelftestInit`, `SelftestSpec`), as the module is extended together with
`FormatNVM` for the proofs.

### FormatNVM, ExclusiveFormat
Several processes run `iNVMeFormatNVM` beside users that open files on the
volume. The rules of the lock are those of Windows (external). `Restart` closes
a process at any point. `ExclusiveFormat` is the promise: the drive is erased in
one step while nobody has a file open; a format that fails may or may not have
erased.

## 3. The runs

| Run | Question | Bounds |
|---|---|---|
| `session` | seven invariants, `DialogueAdvances` and `DialogueEnds` over one session | 26 lines, 3 controllers, 2 protocol lists |
| `vwc_consent` | does Set Features VWC wait for its y? (no) | the same |
| `bad_controller` | do rejected controller data stay out of the tests? (no) | the same |
| `query` | the 16 requests, refinement of `AtomicQuery` | `MaxLeaked = 2` |
| `selftest` | the window between log and command | 2 hosts, 3 tests |
| `format` | lock, format, unlock; refinement of `ExclusiveFormat` | 2 tools, 2 users, 3 formats |
| `scsi` | descriptors, memory, alignment, list of protocols | masks 0, 1, 3, 7; sector 4; addresses to 17; drives with 1, 3 and 256 protocols |
| `flush_cdb` | does Flush send SYNCHRONIZE CACHE? (not in the older form) | masks 0, 3 |
| `features` | what a report shows when requests fail or are overtaken | 3 sensors, 2 changes |
| `fields` | are the reports complete, and each value under its own name? | 6 revisions; every field alone, with its capability, and all together; each with an ordinary and a rare value |
| `entries` | are the lists complete, nothing in them made up, no loop outside its structure? | 3 entries (1 descriptor), up to 5 announced, replies of every length |
| `freshness` | what can a stale or rejected copy cause? refinement of `MonotonicReads` | 1 sensor, 2 values of ELPE, 2 changes of the namespace, 1 of the others |

Why the bounds are enough. The behaviour of `NVMeTool` depends on a line only
through the letters and numbers it compares, so `MCChunks` has one line for each
outcome: both answers, a letter per command, the codes that branch or lead to a
global, temperatures below, inside, above the limits and one that 16 bits cut
(65836), a line that means nothing. Codes that differ only in the name of the
request they lead to are covered by the proofs, which hold for any set of
lines. The controllers are one that declares everything, one that declares
almost nothing, and one that is not valid with every bit set. Two hosts exhibit
every race of `DeviceSelftest`, as the property relates one process to the owner
of one test; three tests let a host meet a test older and one younger than its
reading. Addresses up to 17 lie on both sides of every boundary of the largest
mask. Two changes overtake a report twice. A field
of `FieldReport` is tested together with at most one other field of the drive
and the revision, so drives with one field and its capability show each line
alone and the drive with every field shows that no two lines disturb each
other; the revisions lie on both sides of each test, with and without a tertiary
number. In `LogEntries` the entries meet only in the bound of the loop: three
places leave room for a first, an inner and a last entry, and two announced
entries more than there is room for go past the end of every structure the drive
can announce too much for. In `SessionReads`
the three items meet in no command but the I/O Command Set report, which reads
the types of controller and the namespace; two changes of the namespace make a
copy that is old but not the oldest. 256 protocols are the most the code field
of a protocol can tell apart, and the first number that does not fit its byte.
`MaxLeaked`, `MaxTests`,
`MaxFormats`, `MaxChanges`, `MaxVersion` cap counters that the code does not have; they appear
as guards. Deadlock is checked except in the `NVMeTool` runs, where `Exited` has
no successor, in the `ProtocolQuery` run, where the calls end at `MaxLeaked`,
and in `fields` and `entries`, where a report ends.

### The properties, by part

* `SentOnlyConfirmed`, `NothingDestructiveAfterEnd`, `GatedByController`,
  `HctmInRange`, `MenuReady`, `Level0Listed`, `DialogueAdvances`, `DialogueEnds`
  (session);
* `LostOnlyByDecline`, `SuccessMeansData`, `ImplementsAtomic` (queries);
* `ShownAsRead`, `CompleteOnSuccess`, `NothingOnFailure` (Get Features);
* `NothingHeld`, `SizedByItself`, `AlignedInside`, `ListedAsSent` (SCSI);
* `NothingMissing`, `NothingTooNew`, `OwnValue` (the long reports);
  `OnlyWhatWasSent`, `SilentIsComplete` (the lists);
* `ProtectionExplained`, `SensorsExplained`, `EntriesExplained` (copies): the
  only causes of a wrong statement are a later change of the drive and, where
  named, data that were rejected or never read; `ImplementsMonotonic`;
* `RaceWindow` (self-test): what the user confirms can be overtaken only by a
  test somebody else started after the log was read;
* `FormatsOnlyLocked`, `LockGivenBack`, `LockComesBack`, `ImplementsExclusive`
  (format).

Each has a variant of the code in `PROJECT.json` ("mutants", next to the
definition it varies) under which the run fails.

### Where the code departs from what it says

Three runs end in a counterexample on purpose. They show that Set Features VWC is
sent, with feature identifier 0, when its prompt was declined; that controller
data rejected as not valid are kept and used; and that Flush sends an empty
command block to an adapter of the older form. The other departures are
deterministic and visible in one definition of a model, so they are findings
without a run: `PROJECT.json` ("findings") quotes the lines and names the
definition that keeps them. Four Identify functions return 0 for a rejected
reply; the protocol list "succeeded" without a list; Get Features Timestamp
prints a variable nothing was copied to; five lines of the long reports test or
print another field, two print another value than the field has, one is printed
too late, five too early; a short self-test log is filled up with results nobody
sent; the last LBA range is never shown; the loops over the LBA formats and the
power states run past their arrays when the drive announces more; and after the
end of the input the y that was read as the value 0 confirms it, and the write
cache is disabled.

Where a departure would break a property, the property excepts it by name, and
nothing else: `ShownLate`, `ShownEarly` and `Misread` are the sets of fields in
`FieldReport`, `RarelyMistold` and `RarelyUntold` those with a rare value that
is mistold or untold; the two lists in `OnlyWhatWasSent`; the lists of
`Uncapped` there and in `TypeOK` of `LogEntries`, which holds them to the number
the drive announces; `AfterLastConfirmation` in `NothingDestructiveAfterEnd`; the two cases in
`SilentIsComplete`; lists of 256 protocols in `ListedAsSent`; `Timestamp` in
`ShownAsRead`; the VWC and the NSID prompt in `SentOnlyConfirmed`.

### Fairness

`NVMeTool`: weak fairness of `Next`. The thread runs and `fgets` and
`DeviceIoControl` return; a user who walks away leaves the program inside
`fgets`, which is the case the assumption excludes. Nothing forces the user to
choose a command or to quit. `FormatNVM`: weak fairness of the three steps of
each tool once a command was chosen, as `DeviceIoControl` returns; starting a
command, opening and closing files and closing a process have none.

## 4. The proofs

The proofs hold for every value of the constants, under the named assumptions
next to the `CONSTANTS`: a line that starts with `y` or `Y` is no number
(`ChunksAssumption`); temperatures fit into 16 bits
(`ControllerDataAssumption`); the queries are queries of the tool; alignment
masks, sizes, lengths, revisions and bounds are natural numbers; protocols are
bytes; a drive shows no field without the capability it depends on
(`DrivesAssumption`); `NoOne` is no tool. Every invariant, action property and
refinement that a passing run checks is a theorem, and so holds for any set of
lines, processes, sensors, protocols, revisions and fields.

* **NVMeToolProofs.** `IInv` is the type invariant and nine parts: a sent
  request belongs to the dialogue just finished (`SentThenMenu`); each prompt
  belongs to the leaf that asks it (`PromptOfLeaf`); the confirmations collected
  so far are those of the leaf but the ones still to come (`ConsentSoFar`); what
  stands in the buffer when the input ends is no confirmation
  (`BufferNoConsent`); the range check has been made before a temperature
  request (`TemperaturesChecked`); start-up came in order (`StartedInOrder`); and
  what the controller has been found to declare at the choice of a code, at the
  confirmation and behind it (`CodeGated`, `LeafGated`, `RequestGated`).
  The properties are not inductive by themselves: they speak of the moment after
  the request, the reasons for them are established several prompts earlier.
  `BufferNoConsent` is the argument behind `EndIsSafe`: the choice that leads to
  a destructive command is a number or a letter other than y, so the buffer it
  leaves is no y; the thermal temperatures are read into the buffer before their
  confirmation, and a y there would count as the temperature 0, which is out of
  order. What is left are the requests of `AfterLastConfirmation`: the value of
  the write cache, where a y does count as the value in order, and the kind of
  telemetry request, which is asked only after its confirmation; that this
  confirmation was read and not found is the second half of the property.
  `RequestsAreGated` needs more than the three parts: a request is known
  by its name and arguments, so the lemmas `NeedsOfMenu`, `NeedsOfLeaf`,
  `NeedsOfName` and `NeedsNothing` show that the table of leaves gives each
  request one meaning; and no prompt writes the controller data (`CtrlKept`), so
  that a test made two prompts earlier still holds at the request. Identify
  Controller does write them, with what the next request then depends on.
  `RejectedDataAreTheCause` bounds the finding of `bad_controller`: while the
  data held are not rejected ones, they are the last accepted ones.
  `DialoguesAdvance` proves the variant `Remaining` behind `DialogueEnds`.
  One lemma per conjunct of `IInv`, one step per action that can disturb it.
* **ProtocolQueryProofs.** The buffer count, the validation made so far at each
  label, and the refinement: the label `content` is mapped to the decided call,
  so that `Copy` is the step of `AtomicQuery` for accepted and for bad content,
  and `CheckContent` a stutter.
* **SCSIPassThroughProofs.** `AlignUpFacts` shows that the rounding of the code
  gives the first multiple of the alignment at or above an address, so the
  buffer of one sector more than the mask asks for is aligned and large enough
  (`BufferIsAligned`, for any mask, sector size and address). `IInv` counts what
  a call holds at each label (the descriptors that are not null, and the data
  buffer), and says that the descriptors come in order (`InOrder`), as the
  header is reused by the next request. For the list of protocols, the position
  of a code in the reply is its rank in the set (`Rank`); ranks are one-to-one
  (`RankIsOneToOne`) and therefore the codes of a reply are all of the set
  (`CodesAreAll`). The two bytes of the length, of which the code adds up one,
  are right for up to 255 protocols and leave 16 of 256 (`FullListIsCut`).
* **GetFeaturesProofs.** The variables up to the current request were read in
  this section by this call; what is printed follows. `Coverage`, for
  `SuccessIsComplete`, says what is printed already: the sections before the
  current one in full, and of the current one the values its function does not
  hold back until the last. A call that returns 0 has come past the last section.
* **FieldReportProofs.** A report has two halves: what its lines are, and that
  printing them is all that happens. For the first, a line *fits* its structure
  if it can be judged by itself: it names a field of the structure, it is tested
  by the revision of that field and not an earlier one (`OnTime`), and it reads
  the field it names and tests nothing else unless the field depends on it
  (`Truthful`), the exceptions apart. `SMARTGood`, `NamespaceGood` and
  `ControllerGood` show that all lines of the three reports fit and that every
  field of the structures has a line. A line that tells a rare value as another
  is of a field of `RarelyMistold`, one that leaves it out of one of
  `RarelyUntold` (`FitsRarely`). For the second, `IInv` says that the
  report shows what the sections behind it added, and nothing else. The runs
  look at drives with one field or with all; the theorems hold for every set of
  fields the capabilities allow and for every revision.
* **LogEntriesProofs.** `Lengths` and `PrefixShape` say where each kind of list
  ends and what the drive holds, `LengthInside` that this is inside the
  structure or, for the two uncapped lists, at what the drive announces; `IInv` follows the loop: what is behind it was
  printed if it looked valid (`Walked`), and the end was reached by the bound or
  by the terminator (`Progress`). From there each property is one step per kind
  of list.
* **SessionReadsProofs.** `IInv` says of each item that what was shown is not
  newer than the copy and the copy not newer than the drive (`Ordered`), and
  that a copy of the drive's own version is equal to it unless the reply was
  rejected (`Faithful`). `Faithful` is what the three statements need: if the
  copy is the current version, the statement is right, so a wrong one is of an
  older version (`Saying`). `Ordered` is what the refinement needs: a step that
  prints the copy prints something between the last report and the drive.
* **SharedDriveProofs.** Format: the lock is held from `Lock` to `Unlock`, a
  closed process loses it, nobody opens a file meanwhile; refinement of
  `ExclusiveFormat`. Self-test: the running test is the youngest, what a host
  knows is a past value of the counter, and a code at its prompt is one the log
  page of the host allows (`Offered`).

Only model-checked are `DialogueEnds` and `LockComesBack`: they are liveness
properties under fairness, and the argument from fairness to progress needs
`ENABLED`, which the provers used here do not handle. What they rest on is
proved: every step of a dialogue leaves fewer to come (`DialoguesAdvance`), and
a process back at its menu has returned the lock unless the unlock failed
(`LockReturned`).

## 5. Not modelled

* The texts and units of the printers, and the decoding inside one entry of a
  log page: a value is 0, ordinary or rare, an entry valid or not. The namespace
  sizes in GiB, which shift by the current LBA format, are among them.
* Sense data, the data of Read and Write, the fields of the telemetry data and
  of the internal-log header.
* The effect of Set Features, Write and Deallocate on the drive.
* The tail of a line longer than 127 characters, which answers the next prompt:
  a tail is a line like any other, and the lines are arbitrary.
* Leaving the loop of the menu at the end of the input, which depends on the
  contents of an uninitialised buffer.

## 6. Plan

Done: the session, the queries, Get Features, SCSI pass-through, self-test,
format, in this order, as every command passes through the session and most
through a query; then the copies beside a changing drive, the long reports, the
lists, the list of security protocols.

Proved: every invariant and refinement the runs check. New models come with
their proofs; of the present ones only the two liveness properties are left.

Next, model:
1. Set Features on the device side: a value requested, kept or refused, with
   save and without, read back by Get Features;
2. telemetry: the kind of request by Windows version, the header and the areas.
