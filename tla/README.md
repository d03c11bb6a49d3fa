# Specifications of the ESP32-S2 cookbook

TLA+ models of the program in this repository that does the most by itself: the
programmer in `ch32v003programmer/` (an ESP32-S2 on USB that debugs and flashes
WCH RISC-V chips and AVRs), the USB log and control code it shares with the
sandboxes, and the hot reloading of sandboxes (`src/idf_sandbox`). TLC checks small instances
and TLAPS proves the type invariants, the safety properties that hold and both refinements for every value
of the constants. Only what must eventually happen is left to TLC.

Paths below are relative to `ch32v003programmer/main/` unless they start with
`src/` or a directory of it.

## 1. The system

An ESP32-S2 (one core, FreeRTOS) enumerates as a USB HID device. Two tasks matter:
the **USB task** (`tud_task`) runs every report handler to its end, and **app_main**
idles and calls the sandbox. The USB task has the higher priority and preempts
app_main anywhere; app_main never preempts it.

| Component | State it keeps | Operations | Interacts with |
|---|---|---|---|
| Debug link (`bitbang_rvswdio.h`) | `struct SWIOState`: `statetag` (which program is in the target's program buffer), `currentstateval` (where the target's cursor stands), `autoincrement`, `lastwriteflags`, `no_autoexec`, `target_chip_type`, `opmode`, flash flags | ReadWord, WriteWord, ReadByte, WriteByte, WaitForDoneOp, PollTerminal, DetermineChipTypeAndSectorInfo, InitializeSWDSWIO, ResetInternalProgrammingState, and the flash operations | the target over one or two wires; called by the interpreter and by `ch5xx.c` |
| CH5xx (`ch5xx.c`) | shares `SWIOState`; `microblob_running`, `writing_flash`, `clock_set` | clock, safe writes, flash begin/end/out/in, erase, block writes, a helper program in the target's RAM | the debug link |
| Command interpreter (`programmer.c`) | `retbuff`, `retbuffptr`, `retisready`, `programmer_mode` | SET and GET of reports 0xad and 0xae; some 35 commands | calls the debug link, CH5xx and UPDI; called by the USB task |
| UPDI (`updi_bitbang.h`) | the address pointer of a session, clocks per bit | setup, erase, flash, read, reset | an AVR over one wire |
| USB log (`advanced_usb_control.c`) | ring `advanced_usb_printf_buffer`, `_head`, `_tail` | `uprintf` and the `vprintf` hook from any task; report 0xac from the USB task | every task |
| Control reports (`advanced_usb_control.c`) | scratch buffer, read offset, `g_SandboxStruct` | write and read RAM, execute, switch sandbox, allocate scratch, flash access, reboot | app_main's loop through `g_SandboxStruct` |
| Tasks (`main.c`) | `advancedUsbHandler` | boot, idle loop, report dispatch | all |
| Host tools (`swadgeterm`, `testapp*`, `src/idf_sandbox/tools/common`) | the upload in progress | poll the log; send commands and collect replies; upload and start a sandbox | USB reports |

What is hard here:

- **A cache of remote state.** The word operations skip loading their program, setting
  the pointer registers and writing the cursor when `statetag` and `currentstateval`
  say that is unnecessary; autoexec makes the target run ahead of the host. Some
  twenty operations change what is cached.
- **Errors in the middle.** Any read over the wire may fail; the target may or may
  not have seen the access. Faults are sticky in the target (`cmderr`).
- **Two tasks without locks**: the log ring, and the sandbox structure.
- **A byte stream interpreter** whose commands have variable length and append
  replies to one fixed buffer.
- **Target power cycles and replacement** behind the cache's back.
- **Controllers that work on their own.** Flash controllers are busy for milliseconds, ignore
  what they are told meanwhile, and outlive the programmer's patience; so do a chip erasure of an
  AVR and the blob that `ch5xx.c` leaves running on the target.

What makes each part correct: a word access that reports success was made at the
address asked for (debug link); a tag never lies (debug link, CH5xx); replies stay
within their buffer, belong to the report they answer, and operands are not executed
(interpreter); the log is a queue that drops only on overflow (USB log); a sandbox's
code is not replaced while it runs, and each step of an upload has its effect (control
reports, tasks, host); a block that was reported written is in flash (flash
operations); what the programmer remembers of the blob and of the open flash is so (CH5xx); the
AVR's pointer is where the cache says (UPDI). The hazards in
`PROJECT.json` list them line by line, with the properties that cover them.

## 2. Modules

### DebugLink

`dev` is `struct SWIOState` with the target behind it (`dev.t`): its program buffer,
`DATA0` and `DATA1`, ABSTRACTAUTO, the last command, `cmderr`, the registers x10..x13
that hold pointers, and a memory of a few words. Programs are not interpreted
instruction by instruction: a slot of the program buffer names the instructions the
code puts there, and `RunSequence` runs only the combinations the code means to run;
anything else is recorded as `stray`. The target's side is external to the repository
and is modelled from how the code drives it.

One operator per function of the C code takes the device to a `Result` (device, status,
word): `ReadWordOf`, `WriteWordOf`, `ReadByteOf`, `WriteByteOf`, `WriteSafe`, `FlashOp`,
`PollTerminalOf`, `Identify`... Every `MCFWriteReg32` that changes state is a step inside
them, in the order of the code. The actions are the commands of the host
(`programmer.c:217-540`) and the calls from `ch5xx.c`; each is one action because the
handler runs in one task and nothing else drives the wire. `Uses` selects which of them
an instance has. `Glitches` are the reads that may fail.

The two sequences are set up differently, and so are `ReadReady` and `StoreReady`. `WriteWord`
keeps the pointer registers of either sequence (1082). `ReadWord` keeps them only when it replaces
the store program (981): when it adds or drops the step of its own program, between an ordinary
word and a flash status register, it runs `StaticUpdatePROGBUFRegs` again, with its read of
`DMHARTINFO`, its writes of x10..x13 and, if the chip is not known (after an attach, or an override
with 0), an identification that may end the call (`ReadNeedsChip`, `StoreNeedsChip`).

`cmderr` is one bit: a trap and an access to a running hart are told apart only where the code does,
in the attach over RVSWD, which clears the one and not the other (`InitializeSWDSWIOOf`). The reads of the
identification itself do not fail in the model; it may fail to find an interface or a chip, and it may
not recognise the chip, but it does not take it for another one.

Two ghosts say when a property can be expected: `setup` is true while the debug module is
as the operation that set `statetag` left it (a power cycle, a raw register write or an
unchecked failure ends that), and `sync` while nothing went wrong since the cursor was
last written.

| Property | Says |
|---|---|
| `TagTellsTheTruth` | while `setup`: the tag names the program and pointers in the target, and the state of autoexec |
| `CursorInStep` | `currentstateval` is where the target's cursor is, and the word a hit will answer is in DATA0 |
| `ReadsWhatIsThere`, `WritesWhereAsked` | in every reachable state, a read or write issued now answers or stores the word at its address |
| `StatusIsFresh` | a flash status read is never older than the last store, although autoexec prefetched it |
| `RetriedReadIsRight` | after a failed read, the same read again is right |
| `BytesAlwaysRight` | the byte operations are right even when the cache is not |
| `NoStrayProgram` | the target never runs a mixture of programs, except in an identification that comes with no sequence loaded |
| `WriteReachesItsAddress` (violated) | a successful write is at its address |

### FeatureReport

The loop of `ch32v003_usb_feature_report` over one report, one command per step:
`reqlen`, `pos` (`iptr - buffer`), `retlen` (`retbuffptr - retbuff`), `retisready`,
`programmer_mode`. For each command the tables `Prefix`, `Need`, `Operands`, `Advance`
and `Reply` give the bytes that name it, the operands it insists on, those it uses, those
it steps over and what it appends. Commands of one layout share an entry. The host sends
complete commands (`Complete`); once the interpreter has taken an operand for a command
(`culprit`), any command may follow. `sizeof(retbuff) - n` is unsigned, so that
`HasRoom` holds again once the buffer has overflowed.

A command is a step that completes. `WriteBlock` of 1 to 3 bytes never gets to its end in the flash
(`bitbang_rvswdio.h:1304-1388`) and of none divides by zero (1285), so a command 0x12 with such a
length is left out (`Returns`); `SetEnds` says nothing of it.

`ReplyFits`, `InStep` (only four commands can derail the interpreter), `OwnAnswersOnly`
(a host that fetches every reply never gets an older answer) and `SetEnds` (a report whose commands
return comes to an end, wherever they leave the interpreter).

### UsbLog and LogChannel

`LogChannel` is what the log promises: a queue of `SIZE - 1` characters, per-task texts
whose rest is dropped only when the queue is full. `UsbLog` is the ring with one action
for each access to shared memory, and tasks with priorities: a step of a task is possible
only if no task of higher priority is under way. `DropsOnlyExtra` is the refinement
`UsbLog => LogChannel!Spec`; `WaitingIsRead` is a liveness property.

`Advance` stores `head` and computes the next place in one step; nobody else reads the latter.

The texts' excess over the 511 characters `vsnprintf` keeps is logged as `Other`, because
the code reads beyond what was formatted.

### SandboxSwitch

Three parties: app_main's loop (`main`: it has read `g_SandboxStruct`, is about to call
`fnIdle`, is in it), the commands of the USB task (`SwitchMode`, `WriteRam`, `ExecRam`),
each carried out at once because the loop never preempts the USB task and the
repository's `fnDecom`s do not block, and the host (`host`), which goes through
`sandbox_upload.c` command by command. A command may be lost, or carried out and its
answer lost; the host then sends it again, up to `MaxTries` times, and gives up. The user
may stop it at any point and start it again with any build; the ESP32-S2 may restart.
`memory` says which build's bytes each chunk of the sandbox memory holds, since all builds
are linked to the same place; `up` is the ghost of which were set up and neither
decommissioned nor overwritten since.

The 50 ms of `usleep` wait for nothing. They are enough for the loop to get from its test to its
call (`Wait` excludes that place), and that is all the model takes from them: the loop may still be in
`fnIdle` when they are over. What the loop does when its `fnIdle` wakes up among another build's code
is not modelled; here it returns, and `UploadTakesEffect` is claimed only of behaviours in which no
`fnIdle` was caught.
`g_SandboxStruct` is not volatile and nothing is called between its test and its use, so the
compiled condition and call share one load; a build that loaded it again could
call through a null pointer.

| Property | Says |
|---|---|
| `CurrentIsWhole` | `g_SandboxStruct` never points into a partly written sandbox |
| `RunsWhatWasUploaded` (violated) | nor is the loop in one |
| `CurrentIsUp` | a sandbox that is switched on was set up and not decommissioned, unless its switch was repeated |
| `UploadTakesEffect` | an upload comes to an end, and a sandbox that stays switched on gets its turn, if no `fnIdle` was caught |

### FlashSession and FlashPromise

`FlashPromise` is what a host may rely on when it programs block by block: the blocks of
a sector that it sent in order and that were reported as written are in the flash, and
stay there until it asks for a block of their sector again. `FlashSession` is the code: one
step for each `ReadWord` or `WriteWord` of `UnlockFlash`, `EraseFlash`, `WriteBlock` and
`WaitForFlash` (`pc` is the place in the function, `job` its arguments, `polls` its counter),
while the controller works on its own (`FlashDone`) and the wires come and go (`LinkChanges`).
The last poll of `WaitForFlash` and the write that clears its flags (869) are one step, the only
two accesses that share one.
An access without wires has no effect; a read then fails, which `WaitForFlash` takes for an
idle controller and `UnlockFlash` for anything, `rw` being uninitialised. Between commands
the host may void the state, attach again or cycle the power. Three chips stand for the
three ways of programming: blocks erased one by one (V003), sectors erased and blocks programmed
(X03x), sectors erased and programmed as one page (V20x).

The ghosts: `doubt` (the target may have changed behind the programmer's back since its state
was voided), `draft` (the blocks of a sector asked for in order so far) and `vouched` (those
reported as written since). A lost access empties both: of such a session nothing is promised,
because the code looks at no result of a write.

| Property | Says |
|---|---|
| `UnlockedWhenUsed` | a `WriteBlock` past `UnlockFlash` works on an unlocked controller, unless there is doubt |
| `PromiseKept` | the refinement: the session implements `FlashPromise` |
| `EveryCommandAnswers` | also on a controller that stays busy for ever |

### UpdiNvm

One step for each access to the AVR: a byte stored or loaded (with the pointer that is stored
before it when `updi_ptr` is elsewhere), a key, a status, a reset, a synchronisation. The commands
0x90 to 0x96 come in any order. `avr` is the target: powered or not, locked, its mode, key,
pointer, `NVMCTRL`'s address and page buffer, and whether it is writing. Any answer may be lost;
of stores, which nobody looks at the acknowledgement of, at most `MaxLosses` in a behaviour.
A store loses either the pointer or the byte. A reset request is two stores (0x59 and 0x00) in one
step: one that arrives in part counts as lost. `unsure` says that one was lost in this command,
or that it began while the controller was still writing.

| Property | Says |
|---|---|
| `PointerInStep` | `updi_ptr` is where the target's pointer is |
| `ReportedIsStored`, `ReadIsRight` | a page reported as written is in the flash, what was read is what it holds |
| `AnswersAreTrue` | after a setup that answers 0 the target is in programming mode, after an erasure unlocked, whatever was lost |
| `OnlyAskedPage` | no other page changes, except in an erasure or by a power loss |
| `EveryCommandAnswers` | the three nested loops of retries end |

### Ch5xxFlash

The sequences of `ch5xx.c` above the four flash programs. Three parties act: the programmer
(`cmd`: the command in progress and its place), the flash (`flash`: busy, what the watched page
holds and will hold) and the microblob (`blob`), a program that the programmer leaves running on the
target's core (`core`) and feeds through DATA0. What the blob does was read from its machine
code (`ch5xx.c:14-35`): it sends the head of a page program, clears DATA0, takes 64 words,
clearing DATA0 after each, and then holds the next page's address in DATA0 until the flash has
finished; that is what `ch5xx_write_flash_using_microblob` waits for (648-656).

`microblob_running` and `writing_flash` are what the programmer remembers, and no function asks
the target whether they are right. `Settled` says that they are. It needs a host that keeps to
the order the code relies on (`Orderly`; the host tool that sends these commands is not in the
repository): identify the chip, void the state (0x05) while the core is halted, send the pages in
order while the blob runs, and end the writing (0x22) before erasing or reading. `good` says that the host did so since
then and that every access was heard and every flash command answered 0; the properties speak of
good sessions only, while the model goes on with all of them: a blob that is fed what was not
meant for it, an erasure of a chip that was not identified (sectors of 64), a flash left open, a
wait that a lost read ends.

Pages do not influence each other, so one page is `watched`, any one of `Watched`.

| Property | Says |
|---|---|
| `SettledWhileGood` | between two commands of a good session the blob runs if and only if the programmer believes so, what it believes open is open, and nothing is still being written |
| `ReportedIsThere` | a page reported as written or erased is so, and stays so |
| `OnlyAsked` | a good command changes no page that was not asked for |

Assumed of the outside: between two accesses over the wire the blob gets to its next poll; the
RAM it was loaded to is not overwritten; the words of a page are not all zero; a page is
programmed right only after it was erased; reads that are lost give any value. Blocks of less than
a page, and addresses within one, are left out. Before the first identification `sectorsize` is 0
(`programmer.c:94`) and `CH5xxErase` rounds every address to 0 (`ch5xx.c:867`), and a CH5xx command may
identify the chip on the way, in `ch5xx_set_clock` or `ReadWord`; neither is in this model, nor in an
orderly session.

## 3. Runs

| Run | Result | Bounds |
|---|---|---|
| `link_sequences` | 7 properties hold | 4 addresses: plain, flash, status, unmapped. Two chips, with and without autoexec, not yet identified; one known word and `Junk`; failures of the read of DMHARTINFO, of the wait and of DATA0 before or after the target saw it |
| `link_session` | 3 hold | 2 addresses, a plain and a status one; a CH59x with safe writes, flash programs and the terminal; attach and identify at any moment, with every outcome; overrides, power cycles, raw access to the debug registers; three bounds, see below |
| `link_jump` | violated | as `link_sequences` with one chip |
| `flash` | 4 hold | 3 chips; 3 blocks, sectors of 2, the last block protected; the first may hold two things; 1 poll |
| `updi` | 7 hold | 2 pages of 2 bytes, 3 images; 1 lost store, any lost answers; 1 retry, 1 poll, 2 status reads |
| `ch5xx` | 4 hold | pages of 2 units, sectors of 4, halves of 8, banks of 16 in a flash of 20; 8 ranges; 3 pages written, 7 watched; 1 poll |
| `log_one` | 3 hold | ring of 3, texts of up to 3 of 2 letters; app_main or the USB task logs |
| `log_two` | violated | both log |
| `sandbox` | 4 hold | 3 builds, one without `fnIdle`, one without `fnDecom`; 3 chunks; 1 retry |
| `sandbox_wait` | violated | 2 builds with an `fnIdle` |
| `report` | 5 hold | buffer of 44, reports of 12 and 26 bytes, lengths 0, 1, 4, 10 (a block: 4, 10); every command but 0x10 |
| `report_full` | violated | every command |

Why these bounds are enough: the word operations compare an address only with the
cursor, its neighbours, and the classes flash and status; one of each and one unmapped
already give every combination of hit, miss, wrap and fault, and the theorems hold for any
number. `TagTellsTheTruth` has two runs. `link_sequences` has the flash and unmapped addresses and the wire
errors, which the words' own programs depend on; `link_session` has everything else that touches the
debug module, with the two kinds of addresses between which `ReadWord` sets up its registers anew.
What no run combines, such as a wire error in a flash program, the theorems cover.

`link_session` is cut in three places, because a raw access leaves the target in so many states
(`MCDebugLink`). `NothingStrayed`: what follows a stray program is not looked at; the step that makes it
run is, by `NoStrayProgram`. `NotPastRawAccess`: every call is tried on the states that a raw
access leaves, by the invariants about the next call, but only those raw accesses are followed further
that no other step covers: one to PROGBUF voids the tag as a byte operation does, and one to another register
disturbs less than a power cycle, which is followed. `NotPastLostLink`: without an interface nothing is sent.
`TagIsTruthful`, `BytesAreRight` and `RunsNoStrayProgram` are proved without any of them.

A ring of 3 is full, empty and wrapped within one text, and both readers' and
writers' races need two characters. `retbuff` is scaled from 264 to 44 bytes so that it
fills within one report or over several; the sizes keep their order (a page, a slot, the
18 bytes of a UPDI setup, the 17 a terminal leaves), and the theorems hold for any size.
Three chunks give an upload a start, a middle and an end, one retry a repeated command, and
the theorems hold for any number of both.

`flash`: a sector of two has a first and a last block, and the third block is another sector,
the neighbour that must not change; one poll is a wait that succeeds at once, later, or gives up;
contents are compared only for equality. `updi`: with two bytes a page has a first and a last
store; a retry that is used up and one that is not; a page that must not change; one of the images
holds the value of a command, so that a stray store would be seen. More than one lost store adds
nothing to a command that claims nothing after the first. `ch5xx`: the sizes keep their ratios'
order (page < sector < half < bank < flash), so every branch of `CH5xxErase` is taken, aligned
and not, with and without a rest; the pages watched lie first, last and inside of each kind of
chunk, and next to the written ones.

No other run has a constraint, and deadlock is checked in every run.

The violations are disagreements of the code with its comments:

- `sandbox_wait`: the host sleeps 50 ms to give the old sandbox "a chance to exit"
  (`sandbox_upload.c:191`) and then overwrites it. The repository's ticking sandboxes block in their
  `fnIdle` with `vTaskDelay( 100 )`, a second at the configured 100 Hz
  (`src/idf_sandbox/tools/sandbox_test/sandbox.c:38`, `i2stest/sandbox.c:241`).
- `link_jump`: after `WriteWord` jumps within a write sequence it advances the cursor from
  its old value (`bitbang_rvswdio.h:1156-1169`). A later write at that address is taken for
  sequential.
- `log_two`: two tasks race on the first allocation and on `head`.
- `report_full`: command 0x10 appends 7 bytes after room for 6 was checked
  (`programmer.c:213, 390-397`).

Fairness. `UsbLog`: a task that is ready and has the highest priority runs (weak
fairness of its steps), and the host polls for ever (`swadgeterm.c:44-85`), which the USB
task serves whenever it is idle between its other work (strong fairness of `StartGet`,
because logging by the USB task disables it in between). `FeatureReport`: the handler runs
on once it has begun (weak fairness). `SandboxSwitch`: the loop goes on, since tasks of higher
priority block, and so does an upload that nobody stops (weak fairness of each as a whole:
the bound on tries, not fairness, ends the repeating of a lost command). `FlashSession` and
`UpdiNvm`: the programmer runs on within a command, because the handler does (weak fairness of its
steps together); nothing is assumed of the target, the wires or the host, and it is the counters
of the loops that end them. `DebugLink` and `Ch5xxFlash` have no liveness property: the former's
calls are single steps, and the latter's loops over `DMABSTRACTCS` (704-710) end only if the target
answers.

What is assumed of the flash controllers, which are not part of the repository: busy or locked, a
CH32's ignores what it is told but the keys; the page buffer of an X03x keeps its contents until it
is reset, that of a V20x is empty after a page was programmed. An AVR's `NVMCTRL` takes nothing while
it is busy, and a reset clears its registers; an erasure that has begun comes to its end unless the power
goes; a reset request that arrives in part counts as lost.

## 4. Proofs

`DebugLink_proofs` (for any address space, chips, words and glitches that satisfy
`DebugLinkAssumption` and `GlitchAssumption`):

- `TypeCorrect`, `TagIsTruthful`, `BytesAreRight`.
- The inductive invariant is `TypeOK /\ TagTellsTheTruth`. `TagTellsTheTruth` alone is not
  enough because the operators need the types; with them it is inductive, since it speaks
  of everything the operations test. The proof has a lemma for each operator (what it
  does to the type, to the program and to the registers), a lemma that each call takes a
  good device to a good device, and one step per action. `BytesAreRight` needs only types:
  the byte operations set up everything they use.

`DebugLinkCursor_proofs` (under the same assumptions, on top of `DebugLink_proofs`):

- `CursorIsKnown`, `ReadsAreRight`, `StatusReadsAreFresh`, `WritesAreRight`, `RetriesAreRight` and
  `RunsNoStrayProgram`. The inductive invariant is `CursorInv == Inv /\ CursorInStep /\
  Fresh(dev, seen)`. `CursorInStep` already says what autoexec has prefetched into DATA0; what it
  lacks is the ghost's side: `seen`, the values a status register may still answer with, has to
  contain at least the present one (`Fresh`), or a prefetch would take one that nobody allowed. For
  each operation there is a lemma that what it leaves is `Cursor`, i.e. known or no longer claimed.
  The four properties about the next call then follow from the invariant alone, by the paths of
  `ReadWordOf` and `WriteWordOf`: a hit, a jump within a sequence, a sequence set up anew.
- `RetriesAreRight` assumes `AddrSpace > 1`: in an address space of one word the next word is the same.
- `RunsNoStrayProgram` is an action property. `DetermineChipTypeAndSectorInfo` touches DATA0 before it
  switches autoexec off, and so runs what is loaded. The theorem covers the identification that
  `ReadWord` makes in the middle of its sequence, where that is its own program; it excepts, as
  `NoStrayProgram` does, command 0x10 and an identification with no sequence loaded.

`FeatureReport_proofs`:

- `StaysInStep`: an interpreter that is in step reads a complete command, and steps over all of its
  operands unless it is one of the three whose tables differ, or a setup without room for its answer;
  one lemma for the layouts of the commands carries it.
- `TypeCorrect` and `AnswersAreOwn`, if the slots hold the pages and lengths (`SizesFit`,
  which the code's sizes do); `ReplyAlwaysFits` if command 0x10 is not used.
- `ReplyAlwaysFits` is by `retlen \in 0 .. CAP`: each command starts with six bytes of room,
  appends at most five without looking, or looks. `AnswersAreOwn` needs to know that a
  host which has fetched its reply left nothing behind (`FreshInv`).
- `TurnsAreNumbered` (with `SizesFit`): a report takes no more turns of the loop than it has bytes.
  This is about commands that return (`Returns`).
  `TurnsLeft` is a variant of the loop, since every command, carried out or skipped, is at least a
  byte long.

`SandboxSwitch_proofs` (for any builds, chunks and tries):

- `CurrentStaysWhole`, `CurrentStaysUp` and `TypeCorrect` without further assumption, from
  one inductive invariant: `UploadInOrder` says what each stage of an upload can count on
  (switched off while it writes; chunks before the present one written; all written when
  it calls; set up when it switches on for the first time).
- `RunsWhatWasUploaded` is violated and has no theorem.

`FlashSession_proofs` (for any flash, sector size, poll limit, contents and protected blocks):

- `TypeCorrect` and `UnlockedIsRight`. Their inductive invariant is `IInv == Targeted /\ Called /\
  Drafts /\ CacheRight`: the types of the target and of the call; that a draft lies within the
  flash, without which the blocks a success vouches for need not exist; and that
  `flash_unlocked` is right without doubt and set wherever a `WriteBlock` works. `UnlockedWhenUsed`
  is not inductive alone, since it says nothing of `flash_unlocked` at idle moments, when the
  next command decides by it whether to unlock.
- `PromiseIsKept`: the session implements `FlashPromise`. The initial states are initial there, and
  each step is a request, an answer, a giving up, or none (`StepIsPromised`). Two things make that so,
  and the second invariant, `PInv == Careful /\ DraftRight`, says them. `Careful`: what is vouched for
  is out of the controller's reach, whose `ADDR` register may still name a sector of a command that
  was given up long ago; an operation may end at any moment, and a power loss tears whatever it was
  about. `DraftRight`: at each place of a `WriteBlock` (`Stage`), if the draft still stands, the blocks
  before the last one lie in the sector and the rest of it is erased (`Laid`), or for a V20x in the
  page buffer (`Filled`); a lost access or a failure ends the draft, so that only steps that were heard
  by an unlocked, idle controller have to be followed, which is what `UnlockedWhenUsed` gives. TLC
  checked `Careful` and `DraftRight` on the bounds of `flash`. The arithmetic is one lemma, that a
  sector is the `SectorSize` blocks from its first on (`SectorIs`).
- `AccessesAreNumbered`: a command makes at most `18 * (MaxPolls + 1)` accesses. Each of the 18 places of
  a `WriteBlock` comes at most once, and each may poll `MaxPolls` times in vain; `AccessesLeft` counts
  both, and stays above 0 while a command is in progress because of `polls <= MaxPolls`.

`Ch5xxFlash_proofs` (for any sizes, ranges and poll limit):

- `TypeCorrect` and `SettledHolds`. `SettledWhileGood` speaks of idle moments; the inductive
  invariant says what holds of it within each command: `Agreed` (core, blob, RAM and open flash
  agree with `microblob_running` and `writing_flash`), `InPlace` (only three places find the flash
  busy; the blob is away from its poll only while it is being waited for; a write by program
  buffer and an erasure find the core halted) and `BlobIsLoaded`, on which stopping the blob
  relies, since it is not loaded again afterwards. One lemma for each action.
- `ReportsAreTrue` and `AskedOnly`, from a second invariant about the watched page, `PageInv`. `Heeded`:
  the blob feeds the page it was sent, and an erasure is of an identified chip, in whole sectors.
  `Spared`: while the command may not touch the page, neither the block it writes nor the sectors it
  has still to erase (`Touches`) contain it, and the flash leaves it as it is. `Due`: while the command
  owes the page, it is at the page, or what is left to erase contains it (`Inside`), or the flash is about
  to make it so (`Becomes`). `Kept`: the page is as reported. `CH5xxErase` cuts a range into the largest
  chunks that are aligned; that these neither overlap what lies outside nor skip what lies within is
  arithmetic of multiples (`SumOfMultiples`, `MultipleOfMultiple`, `NextMultiple`, `ChunkIs`), for any
  sizes each of which is a multiple of the one before. TLC checked `PageInv` on the bounds of `ch5xx`.

`UsbLog_proofs` (for any ring, reply, alphabet, texts and tasks with their priorities):

- `TypeCorrect`: no index leaves the ring, however many tasks log.
- `RingIsAChannel`: the ring implements `LogChannel`, assuming `LoggersApart`: at most one task logs,
  and it is the USB task or one that the USB task preempts. `log_one` is within that assumption,
  `log_two` shows that two loggers break the refinement. The inductive invariant `RingInv` says for a
  task that stores a character that the place it found is still free (the reader only makes room:
  `Writing`), and for the reader that the characters it counted are still there (`Reading`), since
  nobody else takes any. What waits is the segment of the ring from `tail` to `head` (`Queue`); the
  lemmas about it say what `Advance` appends and `Take` removes, wrapped or not.

`UpdiNvm_proofs` (for any sizes of page, flash and byte, any images and any limits of tries, polls,
retries and losses, if the flash is mapped past the registers at a multiple of the page size, the
addresses fit two bytes, and all contents are bytes):

- Everything the run checks but liveness: `TypeCorrect`, `PointerStaysInStep`, `WrittenIsStored`,
  `ReadIsWhatIsThere`, `AnswersHold` and `PagesChangeAsAsked`. The properties speak of answers; the
  inductive invariant follows the accesses that lead to them, while nothing stored was lost
  (`Certain`): before the n-th store of `UPDIFlash` the n before it are in the registers and the page
  buffer (`Before`), from the last one on the page is being written or is (`FlashOnTheWay`); what
  `UPDIReadMemoryArea` has read so far is what is there (`ReadOnTheWay`); and a page is being
  written only for the last `UPDIFlash` (`BusyWithTheJob`), without which the one of an earlier
  command could be written over the page that was just reported. `PointerInStep` is inductive with
  `updi_ptr = -1` outside the two commands (`InPlace`). The arithmetic is in a few lemmas: an address
  is put together from its bytes (`TwoBytes`), a byte found by division (`ByteOfPage`), a page by its
  address alone (`PageUnique`).
- `AccessesAreNumbered`: every access takes a command nearer its end, by a variant in three parts
  (`Nearer`): the tries it has left, within a try the places still to come, within a place the bytes or
  polls. It needs that the count never passes the limit of its place (`Counted`).

Only model-checked: liveness (`WaitingIsRead`, `UploadTakesEffect`, `SetEnds` and the two
`EveryCommandAnswers`), which is out of the prover's reach together with ENABLED. Of `SetEnds` and the
two `EveryCommandAnswers` the half that needs no fairness is proved, that every step lowers a variant
(`TurnsAreNumbered`, `AccessesAreNumbered`); that the next step is always possible and is taken remains
with TLC. `DropsOnlyExtra` is
proved for one logger only, since for two it is false.

## 5. Plan

1. Done: `DebugLink`, `FeatureReport`, `UsbLog` with `LogChannel`, `SandboxSwitch`, `FlashSession` with
   `FlashPromise`, `UpdiNvm`, `Ch5xxFlash`, and the proofs above.
2. Done: the safety properties, the refinements of `LogChannel` and `FlashPromise`, and the variants of the
   loops that `EveryCommandAnswers` and `SetEnds` rest on, as theorems.
3. Left of `SandboxSwitch`'s component: the commands that share the scratch words and the read
   offset (READ_RAM, ALLOC_SCRATCH, GETVER, FLASH_READ), and the BSS that the upload fails to clear
   (`sandbox_upload.c:206-209` send the top byte of the length four times; the action `Clear`
   changes nothing).

## 6. What is not modelled, and why

Bit timing on the wires (`MCFWriteReg32`, `MCFReadReg32`, UPDI bits) is analogue and has no state;
its failures are `Glitches`, lost accesses and lost words. Clock output, pin setup and `teardown`
write registers nobody reads back. The values of memory beyond one known word, and the contents of
programs, are abstracted.

Of the flash operations: the erasure of the whole chip (no command asks for it), the buffer signal
of the V10x, `WriteBlock` outside the flash and with other lengths than 64 (command 0x12 passes any
length; 0 divides by zero at `bitbang_rvswdio.h:1285` and 1 to 3 never end). Of the CH5xx: lifting the read protection
(`ch570_disable_read_protection`, 0x27), a fixed sequence without a cached state; the bytes that
0x23 and 0x24 return; blocks of less than a page; the blob's own time-out of half a million polls;
`ch5xx_verify_data` and the UUID reads, which no command calls.

`ch32v003_swio.h` is the predecessor of `bitbang_rvswdio.h`. The OLED programmer, the demonstrations
under `src/idf_sandbox/tools` and `src/examples` are straight-line register writes. By far the most lines
of the repository are vendored: TinyUSB with the vendor SDKs it carries, register headers of chips,
hidapi, stb_image and rawdraw, in several copies. They are outside the repository's own logic and
not modelled; the models cover the files of `ch32v003programmer/main` and the loader in
`src/idf_sandbox`, which is where the program's own state is.
