# A verification model of 8ball, a PDP-8/E emulator

8ball emulates a PDP-8/E with KM8E memory management and time sharing and a KL8E console terminal. It is built
either as one program (`8ball`, SERVER_BUILD) or as two, `8con` with the operator and `8srv` with the machine,
which talk over a pseudo terminal (PTY_CLI, PTY_SRV). This directory holds TLA+ models of it, TLC
configurations, and proofs for TLAPS.

## 1. Inventory

| Component | Source | State | Operations | Interacts with |
|---|---|---|---|---|
| Processor | `cpu.c`, `cpu.h` | PC with IF, AC with LINK, MQ, SR, ION and its two delays, INTR, IB, SF, DF, interrupt inhibition, UF, UB, 32K words | `cpu_process` (interrupt or one instruction), `operand_addr`, `cpu_raise_interrupt` | IOTs read and write the terminal's registers |
| Terminal | `tty.c` | keyboard and printer buffer and flag, DCR, `output_pending` | `tty_process`, `tty_initiate_output`, `tty_reset` | raises INTR; reads and writes bytes through `machine.c` |
| Machine loop | `machine.c` | `tty_skip_count`, breakpoints, `internal_stop_at`, `trace_instruction`, `interrupted_by_console` | `machine_run`, `machine_interrupt` | calls terminal and processor in turn, returns why it stopped |
| Protocol | `serial_com.c` | the receiver's static buffer | `send_cmd`, `recv_cmd`, `send_console_break`, `recv_console_break` | the pseudo terminal |
| Two-process machine | `machine.c` | one command loop (`machine_srv`) and one blocking client | requests R S E D Q, answers, T requests to the client, I/C acknowledge | SIGINT may strike the client anywhere |
| Console | `console.c` | `in_console`, `stop_at`, `tty_read_from_file` | run, step, examine, deposit, break, trace, halt, tty_source, save, restore, exit | registers and memory through `machine.c` |
| Disassembler | `console.c` | none | `print_instruction`, `console_trace_instruction` | memory, and the processor's `operand_addr` |
| Save and restore | `console.c` | the core file, prev.core | `save_state`, `restore_state`, `exit_cleanup` | registers and memory; the file system |
| Line editor | `linenoise.c` | third party | | |

What is hard about it:

* **Interrupts.** They may strike between any two instructions. What protects a program is the one-instruction
  delay of ION, the inhibition by CIF/RTF/RMF/CUF/SUF until the next jump, and registers in pairs (IB/IF, UB/UF)
  that must agree again afterwards.
* **Two parties on one-character buffers.** The program and `tty_process` share flags, buffers and requests; a
  request must never outlive its flag, a key must not be overwritten before it is read.
* **User mode.** Each privileged instruction must trap, once, and change nothing else.
* **SIGINT.** In the two-process build it writes break characters between any two bytes of whatever the client is
  sending, and may race the machine's own reason to stop.
* **The operator.** Deposits and restores change some registers and not the ones that must agree with them, at any
  point of a program. The disassembler is a second decoder of the instruction set. A save can be cut short anywhere,
  the one at exit included.
* **Framing.** The receiver resynchronises on START_FRAME, keeps a static buffer, and the meaning of an empty frame
  is left to the caller.

## 2. Modules

| Module | What it is |
|---|---|
| `Pdp8Word` | words, masks, instruction formats, effective address, the operate micro-instructions: pure operators, without recursion so that they can be reasoned about. `AddrSize` and `PageSize` are the words of a field and a page: 4096 and 128 in the code. |
| `Tty` | registers of `tty.c`; `TtyReset`, `TtyRead`, `TtyNoInput` are the cases of `tty_process` |
| `Cpu` | `cpu_process`: one action per instruction (or per family that shares one piece of code), `Interrupt`, plus what `machine_run` does around it (`tty_process`, `Break`, `Resume`) |
| `CpuAny` | `Cpu` with the fetched word free: every program at once |
| `CpuEcho` | `Cpu` running a time-sharing executive and a user program, with histories of what was typed and printed |
| `SerialCom` | frames, escaping, and the receiver as a function of state and byte |
| `Channel` | abstract: an in-order channel of frames that delivers all but the damaged ones, which may be missing or come in garbled pieces |
| `SerialLine` | one direction of the line over `SerialCom`, byte by byte, with lost bytes and breaks; implements `Channel` |
| `Remote` | client, server and line over `SerialCom`: `machine_run`, `machine_srv`, `ack_console`, `machine_halt`, `machine_quit`, SIGINT; run, step, examine, deposit, trace, save, restore, halt, exit, `--stop_at` and `--exit_on_HLT` |
| `Debugger` | abstract: what `run`, `step` and `break` promise an operator |
| `Machine` | the one-process build: the loop of `machine_run`, the console's run control around it, SIGINT at any moment. The processor is reduced to its next address and whether it halts, the terminal to whether a read fails |
| `Disassembly` | `print_instruction` as the names it prints, and what these names mean to a programmer |
| `Console` | the commands that look at and change the machine (examine, deposit, step, run, trace, save, restore, a start with `--restore`) around the whole processor of `Cpu` |
| `CoreFile` | core files over several runs of the program, where any write or open may fail, for good or for once, restores leave their streams open, and the program may be killed at any point |
| `MC...` | constants for TLC (programs, memory images, keys, words) |
| `Pdp8WordProofs`, `CpuProofs`, `CpuAnyProofs`, `MachineProofs`, `ConsoleProofs`, `CoreFileProofs`, `SerialLineProofs`, `RemoteProofs` | lemmas and theorems |

Correspondence of state. The variables of `Cpu` and `Tty` are the globals of `cpu.c` and `tty.c`, by name, with
three differences: bits 12-14 of `pc` are a variable of their own (`pif`); `intr` is the set of requests instead of
a bit mask; `mb` and `cpma` do not outlive a call and are the parameter `w` and the operator `Operand(w)`.
`run` is the value `machine_run` would return, or "R". In `Remote`, `at` is where the client waits, `todo` the frames
it has still to send, `place` where its `send_cmd` is in the first of them, `srv` where the server is, `rx` the locals
and the static buffer of `recv_cmd`.
In `SerialLine` and in `Remote`, `place` is the state of `send_cmd` (which frame, its loop counter, whether the ESCAPE
is written) and how much of a break is written; each byte on the line to the server carries, as history, the place it
was written at and the place after it. The byte written at a place is `ByteAt` of `SerialCom`; `MCSerialLine` has TLC
compute that the bytes of all places of a frame, in order, are what the loop of `send_cmd` writes (`WritesFrame`). In
`Remote` a place has two more fields of history, which no step reads but those that write them: `cut`, a break has cut
the frame, and `heard`, the server will read on from here, because no break before it, and no answer that the input
file has ended, is without its 'C'. That answer (-1 of `console_read_tty_byte`) is `ReadKey` with "EOF" for the key: the
server asks for the console as it does at a break, but no break is written. A SIGINT may come until the last byte of 'Q'
is written; `in_console` is 0 there when the run ended by `--stop_at` or `--exit_on_HLT`.
In `Machine`, `at` is the program's place in `console` and `machine_run`; `in_console` is derived from it, because
the code sets it to 1 just before the prompt and to 0 just before the run. `stops` of `Debugger` is `breakpoints`
with `internal_stop_at`, its mode is "running" inside the loop.
In `Console` the machine is that of `Cpu`, `at` is the place in `machine_run`, `shown` what was last printed of the
next instruction, `core` the record a core file holds. `operand_addr` is one function of memory, place and its flag
`examine`, of which a command takes the address to print and the memory that is left; the processor's own reading of it
(`Operand` of `Cpu`) is the same without the flag (theorem `OneFunction`). In `CoreFile` a machine is one value and a
file a number of pieces, each what the C library writes at once, with its fate (whole, in part, not at all): the
registers are in the first, and the last page of memory lies across the last two. `streams` are those `restore_state`
has opened and never closes.

Atomicity. `cpu_process` and `tty_process` run in one thread and without signals that touch their state, so each call
is one step. In `Remote` every byte written by the client and every byte read by the server is a step, because a
SIGINT can put a break between any two of them. The two bytes of a break are written at once: nothing comes between
them on the line, and a server that has read the first waits for the second or finds it in its next read. In `Machine`
the poll of the flag, the terminal and the processor are three steps, with SIGINT between any two, and a fourth
reports the end of the run. From server to client a whole frame is one step, because nothing interrupts the server. In
`CoreFile` each piece a save writes is a step. A command of `Console` is one step, and so is the line printed by a trace: in the
one-process build nothing runs beside it.

Modules also contain a few operators marked "Mutant:", defined right before the definition they are a faulty version
of. No specification uses them. Each says what bug the property it belongs to would find (PROJECT.json, "mutants").

## 3. Runs

Run one with `tlc -workers 2 -config MCCpuAny.cfg MCCpuAny`, and so on.

| Run | Configuration | Shows |
|---|---|---|
| `cpu_any` | `MCCpuAny.cfg` | Any sequence of 17 control instructions, interrupts, keys: `BufferedRegistersAgree`, `UserModeSealed`, `RequestImpliesFlag`, `UserModeConfined`, `ReturnWindow` |
| `cpu_echo` | `MCCpuEcho.cfg` | Two images, whose interrupt routines return by GTF and RTF or by RMF and ION: every key is echoed, once, in order (`EchoInOrder`, `EveryKeyEchoed`); the user program is not disturbed (`InterruptTransparent`), computes the right result with two traps (`CopyCorrect`) and finishes (`UserFinishes`) |
| `remote` | `MCRemote.cfg` | Commands, HLTs, breakpoints, `--stop_at`, traces, the end of an input file and a SIGINT between any two bytes. Always: no stale or unknown command (`NoStaleDispatch`), keys in order and one lost per break at most (`KeysInOrder`). Unless the break came when nobody waited for its answer: the two never wait for each other (`NeverBothWait`), answers are those asked for (`AnswersMatch`), both sides agree who is in charge and whether there is a trace (`ModesAgree`), requests are answered (`Promptly`), a SIGINT ends the run (`BreakHonoured`), the server leaves with the client (`QuitArrives`) |
| `line` | `MCSerialLine.cfg` | The line implements `Channel` (`IsChannel`), finds the next frame again after each error (`Resynchronises`), reports each break (`BreaksReported`), and never stores more than two frames add up to (`BufferBounded`; the buffer has 128 bytes, the longest frame of the two programs six) |
| `console` | `MCConsole.cfg` | What step and trace print is what the processor then does (`ShownHappens`), printing an instruction, in `examine`, `step` or a trace, steps no autoindex register (`ExamineSpares`), registers stay in their width and DF leaves the fields by `deposit df` only (`ConsoleTypeOK`), what of the invariants of `Cpu` survives the operator (`SurvivesOperator`), and a restore loses nothing of what the file holds (`RestoredWhole`) |
| `core` | `MCCoreFile.cfg` | A save that was reported is whole and stays so, unless a write failed of which `fprintf` told in vain (`SavedIsComplete`); a restore of it brings the machine back or does not get to open the file, and never refuses it for what it holds (`RestoreBringsBack`); a program that did not start spares prev.core (`PrevCoreSpared`) |
| `machine` | `MCMachine.cfg` | One-process build: no instruction is executed over a breakpoint (`NoOverrun`), at most TtySkip + 1 instructions between two calls of `tty_process`, across runs and steps (`TerminalServed`; a call that meets the end of an input file counts, although it returns before it prints, `tty.c:49-51`), a SIGINT is seen before the second instruction and ends the run (`StopsSoon`, `SigintEndsRun`), and `Machine` implements `Debugger` (`KeepsPromise`) |
| `ack_deadlock` | `MCRemoteAck.cfg` | violated: `AckArrives` |
| `key_lost` | `MCRemoteLost.cfg` | violated: `KeysComplete` with a SIGINT |
| `core_truncated` | `MCCoreTruncated.cfg` | violated: `RestoresWholeCores` |
| `sigint_stale` | `MCMachineStale.cfg` | violated: `InterruptedForCause` |
| `break_clear` | `MCMachineClear.cfg` | violated: `ClearsAll` |

### Bounds

* `cpu_any` has one word per field. The properties are about registers, flags and requests; which word is fetched is
  free, so what memory would contain does not matter, and the theorems lift the result to every size. All eight
  fields exist but the program names fields 0 and 1. Byte is one value: no property of the run depends on it.
* `cpu_echo`: 64 words per field and 32 per page hold the executive, the user program and the autoindex
  registers. Two keys are needed for one to arrive while the other is being echoed; a third meets the same
  one-character buffers. One operator stop at any point is enough for a stop and restart inside the interrupt
  routine, inside a window and between a flag and its request.
* `remote`: two commands, for what the first left in the buffer or on the line; two keys (`MaxKeys`); two registers
  for a second answer; one key and one register are special characters, for a break to meet an escape sequence;
  `PtyFrames` = 2 for a full line towards the client; every set of stops. One SIGINT: the second one before the
  acknowledge of the first is over is the defect of `ack_deadlock`, and `raced` marks the behaviours in which a single
  one meets it.
* The operator stops after `MaxCommands`, so `Remote` may come to rest: deadlock is not checked there, and the
  properties that say that nothing hangs are `NeverBothWait`, `Promptly`, `BreakHonoured`, `QuitArrives` and
  `AckArrives`. In the same way `SerialLine` rests after `MaxFrames` and `Console` after `MaxCommands`.
* `line`: three frames and two faults, for a fault in each of two frames with a sound one before, between or after
  them; the three contents have each special character first, last, alone or before another one, and a damaged frame
  whose rest is not empty. `LineBytes` = 1 makes the sender wait for the receiver but for the two bytes of a break; the
  receiver looks at one byte at a time and never at the line, so more bytes only delay it. At most one byte of a frame
  is lost, where it would be read: see section 4.
* `console`: some 500 instruction words (every memory reference mode; every operation of the interrupt control,
  terminal and memory management devices, and of one that is not there; every operate word), deposited over an
  instruction of a program that sets the LINK, turns interrupts on and enters user mode. Four commands and five
  instructions; a session that deposits a word (one, `MaxStored`) has three commands (`ShortSession`), one that does
  not has four, enough for save, change, restore, change. Three commands are too few to bring a deposited word to its
  execution in user mode or with interrupts on: TLC compares the two decoders on the deposited words in executive mode
  with interrupts off, and only the words of the program itself in user mode and with an interrupt pending. The theorem
  `ShownIsExecuted` is about every word in every state. DF is deposited as each of two fields and as 10 (octal), which
  is none.
* `core`: two machines besides the blank one, prev.core and one other file. Three pieces instead of 42: the one with
  the registers, one with headings after which others come, and the last, whose loss alone goes unnoticed. Two streams
  (`MaxStreams`) instead of about a thousand: one more restore than that is refused. Nothing else is bounded. That reading
  a file which has been opened does not fail is assumed.
* `machine*`: four words, so that there is a breakpoint in each half of memory, an address without one, and the
  excluded address 0; `TtySkip` = 2 instead of 100: the count meets its limit after a full run, across a run that was
  cut short, and after a step. Nothing else is bounded: any number of commands, runs and SIGINTs. The program may
  exit (`exit`, `--stop_at`), so deadlock is not checked; `SigintEndsRun` says that a run does not hang.

### Fairness

`EchoFairness`: `machine_run` calls `cpu_process` in each turn of its loop and `tty_process` in each 101st, so both
are weakly fair; that a stopped machine is run again is an assumption about the operator. Nobody is assumed to type.
The counter itself is abstracted: `tty_process` may come after any number of instructions, which includes 101.
`LineSpec`: a frame begun is written to its end, and `recv_cmd` is called again; no frame, loss or break is assumed.
`RemoteSpec`: the two processes run on (weak fairness of each); neither SIGINT nor commands nor keys are assumed, and
the machine need not stop by itself. A client that polls a server busy printing gets its turn, because the line is
one queue.
`MachineSpec`: the program goes on (weak fairness of `Program`); it is one thread that never waits inside a run.
SIGINT, commands, halts and the end of an input file are not assumed.

## 4. Disagreements between the code and what it says

1. `ack_deadlock` (`machine.c:282`). A SIGINT sent while the run ends by itself (HLT, breakpoint, step, trace)
   reaches the server after it has sent its reason. The server answers 'I' and waits for 'C' in `ack_console`; the
   client, already examining registers, takes the 'I' for an answer. Both wait for ever. The comments at
   `machine.c:224` and `machine.c:282` know of it. The history variable `raced` of `Remote` says that this happened; a
   SIGINT while the registers are printed after a run, or at a trace, is the same case.
2. `key_lost` (`machine.c:118`). A break that overtakes the client's answer to a read aborts the read after the key
   was taken from the terminal. `machine.c:160` wants devices to resume.
3. `core_truncated` (`console.c:1287`). `restore_state` ignores what `fscanf` returns for a word of memory and counts
   its calls, so the test of the count cannot fail. A core file that lacks words is restored with an uninitialized
   rest of that page and reported as restored. There are two ways to such a file: the program is killed when the
   library's last write but one is done, which ends within the last page; or a write fails in the middle and those
   after it succeed, which `save_state` reports as saved (`console.c:1075`). A file without a page header is refused,
   and the registers are only deposited at the end, so that every other truncation leaves the machine alone, as the
   command says.
4. `sigint_stale` (`console.c:1052`). `in_console` is set only after the end of a run was reported. A SIGINT in
   between raises `interrupted_by_console` although nothing runs, and the next `run` or `step` ends before its first
   instruction, where the help text says "Execute one instruction."
5. `break_clear` (`machine.c:578`). `memset(breakpoints, 0, MEMSIZE)` clears MEMSIZE bytes of an array of MEMSIZE
   shorts: `break clear` leaves the breakpoints of the upper half of memory, where the help text says "Unset ALL
   breakpoints."

What looks like a defect and is not one, or is not said to be one:

* `if( FRAME )` (`serial_com.c:172`) tests an enumeration constant, so that an END_FRAME without a START_FRAME returns
  an empty frame, the old content still in the buffer. Only the rest of a damaged frame can do so (`DeliverRest` of
  `Channel`; the rest need not be empty: when the ESCAPE of a `{` or `}` in the content gets lost, that byte starts or
  ends a frame of its own), and in `Remote` only before `ack_console` and `read_tty_byte`, which look at the length
  (`NoStaleDispatch`). The mutant that drops the acknowledge makes the server execute a stale command.
* Framing stands one lost byte in a frame. When both the byte after an ESCAPE and the END_FRAME get lost, the
  START_FRAME of the next frame is taken for the former and that frame is lost too. Two damaged frames in a row may be
  read as one of mixed content: there is no checksum. In the rest of a damaged frame an escaped `.` is reported as a
  break, because a receiver that waits for a frame does not know ESCAPE; `BreaksReported` allows for that.
* `deposit ac` takes twelve bits and so clears the LINK. `deposit pc` and `deposit if` move the program counter to
  another field and leave IB, so that the next jump goes back to the old one; `deposit` of a flag leaves the request.
  A core file holds neither IB, UB, UF, SF, the inhibition nor the terminal: a program saved in user mode goes on in
  executive mode when it is restored by `--restore`, and in the mode of the moment when restored by the command.
  `SurvivesOperator` and `RestoredWhole` say what holds all the same.
* `save_state` looks at no result of `fprintf` (`console.c:1190-1209`), and `fclose` tells of the last write only, so a
  write that fails for once in the middle leaves a hole in a file that is reported as saved. Nothing in the repository
  says otherwise; `unseen` of `CoreFile` names the case, and `SavedIsComplete` and `RestoreBringsBack` hold in all
  others.
* `restore_state` never closes its stream (`console.c:1226-1311`). After enough restores nothing opens any more: a
  restore leaves the machine alone and says so, but neither a save nor prev.core can be written until the program ends.
* `deposit df` takes twelve bits (`console.c:878`). Such a DF is kept, saved and restored like any other, but a program
  that runs with it addresses memory outside the array, which has no meaning to model: `ConsoleTypeOK` says that this
  is the only way to it (`widened`), and `Start` of `Console` is not taken while DF is no field.
* The operand address printed is not the one used for an autoindexed reference (it is incremented first), for a
  jump that closes an inhibition window into another field, and for an indirect reference when DF is not IF; names are
  always right. `OperandExact` of `Console` names these cases.

## 5. Proofs

`tlapm Pdp8WordProofs.tla`, and so on for `CpuProofs`, `CpuAnyProofs`, `MachineProofs`, `ConsoleProofs`,
`CoreFileProofs`, `SerialLineProofs`, `RemoteProofs`. Each component's theorems rest on its named assumptions on the
constants (`MachineAssumption`, `LineAssumption`, ...), which TLC evaluates for the values of the runs, and on nothing
else: the bounds of the runs (commands, instructions, frames, faults) are constants of any value in the theorems.

| Module | Theorem | Property |
|---|---|---|
| `CpuProofs` | `TypeCorrect`, `BufferedRegisters`, `UserSealed`, `RequestsHaveFlags`, `UserConfined` | `TypeOK`, `BufferedRegistersAgree`, `UserModeSealed`, `RequestImpliesFlag`, `UserModeConfined`: of one image of memory |
| `CpuAnyProofs` | `AnyProgramSafe`, `AnyProgramConfined`, `ReturnsBeforeInterrupt` | the same of every sequence of instructions, and `ReturnWindow` |
| `MachineProofs` | `MachineTypeCorrect`, `NeverOverruns`, `TerminalAlwaysServed`, `SigintSeenSoon`, `RunControlKept` | `MachineTypeOK`, `NoOverrun`, `TerminalServed`, `StopsSoon`, `KeepsPromise` |
| `ConsoleProofs` | `ConsoleTypes`, `OperatorSurvived`, `RestoresTheWhole`, `ExamineIsHarmless`, `ShownIsExecuted` | `ConsoleTypeOK`, `SurvivesOperator`, `RestoredWhole`, `ExamineSpares`, `ShownHappens` |
| | `OneFunction` | the console's `operand_addr` without `examine` is the processor's |
| `CoreFileProofs` | `CoreTypeCorrect`, `SavedStaysComplete`, `RestoresWhatWasSaved`, `PrevCoreKept` | `CoreTypeOK`, `SavedIsComplete`, `RestoreBringsBack`, `PrevCoreSpared` |
| `RemoteProofs` | `RemoteTypes`, `NeverStale`, `AnswersOwn`, `ModesKept`, `KeysOrdered`, `NeverBothWaiting` | `RemoteTypeOK`, `NoStaleDispatch`, `AnswersMatch`, `ModesAgree`, `KeysInOrder`, `NeverBothWait` |
| `SerialLineProofs` | `BufferNeverOverflows`, `BreaksAreReported`, `LineIsChannel` | `BufferBounded`, `BreaksReported`, `IsChannel` |

**The processor.** Assumptions: the sizes (`AddrSize` at most 4096, `PageSize`
dividing it), initial images of words, a start address, typed bytes of 8 bits. No
assumption is made on the program.

The invariant is

    IInv == TypeOK /\ rtf_delay = 0
            /\ BufferedRegistersAgree /\ UserModeSealed /\ RequestImpliesFlag

Its parts need each other. `UserModeSealed` says that in user mode the window is closed; it is preserved because a
JMP or JMS copies UB to UF and closes the window in the same step, and because no instruction of a user opens it.
Without it, `BufferedRegistersAgree` could not be preserved by the interrupt, which sets IB, UB and their partners at
once but leaves the inhibition as it found it. `rtf_delay = 0` is what makes the interrupt leave ION off: the
register exists in the code, no instruction sets it, and it can only come from a core file.
`UserModeConfined` is an action property and follows from `IInv` and one lemma per family of instructions.

Layout: `Pdp8WordProofs` bounds each operator on words (a rotation of a 13-bit value is a 13-bit value, and so on);
`CpuProofs` proves per family that the type invariant, the field and mode registers, and the terminal's requests are
preserved, combines them in `NextIInv`, and derives one theorem per property.

**Any program.** The lemmas of `CpuProofs` are stated for the word fetched, whatever it is, so `IInv` is inductive for
`CpuAny` too; `AnyInv` adds `WindowOpen`: while the history says that the last instruction was an ION or an RTF of a
program in executive mode, interrupts are still off or inhibited. `ReturnWindow` follows: the instruction after it
comes before the next interrupt, which is what lets a service routine return.

**The loop of machine_run.** Assumptions: memory has a word, `TtySkip` is a natural number. The invariant is

    MachineInv == ControlOK /\ NumbersOK /\ NoOverrun /\ TurnsCounted /\ SeenAtPoll

`TerminalServed` alone is not inductive: `TurnsCounted` relates the instructions since the last service to
`tty_skip_count`, and to the turn under way, which has counted itself but executed nothing yet. `StopsSoon` needs
`SeenAtPoll`: between the test of the flag and the processor no instruction can have been executed since the SIGINT.
The refinement of `Debugger` is proved step by step from the same invariant; every command, the ends of runs and the
steps of the loop are one of its actions or leave it as it was.

**The operator.** The invariant is

    ConsoleInv == ConsoleTypeOK /\ rtf_delay = 0 /\ (at # "prompt" => df \in Field)
                  /\ (types of the histories) /\ SurvivesOperator /\ CoreOK

`ConsoleTypeOK` is `TypeOK` of `Cpu` for every register but DF, which is any word of twelve bits and no field only when
`widened`. Inside `machine_run` it is a field, because a run is not modelled otherwise, so that the lemmas of
`CpuProofs` apply there; a core file may hold the wide one.

A deposit breaks `IInv`, which is why `SurvivesOperator` conditions two of its parts by the histories `moved` and
`lowered`; the proof shows that the rest is kept by the processor even when these do not hold, so that
`UserModeSealed` is unconditional. `CoreOK` says of the core file that its registers are of their types and that it is
all there is to know of the machine that was saved, besides what it does not hold (`Whole`).
`ExamineIsHarmless` rests on the flag `examine`, the only thing between a printed instruction and the increment of an
autoindex register (`PrintedSpares`), and `OneFunction` says that the function it is a parameter of is the one the
processor uses.
`ShownIsExecuted` needs one more: what was printed still is of the next instruction when it is executed, because the
service of the terminal in between neither moves the PC nor withdraws a request (`ShownIsNext`). For the operate group the names printed are carried out one after
the other (`Stages`), and one lemma per group compares them, name by name, with the micro-operations of the processor:
every operate word, in both modes, on every accumulator, LINK, MQ and switch setting. As the lists have fixed places (at
most nine, empty where nothing is printed) no induction over them is needed.

**Core files.** Assumptions: a blank machine and prev.core exist, a file has at least three pieces, there is a limit to open streams. The invariant is

    CoreInv == CoreTypeOK /\ SavedIsComplete /\ SaveUnderWay /\ (at # "off" => prompted)

`SavedIsComplete` speaks of files whose save was reported; `SaveUnderWay` says why a save that is about to be reported
deserves it: the file it writes is of the machine the program has, and unless a write of it has failed (`unseen`) it lacks exactly the
pieces still to write, so that when `fclose` succeeds on the last one the file is whole. Its truth needs that no other
report stands for the file being written. All four properties of the run `core` follow, for every number of pieces,
files and machines.

**The line.** Assumptions: the contents of frames are not empty, the line holds a byte. The contents may be any bytes,
the special characters included; breaks and losses may strike anywhere (one loss in a frame, as in the model). The
invariant follows the receiver: `Reached` is the place of the next byte under way, or the sender's when there is none.

    LineInv == LineTypes /\ LineOK /\ LossOK
               /\ InStep /\ Exact /\ Delivered /\ Filled /\ Reported

`LineOK` says that the bytes under way lead from the receiver's place to the sender's, each the byte `send_cmd` writes
there or one half of a break. `InStep` is the heart of it: at the start of a frame, and between the two characters of a
break, the receiver never waits for an escaped byte, and inside a frame that has lost nothing but its start it does so
only where there is one. From it follow that a START_FRAME or END_FRAME is always recognised (`Delivered`, and `Exact`:
the buffer holds the frame as far as it has come), that of the two characters of a break one at least is
(`Reported`), and that no bytes of two frames before can still be in the buffer (`Filled`). `InStep` would be false if
a break were sent once, or if a frame could lose two bytes. The attempt to prove an earlier `Channel`, where the rest
of a damaged frame was always empty, failed; TLC then found the contents that refute it, and both the abstract
specification and the contents of the run were corrected.

**The two processes.** Assumptions: there are registers, the name of the trace flag is not one of theirs, the line to
the client holds a frame. Registers and keys may be any bytes, special characters included; there may be any number of
commands, keys and SIGINTs, and a SIGINT may come between any two bytes, before the acknowledge of another one too.
(The bounds of the run are guards of the model, and constants of any value here.) The invariant is

    RemoteInv == RTypes /\ LineOK /\ InStep
                 /\ AckOK /\ HeardOK /\ Agreed /\ Control /\ InTime

`LineOK` and `InStep` are those of the line, except that a break now cuts the frame it is in: the receiver returns at
once, and what it makes of the rest of the frame is an empty frame at most. Such a rest is only harmless where empty
frames are ignored, so `InStep` says that the server is in `ack_console` when it meets one. `AckOK` and `HeardOK` say
why it is: every break the server takes, and every answer that the input file has ended, makes it wait for a 'C';
these, 'I' and 'C' alternate, so that there is one 'I' or one 'C' under way and never both; and whatever the client
writes between such a byte (`Closes`) and the 'C' is read before that 'C' and dropped. `Agreed` is about the rest, what the server will hear: it expects just these commands in the state it
is in then, only the last of them is answered, and the frames under way to the client are what the client waits for.
`InTime` adds, while no break has come at the wrong time (`raced`), that 'I' is only taken for what it is and that the
operator knows the trace flag. `NoStaleDispatch` needs all but `InTime` and holds with or without `raced`;
`AnswersMatch` and `ModesAgree` are about `~ raced`, the defect of section 4, item 1, being that they fail otherwise.

Two things were changed for the proof: the frames still to be sent are kept whole, and their bytes are computed from a
place, where they were bytes put together by a fold, about which nothing can be proved here. TLC checked `RemoteInv`
(1.5 million states, no error) before it was first proved; the end of an input file was added later, to the model and
to the proof.

`KeysInOrder` relates what was typed to what `tty_process` got, and says nothing of what is on its way in between, so
it is not inductive. Two invariants on top of `RemoteInv` add that:

    KeyInv == ReadOK /\ KeyOrder /\ KeyCount

A question for a key is the only one, only writes precede it and only an 'I' follows it (`ReadOK`). A key that the
server is going to hear is the one typed last, and all that were accepted are among those before it; with none under
way the accepted ones are a subsequence of the typed ones (`KeyOrder`). For the count, a break is charged with the key
it loses before that key is typed: a state `Threatens` when the client may still be asked for a key that nobody will
hear, and then one break more has come than keys were lost (`KeyCount`). A second break in such a state cannot lose a
second key, because the client hears no question between them.

    Goes == (at = "halting" => todo = <<>> /\ ~ place.heard)
            /\ (Waiting => s2c # <<>> \/ Pending(Requests))

is what the liveness properties of the run rest on and can be proved: a client that waits for a server that listens has
an answer or its request under way. With `RemoteInv` it gives `NeverBothWait`. That is not what `ModesAgree` says, which
is about the prompt. TLC checked both invariants on 854,093 states of a smaller instance (one register, one key, two
commands, two keys and two SIGINTs, so that the second one meets the first) before they were first proved.

**Checked by TLC only.**

* Liveness (`EveryKeyEchoed`, `UserFinishes`, `Promptly`, `BreakHonoured`, `QuitArrives`, `Resynchronises`,
  `SigintEndsRun`): out of the prover's reach.
* `EchoInOrder`, `CopyCorrect` and `InterruptTransparent` of `CpuEcho`: they are about two particular programs. What
  they rest on in the processor (the window, the fields, the requests) is proved for every program.
* That `ByteAt`, byte by byte, gives the frames of `send_cmd` (`WritesFrame`), which are put together by a fold: an
  induction over the bytes.

## 6. Not modelled

* The console's reading of lines: tokens (`map_token`), octal numbers, Y/N before a file is overwritten, help,
  messages, the list of breakpoints. Input and output without state; a command of the models is one that was
  understood.
* A program that runs while DF is no field, after `deposit df` (`console.c:878`) or the restore of a file saved then:
  its operands are outside the array of words. The register itself and the core file are modelled.
* A read of a core file that fails after the file was opened.
* `tty_attach` names the file the next `tty_source` reads; `Machine` and `Remote` have the end of that file.
* Options that only say how to start (`--pty`, `--run`, `--pc`), the history file, terminal settings: `8ball.c`, `parse_options`.
* The terminal output of `machine_examine_deposit_reg` and the printing of registers.
* `linenoise.c`, `linenoise.h`: third party. The images `rimloader.h` and `hello_world.h`, the MAINDEC core files and
  the Makefile: data. `tests`, `8ball.pl`: scripts that drive the program.

## 7. Plan

Done: the processor with its terminal (`Cpu`, `CpuAny`, `CpuEcho`), run control of the one-process build (`Machine`,
`Debugger`), framing as a channel (`SerialCom`, `SerialLine`, `Channel`), the two-process build with all its requests
(`Remote`), the operator around the processor (`Console`, `Disassembly`), core files (`CoreFile`), and the proofs of
section 5.

Left:

1. `CpuSpec`: an abstract instruction set with a 15-bit program counter and a mode, refined by `Cpu`.
