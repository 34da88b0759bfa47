-------------------------------- MODULE Console --------------------------------
(***************************************************************************)
(* The operator's console of the one-process build around the machine of   *)
(* Cpu: run, step, trace, examine, deposit, save, restore and a start with *)
(* --restore, as console() of console.c and the register accessors of      *)
(* machine.c carry them out.  What may go wrong with the file is in        *)
(* CoreFile, breakpoints and SIGINT are in Machine; here it is about what  *)
(* the commands do to a machine in the middle of its work, and about what  *)
(* print_instruction says it will do next.                                 *)
(***************************************************************************)
EXTENDS Cpu, Disassembly

CONSTANTS
  Words, Cells,      \* words to deposit, and where
  Places,            \* addresses for the PC, in field 0 and 1
  Values,            \* for AC, MQ and SR
  DataFields,        \* for DF
  MaxCommands,       \* bound: commands entered
  MaxStored,         \* bound: words deposited in memory
  ShortSession,      \* bound: commands of a session that deposits words
  MaxInstructions    \* bound: instructions executed

ASSUME ConsoleAssumption ==
  /\ Words \subseteq Word /\ Cells \subseteq Cell
  /\ Places \subseteq Addr /\ Values \subseteq Word /\ DataFields \subseteq Word
  /\ MaxStored \in Nat /\ MaxInstructions \in Nat
  /\ MaxCommands \in Nat /\ ShortSession \in 0..MaxCommands

VARIABLES
  at,                \* "prompt"; "tty", "cpu" and "trace", in machine_run
  single,            \* machine_run was called for one instruction
  trace_instruction,
  shown,             \* what was printed of the next instruction
  core,              \* the core file, and in it the history of its save
  moved,             \* history: the operator changed the field of the PC
  lowered,           \* history: the operator changed a flag or the requests
  widened,           \* history: the operator deposited a DF that is no field
  commands, stored, executed

bounds == <<commands, stored, executed>>
meddled == <<moved, lowered, widened>>
consoleVars == <<vars, at, single, trace_instruction, shown, core, meddled, bounds>>

location == <<pif, pc>>
flags == <<tty_kb_flag, tty_tp_flag>>

(* What no deposit reaches, and what a core file does not hold. *)
Kept == <<ib, sf, intr_inhibit, uf, ub, tty_kb_buf, tty_tp_buf, tty_dcr, output_pending>>
Unsaved == <<Kept, flags>>

NotShown == [what |-> "nothing"]
NoCore == [what |-> "nothing"]

ConsoleInit ==
  /\ Init
  /\ at = "prompt" /\ single = FALSE /\ trace_instruction = FALSE
  /\ shown = NotShown /\ core = NoCore
  /\ moved = FALSE /\ lowered = FALSE /\ widened = FALSE
  /\ \/ commands = 0 /\ stored = MaxStored
     \/ commands = MaxCommands - ShortSession /\ stored = 0
  /\ executed = 0

-----------------------------------------------------------------------------
(***************************************************************************)
(* operand_addr, for the word at any location of a memory: the address,    *)
(* and the memory it leaves.  The processor uses the same function, where  *)
(* it steps autoindex registers; "examine" is what keeps it from that.     *)
(***************************************************************************)
direct_addr(memory, cell) == <<cell[1], DirectAddr(cell[2], memory[cell])>>

(* Mutant: "examine" is not looked at. *)
StepsAlways(memory, cell, examine) ==
  Indirect(memory[cell]) /\ direct_addr(memory, cell)[2] \in \o10..\o17

Steps(memory, cell, examine) ==
  Indirect(memory[cell]) /\ direct_addr(memory, cell)[2] \in \o10..\o17 /\ ~ examine

operand_addr(memory, cell, examine) ==
  LET pointer == direct_addr(memory, cell)
      after == IF Steps(memory, cell, examine)
               THEN [memory EXCEPT ![pointer] = Inc12(@)] ELSE memory
  IN [addr |-> IF Indirect(memory[cell]) THEN <<cell[1], after[pointer] % AddrSize>>
                                         ELSE pointer,
      mem |-> after]

(***************************************************************************)
(* print_instruction: what it shows, and the memory it leaves.             *)
(***************************************************************************)
print_instruction(memory, cell) ==
  [what |-> "instruction", names |-> Mnemonics(memory[cell]),
   operand |-> operand_addr(memory, cell, TRUE).addr]

Printed(memory, cell) == operand_addr(memory, cell, TRUE).mem

(* console_trace_instruction. *)
Preview ==
  IF InterruptDue THEN [what |-> "interrupt"] ELSE print_instruction(mem, location)

-----------------------------------------------------------------------------
(***************************************************************************)
(* Commands.                                                               *)
(***************************************************************************)
Enter ==
  /\ at = "prompt"
  /\ commands < MaxCommands /\ commands' = commands + 1
  /\ UNCHANGED executed

Examine(cell) ==
  /\ Enter
  /\ mem' = Printed(mem, cell)
  /\ UNCHANGED <<location, acc, ion, ion_delay, rtf_delay, mmu, run, tty, intr>>
  /\ UNCHANGED <<at, single, trace_instruction, shown, core, meddled, stored>>

ToggleTrace ==
  /\ Enter
  /\ trace_instruction' = ~ trace_instruction
  /\ UNCHANGED <<vars, at, single, shown, core, meddled, stored>>

(***************************************************************************)
(* "step" prints the next instruction, even when an interrupt is due.  Not *)
(* modelled is what a program does with a DF that is no field: its operands*)
(* are outside the array of words.                                         *)
(***************************************************************************)
Start(one) ==
  /\ Enter
  /\ df \in Field
  /\ at' = "tty" /\ single' = one
  /\ run' = "R"
  /\ IF one
     THEN shown' = print_instruction(mem, location) /\ mem' = Printed(mem, location)
     ELSE shown' = NotShown /\ mem' = mem
  /\ UNCHANGED <<location, acc, ion, ion_delay, rtf_delay, mmu, tty, intr>>
  /\ UNCHANGED <<trace_instruction, core, meddled, stored>>

(* deposit: one of the registers that have a case, or a word of memory. *)
Deposit ==
  /\ Enter
  /\ UNCHANGED <<ion, ion_delay, rtf_delay, run, intr, Kept>>
  /\ UNCHANGED <<at, single, trace_instruction, shown, core>>

(* Twelve bits are read: the LINK is cleared. *)
DepositAC(value) ==
  Deposit /\ ac' = value /\ UNCHANGED <<location, mq, sr, df, flags, mem, meddled, stored>>

(* Mutant: the case of MQ copied from that of DF. *)
DepositMQToDF(value) ==
  Deposit /\ df' = value /\ UNCHANGED <<location, acc, flags, mem, meddled, stored>>

DepositMQ(value) ==
  Deposit /\ mq' = value /\ UNCHANGED <<location, ac, sr, df, flags, mem, meddled, stored>>
DepositSR(value) ==
  Deposit /\ sr' = value /\ UNCHANGED <<location, ac, mq, df, flags, mem, meddled, stored>>

(* Twelve bits are read where the register has three. *)
DepositDF(value) ==
  /\ Deposit
  /\ df' = value /\ widened' = (widened \/ value \notin Field)
  /\ UNCHANGED <<location, acc, flags, mem, moved, lowered, stored>>

(* Only the field bits of the PC change, and only up to field 3. *)
DepositIF(field) ==
  /\ Deposit
  /\ field <= 3
  /\ pif' = field /\ moved' = (moved \/ field # pif)
  /\ UNCHANGED <<pc, acc, df, flags, mem, lowered, widened, stored>>

DepositPC(cell) ==
  /\ Deposit
  /\ pif' = cell[1] /\ pc' = cell[2] /\ moved' = (moved \/ cell[1] # pif)
  /\ UNCHANGED <<acc, df, flags, mem, lowered, widened, stored>>

(* The flag only, not the request.  Any value but 0 counts as 1. *)
DepositFlags(keyboard, printer) ==
  /\ Deposit
  /\ tty_kb_flag' = keyboard /\ tty_tp_flag' = printer
  /\ lowered' = (lowered \/ keyboard < tty_kb_flag \/ printer < tty_tp_flag)
  /\ UNCHANGED <<location, acc, df, mem, moved, widened, stored>>

(* The word is shown where it has been deposited. *)
DepositWord(cell, word) ==
  /\ Deposit
  /\ stored < MaxStored /\ stored' = stored + 1
  /\ mem' = Printed([mem EXCEPT ![cell] = word], cell)
  /\ UNCHANGED <<location, acc, df, flags, meddled>>

DepositSome ==
  \/ \E value \in Values : DepositAC(value) \/ DepositMQ(value) \/ DepositSR(value)
  \/ \E value \in DataFields : DepositDF(value)
  \/ \E field \in 0..1 : DepositIF(field)
  \/ \E flag \in Bit : DepositFlags(flag, tty_tp_flag) \/ DepositFlags(tty_kb_flag, flag)
  \/ \E field \in 0..1, a \in Places : DepositPC(<<field, a>>)
  \/ \E cell \in Cells, word \in Words : DepositWord(cell, word)

-----------------------------------------------------------------------------
(***************************************************************************)
(* save_state and restore_state.                                           *)
(***************************************************************************)

(* Mutant: AC printed with four digits, as its format suggests. *)
SavedWithoutLink ==
  [pif |-> pif, pc |-> pc, ac |-> AC(ac), mq |-> mq, df |-> df, sr |-> sr,
   ion |-> ion, ion_delay |-> ion_delay, rtf_delay |-> rtf_delay, intr |-> intr, mem |-> mem]

Saved ==
  [pif |-> pif, pc |-> pc, ac |-> ac, mq |-> mq, df |-> df, sr |-> sr,
   ion |-> ion, ion_delay |-> ion_delay, rtf_delay |-> rtf_delay, intr |-> intr, mem |-> mem]

Machine == <<location, acc, ion, ion_delay, rtf_delay, mmu, mem, tty, intr>>

Save ==
  /\ Enter
  /\ core' = [what |-> "core", saved |-> Saved, machine |-> Machine, unsaved |-> Unsaved]
  /\ UNCHANGED <<vars, at, single, trace_instruction, shown, meddled, stored>>

Load(c) ==
  /\ mem' = c.mem
  /\ pif' = c.pif /\ pc' = c.pc
  /\ ac' = c.ac /\ mq' = c.mq /\ df' = c.df /\ sr' = c.sr
  /\ ion' = c.ion /\ ion_delay' = c.ion_delay /\ rtf_delay' = c.rtf_delay
  /\ intr' = c.intr
  /\ moved' = (moved \/ c.pif # pif)
  /\ lowered' = (lowered \/ ~ (c.intr \subseteq intr)) /\ widened' = widened

(* Mutant: UF, which save_state reads and throws away, is restored. *)
RestoreUser ==
  /\ Enter
  /\ core.what = "core" /\ Load(core.saved)
  /\ uf' = core.unsaved[1][4]
  /\ UNCHANGED <<run, ib, sf, intr_inhibit, ub, tty>>
  /\ UNCHANGED <<at, single, trace_instruction, shown, core, stored>>

Restore ==
  /\ Enter
  /\ core.what = "core" /\ Load(core.saved)
  /\ UNCHANGED <<run, Unsaved>>
  /\ UNCHANGED <<at, single, trace_instruction, shown, core, stored>>

(* The program ends and is started again with --restore. *)
StartRestored ==
  /\ Enter
  /\ core.what = "core"
  /\ mem' = core.saved.mem /\ pif' = core.saved.pif /\ pc' = core.saved.pc
  /\ ac' = core.saved.ac /\ mq' = core.saved.mq /\ sr' = core.saved.sr
  /\ ion' = core.saved.ion /\ df' = core.saved.df /\ intr' = core.saved.intr
  /\ ion_delay' = core.saved.ion_delay /\ rtf_delay' = core.saved.rtf_delay
  /\ ib' = 0 /\ sf' = 0 /\ intr_inhibit' = 0 /\ uf' = 0 /\ ub' = 0
  /\ tty_kb_buf' = 0 /\ tty_kb_flag' = 0 /\ tty_tp_buf' = 0 /\ tty_tp_flag' = 0
  /\ tty_dcr' = 1 /\ output_pending' = 0
  /\ run' = "R"
  /\ moved' = (core.saved.pif # 0) /\ lowered' = (core.saved.intr # {})
  /\ trace_instruction' = FALSE
  /\ UNCHANGED <<at, single, shown, core, widened, stored>>

-----------------------------------------------------------------------------
(***************************************************************************)
(* machine_run.                                                            *)
(***************************************************************************)
Interrupted ==
  /\ at = "tty" /\ at' = "prompt"
  /\ Break
  /\ shown' = NotShown
  /\ UNCHANGED <<single, trace_instruction, core, meddled, bounds>>

(* A step always calls tty_process, a run does so now and then. *)
ServeTty ==
  /\ at = "tty" /\ at' = "cpu"
  /\ \/ tty_process
     \/ (single => output_pending = 0) /\ UNCHANGED vars
  /\ UNCHANGED <<single, trace_instruction, shown, core, meddled, bounds>>

Execute ==
  /\ at = "cpu"
  /\ executed < MaxInstructions /\ executed' = executed + 1
  /\ cpu_process
  /\ at' = CASE run' = "H" \/ single -> "prompt"
             [] OTHER -> IF trace_instruction THEN "trace" ELSE "tty"
  /\ shown' = NotShown
  /\ UNCHANGED <<single, trace_instruction, core, meddled, commands, stored>>

(* Trace prints what comes next, after the tests that end a run. *)
Trace ==
  /\ at = "trace" /\ at' = "tty"
  /\ shown' = Preview
  /\ mem' = IF InterruptDue THEN mem ELSE Printed(mem, location)
  /\ UNCHANGED <<location, acc, ion, ion_delay, rtf_delay, mmu, run, tty, intr>>
  /\ UNCHANGED <<single, trace_instruction, core, meddled, bounds>>

ConsoleNext ==
  \/ \E one \in BOOLEAN : Start(one)
  \/ \E cell \in Cells : Examine(cell)
  \/ ToggleTrace \/ DepositSome
  \/ Save \/ Restore \/ StartRestored
  \/ Interrupted \/ ServeTty \/ Execute \/ Trace

ConsoleSpec == ConsoleInit /\ [][ConsoleNext]_consoleVars

-----------------------------------------------------------------------------
(***************************************************************************)
(* What the operator may rely on.                                          *)
(***************************************************************************)
SkipsTo(skip) == pif' = pif /\ pc' = (pc + (IF skip THEN 2 ELSE 1)) % AddrSize

(* The operand shown is the one used: not when the pointer is incremented  *)
(* first, when a jump closes a window, and when the data field is another. *)
OperandExact(w) ==
  /\ ~ AutoIndexed(w)
  /\ Opcode(w) >= 4 => JumpField = pif
  /\ Opcode(w) < 4 /\ Indirect(w) => df = pif

MemoryMeans(name, operand) ==
  CASE name = "AND" -> ac' = AndAC(ac, mem[operand]) /\ SkipsTo(FALSE)
    [] name = "TAD" -> ac' = (ac + mem[operand]) % \o20000 /\ SkipsTo(FALSE)
    [] name = "ISZ" -> mem'[operand] = Inc12(mem[operand]) /\ SkipsTo(mem'[operand] = 0)
    [] name = "DCA" -> mem'[operand] = AC(ac) /\ ac' = OnlyLink(ac) /\ SkipsTo(FALSE)
    [] name = "JMS" -> /\ mem'[operand] = (pc + 1) % AddrSize
                       /\ pif' = operand[1] /\ pc' = (operand[2] + 1) % AddrSize
    [] name = "JMP" -> location' = operand

IotMeans(name, w) ==
  CASE name = "SKON" -> SKON(w) [] name = "ION" -> ION(w) [] name = "IOF" -> IOF(w)
    [] name = "SRQ" -> SRQ(w) [] name = "GTF" -> GTF(w) [] name = "RTF" -> RTF(w)
    [] name = "CAF" -> CAF(w)
    [] name = "KCF" -> KCF(w) [] name = "KSF" -> KSF(w) [] name = "KCC" -> KCC(w)
    [] name = "KRS" -> KRS(w) [] name = "KIE" -> KIE(w) [] name = "KRB" -> KRB(w)
    [] name = "TFL" -> TFL(w) [] name = "TSF" -> TSF(w) [] name = "TCF" -> TCF(w)
    [] name = "TPC" -> TPC(w) [] name = "TSK" -> TSK(w) [] name = "TLS" -> TLS(w)
    [] name = "CDF" -> CDF_CIF(w) /\ UNCHANGED ib
    [] name = "CIF" -> CDF_CIF(w) /\ UNCHANGED df
    [] name = "CDI" -> CDF_CIF(w) /\ ib' = df'
    [] name = "CINT" -> CINT(w) [] name = "RDF" -> RDF(w) [] name = "RIF" -> RIF(w)
    [] name = "RIB" -> RIB(w) [] name = "RMF" -> RMF(w) [] name = "SINT" -> SINT(w)
    [] name = "CUF" -> CUF_SUF(w) /\ ub' = 0
    [] name = "SUF" -> CUF_SUF(w) /\ ub' = 1
    [] OTHER -> IotNop(w)

(* In user mode OSR and HLT trap, after the rest. *)
OperateMeans(names) ==
  LET traps == uf = 1 /\ {"OSR", "HLT"} \cap Range(names) # {}
      allowed == [i \in DOMAIN names |-> IF names[i] \in {"OSR", "HLT"} THEN Nothing ELSE names[i]]
      result == Carried(IF traps THEN allowed ELSE names, ac, mq, sr)
  IN /\ ac' = result.ac /\ mq' = result.mq
     /\ SkipsTo(Skips(result))
     /\ run' = result.run
     /\ intr' = intr \cup (IF traps THEN {"USER"} ELSE {})

Means(print, w) ==
  CASE Opcode(w) < 6 -> OperandExact(w) => MemoryMeans(print.names[1], print.operand)
    [] Opcode(w) = 6 -> IF uf = 1 THEN IotTrap(w) ELSE IotMeans(print.names[1], w)
    [] Opcode(w) = 7 -> OperateMeans(print.names)

ShownTrue ==
  CASE shown.what = "nothing" -> TRUE
    [] shown.what = "interrupt" -> Interrupt
    [] OTHER -> Interrupt \/ Means(shown, mem[<<pif, pc>>])

(* What step and trace print is what the processor then does, under every  *)
(* name and, where it can be known, with the operand shown; unless the     *)
(* terminal was served in between and an interrupt comes first.  An        *)
(* interrupt that trace announces is always taken.                         *)
ShownHappens == [][Execute => ShownTrue]_consoleVars

(* Looking at memory never changes it: only the instructions of a program  *)
(* step an autoindex register, however often and wherever examine, step,   *)
(* trace and deposit print one that goes through it; and a deposit changes *)
(* the one word it names.                                                  *)
ExamineSpares ==
  [][mem' # mem =>
       \/ Execute \/ Restore \/ StartRestored
       \/ stored' > stored
          /\ \E cell \in Cells, word \in Words : mem' = [mem EXCEPT ![cell] = word]]_consoleVars

(* Every register stays in its width, whatever is deposited and restored   *)
(* and whatever runs in between, but one: DF, once the operator has        *)
(* deposited a value in it that is no field.                               *)
ConsoleTypeOK ==
  /\ TtyTypeOK
  /\ pif \in Field /\ pc \in Addr
  /\ ac \in LinkAC /\ mq \in Word /\ sr \in Word
  /\ ion \in Bit /\ ion_delay \in Bit /\ rtf_delay \in Bit
  /\ ib \in Field /\ sf \in 0..\o177
  /\ df \in Word /\ (df \in Field \/ widened)
  /\ intr_inhibit \in Bit /\ uf \in Bit /\ ub \in Bit
  /\ mem \in [Cell -> Word]
  /\ run \in {"R", "H", "I"}

(* What no command can do, at any point of a program: let a user mode      *)
(* program out, make the buffered fields differ from the live ones without *)
(* moving the PC to another field, or leave a request without its flag     *)
(* without touching flags or requests.                                     *)
SurvivesOperator ==
  /\ UserModeSealed
  /\ ~ moved => BufferedRegistersAgree
  /\ ~ lowered => RequestImpliesFlag

(* A machine restored, when what the file does not hold is as it was, is   *)
(* in every register and word the machine that was saved.                  *)
RestoredWhole ==
  [][Restore /\ Unsaved = core.unsaved => Machine' = core.machine]_consoleVars

=============================================================================
