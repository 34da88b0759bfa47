--------------------------------- MODULE Cpu ---------------------------------
(***************************************************************************)
(* The PDP-8/E of cpu.c: processor registers, KM8E memory extension and    *)
(* time-share option, core memory, and the terminal interface of Tty.      *)
(*                                                                         *)
(* cpu_process is called in the loop of machine_run and is one atomic      *)
(* step: either an interrupt is taken or one instruction is executed.      *)
(* There is one action per instruction (per group of instructions when     *)
(* the source has one piece of code for them); each takes the fetched word *)
(* "w" as parameter, so that a specification decides where programs come   *)
(* from: Spec below fetches from mem.                                      *)
(*                                                                         *)
(* The program keeps the instruction field in bits 12-14 of "pc"; here     *)
(* they are the variable pif, and pc is what remains.  "mb" and "cpma" do  *)
(* not outlive a call of cpu_process and are w and Operand(w).             *)
(***************************************************************************)
EXTENDS Pdp8Word, Tty

CONSTANTS
  Images,         \* what core memory may hold when the machine is started
  StartPc         \* where the program starts, in field 0

ASSUME StartAssumption == Images \subseteq [Cell -> Word] /\ StartPc \in Addr

VARIABLES
  pif, pc,                \* instruction field and program counter
  ac, mq,                 \* accumulator with LINK, multiplier quotient
  sr,                     \* switch register: the operator's, see Console
  ion,                    \* interrupts on
  ion_delay, rtf_delay,   \* ion will be set after the next fetch
  ib, sf, df,             \* instruction buffer, save field, data field
  intr_inhibit,           \* no interrupt before the next JMP or JMS
  uf, ub,                 \* user flag and user buffer
  mem,                    \* core memory
  run                     \* "R" running, or why machine_run returned

acc == <<ac, mq, sr>>
mmu == <<ib, sf, df, intr_inhibit, uf, ub>>
vars == <<pif, pc, acc, ion, ion_delay, rtf_delay, mmu, mem, run, tty, intr>>

TypeOK ==
  /\ TtyTypeOK
  /\ pif \in Field /\ pc \in Addr
  /\ ac \in LinkAC /\ mq \in Word /\ sr \in Word
  /\ ion \in Bit /\ ion_delay \in Bit /\ rtf_delay \in Bit
  /\ ib \in Field /\ sf \in 0..\o177 /\ df \in Field
  /\ intr_inhibit \in Bit /\ uf \in Bit /\ ub \in Bit
  /\ mem \in [Cell -> Word]
  /\ run \in {"R", "H", "I"}

Init ==
  /\ TtyInit
  /\ pif = 0 /\ pc = StartPc
  /\ ac = 0 /\ mq = 0 /\ sr = \o7777
  /\ ion = 0 /\ ion_delay = 0 /\ rtf_delay = 0
  /\ ib = 0 /\ sf = 0 /\ df = 0
  /\ intr_inhibit = 0 /\ uf = 0 /\ ub = 0
  /\ mem \in Images
  /\ run = "R"

-----------------------------------------------------------------------------
(***************************************************************************)
(* Interrupt or fetch.                                                     *)
(***************************************************************************)
InterruptDue == ion = 1 /\ intr # {} /\ intr_inhibit = 0

(* An interrupt is a JMS to location 0 of field 0, in executive mode.  A   *)
(* pending rtf_delay survives the interrupt; ion_delay does not.           *)
Interrupt ==
  /\ run = "R" /\ InterruptDue
  /\ ion' = rtf_delay /\ ion_delay' = 0 /\ rtf_delay' = 0
  /\ sf' = \o100 * uf + 8 * pif + df
  /\ df' = 0 /\ ib' = 0 /\ uf' = 0 /\ ub' = 0
  /\ mem' = [mem EXCEPT ![<<0, 0>>] = pc]
  /\ pif' = 0 /\ pc' = 1 % AddrSize
  /\ UNCHANGED <<acc, intr_inhibit, run, tty, intr>>

Ready == run = "R" /\ ~ InterruptDue

(* The interrupt flip-flop as the instruction just fetched sees it. *)
IonNow == IF ion_delay = 1 \/ rtf_delay = 1 THEN 1 ELSE ion

Fetched == Ready /\ ion_delay' = 0 /\ rtf_delay' = 0 /\ sr' = sr
Executed == Fetched /\ ion' = IonNow

(* Mutant: INC_PC without its mask. *)
AdvanceOver(skip) == pif' = pif /\ pc' = pc + (IF skip THEN 2 ELSE 1)

Advance(skip) ==
  /\ pif' = pif
  /\ pc' = (pc + (IF skip THEN 2 ELSE 1)) % AddrSize

(***************************************************************************)
(* operand_addr: only memory reference instructions come here.  An         *)
(* indirect reference through 10-17 increments the pointer first.          *)
(***************************************************************************)
Pointer(w) == <<pif, DirectAddr(pc, w)>>
AutoIndexed(w) == Indirect(w) /\ DirectAddr(pc, w) \in \o10..\o17

Indexed(w) == IF AutoIndexed(w)
              THEN [mem EXCEPT ![Pointer(w)] = Inc12(mem[Pointer(w)])]
              ELSE mem

OperandAddr(w) == IF Indirect(w) THEN Indexed(w)[Pointer(w)] % AddrSize
                                 ELSE DirectAddr(pc, w)

(* Mutant: the instruction field in place of the data field. *)
OperandInIF(w) == <<pif, OperandAddr(w)>>

(* The data field is used by the indirect AND, TAD, ISZ and DCA. *)
Operand(w) == <<IF Indirect(w) THEN df ELSE pif, OperandAddr(w)>>

-----------------------------------------------------------------------------
(***************************************************************************)
(* Memory reference instructions.                                          *)
(***************************************************************************)
AND(w) ==
  /\ Opcode(w) = 0
  /\ Executed /\ Advance(FALSE)
  /\ mem' = Indexed(w)
  /\ ac' = AndAC(ac, Indexed(w)[Operand(w)])
  /\ UNCHANGED <<mq, mmu, run, tty, intr>>

TAD(w) ==
  /\ Opcode(w) = 1
  /\ Executed /\ Advance(FALSE)
  /\ mem' = Indexed(w)
  /\ ac' = (ac + Indexed(w)[Operand(w)]) % \o20000
  /\ UNCHANGED <<mq, mmu, run, tty, intr>>

ISZ(w) ==
  /\ Opcode(w) = 2
  /\ Executed
  /\ LET sum == Inc12(Indexed(w)[Operand(w)]) IN
     /\ mem' = [Indexed(w) EXCEPT ![Operand(w)] = sum]
     /\ Advance(sum = 0)
  /\ UNCHANGED <<acc, mmu, run, tty, intr>>

DCA(w) ==
  /\ Opcode(w) = 3
  /\ Executed /\ Advance(FALSE)
  /\ mem' = [Indexed(w) EXCEPT ![Operand(w)] = AC(ac)]
  /\ ac' = OnlyLink(ac)
  /\ UNCHANGED <<mq, mmu, run, tty, intr>>

(* Mutant: the jump stays in the field. *)
JumpInField == pif

(* JMP and JMS end the inhibition: IB goes to IF and UB to UF. *)
JumpField == IF intr_inhibit = 1 THEN ib ELSE pif

LeaveInhibition ==
  /\ uf' = IF intr_inhibit = 1 THEN ub ELSE uf
  /\ intr_inhibit' = 0
  /\ UNCHANGED <<ib, sf, df, ub>>

JMS(w) ==
  /\ Opcode(w) = 4
  /\ Executed /\ LeaveInhibition
  /\ mem' = [Indexed(w) EXCEPT ![<<JumpField, OperandAddr(w)>>] = (pc + 1) % AddrSize]
  /\ pif' = JumpField
  /\ pc' = (OperandAddr(w) + 1) % AddrSize
  /\ UNCHANGED <<acc, run, tty, intr>>

JMP(w) ==
  /\ Opcode(w) = 5
  /\ Executed /\ LeaveInhibition
  /\ mem' = Indexed(w)
  /\ pif' = JumpField
  /\ pc' = OperandAddr(w)
  /\ UNCHANGED <<acc, run, tty, intr>>

-----------------------------------------------------------------------------
(***************************************************************************)
(* IOT.  In user mode every one of them only requests an interrupt.        *)
(***************************************************************************)
IotTrap(w) ==
  /\ Opcode(w) = 6 /\ uf = 1
  /\ Executed /\ Advance(FALSE)
  /\ intr' = intr \cup {"USER"}
  /\ UNCHANGED <<acc, mmu, mem, run, tty>>

(* Mutant: nothing is privileged. *)
IotAnyMode(w, device, op) == Opcode(w) = 6 /\ Device(w) = device /\ IotOp(w) = op

Iot(w, device, op) == Opcode(w) = 6 /\ uf = 0 /\ Device(w) = device /\ IotOp(w) = op

(* Instructions that only skip; or that only touch AC and LINK. *)
SkipIf(condition) ==
  Executed /\ Advance(condition) /\ UNCHANGED <<acc, mmu, mem, run, tty, intr>>
SetAC(a) ==
  Executed /\ Advance(FALSE) /\ ac' = a /\ UNCHANGED <<mq, mmu, mem, run, tty, intr>>

(* Device 00: interrupt control. *)
SKON(w) ==
  /\ Iot(w, 0, 0)
  /\ Fetched /\ ion' = 0
  /\ Advance(IonNow = 1)
  /\ UNCHANGED <<acc, mmu, mem, run, tty, intr>>

(* Mutant: ION without its delay. *)
IONAtOnce(w) == Iot(w, 0, 1) /\ Fetched /\ ion' = 1 /\ Advance(FALSE)
                /\ UNCHANGED <<acc, mmu, mem, run, tty, intr>>

ION(w) ==
  /\ Iot(w, 0, 1)
  /\ Ready /\ ion_delay' = 1 /\ rtf_delay' = 0 /\ ion' = IonNow
  /\ Advance(FALSE)
  /\ UNCHANGED <<acc, mmu, mem, run, tty, intr>>

IOF(w) ==
  /\ Iot(w, 0, 2)
  /\ Fetched /\ ion' = 0
  /\ Advance(FALSE)
  /\ UNCHANGED <<acc, mmu, mem, run, tty, intr>>

SRQ(w) == Iot(w, 0, 3) /\ SkipIf(intr # {})

(* LINK in bit 11, request in bit 9, ION in bit 7, SF below. *)
Flags == \o4000 * Link(ac) + (IF intr # {} THEN \o1000 ELSE 0) + \o200 * IonNow + sf

GTF(w) ==
  /\ Iot(w, 0, 4)
  /\ SetAC(OnlyLink(ac) + Flags)

RTF(w) ==
  /\ Iot(w, 0, 5)
  /\ Fetched /\ ion' = 1
  /\ Advance(FALSE)
  /\ ac' = (IF Has(ac, \o4000) THEN \o10000 ELSE 0) + AC(ac)
  /\ ib' = (ac \div 8) % 8 /\ df' = ac % 8
  /\ ub' = (ac \div \o100) % 2 /\ intr_inhibit' = 1
  /\ UNCHANGED <<mq, sf, uf, mem, run, tty, intr>>

CAF(w) ==
  /\ Iot(w, 0, 7)
  /\ Fetched /\ ion' = 0
  /\ Advance(FALSE)
  /\ ac' = 0 /\ intr' = {}
  /\ TtyReset
  /\ UNCHANGED <<mq, mmu, mem, run>>

-----------------------------------------------------------------------------
(***************************************************************************)
(* Device 03: the keyboard.                                                *)
(***************************************************************************)
(* Mutant: the request stays up. *)
ClearFlagOnly(a) ==
  /\ Executed /\ Advance(FALSE)
  /\ ac' = a /\ tty_kb_flag' = 0
  /\ UNCHANGED <<mq, mmu, mem, run, intr>>
  /\ UNCHANGED <<tty_kb_buf, tty_tp_buf, tty_tp_flag, tty_dcr, output_pending>>

ClearKeyboard(a) ==
  /\ Executed /\ Advance(FALSE)
  /\ ac' = a
  /\ tty_kb_flag' = 0 /\ intr' = intr \ {"TTYI"}
  /\ UNCHANGED <<mq, mmu, mem, run>>
  /\ UNCHANGED <<tty_kb_buf, tty_tp_buf, tty_tp_flag, tty_dcr, output_pending>>

KCF(w) == Iot(w, 3, 0) /\ ClearKeyboard(ac)
KSF(w) == Iot(w, 3, 1) /\ SkipIf(tty_kb_flag = 1)
KCC(w) == Iot(w, 3, 2) /\ ClearKeyboard(OnlyLink(ac))
KRS(w) == Iot(w, 3, 4) /\ SetAC(OrAC(ac, tty_kb_buf))
KRB(w) == Iot(w, 3, 6) /\ ClearKeyboard(OnlyLink(ac) + tty_kb_buf)

KIE(w) ==
  /\ Iot(w, 3, 5)
  /\ Executed /\ Advance(FALSE)
  /\ tty_dcr' = ac % 2
  /\ UNCHANGED <<acc, mmu, mem, run, intr>>
  /\ UNCHANGED <<tty_kb_buf, tty_kb_flag, tty_tp_buf, tty_tp_flag, output_pending>>

(***************************************************************************)
(* Device 04: the teleprinter.                                             *)
(***************************************************************************)
SetPrinter(buf, flag, pending, requests) ==
  /\ Executed /\ Advance(FALSE)
  /\ tty_tp_buf' = buf /\ tty_tp_flag' = flag
  /\ output_pending' = pending /\ intr' = requests
  /\ UNCHANGED <<acc, mmu, mem, run, tty_kb_buf, tty_kb_flag, tty_dcr>>

(* Mutants: TPC starts no output; TCF leaves the request up. *)
TPCOnlyLoads(w) == Iot(w, 4, 4) /\ SetPrinter(ac % \o200, tty_tp_flag, output_pending, intr)
TCFOnlyFlag(w) == Iot(w, 4, 2) /\ SetPrinter(tty_tp_buf, 0, output_pending, intr)

TFL(w) == Iot(w, 4, 0) /\ SetPrinter(tty_tp_buf, 1, output_pending, intr \cup Raise("TTYO"))
TSF(w) == Iot(w, 4, 1) /\ SkipIf(tty_tp_flag = 1)
TCF(w) == Iot(w, 4, 2) /\ SetPrinter(tty_tp_buf, 0, output_pending, intr \ {"TTYO"})
TPC(w) == Iot(w, 4, 4) /\ SetPrinter(ac % \o200, tty_tp_flag, 1, intr)
TSK(w) == Iot(w, 4, 5) /\ SkipIf(tty_tp_flag = 1 \/ tty_kb_flag = 1)
TLS(w) == Iot(w, 4, 6) /\ SetPrinter(ac % \o200, 0, 1, intr \ {"TTYO"})

-----------------------------------------------------------------------------
(***************************************************************************)
(* Devices 20-27: the memory management unit.                              *)
(***************************************************************************)
(* Mutant: not privileged. *)
MmuAnyMode(w, op) == Opcode(w) = 6 /\ Device(w) \in \o20..\o27 /\ IotOp(w) = op

Mmu(w, op) == Opcode(w) = 6 /\ uf = 0 /\ Device(w) \in \o20..\o27 /\ IotOp(w) = op
MmuRead(w, what) == Mmu(w, 4) /\ FieldOf(w) = what

(* CDF, CIF and both at once (CDI). *)
CDF_CIF(w) ==
  /\ \E op \in 1..3 : Mmu(w, op)
  /\ Executed /\ Advance(FALSE)
  /\ df' = IF Has(w, 1) THEN FieldOf(w) ELSE df
  /\ IF Has(w, 2)
     THEN ib' = FieldOf(w) /\ intr_inhibit' = 1
     ELSE UNCHANGED <<ib, intr_inhibit>>
  /\ UNCHANGED <<acc, sf, uf, ub, mem, run, tty, intr>>

CINT(w) ==
  /\ MmuRead(w, 0)
  /\ Executed /\ Advance(FALSE)
  /\ intr' = intr \ {"USER"}
  /\ UNCHANGED <<acc, mmu, mem, run, tty>>

RDF(w) == MmuRead(w, 1) /\ SetAC(OrAC(ac, 8 * df))
RIF(w) == MmuRead(w, 2) /\ SetAC(OrAC(ac, 8 * pif))
RIB(w) == MmuRead(w, 3) /\ SetAC(OrAC(ac, sf))

(* Mutant: the data field is not restored. *)
RMFNoData(w) ==
  /\ MmuRead(w, 4)
  /\ Executed /\ Advance(FALSE)
  /\ ib' = (sf \div 8) % 8
  /\ ub' = (sf \div \o100) % 2 /\ intr_inhibit' = 1
  /\ UNCHANGED <<acc, sf, df, uf, mem, run, tty, intr>>

RMF(w) ==
  /\ MmuRead(w, 4)
  /\ Executed /\ Advance(FALSE)
  /\ ib' = (sf \div 8) % 8 /\ df' = sf % 8
  /\ ub' = (sf \div \o100) % 2 /\ intr_inhibit' = 1
  /\ UNCHANGED <<acc, sf, uf, mem, run, tty, intr>>

SINT(w) == MmuRead(w, 5) /\ SkipIf("USER" \in intr)

(* CUF and SUF: the user flag follows at the next JMP or JMS. *)
CUF_SUF(w) ==
  /\ \E user \in Bit : MmuRead(w, 6 + user) /\ ub' = user
  /\ Executed /\ Advance(FALSE)
  /\ intr_inhibit' = 1
  /\ UNCHANGED <<acc, ib, sf, df, uf, mem, run, tty, intr>>

(* What the switches of cpu_process have no case or an empty case for. *)
Implemented(w) ==
  \/ Device(w) = 0 /\ IotOp(w) # 6
  \/ Device(w) \in {3, 4} /\ IotOp(w) \notin {3, 7}
  \/ Device(w) \in \o20..\o27 /\ IotOp(w) \in 1..4

IotNop(w) == Opcode(w) = 6 /\ uf = 0 /\ ~ Implemented(w) /\ SkipIf(FALSE)

-----------------------------------------------------------------------------
(***************************************************************************)
(* OPR.                                                                    *)
(***************************************************************************)
GroupOne(w)   == Opcode(w) = 7 /\ ~ Has(w, \o400)
GroupTwo(w)   == Opcode(w) = 7 /\ Has(w, \o400) /\ ~ Has(w, 1)
GroupThree(w) == Opcode(w) = 7 /\ Has(w, \o400) /\ Has(w, 1)

Privileged(w) == Has(w, 4) \/ Has(w, 2)          \* OSR or HLT

OPR1(w) == GroupOne(w) /\ SetAC(GroupOneAC(w, ac))

(* The skip and CLA of a privileged instruction take place before the trap. *)
OPR2(w) ==
  /\ GroupTwo(w)
  /\ Executed /\ Advance(GroupTwoSkips(w, ac))
  /\ IF uf = 1 /\ Privileged(w)
     THEN /\ ac' = CLA(w, ac)
          /\ intr' = intr \cup {"USER"}
          /\ run' = run
     ELSE /\ ac' = IF Has(w, 4) THEN OrAC(CLA(w, ac), sr) ELSE CLA(w, ac)
          /\ intr' = intr
          /\ run' = IF Has(w, 2) THEN "H" ELSE run
  /\ UNCHANGED <<mq, mmu, mem, tty>>

OPR3(w) ==
  /\ GroupThree(w)
  /\ Executed /\ Advance(FALSE)
  /\ ac' = GroupThreeAC(w, ac, mq)
  /\ mq' = GroupThreeMQ(w, ac, mq)
  /\ UNCHANGED <<mmu, mem, run, tty, intr>>

-----------------------------------------------------------------------------
MemoryReference(w) == AND(w) \/ TAD(w) \/ ISZ(w) \/ DCA(w) \/ JMS(w) \/ JMP(w)

InterruptControl(w) ==
  SKON(w) \/ ION(w) \/ IOF(w) \/ SRQ(w) \/ GTF(w) \/ RTF(w) \/ CAF(w)

Terminal(w) ==
  \/ KCF(w) \/ KSF(w) \/ KCC(w) \/ KRS(w) \/ KIE(w) \/ KRB(w)
  \/ TFL(w) \/ TSF(w) \/ TCF(w) \/ TPC(w) \/ TSK(w) \/ TLS(w)

MemoryManagement(w) ==
  \/ CDF_CIF(w) \/ CINT(w) \/ RDF(w) \/ RIF(w) \/ RIB(w)
  \/ RMF(w) \/ SINT(w) \/ CUF_SUF(w)

Operate(w) == OPR1(w) \/ OPR2(w) \/ OPR3(w)

Instruction(w) ==
  \/ MemoryReference(w)
  \/ IotTrap(w) \/ IotNop(w)
  \/ InterruptControl(w) \/ Terminal(w) \/ MemoryManagement(w)
  \/ Operate(w)

cpu_process == Interrupt \/ Instruction(mem[<<pif, pc>>])

(***************************************************************************)
(* The rest of the loop of machine_run: the terminal is polled between two *)
(* calls of cpu_process, and the console may take over.                    *)
(***************************************************************************)
BesideCpu == UNCHANGED <<pif, pc, acc, ion, ion_delay, rtf_delay, mmu, mem>>

Type(byte) == run = "R" /\ TtyRead(byte) /\ BesideCpu /\ UNCHANGED run
PrintStage == run = "R" /\ TtyNoInput /\ BesideCpu /\ UNCHANGED run
tty_process == PrintStage \/ \E byte \in Byte : Type(byte)

(* SIGINT, or a read that answered -1.  The operator may run again. *)
Break  == run = "R" /\ run' = "I" /\ BesideCpu /\ UNCHANGED <<tty, intr>>
Resume == run # "R" /\ run' = "R" /\ BesideCpu /\ UNCHANGED <<tty, intr>>

Next == cpu_process \/ tty_process \/ Break \/ Resume

Spec == Init /\ [][Next]_vars

-----------------------------------------------------------------------------
(***************************************************************************)
(* What the processor promises to the programs it runs.                    *)
(***************************************************************************)

(* Outside the window that CIF, RTF, RMF, CUF or SUF open, the buffered    *)
(* registers say what the live ones say: a later SUF followed by a JMP     *)
(* cannot move the program to a stale field (cpma and pc take ib and uf    *)
(* takes ub at every JMP and JMS of such a window).                        *)
BufferedRegistersAgree == intr_inhibit = 0 => ib = pif /\ ub = uf

(* A user mode program runs with the window closed and cannot have asked   *)
(* to leave user mode: every IOT traps before it reaches ub or the         *)
(* inhibition.                                                             *)
UserModeSealed == uf = 1 => ub = 1 /\ intr_inhibit = 0

(* A terminal request that is up belongs to a flag that is up; otherwise   *)
(* an interrupt routine that polls the flags would find nothing to do,     *)
(* return, and be interrupted again for ever.                              *)
RequestImpliesFlag ==
  /\ "TTYI" \in intr => tty_kb_flag = 1
  /\ "TTYO" \in intr => tty_tp_flag = 1

(* A step taken in user mode leaves it only by the interrupt, which enters *)
(* location 1 of field 0 with interrupts off; every other step neither     *)
(* halts, nor changes fields, interrupt enable or devices: only            *)
(* tty_process may raise a flag, never lower one.                          *)
UserStepConfined ==
  uf = 1 =>
    IF uf' = 0
    THEN /\ pif' = 0 /\ pc' = 1 % AddrSize /\ ion' = 0
         /\ sf' >= \o100 /\ intr' # {}
    ELSE /\ run' # "H"
         /\ UNCHANGED <<mmu, pif, tty_dcr, tty_tp_buf>> /\ ion' >= ion
         /\ tty_kb_flag' >= tty_kb_flag /\ tty_tp_flag' >= tty_tp_flag
         /\ output_pending' <= output_pending
         /\ intr \subseteq intr'

UserModeConfined == [][UserStepConfined]_vars

=============================================================================
