----------------------------- MODULE CpuAnyProofs -----------------------------
(***************************************************************************)
(* Proofs about the processor under every program, of any instructions:    *)
(* the lemmas of CpuProofs hold for every word fetched, so the invariant   *)
(* is the same, and the history of the last instruction can be added.      *)
(***************************************************************************)
EXTENDS CpuAny, CpuProofs

(* After ION interrupts are still off, after RTF they are inhibited.       *)
WindowOpen == enabling => ion = 0 \/ intr_inhibit = 1

AnyInv == IInv /\ enabling \in BOOLEAN /\ WindowOpen

(* A word of device 00 in executive mode is an interrupt control           *)
(* instruction and nothing else.                                           *)
LEMMA InterruptControlOnly ==
  ASSUME NEW w, uf = 0, Opcode(w) = 6, Device(w) = 0, IotOp(w) \in {1, 5}, Instruction(w)
  PROVE  (IotOp(w) = 1 => ION(w)) /\ (IotOp(w) = 5 => RTF(w))
  <1>1. ~ AND(w) /\ ~ TAD(w)
    BY DEF AND, TAD
  <1>2. ~ ISZ(w) /\ ~ DCA(w)
    BY DEF ISZ, DCA
  <1>3. ~ JMS(w) /\ ~ JMP(w)
    BY DEF JMS, JMP
  <1>4. ~ IotTrap(w)
    BY DEF IotTrap
  <1>5. ~ IotNop(w)
    <2>1. Implemented(w)
      BY DEF Implemented
    <2> QED
      BY <2>1 DEF IotNop
  <1>6. ~ Terminal(w)
    BY DEF Terminal, KCF, KSF, KCC, KRS, KIE, KRB, TFL, TSF, TCF, TPC, TSK, TLS, Iot
  <1>7. ~ MemoryManagement(w)
    BY DEF MemoryManagement, CDF_CIF, CINT, RDF, RIF, RIB, RMF, SINT, CUF_SUF, MmuRead, Mmu
  <1>8. ~ Operate(w)
    BY DEF Operate, OPR1, OPR2, OPR3, GroupOne, GroupTwo, GroupThree
  <1>9. InterruptControl(w)
    BY <1>1, <1>2, <1>3, <1>4, <1>5, <1>6, <1>7, <1>8 DEF Instruction, MemoryReference
  <1>10. ~ SKON(w) /\ ~ IOF(w) /\ ~ SRQ(w) /\ ~ GTF(w) /\ ~ CAF(w)
    <2>1. /\ IotOp(w) # 0 /\ IotOp(w) # 2 /\ IotOp(w) # 3
          /\ IotOp(w) # 4 /\ IotOp(w) # 7
      OBVIOUS
    <2> QED
      BY <2>1, Zenon DEF SKON, IOF, SRQ, GTF, CAF, Iot
  <1>11. ION(w) \/ RTF(w)
    BY <1>9, <1>10 DEF InterruptControl
  <1>12. (ION(w) => IotOp(w) = 1) /\ (RTF(w) => IotOp(w) = 5)
    BY DEF ION, RTF, Iot
  <1> QED
    BY <1>11, <1>12

LEMMA WordsThatEnable ==
  /\ Opcode(\o6001) = 6 /\ Device(\o6001) = 0 /\ IotOp(\o6001) = 1
  /\ Opcode(\o6005) = 6 /\ Device(\o6005) = 0 /\ IotOp(\o6005) = 5
  BY DEF Opcode, Device, IotOp

LEMMA InitAnyInv == AnyInit => AnyInv
  BY InitIInv DEF AnyInit, AnyInv, WindowOpen

(* One instruction of any program keeps what CpuProofs shows. *)
LEMMA InstructionKeepsIInv ==
  ASSUME IInv, NEW w \in Word, Instruction(w)
  PROVE  IInv'
  BY ExecutedInstruction, InstructionType, InstructionKeepsFields, InstructionKeepsRequests DEF IInv

LEMMA NextAnyInv == AnyInv /\ [AnyNext]_anyVars => AnyInv'
  <1> SUFFICES ASSUME AnyInv, [AnyNext]_anyVars PROVE AnyInv'
    OBVIOUS
  <1>0. IInv /\ enabling \in BOOLEAN /\ WindowOpen
    BY DEF AnyInv
  <1>1. ASSUME NEW w \in Program, Execute(w)
        PROVE  AnyInv'
    <2>1. w \in Word /\ Instruction(w)
      BY <1>1, ProgramAssumption DEF Execute
    <2>2. enabling' = (w \in {\o6001, \o6005} /\ uf = 0 /\ IonNow = 0)
      BY <1>1 DEF Execute
    <2>3. IInv'
      BY <1>0, <2>1, InstructionKeepsIInv
    <2>4. ASSUME enabling'
          PROVE  ion' = 0 \/ intr_inhibit' = 1
      <3>1. w \in {\o6001, \o6005} /\ uf = 0 /\ IonNow = 0
        BY <2>2, <2>4
      <3>2. ION(w) \/ RTF(w)
        <4>1. uf = 0 /\ Opcode(w) = 6 /\ Device(w) = 0 /\ IotOp(w) \in {1, 5}
          BY <3>1, WordsThatEnable
        <4> QED
          BY <2>1, <4>1, InterruptControlOnly
      <3>3. ION(w) => ion' = IonNow
        BY DEF ION
      <3>4. RTF(w) => intr_inhibit' = 1
        BY DEF RTF
      <3> QED
        BY <3>1, <3>2, <3>3, <3>4
    <2>5. enabling' \in BOOLEAN
      BY <2>2
    <2> QED
      BY <2>3, <2>4, <2>5 DEF AnyInv, WindowOpen
  <1>2. CASE Interrupt /\ enabling' = FALSE
    <2>1. IInv'
      BY <1>0, <1>2, NextIInv DEF Next, cpu_process
    <2> QED
      BY <1>2, <2>1 DEF AnyInv, WindowOpen
  <1>3. CASE (tty_process \/ Resume) /\ UNCHANGED enabling
    <2>1. IInv'
      BY <1>0, <1>3, NextIInv DEF Next
    <2>2. UNCHANGED <<ion, intr_inhibit>>
      BY <1>3 DEF tty_process, PrintStage, Type, Resume, BesideCpu, mmu
    <2> QED
      BY <1>0, <1>3, <2>1, <2>2 DEF AnyInv, WindowOpen
  <1>4. CASE UNCHANGED anyVars
    <2>1. IInv'
      BY <1>0, <1>4, NextIInv DEF anyVars
    <2>2. UNCHANGED <<ion, intr_inhibit, enabling>>
      BY <1>4 DEF anyVars, vars, mmu
    <2> QED
      BY <1>0, <2>1, <2>2 DEF AnyInv, WindowOpen
  <1> QED
    BY <1>1, <1>2, <1>3, <1>4 DEF AnyNext

LEMMA AnyInvAlways == AnySpec => []AnyInv
  BY InitAnyInv, NextAnyInv, PTL DEF AnySpec

-----------------------------------------------------------------------------
(* No interrupt is taken straight after the ION or RTF that turned them on, *)
(* whatever the program is.                                                *)
THEOREM ReturnsBeforeInterrupt == AnySpec => ReturnWindow
  <1>1. AnyInv /\ [AnyNext]_anyVars => [Interrupt => ~ enabling]_anyVars
    BY DEF AnyInv, IInv, WindowOpen, Interrupt, InterruptDue
  <1>2. AnySpec => [][Interrupt => ~ enabling]_anyVars
    BY <1>1, AnyInvAlways, PTL DEF AnySpec
  <1> QED
    BY <1>2 DEF ReturnWindow

(* Registers and memory, the fields and the requests: what CpuProofs shows *)
(* of a stored program holds of any sequence of instructions.              *)
THEOREM AnyProgramSafe ==
  AnySpec => [](TypeOK /\ BufferedRegistersAgree /\ UserModeSealed /\ RequestImpliesFlag)
  <1>1. AnyInv => TypeOK /\ BufferedRegistersAgree /\ UserModeSealed /\ RequestImpliesFlag
    BY DEF AnyInv, IInv
  <1> QED
    BY <1>1, AnyInvAlways, PTL

(* No sequence of instructions whatever leaves user mode but by an         *)
(* interrupt, or does in it what is the executive's.                       *)
THEOREM AnyProgramConfined == AnySpec => UserModeConfined
  <1>1. ASSUME IInv, NEW w, Instruction(w)
        PROVE  UserStepConfined
    <2> SUFFICES ASSUME uf = 1 PROVE UserStepConfined
      BY DEF UserStepConfined
    <2>1. /\ UNCHANGED <<mmu, pif, tty>> /\ run' # "H"
          /\ ion' = IonNow /\ intr \subseteq intr'
      BY <1>1, UserInstruction
    <2>2. /\ tty_kb_flag \in 0..1 /\ tty_tp_flag \in 0..1 /\ output_pending \in 0..1
          /\ ion \in 0..1
      BY <1>1 DEF IInv, TypeOK, TtyTypeOK, Bit
    <2>3. IonNow >= ion
      BY <2>2 DEF IonNow
    <2> QED
      BY <2>1, <2>2, <2>3 DEF UserStepConfined, mmu, tty
  <1>2. AnyInv /\ [AnyNext]_anyVars => [UserStepConfined]_vars
    <2> SUFFICES ASSUME AnyInv, [AnyNext]_anyVars PROVE [UserStepConfined]_vars
      OBVIOUS
    <2>1. IInv
      BY DEF AnyInv
    <2>2. CASE \E w \in Program : Execute(w)
      BY <1>1, <2>1, <2>2 DEF Execute
    <2>3. CASE Interrupt \/ tty_process \/ Resume
      BY <2>1, <2>3, StepConfined DEF Next, cpu_process
    <2>4. CASE UNCHANGED anyVars
      BY <2>4 DEF anyVars
    <2> QED
      BY <2>2, <2>3, <2>4 DEF AnyNext
  <1>3. AnySpec => [][UserStepConfined]_vars
    BY <1>2, AnyInvAlways, PTL DEF AnySpec
  <1> QED
    BY <1>3 DEF UserModeConfined

=============================================================================
