------------------------------- MODULE CpuProofs -------------------------------
(***************************************************************************)
(* Proofs about Cpu, for every field and page size, every program, every   *)
(* setting of the switches and everything that may be typed.               *)
(***************************************************************************)
EXTENDS Cpu, Pdp8WordProofs

(* The invariant that is inductive: the types are needed to know that the  *)
(* inhibition is either on or off where JMP and JMS look at it, and that   *)
(* rtf_delay, which nothing sets any more, is off where an interrupt would *)
(* turn interrupts on with it.                                             *)
IInv ==
  /\ TypeOK /\ rtf_delay = 0
  /\ BufferedRegistersAgree /\ UserModeSealed /\ RequestImpliesFlag

-----------------------------------------------------------------------------
(* Operands are inside core memory, and autoindexing leaves words in it.   *)
LEMMA OperandRange ==
  ASSUME TypeOK, NEW w \in Word
  PROVE  /\ Pointer(w) \in Cell
         /\ Indexed(w) \in [Cell -> Word]
         /\ OperandAddr(w) \in Addr
         /\ Operand(w) \in Cell
         /\ Indexed(w)[Operand(w)] \in Word
  <1>1. pif \in Field /\ df \in Field /\ pc \in Addr /\ mem \in [Cell -> Word]
    BY DEF TypeOK
  <1>2. DirectAddr(pc, w) \in Addr
    BY <1>1, DirectAddrRange
  <1>3. Pointer(w) \in Cell
    BY <1>1, <1>2 DEF Pointer, Cell
  <1>4. \A x \in Word : Inc12(x) \in Word
    BY DEF Inc12, Word
  <1>5. Indexed(w) \in [Cell -> Word]
    BY <1>1, <1>3, <1>4 DEF Indexed
  <1>6. Indexed(w)[Pointer(w)] \in Word
    BY <1>3, <1>5
  <1>7. \A x \in Word : x % AddrSize \in Addr
    BY AddrWraps DEF Word
  <1>8. OperandAddr(w) \in Addr
    BY <1>2, <1>6, <1>7 DEF OperandAddr
  <1>9. Operand(w) \in Cell
    BY <1>1, <1>8 DEF Operand, Cell
  <1> QED
    BY <1>3, <1>5, <1>8, <1>9

(* Advancing the program counter stays in the field. *)
LEMMA AdvanceRange ==
  ASSUME TypeOK, NEW skip \in BOOLEAN, Advance(skip)
  PROVE  pif' \in Field /\ pc' \in Addr
  <1>1. pc + 1 \in Int /\ pc + 2 \in Int
    BY WordArithmetic DEF TypeOK
  <1>2. (pc + 1) % AddrSize \in Addr /\ (pc + 2) % AddrSize \in Addr
    BY <1>1, AddrWraps
  <1> QED
    BY <1>2 DEF Advance, TypeOK

LEMMA IonRange ==
  ASSUME TypeOK
  PROVE  IonNow \in Bit /\ (Executed => ion' \in Bit /\ ion_delay' \in Bit /\ rtf_delay' \in Bit /\ sr' \in Word)
  BY DEF IonNow, TypeOK, Executed, Fetched, Bit

LEMMA JumpFieldRange ==
  ASSUME TypeOK
  PROVE  JumpField \in Field
  BY DEF TypeOK, JumpField

-----------------------------------------------------------------------------
(* Type correctness, group by group. *)
LEMMA MemoryReferenceType ==
  ASSUME TypeOK, NEW w \in Word, MemoryReference(w)
  PROVE  TypeOK'
  <1>1. /\ Indexed(w) \in [Cell -> Word] /\ OperandAddr(w) \in Addr
        /\ Operand(w) \in Cell /\ Indexed(w)[Operand(w)] \in Word
    BY OperandRange
  <1>2. JumpField \in Field /\ (Executed => ion' \in Bit /\ ion_delay' \in Bit /\ rtf_delay' \in Bit /\ sr' \in Word)
    BY JumpFieldRange, IonRange
  <1>3. ac \in LinkAC /\ AC(ac) \in Word /\ OnlyLink(ac) \in LinkAC
    BY LinkAndAC, ClearRange DEF TypeOK
  <1>4. CASE AND(w)
    <2>0. Indexed(w)[Operand(w)] \in Int
      BY <1>1, WordArithmetic
    <2>1. AndAC(ac, Indexed(w)[Operand(w)]) \in LinkAC
      BY <1>3, <2>0, OrACRange
    <2>2. pif' \in Field /\ pc' \in Addr
      BY <1>4, AdvanceRange DEF AND
    <2> QED
      BY <1>1, <1>2, <1>4, <2>1, <2>2 DEF AND, TypeOK, TtyTypeOK, mmu, tty
  <1>5. CASE TAD(w)
    <2>1. (ac + Indexed(w)[Operand(w)]) % \o20000 \in LinkAC
      BY <1>1, <1>3, WordArithmetic
    <2>2. pif' \in Field /\ pc' \in Addr
      BY <1>5, AdvanceRange DEF TAD
    <2> QED
      BY <1>1, <1>2, <1>5, <2>1, <2>2 DEF TAD, TypeOK, TtyTypeOK, mmu, tty
  <1>6. CASE ISZ(w)
    <2> DEFINE sum == Inc12(Indexed(w)[Operand(w)])
    <2>1. sum \in Word
      BY <1>1, WordArithmetic
    <2>2. pif' \in Field /\ pc' \in Addr
      BY <1>6, AdvanceRange DEF ISZ
    <2>3. mem' = [Indexed(w) EXCEPT ![Operand(w)] = sum]
      BY <1>6 DEF ISZ
    <2>4. mem' \in [Cell -> Word]
      BY <1>1, <2>1, <2>3
    <2> QED
      BY <1>2, <1>6, <2>2, <2>4 DEF ISZ, TypeOK, TtyTypeOK, acc, mmu, tty
  <1>7. CASE DCA(w)
    <2>1. pif' \in Field /\ pc' \in Addr
      BY <1>7, AdvanceRange DEF DCA
    <2>2. mem' \in [Cell -> Word]
      BY <1>1, <1>3, <1>7 DEF DCA
    <2> QED
      BY <1>2, <1>3, <1>7, <2>1, <2>2 DEF DCA, TypeOK, TtyTypeOK, mmu, tty
  <1>8. LeaveInhibition => uf' \in Bit /\ intr_inhibit' \in Bit /\ ib' \in Field
                           /\ sf' \in 0..\o177 /\ df' \in Field /\ ub' \in Bit
    BY DEF LeaveInhibition, TypeOK, Bit
  <1>9. CASE JMS(w)
    <2>1. pc + 1 \in Int /\ OperandAddr(w) + 1 \in Int
      BY <1>1, WordArithmetic DEF TypeOK
    <2>2. (pc + 1) % AddrSize \in Addr /\ (OperandAddr(w) + 1) % AddrSize \in Addr
      BY <2>1, AddrWraps
    <2>3. (pc + 1) % AddrSize \in Word
      BY <2>2, WordArithmetic
    <2>4. <<JumpField, OperandAddr(w)>> \in Cell
      BY <1>1, <1>2 DEF Cell
    <2>5. mem' \in [Cell -> Word]
      BY <1>1, <1>9, <2>3, <2>4 DEF JMS
    <2> QED
      BY <1>2, <1>8, <1>9, <2>2, <2>5 DEF JMS, TypeOK, TtyTypeOK, acc, tty
  <1>10. CASE JMP(w)
    BY <1>1, <1>2, <1>8, <1>10 DEF JMP, TypeOK, TtyTypeOK, acc, tty
  <1> QED
    BY <1>4, <1>5, <1>6, <1>7, <1>9, <1>10 DEF MemoryReference

(* The types of what an IOT leaves behind, one conjunct per group of       *)
(* registers: most instructions change one group and keep the others.      *)
LEMMA SkipType ==
  ASSUME TypeOK, NEW c \in BOOLEAN, SkipIf(c)
  PROVE  TypeOK'
  <1>1. pif' \in Field /\ pc' \in Addr
    BY AdvanceRange DEF SkipIf
  <1>2. ion' \in Bit /\ ion_delay' \in Bit /\ rtf_delay' \in Bit
    BY IonRange DEF SkipIf
  <1> QED
    BY <1>1, <1>2 DEF SkipIf, TypeOK, TtyTypeOK, acc, mmu, tty

LEMMA SetACType ==
  ASSUME TypeOK, NEW a \in LinkAC, SetAC(a)
  PROVE  TypeOK'
  <1>1. pif' \in Field /\ pc' \in Addr
    BY AdvanceRange DEF SetAC
  <1>2. ion' \in Bit /\ ion_delay' \in Bit /\ rtf_delay' \in Bit /\ sr' \in Word
    BY IonRange DEF SetAC
  <1> QED
    BY <1>1, <1>2 DEF SetAC, TypeOK, TtyTypeOK, mmu, tty

LEMMA ClearKeyboardType ==
  ASSUME TypeOK, NEW a \in LinkAC, ClearKeyboard(a)
  PROVE  TypeOK'
  <1>1. pif' \in Field /\ pc' \in Addr
    BY AdvanceRange DEF ClearKeyboard
  <1>2. ion' \in Bit /\ ion_delay' \in Bit /\ rtf_delay' \in Bit /\ sr' \in Word
    BY IonRange DEF ClearKeyboard
  <1> QED
    BY <1>1, <1>2 DEF ClearKeyboard, TypeOK, TtyTypeOK, mmu

LEMMA SetPrinterType ==
  ASSUME TypeOK, NEW buf \in 0..\o177, NEW flag \in 0..1, NEW pending \in 0..1,
         NEW requests \in SUBSET Requests,
         SetPrinter(buf, flag, pending, requests)
  PROVE  TypeOK'
  <1>1. pif' \in Field /\ pc' \in Addr
    BY AdvanceRange DEF SetPrinter
  <1>2. ion' \in Bit /\ ion_delay' \in Bit /\ rtf_delay' \in Bit
    BY IonRange DEF SetPrinter
  <1> QED
    BY <1>1, <1>2 DEF SetPrinter, TypeOK, TtyTypeOK, acc, mmu

-----------------------------------------------------------------------------
LEMMA InterruptControlType ==
  ASSUME TypeOK, NEW w \in Word, InterruptControl(w)
  PROVE  TypeOK'
  <1>0. 0 \in Bit /\ 1 \in Bit /\ 0 \in LinkAC
    BY DEF Bit, LinkAC
  <1>1. IonNow \in Bit
    BY IonRange
  <1>3. ac \in LinkAC /\ sf \in 0..\o177
    BY DEF TypeOK
  <1>4. CASE SKON(w)
    <2>1. pif' \in Field /\ pc' \in Addr
      BY <1>4, AdvanceRange DEF SKON
    <2> QED
      BY <1>0, <1>1, <1>4, <2>1 DEF SKON, Fetched, TypeOK, TtyTypeOK, acc, mmu, tty
  <1>5. CASE ION(w)
    <2>1. pif' \in Field /\ pc' \in Addr
      BY <1>5, AdvanceRange DEF ION
    <2> QED
      BY <1>0, <1>1, <1>5, <2>1 DEF ION, TypeOK, TtyTypeOK, acc, mmu, tty
  <1>6. CASE IOF(w)
    <2>1. pif' \in Field /\ pc' \in Addr
      BY <1>6, AdvanceRange DEF IOF
    <2> QED
      BY <1>0, <1>1, <1>6, <2>1 DEF IOF, Fetched, TypeOK, TtyTypeOK, acc, mmu, tty
  <1>7. CASE SRQ(w)
    BY <1>7, SkipType DEF SRQ
  <1>8. CASE GTF(w)
    <2>1. Flags \in Word
      <3>1. Link(ac) \in Bit
        BY <1>3, LinkAndAC
      <3>2. (Link(ac) = 0 \/ Link(ac) = 1) /\ (IonNow = 0 \/ IonNow = 1)
        BY <1>1, <3>1 DEF Bit
      <3>3. sf \in Int /\ 0 <= sf /\ sf <= \o177
        BY <1>3
      <3> QED
        BY <3>2, <3>3 DEF Flags, Word
    <2>2. OnlyLink(ac) + Flags \in LinkAC
      BY <1>3, <2>1, LinkAndAC
    <2> QED
      BY <1>8, <2>2, SetACType DEF GTF
  <1>9. CASE RTF(w)
    <2>1. ac \in Nat
      BY <1>3 DEF LinkAC
    <2>2. (ac \div 8) % 8 \in Field /\ ac % 8 \in Field /\ (ac \div \o100) % 2 \in Bit
      BY <2>1 DEF Field, Bit
    <2>3. (IF Has(ac, \o4000) THEN \o10000 ELSE 0) + AC(ac) \in LinkAC
      BY <2>1 DEF AC, LinkAC
    <2>4. pif' \in Field /\ pc' \in Addr
      BY <1>9, AdvanceRange DEF RTF
    <2> QED
      BY <1>0, <1>9, <2>2, <2>3, <2>4 DEF RTF, Fetched, TypeOK, TtyTypeOK, tty
  <1>10. CASE CAF(w)
    <2>1. pif' \in Field /\ pc' \in Addr
      BY <1>10, AdvanceRange DEF CAF
    <2> QED
      BY <1>0, <1>1, <1>10, <2>1 DEF CAF, Fetched, TtyReset, TypeOK, TtyTypeOK, mmu
  <1> QED
    BY <1>4, <1>5, <1>6, <1>7, <1>8, <1>9, <1>10 DEF InterruptControl

LEMMA TerminalType ==
  ASSUME TypeOK, NEW w \in Word, Terminal(w)
  PROVE  TypeOK'
  <1>1. /\ ac \in LinkAC /\ tty_kb_buf \in 0..\o377 /\ tty_tp_buf \in 0..\o177
        /\ tty_tp_flag \in 0..1 /\ output_pending \in 0..1 /\ intr \in SUBSET Requests
    BY DEF TypeOK, TtyTypeOK
  <1>2. tty_kb_buf \in Int /\ tty_kb_buf \in Word
    BY <1>1 DEF Word
  <1>3. /\ OnlyLink(ac) \in LinkAC /\ OnlyLink(ac) + tty_kb_buf \in LinkAC
        /\ OrAC(ac, tty_kb_buf) \in LinkAC
    BY <1>1, <1>2, ClearRange, LinkAndAC, OrACRange
  <1>4. ac % \o200 \in 0..\o177 /\ ac % 2 \in 0..1
    BY <1>1 DEF LinkAC
  <1>5. /\ intr \cup Raise("TTYO") \in SUBSET Requests
        /\ intr \ {"TTYO"} \in SUBSET Requests
    BY <1>1 DEF Raise, Requests
  <1>6. CASE KCF(w) \/ KCC(w) \/ KRB(w)
    BY <1>1, <1>3, <1>6, ClearKeyboardType DEF KCF, KCC, KRB
  <1>7. CASE KSF(w) \/ TSF(w) \/ TSK(w)
    BY <1>7, SkipType DEF KSF, TSF, TSK
  <1>8. CASE KRS(w)
    BY <1>3, <1>8, SetACType DEF KRS
  <1>9. CASE KIE(w)
    <2>1. pif' \in Field /\ pc' \in Addr
      BY <1>9, AdvanceRange DEF KIE
    <2>2. ion' \in Bit /\ ion_delay' \in Bit /\ rtf_delay' \in Bit
      BY <1>9, IonRange DEF KIE
    <2> QED
      BY <1>4, <1>9, <2>1, <2>2 DEF KIE, TypeOK, TtyTypeOK, acc, mmu
  <1>10. CASE TFL(w) \/ TCF(w) \/ TPC(w) \/ TLS(w)
    <2>1. 0 \in 0..1 /\ 1 \in 0..1
      OBVIOUS
    <2>2. CASE TFL(w)
      BY <1>1, <1>5, <2>1, <2>2, SetPrinterType DEF TFL
    <2>3. CASE TCF(w)
      BY <1>1, <1>5, <2>1, <2>3, SetPrinterType DEF TCF
    <2>4. CASE TPC(w)
      BY <1>1, <1>4, <2>1, <2>4, SetPrinterType DEF TPC
    <2>5. CASE TLS(w)
      BY <1>1, <1>4, <1>5, <2>1, <2>5, SetPrinterType DEF TLS
    <2> QED
      BY <1>10, <2>2, <2>3, <2>4, <2>5
  <1> QED
    BY <1>6, <1>7, <1>8, <1>9, <1>10 DEF Terminal

LEMMA MemoryManagementType ==
  ASSUME TypeOK, NEW w \in Word, MemoryManagement(w)
  PROVE  TypeOK'
  <1>0. 0 \in Bit /\ 1 \in Bit
    BY DEF Bit
  <1>1. ac \in LinkAC /\ df \in Field /\ pif \in Field /\ sf \in 0..\o177
    BY DEF TypeOK
  <1>2. 8 * df \in Int /\ 8 * pif \in Int /\ sf \in Int
    BY <1>1 DEF Field
  <1>3. OrAC(ac, 8 * df) \in LinkAC /\ OrAC(ac, 8 * pif) \in LinkAC /\ OrAC(ac, sf) \in LinkAC
    BY <1>1, <1>2, OrACRange
  <1>4. FieldOf(w) \in Field
    BY DEF FieldOf, Field, Word
  <1>5. CASE CDF_CIF(w)
    <2>1. pif' \in Field /\ pc' \in Addr
      BY <1>5, AdvanceRange DEF CDF_CIF
    <2>2. ion' \in Bit /\ ion_delay' \in Bit /\ rtf_delay' \in Bit
      BY <1>5, IonRange DEF CDF_CIF
    <2> QED
      BY <1>0, <1>4, <1>5, <2>1, <2>2 DEF CDF_CIF, TypeOK, TtyTypeOK, acc, tty
  <1>6. CASE CINT(w)
    <2>1. pif' \in Field /\ pc' \in Addr
      BY <1>6, AdvanceRange DEF CINT
    <2>2. ion' \in Bit /\ ion_delay' \in Bit /\ rtf_delay' \in Bit
      BY <1>6, IonRange DEF CINT
    <2> QED
      BY <1>6, <2>1, <2>2 DEF CINT, TypeOK, TtyTypeOK, acc, mmu, tty
  <1>7. CASE RDF(w) \/ RIF(w) \/ RIB(w)
    BY <1>3, <1>7, SetACType DEF RDF, RIF, RIB
  <1>8. CASE RMF(w)
    <2>1. pif' \in Field /\ pc' \in Addr
      BY <1>8, AdvanceRange DEF RMF
    <2>2. ion' \in Bit /\ ion_delay' \in Bit /\ rtf_delay' \in Bit
      BY <1>8, IonRange DEF RMF
    <2>3. (sf \div 8) % 8 \in Field /\ sf % 8 \in Field /\ (sf \div \o100) % 2 \in Bit
      BY <1>1 DEF Field, Bit
    <2> QED
      BY <1>0, <1>8, <2>1, <2>2, <2>3 DEF RMF, TypeOK, TtyTypeOK, acc, tty
  <1>9. CASE SINT(w)
    <2>1. ("USER" \in intr) \in BOOLEAN /\ SkipIf("USER" \in intr)
      BY <1>9 DEF SINT
    <2> QED
      BY <2>1, SkipType
  <1>10. CASE CUF_SUF(w)
    <2>1. pif' \in Field /\ pc' \in Addr
      BY <1>10, AdvanceRange DEF CUF_SUF
    <2>2. ion' \in Bit /\ ion_delay' \in Bit /\ rtf_delay' \in Bit
      BY <1>10, IonRange DEF CUF_SUF
    <2>3. ub' \in Bit
      BY <1>10 DEF CUF_SUF
    <2> QED
      BY <1>0, <1>10, <2>1, <2>2, <2>3 DEF CUF_SUF, TypeOK, TtyTypeOK, acc, tty
  <1> QED
    BY <1>5, <1>6, <1>7, <1>8, <1>9, <1>10 DEF MemoryManagement

LEMMA OperateType ==
  ASSUME TypeOK, NEW w \in Word, Operate(w)
  PROVE  TypeOK'
  <1>1. ac \in LinkAC /\ mq \in Word /\ sr \in Int /\ CLA(w, ac) \in LinkAC
    BY WordArithmetic, ClearRange DEF TypeOK
  <1>2. CASE OPR1(w)
    BY <1>1, <1>2, GroupOneRange, SetACType DEF OPR1
  <1>3. CASE OPR2(w)
    <2>1. pif' \in Field /\ pc' \in Addr
      BY <1>3, AdvanceRange DEF OPR2, GroupTwoSkips, AndGroupSkips, OrGroupSkips
    <2>2. ion' \in Bit /\ ion_delay' \in Bit /\ rtf_delay' \in Bit /\ sr' \in Word
      BY <1>3, IonRange DEF OPR2
    <2>3. OrAC(CLA(w, ac), sr) \in LinkAC
      BY <1>1, OrACRange
    <2>4. ac' \in LinkAC
      BY <1>1, <1>3, <2>3 DEF OPR2
    <2>5. intr' \in SUBSET Requests /\ run' \in {"R", "H", "I"}
      BY <1>3 DEF OPR2, TypeOK, TtyTypeOK, Requests
    <2> QED
      BY <1>3, <2>1, <2>2, <2>4, <2>5 DEF OPR2, TypeOK, TtyTypeOK, mmu, tty
  <1>4. CASE OPR3(w)
    <2>1. pif' \in Field /\ pc' \in Addr
      BY <1>4, AdvanceRange DEF OPR3
    <2>2. ion' \in Bit /\ ion_delay' \in Bit /\ rtf_delay' \in Bit /\ sr' \in Word
      BY <1>4, IonRange DEF OPR3
    <2>3. GroupThreeAC(w, ac, mq) \in LinkAC /\ GroupThreeMQ(w, ac, mq) \in Word
      BY <1>1, GroupThreeRange
    <2> QED
      BY <1>4, <2>1, <2>2, <2>3 DEF OPR3, TypeOK, TtyTypeOK, mmu, tty
  <1> QED
    BY <1>2, <1>3, <1>4 DEF Operate

(* One instruction, whatever the word fetched. *)
LEMMA InstructionType ==
  ASSUME TypeOK, NEW w \in Word, Instruction(w)
  PROVE  TypeOK'
  <1>1. CASE IotTrap(w)
    <2>1. pif' \in Field /\ pc' \in Addr
      BY <1>1, AdvanceRange DEF IotTrap
    <2>2. ion' \in Bit /\ ion_delay' \in Bit /\ rtf_delay' \in Bit
      BY <1>1, IonRange DEF IotTrap
    <2>3. intr' \in SUBSET Requests
      BY <1>1 DEF IotTrap, TypeOK, TtyTypeOK, Requests
    <2> QED
      BY <1>1, <2>1, <2>2, <2>3 DEF IotTrap, TypeOK, TtyTypeOK, acc, mmu, tty
  <1>2. CASE IotNop(w)
    BY <1>2, SkipType DEF IotNop
  <1> QED
    BY <1>1, <1>2, MemoryReferenceType, InterruptControlType, TerminalType,
       MemoryManagementType, OperateType DEF Instruction

LEMMA InterruptType ==
  ASSUME TypeOK, Interrupt
  PROVE  TypeOK'
  <1>1. 0 \in Bit /\ 0 \in Field
    BY DEF Bit, Field
  <1>2. \o100 * uf + 8 * pif + df \in 0..\o177
    <2>1. (uf = 0 \/ uf = 1) /\ pif \in Int /\ 0 <= pif /\ pif <= 7
          /\ df \in Int /\ 0 <= df /\ df <= 7
      BY DEF TypeOK, Bit, Field
    <2> QED
      BY <2>1
  <1>3. 1 % AddrSize \in Addr /\ pc \in Word
    BY AddrWraps, WordArithmetic DEF TypeOK
  <1>4. <<0, 0>> \in Cell
    BY AddrSizeAssumption DEF Cell, Field, Addr
  <1>5. mem' \in [Cell -> Word]
    BY <1>3, <1>4 DEF Interrupt, TypeOK
  <1> QED
    BY <1>1, <1>2, <1>3, <1>5 DEF Interrupt, TypeOK, TtyTypeOK, acc, tty

LEMMA TerminalServiceType ==
  ASSUME TypeOK, tty_process
  PROVE  TypeOK'
  <1>1. ASSUME NEW raised \in SUBSET Requests, TtyOutput(raised)
        PROVE  /\ output_pending' \in 0..1 /\ tty_tp_flag' \in 0..1
               /\ intr' \in SUBSET Requests
               /\ tty_tp_buf' \in 0..\o177 /\ tty_dcr' \in 0..1
    <2>1. 0 \in 0..1 /\ 1 \in 0..1 /\ Raise("TTYO") \in SUBSET Requests
      BY DEF Raise, Requests
    <2>2. /\ intr \in SUBSET Requests /\ tty_tp_flag \in 0..1
          /\ tty_tp_buf \in 0..\o177 /\ tty_dcr \in 0..1
      BY DEF TypeOK, TtyTypeOK
    <2>3. CASE output_pending = 1
      BY <1>1, <2>1, <2>2, <2>3 DEF TtyOutput
    <2>4. CASE output_pending # 1
      BY <1>1, <2>1, <2>2, <2>4 DEF TtyOutput
    <2> QED
      BY <2>3, <2>4
  <1>2. CASE PrintStage
    <2>1. TtyOutput({}) /\ {} \in SUBSET Requests
      BY <1>2 DEF PrintStage, TtyNoInput
    <2>2. /\ output_pending' \in 0..1 /\ tty_tp_flag' \in 0..1
          /\ intr' \in SUBSET Requests
          /\ tty_tp_buf' \in 0..\o177 /\ tty_dcr' \in 0..1
      BY <1>1, <2>1
    <2> QED
      BY <1>2, <2>2 DEF PrintStage, TtyNoInput, BesideCpu, TypeOK, TtyTypeOK, acc, mmu
  <1>3. ASSUME NEW byte \in Byte, Type(byte)
        PROVE  TypeOK'
    <2>1. byte \in 0..\o377 /\ Raise("TTYI") \in SUBSET Requests
      BY ByteAssumption DEF Raise, Requests
    <2>2. /\ output_pending' \in 0..1 /\ tty_tp_flag' \in 0..1
          /\ intr' \in SUBSET Requests
          /\ tty_tp_buf' \in 0..\o177 /\ tty_dcr' \in 0..1
      BY <1>1, <1>3, <2>1 DEF Type, TtyRead
    <2> QED
      BY <1>3, <2>1, <2>2 DEF Type, TtyRead, BesideCpu, TypeOK, TtyTypeOK, acc, mmu
  <1> QED
    BY <1>2, <1>3 DEF tty_process

-----------------------------------------------------------------------------
(***************************************************************************)
(* The registers of the memory management unit.  Six instructions touch    *)
(* them; all others leave them and the instruction field alone.            *)
(***************************************************************************)
LEMMA OthersKeepFields ==
  ASSUME NEW w, Instruction(w),
         ~ JMS(w), ~ JMP(w), ~ RTF(w), ~ CDF_CIF(w), ~ RMF(w), ~ CUF_SUF(w)
  PROVE  pif' = pif /\ UNCHANGED mmu
  <1>1. MemoryReference(w) => pif' = pif /\ UNCHANGED mmu
    BY DEF MemoryReference, AND, TAD, ISZ, DCA, Advance
  <1>2. IotTrap(w) \/ IotNop(w) => pif' = pif /\ UNCHANGED mmu
    BY DEF IotTrap, IotNop, SkipIf, Advance
  <1>3. InterruptControl(w) => pif' = pif /\ UNCHANGED mmu
    BY DEF InterruptControl, SKON, ION, IOF, SRQ, GTF, CAF, SkipIf, SetAC, Advance
  <1>4. Terminal(w) => pif' = pif /\ UNCHANGED mmu
    BY DEF Terminal, KCF, KSF, KCC, KRS, KIE, KRB, TFL, TSF, TCF, TPC, TSK, TLS,
           ClearKeyboard, SetPrinter, SkipIf, SetAC, Advance
  <1>5. MemoryManagement(w) => pif' = pif /\ UNCHANGED mmu
    BY DEF MemoryManagement, CINT, RDF, RIF, RIB, SINT, SkipIf, SetAC, Advance
  <1>6. Operate(w) => pif' = pif /\ UNCHANGED mmu
    BY DEF Operate, OPR1, OPR2, OPR3, SetAC, Advance
  <1> QED
    BY <1>1, <1>2, <1>3, <1>4, <1>5, <1>6 DEF Instruction

(* The window opens only in executive mode, and JMP or JMS close it by     *)
(* making the live registers equal to the buffered ones.                   *)
LEMMA InstructionKeepsFields ==
  ASSUME TypeOK, BufferedRegistersAgree, UserModeSealed, NEW w, Instruction(w)
  PROVE  BufferedRegistersAgree' /\ UserModeSealed'
  <1>0. (intr_inhibit = 0 \/ intr_inhibit = 1) /\ (uf = 0 \/ uf = 1)
    BY DEF TypeOK, Bit
  <1>1. CASE JMS(w) \/ JMP(w)
    <2>1. pif' = JumpField /\ LeaveInhibition
      BY <1>1 DEF JMS, JMP
    <2>2. CASE intr_inhibit = 1
      BY <2>1, <2>2 DEF LeaveInhibition, JumpField, BufferedRegistersAgree, UserModeSealed
    <2>3. CASE intr_inhibit = 0
      BY <2>1, <2>3 DEF LeaveInhibition, JumpField, BufferedRegistersAgree, UserModeSealed
    <2> QED
      BY <1>0, <2>2, <2>3
  <1>2. CASE RTF(w) \/ RMF(w) \/ CUF_SUF(w)
    <2>1. uf = 0 /\ uf' = uf /\ intr_inhibit' = 1
      BY <1>2 DEF RTF, Iot, RMF, CUF_SUF, MmuRead, Mmu
    <2> QED
      BY <2>1 DEF BufferedRegistersAgree, UserModeSealed
  <1>3. CASE CDF_CIF(w)
    <2>1. uf = 0 /\ UNCHANGED <<pif, uf, ub>>
          /\ (intr_inhibit' = 1 \/ UNCHANGED <<ib, intr_inhibit>>)
      BY <1>3 DEF CDF_CIF, Mmu, Advance
    <2> QED
      BY <2>1 DEF BufferedRegistersAgree, UserModeSealed
  <1>4. CASE ~ (JMS(w) \/ JMP(w) \/ RTF(w) \/ CDF_CIF(w) \/ RMF(w) \/ CUF_SUF(w))
    <2>1. pif' = pif /\ UNCHANGED mmu
      BY <1>4, OthersKeepFields
    <2> QED
      BY <2>1 DEF mmu, BufferedRegistersAgree, UserModeSealed
  <1> QED
    BY <1>1, <1>2, <1>3, <1>4

-----------------------------------------------------------------------------
(***************************************************************************)
(* Requests and flags of the terminal.                                     *)
(***************************************************************************)

(* Most instructions keep the terminal and raise no terminal request.      *)
LEMMA OthersKeepTerminal ==
  ASSUME NEW w, Instruction(w), ~ CAF(w), ~ Terminal(w)
  PROVE  UNCHANGED tty /\ intr' \subseteq intr \cup {"USER"}
  <1>1. MemoryReference(w) => UNCHANGED <<tty, intr>>
    <2>1. AND(w) => UNCHANGED <<tty, intr>>
      BY DEF AND
    <2>2. TAD(w) => UNCHANGED <<tty, intr>>
      BY DEF TAD
    <2>3. ISZ(w) \/ DCA(w) => UNCHANGED <<tty, intr>>
      BY DEF ISZ, DCA
    <2>4. JMS(w) \/ JMP(w) => UNCHANGED <<tty, intr>>
      BY DEF JMS, JMP
    <2> QED
      BY <2>1, <2>2, <2>3, <2>4 DEF MemoryReference
  <1>2. IotTrap(w) \/ IotNop(w) => UNCHANGED tty /\ intr' \subseteq intr \cup {"USER"}
    BY DEF IotTrap, IotNop, SkipIf
  <1>3. InterruptControl(w) => UNCHANGED <<tty, intr>>
    BY DEF InterruptControl, SKON, ION, IOF, SRQ, GTF, RTF, SkipIf, SetAC
  <1>4. MemoryManagement(w) => UNCHANGED tty /\ intr' \subseteq intr
    BY DEF MemoryManagement, CDF_CIF, CINT, RDF, RIF, RIB, RMF, SINT, CUF_SUF, SkipIf, SetAC
  <1>5. Operate(w) => UNCHANGED tty /\ intr' \subseteq intr \cup {"USER"}
    BY DEF Operate, OPR1, OPR2, OPR3, SetAC
  <1> QED
    BY <1>1, <1>2, <1>3, <1>4, <1>5 DEF Instruction

LEMMA InstructionKeepsRequests ==
  ASSUME RequestImpliesFlag, NEW w, Instruction(w)
  PROVE  RequestImpliesFlag'
  <1>1. CASE CAF(w)
    BY <1>1 DEF CAF, RequestImpliesFlag
  <1>2. CASE KCF(w) \/ KCC(w) \/ KRB(w)
    <2>1. /\ intr' = intr \ {"TTYI"}
          /\ UNCHANGED tty_tp_flag
      BY <1>2 DEF KCF, KCC, KRB, ClearKeyboard
    <2> QED
      BY <2>1 DEF RequestImpliesFlag
  <1>3. CASE KSF(w) \/ KRS(w) \/ TSF(w) \/ TSK(w)
    BY <1>3 DEF KSF, KRS, TSF, TSK, SkipIf, SetAC, tty, RequestImpliesFlag
  <1>4. CASE KIE(w)
    BY <1>4 DEF KIE, RequestImpliesFlag
  <1>5. CASE TFL(w)
    <2>1. /\ tty_tp_flag' = 1 /\ UNCHANGED tty_kb_flag
          /\ intr' = intr \cup Raise("TTYO")
      BY <1>5 DEF TFL, SetPrinter
    <2> QED
      BY <2>1 DEF Raise, RequestImpliesFlag
  <1>6. CASE TCF(w) \/ TLS(w)
    <2>1. intr' = intr \ {"TTYO"} /\ UNCHANGED tty_kb_flag
      BY <1>6 DEF TCF, TLS, SetPrinter
    <2> QED
      BY <2>1 DEF RequestImpliesFlag
  <1>7. CASE TPC(w)
    BY <1>7 DEF TPC, SetPrinter, RequestImpliesFlag
  <1>8. CASE ~ CAF(w) /\ ~ Terminal(w)
    <2>1. UNCHANGED tty /\ intr' \subseteq intr \cup {"USER"}
      BY <1>8, OthersKeepTerminal
    <2> QED
      BY <2>1 DEF tty, RequestImpliesFlag
  <1> QED
    BY <1>1, <1>2, <1>3, <1>4, <1>5, <1>6, <1>7, <1>8 DEF Terminal

LEMMA ServiceKeepsRequests ==
  ASSUME RequestImpliesFlag, tty_process
  PROVE  RequestImpliesFlag'
  <1>1. CASE PrintStage
    BY <1>1 DEF PrintStage, TtyNoInput, TtyOutput, Raise, RequestImpliesFlag
  <1>2. ASSUME NEW byte \in Byte, Type(byte)
        PROVE  RequestImpliesFlag'
    BY <1>2 DEF Type, TtyRead, TtyOutput, Raise, RequestImpliesFlag
  <1> QED
    BY <1>1, <1>2 DEF tty_process

-----------------------------------------------------------------------------
(***************************************************************************)
(* The inductive invariant.                                                *)
(***************************************************************************)
LEMMA InitIInv == Init => IInv
  <1> SUFFICES ASSUME Init PROVE IInv
    OBVIOUS
  <1>1. TypeOK
    <2>1. 0 \in Bit /\ 0 \in Field /\ 0 \in LinkAC /\ 0 \in Word /\ \o7777 \in Word
      BY DEF Bit, Field, LinkAC, Word
    <2>2. TtyTypeOK
      BY DEF Init, TtyInit, TtyTypeOK, Requests
    <2> QED
      BY <2>1, <2>2, StartAssumption DEF Init, TypeOK
  <1>2. BufferedRegistersAgree /\ UserModeSealed /\ RequestImpliesFlag
    BY DEF Init, TtyInit, BufferedRegistersAgree, UserModeSealed, RequestImpliesFlag
  <1>3. rtf_delay = 0
    BY DEF Init
  <1> QED
    BY <1>1, <1>2, <1>3 DEF IInv

LEMMA ExecutedInstruction ==
  ASSUME NEW w, Instruction(w)
  PROVE  rtf_delay' = 0 /\ Ready
  <1>1. MemoryReference(w) => Executed
    <2>1. AND(w) => Executed
      BY DEF AND
    <2>2. TAD(w) => Executed
      BY DEF TAD
    <2>3. ISZ(w) \/ DCA(w) \/ JMS(w) \/ JMP(w) => Executed
      BY DEF ISZ, DCA, JMS, JMP
    <2> QED
      BY <2>1, <2>2, <2>3 DEF MemoryReference
  <1>2. InterruptControl(w) => Ready /\ rtf_delay' = 0
    BY DEF InterruptControl, SKON, ION, IOF, SRQ, GTF, RTF, CAF, SkipIf, SetAC, Executed, Fetched
  <1>3. Terminal(w) => Executed
    BY DEF Terminal, KCF, KSF, KCC, KRS, KIE, KRB, TFL, TSF, TCF, TPC, TSK, TLS,
           ClearKeyboard, SetPrinter, SkipIf, SetAC
  <1>4. MemoryManagement(w) => Executed
    BY DEF MemoryManagement, CDF_CIF, CINT, RDF, RIF, RIB, RMF, SINT, CUF_SUF, SkipIf, SetAC
  <1>5. IotTrap(w) \/ IotNop(w) \/ Operate(w) => Executed
    BY DEF IotTrap, IotNop, Operate, OPR1, OPR2, OPR3, SkipIf, SetAC
  <1> QED
    BY <1>1, <1>2, <1>3, <1>4, <1>5 DEF Instruction, Executed, Fetched

LEMMA RtfDelayStaysOff ==
  ASSUME rtf_delay = 0, [Next]_vars
  PROVE  rtf_delay' = 0
  <1>1. CASE Interrupt
    BY <1>1 DEF Interrupt
  <1>2. CASE Instruction(mem[<<pif, pc>>])
    BY <1>2, ExecutedInstruction
  <1>3. CASE tty_process \/ Break \/ Resume \/ UNCHANGED vars
    BY <1>3 DEF tty_process, PrintStage, Type, Break, Resume, BesideCpu, vars
  <1> QED
    BY <1>1, <1>2, <1>3 DEF Next, cpu_process

LEMMA NextIInv == IInv /\ [Next]_vars => IInv'
  <1> SUFFICES ASSUME IInv, [Next]_vars PROVE IInv'
    OBVIOUS
  <1> USE DEF IInv
  <1>0. rtf_delay' = 0
    BY RtfDelayStaysOff
  <1>1. CASE Interrupt
    <2>1. TypeOK'
      BY <1>1, InterruptType
    <2>2. BufferedRegistersAgree' /\ UserModeSealed'
      BY <1>1 DEF Interrupt, BufferedRegistersAgree, UserModeSealed
    <2>3. RequestImpliesFlag'
      BY <1>1 DEF Interrupt, tty, RequestImpliesFlag
    <2> QED
      BY <1>0, <2>1, <2>2, <2>3
  <1>2. CASE Instruction(mem[<<pif, pc>>])
    <2>1. mem[<<pif, pc>>] \in Word
      BY DEF TypeOK, Cell
    <2> QED
      BY <1>0, <1>2, <2>1, InstructionType, InstructionKeepsFields, InstructionKeepsRequests
  <1>3. CASE tty_process
    <2>1. UNCHANGED <<pif, mmu>>
      BY <1>3 DEF tty_process, PrintStage, Type, BesideCpu
    <2>2. BufferedRegistersAgree' /\ UserModeSealed'
      BY <2>1 DEF mmu, BufferedRegistersAgree, UserModeSealed
    <2> QED
      BY <1>0, <1>3, <2>2, TerminalServiceType, ServiceKeepsRequests
  <1>4. CASE Break \/ Resume
    BY <1>0, <1>4 DEF Break, Resume, BesideCpu, TypeOK, TtyTypeOK, acc, mmu, tty,
                BufferedRegistersAgree, UserModeSealed, RequestImpliesFlag
  <1>5. CASE UNCHANGED vars
    BY <1>0, <1>5 DEF vars, TypeOK, TtyTypeOK, acc, mmu, tty,
                BufferedRegistersAgree, UserModeSealed, RequestImpliesFlag
  <1> QED
    BY <1>1, <1>2, <1>3, <1>4, <1>5 DEF Next, cpu_process

THEOREM IInvAlways == Spec => []IInv
  BY InitIInv, NextIInv, PTL DEF Spec

(* Registers, memory and terminal always hold values of their width.       *)
THEOREM TypeCorrect == Spec => []TypeOK
  <1>1. IInv => TypeOK
    BY DEF IInv
  <1> QED
    BY <1>1, IInvAlways, PTL

(* IB and UB agree with IF and UF outside the inhibition window.           *)
THEOREM BufferedRegisters == Spec => []BufferedRegistersAgree
  <1>1. IInv => BufferedRegistersAgree
    BY DEF IInv
  <1> QED
    BY <1>1, IInvAlways, PTL

(* No program in user mode has the window open or UB cleared.              *)
THEOREM UserSealed == Spec => []UserModeSealed
  <1>1. IInv => UserModeSealed
    BY DEF IInv
  <1> QED
    BY <1>1, IInvAlways, PTL

(* Every terminal request has its flag: no interrupt without a cause.      *)
THEOREM RequestsHaveFlags == Spec => []RequestImpliesFlag
  <1>1. IInv => RequestImpliesFlag
    BY DEF IInv
  <1> QED
    BY <1>1, IInvAlways, PTL

-----------------------------------------------------------------------------
(***************************************************************************)
(* What a step in user mode may do.                                        *)
(***************************************************************************)
LEMMA UserInstruction ==
  ASSUME IInv, uf = 1, NEW w, Instruction(w)
  PROVE  /\ UNCHANGED <<mmu, pif, tty>> /\ run' # "H"
         /\ ion' = IonNow /\ intr \subseteq intr'
  <1>0. intr_inhibit = 0 /\ (run = "R")
    BY ExecutedInstruction DEF IInv, UserModeSealed, Ready
  <1>1. ~ InterruptControl(w) /\ ~ Terminal(w) /\ ~ MemoryManagement(w) /\ ~ IotNop(w)
    <2>1. ~ InterruptControl(w)
      BY DEF InterruptControl, SKON, ION, IOF, SRQ, GTF, RTF, CAF, Iot
    <2>2. ~ Terminal(w)
      BY DEF Terminal, KCF, KSF, KCC, KRS, KIE, KRB, TFL, TSF, TCF, TPC, TSK, TLS, Iot
    <2>3. ~ MemoryManagement(w)
      BY DEF MemoryManagement, CDF_CIF, CINT, RDF, RIF, RIB, RMF, SINT, CUF_SUF, MmuRead, Mmu
    <2> QED
      BY <2>1, <2>2, <2>3 DEF IotNop
  <1>2. CASE AND(w) \/ TAD(w) \/ ISZ(w) \/ DCA(w)
    <2>1. AND(w) => UNCHANGED <<mmu, pif, tty, run, intr>> /\ ion' = IonNow
      BY DEF AND, Advance, Executed
    <2>2. TAD(w) => UNCHANGED <<mmu, pif, tty, run, intr>> /\ ion' = IonNow
      BY DEF TAD, Advance, Executed
    <2>3. ISZ(w) \/ DCA(w) => UNCHANGED <<mmu, pif, tty, run, intr>> /\ ion' = IonNow
      BY DEF ISZ, DCA, Advance, Executed
    <2> QED
      BY <1>0, <1>2, <2>1, <2>2, <2>3
  <1>3. CASE JMS(w) \/ JMP(w)
    <2>1. LeaveInhibition /\ pif' = JumpField /\ UNCHANGED <<tty, run, intr>> /\ ion' = IonNow
      BY <1>3 DEF JMS, JMP, Executed
    <2> QED
      BY <1>0, <2>1 DEF LeaveInhibition, JumpField, mmu
  <1>4. CASE IotTrap(w)
    BY <1>0, <1>4 DEF IotTrap, Advance, Executed
  <1>5. CASE OPR1(w) \/ OPR3(w)
    BY <1>0, <1>5 DEF OPR1, OPR3, SetAC, Advance, Executed
  <1>6. CASE OPR2(w)
    <2>1. /\ UNCHANGED <<mmu, pif, tty>> /\ ion' = IonNow /\ intr \subseteq intr'
      BY <1>6 DEF OPR2, Advance, Executed
    <2>2. run' # "H"
      BY <1>0, <1>6 DEF OPR2, Privileged
    <2> QED
      BY <2>1, <2>2
  <1> QED
    BY <1>1, <1>2, <1>3, <1>4, <1>5, <1>6 DEF Instruction, MemoryReference, Operate

LEMMA StepConfined ==
  ASSUME IInv, Next
  PROVE  UserStepConfined
  <1> SUFFICES ASSUME uf = 1 PROVE UserStepConfined
    BY DEF UserStepConfined
  <1>0. /\ tty_kb_flag \in 0..1 /\ tty_tp_flag \in 0..1 /\ output_pending \in 0..1
        /\ ion \in 0..1
    BY DEF IInv, TypeOK, TtyTypeOK, Bit
  <1>1. CASE Interrupt
    <2>1. \o100 * uf + 8 * pif + df >= \o100
      BY DEF IInv, TypeOK, Field
    <2> QED
      BY <1>1, <2>1 DEF Interrupt, InterruptDue, IInv, UserStepConfined
  <1>2. CASE Instruction(mem[<<pif, pc>>])
    <2>1. /\ UNCHANGED <<mmu, pif, tty>> /\ run' # "H"
          /\ ion' = IonNow /\ intr \subseteq intr'
      BY <1>2, UserInstruction
    <2>2. IonNow >= ion
      BY <1>0 DEF IonNow
    <2> QED
      BY <1>0, <2>1, <2>2 DEF UserStepConfined, mmu, tty
  <1>3. CASE tty_process
    <2>1. /\ UNCHANGED <<mmu, pif, ion, tty_dcr, tty_tp_buf>> /\ run' # "H"
          /\ intr \subseteq intr'
      BY <1>3 DEF tty_process, PrintStage, Type, TtyNoInput, TtyRead, TtyOutput, BesideCpu
    <2>2. tty_kb_flag' \in {1, tty_kb_flag} /\ tty_tp_flag' \in {1, tty_tp_flag}
          /\ output_pending' = 0
      BY <1>3 DEF tty_process, PrintStage, Type, TtyNoInput, TtyRead, TtyOutput
    <2> QED
      BY <1>0, <2>1, <2>2 DEF UserStepConfined, mmu
  <1>4. CASE Break \/ Resume
    BY <1>0, <1>4 DEF Break, Resume, BesideCpu, UserStepConfined, mmu, tty
  <1> QED
    BY <1>1, <1>2, <1>3, <1>4 DEF Next, cpu_process

(* User mode is left by the interrupt only, and a step taken in it neither *)
(* halts nor touches fields, interrupt enable or devices.                  *)
THEOREM UserConfined == Spec => UserModeConfined
  <1>1. IInv /\ [Next]_vars => [UserStepConfined]_vars
    BY StepConfined
  <1>2. Spec => [][UserStepConfined]_vars
    BY <1>1, IInvAlways, PTL DEF Spec
  <1> QED
    BY <1>2 DEF UserModeConfined

=============================================================================
