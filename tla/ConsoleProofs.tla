----------------------------- MODULE ConsoleProofs -----------------------------
(***************************************************************************)
(* Proofs about Console, for every program, every word the operator may    *)
(* deposit, every place and order of commands, and any number of them: the *)
(* bounds of the model are not used.                                       *)
(***************************************************************************)
EXTENDS Console, CpuProofs

(* The registers and the memory of a core file are of their types. *)
SavedOK(s) ==
  /\ s.pif \in Field /\ s.pc \in Addr /\ s.df \in Word
  /\ s.ac \in LinkAC /\ s.mq \in Word /\ s.sr \in Word
  /\ s.ion \in Bit /\ s.ion_delay \in Bit /\ s.rtf_delay = 0
  /\ s.mem \in [Cell -> Word] /\ s.intr \in SUBSET Requests

(* The machine that has the registers s of a core file, and has what is    *)
(* not in it from u.                                                       *)
Whole(s, u) ==
  << <<s.pif, s.pc>>, <<s.ac, s.mq, s.sr>>, s.ion, s.ion_delay, s.rtf_delay,
     <<u[1][1], u[1][2], s.df, u[1][3], u[1][4], u[1][5]>>, s.mem,
     <<u[1][6], u[2][1], u[1][7], u[2][2], u[1][8], u[1][9]>>, s.intr >>

(* A core file is all there is to know of the machine that was saved.      *)
CoreOK ==
  core.what = "core" =>
    /\ SavedOK(core.saved) /\ (core.saved.df \in Field \/ widened)
    /\ core.machine = Whole(core.saved, core.unsaved)

(* The inductive invariant: without the core file being of its types a     *)
(* restore could bring anything.  While the machine runs DF is a field.    *)
ConsoleInv ==
  /\ ConsoleTypeOK /\ rtf_delay = 0
  /\ at # "prompt" => df \in Field
  /\ moved \in BOOLEAN /\ lowered \in BOOLEAN /\ widened \in BOOLEAN /\ stored \in Nat
  /\ SurvivesOperator
  /\ CoreOK

-----------------------------------------------------------------------------
(* With a field in DF the machine is one that CpuProofs is about.          *)
LEMMA MachineTypes ==
  /\ ConsoleTypeOK /\ df \in Field => TypeOK
  /\ TypeOK => ConsoleTypeOK
  <1>1. Field \subseteq Word
    BY DEF Field, Word
  <1>2. ConsoleTypeOK /\ df \in Field => TypeOK
    BY DEF ConsoleTypeOK, TypeOK
  <1>3. TypeOK => ConsoleTypeOK
    BY <1>1 DEF ConsoleTypeOK, TypeOK
  <1> QED
    BY <1>2, <1>3

(* What print_instruction leaves of memory, with "examine": all of it.     *)
LEMMA PrintedSpares ==
  ASSUME NEW memory, NEW cell
  PROVE  Printed(memory, cell) = memory
  <1>1. ~ Steps(memory, cell, TRUE)
    BY DEF Steps
  <1> QED
    BY <1>1 DEF Printed, operand_addr

LEMMA InitConsoleInv == ConsoleInit => ConsoleInv
  <1> SUFFICES ASSUME ConsoleInit PROVE ConsoleInv
    OBVIOUS
  <1>1. IInv
    BY InitIInv DEF ConsoleInit
  <1>2. /\ moved = FALSE /\ lowered = FALSE /\ widened = FALSE /\ stored \in Nat
        /\ at = "prompt"
    BY ConsoleAssumption DEF ConsoleInit
  <1>3. CoreOK
    BY DEF ConsoleInit, NoCore, CoreOK
  <1> QED
    BY <1>1, <1>2, <1>3, MachineTypes DEF ConsoleInv, IInv, SurvivesOperator

(* What the invariant says of the machine does not change with the rest.   *)
LEMMA SameMachine ==
  ASSUME ConsoleInv, UNCHANGED <<Machine, core, meddled>>,
         run' \in {"R", "H", "I"}, stored' \in Nat, at' # "prompt" => df \in Field
  PROVE  ConsoleInv'
  <1>1. UNCHANGED <<pif, pc, ac, mq, sr, ion, ion_delay, rtf_delay, mem, intr>>
        /\ UNCHANGED <<ib, sf, df, intr_inhibit, uf, ub>> /\ UNCHANGED tty
    BY DEF Machine, location, acc, mmu
  <1>2. ConsoleTypeOK'
    BY <1>1 DEF ConsoleInv, ConsoleTypeOK, TtyTypeOK, tty, meddled
  <1>3. SurvivesOperator'
    BY <1>1 DEF ConsoleInv, SurvivesOperator, UserModeSealed, BufferedRegistersAgree,
                RequestImpliesFlag, meddled, tty
  <1> QED
    BY <1>1, <1>2, <1>3 DEF ConsoleInv, CoreOK, meddled

-----------------------------------------------------------------------------
(* deposit: each reaches one register, and what the invariant says of that *)
(* register is either noted in the history or not touched.                 *)
LEMMA DepositRegister ==
  ASSUME ConsoleInv, NEW value \in Word,
         DepositAC(value) \/ DepositMQ(value) \/ DepositSR(value)
  PROVE  ConsoleInv'
  <1>1. /\ UNCHANGED <<pif, pc, ion, ion_delay, rtf_delay, df, mem, run, intr, core, stored>>
        /\ UNCHANGED <<ib, sf, intr_inhibit, uf, ub>> /\ UNCHANGED <<moved, lowered, widened, at>>
        /\ UNCHANGED tty
    BY DEF DepositAC, DepositMQ, DepositSR, Deposit, location, Kept, flags, meddled, tty
  <1>2. ac' \in LinkAC /\ mq' \in Word /\ sr' \in Word
    <2>1. value \in LinkAC
      BY DEF Word, LinkAC
    <2> QED
      BY <2>1 DEF DepositAC, DepositMQ, DepositSR, ConsoleInv, ConsoleTypeOK
  <1>3. ConsoleTypeOK'
    BY <1>1, <1>2 DEF ConsoleInv, ConsoleTypeOK, TtyTypeOK, tty
  <1>4. SurvivesOperator'
    BY <1>1 DEF ConsoleInv, SurvivesOperator, UserModeSealed, BufferedRegistersAgree,
                RequestImpliesFlag, tty
  <1> QED
    BY <1>1, <1>3, <1>4 DEF ConsoleInv, CoreOK

LEMMA DepositPlace ==
  ASSUME ConsoleInv, NEW field \in 0..1, NEW a \in Addr,
         DepositIF(field) \/ DepositPC(<<field, a>>)
  PROVE  ConsoleInv'
  <1>1. /\ UNCHANGED <<ac, mq, sr, ion, ion_delay, rtf_delay, df, mem, run, intr, core, stored>>
        /\ UNCHANGED <<ib, sf, intr_inhibit, uf, ub>> /\ UNCHANGED <<lowered, widened, at>>
        /\ UNCHANGED tty
    BY DEF DepositIF, DepositPC, Deposit, acc, Kept, flags, tty
  <1>2. pif' \in Field /\ pc' \in Addr
    <2>1. field \in Field /\ pif \in Field /\ pc \in Addr
      BY DEF Field, ConsoleInv, ConsoleTypeOK
    <2> QED
      BY <2>1 DEF DepositIF, DepositPC
  <1>3. moved' \in BOOLEAN /\ (~ moved' => ~ moved /\ pif' = pif)
    BY DEF DepositIF, DepositPC, ConsoleInv
  <1>4. ConsoleTypeOK'
    BY <1>1, <1>2 DEF ConsoleInv, ConsoleTypeOK, TtyTypeOK, tty
  <1>5. SurvivesOperator'
    BY <1>1, <1>3 DEF ConsoleInv, SurvivesOperator, UserModeSealed, BufferedRegistersAgree,
                      RequestImpliesFlag, tty
  <1> QED
    BY <1>1, <1>3, <1>4, <1>5 DEF ConsoleInv, CoreOK

(* What is no field is noted, and the machine is at the prompt.            *)
LEMMA DepositDataField ==
  ASSUME ConsoleInv, NEW value \in Word, DepositDF(value)
  PROVE  ConsoleInv'
  <1>1. /\ UNCHANGED <<pif, pc, ac, mq, sr, ion, ion_delay, rtf_delay, mem, run, intr>>
        /\ UNCHANGED <<ib, sf, intr_inhibit, uf, ub>>
        /\ UNCHANGED <<moved, lowered, core, stored>> /\ at' = "prompt"
        /\ UNCHANGED tty
    BY DEF DepositDF, Deposit, Enter, location, acc, Kept, flags, tty
  <1>2. /\ widened' \in BOOLEAN /\ (widened => widened')
        /\ df' \in Word /\ (df' \in Field \/ widened')
    BY DEF DepositDF, ConsoleInv
  <1>3. ConsoleTypeOK'
    BY <1>1, <1>2 DEF ConsoleInv, ConsoleTypeOK, TtyTypeOK, tty
  <1>4. SurvivesOperator'
    BY <1>1 DEF ConsoleInv, SurvivesOperator, UserModeSealed, BufferedRegistersAgree,
                RequestImpliesFlag, tty
  <1>5. CoreOK'
    BY <1>1, <1>2 DEF ConsoleInv, CoreOK
  <1> QED
    BY <1>1, <1>2, <1>3, <1>4, <1>5 DEF ConsoleInv

LEMMA DepositOneFlag ==
  ASSUME ConsoleInv, NEW keyboard \in Bit, NEW printer \in Bit, DepositFlags(keyboard, printer)
  PROVE  ConsoleInv'
  <1>1. /\ UNCHANGED <<pif, pc, ac, mq, sr, ion, ion_delay, rtf_delay, df, mem, run, intr>>
        /\ UNCHANGED <<ib, sf, intr_inhibit, uf, ub>> /\ UNCHANGED <<moved, widened, at, core, stored>>
        /\ UNCHANGED <<tty_kb_buf, tty_tp_buf, tty_dcr, output_pending>>
    BY DEF DepositFlags, Deposit, location, acc, Kept
  <1>2. tty_kb_flag' = keyboard /\ tty_tp_flag' = printer
    BY DEF DepositFlags
  <1>3. lowered' \in BOOLEAN
        /\ (~ lowered' => ~ lowered /\ keyboard >= tty_kb_flag /\ printer >= tty_tp_flag)
    <2>1. lowered' = (lowered \/ keyboard < tty_kb_flag \/ printer < tty_tp_flag)
      BY DEF DepositFlags
    <2>2. keyboard \in Int /\ printer \in Int /\ tty_kb_flag \in Int /\ tty_tp_flag \in Int
      BY DEF Bit, ConsoleInv, ConsoleTypeOK, TtyTypeOK
    <2>3. /\ ~ (keyboard < tty_kb_flag) => keyboard >= tty_kb_flag
          /\ ~ (printer < tty_tp_flag) => printer >= tty_tp_flag
      BY <2>2
    <2> QED
      BY <2>1, <2>3, Zenon DEF ConsoleInv
  <1>4. ConsoleTypeOK'
    BY <1>1, <1>2 DEF ConsoleInv, ConsoleTypeOK, TtyTypeOK, Bit
  <1>5. ~ lowered' => RequestImpliesFlag'
    <2> SUFFICES ASSUME ~ lowered' PROVE RequestImpliesFlag'
      OBVIOUS
    <2>1. RequestImpliesFlag /\ keyboard >= tty_kb_flag /\ printer >= tty_tp_flag
      BY <1>3 DEF ConsoleInv, SurvivesOperator
    <2> QED
      BY <1>1, <1>2, <2>1 DEF Bit, RequestImpliesFlag
  <1>6. SurvivesOperator'
    BY <1>1, <1>5 DEF ConsoleInv, SurvivesOperator, UserModeSealed, BufferedRegistersAgree
  <1> QED
    BY <1>1, <1>3, <1>4, <1>6 DEF ConsoleInv, CoreOK

LEMMA DepositOneWord ==
  ASSUME ConsoleInv, NEW cell \in Cell, NEW word \in Word, DepositWord(cell, word)
  PROVE  ConsoleInv'
  <1>1. /\ UNCHANGED <<pif, pc, ac, mq, sr, ion, ion_delay, rtf_delay, df, run, intr>>
        /\ UNCHANGED <<ib, sf, intr_inhibit, uf, ub>> /\ UNCHANGED <<moved, lowered, widened, at, core>>
        /\ UNCHANGED tty
    BY DEF DepositWord, Deposit, location, acc, Kept, flags, meddled, tty
  <1>2. mem' \in [Cell -> Word]
    <2>1. mem' = [mem EXCEPT ![cell] = word]
      BY PrintedSpares DEF DepositWord
    <2> QED
      BY <2>1 DEF ConsoleInv, ConsoleTypeOK
  <1>3. stored' \in Nat
    BY DEF DepositWord, ConsoleInv
  <1>4. ConsoleTypeOK'
    BY <1>1, <1>2 DEF ConsoleInv, ConsoleTypeOK, TtyTypeOK, tty
  <1>5. SurvivesOperator'
    BY <1>1 DEF ConsoleInv, SurvivesOperator, UserModeSealed, BufferedRegistersAgree,
                RequestImpliesFlag, tty
  <1> QED
    BY <1>1, <1>3, <1>4, <1>5 DEF ConsoleInv, CoreOK

LEMMA DepositKeeps ==
  ASSUME ConsoleInv, DepositSome
  PROVE  ConsoleInv'
  <1>1. /\ tty_kb_flag \in Bit /\ tty_tp_flag \in Bit
    BY DEF ConsoleInv, ConsoleTypeOK, TtyTypeOK, Bit
  <1>2. \E a \in Addr : TRUE
    BY DEF ConsoleInv, ConsoleTypeOK
  <1>3. /\ Values \subseteq Word /\ DataFields \subseteq Word /\ Places \subseteq Addr
        /\ Cells \subseteq Cell /\ Words \subseteq Word
    BY ConsoleAssumption
  <1>4. CASE \E value \in Values : DepositAC(value) \/ DepositMQ(value) \/ DepositSR(value)
    BY <1>3, <1>4, DepositRegister
  <1>5. CASE \/ \E value \in DataFields : DepositDF(value)
             \/ \E field \in 0..1 : DepositIF(field)
    BY <1>2, <1>3, <1>5, DepositDataField, DepositPlace
  <1>6. CASE \E flag \in Bit : DepositFlags(flag, tty_tp_flag) \/ DepositFlags(tty_kb_flag, flag)
    BY <1>1, <1>6, DepositOneFlag
  <1>7. CASE \E field \in 0..1, a \in Places : DepositPC(<<field, a>>)
    BY <1>3, <1>7, DepositPlace
  <1>8. CASE \E cell \in Cells, word \in Words : DepositWord(cell, word)
    BY <1>3, <1>8, DepositOneWord
  <1> QED
    BY <1>4, <1>5, <1>6, <1>7, <1>8 DEF DepositSome

-----------------------------------------------------------------------------
(* save and restore. *)
LEMMA SaveKeeps ==
  ASSUME ConsoleInv, Save
  PROVE  ConsoleInv'
  <1>1. /\ UNCHANGED <<vars, moved, lowered, widened, at, stored>>
        /\ core' = [what |-> "core", saved |-> Saved, machine |-> Machine, unsaved |-> Unsaved]
    BY DEF Save, meddled
  <1>2. ConsoleTypeOK' /\ rtf_delay' = 0 /\ SurvivesOperator' /\ df' = df
    BY <1>1 DEF ConsoleInv, vars, ConsoleTypeOK, TtyTypeOK, acc, mmu, tty, SurvivesOperator,
                UserModeSealed, BufferedRegistersAgree, RequestImpliesFlag
  <1>3. SavedOK(Saved) /\ (Saved.df \in Field \/ widened)
    BY DEF ConsoleInv, ConsoleTypeOK, TtyTypeOK, SavedOK, Saved
  <1>4. Machine = Whole(Saved, Unsaved)
    BY DEF Machine, Whole, Saved, Unsaved, Kept, flags, location, acc, mmu, tty
  <1>5. CoreOK'
    BY <1>1, <1>3, <1>4 DEF CoreOK
  <1> QED
    BY <1>1, <1>2, <1>5 DEF ConsoleInv

LEMMA RestoreKeeps ==
  ASSUME ConsoleInv, Restore
  PROVE  ConsoleInv'
  <1> DEFINE s == core.saved
  <1>1. /\ UNCHANGED <<run, core, stored, ib, sf, intr_inhibit, uf, ub>> /\ UNCHANGED tty
        /\ mem' = s.mem /\ pif' = s.pif /\ pc' = s.pc /\ ac' = s.ac /\ mq' = s.mq
        /\ df' = s.df /\ sr' = s.sr /\ ion' = s.ion /\ ion_delay' = s.ion_delay
        /\ rtf_delay' = s.rtf_delay /\ intr' = s.intr
        /\ moved' = (moved \/ s.pif # pif) /\ lowered' = (lowered \/ ~ (s.intr \subseteq intr))
        /\ widened' = widened /\ at' = "prompt"
    BY DEF Restore, Load, Unsaved, Kept, flags, tty, Enter
  <1>2. SavedOK(s) /\ (s.df \in Field \/ widened)
    BY DEF ConsoleInv, CoreOK, Restore
  <1>3. ConsoleTypeOK' /\ rtf_delay' = 0
    BY <1>1, <1>2 DEF ConsoleInv, SavedOK, ConsoleTypeOK, TtyTypeOK, tty
  <1>4. moved' \in BOOLEAN /\ lowered' \in BOOLEAN
    BY <1>1 DEF ConsoleInv
  <1>5. SurvivesOperator'
    <2>1. UserModeSealed'
      BY <1>1 DEF ConsoleInv, SurvivesOperator, UserModeSealed
    <2>2. ~ moved' => BufferedRegistersAgree'
      BY <1>1 DEF ConsoleInv, SurvivesOperator, BufferedRegistersAgree
    <2>3. ~ lowered' => RequestImpliesFlag'
      BY <1>1 DEF ConsoleInv, SurvivesOperator, RequestImpliesFlag, tty
    <2> QED
      BY <2>1, <2>2, <2>3 DEF SurvivesOperator
  <1> QED
    BY <1>1, <1>3, <1>4, <1>5 DEF ConsoleInv, CoreOK

LEMMA StartRestoredKeeps ==
  ASSUME ConsoleInv, StartRestored
  PROVE  ConsoleInv'
  <1> DEFINE s == core.saved
  <1>1. /\ UNCHANGED <<core, stored>>
        /\ mem' = s.mem /\ pif' = s.pif /\ pc' = s.pc /\ ac' = s.ac /\ mq' = s.mq
        /\ df' = s.df /\ sr' = s.sr /\ ion' = s.ion /\ ion_delay' = s.ion_delay
        /\ rtf_delay' = s.rtf_delay /\ intr' = s.intr
        /\ ib' = 0 /\ sf' = 0 /\ intr_inhibit' = 0 /\ uf' = 0 /\ ub' = 0
        /\ tty_kb_buf' = 0 /\ tty_kb_flag' = 0 /\ tty_tp_buf' = 0 /\ tty_tp_flag' = 0
        /\ tty_dcr' = 1 /\ output_pending' = 0 /\ run' = "R"
        /\ moved' = (s.pif # 0) /\ lowered' = (s.intr # {})
        /\ widened' = widened /\ at' = "prompt"
    BY DEF StartRestored, Enter
  <1>2. SavedOK(s) /\ (s.df \in Field \/ widened)
    BY DEF ConsoleInv, CoreOK, StartRestored
  <1>3. ConsoleTypeOK' /\ rtf_delay' = 0
    <2>1. 0 \in Bit /\ 0 \in Field /\ 0 \in 0..\o177
      BY DEF Bit, Field
    <2>2. TtyTypeOK'
      BY <1>1, <1>2 DEF TtyTypeOK, SavedOK
    <2>3. s.rtf_delay \in Bit /\ rtf_delay' = 0
      BY <1>1, <1>2, <2>1 DEF SavedOK
    <2> QED
      BY <1>1, <1>2, <2>1, <2>2, <2>3 DEF SavedOK, ConsoleTypeOK
  <1>4. SurvivesOperator' /\ moved' \in BOOLEAN /\ lowered' \in BOOLEAN
    BY <1>1 DEF SurvivesOperator, UserModeSealed, BufferedRegistersAgree, RequestImpliesFlag
  <1> QED
    BY <1>1, <1>3, <1>4 DEF ConsoleInv, CoreOK

-----------------------------------------------------------------------------
(* machine_run under the console. *)

(* The seal of user mode does not need the buffered fields to agree, which *)
(* a deposit of the PC may have undone.                                    *)
LEMMA InstructionKeepsSeal ==
  ASSUME TypeOK, UserModeSealed, NEW w, Instruction(w)
  PROVE  UserModeSealed'
  <1>0. (intr_inhibit = 0 \/ intr_inhibit = 1) /\ (uf = 0 \/ uf = 1)
    BY DEF TypeOK, Bit
  <1>1. CASE JMS(w) \/ JMP(w)
    <2>1. LeaveInhibition
      BY <1>1 DEF JMS, JMP
    <2> QED
      BY <1>0, <2>1 DEF LeaveInhibition, UserModeSealed
  <1>2. CASE RTF(w) \/ RMF(w) \/ CUF_SUF(w) \/ CDF_CIF(w)
    <2>1. uf = 0 /\ uf' = uf
      BY <1>2 DEF RTF, Iot, RMF, CUF_SUF, MmuRead, Mmu, CDF_CIF
    <2> QED
      BY <2>1 DEF UserModeSealed
  <1>3. CASE ~ (JMS(w) \/ JMP(w) \/ RTF(w) \/ CDF_CIF(w) \/ RMF(w) \/ CUF_SUF(w))
    <2>1. UNCHANGED mmu
      BY <1>3, OthersKeepFields
    <2> QED
      BY <2>1 DEF mmu, UserModeSealed
  <1> QED
    BY <1>1, <1>2, <1>3

(* Whatever the machine does by itself is what CpuProofs is about, apart   *)
(* from what an operator has undone.                                       *)
LEMMA MachineStepKeeps ==
  ASSUME ConsoleInv, at # "prompt",
         cpu_process \/ tty_process \/ Break \/ UNCHANGED vars,
         UNCHANGED <<core, meddled, stored>>
  PROVE  ConsoleInv'
  <1>1. TypeOK /\ rtf_delay = 0 /\ SurvivesOperator /\ UserModeSealed
    BY MachineTypes DEF ConsoleInv, SurvivesOperator
  <1>2. rtf_delay' = 0
    BY <1>1, RtfDelayStaysOff DEF Next
  <1>3. UNCHANGED <<moved, lowered, widened, core, stored>>
    BY DEF meddled
  <1>4. TypeOK' /\ SurvivesOperator'
    <2>1. CASE Interrupt
      <3>1. UserModeSealed' /\ BufferedRegistersAgree' /\ UNCHANGED <<tty, intr>>
        BY <2>1 DEF Interrupt, UserModeSealed, BufferedRegistersAgree
      <3>2. RequestImpliesFlag => RequestImpliesFlag'
        BY <3>1 DEF RequestImpliesFlag, tty
      <3> QED
        BY <1>1, <1>3, <2>1, <3>1, <3>2, InterruptType DEF SurvivesOperator
    <2>2. CASE Instruction(mem[<<pif, pc>>])
      <3>1. mem[<<pif, pc>>] \in Word
        BY <1>1 DEF TypeOK, Cell
      <3>2. TypeOK' /\ UserModeSealed'
        BY <1>1, <2>2, <3>1, InstructionType, InstructionKeepsSeal
      <3>3. BufferedRegistersAgree => BufferedRegistersAgree'
        BY <1>1, <2>2, InstructionKeepsFields
      <3>4. RequestImpliesFlag => RequestImpliesFlag'
        BY <2>2, InstructionKeepsRequests
      <3> QED
        BY <1>1, <1>3, <3>2, <3>3, <3>4 DEF SurvivesOperator
    <2>3. CASE tty_process
      <3>1. UNCHANGED <<pif, mmu>>
        BY <2>3 DEF tty_process, PrintStage, Type, BesideCpu
      <3>2. UserModeSealed' /\ (BufferedRegistersAgree => BufferedRegistersAgree')
        BY <1>1, <3>1 DEF mmu, UserModeSealed, BufferedRegistersAgree
      <3>3. RequestImpliesFlag => RequestImpliesFlag'
        BY <2>3, ServiceKeepsRequests
      <3> QED
        BY <1>1, <1>3, <2>3, <3>2, <3>3, TerminalServiceType DEF SurvivesOperator
    <2>4. CASE Break \/ UNCHANGED vars
      BY <1>1, <1>3, <2>4 DEF Break, BesideCpu, vars, TypeOK, TtyTypeOK, acc, mmu, tty,
            SurvivesOperator, UserModeSealed, BufferedRegistersAgree, RequestImpliesFlag
    <2> QED
      BY <2>1, <2>2, <2>3, <2>4 DEF cpu_process
  <1>5. ConsoleTypeOK' /\ df' \in Field
    <2>1. TypeOK' => ConsoleTypeOK'
      BY MachineTypes DEF ConsoleTypeOK, TypeOK, TtyTypeOK, Field, Word
    <2> QED
      BY <1>4, <2>1 DEF TypeOK
  <1> QED
    BY <1>2, <1>3, <1>4, <1>5 DEF ConsoleInv, CoreOK

LEMMA NextConsoleInv == ConsoleInv /\ [ConsoleNext]_consoleVars => ConsoleInv'
  <1> SUFFICES ASSUME ConsoleInv, [ConsoleNext]_consoleVars PROVE ConsoleInv'
    OBVIOUS
  <1>0. run \in {"R", "H", "I"} /\ stored \in Nat /\ (at # "prompt" => df \in Field)
    BY DEF ConsoleInv, ConsoleTypeOK
  <1>1. ASSUME NEW one \in BOOLEAN, Start(one)
        PROVE  ConsoleInv'
    <2>1. mem' = mem
      BY <1>1, PrintedSpares DEF Start
    <2>2. UNCHANGED <<Machine, core, meddled, stored>> /\ run' = "R" /\ df \in Field
      BY <1>1, <2>1 DEF Start, Machine, location, tty
    <2> QED
      BY <1>0, <2>2, SameMachine
  <1>2. ASSUME NEW cell \in Cells, Examine(cell)
        PROVE  ConsoleInv'
    <2>1. mem' = mem
      BY <1>2, PrintedSpares DEF Examine
    <2>2. UNCHANGED <<Machine, core, meddled, stored, run, at>>
      BY <1>2, <2>1 DEF Examine, Machine, location, tty
    <2> QED
      BY <1>0, <2>2, SameMachine
  <1>3. CASE ToggleTrace
    <2>1. UNCHANGED <<Machine, core, meddled, stored, run, at>>
      BY <1>3 DEF ToggleTrace, vars, Machine, location
    <2> QED
      BY <1>0, <2>1, SameMachine
  <1>4. CASE DepositSome
    BY <1>4, DepositKeeps
  <1>5. CASE Save \/ Restore \/ StartRestored
    BY <1>5, SaveKeeps, RestoreKeeps, StartRestoredKeeps
  <1>6. CASE Interrupted \/ ServeTty \/ Execute
    <2>1. /\ cpu_process \/ tty_process \/ Break \/ UNCHANGED vars
          /\ UNCHANGED <<core, meddled, stored>> /\ at # "prompt"
      BY <1>6 DEF Interrupted, ServeTty, Execute, bounds
    <2> QED
      BY <2>1, MachineStepKeeps
  <1>7. CASE Trace
    <2>1. mem' = mem /\ at # "prompt"
      BY <1>7, PrintedSpares DEF Trace
    <2>2. UNCHANGED <<Machine, core, meddled, stored, run>>
      BY <1>7, <2>1 DEF Trace, bounds, Machine, location, tty
    <2> QED
      BY <1>0, <2>1, <2>2, SameMachine
  <1>8. CASE UNCHANGED consoleVars
    <2>1. UNCHANGED <<Machine, core, meddled, stored, run, at>>
      BY <1>8 DEF consoleVars, vars, bounds, Machine, location
    <2> QED
      BY <1>0, <2>1, SameMachine
  <1> QED
    BY <1>1, <1>2, <1>3, <1>4, <1>5, <1>6, <1>7, <1>8 DEF ConsoleNext

LEMMA ConsoleInvAlways == ConsoleSpec => []ConsoleInv
  BY InitConsoleInv, NextConsoleInv, PTL DEF ConsoleSpec

-----------------------------------------------------------------------------
(* Registers, memory and terminal keep their widths under every command,   *)
(* whatever a deposit or a core file brings, and the one register that can *)
(* come to hold what the processor cannot use is DF, by a deposit of a     *)
(* value that is no field.                                                 *)
THEOREM ConsoleTypes == ConsoleSpec => []ConsoleTypeOK
  <1>1. ConsoleInv => ConsoleTypeOK
    BY DEF ConsoleInv
  <1> QED
    BY <1>1, ConsoleInvAlways, PTL

(* No command lets a user mode program out; the fields and the requests    *)
(* are wrong only when the operator has moved the PC to another field, or  *)
(* has touched flags or requests.                                          *)
THEOREM OperatorSurvived == ConsoleSpec => []SurvivesOperator
  <1>1. ConsoleInv => SurvivesOperator
    BY DEF ConsoleInv
  <1> QED
    BY <1>1, ConsoleInvAlways, PTL

(* What is restored is the machine that was saved, in every register and   *)
(* word, when what the file does not hold is as it was.                    *)
THEOREM RestoresTheWhole == ConsoleSpec => RestoredWhole
  <1>1. ASSUME ConsoleInv, Restore, Unsaved = core.unsaved
        PROVE  Machine' = core.machine
    <2>1. core.machine = Whole(core.saved, Unsaved)
      BY <1>1 DEF ConsoleInv, CoreOK, Restore
    <2>2. UNCHANGED <<ib, sf, intr_inhibit, uf, ub>> /\ UNCHANGED tty
      BY <1>1 DEF Restore, Unsaved, Kept, flags, tty
    <2> QED
      BY <1>1, <2>1, <2>2 DEF Restore, Load, Machine, Whole, Unsaved, Kept, flags,
                              location, acc, mmu, tty
  <1>2. ConsoleInv /\ [ConsoleNext]_consoleVars
          => [Restore /\ Unsaved = core.unsaved => Machine' = core.machine]_consoleVars
    BY <1>1
  <1>3. ConsoleSpec
          => [][Restore /\ Unsaved = core.unsaved => Machine' = core.machine]_consoleVars
    BY <1>2, ConsoleInvAlways, PTL DEF ConsoleSpec
  <1> QED
    BY <1>3 DEF RestoredWhole

(* examine, step, trace and the line that deposit prints step no autoindex *)
(* register, whatever word is looked at and wherever it is: a deposit      *)
(* changes the word it names, and the rest is instructions and core files. *)
THEOREM ExamineIsHarmless == ConsoleSpec => ExamineSpares
  <1> DEFINE Changed == \/ Execute \/ Restore \/ StartRestored
                        \/ stored' > stored
                           /\ \E cell \in Cells, word \in Words :
                                mem' = [mem EXCEPT ![cell] = word]
  <1>1. ASSUME stored \in Nat, ConsoleNext, mem' # mem
        PROVE  Changed
    <2>1. ~ Start(TRUE) /\ ~ Start(FALSE) /\ ~ Trace /\ \A cell \in Cells : ~ Examine(cell)
      BY <1>1, PrintedSpares DEF Start, Examine, Trace
    <2>2. ~ ToggleTrace /\ ~ Save /\ ~ Interrupted
      BY <1>1 DEF ToggleTrace, Save, Interrupted, Break, BesideCpu, vars
    <2>3. ~ ServeTty
      BY <1>1 DEF ServeTty, tty_process, PrintStage, Type, BesideCpu, vars
    <2>4. ASSUME DepositSome
          PROVE  Changed
      <3>1. PICK cell \in Cells, word \in Words : DepositWord(cell, word)
        BY <1>1, <2>4 DEF DepositSome, DepositAC, DepositMQ, DepositSR, DepositDF, DepositIF,
                          DepositPC, DepositFlags
      <3>2. stored' = stored + 1
        BY <3>1 DEF DepositWord
      <3>3. stored' > stored
        BY <1>1, <3>2
      <3>4. mem' = [mem EXCEPT ![cell] = word]
        BY <3>1, PrintedSpares DEF DepositWord
      <3> QED
        BY <3>3, <3>4
    <2> QED
      BY <1>1, <2>1, <2>2, <2>3, <2>4 DEF ConsoleNext
  <1>2. ConsoleInv /\ [ConsoleNext]_consoleVars => [mem' # mem => Changed]_consoleVars
    BY <1>1 DEF ConsoleInv
  <1>3. ConsoleSpec => [][mem' # mem => Changed]_consoleVars
    BY <1>2, ConsoleInvAlways, PTL DEF ConsoleSpec
  <1> QED
    BY <1>3 DEF ExamineSpares

-----------------------------------------------------------------------------
(* The names: of each instruction but the operate group there is one, and  *)
(* what it means is one action of Cpu.                                     *)
LEMMA NamedActions ==
  ASSUME NEW w
  PROVE  /\ IotMeans("SKON", w) <=> SKON(w)
         /\ IotMeans("ION", w) <=> ION(w)
         /\ IotMeans("IOF", w) <=> IOF(w)
         /\ IotMeans("SRQ", w) <=> SRQ(w)
         /\ IotMeans("GTF", w) <=> GTF(w)
         /\ IotMeans("RTF", w) <=> RTF(w)
         /\ IotMeans("CAF", w) <=> CAF(w)
         /\ IotMeans("KCF", w) <=> KCF(w)
         /\ IotMeans("KSF", w) <=> KSF(w)
         /\ IotMeans("KCC", w) <=> KCC(w)
         /\ IotMeans("KRS", w) <=> KRS(w)
         /\ IotMeans("KIE", w) <=> KIE(w)
         /\ IotMeans("KRB", w) <=> KRB(w)
         /\ IotMeans("TFL", w) <=> TFL(w)
         /\ IotMeans("TSF", w) <=> TSF(w)
         /\ IotMeans("TCF", w) <=> TCF(w)
         /\ IotMeans("TPC", w) <=> TPC(w)
         /\ IotMeans("TSK", w) <=> TSK(w)
         /\ IotMeans("TLS", w) <=> TLS(w)
         /\ IotMeans("CDF", w) <=> (CDF_CIF(w) /\ UNCHANGED ib)
         /\ IotMeans("CIF", w) <=> (CDF_CIF(w) /\ UNCHANGED df)
         /\ IotMeans("CDI", w) <=> (CDF_CIF(w) /\ ib' = df')
         /\ IotMeans("CINT", w) <=> CINT(w)
         /\ IotMeans("RDF", w) <=> RDF(w)
         /\ IotMeans("RIF", w) <=> RIF(w)
         /\ IotMeans("RIB", w) <=> RIB(w)
         /\ IotMeans("RMF", w) <=> RMF(w)
         /\ IotMeans("SINT", w) <=> SINT(w)
         /\ IotMeans("CUF", w) <=> (CUF_SUF(w) /\ ub' = 0)
         /\ IotMeans("SUF", w) <=> (CUF_SUF(w) /\ ub' = 1)
         /\ \A name \in {"SGT", "illegal", "IOT Device"} : IotMeans(name, w) <=> IotNop(w)
  BY DEF IotMeans


(* In executive mode each device has its instructions, and no other.       *)
LEMMA IotFamily ==
  ASSUME NEW w, Opcode(w) = 6, uf = 0, Instruction(w)
  PROVE  IotNop(w) \/ InterruptControl(w) \/ Terminal(w) \/ MemoryManagement(w)
  <1>1. ~ MemoryReference(w)
    BY DEF MemoryReference, AND, TAD, ISZ, DCA, JMS, JMP
  <1>2. ~ IotTrap(w) /\ ~ Operate(w)
    BY DEF IotTrap, Operate, OPR1, OPR2, OPR3, GroupOne, GroupTwo, GroupThree
  <1> QED
    BY <1>1, <1>2 DEF Instruction

LEMMA FamilyDevice ==
  ASSUME NEW w
  PROVE  /\ InterruptControl(w) => Device(w) = 0 /\ IotOp(w) \in {0, 1, 2, 3, 4, 5, 7}
         /\ Terminal(w) => Device(w) \in {3, 4} /\ IotOp(w) \in {0, 1, 2, 4, 5, 6}
         /\ MemoryManagement(w) => Device(w) \in \o20..\o27 /\ IotOp(w) \in 1..4
         /\ IotNop(w) => ~ Implemented(w)
  <1>1. InterruptControl(w) => Device(w) = 0 /\ IotOp(w) \in {0, 1, 2, 3, 4, 5, 7}
    BY DEF InterruptControl, SKON, ION, IOF, SRQ, GTF, RTF, CAF, Iot
  <1>2. Terminal(w) => Device(w) \in {3, 4} /\ IotOp(w) \in {0, 1, 2, 4, 5, 6}
    BY DEF Terminal, KCF, KSF, KCC, KRS, KIE, KRB, TFL, TSF, TCF, TPC, TSK, TLS, Iot
  <1>3. MemoryManagement(w) => Device(w) \in \o20..\o27 /\ IotOp(w) \in 1..4
    <2>1. CDF_CIF(w) => Device(w) \in \o20..\o27 /\ \E op \in 1..3 : IotOp(w) = op
      BY DEF CDF_CIF, Mmu
    <2>2. CINT(w) \/ RDF(w) \/ RIF(w) \/ RIB(w) \/ RMF(w) \/ SINT(w) \/ CUF_SUF(w)
            => Device(w) \in \o20..\o27 /\ IotOp(w) = 4
      BY DEF CINT, RDF, RIF, RIB, RMF, SINT, CUF_SUF, MmuRead, Mmu
    <2> QED
      BY <2>1, <2>2 DEF MemoryManagement
  <1> QED
    BY <1>1, <1>2, <1>3 DEF IotNop

LEMMA InterruptControlMeans ==
  ASSUME NEW w, Opcode(w) = 6, uf = 0, Instruction(w), Device(w) = 0, IotOp(w) \in 0..7
  PROVE  IotMeans(IotName(w)[1], w)
  <1>1. IotName(w) = <<InterruptNames[IotOp(w) + 1]>>
    BY DEF IotName
  <1>2. ~ Terminal(w) /\ ~ MemoryManagement(w)
    BY FamilyDevice
  <1>3. CASE IotOp(w) = 6
    <2>1. IotName(w)[1] = "SGT"
      BY <1>1, <1>3 DEF InterruptNames
    <2>2. IotNop(w)
      BY <1>2, <1>3, IotFamily, FamilyDevice
    <2> QED
      BY <2>1, <2>2, NamedActions
  <1>4. CASE IotOp(w) # 6
    <2>1. InterruptControl(w)
      BY <1>2, <1>4, IotFamily DEF IotNop, Implemented
    <2>2. /\ IotOp(w) = 0 => SKON(w)
          /\ IotOp(w) = 1 => ION(w)
          /\ IotOp(w) = 2 => IOF(w)
          /\ IotOp(w) = 3 => SRQ(w)
          /\ IotOp(w) = 4 => GTF(w)
          /\ IotOp(w) = 5 => RTF(w)
          /\ IotOp(w) = 7 => CAF(w)
      <3>1. /\ SKON(w) => IotOp(w) = 0
            /\ ION(w) => IotOp(w) = 1
            /\ IOF(w) => IotOp(w) = 2
            /\ SRQ(w) => IotOp(w) = 3
            /\ GTF(w) => IotOp(w) = 4
            /\ RTF(w) => IotOp(w) = 5
            /\ CAF(w) => IotOp(w) = 7
        BY DEF SKON, ION, IOF, SRQ, GTF, RTF, CAF, Iot
      <3>2. SKON(w) \/ ION(w) \/ IOF(w) \/ SRQ(w) \/ GTF(w) \/ RTF(w) \/ CAF(w)
        BY <2>1 DEF InterruptControl
      <3> QED
        BY <3>1, <3>2
    <2>3. IotOp(w) \in {0, 1, 2, 3, 4, 5, 7}
      BY <2>1, FamilyDevice
    <2>4. /\ IotOp(w) = 0 => IotName(w)[1] = "SKON"
          /\ IotOp(w) = 1 => IotName(w)[1] = "ION"
          /\ IotOp(w) = 2 => IotName(w)[1] = "IOF"
          /\ IotOp(w) = 3 => IotName(w)[1] = "SRQ"
          /\ IotOp(w) = 4 => IotName(w)[1] = "GTF"
          /\ IotOp(w) = 5 => IotName(w)[1] = "RTF"
          /\ IotOp(w) = 7 => IotName(w)[1] = "CAF"
      BY <1>1 DEF InterruptNames
    <2> QED
      BY <2>2, <2>3, <2>4, NamedActions
  <1> QED
    BY <1>3, <1>4

LEMMA TerminalMeans ==
  ASSUME NEW w, Opcode(w) = 6, uf = 0, Instruction(w), Device(w) \in {3, 4}, IotOp(w) \in 0..7
  PROVE  IotMeans(IotName(w)[1], w)
  <1>1. IotName(w) = IF Device(w) = 3 THEN KeyboardName(IotOp(w)) ELSE PrinterName(IotOp(w))
    <2>1. CASE Device(w) = 3
      BY <2>1 DEF IotName
    <2>2. CASE Device(w) = 4
      BY <2>2 DEF IotName
    <2> QED
      BY <2>1, <2>2
  <1>2. ~ InterruptControl(w) /\ ~ MemoryManagement(w)
    BY FamilyDevice
  <1>3. CASE IotOp(w) \in {3, 7}
    <2>1. IotName(w)[1] = "illegal"
      BY <1>1, <1>3 DEF KeyboardName, PrinterName, Illegal
    <2>2. IotNop(w)
      BY <1>2, <1>3, IotFamily, FamilyDevice
    <2> QED
      BY <2>1, <2>2, NamedActions
  <1>4. CASE IotOp(w) \notin {3, 7}
    <2>1. Terminal(w)
      BY <1>2, <1>4, IotFamily DEF IotNop, Implemented
    <2>2. IotOp(w) \in {0, 1, 2, 4, 5, 6}
      BY <2>1, FamilyDevice
    <2>3. /\ KCF(w) => Device(w) = 3 /\ IotOp(w) = 0
          /\ KSF(w) => Device(w) = 3 /\ IotOp(w) = 1
          /\ KCC(w) => Device(w) = 3 /\ IotOp(w) = 2
          /\ KRS(w) => Device(w) = 3 /\ IotOp(w) = 4
          /\ KIE(w) => Device(w) = 3 /\ IotOp(w) = 5
          /\ KRB(w) => Device(w) = 3 /\ IotOp(w) = 6
          /\ TFL(w) => Device(w) = 4 /\ IotOp(w) = 0
          /\ TSF(w) => Device(w) = 4 /\ IotOp(w) = 1
          /\ TCF(w) => Device(w) = 4 /\ IotOp(w) = 2
          /\ TPC(w) => Device(w) = 4 /\ IotOp(w) = 4
          /\ TSK(w) => Device(w) = 4 /\ IotOp(w) = 5
          /\ TLS(w) => Device(w) = 4 /\ IotOp(w) = 6
      BY DEF KCF, KSF, KCC, KRS, KIE, KRB, TFL, TSF, TCF, TPC, TSK, TLS, Iot
    <2>4. CASE Device(w) = 3
      <3>1. /\ IotOp(w) = 0 => IotName(w)[1] = "KCF"
            /\ IotOp(w) = 1 => IotName(w)[1] = "KSF"
            /\ IotOp(w) = 2 => IotName(w)[1] = "KCC"
            /\ IotOp(w) = 4 => IotName(w)[1] = "KRS"
            /\ IotOp(w) = 5 => IotName(w)[1] = "KIE"
            /\ IotOp(w) = 6 => IotName(w)[1] = "KRB"
        BY <1>1, <2>4 DEF KeyboardName
      <3>2. KCF(w) \/ KSF(w) \/ KCC(w) \/ KRS(w) \/ KIE(w) \/ KRB(w)
        BY <2>1, <2>3, <2>4 DEF Terminal
      <3> QED
        BY <2>3, <3>1, <3>2, NamedActions
    <2>5. CASE Device(w) = 4
      <3>1. /\ IotOp(w) = 0 => IotName(w)[1] = "TFL"
            /\ IotOp(w) = 1 => IotName(w)[1] = "TSF"
            /\ IotOp(w) = 2 => IotName(w)[1] = "TCF"
            /\ IotOp(w) = 4 => IotName(w)[1] = "TPC"
            /\ IotOp(w) = 5 => IotName(w)[1] = "TSK"
            /\ IotOp(w) = 6 => IotName(w)[1] = "TLS"
        BY <1>1, <2>5 DEF PrinterName
      <3>2. TFL(w) \/ TSF(w) \/ TCF(w) \/ TPC(w) \/ TSK(w) \/ TLS(w)
        BY <2>1, <2>3, <2>5 DEF Terminal
      <3> QED
        BY <2>3, <3>1, <3>2, NamedActions
    <2> QED
      BY <2>4, <2>5
  <1> QED
    BY <1>3, <1>4


LEMMA MemoryManagementMeans ==
  ASSUME NEW w \in Word, Opcode(w) = 6, uf = 0, Instruction(w),
         Device(w) \in \o20..\o27, IotOp(w) \in 0..7
  PROVE  IotMeans(IotName(w)[1], w)
  <1>1. IotName(w) = MmuName(w)
    <2>1. Device(w) # 0 /\ Device(w) # 3 /\ Device(w) # 4
      OBVIOUS
    <2> QED
      BY <2>1 DEF IotName
  <1>2. ~ InterruptControl(w) /\ ~ Terminal(w)
    BY FamilyDevice
  <1>3. FieldOf(w) \in 0..7
    BY DEF FieldOf, Word
  <1>4. CASE IotOp(w) \in {0, 5, 6, 7}
    <2>1. IotName(w)[1] = "illegal"
      BY <1>1, <1>4 DEF MmuName, Illegal
    <2>2. IotNop(w)
      BY <1>2, <1>4, IotFamily, FamilyDevice
    <2> QED
      BY <2>1, <2>2, NamedActions
  <1>5. ASSUME IotOp(w) \in 1..4
        PROVE  MemoryManagement(w)
    BY <1>2, <1>5, IotFamily DEF IotNop, Implemented
  <1>6. CASE IotOp(w) \in 1..3
    <2>1. CDF_CIF(w)
      <3>1. CINT(w) \/ RDF(w) \/ RIF(w) \/ RIB(w) \/ RMF(w) \/ SINT(w) \/ CUF_SUF(w)
              => IotOp(w) = 4
        BY DEF CINT, RDF, RIF, RIB, RMF, SINT, CUF_SUF, MmuRead, Mmu
      <3> QED
        BY <1>5, <1>6, <3>1 DEF MemoryManagement
    <2>2. /\ Has(w, 1) <=> IotOp(w) \in {1, 3}
          /\ Has(w, 2) <=> IotOp(w) \in {2, 3}
      <3>1. \A n \in Nat : /\ n \div 1 = n
                           /\ n % 8 = 1 => n % 2 = 1 /\ (n \div 2) % 2 = 0
                           /\ n % 8 = 2 => n % 2 = 0 /\ (n \div 2) % 2 = 1
                           /\ n % 8 = 3 => n % 2 = 1 /\ (n \div 2) % 2 = 1
        OBVIOUS
      <3>2. w \in Nat /\ (w % 8 = 1 \/ w % 8 = 2 \/ w % 8 = 3)
        BY <1>6 DEF IotOp, Word
      <3>3. CASE w % 8 = 1
        BY <3>1, <3>2, <3>3 DEF Has, IotOp
      <3>4. CASE w % 8 = 2
        BY <3>1, <3>2, <3>4 DEF Has, IotOp
      <3>5. CASE w % 8 = 3
        BY <3>1, <3>2, <3>5 DEF Has, IotOp
      <3> QED
        BY <3>2, <3>3, <3>4, <3>5
    <2>3. /\ Has(w, 1) => df' = FieldOf(w)
          /\ ~ Has(w, 1) => df' = df
          /\ Has(w, 2) => ib' = FieldOf(w)
          /\ ~ Has(w, 2) => ib' = ib
      BY <2>1 DEF CDF_CIF
    <2>4. /\ IotOp(w) = 1 => IotName(w)[1] = "CDF"
          /\ IotOp(w) = 2 => IotName(w)[1] = "CIF"
          /\ IotOp(w) = 3 => IotName(w)[1] = "CDI"
      BY <1>1 DEF MmuName
    <2>5. /\ IotOp(w) = 1 => UNCHANGED ib
          /\ IotOp(w) = 2 => UNCHANGED df
          /\ IotOp(w) = 3 => ib' = df'
      BY <2>2, <2>3
    <2>6. CASE IotOp(w) = 1
      BY <2>1, <2>4, <2>5, <2>6, NamedActions
    <2>7. CASE IotOp(w) = 2
      BY <2>1, <2>4, <2>5, <2>7, NamedActions
    <2>8. CASE IotOp(w) = 3
      BY <2>1, <2>4, <2>5, <2>8, NamedActions
    <2> QED
      BY <1>6, <2>6, <2>7, <2>8
  <1>7. CASE IotOp(w) = 4
    <2>1. IotName(w)[1] = StatusNames[FieldOf(w) + 1]
      BY <1>1, <1>7 DEF MmuName
    <2>2. ~ CDF_CIF(w)
      BY <1>7 DEF CDF_CIF, Mmu
    <2>3. CINT(w) \/ RDF(w) \/ RIF(w) \/ RIB(w) \/ RMF(w) \/ SINT(w) \/ CUF_SUF(w)
      BY <1>5, <1>7, <2>2 DEF MemoryManagement
    <2>4. /\ CINT(w) => FieldOf(w) = 0
          /\ RDF(w) => FieldOf(w) = 1
          /\ RIF(w) => FieldOf(w) = 2
          /\ RIB(w) => FieldOf(w) = 3
          /\ RMF(w) => FieldOf(w) = 4
          /\ SINT(w) => FieldOf(w) = 5
      BY DEF CINT, RDF, RIF, RIB, RMF, SINT, MmuRead
    <2>5. CUF_SUF(w) => (FieldOf(w) = 6 /\ ub' = 0) \/ (FieldOf(w) = 7 /\ ub' = 1)
      BY DEF CUF_SUF, MmuRead, Bit
    <2>6. /\ FieldOf(w) = 0 => IotName(w)[1] = "CINT"
          /\ FieldOf(w) = 1 => IotName(w)[1] = "RDF"
          /\ FieldOf(w) = 2 => IotName(w)[1] = "RIF"
          /\ FieldOf(w) = 3 => IotName(w)[1] = "RIB"
          /\ FieldOf(w) = 4 => IotName(w)[1] = "RMF"
          /\ FieldOf(w) = 5 => IotName(w)[1] = "SINT"
          /\ FieldOf(w) = 6 => IotName(w)[1] = "CUF"
          /\ FieldOf(w) = 7 => IotName(w)[1] = "SUF"
      BY <2>1 DEF StatusNames
    <2>7. CINT(w) \/ RDF(w) \/ RIF(w) => IotMeans(IotName(w)[1], w)
      BY <2>4, <2>6, NamedActions
    <2>8. RIB(w) \/ RMF(w) \/ SINT(w) => IotMeans(IotName(w)[1], w)
      BY <2>4, <2>6, NamedActions
    <2>9. CUF_SUF(w) => IotMeans(IotName(w)[1], w)
      BY <2>5, <2>6, NamedActions
    <2> QED
      BY <2>3, <2>7, <2>8, <2>9
  <1> QED
    BY <1>4, <1>6, <1>7

LEMMA IotShown ==
  ASSUME NEW w \in Word, Opcode(w) = 6, uf = 0, Instruction(w)
  PROVE  IotMeans(IotName(w)[1], w)
  <1>1. IotOp(w) \in 0..7
    BY DEF IotOp, Word
  <1>2. CASE Device(w) \notin {0, 3, 4} /\ Device(w) \notin \o20..\o27
    <2>1. IotName(w) = <<"IOT Device">> /\ IotName(w)[1] = "IOT Device"
      BY <1>2 DEF IotName
    <2>2. IotNop(w)
      BY <1>2, IotFamily, FamilyDevice
    <2> QED
      BY <2>1, <2>2, NamedActions
  <1> QED
    BY <1>1, <1>2, InterruptControlMeans, TerminalMeans, MemoryManagementMeans

-----------------------------------------------------------------------------
(* operand_addr is one function of the code, called by the processor and   *)
(* by the console: without "examine" it gives, for the next instruction,   *)
(* the address and the memory of the processor's own definitions in Cpu.   *)
THEOREM OneFunction ==
  ASSUME TypeOK, NEW w \in Word, w = mem[<<pif, pc>>]
  PROVE  operand_addr(mem, <<pif, pc>>, FALSE)
           = [addr |-> <<pif, OperandAddr(w)>>, mem |-> Indexed(w)]
  <1> DEFINE here == <<pif, pc>>
  <1>1. here[1] = pif /\ here[2] = pc /\ mem[here] = w
    OBVIOUS
  <1>2. direct_addr(mem, here) = Pointer(w) /\ Pointer(w)[2] = DirectAddr(pc, w)
    BY <1>1 DEF direct_addr, Pointer
  <1>3. Steps(mem, here, FALSE) <=> AutoIndexed(w)
    BY <1>1, <1>2 DEF Steps, AutoIndexed
  <1> DEFINE after == IF Steps(mem, here, FALSE)
                      THEN [mem EXCEPT ![direct_addr(mem, here)] = Inc12(@)] ELSE mem
  <1>4. after = Indexed(w)
    BY <1>2, <1>3 DEF Indexed
  <1>5. operand_addr(mem, here, FALSE)
          = [addr |-> IF Indirect(mem[here])
                      THEN <<here[1], after[direct_addr(mem, here)] % AddrSize>>
                      ELSE direct_addr(mem, here),
             mem |-> after]
    BY DEF operand_addr
  <1> HIDE DEF here, after
  <1>6. CASE Indirect(w)
    BY <1>1, <1>2, <1>4, <1>5, <1>6 DEF OperandAddr, here
  <1>7. CASE ~ Indirect(w)
    BY <1>1, <1>2, <1>4, <1>5, <1>7 DEF OperandAddr, Pointer, here
  <1> QED
    BY <1>6, <1>7

(* A memory reference instruction uses the operand shown, when its pointer *)
(* is not incremented and the fields are the ones the console took.        *)
LEMMA ReferenceShown ==
  ASSUME TypeOK, NEW w \in Word, w = mem[<<pif, pc>>], Opcode(w) < 6, Instruction(w),
         OperandExact(w)
  PROVE  MemoryMeans(MemoryReferenceNames[Opcode(w) + 1],
                     operand_addr(mem, <<pif, pc>>, TRUE).addr)
  <1> DEFINE operand == operand_addr(mem, <<pif, pc>>, TRUE).addr
  <1>1. Opcode(w) # 6 /\ Opcode(w) # 7
    OBVIOUS
  <1>2. MemoryReference(w)
    <2>1. ~ IotTrap(w) /\ ~ IotNop(w) /\ ~ Operate(w)
      BY <1>1 DEF IotTrap, IotNop, Operate, OPR1, OPR2, OPR3, GroupOne, GroupTwo, GroupThree
    <2>2. ~ InterruptControl(w) /\ ~ Terminal(w)
      BY <1>1 DEF InterruptControl, SKON, ION, IOF, SRQ, GTF, RTF, CAF, Iot,
             Terminal, KCF, KSF, KCC, KRS, KIE, KRB, TFL, TSF, TCF, TPC, TSK, TLS
    <2>3. ~ MemoryManagement(w)
      BY <1>1 DEF MemoryManagement, CDF_CIF, CINT, RDF, RIF, RIB, RMF, SINT, CUF_SUF, MmuRead, Mmu
    <2> QED
      BY <2>1, <2>2, <2>3 DEF Instruction
  <1>3. Indexed(w) = mem
    BY DEF OperandExact, Indexed
  <1>4. operand = <<pif, OperandAddr(w)>>
    <2>1. ~ Steps(mem, <<pif, pc>>, TRUE)
      BY DEF Steps
    <2>2. /\ <<pif, pc>>[1] = pif /\ direct_addr(mem, <<pif, pc>>) = <<pif, DirectAddr(pc, w)>>
      BY DEF direct_addr
    <2> QED
      BY <1>3, <2>1, <2>2 DEF operand_addr, OperandAddr, Pointer
  <1>5. Operand(w) \in Cell /\ OperandAddr(w) \in Addr /\ mem \in [Cell -> Word]
    BY OperandRange DEF TypeOK
  <1>6. Opcode(w) < 4 => Operand(w) = operand
    BY <1>4 DEF OperandExact, Operand
  <1>7. Opcode(w) >= 4 => JumpField = pif
    BY DEF OperandExact
  <1>8. operand \in Cell /\ operand[1] = pif /\ operand[2] = OperandAddr(w)
    <2> HIDE DEF operand
    <2> QED
      BY <1>4, <1>5 DEF Cell, TypeOK
  <1>9. /\ Opcode(w) = 0 => MemoryReferenceNames[Opcode(w) + 1] = "AND"
        /\ Opcode(w) = 1 => MemoryReferenceNames[Opcode(w) + 1] = "TAD"
        /\ Opcode(w) = 2 => MemoryReferenceNames[Opcode(w) + 1] = "ISZ"
        /\ Opcode(w) = 3 => MemoryReferenceNames[Opcode(w) + 1] = "DCA"
        /\ Opcode(w) = 4 => MemoryReferenceNames[Opcode(w) + 1] = "JMS"
        /\ Opcode(w) = 5 => MemoryReferenceNames[Opcode(w) + 1] = "JMP"
    BY DEF MemoryReferenceNames
  <1>10. \A skip \in BOOLEAN : Advance(skip) <=> SkipsTo(skip)
    BY DEF Advance, SkipsTo
  <1> SUFFICES MemoryMeans(MemoryReferenceNames[Opcode(w) + 1], operand)
    OBVIOUS
  <1> HIDE DEF operand
  <1>11. /\ MemoryMeans("AND", operand)
              <=> (ac' = AndAC(ac, mem[operand]) /\ SkipsTo(FALSE))
         /\ MemoryMeans("TAD", operand)
              <=> (ac' = (ac + mem[operand]) % \o20000 /\ SkipsTo(FALSE))
         /\ MemoryMeans("ISZ", operand)
              <=> (mem'[operand] = Inc12(mem[operand]) /\ SkipsTo(mem'[operand] = 0))
         /\ MemoryMeans("DCA", operand)
              <=> (mem'[operand] = AC(ac) /\ ac' = OnlyLink(ac) /\ SkipsTo(FALSE))
         /\ MemoryMeans("JMS", operand)
              <=> (/\ mem'[operand] = (pc + 1) % AddrSize
                   /\ pif' = operand[1] /\ pc' = (operand[2] + 1) % AddrSize)
         /\ MemoryMeans("JMP", operand) <=> location' = operand
    BY DEF MemoryMeans
  <1>12. CASE AND(w)
    <2>1. Opcode(w) = 0 /\ Opcode(w) < 4
      BY <1>12 DEF AND
    <2>2. ac' = AndAC(ac, mem[operand]) /\ SkipsTo(FALSE)
      BY <1>3, <1>6, <1>10, <1>12, <2>1 DEF AND
    <2>4. MemoryMeans("AND", operand)
      BY <1>11, <2>2, Zenon
    <2> QED
      BY <1>9, <2>1, <2>4
  <1>13. CASE TAD(w)
    <2>1. Opcode(w) = 1 /\ Opcode(w) < 4
      BY <1>13 DEF TAD
    <2>2. ac' = (ac + mem[operand]) % \o20000
      BY <1>3, <1>6, <1>13, <2>1 DEF TAD
    <2>3. SkipsTo(FALSE)
      BY <1>10, <1>13 DEF TAD
    <2>4. MemoryMeans("TAD", operand)
      BY <2>2, <2>3 DEF MemoryMeans, SkipsTo
    <2> QED
      BY <1>9, <2>1, <2>4
  <1>14. CASE ISZ(w)
    <2>1. Opcode(w) = 2 /\ Opcode(w) < 4
      BY <1>14 DEF ISZ
    <2>2. mem' = [mem EXCEPT ![operand] = Inc12(mem[operand])] /\ Advance(Inc12(mem[operand]) = 0)
      BY <1>3, <1>6, <1>14, <2>1 DEF ISZ
    <2>3. mem'[operand] = Inc12(mem[operand])
      BY <1>5, <1>8, <2>2
    <2>4. SkipsTo(mem'[operand] = 0)
      BY <2>2, <2>3 DEF Advance, SkipsTo
    <2> QED
      BY <1>9, <1>11, <2>1, <2>3, <2>4
  <1>15. CASE DCA(w)
    <2>1. Opcode(w) = 3 /\ Opcode(w) < 4
      BY <1>15 DEF DCA
    <2>2. /\ mem' = [mem EXCEPT ![operand] = AC(ac)]
          /\ SkipsTo(FALSE) /\ ac' = OnlyLink(ac)
      BY <1>3, <1>6, <1>10, <1>15, <2>1 DEF DCA
    <2>3. mem'[operand] = AC(ac)
      BY <1>5, <1>8, <2>2
    <2>4. MemoryMeans("DCA", operand)
      BY <2>2, <2>3 DEF MemoryMeans, SkipsTo
    <2> QED
      BY <1>9, <2>1, <2>4
  <1>16. CASE JMS(w)
    <2>1. /\ mem' = [mem EXCEPT ![operand] = (pc + 1) % AddrSize] /\ Opcode(w) = 4
          /\ pif' = pif /\ pc' = (OperandAddr(w) + 1) % AddrSize
      BY <1>3, <1>4, <1>7, <1>16 DEF JMS
    <2>2. mem'[operand] = (pc + 1) % AddrSize
      BY <1>5, <1>8, <2>1
    <2> QED
      BY <1>8, <1>9, <1>11, <2>1, <2>2
  <1>17. CASE JMP(w)
    <2>1. location' = operand /\ Opcode(w) = 5
      BY <1>4, <1>7, <1>17 DEF JMP, location
    <2> QED
      BY <1>9, <1>11, <2>1
  <1> QED
    BY <1>2, <1>12, <1>13, <1>14, <1>15, <1>16, <1>17 DEF MemoryReference


LEMMA OpcodeIsNumber ==
  ASSUME NEW w \in Word
  PROVE  Opcode(w) < 6 \/ Opcode(w) = 6 \/ Opcode(w) = 7
  <1>1. w \div \o1000 \in 0..7
    BY DEF Word
  <1> QED
    BY <1>1 DEF Opcode

(* In user mode no IOT is carried out. *)
LEMMA UserIot ==
  ASSUME NEW w, Opcode(w) = 6, uf = 1, Instruction(w)
  PROVE  IotTrap(w)
  <1>1. ~ MemoryReference(w) /\ ~ Operate(w) /\ ~ IotNop(w)
    BY DEF MemoryReference, AND, TAD, ISZ, DCA, JMS, JMP, IotNop,
           Operate, OPR1, OPR2, OPR3, GroupOne, GroupTwo, GroupThree
  <1>2. ~ InterruptControl(w)
    BY DEF InterruptControl, SKON, ION, IOF, SRQ, GTF, RTF, CAF, Iot
  <1>3. ~ Terminal(w)
    BY DEF Terminal, KCF, KSF, KCC, KRS, KIE, KRB, TFL, TSF, TCF, TPC, TSK, TLS, Iot
  <1>4. ~ MemoryManagement(w)
    BY DEF MemoryManagement, CDF_CIF, CINT, RDF, RIF, RIB, RMF, SINT, CUF_SUF, MmuRead, Mmu
  <1> QED
    BY <1>1, <1>2, <1>3, <1>4 DEF Instruction

(* An instruction leaves the machine running, or halts it. *)
LEMMA RunAfter ==
  ASSUME NEW w, Instruction(w)
  PROVE  run' = run \/ run' = "H"
  <1>1. MemoryReference(w) => run' = run
    <2>1. (AND(w) => run' = run) /\ (TAD(w) => run' = run) /\ (DCA(w) => run' = run)
      <3>1. AND(w) => run' = run
        BY DEF AND
      <3>2. TAD(w) => run' = run
        BY DEF TAD
      <3>3. DCA(w) => run' = run
        BY DEF DCA
      <3> QED
        BY <3>1, <3>2, <3>3
    <2>2. ISZ(w) => run' = run
      BY DEF ISZ
    <2>3. JMS(w) => run' = run
      BY DEF JMS
    <2>4. JMP(w) => run' = run
      BY DEF JMP
    <2> QED
      BY <2>1, <2>2, <2>3, <2>4 DEF MemoryReference
  <1>2. IotTrap(w) \/ IotNop(w) => run' = run
    BY DEF IotTrap, IotNop, SkipIf
  <1>3. InterruptControl(w) => run' = run
    BY DEF InterruptControl, SKON, ION, IOF, SRQ, GTF, RTF, CAF, SkipIf, SetAC
  <1>4. Terminal(w) => run' = run
    BY DEF Terminal, KCF, KSF, KCC, KRS, KIE, KRB, TFL, TSF, TCF, TPC, TSK, TLS,
           SkipIf, SetAC, ClearKeyboard, SetPrinter
  <1>5. MemoryManagement(w) => run' = run
    BY DEF MemoryManagement, CDF_CIF, CINT, RDF, RIF, RIB, RMF, SINT, CUF_SUF, SkipIf, SetAC
  <1>6. Operate(w) => run' = run \/ run' = "H"
    BY DEF Operate, OPR1, OPR2, OPR3, SetAC
  <1> QED
    BY <1>1, <1>2, <1>3, <1>4, <1>5, <1>6 DEF Instruction

-----------------------------------------------------------------------------
(***************************************************************************)
(* The operate instructions: the names, carried out in the order printed,  *)
(* do what the three groups do to the accumulator, the MQ, the skip and    *)
(* the halt.                                                               *)
(***************************************************************************)

(* No name is longer than the nine of group one, so that the stages of     *)
(* carrying them out can be given one by one.                              *)
LEMMA CarriedOneByOne ==
  ASSUME NEW names, Len(names) \in 0..9, NEW a, NEW m, NEW s
  PROVE  /\ Stages(names, a, m, s)[0] = Doing(a, m, s)
         /\ \A i \in 1..Len(names) :
              Stages(names, a, m, s)[i]
                = Do(Stages(names, a, m, s)[i - 1], Micro(names[i], Swaps(names)))
  <1> DEFINE n == Len(names)
             Then(state, i) == Do(state, Micro(names[i], Swaps(names)))
             s1 == Then(Doing(a, m, s), 1)
             s2 == Then(s1, 2)
             s3 == Then(s2, 3)
             s4 == Then(s3, 4)
             s5 == Then(s4, 5)
             s6 == Then(s5, 6)
             s7 == Then(s6, 7)
             s8 == Then(s7, 8)
             s9 == Then(s8, 9)
             State(i) ==
                       CASE i = 0 -> Doing(a, m, s)
                         [] i = 1 -> s1 [] i = 2 -> s2 [] i = 3 -> s3 [] i = 4 -> s4 [] i = 5 -> s5
                         [] i = 6 -> s6 [] i = 7 -> s7 [] i = 8 -> s8 [] i = 9 -> s9
             all == [i \in 0..n |-> State(i)]
             Is(f) == f = [i \in 0..n |-> IF i = 0 THEN Doing(a, m, s) ELSE Then(f[i - 1], i)]
             after == CHOOSE f : Is(f)
  <1>1. n \in 0..9
    OBVIOUS
  <1>2. Stages(names, a, m, s) = after
    BY DEF Stages
  <1>3. Is(all)
    <2>1. /\ s1 = Then(Doing(a, m, s), 1) /\ s2 = Then(s1, 2) /\ s3 = Then(s2, 3)
          /\ s4 = Then(s3, 4) /\ s5 = Then(s4, 5) /\ s6 = Then(s5, 6)
          /\ s7 = Then(s6, 7) /\ s8 = Then(s7, 8) /\ s9 = Then(s8, 9)
      OBVIOUS
    <2> HIDE DEF s1, s2, s3, s4, s5, s6, s7, s8, s9, Then, n
    <2>2. \A i \in 0..n : State(i) = IF i = 0 THEN Doing(a, m, s) ELSE Then(State(i - 1), i)
      BY <1>1, <2>1
    <2> HIDE DEF State
    <2>3. \A i \in 1..n : all[i - 1] = State(i - 1)
      BY <1>1
    <2> QED
      BY <2>2, <2>3
  <1> HIDE DEF all
  <1>4. Is(after)
    BY <1>3
  <1> HIDE DEF after, n, Then
  <1>5. after[0] = Doing(a, m, s) /\ \A i \in 1..n : after[i] = Then(after[i - 1], i)
    BY <1>1, <1>4
  <1> QED
    BY <1>2, <1>5 DEF n, Then

(* The state of the micro-operations, and what each name of group one does *)
(* to it: what the operator named after the first of them does.            *)
After(a, m, s, r, yes, no) ==
  [ac |-> a, mq |-> m, sr |-> s, run |-> r, met |-> yes, unmet |-> no]

Acc(a, m, s) == After(a, m, s, "R", {}, {})

LEMMA GroupOneEach ==
  ASSUME NEW w \in Word, NEW a \in LinkAC, NEW m, NEW s
  PROVE  /\ Do(Acc(a, m, s), Named(w, \o200, "CLA")) = Acc(CLA(w, a), m, s)
         /\ Do(Acc(a, m, s), Named(w, \o100, "CLL")) = Acc(CLL(w, a), m, s)
         /\ Do(Acc(a, m, s), Named(w, \o40, "CMA")) = Acc(CMA(w, a), m, s)
         /\ Do(Acc(a, m, s), Named(w, \o20, "CML")) = Acc(CML(w, a), m, s)
         /\ Do(Acc(a, m, s), Named(w, 1, "IAC")) = Acc(IAC(w, a), m, s)
         /\ Do(Acc(a, m, s), Named(w, \o10, IF Has(w, 2) THEN "RTR" ELSE "RAR")) = Acc(RAR(w, a), m, s)
         /\ Do(Acc(a, m, s), Named(w, 4, IF Has(w, 2) THEN "RTL" ELSE "RAL")) = Acc(RAL(w, a), m, s)
         /\ Do(Acc(a, m, s), IF Has(w, 2) /\ ~ Has(w, \o10) /\ ~ Has(w, 4) THEN "BSW" ELSE Nothing) = Acc(BSW(w, a), m, s)
         /\ Do(Acc(a, m, s), IF w = \o7000 THEN "NOP" ELSE Nothing) = Acc(a, m, s)
  <1>1. Do(Acc(a, m, s), Named(w, \o200, "CLA")) = Acc(CLA(w, a), m, s)
    BY DEF Do, Acc, After, Named, Nothing, CLA
  <1>2. Do(Acc(a, m, s), Named(w, \o100, "CLL")) = Acc(CLL(w, a), m, s)
    BY DEF Do, Acc, After, Named, Nothing, CLL
  <1>3. Do(Acc(a, m, s), Named(w, \o40, "CMA")) = Acc(CMA(w, a), m, s)
    BY DEF Do, Acc, After, Named, Nothing, CMA
  <1>90. a \in Int /\ 0 <= a /\ a < 2 * \o10000
    BY DEF LinkAC
  <1>91. (a + \o10000) % \o20000 = AC(a) + \o10000 * (1 - Link(a))
    BY <1>90 DEF AC, Link
  <1>4. Do(Acc(a, m, s), Named(w, \o20, "CML")) = Acc(CML(w, a), m, s)
    <2>1. Do(Acc(a, m, s), "CML") = Acc(AC(a) + \o10000 * (1 - Link(a)), m, s)
      BY DEF Do, Acc, After, Nothing
    <2>2. Do(Acc(a, m, s), Nothing) = Acc(a, m, s)
      BY DEF Do, Acc, After, Nothing
    <2> QED
      BY <1>91, <2>1, <2>2 DEF Named, CML
  <1>5. Do(Acc(a, m, s), Named(w, 1, "IAC")) = Acc(IAC(w, a), m, s)
    <2>1. Do(Acc(a, m, s), "IAC") = Acc((a + 1) % \o20000, m, s)
      BY DEF Do, Acc, After, Nothing
    <2>2. Do(Acc(a, m, s), Nothing) = Acc(a, m, s)
      BY DEF Do, Acc, After, Nothing
    <2> QED
      BY <2>1, <2>2 DEF Named, IAC
  <1>6. Do(Acc(a, m, s), Named(w, \o10, IF Has(w, 2) THEN "RTR" ELSE "RAR")) = Acc(RAR(w, a), m, s)
    BY DEF Do, Acc, After, Named, Nothing, RAR
  <1>7. Do(Acc(a, m, s), Named(w, 4, IF Has(w, 2) THEN "RTL" ELSE "RAL")) = Acc(RAL(w, a), m, s)
    BY DEF Do, Acc, After, Named, Nothing, RAL
  <1>8. Do(Acc(a, m, s), IF Has(w, 2) /\ ~ Has(w, \o10) /\ ~ Has(w, 4) THEN "BSW" ELSE Nothing) = Acc(BSW(w, a), m, s)
    BY DEF Do, Acc, After, Named, Nothing, BSW
  <1>9. Do(Acc(a, m, s), IF w = \o7000 THEN "NOP" ELSE Nothing) = Acc(a, m, s)
    BY DEF Do, Acc, After, Named, Nothing
  <1> QED
    BY <1>1, <1>2, <1>3, <1>4, <1>5, <1>6, <1>7, <1>8, <1>9

(* Group one: the names in the order printed do what GroupOneAC does.      *)
LEMMA GroupOneCarried ==
  ASSUME NEW w \in Word, NEW a \in LinkAC, NEW m, NEW s
  PROVE  Carried(GroupOneNames(w), a, m, s) = Acc(GroupOneAC(w, a), m, s)
  <1>0. SUFFICES ASSUME NEW names, names = GroupOneNames(w)
                 PROVE  Carried(names, a, m, s) = Acc(GroupOneAC(w, a), m, s)
    OBVIOUS
  <1> DEFINE a1 == CLA(w, a)
             a2 == CLL(w, a1)
             a3 == CMA(w, a2)
             a4 == CML(w, a3)
             a5 == IAC(w, a4)
             a6 == RAR(w, a5)
             a7 == RAL(w, a6)
             a8 == BSW(w, a7)
  <1>1. /\ Len(names) = 9
        /\ names[1] = Named(w, \o200, "CLA") /\ names[2] = Named(w, \o100, "CLL")
        /\ names[3] = Named(w, \o40, "CMA") /\ names[4] = Named(w, \o20, "CML")
        /\ names[5] = Named(w, 1, "IAC")
        /\ names[6] = Named(w, \o10, IF Has(w, 2) THEN "RTR" ELSE "RAR")
        /\ names[7] = Named(w, 4, IF Has(w, 2) THEN "RTL" ELSE "RAL")
        /\ names[8] = IF Has(w, 2) /\ ~ Has(w, \o10) /\ ~ Has(w, 4) THEN "BSW" ELSE Nothing
        /\ names[9] = IF w = \o7000 THEN "NOP" ELSE Nothing
        /\ DOMAIN names = 1..9
    BY <1>0 DEF GroupOneNames
  <1>2. \A i \in 1..9 : names[i] # "MQA"
    <2>1. names[1] # "MQA" /\ names[2] # "MQA" /\ names[3] # "MQA" /\ names[4] # "MQA"
      BY <1>1 DEF Named, Nothing
    <2>2. names[5] # "MQA" /\ names[6] # "MQA" /\ names[7] # "MQA" /\ names[8] # "MQA"
      BY <1>1 DEF Named, Nothing
    <2>3. names[9] = IF w = \o7000 THEN "NOP" ELSE Nothing
      BY <1>1
    <2>4. Nothing # "MQA"
      BY DEF Nothing
    <2>5. names[9] # "MQA"
      BY <2>3, <2>4
    <2> QED
      BY <2>1, <2>2, <2>4, <2>5
  <1>3. \A i \in 1..9 : Micro(names[i], Swaps(names)) = names[i]
    BY <1>1, <1>2 DEF Micro, Swaps, Range
  <1> DEFINE after == Stages(names, a, m, s)
  <1>4. /\ after[0] = Doing(a, m, s)
        /\ \A i \in 1..9 : after[i] = Do(after[i - 1], names[i])
        /\ Carried(names, a, m, s) = after[9]
    <2>1. Len(names) \in 0..9
      BY <1>1
    <2>2. /\ after[0] = Doing(a, m, s)
          /\ \A i \in 1..Len(names) : after[i] = Do(after[i - 1], Micro(names[i], Swaps(names)))
      BY ONLY <2>1, CarriedOneByOne
    <2>3. Carried(names, a, m, s) = after[Len(names)]
      BY DEF Carried
    <2> QED
      BY <1>1, <1>3, <2>2, <2>3
  <1> HIDE DEF after
  <1>5. after[0] = Acc(a, m, s)
    BY <1>4 DEF Doing, Acc, After
  <1>15. /\ a1 \in LinkAC /\ a2 \in LinkAC /\ a3 \in LinkAC /\ a4 \in LinkAC
         /\ a5 \in LinkAC /\ a6 \in LinkAC /\ a7 \in LinkAC /\ a8 \in LinkAC
    BY ClearRange, ComplementRange, RotateRange, ByteSwapRange DEF RAR, RAL
  <1> HIDE DEF a1, a2, a3, a4, a5, a6, a7, a8
  <1>6. after[1] = Acc(a1, m, s)
    BY <1>1, <1>4, <1>5, <1>15, GroupOneEach DEF a1
  <1>7. after[2] = Acc(a2, m, s)
    BY <1>1, <1>4, <1>6, <1>15, GroupOneEach DEF a2
  <1>8. after[3] = Acc(a3, m, s)
    BY <1>1, <1>4, <1>7, <1>15, GroupOneEach DEF a3
  <1>9. after[4] = Acc(a4, m, s)
    BY <1>1, <1>4, <1>8, <1>15, GroupOneEach DEF a4
  <1>10. after[5] = Acc(a5, m, s)
    BY <1>1, <1>4, <1>9, <1>15, GroupOneEach DEF a5
  <1>11. after[6] = Acc(a6, m, s)
    BY <1>1, <1>4, <1>10, <1>15, GroupOneEach DEF a6
  <1>12. after[7] = Acc(a7, m, s)
    BY <1>1, <1>4, <1>11, <1>15, GroupOneEach DEF a7
  <1>13. after[8] = Acc(a8, m, s)
    BY <1>1, <1>4, <1>12, <1>15, GroupOneEach DEF a8
  <1>14. after[9] = Acc(a8, m, s)
    BY <1>1, <1>4, <1>13, <1>15, GroupOneEach
  <1> QED
    BY <1>4, <1>14 DEF GroupOneAC, a1, a2, a3, a4, a5, a6, a7, a8

(* Group three: with both its bits set the two names are one.               *)
LEMMA GroupThreeCarried ==
  ASSUME NEW w \in Word, NEW a \in LinkAC, NEW m \in Word, NEW s
  PROVE  Carried(GroupThreeNames(w), a, m, s)
           = After(GroupThreeAC(w, a, m), GroupThreeMQ(w, a, m), s, "R", {}, {})
  <1>0. SUFFICES ASSUME NEW names, names = GroupThreeNames(w)
                 PROVE  Carried(names, a, m, s)
                          = After(GroupThreeAC(w, a, m), GroupThreeMQ(w, a, m), s, "R", {}, {})
    OBVIOUS
  <1> DEFINE swaps == Swaps(names)
             c == CLA(w, a)
  <1>1. /\ Len(names) = 3 /\ Len(names) \in 0..9 /\ DOMAIN names = 1..3
        /\ names[1] = Named(w, \o200, "CLA") /\ names[2] = Named(w, \o100, "MQA")
        /\ names[3] = Named(w, \o20, "MQL")
    BY <1>0 DEF GroupThreeNames
  <1>2. swaps <=> Has(w, \o100) /\ Has(w, \o20)
    <2>1. names[1] # "MQA" /\ names[3] # "MQA" /\ (names[2] = "MQA" <=> Has(w, \o100))
      BY <1>1 DEF Named, Nothing
    <2>2. names[1] # "MQL" /\ names[2] # "MQL" /\ (names[3] = "MQL" <=> Has(w, \o20))
      BY <1>1 DEF Named, Nothing
    <2>3. \A name : name \in Range(names) <=> name = names[1] \/ name = names[2] \/ name = names[3]
      BY <1>1 DEF Range
    <2> QED
      BY <2>1, <2>2, <2>3 DEF Swaps
  <1> DEFINE after == Stages(names, a, m, s)
  <1>3. /\ after[0] = Doing(a, m, s)
        /\ \A i \in 1..3 : after[i] = Do(after[i - 1], Micro(names[i], swaps))
        /\ Carried(names, a, m, s) = after[3]
    <2>1. Len(names) \in 0..9
      BY <1>1
    <2>2. /\ after[0] = Doing(a, m, s)
          /\ \A i \in 1..Len(names) : after[i] = Do(after[i - 1], Micro(names[i], Swaps(names)))
      BY ONLY <2>1, CarriedOneByOne
    <2>3. Carried(names, a, m, s) = after[Len(names)]
      BY DEF Carried
    <2> QED
      BY <1>1, <2>2, <2>3
  <1> HIDE DEF after
  <1> HIDE DEF swaps
  <1>4. /\ Micro(names[1], swaps) = Named(w, \o200, "CLA")
        /\ Micro(names[2], swaps) = IF Has(w, \o100) /\ ~ Has(w, \o20) THEN "MQA" ELSE Nothing
        /\ Micro(names[3], swaps) = IF ~ Has(w, \o20) THEN Nothing
                                    ELSE IF Has(w, \o100) THEN "SWP" ELSE "MQL"
    BY <1>1, <1>2 DEF Micro, Named, Nothing
  <1>5. after[0] = Acc(a, m, s)
    BY <1>3 DEF Doing, Acc, After
  <1>6. after[1] = Acc(c, m, s)
    BY <1>3, <1>4, <1>5, GroupOneEach
  <1> HIDE DEF c
  <1>7. /\ Do(Acc(c, m, s), "MQA") = Acc(OrAC(c, m), m, s)
        /\ Do(Acc(c, m, s), "MQL") = Acc(OnlyLink(c), AC(c), s)
        /\ Do(Acc(c, m, s), "SWP") = Acc(OnlyLink(c) + m, AC(c), s)
        /\ \A b : Do(Acc(b, m, s), Nothing) = Acc(b, m, s)
    <2>1. Do(Acc(c, m, s), "MQA") = Acc(OrAC(c, m), m, s)
      BY DEF Do, Acc, After, Nothing
    <2>2. Do(Acc(c, m, s), "MQL") = Acc(OnlyLink(c), AC(c), s)
      BY DEF Do, Acc, After, Nothing
    <2>3. Do(Acc(c, m, s), "SWP") = Acc(OnlyLink(c) + m, AC(c), s)
      BY DEF Do, Acc, After, Nothing
    <2>4. \A b : Do(Acc(b, m, s), Nothing) = Acc(b, m, s)
      BY DEF Do, Acc, After, Nothing
    <2> QED
      BY <2>1, <2>2, <2>3, <2>4
  <1>8. after[2] = Do(Acc(c, m, s), Micro(names[2], swaps)) /\ after[3] = Do(after[2], Micro(names[3], swaps))
    BY <1>3, <1>6
  <1>9. after[3] = Acc(GroupThreeAC(w, a, m), GroupThreeMQ(w, a, m), s)
    <2>1. CASE Has(w, \o100) /\ Has(w, \o20)
      BY <1>4, <1>7, <1>8, <2>1 DEF GroupThreeAC, GroupThreeMQ, c
    <2>2. CASE Has(w, \o100) /\ ~ Has(w, \o20)
      BY <1>4, <1>7, <1>8, <2>2 DEF GroupThreeAC, GroupThreeMQ, c
    <2>3. CASE ~ Has(w, \o100) /\ Has(w, \o20)
      BY <1>4, <1>7, <1>8, <2>3 DEF GroupThreeAC, GroupThreeMQ, c
    <2>4. CASE ~ Has(w, \o100) /\ ~ Has(w, \o20)
      BY <1>4, <1>7, <1>8, <2>4 DEF GroupThreeAC, GroupThreeMQ, c
    <2> QED
      BY <2>1, <2>2, <2>3, <2>4
  <1> QED
    BY <1>3, <1>9 DEF Acc

(* Group two: a test is met or not, when its bit is set; it moves nothing.  *)
LEMMA MinusIs ==
  ASSUME NEW a \in LinkAC
  PROVE  (Minus(a) <=> AC(a) >= \o4000) /\ (~ Minus(a) <=> AC(a) < \o4000)
  <1>1. Minus(a) <=> AC(a) >= \o4000
    <2> DEFINE half == a \div \o4000
    <2>1. a \in Int /\ 0 <= a /\ a < 2 * \o10000
      BY DEF LinkAC
    <2>2. half \in {0, 1, 2, 3} /\ half * \o4000 <= a /\ a < half * \o4000 + \o4000
      BY <2>1
    <2>3. AC(a) = IF half \in {0, 1} THEN a ELSE a - \o10000
      BY <2>1, <2>2 DEF AC
    <2>4. Minus(a) <=> half % 2 = 1
      BY DEF Minus, Has
    <2> HIDE DEF half
    <2>5. half % 2 = 1 <=> half \in {1, 3}
      BY <2>2
    <2> QED
      BY <2>1, <2>2, <2>3, <2>4, <2>5
  <1> QED
    BY <1>1 DEF AC, LinkAC

(* The names of tests, and one more.                                       *)
With(names, name) == names \cup {name}

(* SPA and SMA: the test named is met or not, when its bit is set.         *)
LEMMA SignEach ==
  ASSUME NEW w, NEW a \in LinkAC, NEW m, NEW s, NEW yes, NEW no
  PROVE  /\ Has(w, \o100) /\ Minus(a) =>
              Do(After(a, m, s, "R", yes, no), Named(w, \o100, "SMA")) = After(a, m, s, "R", With(yes, "SMA"), no)
         /\ Has(w, \o100) /\ ~ Minus(a) =>
              Do(After(a, m, s, "R", yes, no), Named(w, \o100, "SMA")) = After(a, m, s, "R", yes, With(no, "SMA"))
         /\ Has(w, \o100) /\ ~ Minus(a) =>
              Do(After(a, m, s, "R", yes, no), Named(w, \o100, "SPA")) = After(a, m, s, "R", With(yes, "SPA"), no)
         /\ Has(w, \o100) /\ Minus(a) =>
              Do(After(a, m, s, "R", yes, no), Named(w, \o100, "SPA")) = After(a, m, s, "R", yes, With(no, "SPA"))
  <1>1. Has(w, \o100) /\ Minus(a) =>
          Do(After(a, m, s, "R", yes, no), Named(w, \o100, "SMA")) = After(a, m, s, "R", With(yes, "SMA"), no)
    BY MinusIs DEF Do, After, Named, Nothing, With
  <1>2. Has(w, \o100) /\ ~ Minus(a) =>
          Do(After(a, m, s, "R", yes, no), Named(w, \o100, "SMA")) = After(a, m, s, "R", yes, With(no, "SMA"))
    BY MinusIs DEF Do, After, Named, Nothing, With
  <1>3. Has(w, \o100) /\ ~ Minus(a) =>
          Do(After(a, m, s, "R", yes, no), Named(w, \o100, "SPA")) = After(a, m, s, "R", With(yes, "SPA"), no)
    BY MinusIs DEF Do, After, Named, Nothing, With
  <1>4. Has(w, \o100) /\ Minus(a) =>
          Do(After(a, m, s, "R", yes, no), Named(w, \o100, "SPA")) = After(a, m, s, "R", yes, With(no, "SPA"))
    BY MinusIs DEF Do, After, Named, Nothing, With
  <1> QED
    BY <1>1, <1>2, <1>3, <1>4

(* The names of group two that are no tests.                               *)
LEMMA OtherEach ==
  ASSUME NEW a, NEW m, NEW s, NEW yes, NEW no
  PROVE  /\ Do(After(a, m, s, "R", yes, no), "CLA") = After(OnlyLink(a), m, s, "R", yes, no)
         /\ Do(After(a, m, s, "R", yes, no), "OSR") = After(OrAC(a, s), m, s, "R", yes, no)
         /\ Do(After(a, m, s, "R", yes, no), "HLT") = After(a, m, s, "H", yes, no)
         /\ Do(After(a, m, s, "R", yes, no), Nothing) = After(a, m, s, "R", yes, no)
  <1>1. Do(After(a, m, s, "R", yes, no), "CLA") = After(OnlyLink(a), m, s, "R", yes, no)
    BY DEF Do, After, Nothing
  <1>2. Do(After(a, m, s, "R", yes, no), "OSR") = After(OrAC(a, s), m, s, "R", yes, no)
    BY DEF Do, After, Nothing
  <1>3. Do(After(a, m, s, "R", yes, no), "HLT") = After(a, m, s, "H", yes, no)
    BY DEF Do, After, Nothing
  <1>4. Do(After(a, m, s, "R", yes, no), Nothing) = After(a, m, s, "R", yes, no)
    BY DEF Do, After, Nothing
  <1> QED
    BY <1>1, <1>2, <1>3, <1>4

(* What is carried out of a list of names without MQA.                     *)
LEMMA CarriedPlainly ==
  ASSUME NEW names, NEW n \in 0..9, Len(names) = n, DOMAIN names = 1..n,
         \A i \in 1..n : names[i] # "MQA", NEW a, NEW m, NEW s
  PROVE  \E after : /\ after[0] = After(a, m, s, "R", {}, {})
                    /\ \A i \in 1..n : after[i] = Do(after[i - 1], names[i])
                    /\ Carried(names, a, m, s) = after[n]
  <1>1. \A i \in 1..n : Micro(names[i], Swaps(names)) = names[i]
    BY DEF Micro, Swaps, Range
  <1>2. Len(names) \in 0..9
    OBVIOUS
  <1> DEFINE after == Stages(names, a, m, s)
  <1>3. /\ after[0] = Doing(a, m, s)
        /\ \A i \in 1..Len(names) : after[i] = Do(after[i - 1], Micro(names[i], Swaps(names)))
    BY ONLY <1>2, CarriedOneByOne
  <1>5. Carried(names, a, m, s) = after[Len(names)]
    BY DEF Carried
  <1> HIDE DEF after
  <1>4. Doing(a, m, s) = After(a, m, s, "R", {}, {})
    BY DEF Doing, After
  <1> QED
    BY <1>1, <1>3, <1>4, <1>5

(* Group two, with OSR and HLT or, when they trap, without them.           *)
LEMMA OrGroupCarried ==
  ASSUME NEW w \in Word, NEW a \in LinkAC, NEW m, NEW s, NEW names,
         Len(names) = 6, DOMAIN names = 1..6,
         names[1] = Named(w, \o100, "SMA"),
         names[2] = Named(w, \o40, "SZA"),
         names[3] = Named(w, \o20, "SNL"),
         names[4] = Named(w, \o200, "CLA"),
         names[5] \in {"OSR", Nothing}, names[6] \in {"HLT", Nothing}
  PROVE  LET result == Carried(names, a, m, s)
         IN /\ result.ac = IF names[5] = "OSR" THEN OrAC(CLA(w, a), s) ELSE CLA(w, a)
            /\ result.mq = m
            /\ result.run = IF names[6] = "HLT" THEN "H" ELSE "R"
            /\ Skips(result) <=> OrGroupSkips(w, a)
  <1> DEFINE yes0 == {}
             no0 == {}
             yes1 == IF Has(w, \o100) /\ Minus(a) THEN With(yes0, "SMA") ELSE yes0
             no1 == IF Has(w, \o100) /\ ~ Minus(a) THEN With(no0, "SMA") ELSE no0
             yes2 == IF Has(w, \o40) /\ Zero(a) THEN With(yes1, "SZA") ELSE yes1
             no2 == IF Has(w, \o40) /\ ~ Zero(a) THEN With(no1, "SZA") ELSE no1
             yes3 == IF Has(w, \o20) /\ Link(a) = 1 THEN With(yes2, "SNL") ELSE yes2
             no3 == IF Has(w, \o20) /\ Link(a) # 1 THEN With(no2, "SNL") ELSE no2
             c == CLA(w, a)
             d == IF names[5] = "OSR" THEN OrAC(c, s) ELSE c
             r == IF names[6] = "HLT" THEN "H" ELSE "R"
  <1>1. \A i \in 1..6 : names[i] # "MQA"
    <2>1. names[1] # "MQA" /\ names[2] # "MQA" /\ names[3] # "MQA" /\ names[4] # "MQA"
      BY DEF Named, Nothing
    <2>2. names[5] # "MQA" /\ names[6] # "MQA"
      BY DEF Nothing
    <2> QED
      BY <2>1, <2>2
  <1>2. PICK after : /\ after[0] = After(a, m, s, "R", yes0, no0)
                     /\ \A i \in 1..6 : after[i] = Do(after[i - 1], names[i])
                     /\ Carried(names, a, m, s) = after[6]
    <2>1. 6 \in 0..9
      OBVIOUS
    <2> QED
      BY <1>1, <2>1, CarriedPlainly
  <1> HIDE DEF yes0, no0, yes1, no1, yes2, no2, yes3, no3, c, d, r
  <1>3. after[1] = After(a, m, s, "R", yes1, no1)
    <2>1. after[1] = Do(After(a, m, s, "R", yes0, no0), Named(w, \o100, "SMA"))
      BY <1>2
    <2>2. Has(w, \o100) /\ Minus(a) =>
            Do(After(a, m, s, "R", yes0, no0), Named(w, \o100, "SMA")) = After(a, m, s, "R", With(yes0, "SMA"), no0)
      BY SignEach
    <2>3. Has(w, \o100) /\ ~ Minus(a) =>
            Do(After(a, m, s, "R", yes0, no0), Named(w, \o100, "SMA")) = After(a, m, s, "R", yes0, With(no0, "SMA"))
      BY SignEach
    <2>4. ~ Has(w, \o100) =>
            Do(After(a, m, s, "R", yes0, no0), Named(w, \o100, "SMA")) = After(a, m, s, "R", yes0, no0)
      BY DEF Do, After, Named, Nothing, With
    <2> QED
      BY <2>1, <2>2, <2>3, <2>4 DEF yes1, no1
  <1>4. after[2] = After(a, m, s, "R", yes2, no2)
    <2>1. after[2] = Do(After(a, m, s, "R", yes1, no1), Named(w, \o40, "SZA"))
      BY <1>2, <1>3
    <2>2. Has(w, \o40) /\ Zero(a) =>
            Do(After(a, m, s, "R", yes1, no1), Named(w, \o40, "SZA")) = After(a, m, s, "R", With(yes1, "SZA"), no1)
      BY DEF Do, After, Named, Nothing, With, Zero
    <2>3. Has(w, \o40) /\ ~ Zero(a) =>
            Do(After(a, m, s, "R", yes1, no1), Named(w, \o40, "SZA")) = After(a, m, s, "R", yes1, With(no1, "SZA"))
      BY DEF Do, After, Named, Nothing, With, Zero
    <2>4. ~ Has(w, \o40) =>
            Do(After(a, m, s, "R", yes1, no1), Named(w, \o40, "SZA")) = After(a, m, s, "R", yes1, no1)
      BY DEF Do, After, Named, Nothing, With, Zero
    <2> QED
      BY <2>1, <2>2, <2>3, <2>4 DEF yes2, no2
  <1>5. after[3] = After(a, m, s, "R", yes3, no3)
    <2>1. after[3] = Do(After(a, m, s, "R", yes2, no2), Named(w, \o20, "SNL"))
      BY <1>2, <1>4
    <2>2. Has(w, \o20) /\ Link(a) = 1 =>
            Do(After(a, m, s, "R", yes2, no2), Named(w, \o20, "SNL")) = After(a, m, s, "R", With(yes2, "SNL"), no2)
      BY DEF Do, After, Named, Nothing, With
    <2>3. Has(w, \o20) /\ Link(a) # 1 =>
            Do(After(a, m, s, "R", yes2, no2), Named(w, \o20, "SNL")) = After(a, m, s, "R", yes2, With(no2, "SNL"))
      BY DEF Do, After, Named, Nothing, With
    <2>4. ~ Has(w, \o20) =>
            Do(After(a, m, s, "R", yes2, no2), Named(w, \o20, "SNL")) = After(a, m, s, "R", yes2, no2)
      BY DEF Do, After, Named, Nothing, With
    <2> QED
      BY <2>1, <2>2, <2>3, <2>4 DEF yes3, no3
  <1>6. after[4] = After(c, m, s, "R", yes3, no3)
    BY <1>2, <1>5, OtherEach DEF Named, CLA, c
  <1>7. after[5] = After(d, m, s, "R", yes3, no3)
    <2>1. "OSR" # Nothing
      BY DEF Nothing
    <2> QED
      BY <1>2, <1>6, <2>1, OtherEach DEF d
  <1>8. after[6] = After(d, m, s, r, yes3, no3)
    <2>1. "HLT" # Nothing
      BY DEF Nothing
    <2> QED
      BY <1>2, <1>7, <2>1, OtherEach DEF r
  <1>9. Skips(After(d, m, s, r, yes3, no3)) <=> OrGroupSkips(w, a)
    BY DEF Skips, After, OrGroupSkips, With, yes0, yes1, yes2, yes3, no0, no1, no2, no3
  <1>10. /\ after[6].ac = d /\ after[6].mq = m /\ after[6].run = r
    BY <1>8 DEF After
  <1> QED
    BY <1>2, <1>8, <1>9, <1>10 DEF c, d, r

(* The other half of group two: all the tests named must be met, and SKP   *)
(* is one that always is.                                                  *)
LEMMA AndGroupCarried ==
  ASSUME NEW w \in Word, NEW a \in LinkAC, NEW m, NEW s, NEW names,
         Len(names) = 7, DOMAIN names = 1..7,
         names[1] = Named(w, \o100, "SPA"),
         names[2] = Named(w, \o40, "SNA"),
         names[3] = Named(w, \o20, "SZL"),
         names[4] = Named(w, \o200, "CLA"),
         names[5] = IF (w \div \o20) % 8 = 0 THEN "SKP" ELSE Nothing,
         names[6] \in {"OSR", Nothing}, names[7] \in {"HLT", Nothing}
  PROVE  LET result == Carried(names, a, m, s)
         IN /\ result.ac = IF names[6] = "OSR" THEN OrAC(CLA(w, a), s) ELSE CLA(w, a)
            /\ result.mq = m
            /\ result.run = IF names[7] = "HLT" THEN "H" ELSE "R"
            /\ Skips(result) <=> AndGroupSkips(w, a)
  <1> DEFINE yes0 == {}
             no0 == {}
             yes1 == IF Has(w, \o100) /\ ~ Minus(a) THEN With(yes0, "SPA") ELSE yes0
             no1 == IF Has(w, \o100) /\ Minus(a) THEN With(no0, "SPA") ELSE no0
             yes2 == IF Has(w, \o40) /\ ~ Zero(a) THEN With(yes1, "SNA") ELSE yes1
             no2 == IF Has(w, \o40) /\ Zero(a) THEN With(no1, "SNA") ELSE no1
             yes3 == IF Has(w, \o20) /\ Link(a) = 0 THEN With(yes2, "SZL") ELSE yes2
             no3 == IF Has(w, \o20) /\ Link(a) # 0 THEN With(no2, "SZL") ELSE no2
             yes5 == IF (w \div \o20) % 8 = 0 THEN With(yes3, "SKP") ELSE yes3
             c == CLA(w, a)
             d == IF names[6] = "OSR" THEN OrAC(c, s) ELSE c
             r == IF names[7] = "HLT" THEN "H" ELSE "R"
  <1>1. \A i \in 1..7 : names[i] # "MQA"
    <2>1. names[1] # "MQA" /\ names[2] # "MQA" /\ names[3] # "MQA" /\ names[4] # "MQA"
      BY DEF Named, Nothing
    <2>3. Nothing # "MQA"
      BY DEF Nothing
    <2>4. names[5] # "MQA"
      BY <2>3
    <2>2. names[6] # "MQA" /\ names[7] # "MQA"
      BY DEF Nothing
    <2> QED
      BY <2>1, <2>2, <2>4
  <1>2. PICK after : /\ after[0] = After(a, m, s, "R", yes0, no0)
                     /\ \A i \in 1..7 : after[i] = Do(after[i - 1], names[i])
                     /\ Carried(names, a, m, s) = after[7]
    <2>1. 7 \in 0..9
      OBVIOUS
    <2> QED
      BY <1>1, <2>1, CarriedPlainly
  <1> HIDE DEF yes0, no0, yes1, no1, yes2, no2, yes3, no3, yes5, c, d, r
  <1>3. after[1] = After(a, m, s, "R", yes1, no1)
    <2>1. after[1] = Do(After(a, m, s, "R", yes0, no0), Named(w, \o100, "SPA"))
      BY <1>2
    <2>2. Has(w, \o100) /\ ~ Minus(a) =>
            Do(After(a, m, s, "R", yes0, no0), Named(w, \o100, "SPA")) = After(a, m, s, "R", With(yes0, "SPA"), no0)
      BY SignEach
    <2>3. Has(w, \o100) /\ Minus(a) =>
            Do(After(a, m, s, "R", yes0, no0), Named(w, \o100, "SPA")) = After(a, m, s, "R", yes0, With(no0, "SPA"))
      BY SignEach
    <2>4. ~ Has(w, \o100) =>
            Do(After(a, m, s, "R", yes0, no0), Named(w, \o100, "SPA")) = After(a, m, s, "R", yes0, no0)
      BY DEF Do, After, Named, Nothing, With
    <2> QED
      BY <2>1, <2>2, <2>3, <2>4 DEF yes1, no1
  <1>4. after[2] = After(a, m, s, "R", yes2, no2)
    <2>1. after[2] = Do(After(a, m, s, "R", yes1, no1), Named(w, \o40, "SNA"))
      BY <1>2, <1>3
    <2>2. Has(w, \o40) /\ ~ Zero(a) =>
            Do(After(a, m, s, "R", yes1, no1), Named(w, \o40, "SNA")) = After(a, m, s, "R", With(yes1, "SNA"), no1)
      BY DEF Do, After, Named, Nothing, With, Zero
    <2>3. Has(w, \o40) /\ Zero(a) =>
            Do(After(a, m, s, "R", yes1, no1), Named(w, \o40, "SNA")) = After(a, m, s, "R", yes1, With(no1, "SNA"))
      BY DEF Do, After, Named, Nothing, With, Zero
    <2>4. ~ Has(w, \o40) =>
            Do(After(a, m, s, "R", yes1, no1), Named(w, \o40, "SNA")) = After(a, m, s, "R", yes1, no1)
      BY DEF Do, After, Named, Nothing, With, Zero
    <2> QED
      BY <2>1, <2>2, <2>3, <2>4 DEF yes2, no2
  <1>5. after[3] = After(a, m, s, "R", yes3, no3)
    <2>1. after[3] = Do(After(a, m, s, "R", yes2, no2), Named(w, \o20, "SZL"))
      BY <1>2, <1>4
    <2>2. Has(w, \o20) /\ Link(a) = 0 =>
            Do(After(a, m, s, "R", yes2, no2), Named(w, \o20, "SZL")) = After(a, m, s, "R", With(yes2, "SZL"), no2)
      BY DEF Do, After, Named, Nothing, With
    <2>3. Has(w, \o20) /\ Link(a) # 0 =>
            Do(After(a, m, s, "R", yes2, no2), Named(w, \o20, "SZL")) = After(a, m, s, "R", yes2, With(no2, "SZL"))
      BY DEF Do, After, Named, Nothing, With
    <2>4. ~ Has(w, \o20) =>
            Do(After(a, m, s, "R", yes2, no2), Named(w, \o20, "SZL")) = After(a, m, s, "R", yes2, no2)
      BY DEF Do, After, Named, Nothing, With
    <2> QED
      BY <2>1, <2>2, <2>3, <2>4 DEF yes3, no3
  <1>6. after[4] = After(c, m, s, "R", yes3, no3)
    BY <1>2, <1>5, OtherEach DEF Named, CLA, c
  <1>7. after[5] = After(c, m, s, "R", yes5, no3)
    <2>1. c \in LinkAC
      BY ClearRange DEF c
    <2> QED
      <3>1. Do(After(c, m, s, "R", yes3, no3), "SKP") = After(c, m, s, "R", With(yes3, "SKP"), no3)
        BY DEF Do, After, Nothing, With
      <3>2. Do(After(c, m, s, "R", yes3, no3), Nothing) = After(c, m, s, "R", yes3, no3)
        BY OtherEach
      <3> QED
        BY <1>2, <1>6, <3>1, <3>2 DEF yes5
  <1>8. after[6] = After(d, m, s, "R", yes5, no3)
    <2>1. "OSR" # Nothing
      BY DEF Nothing
    <2> QED
      BY <1>2, <1>7, <2>1, OtherEach DEF d
  <1>9. after[7] = After(d, m, s, r, yes5, no3)
    <2>1. "HLT" # Nothing
      BY DEF Nothing
    <2> QED
      BY <1>2, <1>8, <2>1, OtherEach DEF r
  <1>10. (w \div \o20) % 8 = 0 <=> ~ Has(w, \o100) /\ ~ Has(w, \o40) /\ ~ Has(w, \o20)
    <2> DEFINE h == w \div \o20
    <2>1. w \in Int /\ 0 <= w
      BY DEF Word
    <2>2. h \in Int /\ 0 <= h /\ w \div \o40 = h \div 2 /\ w \div \o100 = h \div 4
      BY <2>1
    <2>3. /\ Has(w, \o20) <=> h % 2 = 1
          /\ Has(w, \o40) <=> (h \div 2) % 2 = 1
          /\ Has(w, \o100) <=> (h \div 4) % 2 = 1
      BY <2>2 DEF Has
    <2> HIDE DEF h
    <2>4. h % 8 = 0 <=> h % 2 = 0 /\ (h \div 2) % 2 = 0 /\ (h \div 4) % 2 = 0
      BY <2>2
    <2>5. h % 2 \in {0, 1} /\ (h \div 2) % 2 \in {0, 1} /\ (h \div 4) % 2 \in {0, 1}
      BY <2>2
    <2> QED
      BY <2>3, <2>4, <2>5 DEF h
  <1>11. Skips(After(d, m, s, r, yes5, no3)) <=> AndGroupSkips(w, a)
    <2> DEFINE plain == (w \div \o20) % 8 = 0
               every == {"SPA", "SNA", "SZL"}
               after5 == After(d, m, s, r, yes5, no3)
    <2>1. /\ yes3 \subseteq every /\ no3 \subseteq every
          /\ "SPA" \in yes3 <=> Has(w, \o100) /\ ~ Minus(a)
          /\ "SPA" \in no3 <=> Has(w, \o100) /\ Minus(a)
          /\ "SNA" \in yes3 <=> Has(w, \o40) /\ ~ Zero(a)
          /\ "SNA" \in no3 <=> Has(w, \o40) /\ Zero(a)
          /\ "SZL" \in yes3 <=> Has(w, \o20) /\ Link(a) = 0
          /\ "SZL" \in no3 <=> Has(w, \o20) /\ Link(a) # 0
      BY DEF yes0, yes1, yes2, yes3, no0, no1, no2, no3, With
    <2>2. no3 \cap every = {} <=> AndGroupSkips(w, a)
      BY <2>1 DEF AndGroupSkips
    <2>3. Skips(after5) <=> yes5 \ every # {} \/ (yes5 # {} /\ no3 \cap every = {})
      BY DEF Skips, After
    <2>4. CASE plain
      <3>1. "SKP" \in yes5 \ every
        BY <2>4 DEF yes5, With
      <3>2. AndGroupSkips(w, a)
        BY <1>10, <2>4 DEF AndGroupSkips
      <3> QED
        BY <2>3, <3>1, <3>2
    <2>5. CASE ~ plain
      <3>1. yes5 = yes3
        BY <2>5 DEF yes5
      <3>2. AndGroupSkips(w, a) => yes3 # {}
        BY <1>10, <2>1, <2>5 DEF AndGroupSkips
      <3>3. yes5 \ every = {}
        BY <2>1, <3>1
      <3> QED
        BY <2>2, <2>3, <3>1, <3>2, <3>3
    <2> QED
      BY <2>4, <2>5
  <1>12. /\ after[7].ac = d /\ after[7].mq = m /\ after[7].run = r
    BY <1>9 DEF After
  <1> QED
    BY <1>2, <1>9, <1>11, <1>12 DEF c, d, r

(* The names of an operate instruction, in either mode.                    *)
LEMMA NamesMeanFreely ==
  ASSUME NEW names, uf # 1 \/ {"OSR", "HLT"} \cap Range(names) = {},
         NEW result, result = Carried(names, ac, mq, sr),
         ac' = result.ac, mq' = result.mq, SkipsTo(Skips(result)), run' = result.run,
         intr' = intr
  PROVE  OperateMeans(names)
  BY DEF OperateMeans

(* In user mode OSR and HLT are left out of what is carried out.           *)
LEMMA NamesTrap ==
  ASSUME NEW names, uf = 1, {"OSR", "HLT"} \cap Range(names) # {},
         NEW result,
         result = Carried([i \in DOMAIN names |-> IF names[i] \in {"OSR", "HLT"} THEN Nothing
                                                                                ELSE names[i]],
                          ac, mq, sr),
         ac' = result.ac, mq' = result.mq, SkipsTo(Skips(result)), run' = result.run,
         intr' = intr \cup {"USER"}
  PROVE  OperateMeans(names)
  BY DEF OperateMeans

(* Each group, with its names as they are printed.                         *)
LEMMA GroupOneShown ==
  ASSUME TypeOK, run = "R", NEW w \in Word, OPR1(w)
  PROVE  OperateMeans(Mnemonics(w))
  <1> DEFINE names == GroupOneNames(w)
             result == Carried(names, ac, mq, sr)
  <1>1. Mnemonics(w) = names
    BY DEF OPR1, GroupOne, Mnemonics
  <1>2. ac \in LinkAC
    BY DEF TypeOK
  <1>3. result = Acc(GroupOneAC(w, ac), mq, sr)
    BY <1>2, GroupOneCarried
  <1>4. {"OSR", "HLT"} \cap Range(names) = {}
    <2>1. /\ DOMAIN names = 1..9
          /\ names[1] \notin {"OSR", "HLT"} /\ names[2] \notin {"OSR", "HLT"}
          /\ names[3] \notin {"OSR", "HLT"} /\ names[4] \notin {"OSR", "HLT"}
          /\ names[5] \notin {"OSR", "HLT"} /\ names[6] \notin {"OSR", "HLT"}
          /\ names[7] \notin {"OSR", "HLT"} /\ names[8] \notin {"OSR", "HLT"}
          /\ names[9] \notin {"OSR", "HLT"}
      BY DEF GroupOneNames, Named, Nothing
    <2> HIDE DEF names
    <2> QED
      BY <2>1 DEF Range
  <1>5. /\ result.ac = GroupOneAC(w, ac) /\ result.mq = mq /\ result.run = "R"
        /\ ~ Skips(result)
    BY <1>3 DEF Acc, After, Skips
  <1> HIDE DEF result, names
  <1>6. ac' = GroupOneAC(w, ac) /\ mq' = mq /\ run' = run /\ intr' = intr /\ Advance(FALSE)
    BY DEF OPR1, SetAC
  <1>7. SkipsTo(Skips(result))
    BY <1>5, <1>6 DEF Advance, SkipsTo
  <1> QED
    BY <1>1, <1>4, <1>5, <1>6, <1>7, NamesMeanFreely DEF result

LEMMA GroupThreeShown ==
  ASSUME TypeOK, run = "R", NEW w \in Word, OPR3(w)
  PROVE  OperateMeans(Mnemonics(w))
  <1> DEFINE names == GroupThreeNames(w)
             result == Carried(names, ac, mq, sr)
  <1>1. Mnemonics(w) = names
    BY DEF OPR3, GroupThree, Mnemonics
  <1>2. ac \in LinkAC /\ mq \in Word
    BY DEF TypeOK
  <1>3. result = After(GroupThreeAC(w, ac, mq), GroupThreeMQ(w, ac, mq), sr, "R", {}, {})
    BY <1>2, GroupThreeCarried
  <1>4. {"OSR", "HLT"} \cap Range(names) = {}
    <2>1. /\ DOMAIN names = 1..3
          /\ names[1] \notin {"OSR", "HLT"} /\ names[2] \notin {"OSR", "HLT"}
          /\ names[3] \notin {"OSR", "HLT"}
      BY DEF GroupThreeNames, Named, Nothing
    <2> HIDE DEF names
    <2> QED
      BY <2>1 DEF Range
  <1>5. /\ result.ac = GroupThreeAC(w, ac, mq) /\ result.mq = GroupThreeMQ(w, ac, mq)
        /\ result.run = "R" /\ ~ Skips(result)
    BY <1>3 DEF After, Skips
  <1> HIDE DEF result, names
  <1>6. /\ ac' = GroupThreeAC(w, ac, mq) /\ mq' = GroupThreeMQ(w, ac, mq)
        /\ run' = run /\ intr' = intr /\ Advance(FALSE)
    BY DEF OPR3
  <1>7. SkipsTo(Skips(result))
    BY <1>5, <1>6 DEF Advance, SkipsTo
  <1> QED
    BY <1>1, <1>4, <1>5, <1>6, <1>7, NamesMeanFreely DEF result

(* Group two, with its names, of which some may not be carried out.        *)
GroupTwoResult(result, w, osr, hlt) ==
  /\ result.ac = IF osr THEN OrAC(CLA(w, ac), sr) ELSE CLA(w, ac)
  /\ result.mq = mq
  /\ result.run = IF hlt THEN "H" ELSE "R"
  /\ Skips(result) <=> GroupTwoSkips(w, ac)

LEMMA GroupTwoCarried ==
  ASSUME TypeOK, NEW w \in Word, NEW osr \in {"OSR", Nothing}, NEW hlt \in {"HLT", Nothing},
         NEW n \in {6, 7}, n = (IF Has(w, \o10) THEN 7 ELSE 6),
         NEW names, Len(names) = n, DOMAIN names = 1..n,
         \A i \in 1..(n - 2) : names[i] = GroupTwoNames(w)[i],
         names[n - 1] = osr, names[n] = hlt
  PROVE  GroupTwoResult(Carried(names, ac, mq, sr), w, osr = "OSR", hlt = "HLT")
  <1>1. ac \in LinkAC
    BY DEF TypeOK
  <1>2. CASE Has(w, \o10)
    <2>1. /\ Len(names) = 7 /\ DOMAIN names = 1..7 /\ n = 7
          /\ names[6] = osr /\ names[7] = hlt
      BY <1>2
    <2>2. /\ names[1] = Named(w, \o100, "SPA") /\ names[2] = Named(w, \o40, "SNA")
          /\ names[3] = Named(w, \o20, "SZL") /\ names[4] = Named(w, \o200, "CLA")
          /\ names[5] = IF (w \div \o20) % 8 = 0 THEN "SKP" ELSE Nothing
      BY <1>2, <2>1 DEF GroupTwoNames
    <2>3. LET result == Carried(names, ac, mq, sr)
          IN /\ result.ac = IF names[6] = "OSR" THEN OrAC(CLA(w, ac), sr) ELSE CLA(w, ac)
             /\ result.mq = mq
             /\ result.run = IF names[7] = "HLT" THEN "H" ELSE "R"
             /\ Skips(result) <=> AndGroupSkips(w, ac)
      BY <1>1, <2>1, <2>2, AndGroupCarried
    <2> QED
      BY <1>2, <2>1, <2>3 DEF GroupTwoResult, GroupTwoSkips
  <1>3. CASE ~ Has(w, \o10)
    <2>1. /\ Len(names) = 6 /\ DOMAIN names = 1..6 /\ n = 6
          /\ names[5] = osr /\ names[6] = hlt
      BY <1>3
    <2>2. /\ names[1] = Named(w, \o100, "SMA") /\ names[2] = Named(w, \o40, "SZA")
          /\ names[3] = Named(w, \o20, "SNL") /\ names[4] = Named(w, \o200, "CLA")
      BY <1>3, <2>1 DEF GroupTwoNames
    <2>3. LET result == Carried(names, ac, mq, sr)
          IN /\ result.ac = IF names[5] = "OSR" THEN OrAC(CLA(w, ac), sr) ELSE CLA(w, ac)
             /\ result.mq = mq
             /\ result.run = IF names[6] = "HLT" THEN "H" ELSE "R"
             /\ Skips(result) <=> OrGroupSkips(w, ac)
      BY <1>1, <2>1, <2>2, OrGroupCarried
    <2> QED
      BY <1>3, <2>1, <2>3 DEF GroupTwoResult, GroupTwoSkips
  <1> QED
    BY <1>2, <1>3

LEMMA GroupTwoShown ==
  ASSUME TypeOK, run = "R", NEW w \in Word, OPR2(w)
  PROVE  OperateMeans(Mnemonics(w))
  <1> DEFINE names == GroupTwoNames(w)
             n == IF Has(w, \o10) THEN 7 ELSE 6
             osr == Named(w, 4, "OSR")
             hlt == Named(w, 2, "HLT")
             allowed == [i \in DOMAIN names |-> IF names[i] \in {"OSR", "HLT"} THEN Nothing
                                                                              ELSE names[i]]
  <1>1. Mnemonics(w) = names
    BY DEF OPR2, GroupTwo, Mnemonics
  <1>2. /\ Len(names) = n /\ DOMAIN names = 1..n /\ n \in {6, 7}
        /\ names[n - 1] = osr /\ names[n] = hlt
        /\ osr \in {"OSR", Nothing} /\ hlt \in {"HLT", Nothing}
        /\ osr = "OSR" <=> Has(w, 4)
        /\ hlt = "HLT" <=> Has(w, 2)
    <2> HIDE DEF osr, hlt
    <2>1. Has(w, \o10) => /\ Len(names) = 7 /\ DOMAIN names = 1..7
                          /\ names[6] = osr /\ names[7] = hlt
      BY DEF GroupTwoNames, osr, hlt
    <2>2. ~ Has(w, \o10) => /\ Len(names) = 6 /\ DOMAIN names = 1..6
                            /\ names[5] = osr /\ names[6] = hlt
      BY DEF GroupTwoNames, osr, hlt
    <2>3. /\ osr \in {"OSR", Nothing} /\ hlt \in {"HLT", Nothing}
          /\ osr = "OSR" <=> Has(w, 4)
          /\ hlt = "HLT" <=> Has(w, 2)
      BY DEF Named, Nothing, osr, hlt
    <2> HIDE DEF names
    <2>4. n \in {6, 7} /\ (Has(w, \o10) => n = 7) /\ (~ Has(w, \o10) => n = 6)
      OBVIOUS
    <2> HIDE DEF n
    <2>5. Len(names) = n /\ DOMAIN names = 1..n /\ names[n - 1] = osr /\ names[n] = hlt
      <3>1. CASE Has(w, \o10)
        <4>1. n = 7 /\ n - 1 = 6
          BY <2>4, <3>1
        <4> QED
          BY <2>1, <3>1, <4>1
      <3>2. CASE ~ Has(w, \o10)
        <4>1. n = 6 /\ n - 1 = 5
          BY <2>4, <3>2
        <4> QED
          BY <2>2, <3>2, <4>1
      <3> QED
        BY <3>1, <3>2
    <2> QED
      BY <2>3, <2>4, <2>5
  <1>3. \A i \in 1..(n - 2) : names[i] \notin {"OSR", "HLT"}
    <2>1. Has(w, \o10) => /\ names[1] \notin {"OSR", "HLT"} /\ names[2] \notin {"OSR", "HLT"}
                          /\ names[3] \notin {"OSR", "HLT"} /\ names[4] \notin {"OSR", "HLT"}
                          /\ names[5] \notin {"OSR", "HLT"}
      BY DEF GroupTwoNames, Named, Nothing
    <2>2. ~ Has(w, \o10) => /\ names[1] \notin {"OSR", "HLT"} /\ names[2] \notin {"OSR", "HLT"}
                            /\ names[3] \notin {"OSR", "HLT"} /\ names[4] \notin {"OSR", "HLT"}
      BY DEF GroupTwoNames, Named, Nothing
    <2> HIDE DEF names
    <2> QED
      BY <2>1, <2>2
  <1> HIDE DEF names, osr, hlt
  <1>4. {"OSR", "HLT"} \cap Range(names) # {} <=> Privileged(w)
    <2>1. \A name : name \in Range(names) <=> \E i \in 1..n : name = names[i]
      BY <1>2 DEF Range
    <2>2. \A i \in 1..n : i \in 1..(n - 2) \/ i = n - 1 \/ i = n
      BY <1>2
    <2>3. "OSR" # "HLT" /\ "OSR" # Nothing /\ "HLT" # Nothing
      BY DEF Nothing
    <2>4. n - 1 \in 1..n /\ n \in 1..n
      BY <1>2
    <2> HIDE DEF n
    <2>5. "OSR" \in Range(names) <=> Has(w, 4)
      BY <1>2, <1>3, <2>1, <2>2, <2>3, <2>4
    <2>6. "HLT" \in Range(names) <=> Has(w, 2)
      BY <1>2, <1>3, <2>1, <2>2, <2>3, <2>4
    <2> QED
      BY <2>5, <2>6 DEF Privileged
  <1>5. /\ Advance(GroupTwoSkips(w, ac)) /\ mq' = mq
        /\ IF uf = 1 /\ Privileged(w)
           THEN ac' = CLA(w, ac) /\ intr' = intr \cup {"USER"} /\ run' = run
           ELSE /\ ac' = IF Has(w, 4) THEN OrAC(CLA(w, ac), sr) ELSE CLA(w, ac)
                /\ intr' = intr /\ run' = IF Has(w, 2) THEN "H" ELSE run
    BY DEF OPR2
  <1>6. CASE uf = 1 /\ Privileged(w)
    <2> DEFINE result == Carried(allowed, ac, mq, sr)
    <2>1. DOMAIN allowed = 1..n /\ Len(allowed) = n
      BY <1>2
    <2>2. allowed[n - 1] = Nothing /\ allowed[n] = Nothing
      BY <1>2, <2>1
    <2>3. \A i \in 1..(n - 2) : allowed[i] = GroupTwoNames(w)[i]
      BY <1>2, <1>3 DEF names
    <2> HIDE DEF allowed
    <2>4. GroupTwoResult(result, w, Nothing = "OSR", Nothing = "HLT")
      BY <1>2, <2>1, <2>2, <2>3, GroupTwoCarried
    <2>5. /\ result.ac = CLA(w, ac) /\ result.mq = mq /\ result.run = "R"
          /\ Skips(result) <=> GroupTwoSkips(w, ac)
      BY <2>4 DEF GroupTwoResult, Nothing
    <2> HIDE DEF result
    <2>6. SkipsTo(Skips(result))
      BY <1>5, <2>5 DEF Advance, SkipsTo
    <2> QED
      BY <1>1, <1>4, <1>5, <1>6, <2>5, <2>6, NamesTrap DEF result, allowed
  <1>7. CASE ~ (uf = 1 /\ Privileged(w))
    <2> DEFINE result == Carried(names, ac, mq, sr)
    <2>1. \A i \in 1..(n - 2) : names[i] = GroupTwoNames(w)[i]
      BY DEF names
    <2>2. GroupTwoResult(result, w, osr = "OSR", hlt = "HLT")
      BY <1>2, <2>1, GroupTwoCarried
    <2>3. /\ result.ac = IF Has(w, 4) THEN OrAC(CLA(w, ac), sr) ELSE CLA(w, ac)
          /\ result.mq = mq /\ result.run = IF Has(w, 2) THEN "H" ELSE "R"
          /\ Skips(result) <=> GroupTwoSkips(w, ac)
      BY <1>2, <2>2 DEF GroupTwoResult
    <2> HIDE DEF result
    <2>4. SkipsTo(Skips(result))
      BY <1>5, <2>3 DEF Advance, SkipsTo
    <2>5. uf # 1 \/ {"OSR", "HLT"} \cap Range(names) = {}
      BY <1>4, <1>7
    <2> QED
      BY <1>1, <1>5, <1>7, <2>3, <2>4, <2>5, NamesMeanFreely DEF result
  <1> QED
    BY <1>6, <1>7

LEMMA OperateShown ==
  ASSUME TypeOK, run = "R", NEW w \in Word, Opcode(w) = 7, Instruction(w)
  PROVE  OperateMeans(Mnemonics(w))
  <1>1. ~ MemoryReference(w) /\ ~ IotTrap(w) /\ ~ IotNop(w)
    BY DEF MemoryReference, AND, TAD, ISZ, DCA, JMS, JMP, IotTrap, IotNop
  <1>2. ~ InterruptControl(w)
    BY DEF InterruptControl, SKON, ION, IOF, SRQ, GTF, RTF, CAF, Iot
  <1>3. ~ Terminal(w)
    BY DEF Terminal, KCF, KSF, KCC, KRS, KIE, KRB, TFL, TSF, TCF, TPC, TSK, TLS, Iot
  <1>4. ~ MemoryManagement(w)
    BY DEF MemoryManagement, CDF_CIF, CINT, RDF, RIF, RIB, RMF, SINT, CUF_SUF, MmuRead, Mmu
  <1>5. OPR1(w) \/ OPR2(w) \/ OPR3(w)
    BY <1>1, <1>2, <1>3, <1>4 DEF Instruction, Operate
  <1> QED
    BY <1>5, GroupOneShown, GroupTwoShown, GroupThreeShown

-----------------------------------------------------------------------------
(* What was printed is of the next instruction, as long as it is shown:    *)
(* the service of the terminal before it moves neither the PC nor memory,  *)
(* and withdraws no request.                                               *)
ShownIsNext ==
  /\ at \in {"prompt", "trace"} => shown = NotShown
  /\ at # "prompt" => /\ run = "R"
                      /\ \/ shown = NotShown
                         \/ shown = [what |-> "interrupt"] /\ InterruptDue
                         \/ shown = print_instruction(mem, <<pif, pc>>)

LEMMA InitShownIsNext == ConsoleInit => ShownIsNext
  BY DEF ConsoleInit, ShownIsNext

LEMMA ServiceSpares ==
  ASSUME tty_process
  PROVE  BesideCpu /\ UNCHANGED run /\ intr \subseteq intr'
  <1>1. CASE PrintStage
    BY <1>1 DEF PrintStage, TtyNoInput, TtyOutput, Raise
  <1>2. ASSUME NEW byte \in Byte, Type(byte)
        PROVE  BesideCpu /\ UNCHANGED run /\ intr \subseteq intr'
    BY <1>2 DEF Type, TtyRead, TtyOutput, Raise
  <1> QED
    BY <1>1, <1>2 DEF tty_process

LEMMA NextShownIsNext ==
  ASSUME ConsoleInv, ShownIsNext, [ConsoleNext]_consoleVars
  PROVE  ShownIsNext'
  <1>0. ASSUME UNCHANGED <<pif, pc, mem>>
        PROVE  print_instruction(mem, <<pif, pc>>)' = print_instruction(mem, <<pif, pc>>)
    BY <1>0 DEF print_instruction, operand_addr, direct_addr, Steps
  <1>1. CASE \E one \in BOOLEAN : Start(one)
    <2>1. PICK one \in BOOLEAN : Start(one)
      BY <1>1
    <2>2. at' = "tty" /\ run' = "R" /\ UNCHANGED <<pif, pc, mem>>
      BY <2>1, PrintedSpares DEF Start, location
    <2>3. shown' = NotShown \/ shown' = print_instruction(mem, <<pif, pc>>)
      BY <2>1 DEF Start, location
    <2> QED
      BY <1>0, <2>2, <2>3 DEF ShownIsNext
  <1>2. CASE \/ \E cell \in Cells : Examine(cell)
             \/ ToggleTrace \/ DepositSome \/ Save \/ Restore \/ StartRestored
    <2>1. at = "prompt" /\ at' = "prompt" /\ shown' = shown
      <3>1. CASE DepositSome
        BY <3>1 DEF DepositSome, DepositAC, DepositMQ, DepositSR, DepositDF, DepositIF,
                    DepositPC, DepositFlags, DepositWord, Deposit, Enter
      <3> QED
        BY <1>2, <3>1 DEF Examine, ToggleTrace, Save, Restore, StartRestored, Enter
    <2> QED
      BY <2>1 DEF ShownIsNext, NotShown
  <1>3. CASE Interrupted
    BY <1>3 DEF Interrupted, ShownIsNext, NotShown
  <1>4. CASE ServeTty
    <2>1. /\ UNCHANGED <<pif, pc, mem, ion, intr_inhibit, run>> /\ intr \subseteq intr'
          /\ at # "prompt" /\ at' = "cpu" /\ shown' = shown
      BY <1>4, ServiceSpares DEF ServeTty, BesideCpu, mmu, vars
    <2>2. InterruptDue => InterruptDue'
      BY <2>1 DEF InterruptDue
    <2> QED
      BY <1>0, <2>1, <2>2 DEF ShownIsNext, NotShown
  <1>5. CASE Execute
    <2>1. /\ at' = "prompt" \/ (at' \in {"tty", "trace"} /\ run' # "H")
          /\ shown' = NotShown
      BY <1>5 DEF Execute
    <2>2. run = "R" /\ run' \in {"R", "H"}
      <3>1. CASE Interrupt
        BY <3>1 DEF Interrupt
      <3>2. CASE Instruction(mem[<<pif, pc>>])
        BY <3>2, ExecutedInstruction, RunAfter DEF Ready
      <3> QED
        BY <1>5, <3>1, <3>2 DEF Execute, cpu_process
    <2> QED
      BY <2>1, <2>2 DEF ShownIsNext, NotShown
  <1>6. CASE Trace
    <2>1. at = "trace" /\ at' = "tty" /\ run' = run /\ run = "R"
      BY <1>6 DEF Trace, ShownIsNext
    <2>2. UNCHANGED <<pif, pc, mem, ion, intr_inhibit, intr>>
      BY <1>6, PrintedSpares DEF Trace, location, mmu
    <2>3. \/ shown' = [what |-> "interrupt"] /\ InterruptDue
          \/ shown' = print_instruction(mem, <<pif, pc>>)
      BY <1>6 DEF Trace, Preview, location
    <2>4. InterruptDue' = InterruptDue
      BY <2>2 DEF InterruptDue
    <2> QED
      BY <1>0, <2>1, <2>2, <2>3, <2>4 DEF ShownIsNext
  <1>7. CASE UNCHANGED consoleVars
    <2>1. UNCHANGED <<pif, pc, mem, ion, intr_inhibit, run, intr, at, shown>>
      BY <1>7 DEF consoleVars, vars, mmu
    <2>2. InterruptDue' = InterruptDue
      BY <2>1 DEF InterruptDue
    <2> QED
      BY <1>0, <2>1, <2>2 DEF ShownIsNext, NotShown
  <1> QED
    BY <1>1, <1>2, <1>3, <1>4, <1>5, <1>6, <1>7 DEF ConsoleNext

(* An interrupt that trace announces is taken next, and an instruction     *)
(* that step or trace shows does what its name says with the operand       *)
(* shown, unless an interrupt comes first: every word of every program, in *)
(* executive and in user mode.                                             *)
THEOREM ShownIsExecuted == ConsoleSpec => ShownHappens
  <1> DEFINE w == mem[<<pif, pc>>]
  <1>1. ASSUME ConsoleInv, ShownIsNext, Execute
        PROVE  ShownTrue
    <2>1. /\ at # "prompt" /\ (Interrupt \/ Instruction(w)) /\ TypeOK
          /\ w \in Word
      BY <1>1, MachineTypes DEF Execute, cpu_process, ConsoleInv, TypeOK, Cell
    <2>2. CASE shown = NotShown
      BY <2>2 DEF ShownTrue, NotShown
    <2>3. CASE shown = [what |-> "interrupt"] /\ InterruptDue
      <3>1. Interrupt
        BY <2>1, <2>3, ExecutedInstruction DEF Ready
      <3> QED
        BY <2>3, <3>1 DEF ShownTrue
    <2>4. CASE shown = print_instruction(mem, <<pif, pc>>)
      <3>1. /\ shown.what = "instruction" /\ shown.names = Mnemonics(w)
            /\ shown.operand = operand_addr(mem, <<pif, pc>>, TRUE).addr
        BY <2>4 DEF print_instruction
      <3>2. ASSUME Instruction(w)
            PROVE  Means(shown, w)
        <4>1. CASE Opcode(w) < 6
          <5>1. shown.names[1] = MemoryReferenceNames[Opcode(w) + 1]
            BY <3>1, <4>1 DEF Mnemonics
          <5>2. OperandExact(w) => MemoryMeans(shown.names[1], shown.operand)
            BY <2>1, <3>1, <3>2, <4>1, <5>1, ReferenceShown
          <5>3. Opcode(w) # 6 /\ Opcode(w) # 7
            BY <4>1
          <5> QED
            BY <4>1, <5>2, <5>3 DEF Means
        <4>2. CASE Opcode(w) = 6
          <5>1. shown.names = IotName(w)
            BY <3>1, <4>2 DEF Mnemonics
          <5>2. CASE uf = 1
            <6>1. IotTrap(w)
              BY <3>2, <4>2, <5>2, UserIot
            <6> QED
              BY <4>2, <5>2, <6>1 DEF Means
          <5>3. CASE uf # 1
            <6>1. uf = 0
              BY <2>1, <5>3 DEF TypeOK, Bit
            <6>2. IotMeans(shown.names[1], w)
              BY <2>1, <3>2, <4>2, <5>1, <6>1, IotShown
            <6> QED
              BY <4>2, <5>3, <6>2 DEF Means
          <5> QED
            BY <5>2, <5>3
        <4>3. CASE Opcode(w) = 7
          <5>1. run = "R"
            BY <1>1, <2>1 DEF ShownIsNext
          <5>2. OperateMeans(shown.names)
            BY <2>1, <3>1, <3>2, <4>3, <5>1, OperateShown
          <5> QED
            BY <4>3, <5>2 DEF Means
        <4>4. Opcode(w) < 6 \/ Opcode(w) = 6 \/ Opcode(w) = 7
          BY <2>1, OpcodeIsNumber
        <4> QED
          BY <4>1, <4>2, <4>3, <4>4
      <3> QED
        BY <2>1, <3>1, <3>2 DEF ShownTrue
    <2> QED
      BY <1>1, <2>1, <2>2, <2>3, <2>4 DEF ShownIsNext
  <1>2. /\ ConsoleInv /\ ShownIsNext /\ [ConsoleNext]_consoleVars
             => [Execute => ShownTrue]_consoleVars
        /\ ConsoleInv /\ ShownIsNext /\ [ConsoleNext]_consoleVars => ShownIsNext'
    BY <1>1, NextShownIsNext
  <1> QED
    BY <1>2, InitShownIsNext, ConsoleInvAlways, PTL DEF ConsoleSpec, ShownHappens

=============================================================================
