------------------------------ MODULE Disassembly ------------------------------
(***************************************************************************)
(* What print_instruction of console.c calls an instruction: a second      *)
(* decoder of the instruction set, written apart from cpu_process, as the  *)
(* sequence of the names it prints, "" for one that it does not, and what  *)
(* they mean.  Layout is left out, and "illegal" stands for three texts.   *)
(***************************************************************************)
EXTENDS Pdp8Word, Sequences, SequencesExt

Illegal == <<"illegal">>
Nothing == ""

MemoryReferenceNames == <<"AND", "TAD", "ISZ", "DCA", "JMS", "JMP">>

InterruptNames == <<"SKON", "ION", "IOF", "SRQ", "GTF", "RTF", "SGT", "CAF">>

(* Mutant: two neighbours changed over. *)
KeyboardSwapped(op) ==
  CASE op = 0 -> <<"KCF">> [] op = 1 -> <<"KSF">> [] op = 2 -> <<"KCC">>
    [] op = 4 -> <<"KRB">> [] op = 5 -> <<"KIE">> [] op = 6 -> <<"KRS">>
    [] OTHER -> Illegal

KeyboardName(op) ==
  CASE op = 0 -> <<"KCF">> [] op = 1 -> <<"KSF">> [] op = 2 -> <<"KCC">>
    [] op = 4 -> <<"KRS">> [] op = 5 -> <<"KIE">> [] op = 6 -> <<"KRB">>
    [] OTHER -> Illegal

PrinterName(op) ==
  CASE op = 0 -> <<"TFL">> [] op = 1 -> <<"TSF">> [] op = 2 -> <<"TCF">>
    [] op = 4 -> <<"TPC">> [] op = 5 -> <<"TSK">> [] op = 6 -> <<"TLS">>
    [] OTHER -> Illegal

StatusNames == <<"CINT", "RDF", "RIF", "RIB", "RMF", "SINT", "CUF", "SUF">>

MmuName(w) ==
  CASE IotOp(w) = 1 -> <<"CDF">> [] IotOp(w) = 2 -> <<"CIF">> [] IotOp(w) = 3 -> <<"CDI">>
    [] IotOp(w) = 4 -> <<StatusNames[FieldOf(w) + 1]>>
    [] OTHER -> Illegal

(* An unknown device is shown by its number. *)
IotName(w) ==
  CASE Device(w) = 0 -> <<InterruptNames[IotOp(w) + 1]>>
    [] Device(w) = 3 -> KeyboardName(IotOp(w))
    [] Device(w) = 4 -> PrinterName(IotOp(w))
    [] Device(w) \in \o20..\o27 -> MmuName(w)
    [] OTHER -> <<"IOT Device">>

(* One name, printed when the bit is set. *)
Named(w, bit, name) == IF Has(w, bit) THEN name ELSE Nothing

GroupOneNames(w) ==
  << Named(w, \o200, "CLA"), Named(w, \o100, "CLL"), Named(w, \o40, "CMA"),
     Named(w, \o20, "CML"), Named(w, 1, "IAC"),
     Named(w, \o10, IF Has(w, 2) THEN "RTR" ELSE "RAR"),
     Named(w, 4, IF Has(w, 2) THEN "RTL" ELSE "RAL"),
     IF Has(w, 2) /\ ~ Has(w, \o10) /\ ~ Has(w, 4) THEN "BSW" ELSE Nothing,
     IF w = \o7000 THEN "NOP" ELSE Nothing >>

GroupTwoNames(w) ==
  IF Has(w, \o10)
  THEN << Named(w, \o100, "SPA"), Named(w, \o40, "SNA"), Named(w, \o20, "SZL"),
          Named(w, \o200, "CLA"), IF (w \div \o20) % 8 = 0 THEN "SKP" ELSE Nothing,
          Named(w, 4, "OSR"), Named(w, 2, "HLT") >>
  ELSE << Named(w, \o100, "SMA"), Named(w, \o40, "SZA"), Named(w, \o20, "SNL"),
          Named(w, \o200, "CLA"), Named(w, 4, "OSR"), Named(w, 2, "HLT") >>

GroupThreeNames(w) ==
  << Named(w, \o200, "CLA"), Named(w, \o100, "MQA"), Named(w, \o20, "MQL") >>

Mnemonics(w) ==
  CASE Opcode(w) < 6 -> <<MemoryReferenceNames[Opcode(w) + 1]>>
    [] Opcode(w) = 6 -> IotName(w)
    [] Opcode(w) = 7 /\ ~ Has(w, \o400) -> GroupOneNames(w)
    [] Opcode(w) = 7 /\ Has(w, \o400) /\ ~ Has(w, 1) -> GroupTwoNames(w)
    [] OTHER -> GroupThreeNames(w)

-----------------------------------------------------------------------------
(***************************************************************************)
(* What the names of the operate instructions mean to a programmer, to     *)
(* compare with what cpu_process does: one micro-operation each, in the    *)
(* order they are printed, on the accumulator, the MQ and "run".  Skips    *)
(* are tests met or not: of SPA, SNA and SZL all must be, of the others    *)
(* one.                                                                    *)
(***************************************************************************)
Doing(ac, mq, sr) ==
  [ac |-> ac, mq |-> mq, sr |-> sr, run |-> "R", met |-> {}, unmet |-> {}]

Do(state, name) ==
  LET a == state.ac
      test(condition) == IF condition THEN [state EXCEPT !.met = @ \cup {name}]
                                      ELSE [state EXCEPT !.unmet = @ \cup {name}]
  IN CASE name = "CLA" -> [state EXCEPT !.ac = OnlyLink(a)]
       [] name = "CLL" -> [state EXCEPT !.ac = AC(a)]
       [] name = "CMA" -> [state EXCEPT !.ac = OnlyLink(a) + \o7777 - AC(a)]
       [] name = "CML" -> [state EXCEPT !.ac = AC(a) + \o10000 * (1 - Link(a))]
       [] name = "IAC" -> [state EXCEPT !.ac = (a + 1) % \o20000]
       [] name = "RAR" -> [state EXCEPT !.ac = RotateRight(a)]
       [] name = "RTR" -> [state EXCEPT !.ac = RotateRight(RotateRight(a))]
       [] name = "RAL" -> [state EXCEPT !.ac = RotateLeft(a)]
       [] name = "RTL" -> [state EXCEPT !.ac = RotateLeft(RotateLeft(a))]
       [] name = "BSW" -> [state EXCEPT !.ac = OnlyLink(a) + \o100 * (a % \o100) + AC(a) \div \o100]
       [] name = "SMA" -> test(AC(a) >= \o4000)
       [] name = "SZA" -> test(AC(a) = 0)
       [] name = "SNL" -> test(Link(a) = 1)
       [] name = "SPA" -> test(AC(a) < \o4000)
       [] name = "SNA" -> test(AC(a) # 0)
       [] name = "SZL" -> test(Link(a) = 0)
       [] name = "SKP" -> test(TRUE)
       [] name = "OSR" -> [state EXCEPT !.ac = OrAC(a, state.sr)]
       [] name = "HLT" -> [state EXCEPT !.run = "H"]
       [] name = "MQA" -> [state EXCEPT !.ac = OrAC(a, state.mq)]
       [] name = "MQL" -> [state EXCEPT !.ac = OnlyLink(a), !.mq = AC(a)]
       [] name = "SWP" -> [state EXCEPT !.ac = OnlyLink(a) + state.mq, !.mq = AC(a)]
       [] name \in {"NOP", Nothing} -> state

(* MQA and MQL together are one micro-operation, "called SWP" in the source. *)
Swaps(names) == {"MQA", "MQL"} \subseteq Range(names)

Micro(name, swaps) ==
  CASE swaps /\ name = "MQA" -> Nothing
    [] swaps /\ name = "MQL" -> "SWP"
    [] OTHER -> name

(* The states after none of the names, one of them, and so on. *)
Stages(names, ac, mq, sr) ==
  LET after[i \in 0..Len(names)] ==
        IF i = 0 THEN Doing(ac, mq, sr) ELSE Do(after[i - 1], Micro(names[i], Swaps(names)))
  IN after

Carried(names, ac, mq, sr) == Stages(names, ac, mq, sr)[Len(names)]

Skips(state) ==
  LET every == {"SPA", "SNA", "SZL"}
  IN state.met \ every # {} \/ (state.met # {} /\ state.unmet \cap every = {})

=============================================================================
