------------------------------ MODULE Pdp8Word ------------------------------
(***************************************************************************)
(* The words of the PDP-8/E as cpu.h and cpu.c handle them, and the parts  *)
(* of the instruction set that are pure functions of words.                *)
(*                                                                         *)
(* A word is 12 bits.  The accumulator variable "ac" of the program is 13  *)
(* bits: bit 12 is the LINK.  Masks become divisions and remainders, so    *)
(* that nothing here is recursive and the provers can reason about it.     *)
(*                                                                         *)
(* AddrSize and PageSize are the number of words of a field (4096) and of  *)
(* a page (128).  Model checking takes smaller ones: the top address bits  *)
(* are then not wired.                                                     *)
(***************************************************************************)
EXTENDS Integers

CONSTANTS AddrSize, PageSize

ASSUME AddrSizeAssumption == AddrSize \in 1..\o10000
ASSUME PageSizeAssumption == PageSize \in 1..AddrSize /\ AddrSize % PageSize = 0

Bit   == 0..1
Word  == 0..\o7777                 \* B12_MASK
LinkAC == 0..\o17777               \* LINK_AC_MASK
Addr  == 0..(AddrSize - 1)         \* a 12 bit address
Field == 0..7                      \* FIELD_MASK >> 12
Cell  == Field \X Addr             \* an index of mem[]

(* The test "w & m" of the source, m a single bit. *)
Has(w, m) == (w \div m) % 2 = 1

Link(a) == a \div \o10000          \* LINK
AC(a) == a % \o10000               \* ac & AC_MASK
OnlyLink(a) == a - AC(a)           \* ac & LINK_MASK

Inc12(x) == (x + 1) % \o10000      \* INC_12BIT

(***************************************************************************)
(* Bitwise AND and OR of two words, bit by bit.                            *)
(***************************************************************************)
AndBit(x, y, m) == IF Has(x, m) /\ Has(y, m) THEN m ELSE 0
OrBit(x, y, m)  == IF Has(x, m) \/ Has(y, m) THEN m ELSE 0

BitAnd(x, y) ==
  AndBit(x, y, \o4000) + AndBit(x, y, \o2000) + AndBit(x, y, \o1000)
  + AndBit(x, y, \o400) + AndBit(x, y, \o200) + AndBit(x, y, \o100)
  + AndBit(x, y, \o40) + AndBit(x, y, \o20) + AndBit(x, y, \o10)
  + AndBit(x, y, 4) + AndBit(x, y, 2) + AndBit(x, y, 1)

BitOr(x, y) ==
  OrBit(x, y, \o4000) + OrBit(x, y, \o2000) + OrBit(x, y, \o1000)
  + OrBit(x, y, \o400) + OrBit(x, y, \o200) + OrBit(x, y, \o100)
  + OrBit(x, y, \o40) + OrBit(x, y, \o20) + OrBit(x, y, \o10)
  + OrBit(x, y, 4) + OrBit(x, y, 2) + OrBit(x, y, 1)

(* ac |= x and ac &= (x | LINK_MASK): both leave the LINK alone. *)
OrAC(a, x)  == OnlyLink(a) + BitOr(AC(a), x)
AndAC(a, x) == OnlyLink(a) + BitAnd(AC(a), x)

(***************************************************************************)
(* Instruction formats.                                                    *)
(***************************************************************************)
Opcode(w)   == w \div \o1000       \* 0 AND 1 TAD 2 ISZ 3 DCA 4 JMS 5 JMP 6 IOT 7 OPR
Indirect(w) == Has(w, \o400)       \* I_MASK
CurrentPage(w) == Has(w, \o200)    \* Z_MASK
Offset(w)   == w % PageSize        \* WORD_MASK
Device(w)   == (w \div 8) % \o100  \* DEV_MASK
IotOp(w)    == w % 8               \* IOT_OP_MASK
FieldOf(w)  == (w \div 8) % 8      \* MMU_DI_MASK

(* direct_addr, the part below the field bits. *)
DirectAddr(at, w) ==
  IF CurrentPage(w) THEN (at - (at % PageSize)) + Offset(w) ELSE Offset(w)

(***************************************************************************)
(* The operate instructions.  Bits that the three groups share or reuse:   *)
(* CLA 200, CLL/SMA/MQA 100, CMA/SZA 40, CML/SNL/MQL 20, RAR/AND-group 10, *)
(* RAL/OSR 4, BSW/HLT 2, IAC/group three 1.                                *)
(***************************************************************************)
CLA(w, a) == IF Has(w, \o200) THEN OnlyLink(a) ELSE a
CLL(w, a) == IF Has(w, \o100) THEN AC(a) ELSE a
CMA(w, a) == IF Has(w, \o40) THEN OnlyLink(a) + (\o7777 - AC(a)) ELSE a
CML(w, a) == IF Has(w, \o20) THEN (a + \o10000) % \o20000 ELSE a
IAC(w, a) == IF Has(w, 1) THEN (a + 1) % \o20000 ELSE a

RotateRight(a) == (a \div 2) + \o10000 * (a % 2)
RotateLeft(a)  == ((2 * a) % \o20000) + Link(a)

RAR(w, a) == IF ~ Has(w, \o10) THEN a
             ELSE IF Has(w, 2) THEN RotateRight(RotateRight(a)) ELSE RotateRight(a)
RAL(w, a) == IF ~ Has(w, 4) THEN a
             ELSE IF Has(w, 2) THEN RotateLeft(RotateLeft(a)) ELSE RotateLeft(a)
BSW(w, a) == IF Has(w, 2) /\ ~ Has(w, \o10) /\ ~ Has(w, 4)
             THEN OnlyLink(a) + \o100 * (a % \o100) + (AC(a) \div \o100)
             ELSE a

(* Group one applies its micro-operations to the accumulator in this order. *)
GroupOneAC(w, a) ==
  BSW(w, RAL(w, RAR(w, IAC(w, CML(w, CMA(w, CLL(w, CLA(w, a))))))))

(* The conditions of group two look at AC and LINK before CLA. *)
Minus(a) == Has(a, \o4000)
Zero(a)  == AC(a) = 0

OrGroupSkips(w, a) ==
  \/ Has(w, \o100) /\ Minus(a)            \* SMA
  \/ Has(w, \o40) /\ Zero(a)              \* SZA
  \/ Has(w, \o20) /\ Link(a) = 1          \* SNL

AndGroupSkips(w, a) ==
  /\ Has(w, \o100) => ~ Minus(a)          \* SPA
  /\ Has(w, \o40) => ~ Zero(a)            \* SNA
  /\ Has(w, \o20) => Link(a) = 0          \* SZL

GroupTwoSkips(w, a) ==
  IF Has(w, \o10) THEN AndGroupSkips(w, a) ELSE OrGroupSkips(w, a)

(* Group three: the new AC and the new MQ. *)
GroupThreeAC(w, a, mq) ==
  LET cleared == CLA(w, a) IN
  IF Has(w, \o100)                        \* MQA
  THEN IF Has(w, \o20) THEN OnlyLink(cleared) + mq ELSE OrAC(cleared, mq)
  ELSE IF Has(w, \o20) THEN OnlyLink(cleared) ELSE cleared

GroupThreeMQ(w, a, mq) == IF Has(w, \o20) THEN AC(CLA(w, a)) ELSE mq

=============================================================================
