---------------------------- MODULE Pdp8WordProofs ----------------------------
(***************************************************************************)
(* Facts about the operators of Pdp8Word: what they return stays in range, *)
(* for every field size and page size.                                     *)
(***************************************************************************)
EXTENDS Pdp8Word, TLAPS

(* Addresses wrap around within a field. *)
LEMMA AddrWraps ==
  ASSUME NEW x \in Int
  PROVE  x % AddrSize \in Addr
  BY AddrSizeAssumption DEF Addr

(* Word arithmetic. *)
LEMMA WordArithmetic ==
  /\ \A x \in Word : x \in Int /\ Inc12(x) \in Word
  /\ \A a \in LinkAC, x \in Word : (a + x) % \o20000 \in LinkAC
  /\ \A x \in Addr : x \in Word /\ x \in Int /\ x + 1 \in Int /\ x + 2 \in Int
  <1>1. \A x \in Word : x \in Int /\ Inc12(x) \in Word
    BY DEF Word, Inc12
  <1>2. \A a \in LinkAC, x \in Word : (a + x) % \o20000 \in LinkAC
    BY DEF Word, LinkAC
  <1>3. ASSUME NEW x \in Addr
        PROVE  x \in Word /\ x \in Int /\ x + 1 \in Int /\ x + 2 \in Int
    <2>1. AddrSize \in Int /\ AddrSize <= \o10000
      BY AddrSizeAssumption
    <2>2. x \in Int /\ 0 <= x /\ x <= AddrSize - 1
      BY <2>1 DEF Addr
    <2>3. x <= \o7777
      BY <2>1, <2>2
    <2> QED
      BY <2>2, <2>3 DEF Word
  <1> QED
    BY <1>1, <1>2, <1>3

LEMMA AndBitRange ==
  ASSUME NEW x \in Int, NEW y \in Int, NEW m \in Nat
  PROVE  AndBit(x, y, m) \in {0, m}
  BY DEF AndBit

LEMMA OrBitRange ==
  ASSUME NEW x \in Int, NEW y \in Int, NEW m \in Nat
  PROVE  OrBit(x, y, m) \in {0, m}
  BY DEF OrBit

(* Bitwise AND and OR of words are words. *)
LEMMA BitAndRange ==
  ASSUME NEW x \in Int, NEW y \in Int
  PROVE  BitAnd(x, y) \in Word
  <1> DEFINE b(m) == AndBit(x, y, m)
  <1>1. \A m \in Nat : b(m) \in {0, m}
    BY AndBitRange
  <1> HIDE DEF b
  <1>2. b(\o4000) + b(\o2000) + b(\o1000) + b(\o400) + b(\o200) + b(\o100)
        + b(\o40) + b(\o20) + b(\o10) + b(4) + b(2) + b(1) \in Word
    BY <1>1 DEF Word
  <1> QED
    BY <1>2 DEF BitAnd, b

LEMMA BitOrRange ==
  ASSUME NEW x \in Int, NEW y \in Int
  PROVE  BitOr(x, y) \in Word
  <1> DEFINE b(m) == OrBit(x, y, m)
  <1>1. \A m \in Nat : b(m) \in {0, m}
    BY OrBitRange
  <1> HIDE DEF b
  <1>2. b(\o4000) + b(\o2000) + b(\o1000) + b(\o400) + b(\o200) + b(\o100)
        + b(\o40) + b(\o20) + b(\o10) + b(4) + b(2) + b(1) \in Word
    BY <1>1 DEF Word
  <1> QED
    BY <1>2 DEF BitOr, b

(* The two parts of the accumulator. *)
LEMMA LinkAndAC ==
  ASSUME NEW a \in LinkAC
  PROVE  /\ AC(a) \in Word /\ Link(a) \in Bit
         /\ OnlyLink(a) \in {0, \o10000} /\ OnlyLink(a) = \o10000 * Link(a)
         /\ \A x \in Word : OnlyLink(a) + x \in LinkAC
  <1>1. a \in Int /\ 0 <= a /\ a < 2 * \o10000
    BY DEF LinkAC
  <1>2. AC(a) \in Word /\ Link(a) \in Bit
    BY <1>1 DEF AC, Link, Word, Bit
  <1>3. OnlyLink(a) = \o10000 * Link(a)
    BY <1>1 DEF OnlyLink, AC, Link
  <1>4. Link(a) = 0 \/ Link(a) = 1
    BY <1>2 DEF Bit
  <1>5. OnlyLink(a) = 0 \/ OnlyLink(a) = \o10000
    BY <1>3, <1>4
  <1>6. ASSUME NEW x \in Word PROVE OnlyLink(a) + x \in LinkAC
    <2>1. x \in Int /\ 0 <= x /\ x <= \o7777
      BY DEF Word
    <2>2. CASE OnlyLink(a) = 0
      BY <2>1, <2>2 DEF LinkAC
    <2>3. CASE OnlyLink(a) = \o10000
      BY <2>1, <2>3 DEF LinkAC
    <2> QED
      BY <1>5, <2>2, <2>3
  <1> QED
    BY <1>2, <1>3, <1>5, <1>6

LEMMA OrACRange ==
  ASSUME NEW a \in LinkAC, NEW x \in Int
  PROVE  OrAC(a, x) \in LinkAC /\ AndAC(a, x) \in LinkAC
  <1>1. AC(a) \in Int
    BY LinkAndAC DEF Word
  <1>2. BitOr(AC(a), x) \in Word /\ BitAnd(AC(a), x) \in Word
    BY <1>1, BitOrRange, BitAndRange
  <1> QED
    BY <1>2, LinkAndAC DEF OrAC, AndAC

(* A direct address stays on its page, so within the field. *)
LEMMA DirectAddrRange ==
  ASSUME NEW at \in Addr, NEW w \in Word
  PROVE  DirectAddr(at, w) \in Addr
  <1> DEFINE P == PageSize
             q == at \div P
             k == AddrSize \div P
  <1>1. P \in Nat /\ P >= 1 /\ at \in Nat /\ at < AddrSize /\ AddrSize \in Nat /\ P <= AddrSize
    BY AddrSizeAssumption, PageSizeAssumption DEF Addr
  <1>2. Offset(w) \in 0..(P - 1)
    BY <1>1 DEF Offset, Word
  <1>3. q \in Nat /\ k \in Nat /\ at - (at % P) = P * q /\ AddrSize = P * k
    BY <1>1, PageSizeAssumption
  <1>4. q < k
    BY <1>1, <1>3
  <1>5. P * q + P <= P * k
    BY <1>1, <1>3, <1>4
  <1> QED
    BY <1>1, <1>2, <1>3, <1>5 DEF DirectAddr, Addr

(* Each micro-operation of group one keeps AC and LINK in 13 bits. *)
LEMMA RotateRange ==
  ASSUME NEW a \in LinkAC
  PROVE  RotateRight(a) \in LinkAC /\ RotateLeft(a) \in LinkAC
  <1>1. a \in Int /\ 0 <= a /\ a < 2 * \o10000
    BY DEF LinkAC
  <1>2. RotateRight(a) \in LinkAC
    BY <1>1 DEF RotateRight, LinkAC
  <1>3. Link(a) = 0 \/ Link(a) = 1
    BY LinkAndAC DEF Bit
  <1>4. (2 * a) % \o20000 = 2 * (a % \o10000)
    BY <1>1
  <1>5. (2 * a) % \o20000 \in 0..\o17776
    BY <1>1, <1>4
  <1>6. CASE Link(a) = 0
    BY <1>2, <1>5, <1>6 DEF RotateLeft, LinkAC
  <1>7. CASE Link(a) = 1
    BY <1>2, <1>5, <1>7 DEF RotateLeft, LinkAC
  <1> QED
    BY <1>2, <1>3, <1>6, <1>7

LEMMA ClearRange ==
  ASSUME NEW w \in Word, NEW a \in LinkAC
  PROVE  OnlyLink(a) \in LinkAC /\ CLA(w, a) \in LinkAC /\ CLL(w, a) \in LinkAC
  <1>1. OnlyLink(a) \in {0, \o10000} /\ AC(a) \in Word
    BY LinkAndAC
  <1>2. OnlyLink(a) \in LinkAC /\ AC(a) \in LinkAC
    BY <1>1 DEF LinkAC, Word
  <1> QED
    BY <1>2 DEF CLA, CLL

LEMMA ComplementRange ==
  ASSUME NEW w \in Word, NEW a \in LinkAC
  PROVE  CMA(w, a) \in LinkAC /\ CML(w, a) \in LinkAC /\ IAC(w, a) \in LinkAC
  <1>1. \o7777 - AC(a) \in Word
    BY DEF AC, LinkAC, Word
  <1>2. CMA(w, a) \in LinkAC
    BY <1>1, LinkAndAC DEF CMA
  <1>3. CML(w, a) \in LinkAC /\ IAC(w, a) \in LinkAC
    BY DEF CML, IAC, LinkAC
  <1> QED
    BY <1>2, <1>3

LEMMA ByteSwapRange ==
  ASSUME NEW w \in Word, NEW a \in LinkAC
  PROVE  BSW(w, a) \in LinkAC
  <1>1. a \in Int /\ AC(a) \in Int /\ 0 <= AC(a) /\ AC(a) <= \o7777 /\ OnlyLink(a) \in Int
    BY DEF LinkAC, AC, OnlyLink
  <1>2. \o100 * (a % \o100) + (AC(a) \div \o100) \in Word
    BY <1>1 DEF Word
  <1>3. OnlyLink(a) + (\o100 * (a % \o100) + (AC(a) \div \o100)) \in LinkAC
    BY <1>2, LinkAndAC
  <1>4. OnlyLink(a) + \o100 * (a % \o100) + (AC(a) \div \o100)
        = OnlyLink(a) + (\o100 * (a % \o100) + (AC(a) \div \o100))
    BY <1>1
  <1> QED
    BY <1>3, <1>4 DEF BSW

LEMMA GroupOneRange ==
  ASSUME NEW w \in Word, NEW a \in LinkAC
  PROVE  GroupOneAC(w, a) \in LinkAC
  <1>1. \A b \in LinkAC : CLA(w, b) \in LinkAC /\ CLL(w, b) \in LinkAC
    BY ClearRange
  <1>2. \A b \in LinkAC : CMA(w, b) \in LinkAC /\ CML(w, b) \in LinkAC /\ IAC(w, b) \in LinkAC
    BY ComplementRange
  <1>3. \A b \in LinkAC : RAR(w, b) \in LinkAC /\ RAL(w, b) \in LinkAC
    BY RotateRange DEF RAR, RAL
  <1>4. \A b \in LinkAC : BSW(w, b) \in LinkAC
    BY ByteSwapRange
  <1> QED
    BY <1>1, <1>2, <1>3, <1>4 DEF GroupOneAC

LEMMA GroupThreeRange ==
  ASSUME NEW w \in Word, NEW a \in LinkAC, NEW q \in Word
  PROVE  GroupThreeAC(w, a, q) \in LinkAC /\ GroupThreeMQ(w, a, q) \in Word
  <1>0. q \in Int
    BY DEF Word
  <1>1. CLA(w, a) \in LinkAC
    BY ClearRange
  <1>2. AC(CLA(w, a)) \in Word /\ OnlyLink(CLA(w, a)) \in LinkAC
        /\ OnlyLink(CLA(w, a)) + q \in LinkAC /\ OrAC(CLA(w, a), q) \in LinkAC
    BY <1>0, <1>1, LinkAndAC, ClearRange, OrACRange
  <1> QED
    BY <1>1, <1>2 DEF GroupThreeAC, GroupThreeMQ

=============================================================================
