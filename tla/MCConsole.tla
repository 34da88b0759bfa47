------------------------------- MODULE MCConsole -------------------------------
(***************************************************************************)
(* A machine of 32 words to a field, 16 to a page.  The program at 17 of   *)
(* field 0 sets the LINK, turns interrupts on and enters user mode; the    *)
(* operator deposits words over its second instruction, and runs or steps  *)
(* it from there or from the start.                                        *)
(***************************************************************************)
EXTENDS Console

MCByte == {\o101}

MCImages == {[c \in Cell |->
  CASE c = <<0, \o1>>  -> \o7402      \* HLT, the interrupt routine
    [] c = <<0, \o10>> -> \o22        \* autoindex
    [] c = <<0, \o12>> -> \o23
    [] c = <<0, \o17>> -> \o7144      \* CLL CMA RAL: 7776 and the LINK
    [] c = <<0, \o20>> -> \o6001      \* ION
    [] c = <<0, \o21>> -> \o6274      \* SUF
    [] c = <<0, \o22>> -> \o5412      \* JMP I 12
    [] c = <<0, \o23>> -> \o7606      \* CLA OSR HLT, traps
    [] c = <<1, \o21>> -> \o3410      \* DCA I 10
    [] OTHER -> 0]}

MCCells == {<<0, \o20>>}
MCPlaces == {\o20, \o21}
MCValues == {\o4001, \o7777}
MCDataFields == {0, 1, \o10}

MemoryWords == {\o1000 * op + mode + offset :
                  op \in 0..5, mode \in {0, \o200, \o400, \o600}, offset \in {8, 10, 3}}
IotWords == {\o6000 + 8 * device + op : device \in {0, 3, 4, 5, 16, 17, 23}, op \in 0..7}
            \cup {\o6204 + 8 * f : f \in 0..7}
OperateWords == \o7000..\o7377 \cup {\o7400 + 2 * bits : bits \in 0..\o177}
                \cup {\o7401 + \o20 * bits : bits \in 0..\o17}

MCWords == MemoryWords \cup IotWords \cup OperateWords

=============================================================================
