------------------------------- MODULE MCCpuEcho -------------------------------
(***************************************************************************)
(* Two executives for CpuEcho.  The first saves the interrupted program    *)
(* with GTF and returns with RTF; the second saves the LINK by rotating    *)
(* it, returns with RMF, ION and echoes through KRS, TPC and KCC.          *)
(***************************************************************************)
EXTENDS CpuEcho

MCByte == {\o101, \o102}

UserProgram(a) ==
  CASE a = \o2  -> \o7776      \* minus the number of words
    [] a = \o3  -> \o5252
    [] a = \o10 -> \o37        \* Source - 1, autoindex
    [] a = \o11 -> \o47        \* Target - 1, autoindex
    [] a = \o20 -> \o7120      \* STL
    [] a = \o21 -> \o1410      \* TAD I 10
    [] a = \o22 -> \o3411      \* DCA I 11
    [] a = \o23 -> \o2002      \* ISZ 2
    [] a = \o24 -> \o5021      \* JMP 21
    [] a = \o25 -> \o4030      \* JMS 30
    [] a = \o26 -> \o7402      \* HLT, traps
    [] a = \o27 -> \o5027      \* JMP 27: idle
    [] a = \o31 -> \o6046      \* TLS, traps
    [] a = \o32 -> \o1003      \* TAD 3
    [] a = \o33 -> \o7421      \* MQL
    [] a = \o34 -> \o7501      \* MQA
    [] a = \o35 -> \o0003      \* AND 3
    [] a = \o36 -> \o5430      \* JMP I 30
    [] OTHER -> 0

DataWords(a) == CASE a = \o40 -> \o4001 [] a = \o41 -> \o7777 [] OTHER -> 0

RtfExecutive(a) ==
  CASE a = \o1  -> \o5020      \* JMP 20
    [] a = \o5  -> \o20        \* where the user program starts
    [] a = \o20 -> \o3002      \* DCA 2
    [] a = \o21 -> \o6004      \* GTF
    [] a = \o22 -> \o3003      \* DCA 3
    [] a = \o23 -> \o6254      \* SINT
    [] a = \o24 -> \o5027      \* JMP 27
    [] a = \o25 -> \o6204      \* CINT
    [] a = \o26 -> \o2004      \* ISZ 4
    [] a = \o27 -> \o6031      \* KSF
    [] a = \o30 -> \o5034      \* JMP 34
    [] a = \o31 -> \o6034      \* KRS
    [] a = \o32 -> \o6046      \* TLS
    [] a = \o33 -> \o6030      \* KCF: only now may the next key come
    [] a = \o34 -> \o6041      \* TSF
    [] a = \o35 -> \o7410      \* SKP
    [] a = \o36 -> \o6042      \* TCF
    [] a = \o37 -> \o7200      \* CLA
    [] a = \o40 -> \o1003      \* TAD 3
    [] a = \o41 -> \o6005      \* RTF
    [] a = \o42 -> \o7200      \* CLA
    [] a = \o43 -> \o1002      \* TAD 2
    [] a = \o44 -> \o5400      \* JMP I 0
    [] a = \o50 -> \o6221      \* CDF 20, the start
    [] a = \o51 -> \o6212      \* CIF 10
    [] a = \o52 -> \o6274      \* SUF
    [] a = \o53 -> \o6001      \* ION
    [] a = \o54 -> \o5405      \* JMP I 5
    [] OTHER -> 0

RmfExecutive(a) ==
  CASE a = \o1  -> \o5020      \* JMP 20
    [] a = \o5  -> \o20
    [] a = \o20 -> \o3002      \* DCA 2
    [] a = \o21 -> \o7010      \* RAR
    [] a = \o22 -> \o3003      \* DCA 3
    [] a = \o23 -> \o6254      \* SINT
    [] a = \o24 -> \o5027      \* JMP 27
    [] a = \o25 -> \o6204      \* CINT
    [] a = \o26 -> \o2004      \* ISZ 4
    [] a = \o27 -> \o6031      \* KSF
    [] a = \o30 -> \o5034      \* JMP 34
    [] a = \o31 -> \o6034      \* KRS
    [] a = \o32 -> \o6044      \* TPC
    [] a = \o33 -> \o6032      \* KCC
    [] a = \o34 -> \o6041      \* TSF
    [] a = \o35 -> \o7410      \* SKP
    [] a = \o36 -> \o6042      \* TCF
    [] a = \o37 -> \o7300      \* CLA CLL
    [] a = \o40 -> \o1003      \* TAD 3
    [] a = \o41 -> \o7004      \* RAL
    [] a = \o42 -> \o7200      \* CLA
    [] a = \o43 -> \o1002      \* TAD 2
    [] a = \o44 -> \o6244      \* RMF
    [] a = \o45 -> \o6001      \* ION
    [] a = \o46 -> \o5400      \* JMP I 0
    [] a = \o50 -> \o6221      \* CDF 20, the start
    [] a = \o51 -> \o6003      \* SRQ
    [] a = \o52 -> \o6000      \* SKON
    [] a = \o53 -> \o6045      \* TSK
    [] a = \o54 -> \o6214      \* RDF
    [] a = \o55 -> \o6224      \* RIF
    [] a = \o56 -> \o6234      \* RIB
    [] a = \o57 -> \o7604      \* CLA OSR
    [] a = \o60 -> \o6006      \* SGT, no operation
    [] a = \o61 -> \o7201      \* CLA IAC
    [] a = \o62 -> \o6035      \* KIE
    [] a = \o63 -> \o7200      \* CLA
    [] a = \o64 -> \o6212      \* CIF 10
    [] a = \o65 -> \o6274      \* SUF
    [] a = \o66 -> \o6001      \* ION
    [] a = \o67 -> \o5405      \* JMP I 5
    [] OTHER -> 0

ImageOf(executive(_)) ==
  [c \in Cell |-> CASE c[1] = 0 -> executive(c[2])
                    [] c[1] = 1 -> UserProgram(c[2])
                    [] c[1] = 2 -> DataWords(c[2])
                    [] OTHER -> 0]

MCImages == {ImageOf(RtfExecutive), ImageOf(RmfExecutive)}

=============================================================================
