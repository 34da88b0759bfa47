------------------------------- MODULE MCCpuAny -------------------------------
(* Instructions with control effects, on a machine with one word per field. *)
EXTENDS CpuAny

MCImages == {[c \in Cell |-> 0]}
MCByte == {0}

MCProgram ==
  {\o5000,                                              \* JMP 0
   \o6001, \o6002, \o6004, \o6005, \o6007,              \* ION IOF GTF RTF CAF
   \o6036, \o6035, \o6046,                              \* KRB KIE TLS
   \o6202, \o6212,                                      \* CIF 0, CIF 10
   \o6204, \o6244, \o6264, \o6274,                      \* CINT RMF CUF SUF
   \o7200, \o7402}                                      \* CLA, HLT

=============================================================================
