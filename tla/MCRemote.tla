------------------------------- MODULE MCRemote -------------------------------
(* Constants for Remote: ordinary names and keys, and some to be escaped.  *)
EXTENDS Remote

MCKeys == {"a", "~"}
OneKey == {"a"}
OneReg == <<"PC">>
TwoRegs == <<"PC", "{">>
MCCommands == {"run", "step", "examine", "save", "restore", "trace", "halt", "exit"}
Interruptible == {"run", "examine", "halt"}
MCStops == {"H", "B"}
NoStops == {}

=============================================================================
