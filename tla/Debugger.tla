------------------------------- MODULE Debugger -------------------------------
(***************************************************************************)
(* What the run control commands promise the operator (the help texts of   *)
(* console.c): run starts execution at the PC, step executes one           *)
(* instruction, and the CPU halts when the PC reaches an address with a    *)
(* set breakpoint.  A run may also end by a HLT or be interrupted.         *)
(***************************************************************************)
CONSTANT Addresses

VARIABLES
  mode,        \* "stopped" or "running"
  counter,     \* the program counter
  stops,       \* addresses with a breakpoint
  stepping     \* one instruction was asked for

debugger == <<mode, counter, stops, stepping>>

DebuggerInit ==
  /\ mode = "stopped"
  /\ counter \in Addresses /\ stops \subseteq Addresses
  /\ stepping \in BOOLEAN

Go ==
  /\ mode = "stopped" /\ mode' = "running"
  /\ stepping' \in BOOLEAN
  /\ UNCHANGED <<counter, stops>>

ExecuteOne ==
  /\ mode = "running"
  /\ counter' \in Addresses
  /\ mode' \in {"stopped", "running"}
  /\ stepping \/ counter' \in stops => mode' = "stopped"
  /\ UNCHANGED <<stops, stepping>>

BreakIn == mode = "running" /\ mode' = "stopped" /\ UNCHANGED <<counter, stops, stepping>>

Edit == mode = "stopped" /\ stops' \in SUBSET Addresses /\ UNCHANGED <<mode, counter, stepping>>

DebuggerSpec == DebuggerInit /\ [][Go \/ ExecuteOne \/ BreakIn \/ Edit]_debugger

=============================================================================
