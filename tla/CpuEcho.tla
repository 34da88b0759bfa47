-------------------------------- MODULE CpuEcho --------------------------------
(***************************************************************************)
(* The processor running a small time-sharing system: an executive in      *)
(* field 0, entered by interrupts only, that echoes the keyboard on the    *)
(* printer, and a program in user mode in field 1 that copies a block of   *)
(* words of field 2 with the autoindex registers while it is interrupted.  *)
(* The image comes from the MC modules.  Interrupts, terminal and operator *)
(* come at any point between two instructions: the counter that makes      *)
(* machine_run poll the terminal every 101st time is not assumed.          *)
(***************************************************************************)
EXTENDS Cpu, Sequences, SequencesExt

CONSTANTS
  MaxTyped,       \* bound: keys typed in a behaviour
  MaxBreaks,      \* bound: times the operator stops and resumes the machine
  Idle,           \* the address where the user program ends up, in field 1
  Source, Target, Count,   \* the copy it makes, in field 2
  TrapCounter, Traps       \* where the executive counts user traps, how many

VARIABLES
  typed, printed,   \* history: the bytes typed, the characters printed
  context,          \* history: registers at the last interrupt
  breaks            \* times stopped

history == <<typed, printed, context, breaks>>
echoVars == <<vars, history>>

Registers == <<pif, pc, ac, df, uf>>

EchoInit == Init /\ typed = <<>> /\ printed = <<>> /\ context = <<>> /\ breaks = 0

(* write_tty_byte, in the second half of tty_process. *)
Written == printed' = IF output_pending = 1 THEN Append(printed, tty_tp_buf) ELSE printed

TypeKey(byte) ==
  /\ Len(typed) < MaxTyped
  /\ Type(byte)
  /\ typed' = Append(typed, byte)
  /\ Written
  /\ UNCHANGED <<context, breaks>>

Serve == PrintStage /\ Written /\ UNCHANGED <<typed, context, breaks>>

TakeInterrupt == Interrupt /\ context' = Registers /\ UNCHANGED <<typed, printed, breaks>>

Step == Instruction(mem[<<pif, pc>>]) /\ UNCHANGED history

StopHere ==
  /\ breaks < MaxBreaks
  /\ Break
  /\ breaks' = breaks + 1
  /\ UNCHANGED <<typed, printed, context>>

Restart == Resume /\ UNCHANGED history

EchoNext ==
  \/ TakeInterrupt \/ Step
  \/ Serve \/ \E byte \in Byte : TypeKey(byte)
  \/ StopHere \/ Restart

(* machine_run calls cpu_process in every turn of its loop and tty_process *)
(* every 101st; a stopped machine is run again.  Nobody has to type.       *)
EchoFairness ==
  /\ WF_echoVars(TakeInterrupt \/ Step)
  /\ WF_echoVars(Serve)
  /\ WF_echoVars(Restart)

EchoSpec == EchoInit /\ [][EchoNext]_echoVars /\ EchoFairness

-----------------------------------------------------------------------------
(* What is printed is what was typed, in order and without duplicates: the *)
(* one-character buffers of the two devices, the flags and the requests    *)
(* never let the executive overwrite a character or echo it twice.         *)
EchoInOrder == IsPrefix(printed, typed)

(* The interrupted program finds PC, IF, DF, UF, AC and LINK as they were, *)
(* at whatever instruction it was interrupted, when the executive returns  *)
(* (the JMP that closes the window RTF or RMF opened).                     *)
InterruptTransparent ==
  [][context # <<>> /\ intr_inhibit = 1 /\ intr_inhibit' = 0 => Registers' = context]_echoVars

(* When the user program is done the block is copied, through fields and   *)
(* autoindex registers, and each privileged instruction it tried trapped   *)
(* exactly once.                                                           *)
CopyCorrect ==
  pif = 1 /\ pc = Idle /\ uf = 1 /\ "USER" \notin intr =>
    /\ \A i \in 0..(Count - 1) : mem[<<2, Target + i>>] = mem[<<2, Source + i>>]
    /\ mem[<<0, TrapCounter>>] = Traps

(* Every key typed is eventually echoed... *)
EveryKeyEchoed == \A n \in 1..MaxTyped : (Len(typed) >= n) ~> (Len(printed) >= n)

(* ...and no stream of interrupts keeps the user program from finishing.   *)
UserFinishes == <>(pif = 1 /\ pc = Idle /\ uf = 1)

=============================================================================
