-------------------------------- MODULE CpuAny --------------------------------
(***************************************************************************)
(* The processor under every program: instead of coming from memory the    *)
(* fetched word is any of Program.  Every run of a stored program made of  *)
(* these instructions is a behaviour of this specification, so what holds  *)
(* here holds whatever the program is and however it changes itself.       *)
(* Operator breaks, which change nothing but run, are left to CpuEcho.     *)
(***************************************************************************)
EXTENDS Cpu

CONSTANT Program
ASSUME ProgramAssumption == Program \subseteq Word

(* History: the last instruction was the ION or RTF that turned interrupts *)
(* on.                                                                     *)
VARIABLE enabling

anyVars == <<vars, enabling>>

AnyInit == Init /\ enabling = FALSE

Execute(w) ==
  /\ Instruction(w)
  /\ enabling' = (w \in {\o6001, \o6005} /\ uf = 0 /\ IonNow = 0)

AnyNext ==
  \/ \E w \in Program : Execute(w)
  \/ Interrupt /\ enabling' = FALSE
  \/ (tty_process \/ Resume) /\ UNCHANGED enabling

AnySpec == AnyInit /\ [][AnyNext]_anyVars

(* After the ION or RTF that turns interrupts on one more instruction is   *)
(* executed before an interrupt is taken: the idiom ION; JMP I 0 leaves    *)
(* the interrupt routine before it can be entered again and location 0     *)
(* overwritten.                                                            *)
ReturnWindow == [][Interrupt => ~ enabling]_anyVars

=============================================================================
