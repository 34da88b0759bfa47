------------------------------- MODULE Machine -------------------------------
(***************************************************************************)
(* The one-process build: the loop of machine_run, the run control         *)
(* commands of the console around it, and SIGINT, which may strike between *)
(* any two steps.  The processor (see Cpu) is reduced to where it goes     *)
(* next and whether it halts, the terminal (see Tty) to whether the read   *)
(* of a byte answers -1.  Trace only prints: it is in Console.            *)
(***************************************************************************)
EXTENDS Integers, FiniteSets

CONSTANTS
  MemSize,          \* words of memory (32768)
  TtySkip,          \* turns of the loop without tty_process (100)
  exit_on_HLT       \* the command line option

ASSUME MachineAssumption ==
  /\ MemSize \in Nat \ {0} /\ TtySkip \in Nat
  /\ exit_on_HLT \in BOOLEAN

VARIABLES
  at,                       \* where the program is
  pc,
  breakpoints,              \* addresses with a breakpoint
  internal_stop_at,
  single,                   \* machine_run was called for one instruction
  tty_skip_count,
  interrupted_by_console,   \* set by SIGINT
  tty_read_from_file,
  state,                    \* what machine_run returned last
  done,                     \* history: instructions of this run (1 for more)
  since,                    \* history: instructions since tty_process was called
  late,                     \* history: instructions since a SIGINT not yet seen
  asked                     \* history: somebody interrupted this run

loop == <<single, tty_skip_count>>
history == <<done, since, late, asked>>
machineVars == <<at, pc, breakpoints, internal_stop_at, loop, interrupted_by_console,
                 tty_read_from_file, state, history>>

Memory == 0..(MemSize - 1)
Running == at \in {"poll", "tty", "cpu"}

(* The console is entered again only after machine_run has returned and    *)
(* the registers are printed ("stopped").                                  *)
in_console == at = "prompt"

MachineInit ==
  /\ at = "prompt" /\ pc \in Memory
  /\ breakpoints = {}
  /\ internal_stop_at \in {-1} \cup (Memory \ {0})     \* console_setup: stop_at > 0
  /\ single = FALSE /\ tty_skip_count = 0
  /\ interrupted_by_console = FALSE /\ tty_read_from_file = FALSE
  /\ state = ""
  /\ done = 0 /\ since = 0 /\ late = 0 /\ asked = FALSE

-----------------------------------------------------------------------------
(***************************************************************************)
(* The console.                                                            *)
(***************************************************************************)
Prompt == at = "prompt" /\ UNCHANGED <<pc, tty_skip_count, interrupted_by_console, since, late>>

RunOrStep(one) ==
  /\ Prompt
  /\ at' = "poll" /\ single' = one
  /\ done' = 0 /\ asked' = FALSE
  /\ UNCHANGED <<breakpoints, internal_stop_at, tty_read_from_file, state>>

Command == Prompt /\ UNCHANGED <<at, internal_stop_at, single, state, done, asked>>

ToggleBreakpoint(a) ==
  /\ Command
  /\ a > 0
  /\ breakpoints' = IF a \in breakpoints THEN breakpoints \ {a} ELSE breakpoints \cup {a}
  /\ UNCHANGED tty_read_from_file

(* MEMSIZE bytes are cleared, of an array of MEMSIZE shorts. *)
ClearBreakpoints ==
  /\ Command
  /\ breakpoints' = {a \in breakpoints : 2 * a >= MemSize}
  /\ UNCHANGED tty_read_from_file

TtySource == Command /\ tty_read_from_file' = ~ tty_read_from_file /\ UNCHANGED breakpoints

(* The command exit, or ^C at the prompt. *)
Exit ==
  /\ Prompt /\ at' = "exited"
  /\ UNCHANGED <<breakpoints, internal_stop_at, single, tty_read_from_file, state, done, asked>>

(* SIGINT: ignored in the console; a second one changes nothing. *)
Sigint ==
  /\ ~ in_console /\ at # "exited"
  /\ ~ interrupted_by_console
  /\ interrupted_by_console' = TRUE
  /\ late' = 0 /\ asked' = (asked \/ Running)
  /\ UNCHANGED <<at, pc, breakpoints, internal_stop_at, loop, tty_read_from_file, state,
                 done, since>>

-----------------------------------------------------------------------------
(***************************************************************************)
(* machine_run, one turn of the loop in three steps.                       *)
(***************************************************************************)
Return(reason) == at' = "stopped" /\ state' = reason

(* Mutants: the flag is cleared without leaving the loop; it is looked at  *)
(* only when the terminal has been served.                                 *)
PollForgets ==
  /\ at = "poll" /\ at' = "tty"
  /\ interrupted_by_console' = FALSE
  /\ UNCHANGED <<pc, breakpoints, internal_stop_at, loop, tty_read_from_file, state, history>>

PollSeldom ==
  /\ at = "poll"
  /\ IF interrupted_by_console /\ tty_skip_count = 0
     THEN Return("I") /\ interrupted_by_console' = FALSE
     ELSE at' = "tty" /\ UNCHANGED <<state, interrupted_by_console>>
  /\ UNCHANGED <<pc, breakpoints, internal_stop_at, loop, tty_read_from_file, history>>

Poll ==
  /\ at = "poll"
  /\ IF interrupted_by_console
     THEN Return("I") /\ interrupted_by_console' = FALSE
     ELSE at' = "tty" /\ UNCHANGED <<state, interrupted_by_console>>
  /\ UNCHANGED <<pc, breakpoints, internal_stop_at, loop, tty_read_from_file, history>>

(* Mutants: one turn too late; the count is not reset. *)
TtyDueLate == single \/ tty_skip_count > TtySkip

TtyDue == single \/ tty_skip_count >= TtySkip

SkipTty ==
  /\ at = "tty" /\ ~ TtyDue
  /\ tty_skip_count' = tty_skip_count + 1
  /\ at' = "cpu"
  /\ UNCHANGED <<pc, breakpoints, internal_stop_at, single, interrupted_by_console,
                 tty_read_from_file, state, history>>

ServeTtyNoReset ==
  /\ at = "tty" /\ TtyDue
  /\ tty_skip_count' = tty_skip_count + 1 /\ since' = 0
  /\ at' = "cpu"
  /\ UNCHANGED <<pc, breakpoints, internal_stop_at, single, interrupted_by_console,
                 tty_read_from_file, state, done, late, asked>>

ServeTty ==
  /\ at = "tty" /\ TtyDue
  /\ tty_skip_count' = 0 /\ since' = 0
  /\ at' = "cpu"
  /\ UNCHANGED <<pc, breakpoints, internal_stop_at, single, interrupted_by_console,
                 tty_read_from_file, state, done, late, asked>>

(* The input file is at its end: the read answers -1, and this call ends   *)
(* there, before what is to be printed.                                    *)
EndOfFile ==
  /\ at = "tty" /\ TtyDue /\ tty_read_from_file
  /\ tty_skip_count' = 0 /\ since' = 0
  /\ tty_read_from_file' = FALSE
  /\ Return("I") /\ asked' = TRUE
  /\ UNCHANGED <<pc, breakpoints, internal_stop_at, single, interrupted_by_console, done, late>>

(* Mutants: the address just left is tested; a step is not looked for. *)
ReasonAtOld(next, halted) ==
  IF halted THEN "H"
  ELSE IF pc \in breakpoints THEN "B"
  ELSE IF next = internal_stop_at THEN "P"
  ELSE IF single THEN "S" ELSE ""

ReasonNoStep(next, halted) ==
  IF halted THEN "H"
  ELSE IF next \in breakpoints THEN "B"
  ELSE IF next = internal_stop_at THEN "P" ELSE ""

(* Why machine_run returns after cpu_process, or "". *)
Reason(next, halted) ==
  IF halted THEN "H"
  ELSE IF next \in breakpoints THEN "B"
  ELSE IF next = internal_stop_at THEN "P"
  ELSE IF single THEN "S" ELSE ""

Execute(next, halted) ==
  /\ at = "cpu"
  /\ pc' = next
  /\ IF Reason(next, halted) = "" THEN at' = "poll" /\ state' = state
                                  ELSE Return(Reason(next, halted))
  /\ done' = 1 /\ since' = since + 1
  /\ late' = IF interrupted_by_console THEN late + 1 ELSE 0
  /\ UNCHANGED <<breakpoints, internal_stop_at, loop, interrupted_by_console,
                 tty_read_from_file, asked>>

(* Back in the console, or exit. *)
Report ==
  /\ at = "stopped"
  /\ at' = IF state \in {"P"} \cup (IF exit_on_HLT THEN {"I", "H"} ELSE {})
           THEN "exited" ELSE "prompt"
  /\ UNCHANGED <<pc, breakpoints, internal_stop_at, loop, interrupted_by_console,
                 tty_read_from_file, state, history>>

Program ==
  \/ Poll \/ SkipTty \/ ServeTty \/ EndOfFile
  \/ \E next \in Memory, halted \in BOOLEAN : Execute(next, halted)
  \/ Report

Operator ==
  \/ \E one \in BOOLEAN : RunOrStep(one)
  \/ \E a \in Memory : ToggleBreakpoint(a)
  \/ ClearBreakpoints \/ TtySource \/ Exit

MachineNext == Program \/ Operator \/ Sigint

(* The program runs on; nobody has to type or to press ^C. *)
MachineSpec == MachineInit /\ [][MachineNext]_machineVars /\ WF_machineVars(Program)

-----------------------------------------------------------------------------
MachineTypeOK ==
  /\ at \in {"prompt", "poll", "tty", "cpu", "stopped", "exited"}
  /\ pc \in Memory /\ breakpoints \subseteq Memory
  /\ internal_stop_at \in {-1} \cup Memory
  /\ single \in BOOLEAN /\ tty_skip_count \in 0..TtySkip
  /\ interrupted_by_console \in BOOLEAN /\ tty_read_from_file \in BOOLEAN
  /\ state \in {"", "I", "H", "B", "P", "S"}
  /\ done \in 0..1 /\ since \in Nat /\ late \in Nat /\ asked \in BOOLEAN

(* No run goes on over a breakpoint: apart from the first instruction of a *)
(* run, which may stand on the breakpoint the last one stopped at, none is *)
(* executed at an address with a breakpoint.                               *)
NoOverrun ==
  Running /\ done > 0 => pc \notin breakpoints /\ pc # internal_stop_at /\ ~ single

(* However runs and steps follow each other, and wherever they are         *)
(* interrupted, tty_process is called after TtySkip + 1 instructions: the  *)
(* count is kept across runs.  A call that meets the end of the input file *)
(* counts as well, though it prints nothing: the printer waits as long     *)
(* again for the next one.                                                 *)
TerminalServed == since <= TtySkip + 1

(* A SIGINT is seen before the second instruction after it. *)
StopsSoon == interrupted_by_console => late <= 1

(* A SIGINT always ends the run it comes in. *)
SigintEndsRun == (Running /\ interrupted_by_console) ~> at = "stopped"

(* The loop does what the run control commands promise. *)
Promise == INSTANCE Debugger WITH
  Addresses <- Memory,
  mode      <- IF Running THEN "running" ELSE "stopped",
  counter   <- pc,
  stops     <- breakpoints \cup ({internal_stop_at} \cap Memory),
  stepping  <- single

KeepsPromise == Promise!DebuggerSpec

(* A run or step that ends interrupted was interrupted while it ran: a     *)
(* SIGINT that came before, while the last run was being reported, does    *)
(* not make it end before its first instruction.                           *)
InterruptedForCause == at = "stopped" /\ state = "I" => asked

(* break clear unsets all breakpoints. *)
ClearsAll == [][ClearBreakpoints => breakpoints' = {}]_machineVars

=============================================================================
