---------------------------- MODULE MachineProofs ----------------------------
(***************************************************************************)
(* Proofs about the loop of machine_run, for every size of memory, every   *)
(* count of turns without tty_process, and both values of exit_on_HLT.     *)
(***************************************************************************)
EXTENDS Machine, TLAPS

(* What MachineTypeOK says, in two parts: names and answers, and numbers. *)
ControlOK ==
  /\ at \in {"prompt", "poll", "tty", "cpu", "stopped", "exited"}
  /\ state \in {"", "I", "H", "B", "P", "S"}
  /\ single \in BOOLEAN /\ interrupted_by_console \in BOOLEAN
  /\ tty_read_from_file \in BOOLEAN /\ asked \in BOOLEAN

NumbersOK ==
  /\ pc \in Memory /\ breakpoints \subseteq Memory
  /\ internal_stop_at \in {-1} \cup Memory
  /\ tty_skip_count \in 0..TtySkip
  /\ done \in 0..1 /\ since \in Nat /\ late \in Nat

(* Every instruction since tty_process was preceded by a turn that counted *)
(* itself; the one of the turn under way is counted before it is executed. *)
TurnsCounted ==
  /\ since <= tty_skip_count + 1
  /\ at = "cpu" => since <= tty_skip_count

(* An instruction after a SIGINT brings the loop to the test of the flag: *)
(* past the test no instruction has been executed since it.               *)
SeenAtPoll ==
  interrupted_by_console => /\ late <= 1
                            /\ at \in {"tty", "cpu"} => late = 0

(* The inductive invariant. *)
MachineInv ==
  ControlOK /\ NumbersOK /\ NoOverrun /\ TurnsCounted /\ SeenAtPoll

-----------------------------------------------------------------------------
LEMMA InitMachineInv == MachineInit => MachineInv
  <1> SUFFICES ASSUME MachineInit PROVE MachineInv
    OBVIOUS
  <1>1. ControlOK
    BY DEF MachineInit, ControlOK
  <1>2. NumbersOK
    <2>1. pc \in Memory /\ breakpoints \subseteq Memory /\ internal_stop_at \in {-1} \cup Memory
      BY DEF MachineInit
    <2>2. tty_skip_count = 0 /\ done = 0 /\ since = 0 /\ late = 0
      BY DEF MachineInit
    <2> QED
      BY <2>1, <2>2, MachineAssumption DEF NumbersOK
  <1>3. at = "prompt" /\ ~ interrupted_by_console /\ since = 0 /\ tty_skip_count = 0
    BY DEF MachineInit
  <1>4. NoOverrun /\ TurnsCounted /\ SeenAtPoll
    BY <1>3 DEF NoOverrun, Running, TurnsCounted, SeenAtPoll
  <1> QED
    BY <1>1, <1>2, <1>4 DEF MachineInv

(* A command changes neither the counts nor the flag, and no run is under  *)
(* way when it ends: only a run or a step that begins has one to count.    *)
LEMMA CommandKeeps ==
  ASSUME MachineInv, Operator
  PROVE  MachineInv'
  <1>1. ControlOK /\ NumbersOK /\ TurnsCounted /\ SeenAtPoll
    BY DEF MachineInv
  <1>2. Prompt
    BY DEF Operator, RunOrStep, Command, ToggleBreakpoint, ClearBreakpoints, TtySource, Exit
  <1>3. at' \in {"prompt", "exited"} \/ (at' = "poll" /\ done' = 0)
    BY DEF Operator, Prompt, RunOrStep, Command, ToggleBreakpoint, ClearBreakpoints,
           TtySource, Exit
  <1>4. ControlOK'
    BY <1>1 DEF ControlOK, Operator, Prompt, RunOrStep, Command, ToggleBreakpoint,
                ClearBreakpoints, TtySource, Exit
  <1>5. breakpoints' \subseteq Memory /\ internal_stop_at' = internal_stop_at /\ done' \in 0..1
    <2>1. breakpoints \subseteq Memory /\ done \in 0..1
      BY <1>1 DEF NumbersOK
    <2>2. CASE \E one \in BOOLEAN : RunOrStep(one)
      BY <2>1, <2>2 DEF RunOrStep
    <2>3. ASSUME NEW a \in Memory, ToggleBreakpoint(a)
          PROVE  breakpoints' \subseteq Memory /\ internal_stop_at' = internal_stop_at /\ done' = done
      BY <2>1, <2>3 DEF ToggleBreakpoint, Command
    <2>4. CASE ClearBreakpoints \/ TtySource \/ Exit
      BY <2>1, <2>4 DEF ClearBreakpoints, TtySource, Exit, Command
    <2> QED
      BY <2>1, <2>2, <2>3, <2>4 DEF Operator
  <1>6. NumbersOK'
    BY <1>1, <1>2, <1>5 DEF NumbersOK, Prompt
  <1>7. NoOverrun' /\ TurnsCounted' /\ SeenAtPoll'
    BY <1>1, <1>2, <1>3 DEF Prompt, NoOverrun, Running, TurnsCounted, SeenAtPoll
  <1> QED
    BY <1>4, <1>6, <1>7 DEF MachineInv

(* The test of the flag lets no SIGINT past it. *)
LEMMA PollKeeps ==
  ASSUME MachineInv, Poll
  PROVE  MachineInv'
  <1>1. ControlOK /\ NumbersOK /\ NoOverrun /\ TurnsCounted /\ SeenAtPoll
    BY DEF MachineInv
  <1>2. ~ interrupted_by_console' /\ at = "poll" /\ at' \in {"stopped", "tty"}
    BY <1>1 DEF ControlOK, Poll, Return
  <1>3. ControlOK'
    BY <1>1 DEF ControlOK, Poll, Return, loop, history
  <1>4. NumbersOK'
    BY <1>1 DEF NumbersOK, Poll, loop, history
  <1>5. NoOverrun' /\ TurnsCounted' /\ SeenAtPoll'
    BY <1>1, <1>2 DEF NoOverrun, Running, TurnsCounted, SeenAtPoll, Poll, loop, history
  <1> QED
    BY <1>3, <1>4, <1>5 DEF MachineInv

(* A turn without tty_process counts itself, one with it starts anew. *)
LEMMA TtyKeeps ==
  ASSUME MachineInv, SkipTty \/ ServeTty \/ EndOfFile
  PROVE  MachineInv'
  <1>1. ControlOK /\ NumbersOK /\ NoOverrun /\ TurnsCounted /\ SeenAtPoll
    BY DEF MachineInv
  <1>2. at = "tty" /\ at' \in {"stopped", "cpu"}
    BY DEF SkipTty, ServeTty, EndOfFile, Return
  <1>3. ControlOK'
    BY <1>1 DEF ControlOK, SkipTty, ServeTty, EndOfFile, Return, history
  <1>4. tty_skip_count' \in 0..TtySkip /\ since' \in Nat /\ since' <= tty_skip_count'
    <2>1. tty_skip_count \in 0..TtySkip /\ since \in Nat /\ since <= tty_skip_count + 1
      BY <1>1 DEF NumbersOK, TurnsCounted
    <2>2. CASE SkipTty
      BY <2>1, <2>2, MachineAssumption DEF SkipTty, TtyDue, history
    <2>3. CASE ServeTty \/ EndOfFile
      BY <2>3, MachineAssumption DEF ServeTty, EndOfFile
    <2> QED
      BY <2>2, <2>3
  <1>5. UNCHANGED <<pc, breakpoints, internal_stop_at, single, interrupted_by_console, done, late>>
    BY DEF SkipTty, ServeTty, EndOfFile, history
  <1>6. NumbersOK'
    BY <1>1, <1>4, <1>5 DEF NumbersOK
  <1>7. NoOverrun' /\ SeenAtPoll'
    BY <1>1, <1>2, <1>5 DEF NoOverrun, Running, SeenAtPoll
  <1>8. TurnsCounted'
    <2>1. since' \in Nat /\ tty_skip_count' \in Nat /\ since' <= tty_skip_count'
      BY <1>4, MachineAssumption
    <2>2. \A a, b \in Nat : a <= b => a <= b + 1
      OBVIOUS
    <2> QED
      BY <1>4, <2>1, <2>2 DEF TurnsCounted
  <1> QED
    BY <1>3, <1>6, <1>7, <1>8 DEF MachineInv

(* The loop goes on only where Reason finds no reason to return. *)
LEMMA GoesOnOnlyIf ==
  ASSUME NEW next \in Memory, NEW halted \in BOOLEAN, Reason(next, halted) = ""
  PROVE  ~ halted /\ next \notin breakpoints /\ next # internal_stop_at /\ ~ single
  BY DEF Reason

LEMMA ExecuteKeeps ==
  ASSUME MachineInv, NEW next \in Memory, NEW halted \in BOOLEAN, Execute(next, halted)
  PROVE  MachineInv'
  <1>1. ControlOK /\ NumbersOK /\ TurnsCounted /\ SeenAtPoll
    BY DEF MachineInv
  <1>2. /\ at = "cpu" /\ at' \in {"poll", "stopped"}
        /\ state' \in {state, "H", "B", "P", "S"}
    BY DEF Execute, Return, Reason
  <1>3. /\ pc' = next /\ done' = 1 /\ since' = since + 1
        /\ UNCHANGED <<breakpoints, internal_stop_at, single, tty_skip_count,
                       interrupted_by_console, tty_read_from_file, asked>>
    BY DEF Execute, loop
  <1>4. ControlOK'
    BY <1>1, <1>2, <1>3 DEF ControlOK
  <1>5. late' \in Nat /\ (interrupted_by_console => late' = 1)
    <2>1. late \in Nat /\ (interrupted_by_console => late = 0)
      BY <1>1, <1>2 DEF NumbersOK, SeenAtPoll
    <2>2. late' = IF interrupted_by_console THEN late + 1 ELSE 0
      BY DEF Execute
    <2> QED
      BY <2>1, <2>2
  <1>6. NumbersOK'
    BY <1>1, <1>3, <1>5 DEF NumbersOK
  <1>7. NoOverrun'
    <2>1. CASE Reason(next, halted) = ""
      BY <1>3, <2>1, GoesOnOnlyIf DEF NoOverrun
    <2>2. CASE Reason(next, halted) # ""
      BY <2>2 DEF NoOverrun, Running, Execute, Return
    <2> QED
      BY <2>1, <2>2
  <1>8. TurnsCounted'
    BY <1>1, <1>2, <1>3 DEF TurnsCounted, NumbersOK
  <1>9. SeenAtPoll'
    BY <1>2, <1>3, <1>5 DEF SeenAtPoll
  <1> QED
    BY <1>4, <1>6, <1>7, <1>8, <1>9 DEF MachineInv

LEMMA NextMachineInv == MachineInv /\ [MachineNext]_machineVars => MachineInv'
  <1> SUFFICES ASSUME MachineInv, [MachineNext]_machineVars PROVE MachineInv'
    OBVIOUS
  <1>0. ControlOK /\ NumbersOK /\ NoOverrun /\ TurnsCounted /\ SeenAtPoll
    BY DEF MachineInv
  <1>1. CASE Operator
    BY <1>1, CommandKeeps
  <1>2. CASE Poll
    BY <1>2, PollKeeps
  <1>3. CASE SkipTty \/ ServeTty \/ EndOfFile
    BY <1>3, TtyKeeps
  <1>4. ASSUME NEW next \in Memory, NEW halted \in BOOLEAN, Execute(next, halted)
        PROVE  MachineInv'
    BY <1>4, ExecuteKeeps
  <1>5. CASE Report
    <2>1. ControlOK'
      BY <1>0, <1>5 DEF ControlOK, Report, loop, history
    <2>2. NumbersOK'
      BY <1>0, <1>5 DEF NumbersOK, Report, loop, history
    <2>3. NoOverrun' /\ TurnsCounted' /\ SeenAtPoll'
      BY <1>0, <1>5 DEF NoOverrun, Running, TurnsCounted, SeenAtPoll, Report, loop, history
    <2> QED
      BY <2>1, <2>2, <2>3 DEF MachineInv
  <1>6. CASE Sigint
    <2>1. ControlOK'
      BY <1>0, <1>6 DEF ControlOK, Running, Sigint, loop
    <2>2. NumbersOK'
      BY <1>0, <1>6 DEF NumbersOK, Sigint, loop
    <2>3. NoOverrun' /\ TurnsCounted' /\ SeenAtPoll'
      BY <1>0, <1>6 DEF NoOverrun, Running, TurnsCounted, SeenAtPoll, Sigint, loop
    <2> QED
      BY <2>1, <2>2, <2>3 DEF MachineInv
  <1>7. CASE UNCHANGED machineVars
    BY <1>0, <1>7 DEF MachineInv, ControlOK, NumbersOK, NoOverrun, Running, TurnsCounted,
                      SeenAtPoll, machineVars, loop, history
  <1> QED
    BY <1>1, <1>2, <1>3, <1>4, <1>5, <1>6, <1>7 DEF MachineNext, Program

LEMMA MachineInvAlways == MachineSpec => []MachineInv
  BY InitMachineInv, NextMachineInv, PTL DEF MachineSpec

-----------------------------------------------------------------------------
(* The loop and the console always have values of their types: the count   *)
(* of turns without tty_process never exceeds its limit.                   *)
THEOREM MachineTypeCorrect == MachineSpec => []MachineTypeOK
  <1>1. MachineInv => MachineTypeOK
    BY DEF MachineInv, ControlOK, NumbersOK, MachineTypeOK
  <1> QED
    BY <1>1, MachineInvAlways, PTL

(* machine_run never goes on over a breakpoint, whatever the operator sets *)
(* and clears between runs.                                                *)
THEOREM NeverOverruns == MachineSpec => []NoOverrun
  <1>1. MachineInv => NoOverrun
    BY DEF MachineInv
  <1> QED
    BY <1>1, MachineInvAlways, PTL

(* No more than TtySkip + 1 instructions go by between two calls of        *)
(* tty_process, across runs, single steps and interrupts.                  *)
THEOREM TerminalAlwaysServed == MachineSpec => []TerminalServed
  <1>1. MachineInv => TerminalServed
    BY MachineAssumption DEF MachineInv, NumbersOK, TurnsCounted, TerminalServed
  <1> QED
    BY <1>1, MachineInvAlways, PTL

(* At most one instruction is executed between a SIGINT and its test. *)
THEOREM SigintSeenSoon == MachineSpec => []StopsSoon
  <1>1. MachineInv => StopsSoon
    BY DEF MachineInv, SeenAtPoll, StopsSoon
  <1> QED
    BY <1>1, MachineInvAlways, PTL

-----------------------------------------------------------------------------
(* The refinement of the run control promise, step by step. *)
LEMMA PromiseInit == MachineInit => Promise!DebuggerInit
  BY DEF MachineInit, Promise!DebuggerInit, Running, Memory

LEMMA PromiseStep ==
  MachineInv /\ [MachineNext]_machineVars
    => [Promise!Go \/ Promise!ExecuteOne \/ Promise!BreakIn \/ Promise!Edit]_Promise!debugger
  <1> DEFINE Step == \/ Promise!Go \/ Promise!ExecuteOne \/ Promise!BreakIn \/ Promise!Edit
                     \/ UNCHANGED Promise!debugger
  <1> SUFFICES ASSUME MachineInv, [MachineNext]_machineVars PROVE Step
    OBVIOUS
  <1>0. NumbersOK /\ ControlOK
    BY DEF MachineInv
  (* run and step begin a run; the other commands edit, or do nothing. *)
  <1>1. ASSUME NEW one \in BOOLEAN, RunOrStep(one)
        PROVE  Step
    <2>1. Promise!Go
      BY <1>1 DEF RunOrStep, Prompt, Running, Promise!Go
    <2> QED
      BY <2>1
  <1>2. CASE ClearBreakpoints \/ \E a \in Memory : ToggleBreakpoint(a)
    <2>1. breakpoints' \subseteq Memory
      BY <1>0, <1>2 DEF NumbersOK, ToggleBreakpoint, ClearBreakpoints
    <2>2. ~ Running /\ ~ Running' /\ UNCHANGED <<pc, internal_stop_at, single>>
      BY <1>2 DEF ToggleBreakpoint, ClearBreakpoints, Command, Prompt, Running
    <2>3. Promise!Edit
      BY <2>1, <2>2 DEF Promise!Edit
    <2> QED
      BY <2>3
  <1>3. CASE TtySource \/ Exit \/ Sigint \/ SkipTty \/ ServeTty \/ Report
    <2>1. Running' = Running
      BY <1>3 DEF TtySource, Exit, Sigint, SkipTty, ServeTty, Report, Command, Prompt, Running
    <2>2. UNCHANGED <<pc, breakpoints, internal_stop_at, single>>
      BY <1>3 DEF TtySource, Exit, Sigint, SkipTty, ServeTty, Report, Command, Prompt, loop
    <2> QED
      BY <2>1, <2>2 DEF Promise!debugger
  (* A run ends at the test of the flag or at the end of the input file. *)
  <1>4. CASE Poll \/ EndOfFile
    <2>1. Running /\ UNCHANGED <<pc, breakpoints, internal_stop_at, single>>
      BY <1>4 DEF Poll, EndOfFile, Running, loop
    <2>2. CASE Running'
      BY <2>1, <2>2 DEF Promise!debugger
    <2>3. CASE ~ Running'
      BY <2>1, <2>3 DEF Promise!BreakIn
    <2> QED
      BY <2>2, <2>3
  (* An instruction that ends where the debugger must stop ends the run. *)
  <1>5. ASSUME NEW next \in Memory, NEW halted \in BOOLEAN, Execute(next, halted)
        PROVE  Step
    <2>1. Running /\ pc' = next /\ UNCHANGED <<breakpoints, internal_stop_at, single>>
      BY <1>5 DEF Execute, Running, loop
    <2>2. single \/ next \in breakpoints \cup ({internal_stop_at} \cap Memory)
            => Reason(next, halted) # ""
      BY GoesOnOnlyIf
    <2>3. Reason(next, halted) # "" => ~ Running'
      BY <1>5 DEF Execute, Return, Running
    <2>4. Promise!ExecuteOne
      BY <2>1, <2>2, <2>3 DEF Promise!ExecuteOne
    <2> QED
      BY <2>4
  <1>6. CASE UNCHANGED machineVars
    BY <1>6 DEF machineVars, loop, Running, Promise!debugger
  <1> QED
    BY <1>1, <1>2, <1>3, <1>4, <1>5, <1>6 DEF MachineNext, Program, Operator

(* The loop of machine_run and its commands do what the help texts say of  *)
(* run, step and break: every behaviour is one of Debugger.                *)
THEOREM RunControlKept == MachineSpec => KeepsPromise
  BY PromiseInit, PromiseStep, MachineInvAlways, PTL
     DEF KeepsPromise, Promise!DebuggerSpec, MachineSpec

=============================================================================
