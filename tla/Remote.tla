-------------------------------- MODULE Remote --------------------------------
(***************************************************************************)
(* The two-process build: 8con, the operator's console with the terminal,  *)
(* and 8srv, the machine, talking over a pseudo terminal.  The code is     *)
(* machine.c (both halves of every operation), serial_com.c, and from      *)
(* console.c the commands that use the line, the SIGINT handler and the    *)
(* end of the program.  The CPU is reduced to why it may stop the loop of  *)
(* machine_run (see Cpu), the terminal to when it reads or writes a byte   *)
(* (see Tty), and what is examined or deposited to its name (see Console), *)
(* except for the trace flag, which decides how runs end.                  *)
(*                                                                         *)
(* The line to the server carries single bytes, because a SIGINT can put a *)
(* break between any two of them.  Nothing interrupts the server, so the   *)
(* line to the client carries whole frames.  Names and keys may be special *)
(* characters, which send_cmd escapes.                                     *)
(***************************************************************************)
EXTENDS SerialCom

CONSTANTS
  Commands,        \* what the operator may enter
  Stops,           \* why the program may stop the machine: "H", "B"
  Keys,            \* what may be typed at the terminal
  Regs,            \* the registers print_regs examines, in order (ten)
  MaxCommands,     \* bound: commands entered
  MaxKeys,         \* bound: keys typed
  MaxBreaks,       \* bound: SIGINTs
  PtyFrames        \* bound: frames the pseudo terminal holds for the client

ASSUME RemoteAssumption ==
  /\ Commands \subseteq {"run", "step", "examine", "save", "restore", "trace", "halt", "exit"}
  /\ Stops \subseteq {"H", "B"}
  /\ Regs # <<>> /\ Regs \in Seq(Range(Regs)) /\ PtyFrames \in Nat \ {0}
  /\ "T" \notin Range(Regs)
  /\ MaxCommands \in Nat /\ MaxKeys \in Nat /\ MaxBreaks \in Nat

VARIABLES
  c2s, s2c,        \* the two directions of the pseudo terminal; each byte to
                   \* the server with the place it was written at, and after
  at,              \* client: where it waits
  todo,            \* client: frames that send_cmd has still to write
  place,           \* client: where it is in the first of them
  asked,           \* client: registers to examine, the first one is asked for
  resume,          \* client: what to send after the examines, or ""
  in_console,      \* client: a SIGINT is ignored
  told,            \* client: what the operator was told of the trace
  exit_on_HLT,     \* client: the command line option
  srv,             \* server: where it is
  rx,              \* server: recv_cmd
  single,          \* server: machine_run was called for one instruction
  trace, stop_at,  \* server: trace_instruction; internal_stop_at is set
  wrong,           \* history: an answer was not the one asked for
  raced,           \* history: a break came when nobody waited for its answer
  commands, breaks,    \* entered and interrupted so far
  typed, accepted      \* history: keys the client sent, keys tty_process got

client == <<at, todo, place, asked, resume, in_console, told, wrong, exit_on_HLT>>
mode == <<single, trace, stop_at>>
server == <<srv, rx, mode>>
counts == <<commands, breaks, typed, accepted>>
remoteVars == <<c2s, s2c, client, server, raced, counts>>

(* The content of a frame; only an examine is answered. *)
Examine(reg) == <<"E", reg>>
Deposit(reg) == <<"D", reg>>

(* Where send_cmd is: the frame, the index of the byte in it, whether its  *)
(* ESCAPE is written; within a break; and as history whether a break has   *)
(* cut the frame, and whether the server will read on from here, no break  *)
(* and no end of a file being without its 'C' by then.                     *)
Between ==
  [cmd |-> <<>>, index |-> 0, escaped |-> FALSE, half |-> FALSE, cut |-> FALSE, heard |-> TRUE]

(* console_setup may have sent the --stop_at address. *)
RemoteInit ==
  /\ c2s = <<>> /\ s2c = <<>>
  /\ at = "prompt" /\ todo \in {<<>>, <<Deposit("P")>>} /\ place = Between
  /\ asked = <<>> /\ resume = ""
  /\ in_console = TRUE /\ told = "off" /\ exit_on_HLT \in BOOLEAN
  /\ srv = "idle" /\ rx = Calling(<<>>)
  /\ single = FALSE /\ trace = "off" /\ stop_at = FALSE
  /\ wrong = FALSE /\ raced = FALSE
  /\ commands = 0 /\ breaks = 0 /\ typed = <<>> /\ accepted = <<>>

-----------------------------------------------------------------------------
(***************************************************************************)
(* The client.                                                             *)
(***************************************************************************)

(* The place after a byte that send_cmd writes of a frame. *)
AfterByte(cmd, p) ==
  IF p.index = 0 THEN [p EXCEPT !.cmd = cmd, !.index = 1]
  ELSE IF EscapeDue(cmd, p.index, p.escaped) THEN [p EXCEPT !.escaped = TRUE]
  ELSE IF p.index <= Len(cmd) THEN [p EXCEPT !.index = @ + 1, !.escaped = FALSE]
  ELSE [Between EXCEPT !.heard = (p.heard /\ cmd[1] # "EOF") \/ (cmd = <<"C">> /\ ~ p.cut)]

(* write_byte, for the frame being sent. *)
WriteByte ==
  /\ todo # <<>>
  /\ place' = AfterByte(Head(todo), place)
  /\ todo' = IF place'.index = 0 THEN Tail(todo) ELSE todo
  /\ c2s' = Append(c2s, [byte |-> ByteAt(Head(todo), place.index, place.escaped),
                        at |-> place, after |-> place'])
  /\ UNCHANGED <<s2c, at, asked, resume, in_console, told, wrong, exit_on_HLT>>
  /\ UNCHANGED <<server, raced, counts>>

(* send_console_break, twice: the places in it, and the frame it has cut.  *)
(* Both at once: a server that has read the first waits for the second, or *)
(* finds it in its next read.                                              *)
InBreak(k) ==
  CASE k = 0                 -> place
    [] k = Len(ConsoleBreak) -> [place EXCEPT !.cut = place.index > 0, !.heard = FALSE]
    [] OTHER                 -> [place EXCEPT !.half = TRUE]

SendBreak ==
  /\ c2s' = c2s \o [k \in 1..Len(ConsoleBreak) |->
                     [byte |-> ConsoleBreak[k], at |-> InBreak(k - 1), after |-> InBreak(k)]]
  /\ place' = InBreak(Len(ConsoleBreak))

(* signal_handler and machine_interrupt: in the middle of whatever the     *)
(* client does, a frame included; in_console is still down when it has     *)
(* left machine_run to print registers, and when that leads to exit, until *)
(* 'Q' is written.                                                         *)
Sigint ==
  /\ ~ in_console /\ (at = "exited" => todo # <<>>)
  /\ breaks < MaxBreaks /\ breaks' = breaks + 1
  /\ SendBreak
  /\ raced' = (raced \/ at # "running")
  /\ UNCHANGED <<s2c, at, todo, asked, resume, in_console, told, wrong, exit_on_HLT>>
  /\ UNCHANGED <<server, commands, typed, accepted>>

Enter(command) ==
  /\ at = "prompt" /\ todo = <<>>
  /\ command \in Commands
  /\ commands < MaxCommands /\ commands' = commands + 1
  /\ UNCHANGED <<s2c, told, wrong, exit_on_HLT, server, raced, breaks, typed, accepted>>

(* send_cmd is called for frames, one after the other. *)
Frames(frames) == todo' = frames /\ UNCHANGED <<c2s, place>>

(* Examines follow each other; then comes what "next" is to send. *)
Ask(regs, next) ==
  /\ at' = "asking" /\ asked' = regs /\ resume' = next
  /\ UNCHANGED in_console

(* machine_run sends 'R' or 'S'. "step" prints the registers first. *)
EnterRun ==
  /\ Enter("run")
  /\ at' = "running" /\ in_console' = FALSE
  /\ Frames(<< <<"R">> >>) /\ resume' = "R"
  /\ UNCHANGED asked

EnterStep == Enter("step") /\ Ask(Regs, "S") /\ Frames(<<Examine(Head(Regs))>>)
EnterExamine == Enter("examine") /\ Ask(<<Head(Regs)>>, "") /\ Frames(<<Examine(Head(Regs))>>)
EnterSave == Enter("save") /\ Ask(Regs, "") /\ Frames(<<Examine(Head(Regs))>>)

(* Deposits without an answer. *)
EnterRestore ==
  /\ Enter("restore")
  /\ Frames([i \in 1..Len(Regs) |-> Deposit(Regs[i])])
  /\ UNCHANGED <<at, asked, resume, in_console>>

(* machine_toggle_trace, then machine_examine_trace to tell the operator;  *)
(* breakpoints and deposits are a 'D' and an 'E' in the same way.          *)
EnterTrace == Enter("trace") /\ Ask(<<"T">>, "") /\ Frames(<<Deposit("T"), Examine("T")>>)

(* machine_halt: breaks without being in machine_run. *)
EnterHalt ==
  /\ Enter("halt")
  /\ at' = "halting"
  /\ SendBreak
  /\ UNCHANGED <<todo, asked, resume, in_console>>

(* exit_cleanup saves prev.core before machine_quit. *)
EnterExit == Enter("exit") /\ Ask(Regs, "Q") /\ Frames(<<Examine(Head(Regs))>>)

(* Mutant: the client leaves without a word. *)
QuitSilently == <<>>

machine_quit == << <<"Q">> >>

(* recv_cmd of the client: a frame has arrived. *)
Receive(where) ==
  /\ at = where /\ todo = <<>> /\ s2c # <<>>
  /\ s2c' = Tail(s2c)
  /\ UNCHANGED <<c2s, place, server, raced, commands, breaks, accepted>>

(* Mutant: machine_halt sends no 'C'. *)
HaltingSilently ==
  /\ Receive("halting")
  /\ at' = (IF Head(s2c)[1] = "I" THEN "prompt" ELSE at)
  /\ UNCHANGED <<todo, asked, resume, in_console, told, wrong, exit_on_HLT, typed>>

(* In machine_halt everything but the answer to the break is dropped. *)
Halting ==
  /\ Receive("halting")
  /\ IF Head(s2c)[1] = "I"
     THEN at' = "prompt" /\ todo' = << <<"C">> >>
     ELSE UNCHANGED <<at, todo>>
  /\ UNCHANGED <<asked, resume, in_console, told, wrong, exit_on_HLT, typed>>

(* The answer to an examine request: whatever comes is taken for it.  The  *)
(* last one leads back to the prompt, into the run that waits, or out.     *)
Answer ==
  /\ Receive("asking")
  /\ wrong' = (wrong \/ ~ IsPrefix(<<"=", Head(asked)>>, Head(s2c)))
  /\ told' = IF Head(asked) = "T" /\ Len(Head(s2c)) = 3 THEN Head(s2c)[3] ELSE told
  /\ asked' = Tail(asked)
  /\ CASE asked' # <<>> ->
            todo' = <<Examine(Head(asked'))>> /\ UNCHANGED <<at, in_console>>
       [] asked' = <<>> /\ resume \in {"R", "S"} ->
            todo' = << <<resume>> >> /\ at' = "running" /\ in_console' = FALSE
       [] asked' = <<>> /\ resume = "Q" ->
            todo' = machine_quit /\ at' = "exited" /\ UNCHANGED in_console
       [] OTHER -> todo' = todo /\ at' = "prompt" /\ in_console' = TRUE
  /\ UNCHANGED <<resume, exit_on_HLT, typed>>

(* machine_run returned: print_regs, still with in_console down, or the PC *)
(* after 'B'.  'P', and 'I' and 'H' with the option, go on to exit, which  *)
(* saves the registers once more.                                          *)
Reported(reason) == IF reason = "B" THEN <<Head(Regs)>> ELSE Regs
Exits(reason) == reason = "P" \/ (exit_on_HLT /\ reason \in {"I", "H"})

Stopped ==
  /\ Receive("running")
  /\ LET reason == Head(s2c)[1] IN
     /\ reason \in {"I", "H", "B", "P"}
     /\ IF Exits(reason) THEN Ask(Reported(reason) \o Regs, "Q") ELSE Ask(Reported(reason), "")
     /\ todo' = (IF reason = "I" THEN << <<"C">> >> ELSE <<>>) \o <<Examine(Head(Regs))>>
  /\ UNCHANGED <<told, wrong, exit_on_HLT, typed>>

Stepped ==
  /\ Receive("running")
  /\ Head(s2c)[1] = "S"
  /\ at' = "prompt" /\ in_console' = TRUE
  /\ UNCHANGED <<todo, asked, resume, told, wrong, exit_on_HLT, typed>>

(* 'D': console_trace_instruction examines the machine, then runs it again. *)
Traced ==
  /\ Receive("running")
  /\ Head(s2c)[1] = "D"
  /\ Ask(Regs, resume)
  /\ todo' = <<Examine(Head(Regs))>>
  /\ UNCHANGED <<told, wrong, exit_on_HLT, typed>>

(* 'TR': one byte of the keyboard; or nothing, or -1 at the end of the     *)
(* file that tty_source, entered at any prompt before, made the keyboard:  *)
(* then the second byte of the reply is whatever the variable holds.       *)
ReadKey ==
  /\ Receive("running")
  /\ Head(s2c) = <<"T", "R">>
  /\ \E key \in Keys :
       \/ /\ Len(typed) < MaxKeys
          /\ typed' = Append(typed, key)
          /\ todo' = << <<"1", key>> >>
       \/ /\ typed' = typed
          /\ \E result \in {"0", "EOF"} : todo' = << <<result, key>> >>
  /\ UNCHANGED <<at, asked, resume, in_console, told, wrong, exit_on_HLT>>

(* 'TW' writes to the terminal; any other frame falls through the switch. *)
WriteKey ==
  /\ Receive("running")
  /\ Head(s2c)[1] \notin {"I", "H", "B", "P", "S", "D"} /\ Head(s2c) # <<"T", "R">>
  /\ UNCHANGED <<client, typed>>

Client ==
  \/ WriteByte
  \/ Halting \/ Answer
  \/ Stopped \/ Stepped \/ Traced \/ ReadKey \/ WriteKey

Operator ==
  \/ EnterRun \/ EnterStep \/ EnterExamine \/ EnterSave \/ EnterRestore \/ EnterTrace
  \/ EnterHalt \/ EnterExit

-----------------------------------------------------------------------------
(***************************************************************************)
(* The server.                                                             *)
(***************************************************************************)
Send(frame) == Len(s2c) < PtyFrames /\ s2c' = Append(s2c, frame)

(* ack_console: tell the client, and wait for its 'C'. *)
AckConsole(buf) == Send(<<"I">>) /\ srv' = "ack" /\ rx' = Calling(buf)

(* One byte for the recv_cmd called at "where". *)
Read(where) ==
  /\ srv = where /\ c2s # <<>>
  /\ c2s' = Tail(c2s)
  /\ UNCHANGED <<client, commands, breaks, typed>>

GetByte(where) ==
  /\ Read(where)
  /\ Continues(rx, Head(c2s).byte)
  /\ rx' = read(rx, Head(c2s).byte)
  /\ UNCHANGED <<s2c, srv, mode, raced, accepted>>

GetBreak(where) == Read(where) /\ ReturnsBreak(rx, Head(c2s).byte)
GetFrame(where) == Read(where) /\ ReturnsFrame(rx, Head(c2s).byte) /\ UNCHANGED raced

Idle == GetByte("idle")

(* Who takes an 'I' for what it is: machine_halt, and machine_run unless   *)
(* an earlier frame ends it first.                                         *)
Expected ==
  \/ at = "halting"
  \/ at = "running" /\ \A i \in 1..Len(s2c) : s2c[i][1] \notin {"H", "B", "P", "S", "D"}

(* Mutant: the break is taken, and nobody told. *)
IdleBreakSilent ==
  /\ GetBreak("idle") /\ rx' = Calling(rx.buf)
  /\ raced' = (raced \/ ~ Expected)
  /\ UNCHANGED <<s2c, srv, mode, accepted>>

(* machine_srv outside a run: the break is acknowledged all the same. *)
IdleBreak ==
  /\ GetBreak("idle") /\ AckConsole(rx.buf)
  /\ raced' = (raced \/ ~ Expected)
  /\ UNCHANGED <<mode, accepted>>

(* The dispatch of machine_srv looks at the buffer, not at the length. *)
Command == IF rx.buf = <<>> THEN "" ELSE rx.buf[1]

Value(reg) == IF reg = "T" THEN <<"=", reg, trace>> ELSE <<"=", reg>>

Deposited(reg) ==
  /\ trace' = (IF reg # "T" THEN trace ELSE IF trace = "on" THEN "off" ELSE "on")
  /\ stop_at' = (stop_at \/ reg = "P")

Dispatch ==
  /\ GetFrame("idle")
  /\ rx' = Calling(rx.buf)
  /\ CASE Command \in {"R", "S"} ->
            srv' = "run" /\ single' = (Command = "S") /\ UNCHANGED <<s2c, trace, stop_at>>
       [] Command = "E" -> Send(Value(rx.buf[2])) /\ UNCHANGED <<srv, mode>>
       [] Command = "D" -> Deposited(rx.buf[2]) /\ UNCHANGED <<s2c, srv, single>>
       [] Command = "Q" -> srv' = "quit" /\ UNCHANGED <<s2c, mode>>
       [] OTHER -> srv' = "exited" /\ UNCHANGED <<s2c, mode>>
  /\ UNCHANGED accepted

(* machine_run: the break is looked for once in every turn of the loop, by *)
(* reading one byte, whatever it is.                                       *)
PollBreak ==
  /\ srv = "run" /\ c2s # <<>>
  /\ c2s' = Tail(c2s)
  /\ IF Head(c2s).byte = CONSOLE
     THEN AckConsole(rx.buf)
     ELSE srv' = "tty" /\ UNCHANGED <<s2c, rx>>
  /\ UNCHANGED <<client, mode, raced, counts>>

PollNothing ==
  /\ srv = "run" /\ c2s = <<>>
  /\ srv' = "tty"
  /\ UNCHANGED <<c2s, s2c, client, rx, mode, raced, counts>>

(* tty_process, when its turn has come and the keyboard flag is down. *)
AskKey ==
  /\ srv = "tty" /\ Send(<<"T", "R">>)
  /\ srv' = "key" /\ rx' = Calling(rx.buf)
  /\ UNCHANGED <<c2s, client, mode, raced, counts>>

KeyByte == GetByte("key")

(* read_tty_byte answers -1: tty_process and machine_run give up. *)
KeyBreak == GetBreak("key") /\ AckConsole(rx.buf) /\ UNCHANGED <<mode, raced, accepted>>

(* Mutant: the first byte of the answer is not looked at. *)
KeyFrameAlways ==
  /\ GetFrame("key")
  /\ srv' = "print" /\ rx' = Calling(rx.buf)
  /\ accepted' = Append(accepted, rx.buf[2])
  /\ UNCHANGED <<s2c, mode>>

(* An empty frame is no answer either, and -1 ends the run as a break does. *)
KeyFrame ==
  /\ GetFrame("key")
  /\ IF rx.len = 0 \/ rx.buf[1] = "EOF"
     THEN AckConsole(rx.buf) /\ UNCHANGED accepted
     ELSE /\ srv' = "print" /\ rx' = Calling(rx.buf) /\ s2c' = s2c
          /\ accepted' = IF rx.buf[1] = "1" THEN Append(accepted, rx.buf[2]) ELSE accepted
  /\ UNCHANGED mode

(* tty_process writes a byte, or has none pending, or is not called. *)
PrintKey ==
  /\ srv \in {"tty", "print"}
  /\ Send(<<"T", "W">>)
  /\ srv' = "cpu"
  /\ UNCHANGED <<c2s, client, rx, mode, raced, counts>>

NoPrint ==
  /\ srv \in {"tty", "print"}
  /\ srv' = "cpu"
  /\ UNCHANGED <<c2s, s2c, client, rx, mode, raced, counts>>

(* cpu_process: another turn of the loop, or machine_run returns and       *)
(* machine_srv sends the reason, in the receive buffer.                    *)
Turn ==
  /\ srv = "cpu" /\ ~ single /\ trace = "off"
  /\ srv' = "run"
  /\ UNCHANGED <<c2s, s2c, client, rx, mode, raced, counts>>

(* A halt or a breakpoint, the --stop_at address, a single step, a trace. *)
Reasons ==
  Stops \cup (IF stop_at THEN {"P"} ELSE {})
        \cup (IF single THEN {"S"} ELSE IF trace = "on" THEN {"D"} ELSE {})

Stop ==
  /\ srv = "cpu"
  /\ \E reason \in Reasons :
       Send(<<reason>>) /\ rx' = Calling(<<reason>> \o Tail(rx.buf))
  /\ srv' = "idle"
  /\ UNCHANGED <<c2s, client, mode, raced, counts>>

(* Everything but a 'C' is dropped, further breaks too. *)
AckByte == GetByte("ack")

(* Mutant: every break is answered. *)
AckEveryBreak ==
  /\ Read("ack")
  /\ ReturnsBreak(rx, Head(c2s).byte)
  /\ AckConsole(rx.buf)
  /\ UNCHANGED <<mode, raced, accepted>>

AckNothing ==
  /\ Read("ack")
  /\ \/ ReturnsBreak(rx, Head(c2s).byte)
     \/ ReturnsFrame(rx, Head(c2s).byte) /\ (rx.len = 0 \/ Command # "C")
  /\ rx' = Calling(rx.buf)
  /\ UNCHANGED <<s2c, srv, mode, raced, accepted>>

Acknowledged ==
  /\ GetFrame("ack") /\ rx.len > 0 /\ Command = "C"
  /\ srv' = "idle" /\ rx' = Calling(rx.buf)
  /\ UNCHANGED <<s2c, mode, accepted>>

Server ==
  \/ Idle \/ IdleBreak \/ Dispatch
  \/ PollBreak \/ PollNothing
  \/ AskKey \/ KeyByte \/ KeyBreak \/ KeyFrame \/ PrintKey \/ NoPrint
  \/ Turn \/ Stop
  \/ AckByte \/ AckNothing \/ Acknowledged

RemoteNext == Client \/ Sigint \/ Operator \/ Server

(* Both processes run on; the operator need not do anything.               *)
RemoteSpec ==
  /\ RemoteInit /\ [][RemoteNext]_remoteVars
  /\ WF_remoteVars(Client) /\ WF_remoteVars(Server)

-----------------------------------------------------------------------------
(***************************************************************************)
(* What the two processes promise each other, as long as no break comes    *)
(* when nobody waits for its answer: what that does is AckArrives.         *)
(***************************************************************************)
Registers == Range(Regs) \cup {"T"}
Characters ==
  Special \cup {"R", "S", "E", "D", "Q", "C", "P", "0", "1", "EOF"} \cup Registers \cup Keys

RemoteTypeOK ==
  /\ {item.byte : item \in Range(c2s)} \subseteq Characters
  /\ \A i \in 1..Len(todo) : Range(todo[i]) \subseteq Characters
  /\ Len(s2c) <= PtyFrames
  /\ at \in {"prompt", "running", "asking", "halting", "exited"}
  /\ asked \in Seq(Registers) /\ resume \in {"", "R", "S", "Q"}
  /\ in_console \in BOOLEAN /\ told \in {"on", "off"} /\ wrong \in BOOLEAN
  /\ exit_on_HLT \in BOOLEAN
  /\ single \in BOOLEAN /\ trace \in {"on", "off"} /\ stop_at \in BOOLEAN /\ raced \in BOOLEAN
  /\ srv \in {"idle", "run", "tty", "key", "print", "cpu", "ack", "quit", "exited"}
  /\ rx.state \in {"WAIT", "FRAME", "ESCAPED"} /\ rx.len <= Len(rx.buf)
  /\ typed \in Seq(Keys) /\ accepted \in Seq(Keys)

(* The operator is shown the register that was examined, never the reply   *)
(* to something else (every examine takes the next frame for its answer).  *)
AnswersMatch == ~ raced => ~ wrong

(* When the operator has the prompt and nothing is under way on the line,  *)
(* the machine is stopped and expects a command, and traces exactly if the *)
(* operator was told so: the two processes never disagree about who is in  *)
(* charge.                                                                 *)
Quiet == todo = <<>> /\ c2s = <<>> /\ s2c = <<>>
ModesAgree == at = "prompt" /\ Quiet /\ ~ raced => srv = "idle" /\ told = trace

(* The two processes never wait for each other: when nothing is under way, *)
(* the client waits only for a server that goes on, unless a break came    *)
(* when nobody waited for its answer.                                      *)
NeverBothWait ==
  Quiet /\ ~ raced /\ at # "prompt" => srv \in {"run", "tty", "print", "cpu", "quit"}

(* A command never comes from the bytes a former frame left in the static  *)
(* buffer of recv_cmd, and the server never gets one it does not know, on  *)
(* which it exits: breaks may cut a frame anywhere, and an empty frame is  *)
(* only ever read where it is ignored.                                     *)
NoStaleDispatch ==
  /\ srv # "exited"
  /\ srv = "idle" /\ c2s # <<>> /\ ReturnsFrame(rx, Head(c2s).byte) => rx.len > 0

(* tty_process gets the keys in the order typed and none twice; each break *)
(* loses at most one, and only one is ever on its way.                     *)
Subsequence(s, t) ==
  \E where \in [1..Len(s) -> 1..Len(t)] :
    /\ \A i \in 1..Len(s) : s[i] = t[where[i]]
    /\ \A i, j \in 1..Len(s) : i < j => where[i] < where[j]

KeysInOrder ==
  /\ Subsequence(accepted, typed)
  /\ Len(typed) <= Len(accepted) + breaks + (IF at = "prompt" /\ Quiet THEN 0 ELSE 1)

(* Every examine request and every halt command is answered: the operator  *)
(* gets the prompt back, or the run goes on that the requests belong to.   *)
Promptly == (at \in {"asking", "halting"}) ~> (at \in {"prompt", "running", "exited"} \/ raced)

(* A SIGINT that comes while a run is under way ends it, whatever is on    *)
(* the line: one of the two breaks is seen as a break.                     *)
BreakHonoured ==
  \A n \in 1..MaxCommands :
    [](at = "running" /\ commands = n /\ breaks < MaxBreaks
       => [](at = "running" /\ commands = n /\ breaks = MaxBreaks
             => <>(at \in {"prompt", "exited"} \/ raced)))

(* The server that awaits an acknowledge gets one. *)
AckArrives == (srv = "ack") ~> (srv # "ack")

(* When the operator leaves, so does the server. *)
QuitArrives == (at = "exited") ~> (srv = "quit" \/ raced)

(* No key is lost when the operator has the prompt again. *)
KeysComplete == at = "prompt" /\ Quiet => accepted = typed

=============================================================================
