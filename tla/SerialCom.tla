------------------------------- MODULE SerialCom -------------------------------
(***************************************************************************)
(* The framing of serial_com.c: how an array of bytes becomes a frame on   *)
(* the line, and the receiver of recv_cmd, one byte at a time.  The four   *)
(* special characters are themselves; any other byte is any other value.   *)
(***************************************************************************)
EXTENDS Naturals, Sequences, SequencesExt

START_FRAME == "{"
END_FRAME   == "}"
ESCAPE      == "~"
CONSOLE     == "."

Special == {START_FRAME, END_FRAME, ESCAPE, CONSOLE}

(* send_cmd: the content with an ESCAPE before each special character. *)
Escaped(byte) == IF byte \in Special THEN <<ESCAPE, byte>> ELSE <<byte>>

send_cmd(cmd) ==
  <<START_FRAME>> \o FlattenSeq([i \in 1..Len(cmd) |-> Escaped(cmd[i])]) \o <<END_FRAME>>

(* The same a byte at a time, as write_byte is called: before byte "index" *)
(* of the content (0 stands for START_FRAME, the index past the last for   *)
(* END_FRAME), "escaped" when its ESCAPE has been written.                 *)
EscapeDue(cmd, index, escaped) ==
  index \in 1..Len(cmd) /\ cmd[index] \in Special /\ ~ escaped

ByteAt(cmd, index, escaped) ==
  CASE index = 0                         -> START_FRAME
    [] index = Len(cmd) + 1              -> END_FRAME
    [] EscapeDue(cmd, index, escaped)    -> ESCAPE
    [] OTHER                             -> cmd[index]

(* Mutant: the break sent once. *)
SingleBreak == <<CONSOLE>>

(* machine_interrupt and machine_halt send the break twice: one alone can  *)
(* be taken for the character that an ESCAPE announced.                    *)
ConsoleBreak == <<CONSOLE, CONSOLE>>

(***************************************************************************)
(* The receiver.  "len" and "state" are the locals of recv_cmd; "buf" is   *)
(* static and keeps the bytes of earlier frames.                           *)
(***************************************************************************)
Calling(buf) == [state |-> "WAIT", len |-> 0, buf |-> buf]

(* Mutant: a full buffer drops the byte and counts it. *)
StoreNothing(rx, byte) == [state |-> "FRAME", len |-> rx.len + 1, buf |-> rx.buf]

Store(rx, byte) ==
  [state |-> "FRAME",
   len   |-> rx.len + 1,
   buf   |-> IF rx.len < Len(rx.buf) THEN [rx.buf EXCEPT ![rx.len + 1] = byte]
                                     ELSE Append(rx.buf, byte)]

(* The byte after an ESCAPE: only special characters are escaped. *)
ReadEscaped(rx, byte) ==
  IF byte \in Special THEN Store(rx, byte) ELSE [rx EXCEPT !.state = "WAIT"]

(* Mutant: the start of a frame keeps what was read before. *)
ReadPlainOn(rx, byte) ==
  CASE byte = START_FRAME                        -> [rx EXCEPT !.state = "FRAME"]
    [] byte = ESCAPE /\ rx.state = "FRAME"       -> [rx EXCEPT !.state = "ESCAPED"]
    [] byte \notin Special /\ rx.state = "FRAME" -> Store(rx, byte)
    [] OTHER                                     -> rx

(* Mutant: a START_FRAME inside a frame is an error like any other. *)
ReadPlainStrict(rx, byte) ==
  CASE byte = START_FRAME -> [rx EXCEPT !.state = IF @ = "WAIT" THEN "FRAME" ELSE "WAIT", !.len = 0]
    [] byte = ESCAPE /\ rx.state = "FRAME"       -> [rx EXCEPT !.state = "ESCAPED"]
    [] byte \notin Special /\ rx.state = "FRAME" -> Store(rx, byte)
    [] OTHER                                     -> rx

(* Any other byte, when recv_cmd does not return on it. *)
ReadPlain(rx, byte) ==
  CASE byte = START_FRAME                        -> [rx EXCEPT !.state = "FRAME", !.len = 0]
    [] byte = ESCAPE /\ rx.state = "FRAME"       -> [rx EXCEPT !.state = "ESCAPED"]
    [] byte \notin Special /\ rx.state = "FRAME" -> Store(rx, byte)
    [] OTHER                                     -> rx

read(rx, byte) ==
  IF rx.state = "ESCAPED" THEN ReadEscaped(rx, byte) ELSE ReadPlain(rx, byte)

(* What makes recv_cmd return: -1 on a break, the length at an END_FRAME,  *)
(* whatever the state (the test in the source is of a constant).           *)
ReturnsBreak(rx, byte) == rx.state # "ESCAPED" /\ byte = CONSOLE
ReturnsFrame(rx, byte) == rx.state # "ESCAPED" /\ byte = END_FRAME
Continues(rx, byte)    == ~ ReturnsBreak(rx, byte) /\ ~ ReturnsFrame(rx, byte)

=============================================================================
