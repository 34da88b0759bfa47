------------------------------ MODULE SerialLine ------------------------------
(***************************************************************************)
(* One direction of the line of serial_com.c with its faults: a process    *)
(* that sends frames byte by byte, interrupted by breaks between any two   *)
(* bytes, a line that may lose a byte, and a process that calls recv_cmd   *)
(* again and again.  The comment before recv_cmd reckons with both faults. *)
(* Two lost bytes in one frame are more than the framing can stand: when   *)
(* both the byte after an ESCAPE and the END_FRAME go, the next START_FRAME*)
(* is taken for that byte.                                                 *)
(***************************************************************************)
EXTENDS SerialCom, FiniteSets

CONSTANTS
  Contents,        \* what is sent in a frame
  MaxFrames,       \* bound: frames sent
  MaxDamage,       \* bound: frames that lose a byte, and breaks
  LineBytes        \* bound: bytes the line holds

ASSUME LineAssumption ==
  /\ Contents # {}
  /\ \A content \in Contents : content # <<>> /\ content \in Seq(Range(content))
  /\ MaxFrames \in Nat /\ MaxDamage \in Nat /\ LineBytes \in Nat \ {0}

VARIABLES
  place,           \* where send_cmd is: the frame, the index of the byte in it,
                   \* whether its ESCAPE is written, the break characters so far
  line,            \* the bytes under way, each with the place it was written
                   \* at and the place after it
  rx,              \* recv_cmd
  sent, received,  \* history: frames sent, and returned by recv_cmd
  lost, cut,       \* history: the bytes lost, the frames that a break cut
  breaks, broken   \* history: breaks sent, and returned by recv_cmd

history == <<sent, received, lost, cut, breaks, broken>>
lineVars == <<place, line, rx, history>>

LineInit ==
  /\ place = [frame |-> 1, index |-> 0, escaped |-> FALSE, chars |-> 0]
  /\ line = <<>> /\ rx = Calling(<<>>)
  /\ sent = <<>> /\ received = <<>> /\ lost = {} /\ cut = {}
  /\ breaks = 0 /\ broken = 0

(* send_cmd is called when the frame before is written. *)
SendFrame(content) ==
  /\ place.frame > Len(sent) /\ Len(sent) < MaxFrames
  /\ sent' = Append(sent, content)
  /\ UNCHANGED <<place, line, rx, received, lost, cut, breaks, broken>>

(* The byte send_cmd writes at a place, and where it is then. *)
FrameByte(p) == ByteAt(sent[p.frame], p.index, p.escaped)

AfterByte(p) ==
  IF EscapeDue(sent[p.frame], p.index, p.escaped) THEN [p EXCEPT !.escaped = TRUE]
  ELSE IF p.index <= Len(sent[p.frame])
    THEN [p EXCEPT !.index = @ + 1, !.escaped = FALSE]
    ELSE [p EXCEPT !.frame = @ + 1, !.index = 0, !.escaped = FALSE]

WriteByte ==
  /\ place.frame <= Len(sent) /\ Len(line) < LineBytes
  /\ place' = AfterByte(place)
  /\ line' = Append(line, [byte |-> FrameByte(place), at |-> place, after |-> place'])
  /\ UNCHANGED <<rx, history>>

(* The signal handler writes the break between any two bytes. *)
BreakPlace(k) == [place EXCEPT !.chars = @ + k]

SendBreak ==
  /\ breaks < MaxDamage
  /\ line' = line \o [k \in 1..Len(ConsoleBreak) |->
       [byte |-> ConsoleBreak[k], at |-> BreakPlace(k - 1), after |-> BreakPlace(k)]]
  /\ place' = BreakPlace(Len(ConsoleBreak))
  /\ breaks' = breaks + 1
  /\ cut' = IF place.index = 0 THEN cut ELSE cut \cup {place.frame}
  /\ UNCHANGED <<rx, sent, received, lost, broken>>

(* At most one byte of a frame gets lost, wherever it is. *)
Lossy == {byte.frame : byte \in lost}

LoseByte ==
  /\ line # <<>> /\ Cardinality(lost) < MaxDamage
  /\ LET p == Head(line).at IN
       /\ Head(line).after.chars = p.chars /\ p.frame \notin Lossy
       /\ lost' = lost \cup {[frame |-> p.frame, index |-> p.index]}
  /\ line' = Tail(line)
  /\ UNCHANGED <<place, rx, sent, received, cut, breaks, broken>>

ReadByte(byte) ==
  /\ Continues(rx, byte)
  /\ rx' = read(rx, byte)
  /\ UNCHANGED <<received, broken>>

ReadBreak(byte) ==
  /\ ReturnsBreak(rx, byte)
  /\ rx' = Calling(rx.buf)
  /\ broken' = broken + 1
  /\ UNCHANGED received

ReadFrame(byte, frame) ==
  /\ ReturnsFrame(rx, byte)
  /\ rx' = Calling(rx.buf)
  /\ received' = Append(received, [frame |-> frame, content |-> SubSeq(rx.buf, 1, rx.len)])
  /\ UNCHANGED broken

Receive ==
  /\ line # <<>> /\ line' = Tail(line)
  /\ LET byte == Head(line).byte IN
     ReadByte(byte) \/ ReadBreak(byte) \/ ReadFrame(byte, Head(line).at.frame)
  /\ UNCHANGED <<place, sent, lost, cut, breaks>>

LineNext ==
  \/ \E content \in Contents : SendFrame(content)
  \/ WriteByte \/ SendBreak \/ LoseByte
  \/ Receive

(* A frame begun is written to its end, and recv_cmd is called again.      *)
LineSpec ==
  /\ LineInit /\ [][LineNext]_lineVars
  /\ WF_lineVars(WriteByte) /\ WF_lineVars(Receive)

-----------------------------------------------------------------------------
(* Byte by byte, with its breaks and losses, the line is a channel: what   *)
(* recv_cmd returns is one frame, intact unless damaged itself, in order   *)
(* and once, whatever happened to the frames before it.                    *)
Abstract == INSTANCE Channel WITH
  damaged <- Lossy \cup cut,
  Bytes <- Special \cup UNION {Range(content) : content \in Contents}
IsChannel == Abstract!ChannelSpec

(* A frame that nothing happened to does arrive: the receiver finds the    *)
(* start of the next frame after every error ("wait for a new frame").     *)
Settled(k) ==
  /\ k <= Len(sent)
  /\ \/ k \in Lossy \cup cut
     \/ [frame |-> k, content |-> sent[k]] \in Range(received)

Resynchronises == \A k \in 1..MaxFrames : (k <= Len(sent)) ~> Settled(k)

(* recv_cmd stores into its buffer without looking at its size.  Frames    *)
(* lose their end, an END_FRAME or a break is stored after an ESCAPE, the  *)
(* rest of a frame meets the next: never more than two frames add up.      *)
BufferBounded ==
  \E first, second \in Contents : rx.len <= Len(first) + Len(second)

(* recv_cmd reports every break, though the ESCAPE before it may take one  *)
(* of its two characters for content.  It invents none as long as frames   *)
(* are whole: in the rest of a damaged one an escaped break looks like one.*)
BreaksReported ==
  /\ Lossy \cup cut = {} => broken <= 2 * breaks
  /\ line = <<>> => broken >= breaks

=============================================================================
