--------------------------- MODULE SerialLineProofs ---------------------------
(***************************************************************************)
(* What one direction of the line keeps for every content of the frames,   *)
(* every number of frames, breaks and lost bytes, and a line of any        *)
(* capacity.  The invariant follows the receiver through the frames: the   *)
(* place it has reached is that of the next byte under way, or the         *)
(* sender's when there is none.                                            *)
(***************************************************************************)
EXTENDS SerialLine, TLAPS, SequenceTheorems

Bytes == Special \cup UNION {Range(content) : content \in Contents}
Places == [frame : Nat, index : Nat, escaped : BOOLEAN, chars : Nat]
Items == [byte : Bytes, at : Places, after : Places]

Reached == IF line = <<>> THEN place ELSE Head(line).at
Half(p) == p.chars % 2 = 1
Damaged == Lossy \cup cut

(* Which bytes of a frame were lost: its START_FRAME, or a later one.      *)
Headless(k) == \E b \in lost : b.frame = k /\ b.index = 0
Torn(k) == \E b \in lost : b.frame = k /\ b.index > 0

LineTypes ==
  /\ place \in Places /\ line \in Seq(Items)
  /\ rx \in [state : {"WAIT", "FRAME", "ESCAPED"}, len : Nat, buf : Seq(Bytes)]
  /\ rx.len <= Len(rx.buf)
  /\ sent \in Seq(Contents) /\ received \in Seq([frame : Nat, content : Seq(Bytes)])
  /\ lost \subseteq [frame : Nat, index : Nat] /\ cut \subseteq Nat
  /\ breaks \in Nat /\ broken \in Nat

(* Places and bytes under way: one leads to the next, up to the sender.    *)
PlaceOK(p) ==
  /\ p.frame \in 1..Len(sent) + 1
  /\ IF p.frame <= Len(sent)
       THEN /\ p.index <= Len(sent[p.frame]) + 1
            /\ p.escaped => /\ p.index \in 1..Len(sent[p.frame])
                            /\ sent[p.frame][p.index] \in Special
       ELSE p.index = 0 /\ ~ p.escaped

ByteItem(item) ==
  /\ item.at.frame <= Len(sent) /\ ~ Half(item.at)
  /\ item.byte = FrameByte(item.at) /\ item.after = AfterByte(item.at)

BreakItem(item) ==
  /\ item.byte = CONSOLE /\ item.after = [item.at EXCEPT !.chars = @ + 1]
  /\ item.at.index > 0 => item.at.frame \in cut

LineOK ==
  /\ PlaceOK(place) /\ place.chars = 2 * breaks
  /\ \A k \in 1..Len(line) :
       /\ PlaceOK(line[k].at) /\ (ByteItem(line[k]) \/ BreakItem(line[k]))
       /\ line[k].at.frame <= place.frame /\ line[k].at.chars <= place.chars
       /\ line[k].after = IF k = Len(line) THEN place ELSE line[k + 1].at

(* What was lost lies behind the receiver, and is one byte of a frame.     *)
LossOK ==
  /\ \A b \in lost : /\ b.frame <= Reached.frame
                     /\ Reached.index = 0 => b.frame < Reached.frame
  /\ \A b, c \in lost : b.frame = c.frame => b = c

(* A frame that lost nothing after its start keeps the receiver in step:   *)
(* it waits for an escaped byte only where there is one.                   *)
InStep ==
  /\ Reached.index = 0 \/ Half(Reached) => rx.state # "ESCAPED"
  /\ Reached.index > 0 /\ ~ Torn(Reached.frame) =>
       /\ rx.state = "ESCAPED" => Reached.escaped
       /\ Reached.escaped /\ rx.state = "FRAME" => Half(Reached)

(* A frame nothing happened to is in the buffer as far as it has come.     *)
Exact ==
  Reached.index > 0 /\ Reached.frame \notin Damaged =>
    /\ rx.state = IF Reached.escaped THEN "ESCAPED" ELSE "FRAME"
    /\ rx.len = Reached.index - 1
    /\ \A k \in 1..rx.len : rx.buf[k] = sent[Reached.frame][k]

(* Frames were returned up to the one reached, but for the damaged ones.   *)
LatestFrame == IF received = <<>> THEN 0 ELSE Last(received).frame

Delivered ==
  /\ LatestFrame <= Reached.frame
  /\ LatestFrame = Reached.frame => Reached.frame \in Damaged
  /\ \A k \in LatestFrame + 1 .. Reached.frame - 1 : k \in Damaged

(* What is in the buffer, the byte an ESCAPE announced included: at most   *)
(* the frame so far, after the one before if its own start was lost.       *)
Fill == rx.len + (IF rx.state = "ESCAPED" THEN 1 ELSE 0)
Base(k) == IF k > 1 /\ Headless(k) THEN Len(sent[k - 1]) ELSE 0

Filled ==
  /\ Reached.index = 0 =>
       rx.len <= IF Reached.frame = 1 THEN 0 ELSE Len(sent[Reached.frame - 1])
  /\ Reached.index > 0 =>
       /\ Fill <= Base(Reached.frame) + Reached.index - (IF Reached.escaped THEN 0 ELSE 1)
       /\ Reached.escaped /\ rx.state = "FRAME" /\ ~ Half(Reached) =>
            rx.len < Base(Reached.frame) + Reached.index

(* Of the two characters of a break one at least is reported, and nothing  *)
(* else unless a frame is damaged.                                         *)
Reported ==
  /\ 2 * broken + (Reached.chars % 2) >= Reached.chars
  /\ Damaged = {} => broken <= Reached.chars

LineInv ==
  LineTypes /\ LineOK /\ LossOK /\ InStep /\ Exact /\ Delivered /\ Filled /\ Reported

-----------------------------------------------------------------------------
(* A content is a sequence of bytes, and has one.                          *)
LEMMA ContentBytes ==
  ASSUME NEW content \in Contents
  PROVE  content \in Seq(Bytes) /\ Len(content) \in Nat \ {0}
  <1>1. content \in Seq(Range(content)) /\ content # <<>>
    BY LineAssumption
  <1>2. Range(content) \subseteq Bytes
    BY DEF Bytes
  <1>3. content \in Seq(Bytes)
    BY <1>1, <1>2, SeqMonotonic
  <1> QED
    BY <1>1, <1>3, EmptySeq

LEMMA SentBytes ==
  ASSUME LineTypes, NEW k \in 1..Len(sent)
  PROVE  /\ sent[k] \in Contents
         /\ sent[k] \in Seq(Bytes) /\ Len(sent[k]) \in Nat /\ Len(sent[k]) > 0
         /\ \A i \in 1..Len(sent[k]) : sent[k][i] \in Bytes
  <1>1. sent[k] \in Contents
    BY ElementOfSeq DEF LineTypes
  <1>2. sent[k] \in Seq(Bytes) /\ Len(sent[k]) \in Nat \ {0}
    BY <1>1, ContentBytes
  <1> QED
    BY <1>1, <1>2, ElementOfSeq

LEMMA SpecialBytes == Special \subseteq Bytes
  BY DEF Bytes

(* The four special characters differ.                                     *)
LEMMA SpecialDiffer ==
  /\ START_FRAME # END_FRAME /\ START_FRAME # ESCAPE /\ START_FRAME # CONSOLE
  /\ END_FRAME # ESCAPE /\ END_FRAME # CONSOLE /\ ESCAPE # CONSOLE
  /\ Special = {START_FRAME, END_FRAME, ESCAPE, CONSOLE}
  BY DEF START_FRAME, END_FRAME, ESCAPE, CONSOLE, Special

-----------------------------------------------------------------------------
(* The bytes of a frame, one case per line of send_cmd.                    *)
Starts(item) ==
  /\ item.at.index = 0 /\ item.byte = START_FRAME
  /\ item.after = [item.at EXCEPT !.index = 1]

Escapes(item) ==
  /\ item.at.index \in 1..Len(sent[item.at.frame]) /\ item.byte = ESCAPE
  /\ ~ item.at.escaped
  /\ sent[item.at.frame][item.at.index] \in Special
  /\ item.after = [item.at EXCEPT !.escaped = TRUE]

Carries(item) ==
  /\ item.at.index \in 1..Len(sent[item.at.frame])
  /\ item.byte = sent[item.at.frame][item.at.index]
  /\ item.at.escaped <=> item.byte \in Special
  /\ item.after = [item.at EXCEPT !.index = @ + 1, !.escaped = FALSE]

Ends(item) ==
  /\ item.at.index = Len(sent[item.at.frame]) + 1 /\ item.byte = END_FRAME
  /\ ~ item.at.escaped
  /\ item.after = [item.at EXCEPT !.frame = @ + 1, !.index = 0]

LEMMA ByteKinds ==
  ASSUME LineTypes, NEW item \in Items, PlaceOK(item.at), ByteItem(item)
  PROVE  /\ Starts(item) \/ Escapes(item) \/ Carries(item) \/ Ends(item)
         /\ item.at.frame \in 1..Len(sent)
  <1> DEFINE p == item.at
             content == sent[p.frame]
  <1>1. p \in Places /\ p.frame \in 1..Len(sent)
    BY DEF Items, PlaceOK, ByteItem, Places
  <1>2. Len(content) \in Nat /\ Len(content) > 0
    BY <1>1, SentBytes
  <1>3. p.index <= Len(content) + 1 /\ p.index \in Nat
    BY <1>1, <1>2 DEF PlaceOK, Places
  <1>4. p.escaped => p.index \in 1..Len(content) /\ content[p.index] \in Special
    BY <1>1, <1>2 DEF PlaceOK
  <1>5. /\ item.byte = ByteAt(content, p.index, p.escaped)
        /\ item.after = AfterByte(p)
    BY DEF ByteItem, FrameByte
  <1>6. CASE p.index = 0
    <2>1. ~ p.escaped
      BY <1>4, <1>6
    <2>2. item.after = [p EXCEPT !.index = 1, !.escaped = FALSE]
      BY <1>2, <1>5, <1>6, <2>1 DEF AfterByte, EscapeDue
    <2>3. item.after = [p EXCEPT !.index = 1]
      BY <1>1, <2>1, <2>2 DEF Places
    <2>4. item.byte = START_FRAME
      BY <1>2, <1>5, <1>6 DEF ByteAt, EscapeDue
    <2> QED
      BY <1>1, <1>6, <2>3, <2>4 DEF Starts
  <1>7. CASE p.index = Len(content) + 1
    <2>1. ~ p.escaped
      BY <1>2, <1>4, <1>7
    <2>2. item.after = [p EXCEPT !.frame = @ + 1, !.index = 0, !.escaped = FALSE]
      BY <1>2, <1>5, <1>7, <2>1 DEF AfterByte, EscapeDue
    <2>3. item.after = [p EXCEPT !.frame = @ + 1, !.index = 0]
      BY <1>1, <2>1, <2>2 DEF Places
    <2>4. item.byte = END_FRAME
      BY <1>2, <1>5, <1>7 DEF ByteAt, EscapeDue
    <2> QED
      BY <1>1, <1>7, <2>1, <2>3, <2>4 DEF Ends
  <1>8. CASE p.index \in 1..Len(content)
    <2>1. p.index # 0 /\ p.index # Len(content) + 1 /\ p.index <= Len(content)
      BY <1>2, <1>8
    <2>2. CASE EscapeDue(content, p.index, p.escaped)
      BY <1>1, <1>5, <1>8, <2>1, <2>2 DEF Escapes, ByteAt, AfterByte, EscapeDue
    <2>3. CASE ~ EscapeDue(content, p.index, p.escaped)
      <3>1. item.byte = content[p.index]
        BY <1>5, <2>1, <2>3 DEF ByteAt
      <3>2. p.escaped <=> content[p.index] \in Special
        BY <1>4, <1>8, <2>3 DEF EscapeDue
      <3>3. item.after = [p EXCEPT !.index = @ + 1, !.escaped = FALSE]
        BY <1>5, <2>1, <2>3 DEF AfterByte
      <3> QED
        BY <1>1, <1>8, <3>1, <3>2, <3>3 DEF Carries
    <2> QED
      BY <2>2, <2>3
  <1> QED
    BY <1>2, <1>3, <1>6, <1>7, <1>8

-----------------------------------------------------------------------------
(* The first byte under way is the receiver's next one.                    *)
LEMMA ReachedOK ==
  ASSUME LineTypes, LineOK
  PROVE  /\ Reached \in Places /\ PlaceOK(Reached)
         /\ Reached.frame <= place.frame /\ Reached.chars <= place.chars
         /\ Half(Reached) => line # <<>>
  <1>1. CASE line = <<>>
    <2>1. place.chars = 2 * breaks /\ breaks \in Nat /\ place \in Places
      BY DEF LineTypes, LineOK
    <2>2. \A n \in Nat : (2 * n) % 2 # 1
      OBVIOUS
    <2>3. ~ Half(place)
      BY <2>1, <2>2 DEF Half
    <2> QED
      BY <1>1, <2>1, <2>3 DEF Reached, LineOK, Places
  <1>2. CASE line # <<>>
    <2>1. Head(line) = line[1] /\ Head(line) \in Items /\ 1 \in 1..Len(line)
      BY <1>2 DEF LineTypes
    <2> QED
      BY <1>2, <2>1 DEF Reached, LineOK, Items
  <1> QED
    BY <1>1, <1>2

LEMMA HeadOK ==
  ASSUME LineTypes, LineOK, line # <<>>
  PROVE  /\ Head(line) \in Items /\ Head(line).at = Reached
         /\ PlaceOK(Head(line).at)
         /\ ByteItem(Head(line)) \/ BreakItem(Head(line))
  <1>1. Head(line) = line[1] /\ Head(line) \in Items /\ 1 \in 1..Len(line)
    BY DEF LineTypes
  <1> QED
    BY <1>1 DEF Reached, LineOK

LEMMA Advance ==
  ASSUME LineTypes, LineOK, line # <<>>, line' = Tail(line),
         UNCHANGED <<place, sent, cut, breaks>>
  PROVE  /\ line' \in Seq(Items) /\ Reached' = Head(line).after /\ LineOK'
  <1>1. /\ Head(line) = line[1] /\ Len(line) \in Nat /\ Len(line) > 0
        /\ line' \in Seq(Items) /\ Len(line') = Len(line) - 1
        /\ \A k \in 1..Len(line') : line'[k] = line[k + 1]
    BY DEF LineTypes
  <1>2. \A k \in 1..Len(line') : k + 1 \in 1..Len(line)
    BY <1>1
  <1>3. line[1].after = IF Len(line) = 1 THEN place ELSE line[2].at
    <2>1. 1 \in 1..Len(line) /\ 1 + 1 = 2
      BY <1>1
    <2>2. line[1].after = IF 1 = Len(line) THEN place ELSE line[1 + 1].at
      BY <2>1 DEF LineOK
    <2> QED
      BY <2>1, <2>2
  <1>4. Reached' = Head(line).after
    <2>1. CASE Len(line) = 1
      <3>1. line' = <<>>
        BY <1>1, <2>1
      <3> QED
        BY <1>1, <1>3, <2>1, <3>1 DEF Reached
    <2>2. CASE Len(line) > 1
      <3>1. 1 \in 1..Len(line') /\ 1 + 1 = 2
        BY <1>1, <2>2
      <3>2. line'[1] = line[2]
        BY <1>1, <3>1
      <3>3. line' # <<>> /\ Head(line') = line'[1]
        <4>1. \A s \in Seq(Items) : 1 \in 1..Len(s) => s # <<>> /\ Head(s) = s[1]
          OBVIOUS
        <4> QED
          BY <1>1, <3>1, <4>1, Zenon
      <3> QED
        <4>1. Len(line) # 1
          BY <2>2
        <4> QED
          BY <1>1, <1>3, <3>2, <3>3, <4>1 DEF Reached
    <2> QED
      BY <1>1, <2>1, <2>2
  <1>5. PlaceOK(place)' /\ (place.chars = 2 * breaks)'
    BY DEF LineOK, PlaceOK
  <1>6. ASSUME NEW k \in 1..Len(line')
        PROVE  /\ PlaceOK(line[k].at)' /\ (ByteItem(line[k]) \/ BreakItem(line[k]))'
               /\ (line[k].at.frame <= place.frame /\ line[k].at.chars <= place.chars)'
    <2> DEFINE item == line[k + 1]
    <2>1. /\ PlaceOK(item.at) /\ (ByteItem(item) \/ BreakItem(item))
          /\ item.at.frame <= place.frame /\ item.at.chars <= place.chars
      BY <1>2, <1>6 DEF LineOK
    <2>2. line'[k] = item
      BY <1>1, <1>6
    <2> HIDE DEF item
    <2>3. PlaceOK(line[k].at)'
      BY <2>1, <2>2 DEF PlaceOK
    <2>4. ByteItem(item) => ByteItem(line[k])'
      BY <2>2 DEF ByteItem, FrameByte, AfterByte, Half
    <2>5. BreakItem(item) => BreakItem(line[k])'
      BY <2>2 DEF BreakItem
    <2> QED
      BY <2>1, <2>2, <2>3, <2>4, <2>5
  <1>7. ASSUME NEW k \in 1..Len(line')
        PROVE  line'[k].after = IF k = Len(line') THEN place ELSE line'[k + 1].at
    <2>1. line[k + 1].after = IF k + 1 = Len(line) THEN place ELSE line[(k + 1) + 1].at
      BY <1>2, <1>7 DEF LineOK
    <2>2. k + 1 = Len(line) <=> k = Len(line')
      BY <1>1, <1>7
    <2>3. k # Len(line') => k + 1 \in 1..Len(line')
      <3>1. \A i, n \in Nat : i \in 1..n /\ i # n => i + 1 \in 1..n
        OBVIOUS
      <3>2. k \in Nat /\ Len(line') \in Nat
        BY <1>1, <1>7
      <3> QED
        BY <1>7, <3>1, <3>2, Zenon
    <2>4. k # Len(line') => line'[k + 1] = line[(k + 1) + 1]
      BY <1>1, <2>3
    <2>5. line'[k] = line[k + 1]
      BY <1>1, <1>7
    <2>6. CASE k = Len(line')
      BY <2>1, <2>2, <2>5, <2>6
    <2>7. CASE k # Len(line')
      BY <2>1, <2>2, <2>4, <2>5, <2>7
    <2> QED
      BY <2>6, <2>7
  <1> QED
    BY <1>1, <1>4, <1>5, <1>6, <1>7 DEF LineOK

-----------------------------------------------------------------------------
(* What a byte does to the receiver, one case per branch of recv_cmd.      *)
GetsByte(byte) ==
  /\ IF rx.state = "ESCAPED" THEN byte \in Special ELSE rx.state = "FRAME" /\ byte \notin Special
  /\ rx'.state = "FRAME" /\ rx'.len = rx.len + 1
  /\ rx'.buf[rx.len + 1] = byte /\ \A k \in 1..rx.len : rx'.buf[k] = rx.buf[k]
  /\ UNCHANGED <<received, broken>>

GetsStart(byte) ==
  /\ rx.state # "ESCAPED" /\ byte = START_FRAME
  /\ rx'.state = "FRAME" /\ rx'.len = 0
  /\ UNCHANGED <<received, broken>>

GetsEscape(byte) ==
  /\ rx.state = "FRAME" /\ byte = ESCAPE
  /\ rx'.state = "ESCAPED" /\ rx'.len = rx.len /\ rx'.buf = rx.buf
  /\ UNCHANGED <<received, broken>>

Skips(byte) ==
  /\ IF rx.state = "ESCAPED" THEN byte \notin Special
     ELSE rx.state = "WAIT" /\ byte \in Bytes \ (Special \ {ESCAPE})
  /\ rx'.state = "WAIT" /\ rx'.len = rx.len
  /\ UNCHANGED <<received, broken>>

GetsBreak(byte) ==
  /\ rx.state # "ESCAPED" /\ byte = CONSOLE
  /\ rx'.state = "WAIT" /\ rx'.len = 0
  /\ broken' = broken + 1 /\ UNCHANGED received

GetsEnd(byte, frame) ==
  /\ rx.state # "ESCAPED" /\ byte = END_FRAME
  /\ rx'.state = "WAIT" /\ rx'.len = 0
  /\ received' = Append(received, [frame |-> frame, content |-> SubSeq(rx.buf, 1, rx.len)])
  /\ UNCHANGED broken

RxTypes ==
  /\ rx \in [state : {"WAIT", "FRAME", "ESCAPED"}, len : Nat, buf : Seq(Bytes)]
  /\ rx.len <= Len(rx.buf)

LEMMA Stored ==
  ASSUME RxTypes, NEW byte \in Bytes, rx' = Store(rx, byte)
  PROVE  /\ RxTypes' /\ rx'.state = "FRAME" /\ rx'.len = rx.len + 1
         /\ rx'.buf[rx.len + 1] = byte /\ \A k \in 1..rx.len : rx'.buf[k] = rx.buf[k]
  <1>1. rx.buf \in Seq(Bytes) /\ rx.len \in Nat /\ Len(rx.buf) \in Nat /\ rx.len <= Len(rx.buf)
    BY DEF RxTypes
  <1>2. CASE rx.len < Len(rx.buf)
    <2>1. rx.len + 1 \in 1..Len(rx.buf)
      BY <1>1, <1>2
    <2>2. rx'.buf = [rx.buf EXCEPT ![rx.len + 1] = byte]
      BY <1>2 DEF Store
    <2>3. /\ rx'.buf \in Seq(Bytes) /\ Len(rx'.buf) = Len(rx.buf)
          /\ \A k \in 1..Len(rx.buf) : rx'.buf[k] = IF k = rx.len + 1 THEN byte ELSE rx.buf[k]
      BY <1>1, <2>1, <2>2, ExceptSeq
    <2> QED
      BY <1>1, <1>2, <2>1, <2>3 DEF RxTypes, Store
  <1>3. CASE rx.len = Len(rx.buf)
    <2>1. rx'.buf = Append(rx.buf, byte)
      BY <1>3 DEF Store
    <2>2. /\ rx'.buf \in Seq(Bytes) /\ Len(rx'.buf) = Len(rx.buf) + 1
          /\ rx'.buf[Len(rx.buf) + 1] = byte
          /\ \A k \in 1..Len(rx.buf) : rx'.buf[k] = rx.buf[k]
      BY <1>1, <2>1
    <2> QED
      BY <1>1, <1>3, <2>2 DEF RxTypes, Store
  <1> QED
    BY <1>1, <1>2, <1>3

LEMMA Reads ==
  ASSUME RxTypes, NEW byte \in Bytes, NEW frame,
         ReadByte(byte) \/ ReadBreak(byte) \/ ReadFrame(byte, frame)
  PROVE  /\ RxTypes'
         /\ \/ GetsByte(byte) \/ GetsStart(byte) \/ GetsEscape(byte) \/ Skips(byte)
            \/ GetsBreak(byte) \/ GetsEnd(byte, frame)
  <1> USE SpecialDiffer
  <1>1. CASE ReadBreak(byte)
    BY <1>1 DEF ReadBreak, ReturnsBreak, Calling, RxTypes, GetsBreak
  <1>2. CASE ReadFrame(byte, frame)
    BY <1>2 DEF ReadFrame, ReturnsFrame, Calling, RxTypes, GetsEnd
  <1>3. CASE ReadByte(byte) /\ rx.state = "ESCAPED"
    <2>1. rx' = ReadEscaped(rx, byte) /\ UNCHANGED <<received, broken>>
      BY <1>3 DEF ReadByte, read
    <2>2. CASE byte \in Special
      <3>1. rx' = Store(rx, byte)
        BY <2>1, <2>2 DEF ReadEscaped
      <3> QED
        BY <1>3, <2>1, <2>2, <3>1, Stored DEF GetsByte
    <2>3. CASE byte \notin Special
      BY <1>3, <2>1, <2>3 DEF ReadEscaped, RxTypes, Skips
    <2> QED
      BY <2>2, <2>3
  <1>4. CASE ReadByte(byte) /\ rx.state # "ESCAPED"
    <2>1. rx' = ReadPlain(rx, byte) /\ UNCHANGED <<received, broken>>
      BY <1>4 DEF ReadByte, read
    <2>2. byte # CONSOLE /\ byte # END_FRAME
      BY <1>4 DEF ReadByte, Continues, ReturnsBreak, ReturnsFrame
    <2>3. rx.state = "WAIT" \/ rx.state = "FRAME"
      BY <1>4 DEF RxTypes
    <2>4. CASE byte = START_FRAME
      <3>1. rx' = [rx EXCEPT !.state = "FRAME", !.len = 0]
        BY <2>1, <2>4 DEF ReadPlain
      <3>2. /\ rx' \in [state : {"WAIT", "FRAME", "ESCAPED"}, len : Nat, buf : Seq(Bytes)]
            /\ rx'.state = "FRAME" /\ rx'.len = 0 /\ rx'.buf = rx.buf
        BY <3>1 DEF RxTypes
      <3>3. Len(rx.buf) \in Nat
        BY DEF RxTypes
      <3>4. RxTypes'
        BY <3>2, <3>3 DEF RxTypes
      <3> QED
        BY <1>4, <2>1, <2>4, <3>2, <3>4 DEF GetsStart
    <2>5. CASE byte = ESCAPE /\ rx.state = "FRAME"
      <3>1. rx' = [rx EXCEPT !.state = "ESCAPED"]
        BY <2>1, <2>5 DEF ReadPlain
      <3> QED
        BY <2>1, <2>5, <3>1 DEF RxTypes, GetsEscape
    <2>6. CASE byte \notin Special /\ rx.state = "FRAME"
      <3>1. rx' = Store(rx, byte)
        BY <2>1, <2>6 DEF ReadPlain
      <3> QED
        BY <1>4, <2>1, <2>6, <3>1, Stored DEF GetsByte
    <2>7. CASE rx.state = "WAIT" /\ byte # START_FRAME
      <3>1. rx' = rx
        BY <2>1, <2>7 DEF ReadPlain
      <3> QED
        BY <2>1, <2>2, <2>7, <3>1 DEF RxTypes, Skips
    <2> QED
      BY <2>2, <2>3, <2>4, <2>5, <2>6, <2>7
  <1> QED
    BY <1>1, <1>2, <1>3, <1>4

-----------------------------------------------------------------------------
(* The first byte under way is taken off the line, and recv_cmd gets it.   *)
Kept == LossOK /\ InStep /\ Exact /\ Delivered /\ Filled /\ Reported

Outcome(item) ==
  \/ GetsByte(item.byte) \/ GetsStart(item.byte) \/ GetsEscape(item.byte)
  \/ Skips(item.byte) \/ GetsBreak(item.byte) \/ GetsEnd(item.byte, item.at.frame)

Gets(item) ==
  /\ item.at = Reached /\ Reached' = item.after /\ UNCHANGED <<sent, lost, cut>>
  /\ Outcome(item)

(* Numbers that the cases share. *)
LEMMA Numbers ==
  ASSUME LineTypes, LineOK, Reached \in Places, PlaceOK(Reached)
  PROVE  /\ Reached.frame \in Nat /\ Reached.frame > 0 /\ Reached.index \in Nat
         /\ Reached.escaped \in BOOLEAN /\ Reached.chars \in Nat
         /\ Reached.chars % 2 \in {0, 1}
         /\ rx.len \in Nat /\ rx.state \in {"WAIT", "FRAME", "ESCAPED"} /\ broken \in Nat
         /\ Base(Reached.frame) \in Nat
         /\ LatestFrame \in Nat
  <1>1. Reached.frame \in 1..Len(sent) + 1 /\ Reached.frame \in Nat /\ Reached.index \in Nat
        /\ Reached.escaped \in BOOLEAN /\ Reached.chars \in Nat
    BY DEF Places, PlaceOK
  <1>2. Reached.chars % 2 \in {0, 1}
    <2>1. \A n \in Nat : n % 2 \in {0, 1}
      OBVIOUS
    <2> QED
      BY <1>1, <2>1
  <1>3. Base(Reached.frame) \in Nat
    <2>1. CASE Reached.frame > 1
      <3>1. Len(sent) \in Nat
        BY DEF LineTypes
      <3>2. Reached.frame - 1 \in 1..Len(sent)
        BY <1>1, <2>1, <3>1
      <3>3. Len(sent[Reached.frame - 1]) \in Nat
        BY <3>2, SentBytes
      <3> QED
        BY <3>3 DEF Base
    <2>2. CASE ~ Reached.frame > 1
      BY <2>2 DEF Base
    <2> QED
      BY <2>1, <2>2
  <1>4. LatestFrame \in Nat
    <2>1. CASE received # <<>>
      <3>1. received \in Seq([frame : Nat, content : Seq(Bytes)])
        BY DEF LineTypes
      <3>2. Len(received) \in 1..Len(received)
        BY <2>1, <3>1
      <3>3. received[Len(received)] \in [frame : Nat, content : Seq(Bytes)]
        BY <3>1, <3>2, ElementOfSeq
      <3> QED
        BY <2>1, <3>3 DEF LatestFrame, Last
    <2> QED
      BY <2>1 DEF LatestFrame
  <1> QED
    BY <1>1, <1>2, <1>3, <1>4 DEF LineTypes

(* After an END_FRAME the latest frame is the one it was taken for. *)
LEMMA LatestAfter ==
  ASSUME LineTypes
  PROVE  /\ UNCHANGED received => LatestFrame' = LatestFrame
         /\ \A byte, frame : GetsEnd(byte, frame) => LatestFrame' = frame
  <1>1. UNCHANGED received => LatestFrame' = LatestFrame
    BY DEF LatestFrame
  <1>2. ASSUME NEW byte, NEW frame, GetsEnd(byte, frame)
        PROVE  LatestFrame' = frame
    <2> DEFINE r == [frame |-> frame, content |-> SubSeq(rx.buf, 1, rx.len)]
    <2>1. received' = Append(received, r) /\ r.frame = frame
      BY <1>2 DEF GetsEnd
    <2> HIDE DEF r
    <2>2. received \in Seq([frame : Nat, content : Seq(Bytes)])
      BY DEF LineTypes
    <2>3. Len(received') = Len(received) + 1 /\ received'[Len(received) + 1] = r
          /\ Len(received) \in Nat
      BY <2>1, <2>2
    <2>4. received' # <<>>
      BY <2>3
    <2> QED
      BY <2>1, <2>3, <2>4 DEF LatestFrame, Last
  <1> QED
    BY <1>1, <1>2

LEMMA StartRead ==
  ASSUME NEW item, LineTypes, LineOK, Kept, Reached \in Places, PlaceOK(Reached),
         Gets(item), Starts(item)
  PROVE  Kept'
  <1> USE SpecialDiffer, Numbers
  <1>1. /\ item.byte = START_FRAME /\ Reached.index = 0
        /\ Reached' = [Reached EXCEPT !.index = 1]
    BY DEF Gets, Starts
  <1>2. /\ Reached'.frame = Reached.frame /\ Reached'.index = 1
        /\ Reached'.escaped = FALSE /\ Reached'.chars = Reached.chars
    BY <1>1 DEF Places, PlaceOK
  <1>3. rx.state # "ESCAPED"
    BY <1>1 DEF Kept, InStep
  <1>4. GetsStart(item.byte)
    BY <1>1, <1>3 DEF Gets, Outcome, GetsByte, GetsEscape, Skips, GetsBreak, GetsEnd
  <1>5. rx'.state = "FRAME" /\ rx'.len = 0 /\ UNCHANGED <<received, broken, sent, lost, cut>>
    BY <1>4 DEF GetsStart, Gets
  <1>6. LossOK'
    BY <1>1, <1>2, <1>5 DEF Kept, LossOK
  <1>7. InStep'
    BY <1>2, <1>5 DEF InStep
  <1>8. Exact'
    BY <1>2, <1>5 DEF Exact
  <1>9. Delivered'
    BY <1>2, <1>5 DEF Kept, Delivered, LatestFrame, Damaged, Lossy
  <1>10. Filled'
    <2>1. Base(Reached.frame)' = Base(Reached.frame)
      BY <1>2, <1>5 DEF Base, Headless
    <2>2. Fill' = 0
      BY <1>5 DEF Fill
    <2> QED
      BY <1>2, <1>5, <2>1, <2>2 DEF Filled
  <1>11. Reported'
    BY <1>2, <1>5 DEF Kept, Reported, Damaged, Lossy
  <1> QED
    BY <1>6, <1>7, <1>8, <1>9, <1>10, <1>11 DEF Kept

LEMMA EscapeRead ==
  ASSUME NEW item, LineTypes, LineOK, Kept, Reached \in Places, PlaceOK(Reached),
         Gets(item), Escapes(item), ~ Half(Reached)
  PROVE  Kept'
  <1> USE SpecialDiffer, Numbers
  <1>1. /\ item.byte = ESCAPE /\ Reached.index > 0 /\ Reached.escaped = FALSE
        /\ Reached' = [Reached EXCEPT !.escaped = TRUE]
    BY DEF Gets, Escapes
  <1>2. /\ Reached'.frame = Reached.frame /\ Reached'.index = Reached.index
        /\ Reached'.escaped = TRUE /\ Reached'.chars = Reached.chars
    BY <1>1 DEF Places
  <1>3. UNCHANGED <<received, broken, sent, lost, cut>> /\ ~ Half(Reached)'
    <2>1. UNCHANGED <<received, broken, sent, lost, cut>>
      BY <1>1 DEF Gets, Outcome, GetsByte, GetsStart, GetsEscape, Skips, GetsBreak, GetsEnd
    <2> QED
      BY <1>2, <2>1 DEF Half
  <1>4. \/ rx.state = "ESCAPED" /\ rx'.state = "FRAME" /\ rx'.len = rx.len + 1
        \/ /\ rx.state = "FRAME" /\ rx'.state = "ESCAPED"
           /\ rx'.len = rx.len /\ rx'.buf = rx.buf
        \/ rx.state = "WAIT" /\ rx'.state = "WAIT" /\ rx'.len = rx.len
    BY <1>1 DEF Gets, Outcome, GetsByte, GetsStart, GetsEscape, Skips, GetsBreak, GetsEnd
  <1>5. Torn(Reached.frame)' <=> Torn(Reached.frame)
    BY <1>2, <1>3 DEF Torn
  <1>6. LossOK'
    BY <1>2, <1>3 DEF Kept, LossOK
  <1>7. InStep'
    <2>1. ~ Torn(Reached.frame) => rx.state # "ESCAPED"
      BY <1>1 DEF Kept, InStep
    <2>2. ~ Torn(Reached.frame)' => rx'.state # "FRAME"
      BY <1>4, <1>5, <2>1
    <2> QED
      BY <1>1, <1>2, <1>3, <2>2 DEF InStep
  <1>8. Exact'
    <2>1. ASSUME Reached.frame \notin Damaged
          PROVE  /\ rx.state = "FRAME" /\ rx.len = Reached.index - 1
                 /\ \A k \in 1..rx.len : rx.buf[k] = sent[Reached.frame][k]
      BY <1>1, <2>1 DEF Kept, Exact
    <2>2. Damaged' = Damaged
      BY <1>3 DEF Damaged, Lossy
    <2> QED
      BY <1>2, <1>3, <1>4, <2>1, <2>2 DEF Exact
  <1>9. Delivered'
    BY <1>2, <1>3 DEF Kept, Delivered, LatestFrame, Damaged, Lossy
  <1>10. Filled'
    <2>1. Base(Reached.frame)' = Base(Reached.frame)
      BY <1>2, <1>3 DEF Base, Headless
    <2>2. Fill <= Base(Reached.frame) + Reached.index - 1
      BY <1>1 DEF Kept, Filled
    <2>3. Fill' <= Base(Reached.frame) + Reached.index
      BY <1>4, <2>2 DEF Fill
    <2>4. rx'.state = "FRAME" => rx'.len < Base(Reached.frame) + Reached.index
      BY <1>4, <2>2 DEF Fill
    <2> QED
      BY <1>1, <1>2, <2>1, <2>3, <2>4 DEF Filled
  <1>11. Reported'
    BY <1>2, <1>3 DEF Kept, Reported, Damaged, Lossy
  <1> QED
    BY <1>6, <1>7, <1>8, <1>9, <1>10, <1>11 DEF Kept

LEMMA ByteRead ==
  ASSUME NEW item, LineTypes, LineOK, Kept, Reached \in Places, PlaceOK(Reached),
         Gets(item), Carries(item), ~ Half(Reached)
  PROVE  Kept'
  <1> USE SpecialDiffer, Numbers
  <1> DEFINE f == Reached.frame
             i == Reached.index
  <1>1. /\ i > 0 /\ item.byte = sent[f][i]
        /\ Reached.escaped <=> item.byte \in Special
        /\ Reached' = [Reached EXCEPT !.index = @ + 1, !.escaped = FALSE]
    BY DEF Gets, Carries
  <1>2. /\ Reached'.frame = f /\ Reached'.index = i + 1
        /\ Reached'.escaped = FALSE /\ Reached'.chars = Reached.chars
    BY <1>1 DEF Places
  <1>3. UNCHANGED <<sent, lost, cut>> /\ ~ Half(Reached)' /\ Damaged' = Damaged
    <2>1. UNCHANGED <<sent, lost, cut>>
      BY DEF Gets
    <2> QED
      BY <1>2, <2>1 DEF Half, Damaged, Lossy
  <1>4. Outcome(item)
    BY DEF Gets
  <1>5. f \notin Damaged =>
          /\ GetsByte(item.byte) /\ rx.len = i - 1
          /\ \A k \in 1..rx.len : rx.buf[k] = sent[f][k]
    <2> SUFFICES ASSUME f \notin Damaged
                 PROVE  /\ GetsByte(item.byte) /\ rx.len = i - 1
                        /\ \A k \in 1..rx.len : rx.buf[k] = sent[f][k]
      OBVIOUS
    <2>1. /\ rx.state = IF Reached.escaped THEN "ESCAPED" ELSE "FRAME"
          /\ rx.len = i - 1 /\ \A k \in 1..rx.len : rx.buf[k] = sent[f][k]
      BY <1>1 DEF Kept, Exact
    <2>2. IF rx.state = "ESCAPED" THEN item.byte \in Special
          ELSE rx.state = "FRAME" /\ item.byte \notin Special
      BY <1>1, <2>1
    <2>3. GetsByte(item.byte)
      BY <1>4, <2>2 DEF Outcome, GetsStart, GetsEscape, Skips, GetsBreak, GetsEnd
    <2> QED
      BY <2>1, <2>3
  <1>6. LossOK'
    BY <1>2, <1>3 DEF Kept, LossOK
  <1>7. InStep'
    <2>1. rx'.state = "ESCAPED" => GetsEscape(item.byte)
      BY <1>4 DEF Outcome, GetsByte, GetsStart, Skips, GetsBreak, GetsEnd
    <2>2. GetsEscape(item.byte) => Torn(f)
      BY <1>1 DEF Kept, InStep, GetsEscape
    <2>3. Torn(f)' <=> Torn(f)
      BY <1>2, <1>3 DEF Torn
    <2> QED
      BY <1>2, <1>3, <2>1, <2>2, <2>3 DEF InStep
  <1>8. Exact'
    <2> SUFFICES ASSUME f \notin Damaged
                 PROVE  /\ rx'.state = "FRAME" /\ rx'.len = i
                        /\ \A k \in 1..i : rx'.buf[k] = sent[f][k]
      BY <1>2, <1>3 DEF Exact
    <2>1. /\ rx'.state = "FRAME" /\ rx'.len = i
          /\ rx'.buf[i] = sent[f][i] /\ \A k \in 1..i - 1 : rx'.buf[k] = sent[f][k]
      BY <1>1, <1>5 DEF GetsByte
    <2> QED
      BY <2>1
  <1>9. Delivered'
    <2>1. CASE UNCHANGED received
      BY <1>2, <1>3, <2>1, LatestAfter DEF Kept, Delivered
    <2>2. CASE GetsEnd(item.byte, f)
      <3>1. LatestFrame' = f
        BY <2>2, LatestAfter
      <3>2. f \in Damaged
        BY <1>5, <2>2 DEF GetsByte, GetsEnd
      <3> QED
        BY <1>2, <1>3, <3>1, <3>2 DEF Delivered
    <2>3. UNCHANGED received \/ GetsEnd(item.byte, f)
      BY <1>4 DEF Gets, Outcome, GetsByte, GetsStart, GetsEscape, Skips, GetsBreak
    <2> QED
      BY <2>1, <2>2, <2>3
  <1>10. Filled'
    <2>1. Base(f)' = Base(f)
      BY <1>2, <1>3 DEF Base, Headless
    <2>2. Fill <= Base(f) + i - (IF Reached.escaped THEN 0 ELSE 1)
      BY <1>1 DEF Kept, Filled
    <2>3. Reached.escaped /\ rx.state = "FRAME" => rx.len < Base(f) + i
      BY <1>1 DEF Kept, Filled
    <2>4. CASE GetsByte(item.byte)
      <3>1. Fill' = rx.len + 1
        BY <2>4 DEF GetsByte, Fill
      <3>2. rx.len + 1 <= Base(f) + i
        BY <1>1, <2>2, <2>4 DEF GetsByte, Fill
      <3> QED
        BY <1>1, <1>2, <2>1, <2>4, <3>1, <3>2 DEF Filled
    <2>5. CASE GetsEscape(item.byte)
      <3>1. Fill' = rx.len + 1
        BY <2>5 DEF GetsEscape, Fill
      <3>2. rx.len + 1 <= Base(f) + i
        BY <1>1, <2>3, <2>5 DEF GetsEscape
      <3> QED
        BY <1>1, <1>2, <2>1, <3>1, <3>2 DEF Filled
    <2>6. CASE Skips(item.byte)
      <3>1. Fill' <= Fill /\ Fill' \in Nat
        BY <2>6 DEF Skips, Fill
      <3> QED
        BY <1>1, <1>2, <2>1, <2>2, <3>1 DEF Filled, Fill
    <2>7. CASE rx'.len = 0 /\ rx'.state # "ESCAPED"
      <3>1. Fill' = 0
        BY <2>7 DEF Fill
      <3> QED
        BY <1>1, <1>2, <2>1, <3>1 DEF Filled
    <2> QED
      BY <1>4, <2>4, <2>5, <2>6, <2>7 DEF Outcome, GetsStart, GetsBreak, GetsEnd
  <1>11. Reported'
    <2>1. CASE UNCHANGED broken
      BY <1>2, <1>3, <2>1 DEF Kept, Reported
    <2>2. CASE broken' = broken + 1 /\ ~ GetsByte(item.byte)
      <3>1. Damaged # {}
        BY <1>5, <2>2
      <3> QED
        BY <1>2, <1>3, <2>2, <3>1 DEF Kept, Reported
    <2>3. UNCHANGED broken \/ (broken' = broken + 1 /\ ~ GetsByte(item.byte))
      BY <1>4 DEF Outcome, GetsByte, GetsStart, GetsEscape, Skips, GetsBreak, GetsEnd
    <2> QED
      BY <2>1, <2>2, <2>3
  <1> QED
    BY <1>6, <1>7, <1>8, <1>9, <1>10, <1>11 DEF Kept

LEMMA EndRead ==
  ASSUME NEW item, LineTypes, LineOK, Kept, Reached \in Places, PlaceOK(Reached),
         Gets(item), Ends(item), ~ Half(Reached), Reached.frame \in 1..Len(sent)
  PROVE  Kept'
  <1> USE SpecialDiffer, Numbers
  <1> DEFINE f == Reached.frame
             n == Len(sent[f])
  <1>1. /\ Reached.index = n + 1 /\ item.byte = END_FRAME /\ Reached.escaped = FALSE
        /\ Reached' = [Reached EXCEPT !.frame = @ + 1, !.index = 0]
    BY DEF Gets, Ends
  <1>2. /\ Reached'.frame = f + 1 /\ Reached'.index = 0
        /\ Reached'.escaped = FALSE /\ Reached'.chars = Reached.chars
    BY <1>1 DEF Places
  <1>3. UNCHANGED <<sent, lost, cut>> /\ ~ Half(Reached)' /\ Damaged' = Damaged
    <2>1. UNCHANGED <<sent, lost, cut>>
      BY DEF Gets
    <2> QED
      BY <1>2, <2>1 DEF Half, Damaged, Lossy
  <1>4. n \in Nat /\ n > 0 /\ sent[f] \in Seq(Bytes)
    BY SentBytes
  <1>5. \/ /\ rx.state = "ESCAPED" /\ rx'.state = "FRAME" /\ rx'.len = rx.len + 1
           /\ UNCHANGED <<received, broken>>
        \/ GetsEnd(item.byte, f)
    BY <1>1 DEF Gets, Outcome, GetsByte, GetsStart, GetsEscape, Skips, GetsBreak
  <1>6. rx.state = "ESCAPED" => Torn(f) /\ f \in Damaged
    <2>1. rx.state = "ESCAPED" => Torn(f)
      BY <1>1, <1>4 DEF Kept, InStep
    <2>2. Torn(f) => f \in Damaged
      BY DEF Torn, Damaged, Lossy
    <2> QED
      BY <2>1, <2>2
  <1>7. LossOK'
    <2>1. \A b \in lost : b.frame \in Nat /\ b.frame <= f
      BY DEF Kept, LossOK, LineTypes
    <2>2. \A b \in lost : b.frame <= f + 1 /\ b.frame < f + 1
      BY <2>1
    <2> QED
      BY <1>2, <1>3, <2>2 DEF Kept, LossOK
  <1>8. InStep'
    BY <1>2, <1>3, <1>5 DEF InStep, GetsEnd
  <1>9. Exact'
    BY <1>2 DEF Exact
  <1>10. Delivered'
    <2>1. CASE GetsEnd(item.byte, f)
      <3>1. LatestFrame' = f
        BY <2>1, LatestAfter
      <3> QED
        BY <1>2, <3>1 DEF Delivered
    <2>2. CASE rx.state = "ESCAPED" /\ UNCHANGED received
      <3>1. LatestFrame' = LatestFrame
        BY <2>2, LatestAfter
      <3>2. LatestFrame <= f /\ \A k \in LatestFrame + 1 .. f - 1 : k \in Damaged
        BY DEF Kept, Delivered
      <3>3. \A k \in LatestFrame + 1 .. (f + 1) - 1 : k \in Damaged
        <4> SUFFICES ASSUME NEW k \in LatestFrame + 1 .. (f + 1) - 1 PROVE k \in Damaged
          OBVIOUS
        <4>1. k = f \/ k \in LatestFrame + 1 .. f - 1
          OBVIOUS
        <4> QED
          BY <1>6, <2>2, <3>2, <4>1
      <3> QED
        BY <1>2, <1>3, <3>1, <3>2, <3>3 DEF Delivered
    <2> QED
      BY <1>5, <2>1, <2>2
  <1>11. Filled'
    <2>1. rx'.len <= n
      <3>1. CASE rx.state = "ESCAPED" /\ rx'.len = rx.len + 1
        <4>1. ~ Headless(f)
          BY <1>6, <3>1 DEF Torn, Headless, Kept, LossOK
        <4>2. Base(f) = 0
          BY <4>1 DEF Base
        <4>3. Reached.index > 0
          BY <1>1, <1>4
        <4>4. Fill <= Base(f) + Reached.index - 1
          BY <1>1, <4>3 DEF Kept, Filled
        <4> QED
          BY <1>1, <1>4, <3>1, <4>2, <4>4 DEF Fill
      <3>2. CASE rx'.len = 0
        BY <1>4, <3>2
      <3> QED
        BY <1>5, <3>1, <3>2 DEF GetsEnd
    <2>2. (f + 1) - 1 = f /\ f + 1 # 1
      OBVIOUS
    <2> QED
      BY <1>2, <1>3, <2>1, <2>2 DEF Filled
  <1>12. Reported'
    BY <1>2, <1>3, <1>5 DEF Kept, Reported, GetsEnd
  <1> QED
    BY <1>7, <1>8, <1>9, <1>10, <1>11, <1>12 DEF Kept

LEMMA BreakRead ==
  ASSUME NEW item, LineTypes, LineOK, Kept, Reached \in Places, PlaceOK(Reached),
         Gets(item), BreakItem(item)
  PROVE  Kept'
  <1> USE SpecialDiffer, Numbers
  <1>1. /\ item.byte = CONSOLE /\ Reached' = [Reached EXCEPT !.chars = @ + 1]
        /\ Reached.index > 0 => Reached.frame \in cut
    BY DEF Gets, BreakItem
  <1>2. /\ Reached'.frame = Reached.frame /\ Reached'.index = Reached.index
        /\ Reached'.escaped = Reached.escaped /\ Reached'.chars = Reached.chars + 1
    BY <1>1 DEF Places
  <1>3. UNCHANGED <<sent, lost, cut, received>> /\ Damaged' = Damaged
    <2>1. UNCHANGED <<sent, lost, cut>>
      BY DEF Gets
    <2>2. UNCHANGED received
      BY <1>1 DEF Gets, Outcome, GetsByte, GetsStart, GetsEscape, Skips, GetsBreak, GetsEnd
    <2> QED
      BY <2>1, <2>2 DEF Damaged, Lossy
  <1>4. Half(Reached)' <=> ~ Half(Reached)
    <2>1. \A k \in Nat : (k + 1) % 2 = 1 <=> k % 2 # 1
      OBVIOUS
    <2> QED
      BY <1>2, <2>1 DEF Half
  <1>5. \/ /\ rx.state = "ESCAPED" /\ rx'.state = "FRAME" /\ rx'.len = rx.len + 1
           /\ broken' = broken
        \/ /\ rx.state # "ESCAPED" /\ rx'.state = "WAIT" /\ rx'.len = 0
           /\ broken' = broken + 1
    BY <1>1 DEF Gets, Outcome, GetsByte, GetsStart, GetsEscape, Skips, GetsBreak, GetsEnd
  <1>6. LossOK'
    BY <1>2, <1>3 DEF Kept, LossOK
  <1>7. rx.state = "ESCAPED" => ~ Half(Reached) /\ Reached.index # 0
    BY DEF Kept, InStep
  <1>8. InStep'
    BY <1>2, <1>4, <1>5, <1>7 DEF InStep
  <1>9. Exact'
    BY <1>1, <1>2, <1>3 DEF Exact, Damaged
  <1>10. Delivered'
    <2>1. LatestFrame' = LatestFrame
      BY <1>3, LatestAfter
    <2> QED
      BY <1>2, <1>3, <2>1 DEF Kept, Delivered
  <1>11. Filled'
    <2>1. Base(Reached.frame)' = Base(Reached.frame)
      BY <1>2, <1>3 DEF Base, Headless
    <2>2. CASE rx.state = "ESCAPED" /\ rx'.state = "FRAME" /\ rx'.len = rx.len + 1
      <3>1. Reached.index > 0 /\ Half(Reached)'
        BY <1>4, <1>7, <2>2
      <3>2. Fill' = Fill
        BY <2>2 DEF Fill
      <3> QED
        BY <1>2, <2>1, <3>1, <3>2 DEF Kept, Filled
    <2>3. CASE rx'.state = "WAIT" /\ rx'.len = 0
      <3>1. Fill' = 0
        BY <2>3 DEF Fill
      <3>2. Reached.index = 0 =>
              0 <= IF Reached.frame = 1 THEN 0 ELSE Len(sent[Reached.frame - 1])
        <4>1. Reached.frame # 1 => Reached.frame - 1 \in 1..Len(sent)
          BY DEF PlaceOK, LineTypes
        <4>2. Reached.frame # 1 => Len(sent[Reached.frame - 1]) \in Nat
          BY <4>1, SentBytes
        <4> QED
          BY <4>2
      <3> QED
        BY <1>2, <1>3, <2>1, <2>3, <3>1, <3>2 DEF Filled
    <2> QED
      BY <1>5, <2>2, <2>3
  <1>12. Reported'
    <2>1. 2 * broken + (Reached.chars % 2) >= Reached.chars
      BY DEF Kept, Reported
    <2>2. 2 * broken' + (Reached'.chars % 2) >= Reached'.chars
      <3>1. CASE ~ Half(Reached) /\ broken' = broken
        <4>1. Reached.chars % 2 = 0 /\ Reached'.chars % 2 = 1
          BY <1>4, <3>1 DEF Half
        <4> QED
          BY <1>2, <2>1, <3>1, <4>1
      <3>2. CASE broken' = broken + 1
        <4>1. Reached'.chars % 2 \in {0, 1}
          BY <1>2
        <4>2. \A b, c, h, g \in Nat :
                2 * b + h >= c /\ h \in {0, 1} /\ g \in {0, 1} => 2 * (b + 1) + g >= c + 1
          OBVIOUS
        <4> QED
          BY <1>2, <2>1, <3>2, <4>1, <4>2
      <3> QED
        BY <1>5, <1>7, <3>1, <3>2
    <2>3. Damaged = {} => broken' <= Reached'.chars
      BY <1>2, <1>5 DEF Kept, Reported
    <2> QED
      BY <1>3, <2>2, <2>3 DEF Reported
  <1> QED
    BY <1>6, <1>8, <1>9, <1>10, <1>11, <1>12 DEF Kept

-----------------------------------------------------------------------------
LEMMA ReceiveKeeps ==
  ASSUME LineInv, Receive
  PROVE  LineInv'
  <1> DEFINE item == Head(line)
  <1>1. LineTypes /\ LineOK /\ Kept
    BY DEF LineInv, Kept
  <1>2. /\ line # <<>> /\ line' = Tail(line) /\ UNCHANGED <<place, sent, lost, cut, breaks>>
        /\ \/ ReadByte(item.byte) \/ ReadBreak(item.byte)
           \/ ReadFrame(item.byte, item.at.frame)
    BY DEF Receive
  <1>3. /\ item \in Items /\ item.at = Reached /\ PlaceOK(item.at)
        /\ ByteItem(item) \/ BreakItem(item)
    BY <1>1, <1>2, HeadOK
  <1>4. line' \in Seq(Items) /\ Reached' = item.after /\ LineOK'
    BY <1>1, <1>2, Advance
  <1>5. item.byte \in Bytes /\ Reached \in Places /\ PlaceOK(Reached) /\ RxTypes
    BY <1>1, <1>3 DEF Items, LineTypes, RxTypes
  <1> HIDE DEF item
  <1>6. RxTypes' /\ Outcome(item)
    BY <1>2, <1>5, Reads DEF Outcome
  <1>7. Gets(item)
    BY <1>2, <1>3, <1>4, <1>6 DEF Gets
  <1>8. Kept'
    <2>1. CASE BreakItem(item)
      BY <1>1, <1>5, <1>7, <2>1, BreakRead
    <2>2. CASE ByteItem(item)
      <3>1. /\ Starts(item) \/ Escapes(item) \/ Carries(item) \/ Ends(item)
            /\ Reached.frame \in 1..Len(sent) /\ ~ Half(Reached)
        BY <1>1, <1>3, <2>2, ByteKinds DEF ByteItem
      <3> QED
        BY <1>1, <1>5, <1>7, <3>1, StartRead, EscapeRead, ByteRead, EndRead
    <2> QED
      BY <1>3, <2>1, <2>2
  <1>9. LineTypes'
    <2>1. broken' \in Nat
      BY <1>1, <1>6 DEF Outcome, GetsByte, GetsStart, GetsEscape, Skips, GetsBreak, GetsEnd,
                        LineTypes
    <2>2. received' \in Seq([frame : Nat, content : Seq(Bytes)])
      <3>1. received \in Seq([frame : Nat, content : Seq(Bytes)])
        BY <1>1 DEF LineTypes
      <3>2. CASE UNCHANGED received
        BY <3>1, <3>2
      <3>3. CASE GetsEnd(item.byte, item.at.frame)
        <4>1. SubSeq(rx.buf, 1, rx.len) \in Seq(Bytes)
          <5>1. \A k \in 1..rx.len : rx.buf[k] \in Bytes
            BY <1>5 DEF RxTypes
          <5>2. rx.len \in Int
            BY <1>5 DEF RxTypes
          <5> QED
            BY <5>1, <5>2, SubSeqProperties
        <4>2. item.at.frame \in Nat
          BY <1>3, <1>5 DEF Places
        <4> QED
          BY <3>1, <3>3, <4>1, <4>2 DEF GetsEnd
      <3> QED
        BY <1>6, <3>2, <3>3 DEF Outcome, GetsByte, GetsStart, GetsEscape, Skips, GetsBreak
    <2> QED
      BY <1>1, <1>2, <1>4, <1>6, <2>1, <2>2 DEF LineTypes, RxTypes
  <1> QED
    BY <1>4, <1>8, <1>9 DEF LineInv, Kept

(* A lost byte counts as one that was passed over. *)
LEMMA LoseByteKeeps ==
  ASSUME LineInv, LoseByte
  PROVE  LineInv'
  <1> DEFINE item == Head(line)
             f == Reached.frame
             i == Reached.index
             b0 == [frame |-> f, index |-> i]
  <1> USE Numbers
  <1>1. LineTypes /\ LineOK /\ Kept
    BY DEF LineInv, Kept
  <1>2. /\ line # <<>> /\ line' = Tail(line)
        /\ UNCHANGED <<place, rx, sent, received, cut, breaks, broken>>
        /\ item.after.chars = item.at.chars
        /\ item.at.frame \notin Lossy
        /\ lost' = lost \cup {[frame |-> item.at.frame, index |-> item.at.index]}
    BY DEF LoseByte
  <1>3. /\ item \in Items /\ item.at = Reached /\ PlaceOK(item.at)
        /\ ByteItem(item) \/ BreakItem(item)
    BY <1>1, <1>2, HeadOK
  <1>4. line' \in Seq(Items) /\ Reached' = item.after /\ LineOK'
    BY <1>1, <1>2, Advance
  <1>5. Reached \in Places /\ PlaceOK(Reached)
    BY <1>3 DEF Items
  <1> HIDE DEF item
  <1>6. ~ BreakItem(item)
    <2> SUFFICES ASSUME BreakItem(item) PROVE FALSE
      OBVIOUS
    <2>1. item.after.chars = item.at.chars + 1
      BY <1>3, <1>5 DEF BreakItem, Places
    <2> QED
      BY <1>2, <1>3, <1>5, <2>1 DEF Places
  <1>7. /\ Starts(item) \/ Escapes(item) \/ Carries(item) \/ Ends(item)
        /\ f \in 1..Len(sent) /\ ~ Half(Reached)
    BY <1>1, <1>3, <1>6, ByteKinds DEF ByteItem
  <1>8. \/ /\ i = 0 /\ Reached'.frame = f /\ Reached'.index = 1 /\ ~ Reached'.escaped
        \/ /\ i > 0 /\ ~ Reached.escaped
           /\ Reached'.frame = f /\ Reached'.index = i /\ Reached'.escaped
        \/ i > 0 /\ Reached'.frame = f /\ Reached'.index = i + 1 /\ ~ Reached'.escaped
        \/ /\ i = Len(sent[f]) + 1 /\ ~ Reached.escaped
           /\ Reached'.frame = f + 1 /\ Reached'.index = 0
    <2>1. CASE Starts(item)
      BY <1>3, <1>4, <1>5, <2>1 DEF Starts, Places, PlaceOK
    <2>2. CASE Escapes(item)
      BY <1>3, <1>4, <1>5, <2>2 DEF Escapes, Places
    <2>3. CASE Carries(item)
      BY <1>3, <1>4, <1>5, <2>3 DEF Carries, Places
    <2>4. CASE Ends(item)
      BY <1>3, <1>4, <1>5, <2>4 DEF Ends, Places
    <2> QED
      BY <1>7, <2>1, <2>2, <2>3, <2>4
  <1>9. Reached'.chars = Reached.chars /\ ~ Half(Reached)'
    BY <1>2, <1>3, <1>4, <1>7 DEF Half
  <1>10. /\ lost' = lost \cup {b0} /\ b0.frame = f /\ b0.index = i
         /\ \A b \in lost : b.frame # f
         /\ ~ Headless(f) /\ ~ Torn(f) /\ Base(f) = 0
    BY <1>2, <1>3 DEF Lossy, Headless, Torn, Base
  <1> HIDE DEF b0
  <1>11. f > 0 /\ Len(sent[f]) \in Nat /\ f \in Nat /\ i \in Nat
    BY <1>1, <1>5, <1>7, SentBytes
  <1>12. Damaged' = Damaged \cup {f}
    BY <1>2, <1>10 DEF Damaged, Lossy
  <1>13. LineTypes'
    <2>1. b0 \in [frame : Nat, index : Nat]
      BY <1>11 DEF b0
    <2> QED
      BY <1>1, <1>2, <1>4, <1>10, <2>1 DEF LineTypes
  <1>14. LossOK'
    <2>1. \A b \in lost : b.frame \in Nat /\ b.frame <= f /\ b.frame < f + 1 /\ b.frame <= f + 1
      BY <1>1, <1>11 DEF Kept, LossOK, LineTypes
    <2>2. \A b \in lost' : b.frame <= Reached'.frame /\ (Reached'.index = 0 => b.frame < Reached'.frame)
      BY <1>8, <1>10, <1>11, <2>1
    <2>3. \A b, c \in lost' : b.frame = c.frame => b = c
      BY <1>1, <1>10 DEF Kept, LossOK
    <2> QED
      BY <2>2, <2>3 DEF LossOK
  <1>15. InStep'
    <2>1. Reached'.frame = f /\ i > 0 => Torn(Reached.frame)'
      <3>1. b0 \in lost'
        BY <1>10
      <3> QED
        BY <1>10, <3>1 DEF Torn
    <2>2. i = 0 => rx.state # "ESCAPED"
      BY <1>1 DEF Kept, InStep
    <2>3. i > 0 /\ ~ Reached.escaped => rx.state # "ESCAPED"
      BY <1>1, <1>10 DEF Kept, InStep
    <2>4. CASE Reached'.frame = f /\ i > 0 /\ Reached'.index > 0
      BY <1>9, <2>1, <2>4 DEF InStep
    <2>5. CASE i = 0 /\ Reached'.index = 1 /\ ~ Reached'.escaped
      BY <1>2, <1>9, <2>2, <2>5 DEF InStep
    <2>6. CASE Reached'.index = 0 /\ rx.state # "ESCAPED"
      BY <1>2, <1>9, <2>6 DEF InStep
    <2> QED
      BY <1>8, <1>11, <2>3, <2>4, <2>5, <2>6
  <1>16. Exact'
    BY <1>8, <1>11, <1>12 DEF Exact
  <1>17. Delivered'
    <2>1. LatestFrame' = LatestFrame /\ LatestFrame \in Nat
      BY <1>1, <1>2, <1>5, LatestAfter
    <2>2. LatestFrame <= f /\ \A k \in LatestFrame + 1 .. f - 1 : k \in Damaged
      BY <1>1 DEF Kept, Delivered
    <2>3. CASE Reached'.frame = f
      BY <1>12, <2>1, <2>2, <2>3 DEF Delivered
    <2>4. CASE Reached'.frame = f + 1
      <3>1. \A k \in LatestFrame + 1 .. (f + 1) - 1 : k = f \/ k \in LatestFrame + 1 .. f - 1
        BY <1>11, <2>1
      <3> QED
        BY <1>11, <1>12, <2>1, <2>2, <2>4, <3>1 DEF Delivered
    <2> QED
      BY <1>8, <2>3, <2>4
  <1>18. Filled'
    <2>1. Fill' = Fill
      BY <1>2 DEF Fill
    <2>2. i > 0 => Fill <= i - (IF Reached.escaped THEN 0 ELSE 1)
      BY <1>1, <1>10, <1>11 DEF Kept, Filled
    <2>3. CASE i = 0 /\ Reached'.frame = f /\ Reached'.index = 1 /\ ~ Reached'.escaped
      <3>1. rx.len <= IF f = 1 THEN 0 ELSE Len(sent[f - 1])
        BY <1>1, <2>3 DEF Kept, Filled
      <3>2. Headless(f)'
        BY <1>10, <2>3 DEF Headless
      <3>3. Base(f)' = IF f > 1 THEN Len(sent[f - 1]) ELSE 0
        BY <1>2, <3>2, <2>3 DEF Base
      <3>4. Fill = rx.len
        <4>1. rx.state # "ESCAPED"
          BY <1>1, <2>3 DEF Kept, InStep
        <4>2. rx.len \in Nat
          BY <1>1 DEF LineTypes
        <4> QED
          BY <4>1, <4>2 DEF Fill
      <3>5. Fill <= Base(f)'
        BY <1>1, <1>5, <1>11, <3>1, <3>3, <3>4
      <3>6. Base(f)' \in Nat
        <4>1. f > 1 => f - 1 \in 1..Len(sent)
          BY <1>7
        <4> QED
          BY <1>1, <3>3, <4>1, SentBytes
      <3> QED
        BY <2>1, <2>3, <3>5, <3>6 DEF Filled
    <2>4. CASE /\ i > 0 /\ ~ Reached.escaped
               /\ Reached'.frame = f /\ Reached'.index = i /\ Reached'.escaped
      <3>1. Base(f)' = 0
        BY <1>10, <1>11, <2>4 DEF Base, Headless
      <3>2. rx'.len < i /\ Fill <= i
        BY <1>1, <1>2, <1>5, <1>11, <2>2, <2>4 DEF Fill
      <3> QED
        BY <1>11, <2>1, <2>4, <3>1, <3>2 DEF Filled
    <2>5. CASE i > 0 /\ Reached'.frame = f /\ Reached'.index = i + 1 /\ ~ Reached'.escaped
      <3>1. Base(f)' = 0
        BY <1>10, <1>11, <2>5 DEF Base, Headless
      <3>2. Fill <= i
        BY <1>1, <1>5, <1>11, <2>2, <2>5 DEF Fill
      <3> QED
        BY <1>11, <2>1, <2>5, <3>1, <3>2 DEF Filled
    <2>6. CASE /\ i = Len(sent[f]) + 1 /\ ~ Reached.escaped
               /\ Reached'.frame = f + 1 /\ Reached'.index = 0
      <3>1. rx.len <= Len(sent[f])
        BY <1>1, <1>5, <1>11, <2>2, <2>6 DEF Fill
      <3>2. (f + 1) - 1 = f /\ f + 1 # 1
        BY <1>11
      <3> QED
        BY <1>2, <2>6, <3>1, <3>2 DEF Filled
    <2> QED
      BY <1>8, <2>3, <2>4, <2>5, <2>6
  <1>19. Reported'
    BY <1>1, <1>2, <1>9, <1>12 DEF Kept, Reported
  <1> QED
    BY <1>4, <1>13, <1>14, <1>15, <1>16, <1>17, <1>18, <1>19 DEF LineInv

-----------------------------------------------------------------------------
(* The sender adds to the end of the line; the receiver stays where it is. *)
LEMMA SenderKeeps ==
  ASSUME Kept, Reached' = Reached, UNCHANGED <<rx, sent, received, lost, broken>>,
         cut \subseteq cut'
  PROVE  Kept'
  <1>1. Damaged \subseteq Damaged'
    BY DEF Damaged, Lossy
  <1>2. LossOK'
    BY DEF Kept, LossOK
  <1>3. InStep'
    BY DEF Kept, InStep, Torn, Half
  <1>4. Exact'
    BY <1>1 DEF Kept, Exact
  <1>5. Delivered'
    BY <1>1 DEF Kept, Delivered, LatestFrame
  <1>6. Filled'
    BY DEF Kept, Filled, Fill, Base, Headless, Half
  <1>7. Reported'
    BY <1>1 DEF Kept, Reported
  <1> QED
    BY <1>2, <1>3, <1>4, <1>5, <1>6, <1>7 DEF Kept

LEMMA EvenNotHalf ==
  ASSUME LineTypes, LineOK
  PROVE  ~ Half(place)
  <1>1. place.chars = 2 * breaks /\ breaks \in Nat
    BY DEF LineTypes, LineOK
  <1>2. \A n \in Nat : (2 * n) % 2 # 1
    OBVIOUS
  <1> QED
    BY <1>1, <1>2 DEF Half

LEMMA WriteByteKeeps ==
  ASSUME LineInv, WriteByte
  PROVE  LineInv'
  <1> DEFINE item == [byte |-> FrameByte(place), at |-> place, after |-> place']
             f == place.frame
             n == Len(sent[f])
  <1>1. LineTypes /\ LineOK /\ Kept
    BY DEF LineInv, Kept
  <1>2. /\ f <= Len(sent) /\ place' = AfterByte(place) /\ line' = Append(line, item)
        /\ UNCHANGED <<rx, sent, received, lost, cut, breaks, broken>>
    BY DEF WriteByte, history
  <1>3. PlaceOK(place) /\ place \in Places /\ f \in 1..Len(sent)
    BY <1>1, <1>2 DEF LineTypes, LineOK, PlaceOK
  <1>4. /\ n \in Nat /\ n > 0 /\ \A k \in 1..n : sent[f][k] \in Bytes
    BY <1>1, <1>3, SentBytes
  <1>5. /\ place' \in Places /\ PlaceOK(place)' /\ f <= place'.frame
        /\ place'.chars = place.chars
    <2>1. place.index \in Nat /\ place.index <= n + 1 /\ f \in Nat /\ place.chars \in Nat
      BY <1>3, <1>4 DEF PlaceOK, Places
    <2>2. CASE EscapeDue(sent[f], place.index, place.escaped)
      <3>1. /\ place' = [place EXCEPT !.escaped = TRUE]
            /\ place.index \in 1..n /\ sent[f][place.index] \in Special
        BY <1>2, <2>2 DEF AfterByte, EscapeDue
      <3>2. /\ place' \in Places /\ place'.frame = f /\ place'.index = place.index
            /\ place'.chars = place.chars
        BY <1>3, <3>1 DEF Places
      <3>3. PlaceOK(place)'
        BY <1>2, <1>3, <2>1, <3>1, <3>2 DEF PlaceOK
      <3> QED
        BY <2>1, <3>2, <3>3
    <2>3. CASE ~ EscapeDue(sent[f], place.index, place.escaped) /\ place.index <= n
      <3>1. place' = [place EXCEPT !.index = @ + 1, !.escaped = FALSE]
        BY <1>2, <2>3 DEF AfterByte
      <3>2. place.index + 1 \in Nat /\ place.index + 1 <= n + 1
        BY <1>4, <2>1, <2>3
      <3>3. /\ place' \in Places /\ place'.frame = f /\ place'.index = place.index + 1
            /\ place'.escaped = FALSE /\ place'.chars = place.chars
        BY <1>3, <3>1, <3>2 DEF Places
      <3>4. PlaceOK(place)'
        BY <1>2, <1>3, <3>2, <3>3 DEF PlaceOK
      <3> QED
        BY <2>1, <3>3, <3>4
    <2>4. CASE ~ EscapeDue(sent[f], place.index, place.escaped) /\ ~ place.index <= n
      <3>1. place' = [place EXCEPT !.frame = @ + 1, !.index = 0, !.escaped = FALSE]
        BY <1>2, <2>4 DEF AfterByte
      <3>2. /\ place' \in Places /\ place'.frame = f + 1 /\ place'.index = 0
            /\ place'.escaped = FALSE /\ place'.chars = place.chars
        <4>1. f + 1 \in Nat
          BY <2>1
        <4> QED
          BY <1>3, <3>1, <4>1 DEF Places
      <3>3. f + 1 \in 1..Len(sent) + 1
        BY <1>3
      <3>4. f + 1 <= Len(sent) => Len(sent[f + 1]) \in Nat
        <4>1. f + 1 <= Len(sent) => f + 1 \in 1..Len(sent)
          BY <1>3
        <4> QED
          BY <1>1, <4>1, SentBytes
      <3>5. PlaceOK(place)'
        BY <1>2, <3>2, <3>3, <3>4 DEF PlaceOK
      <3> QED
        BY <2>1, <3>2, <3>5
    <2> QED
      BY <2>2, <2>3, <2>4
  <1>6. item \in Items /\ ByteItem(item)
    <2>1. FrameByte(place) \in Bytes
      <3>1. place.index \in Nat /\ place.index <= n + 1
        BY <1>3, <1>4 DEF PlaceOK, Places
      <3>2. place.index = 0 \/ place.index = n + 1 \/ place.index \in 1..n
        BY <1>4, <3>1
      <3>3. {START_FRAME, END_FRAME, ESCAPE} \subseteq Bytes
        BY SpecialBytes, SpecialDiffer
      <3>4. CASE place.index = 0
        BY <1>4, <3>3, <3>4 DEF FrameByte, ByteAt, EscapeDue
      <3>5. CASE place.index = n + 1
        BY <1>4, <3>3, <3>5 DEF FrameByte, ByteAt, EscapeDue
      <3>6. CASE place.index \in 1..n
        <4>1. place.index # 0 /\ place.index # n + 1
          BY <1>4, <3>6
        <4>2. FrameByte(place) = ESCAPE \/ FrameByte(place) = sent[f][place.index]
          BY <4>1 DEF FrameByte, ByteAt
        <4> QED
          BY <1>4, <3>3, <3>6, <4>2
      <3> QED
        BY <3>2, <3>4, <3>5, <3>6
    <2>2. item \in Items
      BY <1>3, <1>5, <2>1 DEF Items
    <2>3. ~ Half(place)
      BY <1>1, EvenNotHalf
    <2> QED
      BY <1>2, <2>2, <2>3 DEF ByteItem
  <1>7. item.at = place /\ item.after = place'
    OBVIOUS
  <1> HIDE DEF item
  <1>8. /\ line \in Seq(Items) /\ Len(line) \in Nat
        /\ line' \in Seq(Items) /\ Len(line') = Len(line) + 1 /\ line'[Len(line) + 1] = item
        /\ \A k \in 1..Len(line) : line'[k] = line[k]
    BY <1>1, <1>2, <1>6 DEF LineTypes
  <1>9. Reached' = Reached
    <2>1. line' # <<>> /\ Head(line') = line'[1]
      <3>1. \A s \in Seq(Items) : Len(s) > 0 => s # <<>> /\ Head(s) = s[1]
        OBVIOUS
      <3>2. Len(line') > 0
        BY <1>8
      <3> QED
        BY <1>8, <3>1, <3>2
    <2>2. CASE line = <<>>
      <3>1. Len(line) + 1 = 1
        BY <2>2
      <3> QED
        BY <1>7, <1>8, <2>1, <2>2, <3>1 DEF Reached
    <2>3. CASE line # <<>>
      <3>1. 1 \in 1..Len(line) /\ Head(line) = line[1]
        BY <1>8, <2>3
      <3> QED
        BY <1>8, <2>1, <2>3, <3>1 DEF Reached
    <2> QED
      BY <2>2, <2>3
  <1>10. LineOK'
    <2>1. ASSUME NEW k \in 1..Len(line')
          PROVE  /\ PlaceOK(line[k].at)' /\ (ByteItem(line[k]) \/ BreakItem(line[k]))'
                 /\ (line[k].at.frame <= place.frame /\ line[k].at.chars <= place.chars)'
                 /\ line'[k].after = IF k = Len(line') THEN place' ELSE line'[k + 1].at
      <3>1. CASE k = Len(line) + 1
        <4>1. line'[k] = item
          BY <1>8, <3>1
        <4>2. PlaceOK(line[k].at)'
          BY <1>2, <1>3, <1>7, <4>1 DEF PlaceOK
        <4>3. ByteItem(line[k])'
          BY <1>2, <1>6, <4>1 DEF ByteItem, FrameByte, AfterByte, Half
        <4>4. place.chars \in Nat
          BY <1>3 DEF Places
        <4> QED
          BY <1>5, <1>7, <1>8, <3>1, <4>1, <4>2, <4>3, <4>4
      <3>2. CASE k \in 1..Len(line)
        <4>1. line'[k] = line[k]
          BY <1>8, <3>2
        <4>2. /\ PlaceOK(line[k].at) /\ (ByteItem(line[k]) \/ BreakItem(line[k]))
              /\ line[k].at.frame <= f /\ line[k].at.chars <= place.chars
              /\ line[k].after = IF k = Len(line) THEN place ELSE line[k + 1].at
          BY <1>1, <3>2 DEF LineOK
        <4>3. line[k].at.frame \in Nat /\ f \in Nat /\ place'.frame \in Nat
          <5>1. line[k] \in Items
            BY <1>8, <3>2, ElementOfSeq
          <5> QED
            BY <1>3, <1>5, <5>1 DEF Items, Places
        <4>4. PlaceOK(line[k].at)'
          BY <1>2, <4>1, <4>2 DEF PlaceOK
        <4>5. (ByteItem(line[k]) \/ BreakItem(line[k]))'
          BY <1>2, <4>1, <4>2 DEF ByteItem, BreakItem, FrameByte, AfterByte, Half
        <4>6. line'[k].after = line'[k + 1].at
          <5>1. k = Len(line) => line'[k + 1] = item
            BY <1>8
          <5>2. k # Len(line) => line'[k + 1] = line[k + 1]
            BY <1>8, <3>2
          <5> QED
            BY <1>7, <4>1, <4>2, <5>1, <5>2
        <4>7. k # Len(line')
          BY <1>8, <3>2
        <4> QED
          BY <1>5, <4>1, <4>2, <4>3, <4>4, <4>5, <4>6, <4>7
      <3>3. k = Len(line) + 1 \/ k \in 1..Len(line)
        BY <1>8
      <3> QED
        BY <3>1, <3>2, <3>3
    <2>2. (place.chars = 2 * breaks)'
      BY <1>1, <1>2, <1>5 DEF LineOK
    <2> QED
      BY <1>5, <2>1, <2>2 DEF LineOK
  <1>11. LineTypes'
    BY <1>1, <1>2, <1>5, <1>8 DEF LineTypes
  <1>12. Kept'
    BY <1>1, <1>2, <1>9, SenderKeeps
  <1> QED
    BY <1>10, <1>11, <1>12 DEF LineInv, Kept

LEMMA SendBreakKeeps ==
  ASSUME LineInv, SendBreak
  PROVE  LineInv'
  <1> DEFINE first == [byte |-> CONSOLE, at |-> place, after |-> BreakPlace(1)]
             second == [byte |-> CONSOLE, at |-> BreakPlace(1), after |-> BreakPlace(2)]
  <1>1. LineTypes /\ LineOK /\ Kept
    BY DEF LineInv, Kept
  <1>2. place \in Places /\ PlaceOK(place) /\ place.chars \in Nat /\ place.frame \in Nat
    BY <1>1 DEF LineTypes, LineOK, Places
  <1>3. Len(ConsoleBreak) = 2 /\ ConsoleBreak[1] = CONSOLE /\ ConsoleBreak[2] = CONSOLE
    BY DEF ConsoleBreak
  <1>4. BreakPlace(0) = place
    BY <1>2 DEF BreakPlace, Places
  <1>5. \A k \in 1..2 : /\ BreakPlace(k) \in Places /\ BreakPlace(k).chars = place.chars + k
                        /\ BreakPlace(k).frame = place.frame
                        /\ BreakPlace(k).index = place.index
                        /\ BreakPlace(k).escaped = place.escaped
    BY <1>2 DEF BreakPlace, Places
  <1>6. BreakPlace(2) = [BreakPlace(1) EXCEPT !.chars = @ + 1]
    <2>1. (place.chars + 1) + 1 = place.chars + 2
      BY <1>2
    <2>2. BreakPlace(1) = [frame |-> place.frame, index |-> place.index,
                           escaped |-> place.escaped, chars |-> place.chars + 1]
      BY <1>2 DEF BreakPlace, Places
    <2>3. BreakPlace(2) = [frame |-> place.frame, index |-> place.index,
                           escaped |-> place.escaped, chars |-> place.chars + 2]
      BY <1>2 DEF BreakPlace, Places
    <2> QED
      BY <2>1, <2>2, <2>3
  <1>7. /\ place' = BreakPlace(2) /\ breaks' = breaks + 1
        /\ cut' = IF place.index = 0 THEN cut ELSE cut \cup {place.frame}
        /\ UNCHANGED <<rx, sent, received, lost, broken>>
    BY <1>3 DEF SendBreak
  <1>8. line' = line \o <<first, second>>
    <2>1. line' = line \o [k \in 1..2 |->
            [byte |-> ConsoleBreak[k], at |-> BreakPlace(k - 1), after |-> BreakPlace(k)]]
      BY <1>3 DEF SendBreak
    <2>2. [k \in 1..2 |->
            [byte |-> ConsoleBreak[k], at |-> BreakPlace(k - 1), after |-> BreakPlace(k)]]
            = <<first, second>>
      <3>1. 1 - 1 = 0 /\ 2 - 1 = 1
        OBVIOUS
      <3>2. /\ [byte |-> ConsoleBreak[1], at |-> BreakPlace(1 - 1), after |-> BreakPlace(1)] = first
            /\ [byte |-> ConsoleBreak[2], at |-> BreakPlace(2 - 1), after |-> BreakPlace(2)] = second
        BY <1>3, <1>4, <3>1
      <3> HIDE DEF first, second
      <3> QED
        BY <3>2
    <2> QED
      BY <2>1, <2>2
  <1>9. /\ first \in Items /\ second \in Items
        /\ first.byte = CONSOLE /\ first.at = place /\ first.after = BreakPlace(1)
        /\ second.byte = CONSOLE /\ second.at = BreakPlace(1) /\ second.after = BreakPlace(2)
    BY <1>2, <1>5, SpecialBytes, SpecialDiffer DEF Items
  <1> HIDE DEF first, second
  <1> DEFINE n == Len(line)
  <1>10. /\ line \in Seq(Items) /\ n \in Nat
         /\ line' \in Seq(Items) /\ Len(line') = n + 2
         /\ line'[n + 1] = first /\ line'[n + 2] = second
         /\ \A k \in 1..n : line'[k] = line[k]
    <2>1. line \in Seq(Items) /\ n \in Nat
      BY <1>1 DEF LineTypes
    <2>2. /\ <<first, second>> \in Seq(Items) /\ Len(<<first, second>>) = 2
          /\ <<first, second>>[1] = first /\ <<first, second>>[2] = second
      BY <1>9
    <2> QED
      BY <1>8, <2>1, <2>2
  <1>11. Reached' = Reached
    <2>1. line' # <<>> /\ Head(line') = line'[1]
      <3>1. \A s \in Seq(Items) : Len(s) > 0 => s # <<>> /\ Head(s) = s[1]
        OBVIOUS
      <3>2. Len(line') > 0
        BY <1>10
      <3> QED
        BY <1>10, <3>1, <3>2
    <2>2. CASE line = <<>>
      <3>1. n + 1 = 1
        BY <2>2
      <3> QED
        BY <1>9, <1>10, <2>1, <2>2, <3>1 DEF Reached
    <2>3. CASE line # <<>>
      <3>1. 1 \in 1..n /\ Head(line) = line[1]
        BY <1>10, <2>3
      <3> QED
        BY <1>10, <2>1, <2>3, <3>1 DEF Reached
    <2> QED
      BY <2>2, <2>3
  <1>12. place'.chars = place.chars + 2 /\ place'.frame = place.frame /\ place' \in Places
    BY <1>5, <1>7
  <1>13. PlaceOK(place)' /\ PlaceOK(BreakPlace(1))
    <2>1. \A p \in Places :
            /\ p.frame = place.frame /\ p.index = place.index /\ p.escaped = place.escaped
            => PlaceOK(p)
      BY <1>2 DEF PlaceOK
    <2>2. PlaceOK(BreakPlace(1)) /\ PlaceOK(BreakPlace(2))
      BY <1>5, <2>1
    <2> QED
      BY <1>7, <2>2 DEF PlaceOK
  <1>14. LineOK'
    <2>1. first.after = [first.at EXCEPT !.chars = @ + 1]
      BY <1>9 DEF BreakPlace
    <2>2. second.after = [second.at EXCEPT !.chars = @ + 1]
      BY <1>6, <1>9
    <2>3. place.index > 0 => place.frame \in cut'
      BY <1>2, <1>7 DEF Places
    <2>4. ASSUME NEW k \in 1..Len(line')
          PROVE  /\ PlaceOK(line[k].at)' /\ (ByteItem(line[k]) \/ BreakItem(line[k]))'
                 /\ (line[k].at.frame <= place.frame /\ line[k].at.chars <= place.chars)'
                 /\ line'[k].after = IF k = Len(line') THEN place' ELSE line'[k + 1].at
      <3>1. CASE k = n + 1
        <4>1. line'[k] = first /\ line'[k + 1] = second /\ k # Len(line')
          BY <1>10, <3>1
        <4>2. PlaceOK(line[k].at)'
          BY <1>2, <1>7, <1>9, <4>1 DEF PlaceOK
        <4>3. BreakItem(line[k])'
          BY <1>9, <2>1, <2>3, <4>1 DEF BreakItem
        <4> QED
          BY <1>2, <1>9, <1>12, <4>1, <4>2, <4>3
      <3>2. CASE k = n + 2
        <4>1. line'[k] = second /\ k = Len(line')
          BY <1>10, <3>2
        <4>2. PlaceOK(line[k].at)'
          BY <1>7, <1>9, <1>13, <4>1 DEF PlaceOK
        <4>3. BreakItem(line[k])'
          BY <1>5, <1>9, <2>2, <2>3, <4>1 DEF BreakItem
        <4>4. BreakPlace(1).chars = place.chars + 1 /\ BreakPlace(1).frame = place.frame
          BY <1>5
        <4> QED
          BY <1>2, <1>7, <1>9, <1>12, <4>1, <4>2, <4>3, <4>4
      <3>3. CASE k \in 1..n
        <4>1. line'[k] = line[k] /\ k # Len(line')
          BY <1>10, <3>3
        <4>2. /\ PlaceOK(line[k].at) /\ (ByteItem(line[k]) \/ BreakItem(line[k]))
              /\ line[k].at.frame <= place.frame /\ line[k].at.chars <= place.chars
              /\ line[k].after = IF k = n THEN place ELSE line[k + 1].at
          BY <1>1, <3>3 DEF LineOK
        <4>3. line[k].at.chars \in Nat
          <5>1. line[k] \in Items
            BY <1>10, <3>3, ElementOfSeq
          <5> QED
            BY <5>1 DEF Items, Places
        <4>4. PlaceOK(line[k].at)'
          BY <1>7, <4>1, <4>2 DEF PlaceOK
        <4>5. ByteItem(line[k]) => ByteItem(line[k])'
          BY <1>7, <4>1 DEF ByteItem, FrameByte, AfterByte, Half
        <4>6. BreakItem(line[k]) => BreakItem(line[k])'
          BY <1>7, <4>1 DEF BreakItem
        <4>7. line'[k].after = line'[k + 1].at
          <5>1. k = n => line'[k + 1] = first
            BY <1>10
          <5>2. k # n => line'[k + 1] = line[k + 1]
            BY <1>10, <3>3
          <5> QED
            BY <1>9, <4>1, <4>2, <5>1, <5>2
        <4> QED
          BY <1>2, <1>12, <4>1, <4>2, <4>3, <4>4, <4>5, <4>6, <4>7
      <3>4. k = n + 1 \/ k = n + 2 \/ k \in 1..n
        BY <1>10
      <3> QED
        BY <3>1, <3>2, <3>3, <3>4
    <2>5. (place.chars = 2 * breaks)'
      BY <1>1, <1>7, <1>12 DEF LineTypes, LineOK
    <2> QED
      BY <1>13, <2>4, <2>5 DEF LineOK
  <1>15. LineTypes'
    <2>1. cut \subseteq Nat /\ breaks \in Nat
      BY <1>1 DEF LineTypes
    <2>2. breaks' \in Nat
      BY <1>7, <2>1
    <2>3. cut' \subseteq Nat
      BY <1>2, <1>7, <2>1
    <2> QED
      BY <1>1, <1>7, <1>10, <1>12, <2>2, <2>3 DEF LineTypes
  <1>16. Kept'
    <2>1. cut \subseteq cut'
      BY <1>7
    <2> QED
      BY <1>1, <1>7, <1>11, <2>1, SenderKeeps
  <1> QED
    BY <1>14, <1>15, <1>16 DEF LineInv, Kept

(* A frame begins where the one before ended, before any of its bytes.     *)
LEMMA SendFrameKeeps ==
  ASSUME LineInv, NEW content \in Contents, SendFrame(content)
  PROVE  LineInv'
  <1>1. LineTypes /\ LineOK /\ Kept
    BY DEF LineInv, Kept
  <1>2. /\ sent' = Append(sent, content)
        /\ UNCHANGED <<place, line, rx, received, lost, cut, breaks, broken>>
    BY DEF SendFrame
  <1>3. /\ sent \in Seq(Contents) /\ Len(sent) \in Nat
        /\ sent' \in Seq(Contents) /\ Len(sent') = Len(sent) + 1
        /\ \A k \in 1..Len(sent) : sent'[k] = sent[k]
    BY <1>1, <1>2 DEF LineTypes
  <1>4. Reached' = Reached
    BY <1>2 DEF Reached
  <1>5. Reached \in Places /\ PlaceOK(Reached)
    BY <1>1, ReachedOK
  <1>6. LineTypes'
    BY <1>1, <1>2, <1>3 DEF LineTypes
  <1>7. ASSUME NEW p \in Places, PlaceOK(p)
        PROVE  /\ p.frame \in 1..Len(sent') + 1
               /\ IF p.frame <= Len(sent')
                    THEN /\ p.index <= Len(sent'[p.frame]) + 1
                         /\ p.escaped => /\ p.index \in 1..Len(sent'[p.frame])
                                         /\ sent'[p.frame][p.index] \in Special
                    ELSE p.index = 0 /\ ~ p.escaped
    <2>1. CASE p.frame <= Len(sent)
      <3>1. sent'[p.frame] = sent[p.frame]
        BY <1>3, <1>7, <2>1 DEF PlaceOK
      <3> QED
        BY <1>3, <1>7, <2>1, <3>1 DEF PlaceOK
    <2>2. CASE ~ p.frame <= Len(sent)
      <3>1. p.frame = Len(sent') /\ p.index = 0 /\ ~ p.escaped
        BY <1>3, <1>7, <2>2 DEF PlaceOK
      <3>2. Len(sent'[p.frame]) \in Nat
        <4>1. p.frame \in 1..Len(sent')
          BY <1>3, <3>1
        <4> QED
          BY <1>6, <4>1, SentBytes
      <3> QED
        BY <1>3, <3>1, <3>2
    <2> QED
      BY <2>1, <2>2
  <1>8. LineOK'
    <2>1. PlaceOK(place)'
      BY <1>1, <1>2, <1>7 DEF LineTypes, LineOK, PlaceOK
    <2>2. ASSUME NEW k \in 1..Len(line)
          PROVE  PlaceOK(line[k].at)' /\ (ByteItem(line[k]) \/ BreakItem(line[k]))'
      <3>1. line[k] \in Items /\ line[k].at \in Places
        <4>1. line[k] \in Items
          BY <1>1, <2>2, ElementOfSeq DEF LineTypes
        <4> QED
          BY <4>1 DEF Items
      <3>2. PlaceOK(line[k].at) /\ (ByteItem(line[k]) \/ BreakItem(line[k]))
        BY <1>1, <2>2 DEF LineOK
      <3>3. PlaceOK(line[k].at)'
        BY <1>2, <1>7, <3>1, <3>2 DEF PlaceOK
      <3>4. CASE ByteItem(line[k])
        <4>1. line[k].at.frame \in 1..Len(sent)
          BY <1>3, <3>2, <3>4 DEF PlaceOK, ByteItem
        <4>2. sent'[line[k].at.frame] = sent[line[k].at.frame]
          BY <1>3, <4>1
        <4>3. line[k].at.frame <= Len(sent')
          BY <1>3, <4>1
        <4>4. ByteItem(line[k])'
          BY <1>2, <3>4, <4>2, <4>3 DEF ByteItem, FrameByte, AfterByte, Half
        <4> QED
          BY <3>3, <4>4
      <3>5. CASE BreakItem(line[k])
        BY <1>2, <3>3, <3>5 DEF BreakItem
      <3> QED
        BY <3>2, <3>4, <3>5
    <2> QED
      BY <1>1, <1>2, <2>1, <2>2 DEF LineOK
  <1>9. Kept'
    <2>1. LossOK'
      BY <1>1, <1>2, <1>4 DEF Kept, LossOK
    <2>2. InStep'
      BY <1>1, <1>2, <1>4 DEF Kept, InStep, Torn, Half
    <2>3. Reached.index > 0 => Reached.frame \in 1..Len(sent)
      BY <1>3, <1>5 DEF PlaceOK, Places
    <2>4. Exact'
      <3>1. Reached.index > 0 => sent'[Reached.frame] = sent[Reached.frame]
        BY <1>3, <2>3
      <3> QED
        BY <1>1, <1>2, <1>4, <3>1 DEF Kept, Exact, Damaged, Lossy
    <2>5. Delivered'
      BY <1>1, <1>2, <1>4 DEF Kept, Delivered, LatestFrame, Damaged, Lossy
    <2>6. Filled'
      <3>1. Reached.frame > 1 => sent'[Reached.frame - 1] = sent[Reached.frame - 1]
        BY <1>3, <1>5 DEF PlaceOK, Places
      <3>2. Base(Reached.frame)' = Base(Reached.frame)
        BY <1>2, <1>4, <3>1 DEF Base, Headless
      <3>3. Reached.frame # 1 => Reached.frame > 1
        BY <1>5 DEF PlaceOK
      <3> QED
        BY <1>1, <1>2, <1>4, <3>1, <3>2, <3>3 DEF Kept, Filled, Fill, Half
    <2>7. Reported'
      BY <1>1, <1>2, <1>4 DEF Kept, Reported, Damaged, Lossy
    <2> QED
      BY <2>1, <2>2, <2>4, <2>5, <2>6, <2>7 DEF Kept
  <1> QED
    BY <1>6, <1>8, <1>9 DEF LineInv, Kept

-----------------------------------------------------------------------------
LEMMA InitLineInv == LineInit => LineInv
  <1> SUFFICES ASSUME LineInit PROVE LineInv
    OBVIOUS
  <1>1. /\ place = [frame |-> 1, index |-> 0, escaped |-> FALSE, chars |-> 0]
        /\ line = <<>> /\ rx = [state |-> "WAIT", len |-> 0, buf |-> <<>>]
        /\ sent = <<>> /\ received = <<>> /\ lost = {} /\ cut = {}
        /\ breaks = 0 /\ broken = 0
    BY DEF LineInit, Calling
  <1>2. Reached = place /\ LatestFrame = 0 /\ Damaged = {}
    BY <1>1 DEF Reached, LatestFrame, Damaged, Lossy
  <1>3. LineTypes
    <2>1. place \in Places
      BY <1>1 DEF Places
    <2>2. <<>> \in Seq(Bytes) /\ Len(<<>>) = 0
      OBVIOUS
    <2> QED
      BY <1>1, <2>1, <2>2 DEF LineTypes
  <1>4. LineOK
    <2>1. Len(sent) = 0 /\ Len(line) = 0
      BY <1>1
    <2> QED
      BY <1>1, <2>1 DEF LineOK, PlaceOK
  <1>5. LossOK
    BY <1>1 DEF LossOK
  <1>6. InStep
    BY <1>1, <1>2 DEF InStep
  <1>7. Exact /\ Delivered
    BY <1>1, <1>2 DEF Exact, Delivered
  <1>8. Filled
    BY <1>1, <1>2 DEF Filled
  <1>9. Reported
    <2>1. 0 % 2 = 0
      OBVIOUS
    <2> QED
      BY <1>1, <1>2, <2>1 DEF Reported
  <1> QED
    BY <1>3, <1>4, <1>5, <1>6, <1>7, <1>8, <1>9 DEF LineInv

LEMMA NextLineInv == LineInv /\ [LineNext]_lineVars => LineInv'
  <1> SUFFICES ASSUME LineInv, [LineNext]_lineVars PROVE LineInv'
    OBVIOUS
  <1>1. CASE \E content \in Contents : SendFrame(content)
    BY <1>1, SendFrameKeeps
  <1>2. CASE WriteByte
    BY <1>2, WriteByteKeeps
  <1>3. CASE SendBreak
    BY <1>3, SendBreakKeeps
  <1>4. CASE LoseByte
    BY <1>4, LoseByteKeeps
  <1>5. CASE Receive
    BY <1>5, ReceiveKeeps
  <1>6. CASE UNCHANGED lineVars
    <2>1. UNCHANGED <<place, line, rx, sent, received, lost, cut, breaks, broken>>
      BY <1>6 DEF lineVars, history
    <2>2. Reached' = Reached
      BY <2>1 DEF Reached
    <2>3. Kept'
      BY <2>1, <2>2, SenderKeeps DEF LineInv, Kept
    <2>4. LineTypes'
      BY <2>1 DEF LineInv, LineTypes
    <2>5. LineOK'
      BY <2>1 DEF LineInv, LineOK, PlaceOK, ByteItem, BreakItem, FrameByte, AfterByte, Half
    <2> QED
      BY <2>3, <2>4, <2>5 DEF LineInv, Kept
  <1> QED
    BY <1>1, <1>2, <1>3, <1>4, <1>5, <1>6 DEF LineNext

LEMMA LineInvAlways == LineSpec => []LineInv
  BY InitLineInv, NextLineInv, PTL DEF LineSpec

-----------------------------------------------------------------------------
(* The buffer of recv_cmd never holds more than two contents, whatever is  *)
(* lost or interrupted: its 128 bytes are enough for contents of 64.       *)
THEOREM BufferNeverOverflows == LineSpec => []BufferBounded
  <1>1. LineInv => BufferBounded
    <2> SUFFICES ASSUME LineInv PROVE BufferBounded
      OBVIOUS
    <2>1. LineTypes /\ LineOK /\ Filled
      BY DEF LineInv
    <2>2. Reached \in Places /\ PlaceOK(Reached)
      BY <2>1, ReachedOK
    <2> DEFINE f == Reached.frame
    <2>3. /\ f \in Nat /\ f > 0 /\ Reached.index \in Nat /\ rx.len \in Nat /\ Len(sent) \in Nat
          /\ Base(f) \in Nat
      BY <2>1, <2>2, Numbers DEF LineTypes
    <2>4. f > 1 => sent[f - 1] \in Contents /\ Len(sent[f - 1]) \in Nat
      <3>1. f > 1 => f - 1 \in 1..Len(sent)
        BY <2>2, <2>3 DEF PlaceOK
      <3> QED
        BY <2>1, <3>1, SentBytes
    <2>5. CASE Reached.index = 0 /\ f = 1
      <3>1. rx.len = 0
        BY <2>1, <2>3, <2>5 DEF Filled
      <3>2. PICK content \in Contents : TRUE
        BY LineAssumption
      <3>3. Len(content) \in Nat
        BY ContentBytes
      <3>4. rx.len <= Len(content) + Len(content)
        BY <3>1, <3>3
      <3> QED
        BY <3>4 DEF BufferBounded
    <2>6. CASE Reached.index = 0 /\ f > 1
      <3>1. rx.len <= Len(sent[f - 1])
        BY <2>1, <2>3, <2>6 DEF Filled
      <3>2. rx.len <= Len(sent[f - 1]) + Len(sent[f - 1])
        BY <2>3, <2>4, <2>6, <3>1
      <3> QED
        BY <2>4, <2>6, <3>2 DEF BufferBounded
    <2>7. CASE Reached.index > 0
      <3>1. f \in 1..Len(sent)
        BY <2>2, <2>3, <2>7 DEF PlaceOK
      <3>2. sent[f] \in Contents /\ Len(sent[f]) \in Nat
        BY <2>1, <3>1, SentBytes
      <3>3. /\ Reached.index <= Len(sent[f]) + 1
            /\ Reached.escaped => Reached.index <= Len(sent[f])
        BY <2>2, <2>3, <3>1, <3>2 DEF PlaceOK
      <3>4. Fill <= Base(f) + Reached.index - (IF Reached.escaped THEN 0 ELSE 1)
        BY <2>1, <2>7 DEF Filled
      <3>5. rx.len <= Base(f) + Len(sent[f])
        BY <2>3, <3>2, <3>3, <3>4 DEF Fill
      <3>6. Base(f) <= IF f > 1 THEN Len(sent[f - 1]) ELSE 0
        BY <2>4 DEF Base
      <3>7. CASE f > 1
        <4>1. rx.len <= Len(sent[f - 1]) + Len(sent[f])
          <5>1. Base(f) <= Len(sent[f - 1]) /\ Len(sent[f - 1]) \in Nat
            BY <2>4, <3>6, <3>7
          <5>2. \A a, b, c, d \in Nat : a <= b + c /\ b <= d => a <= d + c
            OBVIOUS
          <5>3. rx.len \in Nat /\ Base(f) \in Nat
            BY <2>3, <2>4 DEF Base
          <5> QED
            BY <3>2, <3>5, <5>1, <5>2, <5>3
        <4> QED
          BY <2>4, <3>2, <3>7, <4>1 DEF BufferBounded
      <3>8. CASE ~ f > 1
        <4>1. rx.len <= Len(sent[f]) + Len(sent[f])
          BY <2>3, <3>2, <3>5, <3>6, <3>8
        <4> QED
          BY <3>2, <4>1 DEF BufferBounded
      <3> QED
        BY <3>7, <3>8
    <2> QED
      BY <2>3, <2>5, <2>6, <2>7
  <1> QED
    BY <1>1, LineInvAlways, PTL

(* Every break is reported, at least once, wherever in a frame it comes;   *)
(* and none is made up while frames are whole.                             *)
THEOREM BreaksAreReported == LineSpec => []BreaksReported
  <1>1. LineInv => BreaksReported
    <2> SUFFICES ASSUME LineInv PROVE BreaksReported
      OBVIOUS
    <2>1. LineTypes /\ LineOK /\ Reported
      BY DEF LineInv
    <2>2. Reached \in Places /\ Reached.chars <= place.chars
      BY <2>1, ReachedOK
    <2>3. Reached.chars \in Nat /\ broken \in Nat /\ breaks \in Nat /\ place.chars = 2 * breaks
      BY <2>1, <2>2 DEF Places, LineTypes, LineOK
    <2>4. Damaged = {} => broken <= 2 * breaks
      BY <2>1, <2>2, <2>3 DEF Reported
    <2>5. line = <<>> => broken >= breaks
      <3> SUFFICES ASSUME line = <<>> PROVE broken >= breaks
        OBVIOUS
      <3>1. Reached = place
        BY DEF Reached
      <3>2. \A n \in Nat : (2 * n) % 2 = 0
        OBVIOUS
      <3>3. Reached.chars % 2 = 0
        BY <2>3, <3>1, <3>2
      <3> QED
        BY <2>1, <2>3, <3>1, <3>3 DEF Reported
    <2> QED
      BY <2>4, <2>5 DEF BreaksReported, Damaged
  <1> QED
    BY <1>1, LineInvAlways, PTL

-----------------------------------------------------------------------------
(* What recv_cmd returns in the end is what Channel says.                  *)
LEMMA FrontOfAppend ==
  ASSUME NEW S, NEW s \in Seq(S), NEW e \in S
  PROVE  /\ Len(Append(s, e)) = Len(s) + 1 /\ Last(Append(s, e)) = e
         /\ Front(Append(s, e)) = s
  <1>1. /\ Append(s, e) \in Seq(S) /\ Len(Append(s, e)) = Len(s) + 1 /\ Len(s) \in Nat
        /\ Append(s, e)[Len(s) + 1] = e
        /\ \A k \in 1..Len(s) : Append(s, e)[k] = s[k]
    OBVIOUS
  <1>2. Last(Append(s, e)) = e
    BY <1>1 DEF Last
  <1> DEFINE t == SubSeq(Append(s, e), 1, Len(s))
  <1>3. /\ t \in Seq(S) /\ Len(t) = Len(s)
        /\ \A k \in 1..Len(s) : t[k] = s[k]
    <2>1. \A k \in 1..Len(s) : Append(s, e)[k] \in S
      BY <1>1
    <2>2. /\ t \in Seq(S) /\ Len(t) = IF 1 <= Len(s) THEN Len(s) - 1 + 1 ELSE 0
          /\ \A k \in 1..Len(s) - 1 + 1 : t[k] = Append(s, e)[1 + k - 1]
      <3>1. 1 \in Int /\ Len(s) \in Int
        BY <1>1
      <3> QED
        BY <2>1, <3>1, SubSeqProperties
    <2> HIDE DEF t
    <2>3. Len(t) = Len(s)
      BY <1>1, <2>2
    <2>4. \A k \in 1..Len(s) : k \in 1..Len(s) - 1 + 1 /\ 1 + k - 1 = k
      BY <1>1
    <2> QED
      BY <1>1, <2>2, <2>3, <2>4
  <1>4. t = s
    <2> HIDE DEF t
    <2> QED
      BY <1>3, SeqEqual
  <1>5. Front(Append(s, e)) = t
    <2>1. Len(Append(s, e)) - 1 = Len(s)
      BY <1>1
    <2> QED
      BY <2>1 DEF Front
  <1> QED
    BY <1>1, <1>2, <1>4, <1>5

(* The contents of what is returned: bytes, and those sent if nothing      *)
(* happened to the frame. *)
LEMMA Returns ==
  ASSUME LineInv, Receive, received' # received
  PROVE  \E f \in 1..Len(sent), content \in Seq(Bytes) :
           /\ f = Reached.frame
           /\ received' = Append(received, [frame |-> f, content |-> content])
           /\ f \notin Damaged => content = sent[f]
  <1> USE SpecialDiffer
  <1> DEFINE item == Head(line)
             f == Reached.frame
             content == SubSeq(rx.buf, 1, rx.len)
  <1>1. LineTypes /\ LineOK /\ Exact
    BY DEF LineInv
  <1>2. /\ line # <<>>
        /\ \/ ReadByte(item.byte) \/ ReadBreak(item.byte)
           \/ ReadFrame(item.byte, item.at.frame)
    BY DEF Receive
  <1>3. /\ item \in Items /\ item.at = Reached /\ PlaceOK(item.at)
        /\ ByteItem(item) \/ BreakItem(item)
    BY <1>1, <1>2, HeadOK
  <1> HIDE DEF item
  <1>4. /\ ReturnsFrame(rx, item.byte)
        /\ received' = Append(received, [frame |-> f, content |-> content])
    BY <1>2, <1>3 DEF ReadByte, ReadBreak, ReadFrame
  <1>5. rx.state # "ESCAPED" /\ item.byte = END_FRAME
    BY <1>4 DEF ReturnsFrame
  <1>6. ByteItem(item)
    BY <1>3, <1>5 DEF BreakItem
  <1>7. /\ Starts(item) \/ Escapes(item) \/ Carries(item) \/ Ends(item)
        /\ f \in 1..Len(sent)
    BY <1>1, <1>3, <1>6, ByteKinds
  <1>8. /\ rx.buf \in Seq(Bytes) /\ rx.len \in Nat /\ rx.len <= Len(rx.buf) /\ Len(rx.buf) \in Nat
        /\ \A k \in 1..rx.len : rx.buf[k] \in Bytes
    <2>1. /\ rx.buf \in Seq(Bytes) /\ rx.len \in Nat /\ rx.len <= Len(rx.buf)
          /\ Len(rx.buf) \in Nat
      BY <1>1 DEF LineTypes
    <2> QED
      BY <2>1, ElementOfSeq
  <1>9. /\ content \in Seq(Bytes) /\ Len(content) = rx.len
        /\ \A k \in 1..rx.len : content[k] = rx.buf[k]
    <2>1. /\ content \in Seq(Bytes)
          /\ Len(content) = IF 1 <= rx.len THEN rx.len - 1 + 1 ELSE 0
          /\ \A k \in 1..rx.len - 1 + 1 : content[k] = rx.buf[1 + k - 1]
      <3>1. 1 \in Int /\ rx.len \in Int
        BY <1>8
      <3> QED
        BY <1>8, <3>1, SubSeqProperties
    <2> HIDE DEF content
    <2>2. Len(content) = rx.len
      BY <1>8, <2>1
    <2>3. \A k \in 1..rx.len : k \in 1..rx.len - 1 + 1 /\ 1 + k - 1 = k
      BY <1>8
    <2> QED
      BY <2>1, <2>2, <2>3
  <1>10. ASSUME f \notin Damaged
         PROVE  content = sent[f]
    <2>1. item.at.index # 0 /\ item.at.index \in Nat
      BY <1>3, <1>5, <1>7 DEF Starts, Escapes, Carries, Ends, Items, Places
    <2>2. ~ Reached.escaped /\ rx.len = Reached.index - 1
          /\ \A k \in 1..rx.len : rx.buf[k] = sent[f][k]
      BY <1>1, <1>3, <1>5, <1>10, <2>1 DEF Exact
    <2>3. Ends(item)
      BY <1>3, <1>5, <1>7, <2>2 DEF Starts, Escapes, Carries
    <2>4. sent[f] \in Seq(Bytes) /\ Len(sent[f]) \in Nat
      BY <1>1, <1>7, SentBytes
    <2>5. rx.len = Len(sent[f])
      BY <1>3, <2>2, <2>3, <2>4 DEF Ends
    <2> HIDE DEF content
    <2>6. Len(content) = Len(sent[f]) /\ \A k \in 1..Len(content) : content[k] = sent[f][k]
      BY <1>9, <2>2, <2>5
    <2> QED
      BY <1>9, <2>4, <2>6, SeqEqual
  <1> HIDE DEF content
  <1> QED
    BY <1>4, <1>7, <1>9, <1>10

LEMMA ChannelStart == LineInit => Abstract!ChannelInit
  BY DEF LineInit, Abstract!ChannelInit, Lossy

LEMMA ChannelStep ==
  ASSUME LineInv, [LineNext]_lineVars
  PROVE  [Abstract!ChannelNext]_(Abstract!channelVars)
  <1>1. LineTypes /\ LineOK /\ Delivered
    BY DEF LineInv
  <1>2. /\ Reached \in Places /\ PlaceOK(Reached) /\ Reached.frame <= place.frame
        /\ Reached.frame \in Nat /\ place.frame \in Nat
    <2>1. Reached \in Places /\ PlaceOK(Reached) /\ Reached.frame <= place.frame
      BY <1>1, ReachedOK
    <2> QED
      BY <1>1, <2>1 DEF LineTypes, Places
  <1>3. Abstract!Latest = LatestFrame /\ LatestFrame \in Nat
    <2>1. Abstract!Latest = LatestFrame
      BY DEF Abstract!Latest, LatestFrame, Last, Abstract!Last
    <2> QED
      BY <1>1, <1>2, <2>1, Numbers
  <1>4. /\ LatestFrame <= Reached.frame
        /\ LatestFrame = Reached.frame => Reached.frame \in Damaged
        /\ \A k \in LatestFrame + 1 .. Reached.frame - 1 : k \in Damaged
    BY <1>1 DEF Delivered
  <1>5. \A f \in Nat : Reached.frame <= f /\ f \notin Damaged => LatestFrame < f
    BY <1>2, <1>3, <1>4
  <1>6. ASSUME NEW f \in 1..Len(sent), Reached.frame <= f,
               Damaged' = Damaged \cup {f}, UNCHANGED <<sent, received>>
        PROVE  [Abstract!ChannelNext]_(Abstract!channelVars)
    <2>1. CASE f \in Damaged
      <3>1. Damaged' = Damaged
        BY <1>6, <2>1
      <3> QED
        BY <1>6, <3>1 DEF Abstract!channelVars, Damaged
    <2>2. CASE f \notin Damaged
      <3>1. Abstract!Latest < f
        BY <1>3, <1>5, <1>6, <2>2
      <3>2. Abstract!Damage(f)
        BY <1>6, <3>1 DEF Abstract!Damage, Damaged
      <3> QED
        BY <3>2 DEF Abstract!ChannelNext
    <2> QED
      BY <2>1, <2>2
  <1>7. CASE \E content \in Contents : SendFrame(content)
    <2>1. PICK content \in Contents : SendFrame(content)
      BY <1>7
    <2>2. Abstract!Send(content)
      BY <2>1 DEF SendFrame, Abstract!Send, Lossy
    <2> QED
      BY <2>2 DEF Abstract!ChannelNext
  <1>8. CASE WriteByte
    BY <1>8 DEF WriteByte, history, Abstract!channelVars, Lossy
  <1>9. CASE SendBreak
    <2>1. /\ UNCHANGED <<sent, received, lost>>
          /\ cut' = IF place.index = 0 THEN cut ELSE cut \cup {place.frame}
      BY <1>9 DEF SendBreak
    <2>2. CASE place.index = 0
      BY <2>1, <2>2 DEF Abstract!channelVars, Lossy
    <2>3. CASE place.index # 0
      <3>1. place.frame \in 1..Len(sent)
        BY <1>1, <1>2, <2>3 DEF LineOK, PlaceOK
      <3>2. Damaged' = Damaged \cup {place.frame}
        BY <2>1, <2>3 DEF Damaged, Lossy
      <3> QED
        BY <1>2, <1>6, <2>1, <3>1, <3>2
    <2> QED
      BY <2>2, <2>3
  <1>10. CASE LoseByte
    <2>1. /\ UNCHANGED <<sent, received, cut>> /\ line # <<>>
          /\ Head(line).after.chars = Head(line).at.chars
          /\ lost' = lost \cup {[frame |-> Head(line).at.frame, index |-> Head(line).at.index]}
      BY <1>10 DEF LoseByte
    <2>2. /\ Head(line) \in Items /\ Head(line).at = Reached /\ PlaceOK(Head(line).at)
          /\ ByteItem(Head(line)) \/ BreakItem(Head(line))
      BY <1>1, <2>1, HeadOK
    <2>3. ~ BreakItem(Head(line))
      <3>1. BreakItem(Head(line)) => Head(line).after.chars = Head(line).at.chars + 1
        BY <1>2, <2>2 DEF BreakItem, Places
      <3> QED
        BY <1>2, <2>1, <2>2, <3>1 DEF Places
    <2>4. Reached.frame \in 1..Len(sent)
      BY <1>1, <2>2, <2>3, ByteKinds
    <2>5. Damaged' = Damaged \cup {Reached.frame}
      <3> DEFINE b0 == [frame |-> Head(line).at.frame, index |-> Head(line).at.index]
      <3>1. b0.frame = Reached.frame
        BY <2>2
      <3>2. lost' = lost \cup {b0}
        BY <2>1
      <3> HIDE DEF b0
      <3>3. Lossy' = Lossy \cup {Reached.frame}
        BY <3>1, <3>2 DEF Lossy
      <3> QED
        BY <2>1, <3>3 DEF Damaged
    <2> QED
      BY <1>2, <1>6, <2>1, <2>4, <2>5
  <1>11. CASE Receive
    <2>1. UNCHANGED <<sent, lost, cut>>
      BY <1>11 DEF Receive
    <2>2. CASE received' = received
      BY <2>1, <2>2 DEF Abstract!channelVars, Lossy
    <2>3. CASE received' # received
      <3>1. PICK f \in 1..Len(sent), content \in Seq(Bytes) :
              /\ f = Reached.frame
              /\ received' = Append(received, [frame |-> f, content |-> content])
              /\ f \notin Damaged => content = sent[f]
        BY <1>11, <2>3, Returns
      <3> DEFINE r == [frame |-> f, content |-> content]
      <3>2. Len(received') = Len(received) + 1 /\ Last(received') = r /\ Front(received') = received
        <4>1. received \in Seq([frame : Nat, content : Seq(Bytes)])
          BY <1>1 DEF LineTypes
        <4>2. r \in [frame : Nat, content : Seq(Bytes)]
          BY <1>2, <3>1
        <4>3. received' = Append(received, r)
          BY <3>1
        <4> HIDE DEF r
        <4>4. /\ Len(Append(received, r)) = Len(received) + 1
              /\ Last(Append(received, r)) = r /\ Front(Append(received, r)) = received
          BY <4>1, <4>2, FrontOfAppend
        <4> QED
          BY <4>3, <4>4
      <3>3. Abstract!Garbled(f)
        <4>1. r.frame = f /\ r.content = content
          OBVIOUS
        <4> HIDE DEF r
        <4>2. Last(received').frame = f /\ Last(received').content \in Seq(Bytes)
          BY <3>1, <3>2, <4>1
        <4>3. Last(received').content
                \in Seq(Special \cup UNION {Range(c) : c \in Contents})
          BY <4>2 DEF Bytes
        <4> QED
          BY <3>2, <4>2, <4>3
             DEF Abstract!Garbled, Last, Front, Abstract!Last, Abstract!Front
      <3>4. CASE LatestFrame = f
        <4>1. Abstract!DeliverRest
          BY <1>3, <1>4, <2>1, <3>1, <3>3, <3>4 DEF Abstract!DeliverRest, Damaged, Lossy
        <4> QED
          BY <4>1 DEF Abstract!ChannelNext
      <3>5. CASE LatestFrame < f
        <4>1. f \notin Damaged => Abstract!Returned(f, sent[f])
          BY <3>1 DEF Abstract!Returned
        <4>2. Abstract!Deliver(f)
          BY <1>3, <1>4, <2>1, <3>1, <3>3, <3>5, <4>1 DEF Abstract!Deliver, Damaged, Lossy
        <4> QED
          BY <4>2 DEF Abstract!ChannelNext
      <3> QED
        BY <1>2, <1>3, <1>4, <3>1, <3>4, <3>5
    <2> QED
      BY <2>2, <2>3
  <1>12. CASE UNCHANGED lineVars
    BY <1>12 DEF lineVars, history, Abstract!channelVars, Lossy
  <1> QED
    BY <1>7, <1>8, <1>9, <1>10, <1>11, <1>12 DEF LineNext

(* One direction of the line is a channel: an undamaged frame arrives as   *)
(* it was sent, in order and once, whatever happens to the others.         *)
THEOREM LineIsChannel == LineSpec => IsChannel
  <1>1. LineInv /\ [LineNext]_lineVars => [Abstract!ChannelNext]_(Abstract!channelVars)
    BY ChannelStep
  <1> QED
    BY <1>1, ChannelStart, LineInvAlways, PTL DEF LineSpec, IsChannel, Abstract!ChannelSpec

=============================================================================
