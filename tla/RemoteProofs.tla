----------------------------- MODULE RemoteProofs -----------------------------
(***************************************************************************)
(* The two processes agree, for every list of registers and set of keys,   *)
(* and any number of commands, keys and SIGINTs, with breaks anywhere in   *)
(* the frames they cut.  RemoteInv says why: the bytes under way lead from *)
(* the place the receiver has reached to the one the client has (LineOK),  *)
(* the receiver has what was sent of its frame (InStep), breaks, 'I' and   *)
(* 'C' alternate (AckOK), what follows a break is heard only behind its    *)
(* 'C' (HeardOK), and of what is heard the server gets just what it is     *)
(* ready for, the client what it waits for (Agreed).                       *)
(* KeyInv adds how many keys are under way and may get lost, and Goes that *)
(* what the client waits for is under way or being done.                   *)
(***************************************************************************)
EXTENDS Remote, TLAPS, SequenceTheorems

Contents ==
  {<<"R">>, <<"S">>, <<"Q">>, <<"C">>}
    \cup {Examine(reg) : reg \in Registers}
    \cup {Deposit(reg) : reg \in Registers \cup {"P"}}
    \cup {<<result, key>> : result \in {"0", "1", "EOF"}, key \in Keys}

Places ==
  [cmd : Contents \cup {<<>>}, index : Nat, escaped : BOOLEAN,
   half : BOOLEAN, cut : BOOLEAN, heard : BOOLEAN]

Items == [byte : Characters, at : Places, after : Places]

Ender == {<<"H">>, <<"B">>, <<"P">>, <<"S">>, <<"D">>}
TR == <<"T", "R">>
TW == <<"T", "W">>
Values == {<<"=", reg>> : reg \in Registers} \cup {<<"=", "T", value>> : value \in {"on", "off"}}
Replies == {<<"I">>, TR, TW} \cup Ender \cup Values

Receivers ==
  [state : {"WAIT", "FRAME", "ESCAPED"}, len : Nat, buf : Seq(Characters \cup Stops)]

Loop == {"run", "tty", "print", "cpu"}

RTypes ==
  /\ c2s \in Seq(Items) /\ todo \in Seq(Contents) /\ place \in Places
  /\ s2c \in Seq(Replies)
  /\ at \in {"prompt", "running", "asking", "halting", "exited"}
  /\ asked \in Seq(Registers) /\ resume \in {"", "R", "S", "Q"}
  /\ in_console \in BOOLEAN /\ told \in {"on", "off"} /\ wrong \in BOOLEAN
  /\ exit_on_HLT \in BOOLEAN
  /\ single \in BOOLEAN /\ trace \in {"on", "off"} /\ stop_at \in BOOLEAN /\ raced \in BOOLEAN
  /\ srv \in Loop \cup {"idle", "key", "ack", "quit"}
  /\ rx \in Receivers /\ rx.len <= Len(rx.buf)
  /\ srv \in Loop \cup {"key"} => rx.buf # <<>>
  /\ breaks \in Nat /\ commands \in Nat
  /\ typed \in Seq(Keys) /\ accepted \in Seq(Keys)
  /\ Len(s2c) <= PtyFrames

-----------------------------------------------------------------------------
(* The bytes of a frame, and the two characters of a break: where they are *)
(* written, and where the client is then.                                  *)
Begun(p, cmd) == [p EXCEPT !.cmd = cmd, !.index = 1]

Starts(item) ==
  /\ ~ item.at.half /\ item.at.index = 0 /\ item.byte = START_FRAME
  /\ item.after.cmd \in Contents
  /\ item.after = Begun(item.at, item.after.cmd)

Escapes(item) ==
  /\ ~ item.at.half /\ item.at.index \in 1..Len(item.at.cmd) /\ item.byte = ESCAPE
  /\ ~ item.at.escaped /\ item.at.cmd[item.at.index] \in Special
  /\ item.after = [item.at EXCEPT !.escaped = TRUE]

Carries(item) ==
  /\ ~ item.at.half /\ item.at.index \in 1..Len(item.at.cmd)
  /\ item.byte = item.at.cmd[item.at.index]
  /\ item.at.escaped <=> item.byte \in Special
  /\ item.after = [item.at EXCEPT !.index = @ + 1, !.escaped = FALSE]

Ends(item) ==
  /\ ~ item.at.half /\ item.at.index = Len(item.at.cmd) + 1 /\ item.at.index > 0
  /\ item.byte = END_FRAME
  /\ item.after = [Between EXCEPT !.heard = (item.at.heard /\ item.at.cmd[1] # "EOF")
                                            \/ (item.at.cmd = <<"C">> /\ ~ item.at.cut)]

OfFrame(item) == Starts(item) \/ Escapes(item) \/ Carries(item) \/ Ends(item)

Breaks(item) ==
  /\ ~ item.at.half /\ item.byte = CONSOLE
  /\ item.after = [item.at EXCEPT !.half = TRUE]

CutAt(p) == [p EXCEPT !.half = FALSE, !.cut = p.index > 0, !.heard = FALSE]

BreaksOff(item) ==
  /\ item.at.half /\ item.byte = CONSOLE
  /\ item.after = CutAt(item.at)

ItemOK(item) == OfFrame(item) \/ Breaks(item) \/ BreaksOff(item)

OfBreak(item) == item.at.half \/ item.after.half
Content(item) == IF item.at.index = 0 THEN item.after.cmd ELSE item.at.cmd

PlaceOK(p) ==
  /\ p.index = 0 => p.cmd = <<>> /\ ~ p.escaped /\ ~ p.cut
  /\ p.index > 0 => p.cmd \in Contents /\ p.index <= Len(p.cmd) + 1
  /\ p.escaped => p.index \in 1..Len(p.cmd) /\ p.cmd[p.index] \in Special
  /\ p.cut => ~ p.heard

(* Bytes and places under way: one leads to the next, up to the client's.  *)
Chain(line, end) ==
  \A k \in 1..Len(line) :
    /\ PlaceOK(line[k].at) /\ ItemOK(line[k])
    /\ line[k].after = IF k = Len(line) THEN end ELSE line[k + 1].at

LineOK ==
  /\ PlaceOK(place) /\ ~ place.half
  /\ place.index > 0 => todo # <<>> /\ Head(todo) = place.cmd
  /\ Chain(c2s, place)

Start(line, end) == IF line = <<>> THEN end ELSE Head(line).at
Reached == Start(c2s, place)

(* The receiver is in step with the places: it waits for an escaped byte   *)
(* only where there is one, has the frame so far unless a break has cut    *)
(* it, and then ignores it.                                                *)
Fits(r, s, receiver) ==
  /\ ~ r.half => (r.heard <=> s # "ack")
  /\ r.index = 0 => receiver.state # "ESCAPED"
  /\ r.half => \/ s = "ack" /\ receiver.state = "WAIT" /\ receiver.len = 0
               \/ /\ s \in {"idle", "key", "ack"} /\ r.escaped /\ ~ r.cut
                  /\ receiver.state = "FRAME"
  /\ ~ r.half /\ ~ r.cut /\ r.index > 0 =>
       /\ s \in {"idle", "key", "ack"}
       /\ receiver.state = IF r.escaped THEN "ESCAPED" ELSE "FRAME"
       /\ receiver.len = r.index - 1
       /\ \A i \in 1..receiver.len : receiver.buf[i] = r.cmd[i]
  /\ ~ r.half /\ r.cut =>
       /\ s = "ack" /\ receiver.len = 0
       /\ receiver.state = "WAIT" \/ (receiver.state = "FRAME" /\ r.index = Len(r.cmd) + 1)

InStep == Fits(Reached, srv, rx)

(* Where the server, waiting for a 'C', is to read on; the 'C' is being    *)
(* written, or under way.                                                  *)
Revives(item) == item.after.heard /\ ~ item.at.heard
Confirming == todo # <<>> /\ Head(todo) = <<"C">> /\ ~ place.cut
Confirmed == Confirming \/ \E k \in 1..Len(c2s) : Revives(c2s[k])
Interrupted == \E i \in 1..Len(s2c) : s2c[i] = <<"I">>

(* A server that waits has sent an 'I', or the client has answered it, or  *)
(* nothing is under way to it that counts.                                 *)
AckOK ==
  /\ srv # "ack" => ~ Confirmed /\ ~ Interrupted
  /\ srv = "ack" /\ s2c # <<>> => s2c[Len(s2c)] = <<"I">>
  /\ \A i \in 1..Len(s2c) : s2c[i] = <<"I">> => ~ Confirmed /\ i = Len(s2c)
  /\ \A j, k \in 1..Len(c2s) : Revives(c2s[j]) /\ Revives(c2s[k]) => j = k
  /\ \A k \in 1..Len(c2s) : Revives(c2s[k]) => ~ Confirming
  /\ \A i \in 2..Len(todo) : todo[i] # <<"C">>
  /\ todo # <<>> /\ Head(todo) = <<"C">> => ~ place.heard
  /\ \A k \in 1..Len(c2s) :
       ~ OfBreak(c2s[k]) /\ Content(c2s[k]) = <<"C">> => ~ c2s[k].at.heard

Live(item) == ~ OfBreak(item) /\ item.at.heard

(* A break, or the end of a file: the server reads it and waits for a 'C'. *)
Closes(item) == item.at.half \/ (item.at.heard /\ ~ item.after.heard)

(* What is to be heard after one comes after the 'C' that answers it.      *)
HeardOK ==
  /\ srv = "ack" => /\ \A k \in 1..Len(c2s) : Live(c2s[k]) => \E i \in 1..(k - 1) : Revives(c2s[i])
                    /\ place.heard => \E i \in 1..Len(c2s) : Revives(c2s[i])
  /\ \A j \in 1..Len(c2s) : Closes(c2s[j]) =>
       /\ \A k \in (j + 1)..Len(c2s) : Live(c2s[k]) => \E i \in (j + 1)..(k - 1) : Revives(c2s[i])
       /\ place.heard => \E i \in (j + 1)..Len(c2s) : Revives(c2s[i])

(* Where the server is when it reads what it is to hear.                   *)
Then == IF srv = "ack" THEN "idle" ELSE srv
Open == srv # "ack" \/ Confirmed
TodoLive == place.heard \/ Confirming

(* What the server expects there, from a client that waits at "where".     *)
Due(cmd, s, where, regs) ==
  \/ /\ s = "idle" /\ cmd[1] = "D"
     /\ cmd = Deposit("T") => where = "asking" /\ regs = <<"T">>
  \/ s = "idle" /\ where = "asking" /\ cmd = Examine(Head(regs))
  \/ s = "idle" /\ where = "running" /\ cmd \in {<<"R">>, <<"S">>}
  \/ s = "idle" /\ where = "exited" /\ cmd = <<"Q">>
  \/ s = "key" /\ cmd[1] \in {"0", "1", "EOF"}

Expects(cmd) == Due(cmd, Then, at, asked)

(* And what the client expects: requests to write, and at the end "last".  *)
Queue(last) ==
  \A i \in 1..Len(s2c) : s2c[i] \in IF i = Len(s2c) THEN last ELSE {TW}

Shape ==
  /\ Then \in Loop \cup {"key"} => at = "running"
  /\ Then \in Loop => Queue({TW})
  /\ Then = "key" => Queue({TR})
  /\ Then = "idle" /\ at = "running" => Queue(Ender)
  /\ Then = "idle" /\ at = "asking" /\ s2c # <<>> => s2c = <<Value(Head(asked))>>
  /\ Then = "idle" /\ at \notin {"running", "asking"} => s2c = <<>>
  /\ Then = "quit" => at = "exited"

(* Of the frames the server is to hear, only the last one is answered, and *)
(* the client has read all answers before it sends another.                *)
Agreed == Open =>
  /\ \A k \in 1..Len(c2s) : Live(c2s[k]) => Expects(Content(c2s[k]))
  /\ TodoLive => \A i \in 1..Len(todo) : todo[i] = <<"C">> \/ Expects(todo[i])
  /\ \A k \in 1..Len(c2s) : Live(c2s[k]) /\ Ends(c2s[k]) /\ c2s[k].at.cmd[1] # "D" =>
       todo = <<>> /\ \A j \in (k + 1)..Len(c2s) : OfBreak(c2s[j])
  /\ s2c # <<>> => (TodoLive => todo = <<>>) /\ \A k \in 1..Len(c2s) : ~ Live(c2s[k])
  /\ Shape

Control ==
  /\ \A i \in 1..Len(todo) : i < Len(todo) => todo[i][1] \in {"C", "D"}
  /\ srv \in Loop => Reached.index = 0 /\ ~ Reached.half
  /\ at = "asking" => asked # <<>>
  /\ at \in {"prompt", "halting"} => in_console
  /\ Confirming => at \in {"prompt", "asking"}

(* As long as no break came when nobody waited for its answer.             *)
InTime == ~ raced =>
  /\ ~ wrong
  /\ Interrupted => Expected
  /\ srv = "ack" => Interrupted \/ Confirmed
  /\ told = trace \/ (at = "asking" /\ asked = <<"T">>)

RemoteInv == RTypes /\ LineOK /\ InStep /\ AckOK /\ HeardOK /\ Agreed /\ Control /\ InTime

-----------------------------------------------------------------------------
(* The four special characters differ, and are none of the letters.        *)
LEMMA SpecialDiffer ==
  /\ START_FRAME # END_FRAME /\ START_FRAME # ESCAPE /\ START_FRAME # CONSOLE
  /\ END_FRAME # ESCAPE /\ END_FRAME # CONSOLE /\ ESCAPE # CONSOLE
  /\ Special = {START_FRAME, END_FRAME, ESCAPE, CONSOLE}
  /\ Special \cap {"R", "S", "Q", "C", "E", "D", "0", "1", "EOF", "P"} = {}
  <1>1. /\ START_FRAME # END_FRAME /\ START_FRAME # ESCAPE /\ START_FRAME # CONSOLE
        /\ END_FRAME # ESCAPE /\ END_FRAME # CONSOLE /\ ESCAPE # CONSOLE
        /\ Special = {START_FRAME, END_FRAME, ESCAPE, CONSOLE}
    BY DEF START_FRAME, END_FRAME, ESCAPE, CONSOLE, Special
  <1>2. Special \cap {"R", "S", "Q", "C", "E", "D", "0", "1", "EOF", "P"} = {}
    BY DEF START_FRAME, END_FRAME, ESCAPE, CONSOLE, Special
  <1> QED
    BY <1>1, <1>2

(* The contents of frames by their first byte.                             *)
LEMMA ContentShape ==
  ASSUME NEW cmd \in Contents
  PROVE  /\ cmd \in Seq(Characters) /\ cmd # <<>> /\ Len(cmd) \in 1..2
         /\ \A i \in 1..Len(cmd) : cmd[i] \in Characters
         /\ cmd[1] \in {"R", "S", "Q", "C", "E", "D", "0", "1", "EOF"}
         /\ cmd[1] \notin Special
         /\ \A i \in 1..Len(cmd) : cmd[i] \in Special => i = 2 /\ Len(cmd) = 2
         /\ cmd[1] \in {"R", "S", "Q", "C"} => cmd = <<cmd[1]>>
         /\ cmd[1] = "E" => Len(cmd) = 2 /\ cmd[2] \in Registers /\ cmd = Examine(cmd[2])
         /\ cmd[1] = "D" => Len(cmd) = 2 /\ cmd[2] \in Registers \cup {"P"} /\ cmd = Deposit(cmd[2])
         /\ cmd[1] \in {"0", "1", "EOF"} => Len(cmd) = 2 /\ cmd[2] \in Keys
  <1>1. CASE cmd \in {<<"R">>, <<"S">>, <<"Q">>, <<"C">>}
    <2>1. PICK letter \in {"R", "S", "Q", "C"} : cmd = <<letter>>
      BY <1>1
    <2>2. letter \in Characters /\ letter \notin Special
      BY <2>1, SpecialDiffer DEF Characters
    <2> QED
      BY <2>1, <2>2
  <1>2. CASE cmd \notin {<<"R">>, <<"S">>, <<"Q">>, <<"C">>}
    <2>1. PICK letter, name : /\ cmd = <<letter, name>> /\ letter \in {"E", "D", "0", "1", "EOF"}
                              /\ letter = "E" => name \in Registers
                              /\ letter = "D" => name \in Registers \cup {"P"}
                              /\ letter \in {"0", "1", "EOF"} => name \in Keys
      BY <1>2 DEF Contents, Examine, Deposit
    <2>2. /\ letter \in Characters /\ name \in Characters /\ letter \notin Special
      BY <2>1, SpecialDiffer DEF Characters
    <2> QED
      BY <2>1, <2>2 DEF Examine, Deposit
  <1> QED
    BY <1>1, <1>2

-----------------------------------------------------------------------------
(* The places after a byte.                                                *)
LEMMA PlaceBegun ==
  ASSUME NEW p \in Places, NEW cmd \in Contents
  PROVE  /\ Begun(p, cmd) \in Places
         /\ Begun(p, cmd).cmd = cmd /\ Begun(p, cmd).index = 1 /\ Begun(p, cmd).half = p.half
         /\ Begun(p, cmd).heard = p.heard /\ Begun(p, cmd).cut = p.cut
         /\ Begun(p, cmd).escaped = p.escaped
  <1> DEFINE q == Begun(p, cmd)
  <1>1. q = [p EXCEPT !.cmd = cmd, !.index = 1]
    BY DEF Begun
  <1> HIDE DEF q
  <1>2. q \in Places
    BY <1>1 DEF Places
  <1>3. /\ q.cmd = cmd /\ q.index = 1 /\ q.half = p.half
        /\ q.heard = p.heard /\ q.cut = p.cut /\ q.escaped = p.escaped
    BY <1>1 DEF Places
  <1> QED
    BY <1>2, <1>3 DEF q

(* The ESCAPE of the byte has been written.                                *)
LEMMA PlaceEscaped ==
  ASSUME NEW p \in Places, NEW q, q = [p EXCEPT !.escaped = TRUE]
  PROVE  /\ q \in Places /\ q.cmd = p.cmd /\ q.index = p.index /\ q.half = p.half
         /\ q.heard = p.heard /\ q.cut = p.cut /\ q.escaped = TRUE
  <1>1. q \in Places
    BY DEF Places
  <1>2. /\ q.cmd = p.cmd /\ q.index = p.index /\ q.half = p.half
        /\ q.heard = p.heard /\ q.cut = p.cut /\ q.escaped = TRUE
    BY DEF Places
  <1> QED
    BY <1>1, <1>2

(* So has the byte.                                                        *)
LEMMA PlacePassed ==
  ASSUME NEW p \in Places, NEW q, q = [p EXCEPT !.index = @ + 1, !.escaped = FALSE]
  PROVE  /\ q \in Places /\ q.cmd = p.cmd /\ q.index = p.index + 1 /\ q.half = p.half
         /\ q.heard = p.heard /\ q.cut = p.cut /\ q.escaped = FALSE
  <1>1. p.index + 1 \in Nat
    BY DEF Places
  <1> DEFINE n == p.index + 1
  <1>2. q = [p EXCEPT !.index = n, !.escaped = FALSE] /\ n \in Nat
    BY <1>1
  <1> HIDE DEF n
  <1>3. q \in Places
    BY <1>2 DEF Places
  <1>4. /\ q.cmd = p.cmd /\ q.index = n /\ q.half = p.half
        /\ q.heard = p.heard /\ q.cut = p.cut /\ q.escaped = FALSE
    BY <1>2 DEF Places
  <1> QED
    BY <1>3, <1>4 DEF n

(* The frame is complete.                                                  *)
LEMMA PlaceBetween ==
  ASSUME NEW heard \in BOOLEAN, NEW q, q = [Between EXCEPT !.heard = heard]
  PROVE  /\ q \in Places /\ q.cmd = <<>> /\ q.index = 0 /\ q.half = FALSE
         /\ q.heard = heard /\ q.cut = FALSE /\ q.escaped = FALSE
  BY DEF Places, Between

(* In the middle of a break, and after it.                                 *)
LEMMA PlaceHalf ==
  ASSUME NEW p \in Places, NEW q, q = [p EXCEPT !.half = TRUE]
  PROVE  /\ q \in Places /\ q.cmd = p.cmd /\ q.index = p.index /\ q.half = TRUE
         /\ q.heard = p.heard /\ q.cut = p.cut /\ q.escaped = p.escaped
  <1>1. q \in Places
    BY DEF Places
  <1>2. /\ q.cmd = p.cmd /\ q.index = p.index /\ q.half = TRUE
        /\ q.heard = p.heard /\ q.cut = p.cut /\ q.escaped = p.escaped
    BY DEF Places
  <1> QED
    BY <1>1, <1>2

LEMMA PlaceCut ==
  ASSUME NEW p \in Places
  PROVE  /\ CutAt(p) \in Places /\ CutAt(p).cmd = p.cmd /\ CutAt(p).index = p.index
         /\ CutAt(p).half = FALSE /\ CutAt(p).heard = FALSE
         /\ CutAt(p).cut = (p.index > 0) /\ CutAt(p).escaped = p.escaped
  <1> DEFINE c == p.index > 0
             q == CutAt(p)
  <1>1. c \in BOOLEAN /\ q = [p EXCEPT !.half = FALSE, !.cut = c, !.heard = FALSE]
    BY DEF CutAt
  <1> HIDE DEF c, q
  <1>2. q \in Places
    BY <1>1 DEF Places
  <1>3. /\ q.cmd = p.cmd /\ q.index = p.index /\ q.half = FALSE
        /\ q.heard = FALSE /\ q.cut = c /\ q.escaped = p.escaped
    BY <1>1 DEF Places
  <1> QED
    BY <1>2, <1>3 DEF c, q

(* Nothing of a frame is of a break.                                       *)
LEMMA Kinds ==
  ASSUME NEW item \in Items
  PROVE  /\ OfFrame(item) => ~ OfBreak(item)
         /\ Breaks(item) => /\ OfBreak(item) /\ item.after.half /\ ~ item.at.half
                            /\ item.after.heard = item.at.heard
         /\ BreaksOff(item) => /\ OfBreak(item) /\ item.at.half
                               /\ ~ item.after.half /\ ~ item.after.heard
  <1>1. item.at \in Places /\ item.after \in Places
    BY DEF Items
  <1>2. OfFrame(item) => ~ OfBreak(item)
    <2>1. Starts(item) => ~ OfBreak(item)
      BY <1>1, PlaceBegun DEF Starts, OfBreak
    <2>2. Escapes(item) => ~ OfBreak(item)
      BY <1>1 DEF Escapes, OfBreak, Places
    <2>3. Carries(item) => ~ OfBreak(item)
      BY <1>1 DEF Carries, OfBreak, Places
    <2>4. Ends(item) => ~ OfBreak(item)
      BY <1>1 DEF Ends, OfBreak, Places, Between
    <2> QED
      BY <2>1, <2>2, <2>3, <2>4 DEF OfFrame
  <1>3. Breaks(item) => /\ OfBreak(item) /\ item.after.half /\ ~ item.at.half
                        /\ item.after.heard = item.at.heard
    BY <1>1 DEF Breaks, OfBreak, Places
  <1>4. BreaksOff(item) => /\ OfBreak(item) /\ item.at.half
                           /\ ~ item.after.half /\ ~ item.after.heard
    BY <1>1, PlaceCut DEF BreaksOff, OfBreak
  <1> QED
    BY <1>2, <1>3, <1>4

(* The first byte under way is the receiver's next one.                    *)
LEMMA HeadItem ==
  ASSUME RTypes, LineOK, c2s # <<>>
  PROVE  /\ Head(c2s) = c2s[1] /\ 1 \in 1..Len(c2s) /\ Len(c2s) \in Nat
         /\ Head(c2s) \in Items /\ Head(c2s).at = Reached
         /\ PlaceOK(Head(c2s).at) /\ ItemOK(Head(c2s))
  <1>0. c2s \in Seq(Items)
    BY DEF RTypes
  <1>1. Head(c2s) = c2s[1] /\ Head(c2s) \in Items /\ 1 \in 1..Len(c2s) /\ Len(c2s) \in Nat
    BY <1>0
  <1> QED
    BY <1>1 DEF Reached, Start, LineOK, Chain

(* The place that the receiver has reached.                                *)
LEMMA ReachedOK ==
  ASSUME RTypes, LineOK
  PROVE  /\ Reached \in Places /\ PlaceOK(Reached)
         /\ Reached.half => c2s # <<>>
  <1>1. CASE c2s = <<>>
    BY <1>1 DEF Reached, Start, LineOK, Chain, RTypes
  <1>2. CASE c2s # <<>>
    BY <1>2, HeadItem DEF Items
  <1> QED
    BY <1>1, <1>2

(* Every byte under way is one of a frame or of a break.                   *)
LEMMA ItemsOK ==
  ASSUME RTypes, LineOK, NEW k \in 1..Len(c2s)
  PROVE  /\ c2s[k] \in Items /\ PlaceOK(c2s[k].at) /\ ItemOK(c2s[k])
         /\ c2s[k].after = IF k = Len(c2s) THEN place ELSE c2s[k + 1].at
  BY ElementOfSeq DEF RTypes, LineOK, Chain

(* What a byte of a frame does to a place, whoever is there.               *)
LEMMA Advance ==
  ASSUME RTypes, LineOK, c2s # <<>>, c2s' = Tail(c2s), UNCHANGED <<place, todo>>
  PROVE  /\ c2s' \in Seq(Items) /\ Reached' = Head(c2s).after /\ LineOK'
         /\ Len(c2s) \in Nat /\ Len(c2s') = Len(c2s) - 1
         /\ \A k \in 1..Len(c2s') : k + 1 \in 1..Len(c2s) /\ c2s'[k] = c2s[k + 1]
  <1>0. c2s \in Seq(Items)
    BY DEF RTypes
  <1>1. /\ Head(c2s) = c2s[1] /\ Len(c2s) \in Nat /\ Len(c2s) > 0
        /\ c2s' \in Seq(Items) /\ Len(c2s') = Len(c2s) - 1
        /\ \A k \in 1..Len(c2s') : c2s'[k] = c2s[k + 1]
    BY <1>0
  <1>2. \A k \in 1..Len(c2s') : k + 1 \in 1..Len(c2s)
    BY <1>1
  <1>3. c2s[1].after = IF Len(c2s) = 1 THEN place ELSE c2s[2].at
    <2>1. 1 \in 1..Len(c2s) /\ 1 + 1 = 2
      BY <1>1
    <2>2. c2s[1].after = IF 1 = Len(c2s) THEN place ELSE c2s[1 + 1].at
      BY <2>1 DEF LineOK, Chain
    <2> QED
      BY <2>1, <2>2
  <1>4. Reached' = Head(c2s).after
    <2>1. CASE Len(c2s) = 1
      <3>1. c2s' = <<>>
        BY <1>1, <2>1
      <3> QED
        BY <1>1, <1>3, <2>1, <3>1 DEF Reached, Start
    <2>2. CASE Len(c2s) > 1
      <3>1. 1 \in 1..Len(c2s') /\ 1 + 1 = 2
        BY <1>1, <2>2
      <3>2. c2s'[1] = c2s[2]
        BY <1>1, <3>1
      <3>3. c2s' # <<>> /\ Head(c2s') = c2s'[1]
        <4>1. \A s \in Seq(Items) : 1 \in 1..Len(s) => s # <<>> /\ Head(s) = s[1]
          OBVIOUS
        <4> QED
          BY <1>1, <3>1, <4>1, Zenon
      <3> QED
        <4>1. Len(c2s) # 1
          BY <2>2
        <4> QED
          BY <1>1, <1>3, <3>2, <3>3, <4>1 DEF Reached, Start
    <2> QED
      BY <1>1, <2>1, <2>2
  <1>5. (PlaceOK(place) /\ ~ place.half)' /\ (place.index > 0 => todo # <<>> /\ Head(todo) = place.cmd)'
    BY DEF LineOK, PlaceOK
  <1>6. ASSUME NEW k \in 1..Len(c2s')
        PROVE  (PlaceOK(c2s[k].at) /\ ItemOK(c2s[k]))'
    <2>1. PlaceOK(c2s[k + 1].at) /\ ItemOK(c2s[k + 1])
      BY <1>2, <1>6 DEF LineOK, Chain
    <2>2. c2s'[k] = c2s[k + 1]
      BY <1>1, <1>6
    <2> QED
      BY <2>1, <2>2 DEF PlaceOK, ItemOK, OfFrame, Starts, Escapes, Carries, Ends, Breaks, BreaksOff
  <1>7. ASSUME NEW k \in 1..Len(c2s')
        PROVE  c2s'[k].after = IF k = Len(c2s') THEN place' ELSE c2s'[k + 1].at
    <2>1. c2s[k + 1].after = IF k + 1 = Len(c2s) THEN place ELSE c2s[(k + 1) + 1].at
      BY <1>2, <1>7 DEF LineOK, Chain
    <2>2. k + 1 = Len(c2s) <=> k = Len(c2s')
      BY <1>1, <1>7
    <2>3. k # Len(c2s') => k + 1 \in 1..Len(c2s')
      <3>1. \A i, n \in Nat : i \in 1..n /\ i # n => i + 1 \in 1..n
        OBVIOUS
      <3>2. k \in Nat /\ Len(c2s') \in Nat
        BY <1>1, <1>7
      <3> QED
        BY <1>7, <3>1, <3>2, Zenon
    <2>4. k # Len(c2s') => c2s'[k + 1] = c2s[(k + 1) + 1]
      BY <1>1, <2>3
    <2> QED
      BY <1>1, <1>7, <2>1, <2>2, <2>4
  <1> QED
    BY <1>1, <1>2, <1>4, <1>5, <1>6, <1>7 DEF LineOK, Chain

-----------------------------------------------------------------------------
(* The client writes at the end, and the receiver stays where it is.       *)
LEMMA ChainAppend ==
  ASSUME NEW line \in Seq(Items), NEW item \in Items, NEW end,
         Chain(line, end), PlaceOK(end), item.at = end, ItemOK(item)
  PROVE  /\ Append(line, item) \in Seq(Items) /\ Chain(Append(line, item), item.after)
         /\ Start(Append(line, item), item.after) = Start(line, end)
         /\ Len(line) \in Nat /\ Len(Append(line, item)) = Len(line) + 1
         /\ \A k \in 1..Len(line) : Append(line, item)[k] = line[k]
         /\ Append(line, item)[Len(line) + 1] = item
  <1> DEFINE longer == Append(line, item)
  <1>1. /\ longer \in Seq(Items) /\ Len(line) \in Nat /\ Len(longer) = Len(line) + 1
        /\ \A k \in 1..Len(line) : longer[k] = line[k]
        /\ longer[Len(line) + 1] = item
    OBVIOUS
  <1>2. Start(longer, item.after) = Start(line, end)
    <2>1. longer # <<>> /\ Head(longer) = longer[1]
      OBVIOUS
    <2>2. CASE line = <<>>
      BY <1>1, <2>1, <2>2 DEF Start
    <2>3. CASE line # <<>>
      <3>1. Head(line) = line[1] /\ 1 \in 1..Len(line)
        BY <2>3
      <3> QED
        BY <1>1, <2>1, <2>3, <3>1 DEF Start
    <2> QED
      BY <2>2, <2>3
  <1> HIDE DEF longer
  <1>3. ASSUME NEW k \in 1..Len(longer)
        PROVE  /\ PlaceOK(longer[k].at) /\ ItemOK(longer[k])
               /\ longer[k].after = IF k = Len(longer) THEN item.after ELSE longer[k + 1].at
    <2>1. CASE k = Len(line) + 1
      BY <1>1, <2>1
    <2>2. CASE k \in 1..Len(line) /\ k # Len(line)
      <3>1. k + 1 \in 1..Len(line) /\ k # Len(longer)
        BY <1>1, <2>2
      <3>2. longer[k] = line[k] /\ longer[k + 1] = line[k + 1]
        BY <1>1, <2>2, <3>1
      <3> QED
        BY <2>2, <3>1, <3>2 DEF Chain
    <2>3. CASE k \in 1..Len(line) /\ k = Len(line)
      <3>1. longer[k] = line[k] /\ longer[k + 1] = item /\ k # Len(longer)
        BY <1>1, <2>3
      <3> QED
        BY <2>3, <3>1 DEF Chain
    <2> QED
      BY <1>1, <2>1, <2>2, <2>3
  <1>4. Chain(longer, item.after)
    BY <1>3 DEF Chain
  <1> QED
    BY <1>1, <1>2, <1>4 DEF longer

(* The byte that is written is one of its frame.                           *)
Written(item) ==
  /\ item \in Items /\ OfFrame(item) /\ Content(item) = Head(todo)
  /\ item.at = place /\ item.after = place'
  /\ c2s' = Append(c2s, item)

(* write_byte: the byte is the one of the frame that comes next.           *)
LEMMA WritesFrame ==
  ASSUME RTypes, LineOK, WriteByte
  PROVE  \E item : /\ Written(item) /\ place' \in Places /\ PlaceOK(place') /\ ~ place'.half
                   /\ Ends(item) <=> place'.index = 0
                   /\ Ends(item) => todo' = Tail(todo) /\ place.cmd = Head(todo)
                   /\ ~ Ends(item) => todo' = todo /\ place'.cmd = Head(todo)
                                      /\ place'.heard = place.heard /\ place'.cut = place.cut
  <1> DEFINE cmd == Head(todo)
             p == place
             item == [byte |-> ByteAt(cmd, p.index, p.escaped), at |-> p, after |-> place']
  <1>1. /\ todo # <<>> /\ cmd \in Contents /\ p \in Places /\ PlaceOK(p) /\ ~ p.half
        /\ p.index > 0 => p.cmd = cmd
        /\ c2s' = Append(c2s, item) /\ place' = AfterByte(cmd, p)
        /\ todo' = IF place'.index = 0 THEN Tail(todo) ELSE todo
    <2>1. todo \in Seq(Contents) /\ p \in Places
      BY DEF RTypes
    <2>2. todo # <<>>
      BY DEF WriteByte
    <2>3. cmd \in Contents
      BY <2>1, <2>2
    <2>4. PlaceOK(p) /\ ~ p.half /\ (p.index > 0 => p.cmd = cmd)
      BY DEF LineOK
    <2>5. /\ c2s' = Append(c2s, item) /\ place' = AfterByte(cmd, p)
          /\ todo' = IF place'.index = 0 THEN Tail(todo) ELSE todo
      BY DEF WriteByte
    <2> QED
      BY <2>1, <2>2, <2>3, <2>4, <2>5
  <1>2. /\ Len(cmd) \in Nat /\ Len(cmd) > 0 /\ \A i \in 1..Len(cmd) : cmd[i] \in Characters
        /\ p.index \in Nat /\ Special \subseteq Characters /\ ESCAPE \in Special
        /\ START_FRAME \in Special /\ END_FRAME \in Special
    BY <1>1, ContentShape, SpecialDiffer DEF Places, Characters
  <1> HIDE DEF cmd, p
  <1>3. item.at = p /\ item.after = place' /\ item.byte = ByteAt(cmd, p.index, p.escaped)
    OBVIOUS
  <1> SUFFICES ASSUME item.byte \in Characters /\ item.after \in Places => item \in Items
               PROVE  /\ item \in Items /\ OfFrame(item) /\ Content(item) = cmd
                      /\ place' \in Places /\ PlaceOK(place') /\ ~ place'.half
                      /\ Ends(item) <=> place'.index = 0
                      /\ Ends(item) => p.cmd = cmd
                      /\ ~ Ends(item) => place'.cmd = cmd /\ place'.heard = p.heard /\ place'.cut = p.cut
    <2>1. item.byte \in Characters /\ item.after \in Places => item \in Items
      BY <1>1 DEF Items
    <2> QED
      BY <1>1, <1>3, <2>1 DEF Written, cmd, p
  <1> HIDE DEF item
  <1>4. CASE p.index = 0
    <2>1. place' = Begun(p, cmd)
      BY <1>1, <1>4 DEF AfterByte, Begun
    <2>2. item.byte = START_FRAME
      BY <1>2, <1>3, <1>4 DEF ByteAt, EscapeDue
    <2>3. /\ place' \in Places /\ place'.cmd = cmd /\ place'.index = 1 /\ ~ place'.half
          /\ place'.heard = p.heard /\ place'.cut = p.cut /\ place'.escaped = p.escaped
      <3>1. p \in Places /\ cmd \in Contents
        BY <1>1
      <3>2. /\ place' \in Places /\ place'.cmd = cmd /\ place'.index = 1 /\ place'.half = p.half
            /\ place'.heard = p.heard /\ place'.cut = p.cut /\ place'.escaped = p.escaped
        BY <2>1, <3>1, PlaceBegun
      <3> QED
        BY <1>1, <3>2
    <2>4. Starts(item)
      BY <1>1, <1>3, <1>4, <2>1, <2>2, <2>3 DEF Starts
    <2>5. PlaceOK(place')
      BY <1>1, <1>2, <1>4, <2>3 DEF PlaceOK
    <2>6. ~ Ends(item)
      BY <1>3, <1>4 DEF Ends
    <2>7. Content(item) = cmd
      BY <1>3, <1>4, <2>3 DEF Content
    <2> QED
      BY <1>2, <1>3, <2>2, <2>3, <2>4, <2>5, <2>6, <2>7 DEF OfFrame
  <1>5. CASE p.index > 0 /\ EscapeDue(cmd, p.index, p.escaped)
    <2>1. place' = [p EXCEPT !.escaped = TRUE]
      BY <1>1, <1>5 DEF AfterByte
    <2>2. /\ p.index \in 1..Len(cmd) /\ cmd[p.index] \in Special /\ ~ p.escaped
          /\ p.index # 0 /\ p.index # Len(cmd) + 1 /\ p.cmd = cmd
      BY <1>1, <1>2, <1>5 DEF EscapeDue
    <2>3. item.byte = ESCAPE
      BY <1>3, <1>5, <2>2 DEF ByteAt
    <2>4. /\ place' \in Places /\ place'.cmd = cmd /\ place'.index = p.index /\ ~ place'.half
          /\ place'.heard = p.heard /\ place'.cut = p.cut /\ place'.escaped = TRUE
      BY <1>1, <2>1, <2>2, PlaceEscaped
    <2>5. Escapes(item)
      BY <1>1, <1>3, <2>1, <2>2, <2>3 DEF Escapes
    <2>6. PlaceOK(place')
      BY <1>1, <2>2, <2>4 DEF PlaceOK
    <2>7. ~ Ends(item) /\ place'.index # 0
      BY <1>3, <2>2, <2>4 DEF Ends
    <2>8. Content(item) = cmd
      BY <1>3, <2>2 DEF Content
    <2> QED
      BY <1>2, <1>3, <2>3, <2>4, <2>5, <2>6, <2>7, <2>8 DEF OfFrame
  <1>6. CASE p.index \in 1..Len(cmd) /\ ~ EscapeDue(cmd, p.index, p.escaped)
    <2>1. place' = [p EXCEPT !.index = @ + 1, !.escaped = FALSE]
      BY <1>1, <1>2, <1>6 DEF AfterByte
    <2>2. /\ p.index # 0 /\ p.index # Len(cmd) + 1 /\ p.cmd = cmd /\ p.index > 0
          /\ p.escaped <=> cmd[p.index] \in Special
      BY <1>1, <1>2, <1>6 DEF EscapeDue, PlaceOK
    <2>3. item.byte = cmd[p.index]
      BY <1>3, <1>6, <2>2 DEF ByteAt
    <2>4. /\ place' \in Places /\ place'.cmd = cmd /\ place'.index = p.index + 1 /\ ~ place'.half
          /\ place'.heard = p.heard /\ place'.cut = p.cut /\ place'.escaped = FALSE
      BY <1>1, <2>1, <2>2, PlacePassed
    <2>5. Carries(item)
      BY <1>1, <1>3, <1>6, <2>1, <2>2, <2>3 DEF Carries
    <2>6. PlaceOK(place')
      BY <1>1, <1>2, <1>6, <2>2, <2>4 DEF PlaceOK
    <2>7. ~ Ends(item) /\ place'.index # 0
      BY <1>2, <1>3, <2>2, <2>4 DEF Ends
    <2>8. Content(item) = cmd
      BY <1>3, <2>2 DEF Content
    <2> QED
      BY <1>2, <1>3, <1>6, <2>3, <2>4, <2>5, <2>6, <2>7, <2>8 DEF OfFrame
  <1>7. CASE p.index = Len(cmd) + 1
    <2>1. ~ EscapeDue(cmd, p.index, p.escaped) /\ p.index # 0 /\ ~ (p.index <= Len(cmd)) /\ p.index > 0
      BY <1>2, <1>7 DEF EscapeDue
    <2>2. p.cmd = cmd
      BY <1>1, <2>1
    <2>3. place' = [Between EXCEPT !.heard = (p.heard /\ p.cmd[1] # "EOF") \/ (p.cmd = <<"C">> /\ ~ p.cut)]
      BY <1>1, <2>1, <2>2 DEF AfterByte
    <2>4. item.byte = END_FRAME
      BY <1>3, <1>7, <2>1 DEF ByteAt
    <2>5. /\ place' \in Places /\ place'.index = 0 /\ ~ place'.half /\ ~ place'.cut
          /\ ~ place'.escaped /\ place'.cmd = <<>>
      <3>1. ((p.heard /\ p.cmd[1] # "EOF") \/ (p.cmd = <<"C">> /\ ~ p.cut)) \in BOOLEAN
        OBVIOUS
      <3> QED
        BY <2>3, <3>1, PlaceBetween
    <2>6. Ends(item)
      BY <1>1, <1>3, <1>7, <2>1, <2>2, <2>3, <2>4 DEF Ends
    <2>7. PlaceOK(place')
      BY <2>5 DEF PlaceOK
    <2>8. Content(item) = cmd
      BY <1>3, <2>1, <2>2 DEF Content
    <2> QED
      BY <1>2, <1>3, <2>2, <2>4, <2>5, <2>6, <2>7, <2>8 DEF OfFrame
  <1>8. p.index = 0 \/ p.index \in 1..Len(cmd) \/ p.index = Len(cmd) + 1
    BY <1>1, <1>2 DEF PlaceOK
  <1> QED
    BY <1>2, <1>4, <1>5, <1>6, <1>7, <1>8

(* It joins the bytes under way.                                           *)
LEMMA WriteByteLine ==
  ASSUME RTypes, LineOK, WriteByte
  PROVE  /\ c2s' \in Seq(Items) /\ LineOK' /\ Reached' = Reached
         /\ Len(c2s) \in Nat /\ Len(c2s') = Len(c2s) + 1
         /\ \A k \in 1..Len(c2s) : c2s'[k] = c2s[k]
         /\ Written(c2s'[Len(c2s')])
         /\ place' \in Places /\ PlaceOK(place')
         /\ Ends(c2s'[Len(c2s')]) => todo' = Tail(todo) /\ place.cmd = Head(todo) /\ place'.index = 0
         /\ ~ Ends(c2s'[Len(c2s')]) => /\ todo' = todo /\ place'.cmd = Head(todo)
                                       /\ place'.heard = place.heard /\ place'.cut = place.cut
  <1>1. PICK item : /\ Written(item) /\ place' \in Places /\ PlaceOK(place') /\ ~ place'.half
                    /\ Ends(item) <=> place'.index = 0
                    /\ Ends(item) => todo' = Tail(todo) /\ place.cmd = Head(todo)
                    /\ ~ Ends(item) => todo' = todo /\ place'.cmd = Head(todo)
                                       /\ place'.heard = place.heard /\ place'.cut = place.cut
    BY WritesFrame
  <1>2. /\ c2s \in Seq(Items) /\ item \in Items /\ Chain(c2s, place) /\ PlaceOK(place)
        /\ item.at = place /\ item.after = place' /\ ItemOK(item) /\ c2s' = Append(c2s, item)
    BY <1>1 DEF RTypes, LineOK, Written, ItemOK
  <1>3. /\ c2s' \in Seq(Items) /\ Chain(c2s', place') /\ Start(c2s', place') = Start(c2s, place)
        /\ Len(c2s) \in Nat /\ Len(c2s') = Len(c2s) + 1
        /\ \A k \in 1..Len(c2s) : c2s'[k] = c2s[k]
        /\ c2s'[Len(c2s) + 1] = item
    BY <1>2, ChainAppend
  <1>4. place'.index > 0 => todo' = todo /\ todo # <<>> /\ place'.cmd = Head(todo)
    BY <1>1 DEF WriteByte
  <1>5. LineOK'
    BY <1>1, <1>3, <1>4 DEF LineOK, PlaceOK, Chain, ItemOK, OfFrame, Starts, Escapes, Carries, Ends,
      Breaks, BreaksOff
  <1>6. Reached' = Reached
    BY <1>3 DEF Reached, Start
  <1> QED
    BY <1>1, <1>3, <1>5, <1>6

(* A break is two bytes, the second one cuts the frame.                    *)
LEMMA SendBreakLine ==
  ASSUME RTypes, LineOK, SendBreak, UNCHANGED todo
  PROVE  /\ c2s' \in Seq(Items) /\ LineOK' /\ Reached' = Reached
         /\ Len(c2s) \in Nat /\ Len(c2s') = Len(c2s) + 2
         /\ \A k \in 1..Len(c2s) : c2s'[k] = c2s[k]
         /\ Breaks(c2s'[Len(c2s) + 1]) /\ BreaksOff(c2s'[Len(c2s) + 2])
         /\ c2s'[Len(c2s) + 1] \in Items /\ c2s'[Len(c2s) + 2] \in Items
         /\ place' \in Places /\ ~ place'.heard
         /\ place'.cmd = place.cmd /\ place'.index = place.index
         /\ place'.cut = (place.index > 0)
  <1> DEFINE middle == [place EXCEPT !.half = TRUE]
             end == [place EXCEPT !.cut = place.index > 0, !.heard = FALSE]
             first == [byte |-> CONSOLE, at |-> place, after |-> middle]
             second == [byte |-> CONSOLE, at |-> middle, after |-> end]
  <1>1. /\ c2s \in Seq(Items) /\ place \in Places /\ PlaceOK(place) /\ ~ place.half
        /\ Chain(c2s, place) /\ CONSOLE \in Characters
    BY SpecialDiffer DEF RTypes, LineOK, Characters
  <1>2. /\ Len(ConsoleBreak) = 2 /\ ConsoleBreak[1] = CONSOLE /\ ConsoleBreak[2] = CONSOLE
    BY DEF ConsoleBreak
  <1>3. /\ InBreak(0) = place /\ InBreak(1) = middle /\ InBreak(2) = end
    BY <1>2 DEF InBreak
  <1>4. place' = end
    BY <1>2, <1>3 DEF SendBreak
  <1>5. c2s' = Append(Append(c2s, first), second)
    <2> DEFINE Item(k) == [byte |-> ConsoleBreak[k], at |-> InBreak(k - 1), after |-> InBreak(k)]
               added == [k \in 1..Len(ConsoleBreak) |-> Item(k)]
    <2>1. Item(1) = first /\ Item(2) = second
      <3>1. 1 - 1 = 0 /\ 2 - 1 = 1
        OBVIOUS
      <3> QED
        BY <1>2, <1>3, <3>1
    <2>2. c2s' = c2s \o added
      BY DEF SendBreak
    <2> HIDE DEF Item, first, second
    <2>3. added = <<first, second>>
      BY <1>2, <2>1
    <2> HIDE DEF added
    <2>4. c2s \o <<first, second>> = Append(Append(c2s, first), second)
      BY <1>1
    <2> QED
      BY <2>2, <2>3, <2>4
  <1>6. /\ middle \in Places /\ middle.cmd = place.cmd /\ middle.index = place.index
        /\ middle.half = TRUE /\ middle.heard = place.heard /\ middle.cut = place.cut
        /\ middle.escaped = place.escaped
    <2> HIDE DEF middle
    <2>1. middle = [place EXCEPT !.half = TRUE]
      BY DEF middle
    <2> QED
      BY <1>1, <2>1, PlaceHalf
  <1>7. end = CutAt(middle)
    BY <1>1 DEF Places, CutAt
  <1>8. /\ end \in Places /\ end.cmd = place.cmd /\ end.index = place.index
        /\ end.half = FALSE /\ end.heard = FALSE /\ end.cut = (place.index > 0)
        /\ end.escaped = place.escaped
    <2> HIDE DEF middle, end
    <2> QED
      BY <1>6, <1>7, PlaceCut
  <1>9. /\ first.byte = CONSOLE /\ first.at = place /\ first.after = middle
        /\ second.byte = CONSOLE /\ second.at = middle /\ second.after = end
    OBVIOUS
  <1>10. /\ first \in Items /\ second \in Items
    <2> HIDE DEF middle, end
    <2> QED
      BY <1>1, <1>6, <1>8 DEF Items
  <1> HIDE DEF first, second
  <1>11. Breaks(first)
    BY <1>1, <1>9 DEF Breaks
  <1> HIDE DEF end
  <1>12. BreaksOff(second)
    BY <1>6, <1>7, <1>9 DEF BreaksOff
  <1> HIDE DEF middle
  <1>13. PlaceOK(middle) /\ PlaceOK(end)
    BY <1>1, <1>6, <1>8 DEF PlaceOK, Places
  <1> DEFINE half == Append(c2s, first)
  <1>14. /\ half \in Seq(Items) /\ Chain(half, middle) /\ Start(half, middle) = Start(c2s, place)
         /\ Len(c2s) \in Nat /\ Len(half) = Len(c2s) + 1
         /\ \A k \in 1..Len(c2s) : half[k] = c2s[k]
         /\ half[Len(c2s) + 1] = first
    BY <1>1, <1>9, <1>10, <1>11, ChainAppend DEF ItemOK
  <1> HIDE DEF half
  <1>15. /\ c2s' \in Seq(Items) /\ Chain(c2s', end) /\ Start(c2s', end) = Start(half, middle)
         /\ Len(c2s') = Len(half) + 1
         /\ \A k \in 1..Len(half) : c2s'[k] = half[k]
         /\ c2s'[Len(half) + 1] = second
    <2>1. c2s' = Append(half, second)
      BY <1>5 DEF half
    <2> QED
      BY <1>9, <1>10, <1>12, <1>13, <1>14, <2>1, ChainAppend DEF ItemOK
  <1>16. /\ Len(c2s') = Len(c2s) + 2
         /\ \A k \in 1..Len(c2s) : c2s'[k] = c2s[k]
         /\ c2s'[Len(c2s) + 1] = first /\ c2s'[Len(c2s) + 2] = second
    <2>1. Len(half) + 1 = Len(c2s) + 2 /\ Len(c2s) + 1 \in 1..Len(half)
      BY <1>14
    <2>2. \A k \in 1..Len(c2s) : k \in 1..Len(half)
      BY <1>14
    <2> QED
      BY <1>14, <1>15, <2>1, <2>2
  <1>17. LineOK'
    <2>1. PlaceOK(place)' /\ ~ place'.half
      BY <1>4, <1>8, <1>13 DEF PlaceOK
    <2>2. (place.index > 0 => todo # <<>> /\ Head(todo) = place.cmd)'
      BY <1>4, <1>8 DEF LineOK
    <2>3. Chain(c2s, place)'
      BY <1>4, <1>15 DEF PlaceOK, Chain, ItemOK, OfFrame, Starts, Escapes, Carries, Ends,
        Breaks, BreaksOff
    <2> QED
      BY <2>1, <2>2, <2>3 DEF LineOK
  <1>18. Reached' = Reached
    BY <1>4, <1>14, <1>15 DEF Reached, Start
  <1> QED
    BY <1>4, <1>8, <1>10, <1>11, <1>12, <1>14, <1>15, <1>16, <1>17, <1>18

-----------------------------------------------------------------------------
(* The receiver, byte by byte.                                             *)
LEMMA ReceiverStarts ==
  ASSUME NEW x \in Receivers
  PROVE  /\ Calling(x.buf) \in Receivers /\ Calling(x.buf).state = "WAIT"
         /\ Calling(x.buf).len = 0 /\ Calling(x.buf).buf = x.buf
  BY DEF Receivers, Calling

(* A byte stored: the buffer holds it after those before it.               *)
LEMMA Stored ==
  ASSUME NEW x \in Receivers, x.len <= Len(x.buf), NEW byte \in Characters
  PROVE  /\ Store(x, byte) \in Receivers /\ Store(x, byte).state = "FRAME"
         /\ Store(x, byte).len = x.len + 1 /\ Store(x, byte).len <= Len(Store(x, byte).buf)
         /\ Store(x, byte).buf[x.len + 1] = byte /\ Store(x, byte).buf # <<>>
         /\ \A i \in 1..x.len : Store(x, byte).buf[i] = x.buf[i]
  <1> DEFINE n == x.len
             buf == x.buf
             stored == IF n < Len(buf) THEN [buf EXCEPT ![n + 1] = byte] ELSE Append(buf, byte)
             S == Characters \cup Stops
  <1>1. n \in Nat /\ buf \in Seq(S) /\ byte \in S /\ n <= Len(buf)
    BY DEF Receivers
  <1>2. Store(x, byte) = [state |-> "FRAME", len |-> n + 1, buf |-> stored]
    BY DEF Store
  <1> HIDE DEF n, buf, S
  <1>3. /\ stored \in Seq(S) /\ n + 1 <= Len(stored) /\ stored[n + 1] = byte /\ stored # <<>>
        /\ \A i \in 1..n : stored[i] = buf[i]
    <2>1. CASE n < Len(buf)
      BY <1>1, <2>1
    <2>2. CASE n = Len(buf)
      BY <1>1, <2>2
    <2> QED
      BY <1>1, <2>1, <2>2
  <1> HIDE DEF stored
  <1>4. Store(x, byte) \in Receivers
    BY <1>1, <1>2, <1>3 DEF Receivers, S
  <1> QED
    BY <1>2, <1>3, <1>4 DEF n, buf

Gets(x, byte, y) ==
  /\ y = Store(x, byte)
  /\ \/ x.state = "ESCAPED" /\ byte \in Special
     \/ x.state = "FRAME" /\ byte \notin Special
GetsStart(x, byte, y) ==
  x.state # "ESCAPED" /\ byte = START_FRAME /\ y.state = "FRAME" /\ y.len = 0 /\ y.buf = x.buf
GetsEscape(x, byte, y) ==
  x.state = "FRAME" /\ byte = ESCAPE /\ y.state = "ESCAPED" /\ y.len = x.len /\ y.buf = x.buf
Skips(x, byte, y) ==
  /\ \/ x.state = "ESCAPED" /\ byte \notin Special
     \/ x.state = "WAIT" /\ byte # START_FRAME
  /\ y.state = "WAIT" /\ y.len = x.len /\ y.buf = x.buf

(* What one byte does to the receiver, by its state and the byte.          *)
LEMMA Reads ==
  ASSUME NEW x \in Receivers, x.len <= Len(x.buf), NEW byte \in Characters, Continues(x, byte),
         NEW y, y = read(x, byte)
  PROVE  /\ y \in Receivers /\ y.len <= Len(y.buf) /\ (x.buf # <<>> => y.buf # <<>>)
         /\ Gets(x, byte, y) \/ GetsStart(x, byte, y) \/ GetsEscape(x, byte, y) \/ Skips(x, byte, y)
  <1> USE SpecialDiffer
  <1>0. x.state \in {"WAIT", "FRAME", "ESCAPED"}
    BY DEF Receivers
  <1>3. CASE x.state = "ESCAPED"
    <2>1. y = ReadEscaped(x, byte)
      BY <1>3 DEF read
    <2>2. CASE byte \in Special
      <3>1. y = Store(x, byte)
        BY <2>1, <2>2 DEF ReadEscaped
      <3> QED
        BY <1>3, <2>2, <3>1, Stored DEF Gets
    <2>3. CASE byte \notin Special
      <3>1. y = [x EXCEPT !.state = "WAIT"]
        BY <2>1, <2>3 DEF ReadEscaped
      <3>2. y \in Receivers /\ y.state = "WAIT" /\ y.len = x.len /\ y.buf = x.buf
        BY <3>1 DEF Receivers
      <3> QED
        BY <1>3, <2>3, <3>2 DEF Skips
    <2> QED
      BY <2>2, <2>3
  <1>4. CASE x.state # "ESCAPED"
    <2>1. y = ReadPlain(x, byte)
      BY <1>4 DEF read
    <2>2. byte # CONSOLE /\ byte # END_FRAME
      BY <1>4 DEF Continues, ReturnsBreak, ReturnsFrame
    <2>3. x.state = "WAIT" \/ x.state = "FRAME"
      BY <1>0, <1>4
    <2>4. CASE byte = START_FRAME
      <3>1. y = [x EXCEPT !.state = "FRAME", !.len = 0]
        BY <2>1, <2>4 DEF ReadPlain
      <3>2. y.state = "FRAME" /\ y.len = 0 /\ y.buf = x.buf
        BY <3>1 DEF Receivers
      <3>3. y \in Receivers
        <4>1. y = [[x EXCEPT !.state = "FRAME"] EXCEPT !.len = 0]
          BY <3>1
        <4>2. [x EXCEPT !.state = "FRAME"] \in Receivers
          BY DEF Receivers
        <4>3. \A z \in Receivers : [z EXCEPT !.len = 0] \in Receivers
          BY DEF Receivers
        <4> QED
          BY <4>1, <4>2, <4>3
      <3>4. x.buf \in Seq(Characters \cup Stops) /\ 0 <= Len(x.buf)
        BY DEF Receivers
      <3>5. GetsStart(x, byte, y)
        BY <1>4, <2>4, <3>2 DEF GetsStart
      <3> QED
        BY <3>2, <3>3, <3>4, <3>5, Zenon
    <2>5. CASE byte = ESCAPE /\ x.state = "FRAME"
      <3>1. y = [x EXCEPT !.state = "ESCAPED"]
        BY <2>1, <2>5 DEF ReadPlain
      <3>2. y \in Receivers /\ y.state = "ESCAPED" /\ y.len = x.len /\ y.buf = x.buf
        BY <3>1 DEF Receivers
      <3> QED
        BY <2>5, <3>2 DEF GetsEscape
    <2>6. CASE byte \notin Special /\ x.state = "FRAME"
      <3>1. y = Store(x, byte)
        BY <2>1, <2>6 DEF ReadPlain
      <3> QED
        BY <2>6, <3>1, Stored DEF Gets
    <2>7. CASE x.state = "WAIT" /\ byte # START_FRAME
      <3>1. y = x
        BY <2>1, <2>7 DEF ReadPlain
      <3> QED
        BY <2>7, <3>1 DEF Skips
    <2> QED
      BY <2>2, <2>3, <2>4, <2>5, <2>6, <2>7
  <1> QED
    BY <1>3, <1>4

(* What is known of a place and the one after it.                          *)
LEMMA ItemFields ==
  ASSUME NEW item \in Items, PlaceOK(item.at)
  PROVE  /\ item.at \in Places /\ item.at.index \in Nat /\ item.byte \in Characters
         /\ Starts(item) =>
              /\ ~ item.at.half /\ item.at.index = 0 /\ item.byte = START_FRAME /\ ~ item.at.cut
              /\ item.after.cmd \in Contents /\ item.after.index = 1 /\ ~ item.after.half
              /\ ~ item.after.escaped /\ ~ item.after.cut
              /\ item.after.heard = item.at.heard
         /\ Escapes(item) =>
              /\ ~ item.at.half /\ item.at.index \in 1..Len(item.at.cmd) /\ item.byte = ESCAPE
              /\ ~ item.at.escaped /\ item.at.cmd \in Contents /\ item.at.cmd[item.at.index] \in Special
              /\ item.after.cmd = item.at.cmd /\ item.after.index = item.at.index
              /\ ~ item.after.half /\ item.after.escaped
              /\ item.after.cut = item.at.cut /\ item.after.heard = item.at.heard
         /\ Carries(item) =>
              /\ ~ item.at.half /\ item.at.index \in 1..Len(item.at.cmd)
              /\ item.byte = item.at.cmd[item.at.index] /\ item.at.cmd \in Contents
              /\ item.at.escaped <=> item.byte \in Special
              /\ item.after.cmd = item.at.cmd /\ item.after.index = item.at.index + 1
              /\ ~ item.after.half /\ ~ item.after.escaped
              /\ item.after.cut = item.at.cut /\ item.after.heard = item.at.heard
         /\ Ends(item) =>
              /\ ~ item.at.half /\ item.at.index = Len(item.at.cmd) + 1 /\ item.at.index > 0
              /\ item.byte = END_FRAME /\ item.at.cmd \in Contents /\ ~ item.at.escaped
              /\ item.after.cmd = <<>> /\ item.after.index = 0 /\ ~ item.after.half
              /\ ~ item.after.escaped /\ ~ item.after.cut
              /\ item.after.heard <=> (item.at.heard /\ item.at.cmd[1] # "EOF") \/ (item.at.cmd = <<"C">> /\ ~ item.at.cut)
         /\ Breaks(item) =>
              /\ ~ item.at.half /\ item.byte = CONSOLE
              /\ item.after.cmd = item.at.cmd /\ item.after.index = item.at.index
              /\ item.after.half /\ item.after.escaped = item.at.escaped
              /\ item.after.cut = item.at.cut /\ item.after.heard = item.at.heard
         /\ BreaksOff(item) =>
              /\ item.at.half /\ item.byte = CONSOLE
              /\ item.after.cmd = item.at.cmd /\ item.after.index = item.at.index
              /\ ~ item.after.half /\ item.after.escaped = item.at.escaped
              /\ item.after.cut <=> item.at.index > 0
              /\ ~ item.after.heard
  <1> DEFINE p == item.at
             q == item.after
  <1>1. p \in Places /\ q \in Places /\ p.index \in Nat /\ item.byte \in Characters
    BY DEF Items, Places
  <1>2. p.index > 0 => p.cmd \in Contents /\ Len(p.cmd) \in Nat
    BY ContentShape DEF PlaceOK
  <1>3. ASSUME Starts(item)
        PROVE  /\ ~ p.half /\ p.index = 0 /\ item.byte = START_FRAME /\ ~ p.cut
               /\ q.cmd \in Contents /\ q.index = 1 /\ ~ q.half /\ ~ q.escaped /\ ~ q.cut
               /\ q.heard = p.heard
    BY <1>1, <1>3, PlaceBegun DEF Starts, PlaceOK
  <1>4. ASSUME Escapes(item)
        PROVE  /\ ~ p.half /\ p.index \in 1..Len(p.cmd) /\ item.byte = ESCAPE
               /\ ~ p.escaped /\ p.cmd \in Contents /\ p.cmd[p.index] \in Special
               /\ q.cmd = p.cmd /\ q.index = p.index /\ ~ q.half /\ q.escaped
               /\ q.cut = p.cut /\ q.heard = p.heard
    <2>1. p.index > 0
      BY <1>1, <1>4 DEF Escapes
    <2>2. q = [p EXCEPT !.escaped = TRUE]
      BY <1>4 DEF Escapes
    <2> QED
      BY <1>1, <1>2, <1>4, <2>1, <2>2, PlaceEscaped DEF Escapes
  <1>5. ASSUME Carries(item)
        PROVE  /\ ~ p.half /\ p.index \in 1..Len(p.cmd)
               /\ item.byte = p.cmd[p.index] /\ p.cmd \in Contents
               /\ p.escaped <=> item.byte \in Special
               /\ q.cmd = p.cmd /\ q.index = p.index + 1 /\ ~ q.half /\ ~ q.escaped
               /\ q.cut = p.cut /\ q.heard = p.heard
    <2>1. p.index > 0
      BY <1>1, <1>5 DEF Carries
    <2>2. q = [p EXCEPT !.index = @ + 1, !.escaped = FALSE]
      BY <1>5 DEF Carries
    <2> HIDE DEF p, q
    <2>3. /\ q.cmd = p.cmd /\ q.index = p.index + 1 /\ q.half = p.half
          /\ q.heard = p.heard /\ q.cut = p.cut /\ q.escaped = FALSE
      BY <1>1, <2>2, PlacePassed
    <2>4. /\ ~ p.half /\ p.index \in 1..Len(p.cmd)
          /\ item.byte = p.cmd[p.index] /\ p.cmd \in Contents
          /\ p.escaped <=> item.byte \in Special
      BY <1>2, <1>5, <2>1 DEF Carries, p
    <2> QED
      BY <2>3, <2>4, Zenon
  <1>6. ASSUME Ends(item)
        PROVE  /\ ~ p.half /\ p.index = Len(p.cmd) + 1 /\ p.index > 0
               /\ item.byte = END_FRAME /\ p.cmd \in Contents /\ ~ p.escaped
               /\ q.cmd = <<>> /\ q.index = 0 /\ ~ q.half /\ ~ q.escaped /\ ~ q.cut
               /\ q.heard <=> (p.heard /\ p.cmd[1] # "EOF") \/ (p.cmd = <<"C">> /\ ~ p.cut)
    <2>1. /\ ~ p.half /\ p.index = Len(p.cmd) + 1 /\ p.index > 0 /\ item.byte = END_FRAME
          /\ q = [Between EXCEPT !.heard = (p.heard /\ p.cmd[1] # "EOF")
                                           \/ (p.cmd = <<"C">> /\ ~ p.cut)]
      BY <1>6 DEF Ends
    <2>2. p.cmd \in Contents /\ Len(p.cmd) \in Nat
      BY <1>2, <2>1
    <2>3. ~ p.escaped
      <3>1. \A n \in Nat : n + 1 \notin 1..n
        OBVIOUS
      <3> QED
        BY <2>1, <2>2, <3>1 DEF PlaceOK
    <2> DEFINE heard == (p.heard /\ p.cmd[1] # "EOF") \/ (p.cmd = <<"C">> /\ ~ p.cut)
    <2>4. heard \in BOOLEAN /\ q = [Between EXCEPT !.heard = heard]
      <3>1. heard \in BOOLEAN
        OBVIOUS
      <3>2. q = [Between EXCEPT !.heard = heard]
        BY <2>1, Zenon
      <3> QED
        BY <3>1, <3>2
    <2>5. heard <=> (p.heard /\ p.cmd[1] # "EOF") \/ (p.cmd = <<"C">> /\ ~ p.cut)
      OBVIOUS
    <2> HIDE DEF heard
    <2>6. q.cmd = <<>> /\ q.index = 0 /\ ~ q.half /\ ~ q.escaped /\ ~ q.cut /\ q.heard = heard
      BY <2>4, PlaceBetween
    <2> QED
      BY <2>1, <2>2, <2>3, <2>5, <2>6
  <1>7. ASSUME Breaks(item)
        PROVE  /\ ~ p.half /\ item.byte = CONSOLE
               /\ q.cmd = p.cmd /\ q.index = p.index /\ q.half /\ q.escaped = p.escaped
               /\ q.cut = p.cut /\ q.heard = p.heard
    BY <1>1, <1>7, PlaceHalf DEF Breaks
  <1>8. ASSUME BreaksOff(item)
        PROVE  /\ p.half /\ item.byte = CONSOLE
               /\ q.cmd = p.cmd /\ q.index = p.index /\ ~ q.half /\ q.escaped = p.escaped
               /\ q.cut <=> p.index > 0
               /\ ~ q.heard
    BY <1>1, <1>8, PlaceCut DEF BreaksOff
  <1> HIDE DEF p, q
  <1>9. item.at = p /\ item.after = q
    BY DEF p, q
  <1> QED
    BY <1>1, <1>3, <1>4, <1>5, <1>6, <1>7, <1>8, <1>9

(* A step of the receiver, and the place it is then to be at.              *)
Receives(item, s, x) ==
  /\ item \in Items /\ PlaceOK(item.at) /\ ItemOK(item)
  /\ s \in {"idle", "key", "ack"}
  /\ x \in Receivers /\ x.len <= Len(x.buf)
  /\ Fits(item.at, s, x)

(* It is reading a frame that no break has cut, or ignores one that is cut. *)
LEMMA InFrame ==
  ASSUME NEW item, NEW s, NEW x, Receives(item, s, x), ~ item.at.half, item.at.index > 0
  PROVE  /\ item.at.heard <=> s # "ack"
         /\ ~ item.at.cut =>
              /\ x.state = (IF item.at.escaped THEN "ESCAPED" ELSE "FRAME")
              /\ x.len = item.at.index - 1 /\ x.buf \in Seq(Characters \cup Stops)
              /\ \A i \in 1..x.len : x.buf[i] = item.at.cmd[i]
         /\ item.at.cut =>
              /\ s = "ack" /\ x.len = 0
              /\ x.state = "WAIT" \/ (x.state = "FRAME" /\ item.at.index = Len(item.at.cmd) + 1)
  BY DEF Receives, Fits, Receivers

(* The receiver stays in step when recv_cmd does not return.               *)
LEMMA FitsByte ==
  ASSUME NEW item, NEW s, NEW x, Receives(item, s, x), Continues(x, item.byte)
  PROVE  /\ Fits(item.after, s, read(x, item.byte))
         /\ read(x, item.byte) \in Receivers
         /\ read(x, item.byte).len <= Len(read(x, item.byte).buf)
         /\ x.buf # <<>> => read(x, item.byte).buf # <<>>
         /\ Starts(item) \/ Escapes(item) \/ Carries(item) \/ Breaks(item)
  <1> DEFINE p == item.at
             q == item.after
             y == read(x, item.byte)
  <1>1. /\ item \in Items /\ PlaceOK(p) /\ s \in {"idle", "key", "ack"} /\ x \in Receivers
        /\ x.len <= Len(x.buf) /\ item.byte \in Characters /\ p \in Places /\ p.index \in Nat
        /\ x.len \in Nat
    BY ItemFields DEF Receives, Receivers
  <1>2. /\ y \in Receivers /\ y.len <= Len(y.buf) /\ (x.buf # <<>> => y.buf # <<>>)
        /\ Gets(x, item.byte, y) \/ GetsStart(x, item.byte, y) \/ GetsEscape(x, item.byte, y)
           \/ Skips(x, item.byte, y)
    BY <1>1, Reads
  <1>3. CASE Starts(item)
    <2>1. /\ ~ p.half /\ p.index = 0 /\ item.byte = START_FRAME /\ ~ p.cut
          /\ q.index = 1 /\ ~ q.half /\ ~ q.escaped /\ ~ q.cut /\ q.heard = p.heard
      BY <1>1, <1>3, ItemFields
    <2>2. x.state # "ESCAPED" /\ (p.heard <=> s # "ack")
      BY <2>1 DEF Receives, Fits
    <2>3. y.state = "FRAME" /\ y.len = 0
      BY <1>2, <2>1, <2>2, SpecialDiffer DEF Gets, GetsStart, GetsEscape, Skips
    <2> HIDE DEF y
    <2>4. Fits(q, s, y)
      BY <1>1, <2>1, <2>2, <2>3 DEF Fits
    <2> QED
      BY <1>2, <1>3, <2>4 DEF y
  <1>4. CASE Escapes(item)
    <2>1. /\ ~ p.half /\ p.index \in 1..Len(p.cmd) /\ item.byte = ESCAPE /\ ~ p.escaped
          /\ p.cmd \in Contents
          /\ q.cmd = p.cmd /\ q.index = p.index /\ ~ q.half /\ q.escaped
          /\ q.cut = p.cut /\ q.heard = p.heard
      BY <1>1, <1>4, ItemFields
    <2>2. p.index > 0 /\ p.index # Len(p.cmd) + 1 /\ p.index # 0
      BY <2>1, ContentShape
    <2>3. p.heard <=> s # "ack"
      BY <2>1, <2>2, InFrame
    <2>4. CASE p.cut
      <3>1. s = "ack" /\ x.len = 0 /\ x.state = "WAIT"
        BY <2>1, <2>2, <2>4, InFrame
      <3>2. y.state = "WAIT" /\ y.len = 0
        BY <1>2, <2>1, <3>1, SpecialDiffer DEF Gets, GetsStart, GetsEscape, Skips
      <3> HIDE DEF y
      <3>3. Fits(q, s, y)
        BY <2>1, <2>2, <2>3, <2>4, <3>1, <3>2 DEF Fits
      <3> QED
        BY <1>2, <1>4, <3>3 DEF y
    <2>5. CASE ~ p.cut
      <3>1. x.state = "FRAME" /\ x.len = p.index - 1 /\ \A i \in 1..x.len : x.buf[i] = p.cmd[i]
        BY <2>1, <2>2, <2>5, InFrame
      <3>2. y.state = "ESCAPED" /\ y.len = x.len /\ y.buf = x.buf
        BY <1>2, <2>1, <3>1, SpecialDiffer DEF Gets, GetsStart, GetsEscape, Skips
      <3> HIDE DEF y
      <3>3. Fits(q, s, y)
        BY <1>1, <2>1, <2>2, <2>3, <2>5, <3>1, <3>2 DEF Fits
      <3> QED
        BY <1>2, <1>4, <3>3 DEF y
    <2> QED
      BY <2>4, <2>5
  <1>5. CASE Carries(item)
    <2>1. /\ ~ p.half /\ p.index \in 1..Len(p.cmd) /\ item.byte = p.cmd[p.index]
          /\ p.cmd \in Contents /\ (p.escaped <=> item.byte \in Special)
          /\ q.cmd = p.cmd /\ q.index = p.index + 1 /\ ~ q.half /\ ~ q.escaped
          /\ q.cut = p.cut /\ q.heard = p.heard
      BY <1>1, <1>5, ItemFields
    <2>2. /\ p.index > 0 /\ p.index # Len(p.cmd) + 1 /\ p.index # 0 /\ q.index # 0 /\ q.index > 0
          /\ q.index - 1 = p.index
      BY <1>1, <2>1, ContentShape
    <2>3. p.heard <=> s # "ack"
      BY <2>1, <2>2, InFrame
    <2>4. CASE p.cut
      <3>1. s = "ack" /\ x.len = 0 /\ x.state = "WAIT"
        BY <2>1, <2>2, <2>4, InFrame
      <3>2. \/ y.state = "WAIT" /\ y.len = 0
            \/ y.state = "FRAME" /\ y.len = 0 /\ item.byte = START_FRAME
        BY <1>2, <2>1, <3>1, SpecialDiffer DEF Gets, GetsStart, GetsEscape, Skips
      <3>3. item.byte = START_FRAME => q.index = Len(q.cmd) + 1
        <4>1. item.byte = START_FRAME => p.index = 2 /\ Len(p.cmd) = 2
          BY <2>1, ContentShape, SpecialDiffer
        <4> QED
          BY <2>1, <4>1
      <3> HIDE DEF y
      <3>4. Fits(q, s, y)
        BY <2>1, <2>2, <2>3, <2>4, <3>1, <3>2, <3>3 DEF Fits
      <3> QED
        BY <1>2, <1>5, <3>4 DEF y
    <2>5. CASE ~ p.cut
      <3>1. /\ x.state = (IF p.escaped THEN "ESCAPED" ELSE "FRAME") /\ x.len = p.index - 1
            /\ \A i \in 1..x.len : x.buf[i] = p.cmd[i]
        BY <2>1, <2>2, <2>5, InFrame
      <3>2. y = Store(x, item.byte)
        BY <1>2, <2>1, <3>1, SpecialDiffer DEF Gets, GetsStart, GetsEscape, Skips
      <3>3. /\ y.state = "FRAME" /\ y.len = x.len + 1 /\ y.buf[x.len + 1] = item.byte
            /\ \A i \in 1..x.len : y.buf[i] = x.buf[i]
        BY <1>1, <3>2, Stored
      <3> HIDE DEF y
      <3>4. y.len = q.index - 1 /\ \A i \in 1..y.len : y.buf[i] = q.cmd[i]
        <4>1. x.len + 1 = p.index /\ y.len = p.index
          BY <1>1, <3>1, <3>3
        <4>2. \A i \in 1..p.index : i \in 1..x.len \/ i = p.index
          BY <1>1, <4>1
        <4> QED
          BY <2>1, <2>2, <3>1, <3>3, <4>1, <4>2
      <3>5. Fits(q, s, y)
        BY <1>1, <2>1, <2>2, <2>3, <2>5, <3>3, <3>4 DEF Fits
      <3> QED
        BY <1>2, <1>5, <3>5 DEF y
    <2> QED
      BY <2>4, <2>5
  <1>6. CASE Breaks(item)
    <2>1. /\ ~ p.half /\ item.byte = CONSOLE /\ q.cmd = p.cmd /\ q.index = p.index /\ q.half
          /\ q.escaped = p.escaped /\ q.cut = p.cut /\ q.heard = p.heard
      BY <1>1, <1>6, ItemFields
    <2>2. x.state = "ESCAPED"
      BY <2>1 DEF Continues, ReturnsBreak
    <2>3. p.index > 0 /\ p.index # 0
      BY <1>1, <2>2 DEF Receives, Fits
    <2>4. ~ p.cut /\ p.escaped
      BY <2>1, <2>2, <2>3, InFrame
    <2>5. y.state = "FRAME"
      <3>1. y = Store(x, item.byte)
        BY <1>2, <2>1, <2>2, SpecialDiffer DEF Gets, GetsStart, GetsEscape, Skips
      <3> QED
        BY <1>1, <3>1, Stored
    <2> HIDE DEF y
    <2>6. Fits(q, s, y)
      BY <1>1, <2>1, <2>3, <2>4, <2>5 DEF Fits
    <2> QED
      BY <1>2, <1>6, <2>6 DEF y
  <1>7. ~ BreaksOff(item)
    <2> SUFFICES ASSUME BreaksOff(item) PROVE FALSE
      OBVIOUS
    <2>1. p.half /\ item.byte = CONSOLE
      BY <1>1, ItemFields
    <2>2. x.state # "ESCAPED"
      BY <2>1 DEF Receives, Fits
    <2> QED
      BY <2>1, <2>2 DEF Continues, ReturnsBreak
  <1>8. ~ Ends(item)
    <2> SUFFICES ASSUME Ends(item) PROVE FALSE
      OBVIOUS
    <2>1. ~ p.half /\ p.index > 0 /\ item.byte = END_FRAME /\ ~ p.escaped
      BY <1>1, ItemFields
    <2>2. x.state # "ESCAPED"
      BY <2>1, InFrame
    <2> QED
      BY <2>1, <2>2 DEF Continues, ReturnsFrame
  <1> QED
    BY <1>3, <1>4, <1>5, <1>6, <1>7, <1>8 DEF Receives, ItemOK, OfFrame

(* What the receiver takes for a break is one, unless it ignores all.      *)
LEMMA FitsBreak ==
  ASSUME NEW item, NEW s, NEW x, Receives(item, s, x), ReturnsBreak(x, item.byte)
  PROVE  /\ Fits(item.after, "ack", Calling(x.buf))
         /\ s # "ack" => OfBreak(item)
         /\ Breaks(item) \/ BreaksOff(item) \/ (Carries(item) /\ s = "ack")
  <1> DEFINE p == item.at
             q == item.after
             z == Calling(x.buf)
  <1>1. /\ item \in Items /\ PlaceOK(p) /\ item.byte = CONSOLE /\ x.state # "ESCAPED"
        /\ p \in Places /\ q \in Places /\ p.index \in Nat
        /\ z.state = "WAIT" /\ z.len = 0
    BY ItemFields, ReceiverStarts DEF Receives, ReturnsBreak, Items
  <1> HIDE DEF z
  <1>2. CASE Breaks(item)
    <2>1. q.half
      BY <1>1, <1>2, ItemFields
    <2> QED
      BY <1>1, <1>2, <2>1, Kinds DEF Fits, z
  <1>3. CASE BreaksOff(item)
    <2>1. ~ q.half /\ ~ q.heard /\ (q.cut <=> p.index > 0) /\ q.index = p.index
      BY <1>1, <1>3, ItemFields
    <2> QED
      BY <1>1, <1>3, <2>1, Kinds DEF Fits, z
  <1>4. CASE Carries(item)
    <2>1. /\ ~ p.half /\ p.index \in 1..Len(p.cmd) /\ (p.escaped <=> item.byte \in Special)
          /\ p.cmd \in Contents /\ q.index = p.index + 1
          /\ ~ q.half /\ q.cut = p.cut /\ q.heard = p.heard
      BY <1>1, <1>4, ItemFields
    <2>2. p.index > 0 /\ p.escaped
      BY <1>1, <2>1, SpecialDiffer
    <2>3. p.cut
      BY <1>1, <2>1, <2>2, InFrame
    <2>4. s = "ack" /\ ~ p.heard
      BY <2>1, <2>2, <2>3, InFrame
    <2>5. q.index # 0
      BY <1>1, <2>1
    <2> QED
      BY <1>1, <1>4, <2>1, <2>3, <2>4, <2>5 DEF Fits, z
  <1>5. ~ Starts(item) /\ ~ Escapes(item) /\ ~ Ends(item)
    BY <1>1, ItemFields, SpecialDiffer
  <1> QED
    BY <1>2, <1>3, <1>4, <1>5 DEF Receives, ItemOK, OfFrame

(* And what it takes for a frame is the frame that was written, unless a   *)
(* break has cut it: then it is empty, and nobody listens.                 *)
Whole(item, s, x) ==
  /\ Ends(item) /\ ~ item.at.cut /\ item.at.cmd \in Contents
  /\ x.len = Len(item.at.cmd) /\ x.len > 0 /\ x.buf # <<>>
  /\ x.buf[1] = item.at.cmd[1] /\ (x.len = 2 => x.buf[2] = item.at.cmd[2])
  /\ item.at.heard <=> s # "ack"

Empty(item, s, x) ==
  /\ s = "ack" /\ x.len = 0 /\ Fits(item.after, "ack", Calling(x.buf))
  /\ ~ item.at.heard /\ ~ item.after.heard

(* An END_FRAME ends the whole frame, or an empty one that nobody hears.   *)
LEMMA FitsFrame ==
  ASSUME NEW item, NEW s, NEW x, Receives(item, s, x), ReturnsFrame(x, item.byte)
  PROVE  /\ Whole(item, s, x) \/ Empty(item, s, x)
         /\ Ends(item) \/ Carries(item)
  <1> DEFINE p == item.at
             q == item.after
             z == Calling(x.buf)
  <1>1. /\ item \in Items /\ PlaceOK(p) /\ item.byte = END_FRAME /\ x.state # "ESCAPED"
        /\ p \in Places /\ q \in Places /\ p.index \in Nat
        /\ z.state = "WAIT" /\ z.len = 0 /\ x.len \in Nat /\ x.len <= Len(x.buf)
        /\ x.buf \in Seq(Characters \cup Stops)
    BY ItemFields, ReceiverStarts DEF Receives, ReturnsFrame, Items, Receivers
  <1> HIDE DEF z
  <1>2. CASE Ends(item)
    <2>1. /\ ~ p.half /\ p.index = Len(p.cmd) + 1 /\ p.index > 0 /\ p.cmd \in Contents
          /\ ~ p.escaped /\ q.index = 0 /\ ~ q.half /\ ~ q.cut
          /\ q.heard <=> (p.heard /\ p.cmd[1] # "EOF") \/ (p.cmd = <<"C">> /\ ~ p.cut)
      BY <1>1, <1>2, ItemFields
    <2>2. p.heard <=> s # "ack"
      BY <2>1, InFrame
    <2>3. CASE p.cut
      <3>1. s = "ack" /\ x.len = 0
        BY <2>1, <2>3, InFrame
      <3>2. Fits(q, "ack", z)
        BY <1>1, <2>1, <2>2, <2>3, <3>1 DEF Fits
      <3> QED
        BY <1>2, <2>1, <2>2, <2>3, <3>1, <3>2 DEF Empty, z
    <2>4. CASE ~ p.cut
      <3>1. x.len = p.index - 1 /\ \A i \in 1..x.len : x.buf[i] = p.cmd[i]
        BY <2>1, <2>4, InFrame
      <3>2. Len(p.cmd) \in 1..2
        BY <2>1, ContentShape
      <3>3. x.len = Len(p.cmd) /\ x.len > 0 /\ 1 \in 1..x.len /\ (x.len = 2 => 2 \in 1..x.len)
        <4>1. \A n \in 1..2, i, l \in Nat : i = n + 1 /\ l = i - 1 =>
                l = n /\ l > 0 /\ 1 \in 1..l /\ (l = 2 => 2 \in 1..l)
          OBVIOUS
        <4> QED
          BY <1>1, <2>1, <3>1, <3>2, <4>1
      <3>4. x.buf # <<>>
        BY <1>1, <3>3
      <3> QED
        BY <1>2, <2>1, <2>2, <2>4, <3>1, <3>3, <3>4 DEF Whole
    <2> QED
      BY <2>3, <2>4
  <1>3. CASE Carries(item)
    <2>1. /\ ~ p.half /\ p.index \in 1..Len(p.cmd) /\ (p.escaped <=> item.byte \in Special)
          /\ p.cmd \in Contents /\ q.index = p.index + 1
          /\ ~ q.half /\ q.cut = p.cut /\ q.heard = p.heard
      BY <1>1, <1>3, ItemFields
    <2>2. p.index > 0 /\ p.escaped
      BY <1>1, <2>1, SpecialDiffer
    <2>3. p.cut
      BY <1>1, <2>1, <2>2, InFrame
    <2>4. s = "ack" /\ ~ p.heard /\ x.len = 0
      BY <2>1, <2>2, <2>3, InFrame
    <2>5. q.index # 0
      BY <1>1, <2>1
    <2>6. Fits(q, "ack", z)
      BY <1>1, <2>1, <2>3, <2>4, <2>5 DEF Fits
    <2> QED
      BY <1>3, <2>1, <2>4, <2>6 DEF Empty, z
  <1>4. ~ Starts(item) /\ ~ Escapes(item) /\ ~ Breaks(item) /\ ~ BreaksOff(item)
    BY <1>1, ItemFields, SpecialDiffer
  <1> QED
    BY <1>2, <1>3, <1>4 DEF Receives, ItemOK, OfFrame

(* After a whole frame the receiver starts anew, wherever it waits.        *)
LEMMA FitsNext ==
  ASSUME NEW item \in Items, PlaceOK(item.at), Ends(item), NEW s, NEW x, x.state # "ESCAPED",
         item.after.heard <=> s # "ack"
  PROVE  Fits(item.after, s, x)
  BY ItemFields DEF Fits

-----------------------------------------------------------------------------
(* A byte read: what is under way moves up.                                *)
ReadsByte == c2s # <<>> /\ c2s' = Tail(c2s) /\ UNCHANGED client

(* A byte read: the rest of the line.                                      *)
LEMMA ReadsLine ==
  ASSUME RTypes, LineOK, ReadsByte
  PROVE  /\ c2s' \in Seq(Items) /\ Reached' = Head(c2s).after /\ LineOK'
         /\ Len(c2s) \in Nat /\ Len(c2s') \in Nat /\ Len(c2s') = Len(c2s) - 1
         /\ Head(c2s) = c2s[1] /\ 1 \in 1..Len(c2s)
         /\ \A k \in 1..Len(c2s') : k + 1 \in 1..Len(c2s) /\ c2s'[k] = c2s[k + 1]
         /\ \A k \in 1..Len(c2s) : k # 1 => k - 1 \in 1..Len(c2s') /\ c2s'[k - 1] = c2s[k]
  <1>1. /\ c2s' \in Seq(Items) /\ Reached' = Head(c2s).after /\ LineOK'
        /\ Len(c2s) \in Nat /\ Len(c2s') = Len(c2s) - 1
        /\ \A k \in 1..Len(c2s') : k + 1 \in 1..Len(c2s) /\ c2s'[k] = c2s[k + 1]
    BY Advance DEF ReadsByte, client
  <1>2. Head(c2s) = c2s[1] /\ 1 \in 1..Len(c2s) /\ Len(c2s') \in Nat
    BY <1>1, HeadItem DEF ReadsByte
  <1>3. ASSUME NEW k \in 1..Len(c2s), k # 1
        PROVE  k - 1 \in 1..Len(c2s') /\ c2s'[k - 1] = c2s[k]
    <2>1. k - 1 \in 1..Len(c2s') /\ (k - 1) + 1 = k
      BY <1>1, <1>3
    <2> QED
      BY <1>1, <2>1
  <1> QED
    BY <1>1, <1>2, <1>3

(* The confirmations that are left.                                        *)
LEMMA ReadsConfirmed ==
  ASSUME RTypes, LineOK, ReadsByte
  PROVE  /\ Confirming' = Confirming /\ TodoLive' = TodoLive
         /\ Confirmed' => Confirmed
         /\ Confirmed /\ ~ Revives(Head(c2s)) => Confirmed'
  <1>1. Confirming' = Confirming /\ TodoLive' = TodoLive
    BY DEF ReadsByte, client, Confirming, TodoLive
  <1>2. Confirmed' => Confirmed
    BY <1>1, ReadsLine DEF Confirmed
  <1>3. ASSUME Confirmed, ~ Revives(Head(c2s))
        PROVE  Confirmed'
    <2>1. ASSUME NEW k \in 1..Len(c2s), Revives(c2s[k])
          PROVE  \E i \in 1..Len(c2s') : Revives(c2s'[i])
      BY <1>3, <2>1, ReadsLine
    <2> QED
      BY <1>1, <1>3, <2>1 DEF Confirmed
  <1> QED
    BY <1>1, <1>2, <1>3

(* What a byte does to the server that waits for a 'C', or does not.       *)
HearsOn ==
  /\ srv # "ack" /\ srv' # "ack"
  /\ s2c' = s2c \/ \E value \in Values : s2c' = Append(s2c, value)
Awaits ==
  /\ srv # "ack" /\ srv' = "ack" /\ s2c' = Append(s2c, <<"I">>)
  /\ OfBreak(Head(c2s)) \/ Closes(Head(c2s))
StaysDeaf == srv = "ack" /\ srv' = "ack" /\ s2c' = s2c /\ ~ Revives(Head(c2s))
Resumes == srv = "ack" /\ srv' = "idle" /\ s2c' = s2c /\ Revives(Head(c2s))
ReadMove == HearsOn \/ Awaits \/ StaysDeaf \/ Resumes

(* What a byte that is read leaves of AckOK, by what the server does.      *)
LEMMA ReadsAckOK ==
  ASSUME RTypes, LineOK, AckOK, ReadsByte, ReadMove
  PROVE  AckOK'
  <1>1. /\ s2c \in Seq(Replies) /\ Len(s2c) \in Nat /\ todo' = todo /\ place' = place
        /\ <<"I">> \notin Values
    <2>1. s2c \in Seq(Replies) /\ todo' = todo /\ place' = place
      BY DEF RTypes, ReadsByte, client
    <2>2. <<"I">> \notin Values
      BY DEF Values
    <2> QED
      BY <2>1, <2>2
  <1>2. (/\ \A j, k \in 1..Len(c2s) : Revives(c2s[j]) /\ Revives(c2s[k]) => j = k
         /\ \A k \in 1..Len(c2s) : Revives(c2s[k]) => ~ Confirming
         /\ \A i \in 2..Len(todo) : todo[i] # <<"C">>
         /\ todo # <<>> /\ Head(todo) = <<"C">> => ~ place.heard
         /\ \A k \in 1..Len(c2s) :
              ~ OfBreak(c2s[k]) /\ Content(c2s[k]) = <<"C">> => ~ c2s[k].at.heard)'
    <2>1. ASSUME NEW j \in 1..Len(c2s'), NEW k \in 1..Len(c2s'), Revives(c2s'[j]), Revives(c2s'[k])
          PROVE  j = k
      <3>1. /\ c2s'[j] = c2s[j + 1] /\ c2s'[k] = c2s[k + 1]
            /\ j + 1 \in 1..Len(c2s) /\ k + 1 \in 1..Len(c2s)
        BY ReadsLine
      <3>2. j + 1 = k + 1
        BY <2>1, <3>1 DEF AckOK
      <3> QED
        BY <3>2
    <2>2. ASSUME NEW k \in 1..Len(c2s')
          PROVE  /\ Revives(c2s'[k]) => ~ Confirming'
                 /\ ~ OfBreak(c2s'[k]) /\ Content(c2s'[k]) = <<"C">> => ~ c2s'[k].at.heard
      BY ReadsLine, ReadsConfirmed DEF AckOK
    <2> QED
      BY <1>1, <2>1, <2>2 DEF AckOK, Revives, OfBreak, Content
  <1>3. CASE HearsOn
    <2>1. ~ Interrupted'
      <3>1. \A i \in 1..Len(s2c) : s2c[i] # <<"I">>
        BY <1>3 DEF HearsOn, AckOK, Interrupted
      <3>2. \A value \in Values : \A i \in 1..Len(Append(s2c, value)) : Append(s2c, value)[i] # <<"I">>
        BY <1>1, <3>1
      <3> QED
        BY <1>3, <3>1, <3>2 DEF HearsOn, Interrupted
    <2>2. ~ Confirmed'
      BY <1>3, ReadsConfirmed DEF HearsOn, AckOK
    <2> QED
      BY <1>2, <1>3, <2>1, <2>2 DEF AckOK, HearsOn, Interrupted
  <1>4. CASE Awaits
    <2>1. \A i \in 1..Len(s2c) : s2c[i] # <<"I">>
      BY <1>4 DEF Awaits, AckOK, Interrupted
    <2>2. ~ Confirmed'
      BY <1>4, ReadsConfirmed DEF Awaits, AckOK
    <2>3. /\ s2c' # <<>> /\ s2c'[Len(s2c')] = <<"I">>
          /\ \A i \in 1..Len(s2c') : s2c'[i] = <<"I">> => i = Len(s2c')
      BY <1>1, <1>4, <2>1 DEF Awaits
    <2> QED
      BY <1>2, <1>4, <2>2, <2>3 DEF AckOK, Awaits
  <1>5. CASE StaysDeaf
    BY <1>2, <1>5, ReadsConfirmed DEF AckOK, StaysDeaf
  <1>6. CASE Resumes
    <2>1. Confirmed
      BY <1>6, ReadsLine DEF Confirmed, Resumes
    <2>2. ~ Interrupted'
      BY <1>6, <2>1 DEF Resumes, AckOK, Interrupted
    <2>3. ~ Confirmed'
      <3>1. ~ Confirming'
        BY <1>6, ReadsLine, ReadsConfirmed DEF AckOK, Resumes
      <3>2. ASSUME NEW k \in 1..Len(c2s'), Revives(c2s'[k])
            PROVE  FALSE
        <4>1. Revives(c2s[k + 1]) /\ k + 1 \in 1..Len(c2s)
          BY <3>2, ReadsLine
        <4>2. Revives(c2s[1]) /\ 1 \in 1..Len(c2s)
          BY <1>6, ReadsLine DEF Resumes
        <4>3. k + 1 = 1
          BY <4>1, <4>2 DEF AckOK
        <4> QED
          BY <4>3
      <3> QED
        BY <3>1, <3>2 DEF Confirmed
    <2> QED
      BY <1>2, <1>6, <2>2, <2>3 DEF AckOK, Resumes, Interrupted
  <1> QED
    BY <1>3, <1>4, <1>5, <1>6 DEF ReadMove

(* And of HeardOK.                                                         *)
LEMMA ReadsHeardOK ==
  ASSUME RTypes, LineOK, HeardOK, ReadsByte, ReadMove
  PROVE  HeardOK'
  <1>0. Len(c2s) \in Nat /\ Len(c2s') \in Nat /\ place' = place
    BY ReadsLine DEF ReadsByte, client
  (* "After j" shifts with the items.                                      *)
  <1>1. ASSUME NEW j \in 0..Len(c2s'),
               \A k \in (j + 2)..Len(c2s) : Live(c2s[k]) =>
                 \E i \in (j + 2)..(k - 1) : Revives(c2s[i]),
               place.heard => \E i \in (j + 2)..Len(c2s) : Revives(c2s[i])
        PROVE  /\ \A k \in (j + 1)..Len(c2s') : Live(c2s'[k]) =>
                    \E i \in (j + 1)..(k - 1) : Revives(c2s'[i])
               /\ place'.heard => \E i \in (j + 1)..Len(c2s') : Revives(c2s'[i])
    <2>1. Len(c2s') = Len(c2s) - 1 /\ j \in Nat
      BY ReadsLine
    <2>2. ASSUME NEW k \in (j + 1)..Len(c2s'), Live(c2s'[k])
          PROVE  \E i \in (j + 1)..(k - 1) : Revives(c2s'[i])
      <3>1. k \in 1..Len(c2s') /\ k + 1 \in (j + 2)..Len(c2s)
        BY <1>0, <2>1
      <3>2. Live(c2s[k + 1])
        BY <2>2, <3>1, ReadsLine
      <3>3. PICK i \in (j + 2)..((k + 1) - 1) : Revives(c2s[i])
        BY <1>1, <3>1, <3>2
      <3>4. i \in 1..Len(c2s) /\ i # 1 /\ i - 1 \in (j + 1)..(k - 1)
        BY <1>0, <2>1, <3>1
      <3>5. c2s'[i - 1] = c2s[i]
        BY <3>4, ReadsLine
      <3> QED
        BY <3>3, <3>4, <3>5
    <2>3. ASSUME place'.heard
          PROVE  \E i \in (j + 1)..Len(c2s') : Revives(c2s'[i])
      <3>1. PICK i \in (j + 2)..Len(c2s) : Revives(c2s[i])
        BY <1>0, <1>1, <2>3
      <3>2. i \in 1..Len(c2s) /\ i # 1 /\ i - 1 \in (j + 1)..Len(c2s')
        BY <1>0, <2>1
      <3>3. c2s'[i - 1] = c2s[i]
        BY <3>2, ReadsLine
      <3> QED
        BY <3>1, <3>2, <3>3
    <2> QED
      BY <2>2, <2>3
  <1>2. (\A j \in 1..Len(c2s) : Closes(c2s[j]) =>
          /\ \A k \in (j + 1)..Len(c2s) : Live(c2s[k]) => \E i \in (j + 1)..(k - 1) : Revives(c2s[i])
          /\ place.heard => \E i \in (j + 1)..Len(c2s) : Revives(c2s[i]))'
    <2> SUFFICES ASSUME NEW j \in 1..Len(c2s'), Closes(c2s'[j])
                 PROVE  /\ \A k \in (j + 1)..Len(c2s') : Live(c2s'[k]) =>
                             \E i \in (j + 1)..(k - 1) : Revives(c2s'[i])
                        /\ place'.heard => \E i \in (j + 1)..Len(c2s') : Revives(c2s'[i])
      BY DEF Live, Revives, OfBreak, Closes
    <2>1. j \in 0..Len(c2s') /\ j + 1 \in 1..Len(c2s) /\ (j + 1) + 1 = j + 2 /\ Closes(c2s[j + 1])
      BY <1>0, ReadsLine
    <2>2. /\ \A k \in (j + 2)..Len(c2s) : Live(c2s[k]) =>
               \E i \in (j + 2)..(k - 1) : Revives(c2s[i])
          /\ place.heard => \E i \in (j + 2)..Len(c2s) : Revives(c2s[i])
      BY <2>1 DEF HeardOK
    <2> QED
      BY <1>1, <2>1, <2>2
  <1>3. ASSUME srv' = "ack"
        PROVE  /\ \A k \in 1..Len(c2s') : Live(c2s'[k]) => \E i \in 1..(k - 1) : Revives(c2s'[i])
               /\ place'.heard => \E i \in 1..Len(c2s') : Revives(c2s'[i])
    <2>0. /\ 1 \in 1..Len(c2s) /\ 0 \in 0..Len(c2s') /\ 0 + 1 = 1 /\ 0 + 2 = 2 /\ 1 + 1 = 2
          /\ Head(c2s) = c2s[1]
      BY <1>0, ReadsLine
    <2> SUFFICES /\ \A k \in 2..Len(c2s) : Live(c2s[k]) => \E i \in 2..(k - 1) : Revives(c2s[i])
                 /\ place.heard => \E i \in 2..Len(c2s) : Revives(c2s[i])
      BY <1>1, <2>0
    <2>1. CASE StaysDeaf
      <3>1. ~ Revives(c2s[1]) /\ srv = "ack"
        BY <2>0, <2>1 DEF StaysDeaf
      <3>2. ASSUME NEW k \in 2..Len(c2s), Live(c2s[k])
            PROVE  \E i \in 2..(k - 1) : Revives(c2s[i])
        <4>1. k \in 1..Len(c2s)
          BY <1>0
        <4>2. PICK i \in 1..(k - 1) : Revives(c2s[i])
          BY <3>1, <3>2, <4>1 DEF HeardOK
        <4>3. i \in 2..(k - 1)
          BY <1>0, <3>1, <4>2
        <4> QED
          BY <4>2, <4>3
      <3>3. ASSUME place.heard
            PROVE  \E i \in 2..Len(c2s) : Revives(c2s[i])
        <4>1. PICK i \in 1..Len(c2s) : Revives(c2s[i])
          BY <3>1, <3>3 DEF HeardOK
        <4>2. i \in 2..Len(c2s)
          BY <1>0, <3>1, <4>1
        <4> QED
          BY <4>1, <4>2
      <3> QED
        BY <3>2, <3>3
    <2>2. CASE Awaits /\ Closes(c2s[1])
      BY <2>0, <2>2 DEF HeardOK
    <2>3. CASE Awaits /\ c2s[1].after.half
      <3>1. c2s[1].after = (IF 1 = Len(c2s) THEN place ELSE c2s[2].at) /\ ~ place.half
        BY <2>0, ItemsOK DEF LineOK
      <3>2. Len(c2s) # 1 /\ c2s[2].at.half
        BY <2>3, <3>1
      <3>3. 2 \in 1..Len(c2s) /\ 2 + 1 = 3
        BY <1>0, <2>0, <3>2
      <3>4. /\ \A k \in 3..Len(c2s) : Live(c2s[k]) => \E i \in 3..(k - 1) : Revives(c2s[i])
            /\ place.heard => \E i \in 3..Len(c2s) : Revives(c2s[i])
        BY <3>2, <3>3 DEF HeardOK, Closes
      <3>5. ~ Live(c2s[2])
        BY <3>2 DEF Live, OfBreak
      <3>6. ASSUME NEW k \in 2..Len(c2s), Live(c2s[k])
            PROVE  \E i \in 2..(k - 1) : Revives(c2s[i])
        <4>1. k \in 3..Len(c2s)
          BY <1>0, <3>5, <3>6
        <4>2. PICK i \in 3..(k - 1) : Revives(c2s[i])
          BY <3>4, <3>6, <4>1
        <4>3. i \in 2..(k - 1)
          OBVIOUS
        <4> QED
          BY <4>2, <4>3
      <3>7. ASSUME place.heard
            PROVE  \E i \in 2..Len(c2s) : Revives(c2s[i])
        <4>1. PICK i \in 3..Len(c2s) : Revives(c2s[i])
          BY <3>4, <3>7
        <4>2. i \in 2..Len(c2s)
          OBVIOUS
        <4> QED
          BY <4>1, <4>2
      <3> QED
        BY <3>6, <3>7
    <2> QED
      BY <1>3, <2>0, <2>1, <2>2, <2>3 DEF ReadMove, HearsOn, Awaits, StaysDeaf, Resumes, OfBreak,
                                          Closes
  <1> QED
    BY <1>2, <1>3 DEF HeardOK, Live, Revives, OfBreak, Closes

(* Both sides expect the same as before, unless a command was taken.       *)
LEMMA ReadsAgreed ==
  ASSUME RTypes, LineOK, Agreed, ReadsByte, Open' => Open, Then' = Then, s2c' = s2c, trace' = trace
  PROVE  Agreed'
  <1> SUFFICES ASSUME Open, Open'
               PROVE  Agreed'
    BY DEF Agreed
  <1>1. /\ todo' = todo /\ at' = at /\ asked' = asked /\ TodoLive' = TodoLive
    BY ReadsConfirmed DEF ReadsByte, client
  <1>2. Shape'
    BY <1>1 DEF Agreed, Shape, Queue, Value
  <1>3. \A cmd : Due(cmd, Then', at', asked') <=> Expects(cmd)
    BY <1>1 DEF Expects
  <1>4. ASSUME NEW k \in 1..Len(c2s')
        PROVE  /\ Live(c2s'[k]) => Expects(Content(c2s'[k]))
               /\ Live(c2s'[k]) /\ Ends(c2s'[k]) /\ c2s'[k].at.cmd[1] # "D" =>
                    todo = <<>> /\ \A j \in (k + 1)..Len(c2s') : OfBreak(c2s'[j])
               /\ s2c # <<>> => ~ Live(c2s'[k])
    <2>1. c2s'[k] = c2s[k + 1] /\ k + 1 \in 1..Len(c2s)
      BY ReadsLine
    <2>2. ASSUME NEW j \in (k + 1)..Len(c2s')
          PROVE  j + 1 \in ((k + 1) + 1)..Len(c2s) /\ c2s'[j] = c2s[j + 1]
      <3>1. j \in 1..Len(c2s')
        BY ReadsLine
      <3>2. c2s'[j] = c2s[j + 1] /\ j + 1 \in 1..Len(c2s)
        BY <3>1, ReadsLine
      <3> QED
        BY <3>1, <3>2
    <2> QED
      BY <2>1, <2>2 DEF Agreed
  <1>5. TodoLive => \A i \in 1..Len(todo) : todo[i] = <<"C">> \/ Expects(todo[i])
    BY DEF Agreed
  <1>6. s2c # <<>> => (TodoLive => todo = <<>>)
    BY DEF Agreed
  <1> QED
    BY <1>1, <1>2, <1>3, <1>4, <1>5, <1>6 DEF Agreed, Expects, Live, Ends, OfBreak, Content, Due

(* The receiver fits the byte it is about to read.                         *)
LEMMA ReadsReceives ==
  ASSUME RTypes, LineOK, InStep, c2s # <<>>, srv \in {"idle", "key", "ack"}
  PROVE  Receives(Head(c2s), srv, rx)
  BY HeadItem DEF Receives, InStep, RTypes

(* The types after a byte is read.                                         *)
LEMMA ReadsTypes ==
  ASSUME RTypes, LineOK, ReadsByte, UNCHANGED <<commands, breaks, typed>>,
         s2c' \in Seq(Replies), Len(s2c') <= PtyFrames,
         single' \in BOOLEAN, trace' \in {"on", "off"}, stop_at' \in BOOLEAN, raced' \in BOOLEAN,
         srv' \in Loop \cup {"idle", "key", "ack", "quit"},
         rx' \in Receivers, rx'.len <= Len(rx'.buf), srv' \in Loop \cup {"key"} => rx'.buf # <<>>,
         accepted' \in Seq(Keys)
  PROVE  RTypes'
  <1>1. c2s' \in Seq(Items)
    BY ReadsLine
  <1> QED
    BY <1>1 DEF RTypes, ReadsByte, client

(* recv_cmd reads on.                                                      *)
LEMMA GetByteInv ==
  ASSUME RemoteInv, NEW where \in {"idle", "key", "ack"}, GetByte(where)
  PROVE  RemoteInv'
  <1>1. /\ RTypes /\ LineOK /\ InStep /\ AckOK /\ HeardOK /\ Agreed /\ Control /\ InTime
    BY DEF RemoteInv
  <1>2. /\ ReadsByte /\ srv = where /\ srv' = srv /\ s2c' = s2c /\ raced' = raced
        /\ trace' = trace /\ single' = single /\ stop_at' = stop_at
        /\ UNCHANGED <<commands, breaks, typed, accepted>>
        /\ Continues(rx, Head(c2s).byte) /\ rx' = read(rx, Head(c2s).byte)
    BY DEF GetByte, Read, ReadsByte, mode
  <1>3. Receives(Head(c2s), srv, rx)
    BY <1>1, <1>2, ReadsReceives DEF ReadsByte
  <1>4. /\ Fits(Head(c2s).after, srv, rx') /\ rx' \in Receivers /\ rx'.len <= Len(rx'.buf)
        /\ rx.buf # <<>> => rx'.buf # <<>>
        /\ Starts(Head(c2s)) \/ Escapes(Head(c2s)) \/ Carries(Head(c2s)) \/ Breaks(Head(c2s))
    BY <1>2, <1>3, FitsByte
  <1>5. ~ Revives(Head(c2s))
    BY <1>3, <1>4, ItemFields DEF Receives, Revives
  <1>6. ReadMove
    BY <1>2, <1>5 DEF ReadMove, HearsOn, StaysDeaf
  <1>7. LineOK' /\ Reached' = Head(c2s).after
    BY <1>1, <1>2, ReadsLine
  <1>8. RTypes'
    <2>1. /\ s2c' \in Seq(Replies) /\ Len(s2c') <= PtyFrames
          /\ single' \in BOOLEAN /\ trace' \in {"on", "off"} /\ stop_at' \in BOOLEAN
          /\ raced' \in BOOLEAN /\ srv' \in Loop \cup {"idle", "key", "ack", "quit"}
          /\ srv' \in Loop \cup {"key"} => rx'.buf # <<>>
          /\ accepted' \in Seq(Keys)
      BY <1>1, <1>2, <1>4 DEF RTypes
    <2> QED
      BY <1>1, <1>2, <1>4, <2>1, ReadsTypes
  <1>9. InStep'
    BY <1>2, <1>4, <1>7 DEF InStep, Fits
  <1>10. AckOK' /\ HeardOK'
    BY <1>1, <1>2, <1>6, ReadsAckOK, ReadsHeardOK
  <1>11. /\ Confirming' = Confirming /\ (Confirmed' <=> Confirmed)
         /\ todo' = todo /\ at' = at /\ asked' = asked /\ told' = told /\ wrong' = wrong
         /\ in_console' = in_console
    BY <1>1, <1>2, <1>5, ReadsConfirmed DEF ReadsByte, client
  <1>12. Agreed'
    <2>1. (Open' => Open) /\ Then' = Then
      BY <1>2, <1>11 DEF Open, Then
    <2> QED
      BY <1>1, <1>2, <2>1, ReadsAgreed
  <1>13. Control'
    <2>1. srv' \notin Loop
      BY <1>2 DEF Loop
    <2> QED
      BY <1>1, <1>11, <2>1 DEF Control, Loop
  <1>14. InTime'
    BY <1>1, <1>2, <1>11 DEF InTime, Interrupted, Expected
  <1> QED
    BY <1>7, <1>8, <1>9, <1>10, <1>12, <1>13, <1>14 DEF RemoteInv

(* A break is taken, or the end of a file: the server tells the client,    *)
(* and waits.                                                              *)
Interrupts ==
  /\ ReadsByte /\ UNCHANGED <<commands, breaks, typed, accepted, mode>>
  /\ srv \in Loop \cup {"idle", "key"} /\ AckConsole(rx.buf)
  /\ Fits(Head(c2s).after, "ack", Calling(rx.buf))
  /\ OfBreak(Head(c2s)) \/ Closes(Head(c2s))
  /\ raced' \in BOOLEAN
  /\ ~ raced' => ~ raced /\ Expected

(* The server sends an 'I' and waits, for a break it has read.             *)
LEMMA InterruptsInv ==
  ASSUME RemoteInv, Interrupts
  PROVE  RemoteInv'
  <1>1. /\ RTypes /\ LineOK /\ InStep /\ AckOK /\ HeardOK /\ Agreed /\ Control /\ InTime
    BY DEF RemoteInv
  <1>2. /\ ReadsByte /\ srv # "ack" /\ srv' = "ack" /\ s2c' = Append(s2c, <<"I">>)
        /\ Len(s2c) < PtyFrames /\ rx' = Calling(rx.buf)
        /\ trace' = trace /\ single' = single /\ stop_at' = stop_at
        /\ UNCHANGED <<commands, breaks, typed, accepted>>
    BY DEF Interrupts, AckConsole, Send, mode, Loop
  <1>3. /\ s2c \in Seq(Replies) /\ Len(s2c) \in Nat /\ <<"I">> \in Replies /\ PtyFrames \in Nat
        /\ rx \in Receivers /\ 0 <= Len(rx.buf)
    <2>1. s2c \in Seq(Replies) /\ rx \in Receivers
      BY <1>1 DEF RTypes
    <2>2. Len(s2c) \in Nat
      BY <2>1
    <2>3. 0 <= Len(rx.buf)
      BY <2>1 DEF Receivers
    <2> QED
      BY <2>1, <2>2, <2>3, RemoteAssumption DEF Replies
  <1>4. LineOK' /\ Reached' = Head(c2s).after
    BY <1>1, <1>2, ReadsLine
  <1>5. /\ s2c' \in Seq(Replies) /\ Len(s2c') = Len(s2c) + 1 /\ s2c'[Len(s2c')] = <<"I">>
        /\ \A i \in 1..Len(s2c) : s2c'[i] = s2c[i]
    BY <1>2, <1>3
  <1>6. RTypes'
    <2>1. /\ single' \in BOOLEAN /\ trace' \in {"on", "off"} /\ stop_at' \in BOOLEAN
          /\ raced' \in BOOLEAN /\ srv' \in Loop \cup {"idle", "key", "ack", "quit"}
          /\ srv' \notin Loop \cup {"key"}
          /\ accepted' \in Seq(Keys)
      <3>1. raced' \in BOOLEAN
        BY DEF Interrupts
      <3>2. /\ single \in BOOLEAN /\ trace \in {"on", "off"} /\ stop_at \in BOOLEAN
            /\ accepted \in Seq(Keys)
        BY <1>1 DEF RTypes
      <3> QED
        BY <1>2, <3>1, <3>2 DEF Loop
    <2>2. rx' \in Receivers /\ rx'.len <= Len(rx'.buf)
      BY <1>2, <1>3, ReceiverStarts
    <2>3. Len(s2c') <= PtyFrames
      BY <1>2, <1>3, <1>5
    <2> QED
      BY <1>1, <1>2, <1>5, <2>1, <2>2, <2>3, ReadsTypes
  <1>7. InStep'
    BY <1>2, <1>4 DEF InStep, Fits, Interrupts
  <1>8. AckOK' /\ HeardOK'
    <2>1. ReadMove
      BY <1>2 DEF ReadMove, Awaits, Interrupts
    <2> QED
      BY <1>1, <1>2, <2>1, ReadsAckOK, ReadsHeardOK
  <1>9. /\ Confirming' = Confirming /\ (Confirmed' => Confirmed)
        /\ todo' = todo /\ at' = at /\ asked' = asked /\ told' = told /\ wrong' = wrong
        /\ in_console' = in_console
    BY <1>1, <1>2, ReadsConfirmed DEF ReadsByte, client
  <1>10. Agreed'
    <2>1. ~ Open'
      BY <1>1, <1>2, <1>9 DEF Open, AckOK
    <2> QED
      BY <2>1 DEF Agreed
  <1>11. Control'
    <2>1. srv' \notin Loop
      BY <1>2 DEF Loop
    <2> QED
      BY <1>1, <1>9, <2>1 DEF Control, Loop
  <1>12. InTime'
    <2> SUFFICES ASSUME ~ raced'
                 PROVE  (/\ ~ wrong
                         /\ Interrupted => Expected
                         /\ srv = "ack" => Interrupted \/ Confirmed
                         /\ told = trace \/ (at = "asking" /\ asked = <<"T">>))'
      BY DEF InTime
    <2>1. ~ raced /\ Expected
      BY DEF Interrupts
    <2>2. Expected'
      <3>1. <<"I">>[1] \notin {"H", "B", "P", "S", "D"}
        OBVIOUS
      <3>2. \A i \in 1..Len(s2c') : i \in 1..Len(s2c) \/ i = Len(s2c')
        BY <1>3, <1>5
      <3> QED
        BY <1>5, <1>9, <2>1, <3>1, <3>2 DEF Expected
    <2>3. Interrupted'
      <3>1. Len(s2c') \in 1..Len(s2c')
        BY <1>3, <1>5
      <3> QED
        BY <1>5, <3>1 DEF Interrupted
    <2>4. ~ wrong /\ (told = trace \/ (at = "asking" /\ asked = <<"T">>))
      BY <1>1, <2>1 DEF InTime
    <2> QED
      BY <1>2, <1>9, <2>2, <2>3, <2>4
  <1> QED
    BY <1>4, <1>6, <1>7, <1>8, <1>10, <1>11, <1>12 DEF RemoteInv

(* During a run nothing else is on its way that could end it.              *)
LEMMA RunExpected ==
  ASSUME Shape, srv \in Loop \cup {"key"}
  PROVE  Expected
  <1>1. Then = srv
    BY DEF Then, Loop
  <1>2. at = "running" /\ (Queue({TW}) \/ Queue({TR}))
    BY <1>1 DEF Shape
  <1>3. TW[1] \notin {"H", "B", "P", "S", "D"} /\ TR[1] \notin {"H", "B", "P", "S", "D"}
    BY DEF TW, TR
  <1> QED
    BY <1>2, <1>3 DEF Expected, Queue

(* A break while it waits for a command, or for a key.                     *)
LEMMA BreakInterrupts ==
  ASSUME RemoteInv, IdleBreak \/ KeyBreak
  PROVE  Interrupts
  <1>1. /\ RTypes /\ LineOK /\ InStep /\ Agreed
    BY DEF RemoteInv
  <1>2. /\ ReadsByte /\ srv \in {"idle", "key"} /\ ReturnsBreak(rx, Head(c2s).byte) /\ AckConsole(rx.buf)
        /\ UNCHANGED <<commands, breaks, typed, accepted, mode>>
    BY DEF IdleBreak, KeyBreak, GetBreak, Read, ReadsByte
  <1>3. /\ Fits(Head(c2s).after, "ack", Calling(rx.buf)) /\ OfBreak(Head(c2s))
    BY <1>1, <1>2, ReadsReceives, FitsBreak DEF ReadsByte
  <1>4. /\ raced' \in BOOLEAN
        /\ ~ raced' => ~ raced /\ Expected
    <2>1. CASE IdleBreak
      BY <2>1 DEF IdleBreak
    <2>2. CASE KeyBreak
      <3>1. Expected
        BY <1>1, <2>2, RunExpected DEF KeyBreak, GetBreak, Read, Agreed, Open
      <3>2. raced' = raced /\ raced \in BOOLEAN
        BY <1>1, <2>2 DEF KeyBreak, RTypes
      <3> QED
        BY <3>1, <3>2
    <2> QED
      BY <2>1, <2>2
  <1> QED
    BY <1>2, <1>3, <1>4 DEF Interrupts, Loop

(* The byte that the loop of machine_run finds is one of a break.          *)
LEMMA PollInterrupts ==
  ASSUME RemoteInv, PollBreak
  PROVE  Interrupts
  <1>1. /\ RTypes /\ LineOK /\ InStep /\ Agreed /\ Control
    BY DEF RemoteInv
  <1>2. ReadsByte /\ srv = "run"
    BY DEF PollBreak, ReadsByte
  <1> DEFINE h == Head(c2s)
  <1>3. /\ h = c2s[1] /\ 1 \in 1..Len(c2s) /\ h \in Items /\ h.at = Reached /\ PlaceOK(h.at) /\ ItemOK(h)
    BY <1>1, <1>2, HeadItem DEF ReadsByte
  <1>4. h.at.index = 0 /\ ~ h.at.half /\ h.at.heard
    BY <1>1, <1>2, <1>3 DEF Control, InStep, Fits, Loop
  <1> HIDE DEF h
  <1>5. ~ Starts(h)
    <2> SUFFICES ASSUME Starts(h) PROVE FALSE
      OBVIOUS
    <2>1. Live(h)
      BY <1>3, <1>4, Kinds DEF Live, OfFrame
    <2>2. Expects(Content(h))
      BY <1>1, <1>2, <1>3, <2>1 DEF Agreed, Open
    <2> QED
      BY <1>2, <2>2 DEF Expects, Due, Then
  <1>6. ~ Escapes(h) /\ ~ Carries(h) /\ ~ Ends(h) /\ ~ BreaksOff(h)
    BY <1>3, <1>4, ItemFields
  <1>7. Breaks(h)
    BY <1>3, <1>5, <1>6 DEF ItemOK, OfFrame
  <1>8. h.byte = CONSOLE /\ h.after.half /\ OfBreak(h)
    BY <1>3, <1>7, ItemFields, Kinds
  <1>9. AckConsole(rx.buf) /\ UNCHANGED <<mode, raced, counts>>
    BY <1>8 DEF PollBreak, h
  <1>10. Fits(h.after, "ack", Calling(rx.buf))
    <2>1. Calling(rx.buf).state = "WAIT" /\ Calling(rx.buf).len = 0
      BY DEF Calling
    <2> QED
      BY <1>8, <2>1 DEF Fits
  <1>11. Expected
    BY <1>1, <1>2, RunExpected DEF Agreed, Open, Loop
  <1>12. raced' \in BOOLEAN /\ raced' = raced
    BY <1>1, <1>9 DEF RTypes
  <1> QED
    BY <1>2, <1>8, <1>9, <1>10, <1>11, <1>12 DEF Interrupts, Loop, counts, h

(* ack_console drops everything but a whole 'C'.                           *)
LEMMA AckNothingInv ==
  ASSUME RemoteInv, AckNothing
  PROVE  RemoteInv'
  <1>1. /\ RTypes /\ LineOK /\ InStep /\ AckOK /\ HeardOK /\ Agreed /\ Control /\ InTime
    BY DEF RemoteInv
  <1>2. /\ ReadsByte /\ srv = "ack" /\ srv' = "ack" /\ s2c' = s2c /\ raced' = raced
        /\ rx' = Calling(rx.buf) /\ trace' = trace /\ single' = single /\ stop_at' = stop_at
        /\ UNCHANGED <<commands, breaks, typed, accepted>>
    BY DEF AckNothing, Read, ReadsByte, mode
  <1> DEFINE h == Head(c2s)
  <1>3. Receives(h, "ack", rx)
    BY <1>1, <1>2, ReadsReceives DEF ReadsByte
  <1>4. h \in Items /\ PlaceOK(h.at)
    BY <1>3 DEF Receives
  <1>5. Fits(h.after, "ack", Calling(rx.buf)) /\ ~ Revives(h)
    <2>1. CASE ReturnsBreak(rx, h.byte)
      <3>1. /\ Fits(h.after, "ack", Calling(rx.buf))
            /\ Breaks(h) \/ BreaksOff(h) \/ Carries(h)
        BY <1>3, <2>1, FitsBreak
      <3> QED
        BY <1>4, <3>1, ItemFields DEF Revives
    <2>2. CASE ReturnsFrame(rx, h.byte)
      <3>1. Whole(h, "ack", rx) \/ Empty(h, "ack", rx)
        BY <1>3, <2>2, FitsFrame
      <3>2. CASE Empty(h, "ack", rx)
        BY <3>2 DEF Empty, Revives
      <3>3. CASE Whole(h, "ack", rx)
        <4>1. rx.len # 0
          BY <3>3, <1>3 DEF Whole
        <4>2. rx.buf # <<>> /\ Command # "C"
          <5>1. ~ ReturnsBreak(rx, h.byte)
            BY <2>2, SpecialDiffer DEF ReturnsBreak, ReturnsFrame
          <5> QED
            BY <3>3, <4>1, <5>1 DEF AckNothing, Whole
        <4>3. h.at.cmd # <<"C">>
          BY <3>3, <4>2 DEF Whole, Command
        <4>4. ~ h.at.heard /\ ~ h.after.heard
          BY <1>4, <3>3, <4>3, ItemFields DEF Whole
        <4>5. Calling(rx.buf).state # "ESCAPED"
          BY DEF Calling
        <4> QED
          BY <1>4, <3>3, <4>4, <4>5, FitsNext DEF Whole, Revives
      <3> QED
        BY <3>1, <3>2, <3>3
    <2> QED
      BY <2>1, <2>2 DEF AckNothing
  <1>6. ReadMove
    BY <1>2, <1>5 DEF ReadMove, StaysDeaf
  <1>7. LineOK' /\ Reached' = h.after
    BY <1>1, <1>2, ReadsLine
  <1>8. RTypes'
    <2>1. /\ s2c' \in Seq(Replies) /\ Len(s2c') <= PtyFrames
          /\ single' \in BOOLEAN /\ trace' \in {"on", "off"} /\ stop_at' \in BOOLEAN
          /\ raced' \in BOOLEAN /\ srv' \in Loop \cup {"idle", "key", "ack", "quit"}
          /\ accepted' \in Seq(Keys) /\ rx \in Receivers
      BY <1>1, <1>2 DEF RTypes
    <2>2. srv' \notin Loop \cup {"key"}
      BY <1>2 DEF Loop
    <2>3. rx' \in Receivers /\ rx'.len <= Len(rx'.buf)
      <3>1. 0 <= Len(rx.buf)
        BY <2>1 DEF Receivers
      <3> QED
        BY <1>2, <2>1, <3>1, ReceiverStarts
    <2> QED
      BY <1>1, <1>2, <2>1, <2>2, <2>3, ReadsTypes
  <1>9. InStep'
    BY <1>2, <1>5, <1>7 DEF InStep, Fits
  <1>10. AckOK' /\ HeardOK'
    BY <1>1, <1>2, <1>6, ReadsAckOK, ReadsHeardOK
  <1>11. /\ Confirming' = Confirming /\ (Confirmed' <=> Confirmed)
         /\ todo' = todo /\ at' = at /\ asked' = asked /\ told' = told /\ wrong' = wrong
         /\ in_console' = in_console
    BY <1>1, <1>2, <1>5, ReadsConfirmed DEF ReadsByte, client
  <1>12. Agreed'
    <2>1. (Open' => Open) /\ Then' = Then
      BY <1>2, <1>11 DEF Open, Then
    <2> QED
      BY <1>1, <1>2, <2>1, ReadsAgreed
  <1>13. Control'
    <2>1. srv' \notin Loop
      BY <1>2 DEF Loop
    <2> QED
      BY <1>1, <1>11, <2>1 DEF Control, Loop
  <1>14. InTime'
    BY <1>1, <1>2, <1>11 DEF InTime, Interrupted, Expected
  <1> QED
    BY <1>7, <1>8, <1>9, <1>10, <1>12, <1>13, <1>14 DEF RemoteInv

(* A 'C' is the answer to the break.                                       *)
LEMMA Confirms ==
  ASSUME RemoteInv, Acknowledged
  PROVE  Fits(Head(c2s).after, "idle", Calling(rx.buf)) /\ Revives(Head(c2s))
  <1>1. /\ ReadsByte /\ srv = "ack" /\ RTypes /\ LineOK /\ InStep
        /\ ReturnsFrame(rx, Head(c2s).byte) /\ rx.len > 0 /\ Command = "C"
    BY DEF Acknowledged, GetFrame, Read, ReadsByte, RemoteInv
  <1> DEFINE h == Head(c2s)
  <1>2. Receives(h, "ack", rx)
    BY <1>1, ReadsReceives DEF ReadsByte
  <1>3. h \in Items /\ PlaceOK(h.at)
    BY <1>2 DEF Receives
  <1>4. Whole(h, "ack", rx)
    <2>1. ~ Empty(h, "ack", rx)
      BY <1>1 DEF Empty
    <2> QED
      BY <1>1, <1>2, <2>1, FitsFrame
  <1>5. h.at.cmd = <<"C">>
    <2>1. rx.buf[1] = "C"
      BY <1>1, <1>4 DEF Whole, Command
    <2> QED
      BY <1>4, <2>1, ContentShape DEF Whole
  <1>6. ~ h.at.heard /\ h.after.heard
    BY <1>3, <1>4, <1>5, ItemFields DEF Whole
  <1>7. Calling(rx.buf).state # "ESCAPED"
    BY DEF Calling
  <1> QED
    BY <1>3, <1>4, <1>6, <1>7, FitsNext DEF Whole, Revives

(* On it the server goes on, with what the client meant for after it.      *)
LEMMA AcknowledgedInv ==
  ASSUME RemoteInv, Acknowledged
  PROVE  RemoteInv'
  <1>1. /\ RTypes /\ LineOK /\ InStep /\ AckOK /\ HeardOK /\ Agreed /\ Control /\ InTime
    BY DEF RemoteInv
  <1>2. /\ ReadsByte /\ srv = "ack" /\ srv' = "idle" /\ s2c' = s2c /\ raced' = raced
        /\ rx' = Calling(rx.buf) /\ trace' = trace /\ single' = single /\ stop_at' = stop_at
        /\ UNCHANGED <<commands, breaks, typed, accepted>>
        /\ ReturnsFrame(rx, Head(c2s).byte) /\ rx.len > 0 /\ Command = "C"
    BY DEF Acknowledged, GetFrame, Read, ReadsByte, mode
  <1> DEFINE h == Head(c2s)
  <1>3. Receives(h, "ack", rx)
    BY <1>1, <1>2, ReadsReceives DEF ReadsByte
  <1>4. h \in Items /\ PlaceOK(h.at)
    BY <1>3 DEF Receives
  <1>5. Fits(h.after, "idle", Calling(rx.buf)) /\ Revives(h)
    BY Confirms
  <1>6. ReadMove
    BY <1>2, <1>5 DEF ReadMove, Resumes
  <1>7. LineOK' /\ Reached' = h.after
    BY <1>1, <1>2, ReadsLine
  <1>8. RTypes'
    <2>1. /\ s2c' \in Seq(Replies) /\ Len(s2c') <= PtyFrames
          /\ single' \in BOOLEAN /\ trace' \in {"on", "off"} /\ stop_at' \in BOOLEAN
          /\ raced' \in BOOLEAN /\ srv' \in Loop \cup {"idle", "key", "ack", "quit"}
          /\ accepted' \in Seq(Keys) /\ rx \in Receivers
      BY <1>1, <1>2 DEF RTypes
    <2>2. srv' \notin Loop \cup {"key"}
      BY <1>2 DEF Loop
    <2>3. rx' \in Receivers /\ rx'.len <= Len(rx'.buf)
      <3>1. 0 <= Len(rx.buf)
        BY <2>1 DEF Receivers
      <3> QED
        BY <1>2, <2>1, <3>1, ReceiverStarts
    <2> QED
      BY <1>1, <1>2, <2>1, <2>2, <2>3, ReadsTypes
  <1>9. InStep'
    BY <1>2, <1>5, <1>7 DEF InStep, Fits
  <1>10. AckOK' /\ HeardOK'
    BY <1>1, <1>2, <1>6, ReadsAckOK, ReadsHeardOK
  <1>11. /\ Confirming' = Confirming
         /\ todo' = todo /\ at' = at /\ asked' = asked /\ told' = told /\ wrong' = wrong
         /\ in_console' = in_console
    BY <1>1, <1>2, ReadsConfirmed DEF ReadsByte, client
  <1>12. Agreed'
    <2>1. Open /\ Then' = Then
      BY <1>1, <1>2, <1>5, ReadsLine DEF Open, Then, Confirmed
    <2> QED
      BY <1>1, <1>2, <2>1, ReadsAgreed
  <1>13. Control'
    <2>1. srv' \notin Loop
      BY <1>2 DEF Loop
    <2> QED
      BY <1>1, <1>11, <2>1 DEF Control, Loop
  <1>14. InTime'
    BY <1>1, <1>2, <1>11 DEF InTime, Interrupted, Expected
  <1> QED
    BY <1>7, <1>8, <1>9, <1>10, <1>12, <1>13, <1>14 DEF RemoteInv

(* A frame that the server listens for is the one it is to get, and when   *)
(* it is to answer, nothing else is under way.                             *)
Takes(cmd) ==
  /\ cmd \in Contents /\ Expects(cmd)
  /\ cmd = Head(c2s).at.cmd /\ Live(Head(c2s)) /\ Ends(Head(c2s))
  /\ rx.len > 0 /\ rx.buf # <<>> /\ rx.buf[1] = cmd[1]
  /\ Len(cmd) = 2 => rx.buf[2] = cmd[2]
  /\ s2c = <<>>
  /\ cmd[1] # "D" => todo = <<>> /\ \A k \in 1..Len(c2s') : ~ Live(c2s'[k])
  /\ Reached'.index = 0 /\ ~ Reached'.half /\ ~ Reached'.cut
  /\ Reached' = Head(c2s).after /\ (Reached'.heard <=> cmd[1] # "EOF")

(* END_FRAME, where the server acts on frames, gives such a frame.         *)
LEMMA TakesFrame ==
  ASSUME RemoteInv, NEW where \in {"idle", "key"}, GetFrame(where)
  PROVE  \E cmd : Takes(cmd)
  <1>1. /\ RTypes /\ LineOK /\ InStep /\ Agreed
    BY DEF RemoteInv
  <1>2. ReadsByte /\ srv = where /\ ReturnsFrame(rx, Head(c2s).byte)
    BY DEF GetFrame, Read, ReadsByte
  <1> DEFINE h == Head(c2s)
             cmd == h.at.cmd
  <1>3. Receives(h, srv, rx) /\ srv # "ack"
    BY <1>1, <1>2, ReadsReceives DEF ReadsByte
  <1>4. h \in Items /\ PlaceOK(h.at) /\ h = c2s[1] /\ 1 \in 1..Len(c2s)
    BY <1>1, <1>2, <1>3, ReadsLine DEF Receives
  <1>5. Whole(h, srv, rx)
    BY <1>2, <1>3, FitsFrame DEF Empty
  <1> HIDE DEF h
  <1>6. /\ Ends(h) /\ cmd \in Contents /\ rx.len = Len(cmd) /\ rx.len > 0 /\ rx.buf # <<>>
        /\ rx.buf[1] = cmd[1] /\ h.at.heard
        /\ Len(cmd) = 2 => rx.buf[2] = cmd[2]
    BY <1>3, <1>5 DEF Whole
  <1>7. /\ h.at.index > 0 /\ h.after.index = 0 /\ ~ h.after.half /\ ~ h.after.cut
        /\ h.after.heard <=> cmd[1] # "EOF"
    BY <1>4, <1>6, ItemFields
  <1>8. Live(h) /\ Content(h) = cmd
    BY <1>4, <1>6, <1>7, Kinds DEF Live, OfFrame, Content
  <1>9. Open
    BY <1>3 DEF Open
  <1>10. Expects(cmd) /\ s2c = <<>>
    BY <1>1, <1>4, <1>8, <1>9 DEF Agreed
  <1>11. ASSUME cmd[1] # "D"
         PROVE  todo = <<>> /\ \A k \in 1..Len(c2s') : ~ Live(c2s'[k])
    <2>1. todo = <<>> /\ \A j \in (1 + 1)..Len(c2s) : OfBreak(c2s[j])
      BY <1>1, <1>4, <1>6, <1>8, <1>9, <1>11 DEF Agreed
    <2>2. ASSUME NEW k \in 1..Len(c2s') PROVE ~ Live(c2s'[k])
      <3>1. c2s'[k] = c2s[k + 1] /\ k + 1 \in (1 + 1)..Len(c2s)
        BY <1>1, <1>2, ReadsLine
      <3> QED
        BY <2>1, <3>1 DEF Live
    <2> QED
      BY <2>1, <2>2
  <1>12. Reached' = h.after
    BY <1>1, <1>2, ReadsLine DEF h
  <1>13. cmd = Head(c2s).at.cmd /\ Live(Head(c2s)) /\ Ends(Head(c2s)) /\ Reached' = Head(c2s).after
    BY <1>6, <1>8, <1>12 DEF h
  <1> HIDE DEF cmd
  <1>14. Takes(cmd)
    BY <1>6, <1>7, <1>10, <1>11, <1>12, <1>13 DEF Takes
  <1> QED
    BY <1>14

(* What stays, when a frame is taken and the server does not wait then.    *)
LEMMA TakesInv ==
  ASSUME RemoteInv, ReadsByte, UNCHANGED <<commands, breaks, typed, raced>>,
         NEW cmd, Takes(cmd), cmd[1] # "EOF", srv \in {"idle", "key"},
         srv' \in Loop \cup {"idle", "quit"}, rx' = Calling(rx.buf),
         s2c' = s2c \/ \E value \in Values : s2c' = Append(s2c, value),
         single' \in BOOLEAN, trace' \in {"on", "off"}, stop_at' \in BOOLEAN,
         accepted' \in Seq(Keys)
  PROVE  /\ RTypes' /\ LineOK' /\ InStep' /\ AckOK' /\ HeardOK' /\ Control'
         /\ (told = trace \/ (at = "asking" /\ asked = <<"T">>))' \/ raced => InTime'
         /\ TodoLive' = TodoLive /\ Open
  <1>1. /\ RTypes /\ LineOK /\ InStep /\ AckOK /\ HeardOK /\ Agreed /\ Control /\ InTime
    BY DEF RemoteInv
  <1>2. srv # "ack" /\ srv' # "ack" /\ srv' # "key"
    BY DEF Loop
  <1>3. ReadMove
    BY <1>2 DEF ReadMove, HearsOn
  <1>4. LineOK'
    BY <1>1, ReadsLine
  <1>5. RTypes'
    <2>1. s2c' \in Seq(Replies) /\ Len(s2c') <= PtyFrames
      <3>1. CASE s2c' = s2c
        BY <1>1, <3>1 DEF RTypes
      <3>2. CASE \E value \in Values : s2c' = Append(s2c, value)
        <4>1. PICK value \in Values : s2c' = Append(<<>>, value)
          BY <3>2 DEF Takes
        <4>2. s2c' \in Seq(Replies) /\ Len(s2c') = 1
          BY <4>1 DEF Replies
        <4> QED
          BY <4>2, RemoteAssumption
      <3> QED
        BY <3>1, <3>2
    <2>2. rx \in Receivers /\ raced' \in BOOLEAN
      BY <1>1 DEF RTypes
    <2>3. rx' \in Receivers /\ rx'.len <= Len(rx'.buf) /\ rx'.buf # <<>>
      <3>1. 0 <= Len(rx.buf)
        BY <2>2 DEF Receivers
      <3> QED
        BY <2>2, <3>1, ReceiverStarts DEF Takes
    <2> QED
      BY <1>1, <2>1, <2>2, <2>3, ReadsTypes
  <1>6. InStep'
    <2>1. rx'.state # "ESCAPED"
      BY DEF Calling
    <2>2. Reached'.index = 0 /\ ~ Reached'.half /\ ~ Reached'.cut /\ Reached'.heard
      BY DEF Takes
    <2>3. Fits(Reached', srv', rx')
      BY <1>2, <2>1, <2>2 DEF Fits
    <2> QED
      BY <2>3 DEF InStep, Fits
  <1>7. AckOK' /\ HeardOK'
    BY <1>1, <1>3, ReadsAckOK, ReadsHeardOK
  <1>8. /\ Confirming' = Confirming /\ (Confirmed' => Confirmed) /\ TodoLive' = TodoLive
        /\ todo' = todo /\ at' = at /\ asked' = asked /\ told' = told /\ wrong' = wrong
        /\ in_console' = in_console
    BY <1>1, ReadsConfirmed DEF ReadsByte, client
  <1>9. Control'
    BY <1>1, <1>8 DEF Control, Takes
  <1>10. (told = trace \/ (at = "asking" /\ asked = <<"T">>))' \/ raced => InTime'
    <2>1. ~ Interrupted'
      BY <1>2, <1>7 DEF AckOK, Interrupted
    <2> QED
      BY <1>1, <1>2, <1>8, <2>1 DEF InTime
  <1> QED
    BY <1>2, <1>4, <1>5, <1>6, <1>7, <1>8, <1>9, <1>10 DEF Open

(* A command or an answer that ends the frames the server is to hear.      *)
LEMMA TakesLast ==
  ASSUME RTypes, ReadsByte, NEW cmd, Takes(cmd), cmd[1] # "D", Shape'
  PROVE  Agreed'
  <1>1. todo' = <<>> /\ \A k \in 1..Len(c2s') : ~ Live(c2s'[k])
    BY DEF Takes, ReadsByte, client
  <1> QED
    BY <1>1 DEF Agreed, Live, OfBreak

(* The commands of machine_srv.                                            *)
LEMMA DispatchInv ==
  ASSUME RemoteInv, Dispatch
  PROVE  RemoteInv'
  <1>1. /\ RTypes /\ LineOK /\ Agreed /\ InTime
    BY DEF RemoteInv
  <1>2. /\ ReadsByte /\ srv = "idle" /\ rx' = Calling(rx.buf)
        /\ UNCHANGED <<commands, breaks, typed, accepted, raced>> /\ GetFrame("idle")
    BY DEF Dispatch, GetFrame, Read, ReadsByte
  <1>3. PICK cmd : Takes(cmd)
    BY <1>2, TakesFrame
  <1>4. cmd \in Contents /\ Expects(cmd) /\ Command = cmd[1] /\ s2c = <<>>
    BY <1>3 DEF Takes, Command
  <1>5. /\ single \in BOOLEAN /\ trace \in {"on", "off"} /\ stop_at \in BOOLEAN
        /\ accepted' \in Seq(Keys)
    BY <1>1, <1>2 DEF RTypes
  <1>6. at' = at /\ asked' = asked /\ told' = told /\ todo' = todo
    BY <1>2 DEF ReadsByte, client
  <1>7. told = trace \/ (at = "asking" /\ asked = <<"T">>) \/ raced
    BY <1>1 DEF InTime
  <1>8. /\ cmd[1] \in {"R", "S"} => at = "running"
        /\ cmd[1] = "E" => at = "asking" /\ cmd = Examine(Head(asked))
        /\ cmd[1] = "Q" => at = "exited"
        /\ cmd = Deposit("T") => at = "asking" /\ asked = <<"T">>
        /\ cmd[1] \in {"R", "S", "E", "D", "Q"}
    BY <1>2, <1>4 DEF Expects, Due, Then, Examine, Deposit
  <1>13. cmd[1] # "EOF"
    BY <1>8
  <1>9. CASE cmd[1] \in {"R", "S"}
    <2>1. srv' = "run" /\ single' = (Command = "S") /\ UNCHANGED <<s2c, trace, stop_at>>
      BY <1>4, <1>9 DEF Dispatch
    <2>2. Shape'
      BY <1>4, <1>6, <1>8, <1>9, <2>1 DEF Shape, Then, Loop, Queue
    <2>3. cmd[1] # "D"
      BY <1>9
    <2>4. Agreed'
      BY <1>1, <1>2, <1>3, <2>2, <2>3, TakesLast
    <2> QED
      BY <1>2, <1>3, <1>5, <1>6, <1>7, <1>13, <2>1, <2>4, TakesInv DEF RemoteInv, Loop
  <1>10. CASE cmd[1] = "E"
    <2>1. Send(Value(rx.buf[2])) /\ UNCHANGED <<srv, mode>>
      BY <1>4, <1>10 DEF Dispatch
    <2>2. cmd[2] = Head(asked) /\ Len(cmd) = 2 /\ cmd[2] \in Registers
      BY <1>4, <1>8, <1>10, ContentShape DEF Examine
    <2>3. s2c' = Append(s2c, Value(Head(asked))) /\ s2c' = <<Value(Head(asked))>>
      BY <1>3, <1>4, <2>1, <2>2 DEF Send, Takes
    <2>4. Value(Head(asked)) \in Values
      BY <1>5, <2>2 DEF Value, Values
    <2>5. Shape'
      BY <1>2, <1>6, <1>8, <1>10, <2>1, <2>3 DEF Shape, Then, Loop, Value, mode
    <2>6. Agreed'
      <3>1. cmd[1] # "D"
        BY <1>10
      <3> QED
        BY <1>1, <1>2, <1>3, <2>5, <3>1, TakesLast
    <2> QED
      BY <1>2, <1>3, <1>5, <1>6, <1>7, <1>13, <2>1, <2>3, <2>4, <2>6, TakesInv DEF RemoteInv, mode
  <1>11. CASE cmd[1] = "Q"
    <2>1. srv' = "quit" /\ UNCHANGED <<s2c, mode>>
      BY <1>4, <1>11 DEF Dispatch
    <2>2. Shape'
      BY <1>4, <1>6, <1>8, <1>11, <2>1 DEF Shape, Then, Loop, Queue
    <2>3. Agreed'
      <3>1. cmd[1] # "D"
        BY <1>11
      <3> QED
        BY <1>1, <1>2, <1>3, <2>2, <3>1, TakesLast
    <2> QED
      BY <1>2, <1>3, <1>5, <1>6, <1>7, <1>13, <2>1, <2>3, TakesInv DEF RemoteInv, mode
  <1>12. CASE cmd[1] = "D"
    <2>1. Deposited(rx.buf[2]) /\ UNCHANGED <<s2c, srv, single>>
      BY <1>4, <1>12 DEF Dispatch
    <2>2. /\ trace' \in {"on", "off"} /\ stop_at' \in BOOLEAN
      BY <1>5, <2>1 DEF Deposited
    <2>3. trace' = trace \/ cmd = Deposit("T")
      <3>1. rx.buf[2] = cmd[2] /\ cmd = Deposit(cmd[2])
        BY <1>3, <1>4, <1>12, ContentShape DEF Takes
      <3> QED
        BY <2>1, <3>1 DEF Deposited
    <2>4. (told = trace \/ (at = "asking" /\ asked = <<"T">>))' \/ raced
      BY <1>6, <1>7, <1>8, <2>3
    <2>5. /\ RTypes' /\ LineOK' /\ InStep' /\ AckOK' /\ HeardOK' /\ Control' /\ InTime' /\ Open
          /\ TodoLive' = TodoLive
      BY <1>2, <1>3, <1>5, <1>13, <2>1, <2>2, <2>4, TakesInv
    <2>6. Agreed'
      <3>1. Shape'
        BY <1>1, <1>2, <1>4, <1>6, <2>1, <2>5 DEF Agreed, Shape, Then, Loop, Queue
      <3>2. \A c : Due(c, Then', at', asked') <=> Expects(c)
        BY <1>6, <2>1 DEF Expects, Then
      <3>3. ASSUME NEW k \in 1..Len(c2s')
            PROVE  /\ Live(c2s'[k]) => Expects(Content(c2s'[k]))
                   /\ Live(c2s'[k]) /\ Ends(c2s'[k]) /\ c2s'[k].at.cmd[1] # "D" =>
                        todo = <<>> /\ \A j \in (k + 1)..Len(c2s') : OfBreak(c2s'[j])
        <4>1. c2s'[k] = c2s[k + 1] /\ k + 1 \in 1..Len(c2s)
          BY <1>1, <1>2, ReadsLine
        <4>2. ASSUME NEW j \in (k + 1)..Len(c2s')
              PROVE  j + 1 \in ((k + 1) + 1)..Len(c2s) /\ c2s'[j] = c2s[j + 1]
          <5>1. j \in 1..Len(c2s')
            BY <1>1, <1>2, ReadsLine
          <5>2. c2s'[j] = c2s[j + 1] /\ j + 1 \in 1..Len(c2s)
            BY <1>1, <1>2, <5>1, ReadsLine
          <5> QED
            BY <5>1, <5>2
        <4> QED
          BY <1>1, <2>5, <4>1, <4>2 DEF Agreed
      <3>4. TodoLive => \A i \in 1..Len(todo) : todo[i] = <<"C">> \/ Expects(todo[i])
        BY <1>1, <2>5 DEF Agreed
      <3>5. s2c' = <<>>
        BY <1>4, <2>1
      <3>6. (\A k \in 1..Len(c2s) : Live(c2s[k]) => Expects(Content(c2s[k])))'
        <4> SUFFICES ASSUME NEW k \in 1..Len(c2s'), Live(c2s'[k])
                     PROVE  Due(Content(c2s'[k]), Then', at', asked')
          BY DEF Expects, Live, OfBreak, Content, Due
        <4> QED
          BY <3>2, <3>3
      <3>7. (TodoLive => \A i \in 1..Len(todo) : todo[i] = <<"C">> \/ Expects(todo[i]))'
        BY <1>6, <2>5, <3>2, <3>4 DEF Expects, Due
      <3>8. (\A k \in 1..Len(c2s) : Live(c2s[k]) /\ Ends(c2s[k]) /\ c2s[k].at.cmd[1] # "D" =>
               todo = <<>> /\ \A j \in (k + 1)..Len(c2s) : OfBreak(c2s[j]))'
        BY <1>6, <3>3 DEF Live, OfBreak, Ends
      <3> QED
        BY <3>1, <3>5, <3>6, <3>7, <3>8 DEF Agreed
    <2> QED
      BY <2>5, <2>6 DEF RemoteInv
  <1> QED
    BY <1>8, <1>9, <1>10, <1>11, <1>12

(* The end of a file in place of a key is taken as a break is.             *)
LEMMA KeyFrameEnds ==
  ASSUME RemoteInv, KeyFrame, NEW cmd, Takes(cmd), cmd[1] = "EOF"
  PROVE  Interrupts
  <1>1. /\ RTypes /\ LineOK /\ Agreed
    BY DEF RemoteInv
  <1>2. /\ ReadsByte /\ srv = "key"
        /\ UNCHANGED <<commands, breaks, typed, raced, mode>> /\ GetFrame("key")
    BY DEF KeyFrame, GetFrame, Read, ReadsByte
  <1>3. rx.buf[1] = "EOF"
    BY DEF Takes
  <1>4. AckConsole(rx.buf) /\ UNCHANGED accepted
    BY <1>3 DEF KeyFrame
  <1>5. Fits(Reached', "ack", Calling(rx.buf))
    <2>1. Calling(rx.buf).state # "ESCAPED"
      BY DEF Calling
    <2> QED
      BY <2>1 DEF Takes, Fits
  <1>6. Closes(Head(c2s))
    BY DEF Takes, Live, Closes
  <1>7. Expected /\ raced' = raced /\ raced \in BOOLEAN
    BY <1>1, <1>2, RunExpected DEF Agreed, Open, RTypes
  <1>8. Fits(Head(c2s).after, "ack", Calling(rx.buf))
    BY <1>5 DEF Takes
  <1> QED
    BY <1>2, <1>4, <1>6, <1>7, <1>8 DEF Interrupts

(* The answer of the client to 'TR'.                                       *)
LEMMA KeyFrameInv ==
  ASSUME RemoteInv, KeyFrame
  PROVE  RemoteInv'
  <1>1. /\ RTypes /\ LineOK /\ Agreed /\ InTime
    BY DEF RemoteInv
  <1>2. /\ ReadsByte /\ srv = "key"
        /\ UNCHANGED <<commands, breaks, typed, raced, mode>> /\ GetFrame("key")
    BY DEF KeyFrame, GetFrame, Read, ReadsByte
  <1>3. PICK cmd : Takes(cmd)
    BY <1>2, TakesFrame
  <1>4. cmd \in Contents /\ s2c = <<>> /\ cmd[1] \in {"0", "1", "EOF"} /\ rx.len # 0
    BY <1>2, <1>3 DEF Takes, Expects, Due, Then
  <1>5. rx.buf[1] = cmd[1]
    BY <1>3 DEF Takes
  <1>6. CASE cmd[1] = "EOF"
    BY <1>3, <1>6, KeyFrameEnds, InterruptsInv
  <1>7. CASE cmd[1] # "EOF"
    <2>1. /\ srv' = "print" /\ rx' = Calling(rx.buf) /\ s2c' = s2c
          /\ accepted' = IF rx.buf[1] = "1" THEN Append(accepted, rx.buf[2]) ELSE accepted
      BY <1>4, <1>5, <1>7 DEF KeyFrame
    <2>2. accepted' \in Seq(Keys)
      <3>1. rx.buf[2] \in Keys
        BY <1>3, <1>4, ContentShape DEF Takes
      <3>2. accepted \in Seq(Keys)
        BY <1>1 DEF RTypes
      <3> QED
        BY <2>1, <3>1, <3>2
    <2>3. at' = at /\ asked' = asked /\ told' = told
      BY <1>2 DEF ReadsByte, client
    <2>4. Shape'
      <3>1. at = "running"
        BY <1>1, <1>2 DEF Agreed, Open, Shape, Then
      <3> QED
        BY <1>4, <2>1, <2>3, <3>1 DEF Shape, Then, Loop, Queue
    <2>5. Agreed'
      <3>1. cmd[1] # "D"
        BY <1>4
      <3> QED
        BY <1>1, <1>2, <1>3, <2>4, <3>1, TakesLast
    <2>6. (told = trace \/ (at = "asking" /\ asked = <<"T">>))' \/ raced
      BY <1>1, <1>2, <2>3 DEF InTime, mode
    <2>7. single' \in BOOLEAN /\ trace' \in {"on", "off"} /\ stop_at' \in BOOLEAN
      BY <1>1, <1>2 DEF RTypes, mode
    <2> QED
      BY <1>2, <1>3, <1>7, <2>1, <2>2, <2>5, <2>6, <2>7, TakesInv DEF RemoteInv, Loop
  <1> QED
    BY <1>6, <1>7

-----------------------------------------------------------------------------
(* In the loop of machine_run the server is to hear nothing but breaks.    *)
LEMMA LoopQuiet ==
  ASSUME RemoteInv, srv \in Loop
  PROVE  /\ srv # "ack" /\ Open /\ Then = srv /\ at = "running" /\ Queue({TW})
         /\ \A k \in 1..Len(c2s) : ~ Live(c2s[k])
         /\ todo # <<>> => ~ TodoLive
         /\ ~ Confirmed /\ ~ Interrupted
         /\ Reached.index = 0 /\ ~ Reached.half /\ ~ Reached.cut /\ Reached.heard
         /\ rx.state # "ESCAPED"
  <1>1. /\ RTypes /\ LineOK /\ InStep /\ AckOK /\ Agreed /\ Control
    BY DEF RemoteInv
  <1>2. srv # "ack" /\ Open /\ Then = srv /\ srv # "key" /\ srv # "idle"
    BY DEF Open, Then, Loop
  <1>3. at = "running" /\ Queue({TW})
    BY <1>1, <1>2 DEF Agreed, Shape
  <1>4. \A cmd : ~ Expects(cmd)
    BY <1>2 DEF Expects, Due
  <1>5. \A k \in 1..Len(c2s) : ~ Live(c2s[k])
    BY <1>1, <1>2, <1>4 DEF Agreed
  <1>6. ~ Confirmed /\ ~ Interrupted
    BY <1>1, <1>2 DEF AckOK
  <1>7. ASSUME todo # <<>>, TodoLive
        PROVE  FALSE
    <2>1. place.heard
      BY <1>6, <1>7 DEF TodoLive, Confirmed
    <2>2. todo \in Seq(Contents)
      BY <1>1 DEF RTypes
    <2>3. 1 \in 1..Len(todo) /\ Head(todo) = todo[1]
      BY <1>7, <2>2
    <2>4. todo[1] = <<"C">>
      BY <1>1, <1>2, <1>4, <1>7, <2>3 DEF Agreed
    <2> QED
      BY <1>1, <1>7, <2>1, <2>3, <2>4 DEF AckOK
  <1>8. Reached.index = 0 /\ ~ Reached.half
    BY <1>1 DEF Control
  <1>9. ~ Reached.cut
    BY <1>1, <1>8, ReachedOK DEF PlaceOK
  <1>10. Reached.heard /\ rx.state # "ESCAPED"
    BY <1>1, <1>2, <1>8 DEF InStep, Fits
  <1> QED
    BY <1>2, <1>3, <1>5, <1>6, <1>7, <1>8, <1>9, <1>10

(* A step of machine_run that reads nothing, to the next one or out of it. *)
LEMMA LoopInv ==
  ASSUME RemoteInv, srv \in Loop, UNCHANGED <<c2s, client, mode, raced, counts>>,
         srv' \in Loop \cup {"key", "idle"},
         rx' \in Receivers, rx'.len <= Len(rx'.buf), rx'.state # "ESCAPED", rx'.buf # <<>>,
         \/ s2c' = s2c
         \/ Len(s2c) < PtyFrames /\ \E reply \in Replies \ {<<"I">>} : s2c' = Append(s2c, reply),
         Shape'
  PROVE  RemoteInv'
  <1>1. /\ RTypes /\ LineOK /\ InStep /\ AckOK /\ HeardOK /\ Agreed /\ Control /\ InTime
    BY DEF RemoteInv
  <1>2. /\ todo' = todo /\ place' = place /\ at' = at /\ asked' = asked /\ told' = told
        /\ wrong' = wrong /\ in_console' = in_console /\ c2s' = c2s /\ trace' = trace
        /\ raced' = raced
    BY DEF client, mode
  <1>3. srv' # "ack" /\ srv # "ack"
    BY DEF Loop
  <1>4. s2c' \in Seq(Replies) /\ Len(s2c') <= PtyFrames /\ ~ Interrupted'
    <2>1. s2c \in Seq(Replies) /\ Len(s2c) <= PtyFrames
      BY <1>1 DEF RTypes
    <2>2. \A i \in 1..Len(s2c) : s2c[i] # <<"I">>
      BY LoopQuiet DEF Interrupted
    <2>3. CASE s2c' = s2c
      BY <2>1, <2>2, <2>3 DEF Interrupted
    <2>4. CASE Len(s2c) < PtyFrames /\ \E reply \in Replies \ {<<"I">>} : s2c' = Append(s2c, reply)
      <3>1. PICK reply \in Replies \ {<<"I">>} : s2c' = Append(s2c, reply)
        BY <2>4
      <3>2. /\ s2c' \in Seq(Replies) /\ Len(s2c) \in Nat /\ Len(s2c') = Len(s2c) + 1
            /\ \A i \in 1..Len(s2c') : s2c'[i] # <<"I">>
        <4>1. /\ s2c' \in Seq(Replies) /\ Len(s2c) \in Nat /\ Len(s2c') = Len(s2c) + 1
              /\ \A i \in 1..Len(s2c) : s2c'[i] = s2c[i]
              /\ s2c'[Len(s2c) + 1] = reply
          BY <2>1, <3>1
        <4>2. reply # <<"I">>
          OBVIOUS
        <4>3. \A i \in 1..Len(s2c') : i \in 1..Len(s2c) \/ i = Len(s2c) + 1
          BY <4>1
        <4> QED
          BY <2>2, <4>1, <4>2, <4>3
      <3> QED
        BY <2>4, <3>2, RemoteAssumption DEF Interrupted
    <2> QED
      BY <2>3, <2>4
  <1>5. Confirming' = Confirming /\ Confirmed' = Confirmed /\ TodoLive' = TodoLive
    BY <1>2 DEF Confirming, Confirmed, TodoLive
  <1>6. RTypes'
    <2>1. UNCHANGED <<c2s, at, todo, place, asked, resume, in_console, told, wrong, exit_on_HLT,
                      single, trace, stop_at, raced, commands, breaks, typed, accepted>>
      BY DEF client, mode, counts
    <2>2. (/\ c2s \in Seq(Items) /\ todo \in Seq(Contents) /\ place \in Places
           /\ at \in {"prompt", "running", "asking", "halting", "exited"}
           /\ asked \in Seq(Registers) /\ resume \in {"", "R", "S", "Q"}
           /\ in_console \in BOOLEAN /\ told \in {"on", "off"} /\ wrong \in BOOLEAN)'
      BY <1>1, <2>1 DEF RTypes
    <2>3. (/\ exit_on_HLT \in BOOLEAN
           /\ single \in BOOLEAN /\ trace \in {"on", "off"} /\ stop_at \in BOOLEAN
           /\ raced \in BOOLEAN /\ breaks \in Nat /\ commands \in Nat
           /\ typed \in Seq(Keys) /\ accepted \in Seq(Keys))'
      BY <1>1, <2>1 DEF RTypes
    <2>4. srv' \in Loop \cup {"idle", "key", "ack", "quit"}
      OBVIOUS
    <2> QED
      BY <1>4, <2>2, <2>3, <2>4 DEF RTypes
  <1>7. LineOK' /\ Reached' = Reached
    <2>1. LineOK'
      <3>1. (PlaceOK(place) /\ ~ place.half)' /\ (place.index > 0 => todo # <<>> /\ Head(todo) = place.cmd)'
        BY <1>1, <1>2 DEF LineOK, PlaceOK
      <3>2. Chain(c2s, place)
        BY <1>1 DEF LineOK
      <3>3. Chain(c2s', place')
        BY <1>2, <3>2
      <3>4. Chain(c2s, place)'
        BY <3>3 DEF PlaceOK, Chain, ItemOK, OfFrame, Starts, Escapes, Carries, Ends,
          Breaks, BreaksOff
      <3> QED
        BY <3>1, <3>4 DEF LineOK
    <2> QED
      BY <1>2, <2>1 DEF Reached, Start
  <1>8. InStep'
    <2>1. Reached.index = 0 /\ ~ Reached.half /\ ~ Reached.cut /\ Reached.heard
      BY LoopQuiet
    <2>2. Fits(Reached', srv', rx')
      BY <1>3, <1>7, <2>1 DEF Fits
    <2> QED
      BY <2>2 DEF InStep, Fits
  <1>9. AckOK'
    <2>1. ~ Confirmed' /\ ~ Interrupted'
      BY <1>4, <1>5, LoopQuiet
    <2> QED
      BY <1>1, <1>2, <1>3, <1>5, <2>1 DEF AckOK, Interrupted
  <1>10. HeardOK'
    BY <1>1, <1>2, <1>3 DEF HeardOK
  <1>11. Agreed'
    <2>1. /\ \A k \in 1..Len(c2s) : ~ Live(c2s[k])
          /\ todo # <<>> => ~ TodoLive
      BY LoopQuiet
    <2>2. todo = <<>> => Len(todo) = 0
      OBVIOUS
    <2>3. (TodoLive => \A i \in 1..Len(todo) : todo[i] = <<"C">> \/ Expects(todo[i]))'
      BY <1>2, <1>5, <2>1, <2>2
    <2>4. (\A k \in 1..Len(c2s) : ~ Live(c2s[k]))'
      BY <1>2, <2>1 DEF Live, OfBreak
    <2>5. (TodoLive => todo = <<>>)'
      BY <1>2, <1>5, <2>1
    <2> QED
      BY <2>3, <2>4, <2>5 DEF Agreed
  <1>12. Control'
    <2>1. Reached'.index = 0 /\ ~ Reached'.half
      BY <1>7, LoopQuiet
    <2> QED
      BY <1>1, <1>2, <1>5, <2>1 DEF Control
  <1>13. InTime'
    BY <1>1, <1>2, <1>3, <1>4 DEF InTime
  <1> QED
    BY <1>6, <1>7, <1>8, <1>9, <1>10, <1>11, <1>12, <1>13 DEF RemoteInv

(* One more request to write, or the last frame of the queue.              *)
LEMMA QueueAppend ==
  ASSUME RTypes, Queue({TW}), NEW reply, s2c' = Append(s2c, reply)
  PROVE  \A last : reply \in last => \A i \in 1..Len(s2c') : s2c'[i] \in IF i = Len(s2c') THEN last ELSE {TW}
  <1>1. s2c \in Seq(Replies)
    BY DEF RTypes
  <1>2. \A i \in 1..Len(s2c) : s2c[i] = TW
    BY DEF Queue
  <1>3. Len(s2c') = Len(s2c) + 1 /\ Len(s2c) \in Nat /\ s2c'[Len(s2c) + 1] = reply
    BY <1>1
  <1>4. \A i \in 1..Len(s2c) : s2c'[i] = TW
    BY <1>1, <1>2
  <1> QED
    BY <1>3, <1>4

(* The steps of machine_run that read nothing from the line.               *)
LEMMA LoopStepsInv ==
  ASSUME RemoteInv, PollNothing \/ NoPrint \/ Turn \/ PrintKey \/ AskKey \/ Stop
  PROVE  RemoteInv'
  <1>1. RTypes
    BY DEF RemoteInv
  <1>2. /\ srv \in Loop /\ UNCHANGED <<c2s, client, mode, raced, counts>>
    BY DEF PollNothing, NoPrint, Turn, PrintKey, AskKey, Stop, Loop
  <1>3. /\ at = "running" /\ Queue({TW}) /\ rx.state # "ESCAPED"
    BY <1>2, LoopQuiet
  <1>4. /\ rx \in Receivers /\ rx.len <= Len(rx.buf) /\ rx.buf # <<>>
    BY <1>1, <1>2 DEF RTypes
  <1>5. at' = "running" /\ trace' = trace
    BY <1>2, <1>3 DEF client, mode
  <1>6. CASE PollNothing \/ NoPrint \/ Turn
    <2>1. srv' \in Loop /\ s2c' = s2c /\ rx' = rx
      BY <1>6 DEF PollNothing, NoPrint, Turn, Loop
    <2>2. Shape'
      BY <1>3, <1>5, <2>1 DEF Shape, Then, Queue, Loop
    <2> QED
      BY <1>2, <1>3, <1>4, <2>1, <2>2, LoopInv
  <1>7. CASE PrintKey
    <2>1. srv' \in Loop /\ s2c' = Append(s2c, TW) /\ Len(s2c) < PtyFrames /\ rx' = rx
      BY <1>7 DEF PrintKey, Send, TW, Loop
    <2>2. Queue({TW})'
      BY <1>1, <1>3, <2>1, QueueAppend DEF Queue
    <2>3. Shape'
      BY <1>5, <2>1, <2>2 DEF Shape, Then, Loop
    <2>4. TW \in Replies \ {<<"I">>}
      BY DEF Replies, TW
    <2> QED
      BY <1>2, <1>3, <1>4, <2>1, <2>3, <2>4, LoopInv
  <1>8. CASE AskKey
    <2>1. srv' = "key" /\ s2c' = Append(s2c, TR) /\ Len(s2c) < PtyFrames /\ rx' = Calling(rx.buf)
      BY <1>8 DEF AskKey, Send, TR
    <2>2. Queue({TR})'
      BY <1>1, <1>3, <2>1, QueueAppend DEF Queue
    <2>3. Shape'
      BY <1>5, <2>1, <2>2 DEF Shape, Then, Loop
    <2>4. TR \in Replies \ {<<"I">>}
      BY DEF Replies, TR
    <2>5. rx' \in Receivers /\ rx'.len <= Len(rx'.buf) /\ rx'.state # "ESCAPED" /\ rx'.buf # <<>>
      <3>1. 0 <= Len(rx.buf)
        BY <1>4 DEF Receivers
      <3> QED
        BY <1>4, <2>1, <3>1, ReceiverStarts
    <2> QED
      BY <1>2, <2>1, <2>3, <2>4, <2>5, LoopInv
  <1>9. CASE Stop
    <2>1. PICK reason \in Reasons : Send(<<reason>>) /\ rx' = Calling(<<reason>> \o Tail(rx.buf))
      BY <1>9 DEF Stop
    <2>2. srv' = "idle" /\ s2c' = Append(s2c, <<reason>>) /\ Len(s2c) < PtyFrames
      BY <1>9, <2>1 DEF Stop, Send
    <2>3. reason \in {"H", "B", "P", "S", "D"}
      BY <2>1, RemoteAssumption DEF Reasons
    <2>4. <<reason>> \in Ender /\ <<reason>> \in Replies \ {<<"I">>}
      BY <2>3 DEF Ender, Replies
    <2>5. Queue(Ender)'
      BY <1>1, <1>3, <2>2, <2>4, QueueAppend DEF Queue
    <2>6. Shape'
      BY <1>5, <2>2, <2>5 DEF Shape, Then, Loop
    <2>7. rx' \in Receivers /\ rx'.len <= Len(rx'.buf) /\ rx'.state # "ESCAPED" /\ rx'.buf # <<>>
      <3> DEFINE S == Characters \cup Stops
                 buf == <<reason>> \o Tail(rx.buf)
      <3>1. rx.buf \in Seq(S) /\ rx.buf # <<>>
        BY <1>4 DEF Receivers
      <3>2. reason \in S
        BY <2>1 DEF Reasons, Characters
      <3>3. Tail(rx.buf) \in Seq(S)
        BY <3>1
      <3>4. buf \in Seq(S) /\ buf # <<>> /\ 0 <= Len(buf)
        <4>1. \A t \in Seq(S) : <<reason>> \o t \in Seq(S) /\ Len(<<reason>> \o t) = 1 + Len(t)
          BY <3>2
        <4>2. buf \in Seq(S) /\ Len(buf) = 1 + Len(Tail(rx.buf)) /\ Len(Tail(rx.buf)) \in Nat
          <5>1. \A t \in Seq(S) : Len(t) \in Nat
            OBVIOUS
          <5> QED
            BY <3>3, <4>1, <5>1, Zenon
        <4> HIDE DEF buf
        <4>3. buf # <<>>
          BY <4>2
        <4> QED
          BY <4>2, <4>3
      <3> HIDE DEF buf, S
      <3>5. rx' = [state |-> "WAIT", len |-> 0, buf |-> buf]
        BY <2>1 DEF Calling, buf
      <3> QED
        BY <3>4, <3>5 DEF Receivers, S
    <2> QED
      BY <1>2, <2>2, <2>4, <2>6, <2>7, LoopInv
  <1> QED
    BY <1>6, <1>7, <1>8, <1>9

(* Live bytes belong to a frame.                                           *)
LEMMA LiveContent ==
  ASSUME RTypes, LineOK, NEW k \in 1..Len(c2s), Live(c2s[k])
  PROVE  Content(c2s[k]) \in Contents
  <1>1. c2s[k] \in Items /\ PlaceOK(c2s[k].at) /\ ItemOK(c2s[k])
    BY ItemsOK
  <1>2. OfFrame(c2s[k])
    BY <1>1, Kinds DEF ItemOK, Live
  <1> DEFINE item == c2s[k]
  <1>3. item.at.index \in Nat /\ (item.at.index > 0 => item.at.cmd \in Contents)
    BY <1>1, ItemFields DEF PlaceOK
  <1>4. item.at.index = 0 => item.after.cmd \in Contents
    BY <1>1, <1>2, ItemFields DEF OfFrame
  <1> QED
    BY <1>3, <1>4 DEF Content

-----------------------------------------------------------------------------
(* A break, in machine_halt or out of a signal handler: what is under way  *)
(* stays, and what follows is not heard before a 'C'.                      *)
LEMMA SendBreakInv ==
  ASSUME RemoteInv, SendBreak, UNCHANGED <<s2c, todo, asked, server>>,
         RTypes', Open => Shape' /\ \A cmd \in Contents : Expects(cmd) => Due(cmd, Then, at', asked),
         Control => (at = "asking" => asked # <<>>)' /\ (at \in {"prompt", "halting"} => in_console)',
         Confirming => at' \in {"prompt", "asking"},
         ~ raced' => /\ ~ wrong' /\ (Interrupted => Expected')
                     /\ srv = "ack" => Interrupted \/ (Confirmed /\ ~ Confirming)
                     /\ told' = trace \/ (at' = "asking" /\ asked = <<"T">>)
  PROVE  RemoteInv'
  <1>1. /\ RTypes /\ LineOK /\ InStep /\ AckOK /\ HeardOK /\ Agreed /\ Control
    BY DEF RemoteInv
  <1>2. /\ srv' = srv /\ rx' = rx /\ trace' = trace /\ todo' = todo /\ s2c' = s2c /\ asked' = asked
    BY DEF server, mode
  <1>3. /\ c2s' \in Seq(Items) /\ LineOK' /\ Reached' = Reached
        /\ Len(c2s) \in Nat /\ Len(c2s') = Len(c2s) + 2
        /\ \A k \in 1..Len(c2s) : c2s'[k] = c2s[k]
        /\ Breaks(c2s'[Len(c2s) + 1]) /\ BreaksOff(c2s'[Len(c2s) + 2])
        /\ c2s'[Len(c2s) + 1] \in Items /\ c2s'[Len(c2s) + 2] \in Items
        /\ ~ place'.heard /\ place'.cut = (place.index > 0)
    BY <1>1, <1>2, SendBreakLine
  <1> DEFINE n == Len(c2s)
             m == Len(c2s')
  <1>4. /\ n \in Nat /\ m = n + 2
        /\ \A k \in 1..m : k \in 1..n \/ k = n + 1 \/ k = n + 2
        /\ \A k \in 1..n : k \in 1..m /\ c2s'[k] = c2s[k]
    BY <1>3
  <1>5. /\ OfBreak(c2s'[n + 1]) /\ ~ Revives(c2s'[n + 1]) /\ ~ c2s'[n + 1].at.half
        /\ OfBreak(c2s'[n + 2]) /\ ~ Revives(c2s'[n + 2])
        /\ ~ Live(c2s'[n + 1]) /\ ~ Live(c2s'[n + 2])
    BY <1>3, Kinds DEF Revives, Live
  <1>6. Confirming' => Confirming
    <2>1. place \in Places /\ PlaceOK(place)
      BY <1>1 DEF RTypes, LineOK
    <2>2. place.index \in Nat
      BY <2>1 DEF Places
    <2>3. ~ place'.cut => ~ place.cut
      <3>1. ~ (place.index > 0) => place.index = 0
        BY <2>2
      <3> QED
        BY <1>3, <2>1, <3>1 DEF PlaceOK
    <2> QED
      BY <1>2, <2>3 DEF Confirming
  <1> HIDE DEF n, m
  <1>7. Confirmed' => Confirmed
    BY <1>4, <1>5, <1>6 DEF Confirmed, n, m
  <1>8. ASSUME NEW k \in 1..m, Live(c2s'[k]) \/ Revives(c2s'[k]) \/ ~ OfBreak(c2s'[k])
        PROVE  k \in 1..n /\ c2s'[k] = c2s[k]
    BY <1>4, <1>5, <1>8
  <1>9. InStep'
    BY <1>1, <1>2, <1>3 DEF InStep, Fits
  <1>10. AckOK'
    <2>1. /\ srv' # "ack" => ~ Confirmed' /\ ~ Interrupted'
          /\ srv' = "ack" /\ s2c' # <<>> => s2c'[Len(s2c')] = <<"I">>
          /\ \A i \in 1..Len(s2c') : s2c'[i] = <<"I">> => ~ Confirmed' /\ i = Len(s2c')
      BY <1>1, <1>2, <1>7 DEF AckOK, Interrupted
    <2>2. ASSUME NEW j \in 1..m, NEW k \in 1..m, Revives(c2s'[j]), Revives(c2s'[k])
          PROVE  j = k
      BY <1>1, <1>8, <2>2 DEF AckOK, n
    <2>3. \A k \in 1..m : Revives(c2s'[k]) => ~ Confirming'
      BY <1>1, <1>6, <1>8 DEF AckOK, n
    <2>4. /\ \A i \in 2..Len(todo') : todo'[i] # <<"C">>
          /\ todo' # <<>> /\ Head(todo') = <<"C">> => ~ place'.heard
      BY <1>1, <1>2, <1>3 DEF AckOK
    <2>5. \A k \in 1..m :
            ~ OfBreak(c2s'[k]) /\ Content(c2s'[k]) = <<"C">> => ~ c2s'[k].at.heard
      BY <1>1, <1>8 DEF AckOK, n
    <2> QED
      BY <2>1, <2>2, <2>3, <2>4, <2>5 DEF AckOK, Interrupted, Revives, OfBreak, Content, m
  <1>11. HeardOK'
    <2>1. ASSUME srv' = "ack", NEW k \in 1..m, Live(c2s'[k])
          PROVE  \E i \in 1..(k - 1) : Revives(c2s'[i])
      <3>1. k \in 1..n /\ Live(c2s[k])
        BY <1>8, <2>1
      <3>2. PICK i \in 1..(k - 1) : Revives(c2s[i])
        BY <1>1, <1>2, <2>1, <3>1 DEF HeardOK, n
      <3>3. i \in 1..n
        BY <1>4, <3>1
      <3> QED
        BY <1>4, <3>2, <3>3
    <2>2. ASSUME NEW j \in 1..m, Closes(c2s'[j]), NEW k \in (j + 1)..m, Live(c2s'[k])
          PROVE  \E i \in (j + 1)..(k - 1) : Revives(c2s'[i])
      <3>1. k \in 1..m
        BY <1>4
      <3>2. k \in 1..n /\ Live(c2s[k])
        BY <1>8, <2>2, <3>1
      <3>3. j \in 1..n /\ k \in (j + 1)..n
        BY <1>4, <3>2
      <3>4. PICK i \in (j + 1)..(k - 1) : Revives(c2s[i])
        BY <1>1, <1>4, <2>2, <3>2, <3>3 DEF HeardOK, Closes, n
      <3>5. i \in 1..n
        BY <1>4, <3>3
      <3> QED
        BY <1>4, <3>4, <3>5
    <2> QED
      BY <1>3, <2>1, <2>2 DEF HeardOK, Live, Revives, Closes, OfBreak, m
  <1>12. Agreed'
    <2> SUFFICES ASSUME Open'
                 PROVE  Agreed'
      BY DEF Agreed
    <2>1. Open /\ Then' = Then
      BY <1>2, <1>7 DEF Open, Then
    <2>2. Shape' /\ \A cmd \in Contents : Expects(cmd) => Due(cmd, Then', at', asked')
      BY <1>1, <1>2, <2>1
    <2>3. ASSUME NEW k \in 1..m, Live(c2s'[k])
          PROVE  Due(Content(c2s'[k]), Then', at', asked')
      <3>1. k \in 1..n /\ c2s'[k] = c2s[k]
        BY <1>8, <2>3
      <3>2. Expects(Content(c2s[k]))
        BY <1>1, <2>1, <2>3, <3>1 DEF Agreed, n
      <3>3. Content(c2s[k]) \in Contents
        BY <1>1, <2>3, <3>1, LiveContent DEF n
      <3> QED
        BY <2>2, <3>1, <3>2, <3>3
    <2>4. ASSUME TodoLive', NEW i \in 1..Len(todo')
          PROVE  todo'[i] = <<"C">> \/ Due(todo'[i], Then', at', asked')
      <3>1. TodoLive
        BY <1>3, <1>6, <2>4 DEF TodoLive
      <3>2. todo[i] \in Contents
        <4>1. todo \in Seq(Contents)
          BY <1>1 DEF RTypes
        <4> QED
          BY <1>2, <4>1
      <3> QED
        BY <1>1, <1>2, <2>1, <2>2, <3>1, <3>2 DEF Agreed
    <2>5. ASSUME NEW k \in 1..m, Live(c2s'[k]), Ends(c2s'[k]), c2s'[k].at.cmd[1] # "D"
          PROVE  todo' = <<>> /\ \A j \in (k + 1)..m : OfBreak(c2s'[j])
      <3>1. k \in 1..n /\ c2s'[k] = c2s[k]
        BY <1>8, <2>5
      <3>2. todo = <<>> /\ \A j \in (k + 1)..n : OfBreak(c2s[j])
        BY <1>1, <2>1, <2>5, <3>1 DEF Agreed, n
      <3>3. ASSUME NEW j \in (k + 1)..m PROVE OfBreak(c2s'[j])
        <4>1. j \in (k + 1)..n \/ j = n + 1 \/ j = n + 2
          BY <1>4, <3>1
        <4>2. j \in (k + 1)..n => c2s'[j] = c2s[j]
          BY <1>4, <3>1
        <4> QED
          BY <1>5, <3>2, <4>1, <4>2
      <3> QED
        BY <1>2, <3>2, <3>3
    <2>6. s2c' # <<>> => /\ TodoLive' => todo' = <<>>
                         /\ \A k \in 1..m : ~ Live(c2s'[k])
      <3>1. TodoLive' => TodoLive
        BY <1>3, <1>6 DEF TodoLive
      <3> QED
        BY <1>1, <1>2, <1>8, <2>1, <3>1 DEF Agreed, n
    <2>7. (\A k \in 1..Len(c2s) : Live(c2s[k]) => Expects(Content(c2s[k])))'
      BY <2>3 DEF Expects, Live, OfBreak, Content, Due, m
    <2>8. (TodoLive => \A i \in 1..Len(todo) : todo[i] = <<"C">> \/ Expects(todo[i]))'
      BY <2>4 DEF Expects, Due
    <2>9. (\A k \in 1..Len(c2s) : Live(c2s[k]) /\ Ends(c2s[k]) /\ c2s[k].at.cmd[1] # "D" =>
             todo = <<>> /\ \A j \in (k + 1)..Len(c2s) : OfBreak(c2s[j]))'
      BY <2>5 DEF Live, OfBreak, Ends, m
    <2>10. (s2c # <<>> => (TodoLive => todo = <<>>) /\ \A k \in 1..Len(c2s) : ~ Live(c2s[k]))'
      BY <2>6 DEF Live, OfBreak, m
    <2> QED
      BY <2>2, <2>7, <2>8, <2>9, <2>10 DEF Agreed
  <1>13. Control'
    <2>1. Confirming' => at' \in {"prompt", "asking"}
      BY <1>6
    <2> QED
      BY <1>1, <1>2, <1>3, <2>1 DEF Control
  <1>14. InTime'
    <2> SUFFICES ASSUME ~ raced'
                 PROVE  (/\ ~ wrong
                         /\ Interrupted => Expected
                         /\ srv = "ack" => Interrupted \/ Confirmed
                         /\ told = trace \/ (at = "asking" /\ asked = <<"T">>))'
      BY DEF InTime
    <2>1. Interrupted' = Interrupted
      BY <1>2 DEF Interrupted
    <2>2. ASSUME Confirmed, ~ Confirming
          PROVE  Confirmed'
      <3>1. PICK k \in 1..n : Revives(c2s[k])
        BY <2>2 DEF Confirmed, n
      <3> QED
        BY <1>4, <3>1 DEF Confirmed, m, Revives
    <2> QED
      BY <1>2, <2>1, <2>2
  <1> QED
    BY <1>3, <1>9, <1>10, <1>11, <1>12, <1>13, <1>14 DEF RemoteInv

-----------------------------------------------------------------------------
(* A byte of a frame: it is heard if the place is, and a whole 'C' revives *)
(* the server that waits.                                                  *)
LEMMA WriteByteInv ==
  ASSUME RemoteInv, WriteByte
  PROVE  RemoteInv'
  <1>1. /\ RTypes /\ LineOK /\ InStep /\ AckOK /\ HeardOK /\ Agreed /\ Control /\ InTime
    BY DEF RemoteInv
  <1>2. /\ srv' = srv /\ rx' = rx /\ trace' = trace /\ s2c' = s2c /\ asked' = asked /\ at' = at
        /\ told' = told /\ wrong' = wrong /\ raced' = raced /\ in_console' = in_console
        /\ todo # <<>>
    BY DEF WriteByte, server, mode
  <1> DEFINE n == Len(c2s)
             m == Len(c2s')
             h == c2s'[Len(c2s')]
  <1>3. /\ c2s' \in Seq(Items) /\ LineOK' /\ Reached' = Reached
        /\ n \in Nat /\ m = n + 1
        /\ \A k \in 1..n : c2s'[k] = c2s[k]
        /\ Written(h) /\ place' \in Places /\ PlaceOK(place')
        /\ Ends(h) => todo' = Tail(todo) /\ place.cmd = Head(todo) /\ place'.index = 0
        /\ ~ Ends(h) => /\ todo' = todo /\ place'.cmd = Head(todo)
                        /\ place'.heard = place.heard /\ place'.cut = place.cut
    BY <1>1, WriteByteLine
  <1>4. /\ h \in Items /\ OfFrame(h) /\ Content(h) = Head(todo)
        /\ h.at = place /\ h.after = place' /\ ~ OfBreak(h) /\ ~ h.at.half
    BY <1>1, <1>3, Kinds DEF Written, LineOK
  <1>5. /\ m \in 1..m /\ h = c2s'[m]
        /\ \A k \in 1..m : k \in 1..n \/ k = m
        /\ \A k \in 1..n : k \in 1..m /\ c2s'[k] = c2s[k]
    BY <1>3
  <1> HIDE DEF n, m, h
  <1>6. /\ todo \in Seq(Contents) /\ Head(todo) = todo[1] /\ 1 \in 1..Len(todo)
        /\ Head(todo) \in Contents /\ Len(todo) \in Nat
        /\ \A i \in 1..Len(Tail(todo)) : Tail(todo)[i] = todo[i + 1] /\ i + 1 \in 2..Len(todo)
        /\ Tail(todo) \in Seq(Contents) /\ Len(Tail(todo)) = Len(todo) - 1
    <2>1. todo \in Seq(Contents)
      BY <1>1 DEF RTypes
    <2>2. /\ Head(todo) = todo[1] /\ 1 \in 1..Len(todo) /\ Head(todo) \in Contents
          /\ Len(todo) \in Nat /\ Len(Tail(todo)) = Len(todo) - 1 /\ Tail(todo) \in Seq(Contents)
          /\ \A i \in 1..Len(Tail(todo)) : Tail(todo)[i] = todo[i + 1]
      BY <1>2, <2>1
    <2> QED
      BY <2>1, <2>2
  <1>7. \A i \in 2..Len(todo) : todo[i] # <<"C">>
    BY <1>1 DEF AckOK
  <1>8. Ends(h) => todo' = <<>> \/ Head(todo') # <<"C">>
    <2> SUFFICES ASSUME Tail(todo) # <<>> PROVE Head(Tail(todo)) # <<"C">>
      BY <1>3
    <2>1. Head(Tail(todo)) = Tail(todo)[1] /\ 1 \in 1..Len(Tail(todo))
      BY <1>6
    <2>2. Tail(todo)[1] = todo[1 + 1] /\ 1 + 1 \in 2..Len(todo)
      BY <1>6, <2>1
    <2> QED
      BY <1>7, <2>1, <2>2
  <1>9. /\ Ends(h) => ~ Confirming'
        /\ ~ Ends(h) => Confirming' = Confirming
    BY <1>2, <1>3, <1>8 DEF Confirming
  (* What the new byte revives.                                            *)
  <1>10. /\ Ends(h) => (place'.heard <=> (place.heard /\ Head(todo)[1] # "EOF") \/ Confirming)
         /\ Revives(h) <=> Ends(h) /\ Confirming
         /\ Confirming => ~ place.heard
         /\ Head(todo) = <<"C">> => ~ place.heard
    <2>1. Head(todo) = <<"C">> => ~ place.heard
      BY <1>1, <1>2 DEF AckOK
    <2>2. Ends(h) => (place'.heard <=> (place.heard /\ Head(todo)[1] # "EOF") \/ Confirming)
      <3>1. PlaceOK(h.at)
        BY <1>1, <1>4 DEF LineOK
      <3>2. Ends(h) => (h.after.heard <=> \/ h.at.heard /\ h.at.cmd[1] # "EOF"
                                          \/ h.at.cmd = <<"C">> /\ ~ h.at.cut)
        BY <1>4, <3>1, ItemFields
      <3> QED
        BY <1>2, <1>3, <1>4, <3>2 DEF Confirming
    <2>3. Confirming => ~ place.heard
      BY <2>1 DEF Confirming
    <2>4. Revives(h) <=> Ends(h) /\ Confirming
      BY <1>3, <1>4, <2>2, <2>3 DEF Revives
    <2> QED
      BY <2>1, <2>2, <2>3, <2>4
  <1>11. Confirmed' <=> Confirmed
    <2>1. (\E k \in 1..m : Revives(c2s'[k])) <=> (\E k \in 1..n : Revives(c2s[k])) \/ Revives(h)
      BY <1>5
    <2>2. Confirmed' <=> Confirming' \/ \E k \in 1..m : Revives(c2s'[k])
      BY DEF Confirmed, m, Revives
    <2>3. Confirmed <=> Confirming \/ \E k \in 1..n : Revives(c2s[k])
      BY DEF Confirmed, n
    <2> QED
      BY <1>9, <1>10, <2>1, <2>2, <2>3
  <1>12. InStep'
    BY <1>1, <1>2, <1>3 DEF InStep, Fits
  <1>13. TodoLive' => TodoLive
    BY <1>3, <1>9, <1>10 DEF TodoLive
  <1>14. RTypes'
    <2>1. todo' \in Seq(Contents)
      BY <1>3, <1>6
    <2>2. UNCHANGED <<s2c, at, asked, resume, in_console, told, wrong, exit_on_HLT, srv, rx,
                      single, trace, stop_at, raced, commands, breaks, typed, accepted>>
      BY DEF WriteByte, server, mode, counts
    <2>3. (/\ s2c \in Seq(Replies)
           /\ at \in {"prompt", "running", "asking", "halting", "exited"}
           /\ asked \in Seq(Registers) /\ resume \in {"", "R", "S", "Q"}
           /\ in_console \in BOOLEAN /\ told \in {"on", "off"} /\ wrong \in BOOLEAN)'
      BY <1>1, <2>2 DEF RTypes
    <2>4. (/\ exit_on_HLT \in BOOLEAN
           /\ single \in BOOLEAN /\ trace \in {"on", "off"} /\ stop_at \in BOOLEAN
           /\ raced \in BOOLEAN /\ breaks \in Nat /\ commands \in Nat
           /\ typed \in Seq(Keys) /\ accepted \in Seq(Keys) /\ Len(s2c) <= PtyFrames)'
      BY <1>1, <2>2 DEF RTypes
    <2>5. (/\ srv \in Loop \cup {"idle", "key", "ack", "quit"}
           /\ rx \in Receivers /\ rx.len <= Len(rx.buf)
           /\ srv \in Loop \cup {"key"} => rx.buf # <<>>)'
      BY <1>1, <2>2 DEF RTypes
    <2> QED
      BY <1>3, <2>1, <2>3, <2>4, <2>5 DEF RTypes
  <1>15. AckOK'
    <2>1. /\ srv' # "ack" => ~ Confirmed' /\ ~ Interrupted'
          /\ srv' = "ack" /\ s2c' # <<>> => s2c'[Len(s2c')] = <<"I">>
          /\ \A i \in 1..Len(s2c') : s2c'[i] = <<"I">> => ~ Confirmed' /\ i = Len(s2c')
      BY <1>1, <1>2, <1>11 DEF AckOK, Interrupted
    <2>2. ASSUME NEW j \in 1..m, NEW k \in 1..m, Revives(c2s'[j]), Revives(c2s'[k])
          PROVE  j = k
      <3>1. \A i \in 1..n : Revives(c2s[i]) => ~ Confirming
        BY <1>1 DEF AckOK, n
      <3>2. \A i, l \in 1..n : Revives(c2s[i]) /\ Revives(c2s[l]) => i = l
        BY <1>1 DEF AckOK, n
      <3> QED
        BY <1>5, <1>10, <2>2, <3>1, <3>2
    <2>3. ASSUME NEW k \in 1..m, Revives(c2s'[k])
          PROVE  ~ Confirming'
      <3>1. \A i \in 1..n : Revives(c2s[i]) => ~ Confirming
        BY <1>1 DEF AckOK, n
      <3> QED
        BY <1>5, <1>9, <1>10, <2>3, <3>1
    <2>4. \A i \in 2..Len(todo') : todo'[i] # <<"C">>
      <3>1. CASE Ends(h)
        <4>1. ASSUME NEW i \in 2..Len(Tail(todo)) PROVE Tail(todo)[i] # <<"C">>
          <5>1. i \in 1..Len(Tail(todo))
            BY <1>6
          <5> QED
            BY <1>6, <1>7, <5>1
        <4> QED
          BY <1>3, <3>1, <4>1
      <3>2. CASE ~ Ends(h)
        BY <1>3, <1>7, <3>2
      <3> QED
        BY <3>1, <3>2
    <2>5. todo' # <<>> /\ Head(todo') = <<"C">> => ~ place'.heard
      BY <1>3, <1>8, <1>10
    <2>6. \A k \in 1..m :
            ~ OfBreak(c2s'[k]) /\ Content(c2s'[k]) = <<"C">> => ~ c2s'[k].at.heard
      <3>1. \A k \in 1..n :
              ~ OfBreak(c2s[k]) /\ Content(c2s[k]) = <<"C">> => ~ c2s[k].at.heard
        BY <1>1 DEF AckOK, n
      <3> QED
        BY <1>4, <1>5, <1>10, <3>1
    <2> QED
      BY <2>1, <2>2, <2>3, <2>4, <2>5, <2>6 DEF AckOK, Interrupted, Revives, OfBreak, Content, m
  <1>16. HeardOK'
    <2>0. (Live(h) => place.heard) /\ (place'.heard => place.heard \/ Revives(h))
      BY <1>3, <1>4, <1>10 DEF Live
    <2>1. ASSUME srv' = "ack"
          PROVE  /\ \A k \in 1..m : Live(c2s'[k]) => \E i \in 1..(k - 1) : Revives(c2s'[i])
                 /\ place'.heard => \E i \in 1..m : Revives(c2s'[i])
      <3>1. /\ \A k \in 1..n : Live(c2s[k]) => \E i \in 1..(k - 1) : Revives(c2s[i])
            /\ place.heard => \E i \in 1..n : Revives(c2s[i])
        BY <1>1, <1>2, <2>1 DEF HeardOK, n
      <3>2. ASSUME NEW k \in 1..n, Live(c2s[k]) PROVE \E i \in 1..(k - 1) : Revives(c2s'[i])
        <4>1. PICK i \in 1..(k - 1) : Revives(c2s[i])
          BY <3>1, <3>2
        <4>2. i \in 1..n
          BY <1>3
        <4> QED
          BY <1>5, <4>1, <4>2
      <3>3. place.heard => \E i \in 1..(m - 1) : Revives(c2s'[i])
        BY <1>3, <1>5, <3>1
      <3>4. \A i \in 1..(m - 1) : i \in 1..m
        BY <1>3
      <3> QED
        BY <1>5, <2>0, <3>2, <3>3, <3>4
    <2>2. ASSUME NEW j \in 1..m, j # m, Closes(c2s'[j])
          PROVE  /\ \A k \in (j + 1)..m : Live(c2s'[k]) => \E i \in (j + 1)..(k - 1) : Revives(c2s'[i])
                 /\ place'.heard => \E i \in (j + 1)..m : Revives(c2s'[i])
      <3>0. j \in 1..n /\ Closes(c2s[j])
        BY <1>4, <1>5, <2>2 DEF Closes
      <3>1. /\ \A k \in (j + 1)..n : Live(c2s[k]) => \E i \in (j + 1)..(k - 1) : Revives(c2s[i])
            /\ place.heard => \E i \in (j + 1)..n : Revives(c2s[i])
        BY <1>1, <3>0 DEF HeardOK, n
      <3>2. ASSUME NEW k \in (j + 1)..n, Live(c2s[k]) PROVE \E i \in (j + 1)..(k - 1) : Revives(c2s'[i])
        <4>1. PICK i \in (j + 1)..(k - 1) : Revives(c2s[i])
          BY <3>1, <3>2
        <4>2. i \in 1..n
          BY <1>3, <3>0
        <4> QED
          BY <1>5, <4>1, <4>2
      <3>3. place.heard => \E i \in (j + 1)..(m - 1) : Revives(c2s'[i])
        <4> SUFFICES ASSUME place.heard PROVE \E i \in (j + 1)..(m - 1) : Revives(c2s'[i])
          OBVIOUS
        <4>1. PICK i \in (j + 1)..n : Revives(c2s[i])
          BY <3>1
        <4>2. i \in 1..n /\ i \in (j + 1)..(m - 1)
          BY <1>3, <3>0
        <4> QED
          BY <1>5, <4>1, <4>2
      <3>4. \A i \in (j + 1)..(m - 1) : i \in (j + 1)..m
        BY <1>3, <3>0
      <3>5. m \in (j + 1)..m
        BY <1>3, <3>0
      <3>6. ASSUME NEW k \in (j + 1)..m, Live(c2s'[k])
            PROVE  \E i \in (j + 1)..(k - 1) : Revives(c2s'[i])
        <4>1. k \in 1..m
          BY <1>3, <3>0
        <4>2. CASE k = m
          BY <1>5, <2>0, <3>3, <3>6, <4>2
        <4>3. CASE k \in 1..n
          <5>1. k \in (j + 1)..n /\ c2s'[k] = c2s[k]
            BY <1>5, <4>3
          <5> QED
            BY <3>2, <3>6, <5>1
        <4> QED
          BY <1>5, <4>1, <4>2, <4>3
      <3>7. ASSUME place'.heard
            PROVE  \E i \in (j + 1)..m : Revives(c2s'[i])
        BY <1>5, <2>0, <3>3, <3>4, <3>5, <3>7
      <3> QED
        BY <3>6, <3>7
    <2>3. Closes(c2s'[m]) => ~ place'.heard /\ \A k \in (m + 1)..m : FALSE
      BY <1>3, <1>4, <1>5 DEF Closes
    <2> QED
      BY <2>1, <2>2, <2>3 DEF HeardOK, Live, Revives, Closes, OfBreak, m
  <1>17. Agreed'
    <2> SUFFICES ASSUME Open'
                 PROVE  Agreed'
      BY DEF Agreed
    <2>1. Open /\ Then' = Then
      BY <1>2, <1>11 DEF Open, Then
    <2>2. \A cmd : Due(cmd, Then', at', asked') <=> Expects(cmd)
      BY <1>2, <2>1 DEF Expects
    <2>3. Shape'
      BY <1>1, <1>2, <2>1 DEF Agreed, Shape, Queue, Value
    <2>4. TodoLive => \A i \in 1..Len(todo) : todo[i] = <<"C">> \/ Expects(todo[i])
      BY <1>1, <2>1 DEF Agreed
    <2>5. Live(h) => TodoLive /\ Head(todo) # <<"C">>
      BY <1>4, <1>10 DEF Live, TodoLive
    <2>6. ASSUME NEW k \in 1..m, Live(c2s'[k])
          PROVE  Due(Content(c2s'[k]), Then', at', asked')
      <3>1. \A i \in 1..n : Live(c2s[i]) => Expects(Content(c2s[i]))
        BY <1>1, <2>1 DEF Agreed, n
      <3>2. Live(h) => Expects(Content(h))
        BY <1>4, <1>6, <2>4, <2>5
      <3> QED
        BY <1>5, <2>2, <2>6, <3>1, <3>2
    <2>7. ASSUME TodoLive', NEW i \in 1..Len(todo')
          PROVE  todo'[i] = <<"C">> \/ Due(todo'[i], Then', at', asked')
      <3>1. \E j \in 1..Len(todo) : todo'[i] = todo[j]
        <4>1. CASE Ends(h)
          <5>1. \A j \in 2..Len(todo) : j \in 1..Len(todo)
            BY <1>6
          <5> QED
            BY <1>3, <1>6, <2>7, <4>1, <5>1
        <4>2. CASE ~ Ends(h)
          BY <1>3, <4>2
        <4> QED
          BY <4>1, <4>2
      <3> QED
        BY <1>13, <2>2, <2>4, <2>7, <3>1
    <2>8. ASSUME NEW k \in 1..m, Live(c2s'[k]), Ends(c2s'[k]), c2s'[k].at.cmd[1] # "D"
          PROVE  todo' = <<>> /\ \A j \in (k + 1)..m : OfBreak(c2s'[j])
      <3>1. k \notin 1..n
        BY <1>1, <1>2, <1>5, <2>1, <2>8 DEF Agreed, n
      <3>2. k = m
        BY <1>5, <3>1
      <3>3. Ends(h) /\ Live(h) /\ Head(todo)[1] # "D"
        BY <1>3, <1>4, <1>5, <2>8, <3>2
      <3>4. Head(todo)[1] # "C"
        <4>1. Head(todo)[1] = "C" => Head(todo) = <<"C">>
          BY <1>6, ContentShape
        <4> QED
          BY <2>5, <3>3, <4>1
      <3>5. ~ (1 < Len(todo))
        BY <1>1, <1>6, <3>3, <3>4 DEF Control
      <3>6. todo' = <<>>
        <4>1. Len(Tail(todo)) = 0
          BY <1>6, <3>5
        <4> QED
          BY <1>3, <1>6, <3>3, <4>1
      <3>7. \A j \in (k + 1)..m : FALSE
        BY <1>3, <3>2
      <3> QED
        BY <3>6, <3>7
    <2>9. s2c' = <<>> \/ (~ TodoLive' /\ \A k \in 1..m : ~ Live(c2s'[k]))
      <3>1. s2c # <<>> => ~ TodoLive /\ \A k \in 1..n : ~ Live(c2s[k])
        BY <1>1, <1>2, <2>1 DEF Agreed, n
      <3> QED
        BY <1>2, <1>5, <1>13, <2>5, <3>1
    <2>10. (\A k \in 1..Len(c2s) : Live(c2s[k]) => Expects(Content(c2s[k])))'
      BY <2>6 DEF Expects, Live, OfBreak, Content, Due, m
    <2>11. (TodoLive => \A i \in 1..Len(todo) : todo[i] = <<"C">> \/ Expects(todo[i]))'
      BY <2>7 DEF Expects, Due
    <2>12. (\A k \in 1..Len(c2s) : Live(c2s[k]) /\ Ends(c2s[k]) /\ c2s[k].at.cmd[1] # "D" =>
              todo = <<>> /\ \A j \in (k + 1)..Len(c2s) : OfBreak(c2s[j]))'
      BY <2>8 DEF Live, OfBreak, Ends, m
    <2>13. (s2c # <<>> => (TodoLive => todo = <<>>) /\ \A k \in 1..Len(c2s) : ~ Live(c2s[k]))'
      BY <2>9 DEF Live, OfBreak, m
    <2> QED
      BY <2>3, <2>10, <2>11, <2>12, <2>13 DEF Agreed
  <1>18. Control'
    <2>1. ASSUME NEW i \in 1..Len(todo'), i < Len(todo')
          PROVE  todo'[i][1] \in {"C", "D"}
      <3>1. \A j \in 1..Len(todo) : j < Len(todo) => todo[j][1] \in {"C", "D"}
        BY <1>1 DEF Control
      <3>2. CASE Ends(h)
        <4>1. todo'[i] = todo[i + 1] /\ i + 1 \in 1..Len(todo) /\ i + 1 < Len(todo)
          BY <1>3, <1>6, <2>1, <3>2
        <4> QED
          BY <3>1, <4>1
      <3>3. CASE ~ Ends(h)
        BY <1>3, <2>1, <3>1, <3>3
      <3> QED
        BY <3>2, <3>3
    <2>2. Confirming' => Confirming
      BY <1>9
    <2> QED
      BY <1>1, <1>2, <1>3, <2>1, <2>2 DEF Control
  <1>19. InTime'
    BY <1>1, <1>2, <1>11 DEF InTime, Interrupted, Expected
  <1> QED
    BY <1>3, <1>12, <1>14, <1>15, <1>16, <1>17, <1>18, <1>19 DEF RemoteInv

-----------------------------------------------------------------------------
(* A reply taken leaves fewer.                                             *)
LEMMA TailShorter ==
  ASSUME NEW S, NEW q \in Seq(S), q # <<>>, NEW n \in Nat, Len(q) <= n
  PROVE  Tail(q) \in Seq(S) /\ Len(Tail(q)) <= n
  OBVIOUS

(* The client goes on: it takes a frame of the server's, or the operator   *)
(* enters something; what it is to send comes later, byte by byte.         *)
LEMMA TalkTypes ==
  ASSUME RTypes,
         UNCHANGED <<c2s, place, server, raced, breaks, accepted, exit_on_HLT>>,
         s2c' = s2c \/ (s2c # <<>> /\ s2c' = Tail(s2c)),
         todo' \in Seq(Contents), at' \in {"prompt", "running", "asking", "halting", "exited"},
         asked' \in Seq(Registers), resume' \in {"", "R", "S", "Q"}, in_console' \in BOOLEAN,
         told' \in {"on", "off"}, wrong' \in BOOLEAN, commands' \in Nat, typed' \in Seq(Keys)
  PROVE  RTypes'
  <1>1. UNCHANGED <<c2s, place, srv, rx, single, trace, stop_at, raced, breaks, accepted, exit_on_HLT>>
    BY DEF server, mode
  <1>2. s2c' \in Seq(Replies) /\ Len(s2c') <= PtyFrames
    <2>1. s2c \in Seq(Replies) /\ Len(s2c) <= PtyFrames
      BY DEF RTypes
    <2>2. CASE s2c' = s2c
      BY <2>1, <2>2
    <2>3. CASE s2c # <<>> /\ s2c' = Tail(s2c)
      BY <2>1, <2>3, TailShorter, RemoteAssumption
    <2> QED
      BY <2>2, <2>3
  <1>3. (/\ c2s \in Seq(Items) /\ place \in Places
         /\ exit_on_HLT \in BOOLEAN
         /\ single \in BOOLEAN /\ trace \in {"on", "off"} /\ stop_at \in BOOLEAN
         /\ raced \in BOOLEAN /\ breaks \in Nat /\ accepted \in Seq(Keys))'
    BY <1>1 DEF RTypes
  <1>4. (/\ srv \in Loop \cup {"idle", "key", "ack", "quit"}
         /\ rx \in Receivers /\ rx.len <= Len(rx.buf)
         /\ srv \in Loop \cup {"key"} => rx.buf # <<>>)'
    BY <1>1 DEF RTypes
  <1> QED
    BY <1>2, <1>3, <1>4 DEF RTypes

(* Between frames, nothing is being confirmed.                             *)
LEMMA Rests ==
  ASSUME RemoteInv, todo = <<>>
  PROVE  /\ place.index = 0 /\ ~ place.cut /\ ~ place.half /\ ~ Confirming
         /\ Confirmed <=> \E k \in 1..Len(c2s) : Revives(c2s[k])
  <1>1. place \in Places /\ PlaceOK(place) /\ ~ place.half /\ ~ (place.index > 0)
    BY DEF RemoteInv, RTypes, LineOK
  <1>2. place.index = 0
    BY <1>1 DEF Places
  <1> QED
    BY <1>1, <1>2 DEF PlaceOK, Confirming, Confirmed

(* A frame taken: the answer to a break is the last one under way, and the *)
(* others belong to what both sides expect.                                *)
LEMMA Taken ==
  ASSUME RemoteInv, todo = <<>>, s2c # <<>>, s2c' = Tail(s2c)
  PROVE  /\ Head(s2c) = s2c[1] /\ Head(s2c) \in Replies /\ Len(s2c) \in Nat /\ Len(s2c) > 0
         /\ Len(s2c') = Len(s2c) - 1
         /\ \A i \in 1..Len(s2c') : s2c'[i] = s2c[i + 1] /\ i + 1 \in 1..Len(s2c)
         /\ Interrupted' => Interrupted
         /\ Head(s2c) = <<"I">> =>
              /\ s2c' = <<>> /\ srv = "ack" /\ ~ Confirmed /\ ~ place.heard
              /\ \A k \in 1..Len(c2s) : ~ Live(c2s[k])
         /\ Head(s2c) # <<"I">> /\ ~ Open => srv = "ack" /\ s2c' # <<>> /\ Interrupted'
         /\ Open => /\ srv # "ack" /\ Then = srv /\ ~ Interrupted'
                    /\ \A k \in 1..Len(c2s) : ~ Live(c2s[k])
  <1>1. /\ RTypes /\ LineOK /\ InStep /\ AckOK /\ HeardOK /\ Agreed /\ Control
    BY DEF RemoteInv
  <1>2. s2c \in Seq(Replies)
    BY <1>1 DEF RTypes
  <1>3. /\ Head(s2c) = s2c[1] /\ Head(s2c) \in Replies /\ Len(s2c) \in Nat /\ Len(s2c) > 0
        /\ Len(s2c') = Len(s2c) - 1
        /\ \A i \in 1..Len(s2c') : s2c'[i] = s2c[i + 1]
    BY <1>2
  <1>4. 1 \in 1..Len(s2c) /\ \A i \in 1..Len(s2c') : i + 1 \in 1..Len(s2c)
    BY <1>3
  <1>5. Interrupted' => Interrupted
    BY <1>3, <1>4 DEF Interrupted
  <1>6. ASSUME Head(s2c) = <<"I">>
        PROVE  /\ s2c' = <<>> /\ srv = "ack" /\ ~ Confirmed /\ ~ place.heard
               /\ \A k \in 1..Len(c2s) : ~ Live(c2s[k])
    <2>1. Interrupted /\ ~ Confirmed /\ Len(s2c) = 1
      BY <1>1, <1>3, <1>4, <1>6 DEF AckOK, Interrupted
    <2>2. s2c' = <<>>
      BY <1>2, <1>3, <2>1
    <2>3. srv = "ack"
      BY <1>1, <2>1 DEF AckOK
    <2>4. \A k \in 1..Len(c2s) : ~ Revives(c2s[k])
      BY <2>1 DEF Confirmed
    <2>5. ~ place.heard
      BY <1>1, <2>3, <2>4 DEF HeardOK
    <2>6. ASSUME NEW k \in 1..Len(c2s), Live(c2s[k]) PROVE FALSE
      <3>1. PICK i \in 1..(k - 1) : Revives(c2s[i])
        BY <1>1, <2>3, <2>6 DEF HeardOK
      <3>2. c2s \in Seq(Items)
        BY <1>1 DEF RTypes
      <3>3. Len(c2s) \in Nat
        BY <3>2
      <3>4. i \in 1..Len(c2s)
        BY <3>3
      <3> QED
        BY <2>4, <3>1, <3>4
    <2> QED
      BY <2>1, <2>2, <2>3, <2>5, <2>6
  <1>7. ASSUME Head(s2c) # <<"I">>, ~ Open
        PROVE  srv = "ack" /\ s2c' # <<>> /\ Interrupted'
    <2>1. srv = "ack" /\ s2c[Len(s2c)] = <<"I">>
      BY <1>1, <1>7 DEF Open, AckOK
    <2>2. Len(s2c) # 1
      BY <1>3, <1>7, <2>1
    <2>3. Len(s2c') \in 1..Len(s2c') /\ Len(s2c') + 1 = Len(s2c)
      BY <1>3, <2>2
    <2>4. s2c'[Len(s2c')] = <<"I">>
      BY <1>3, <2>1, <2>3
    <2>5. s2c' # <<>>
      <3>1. \A n \in 1..0 : FALSE
        OBVIOUS
      <3>2. s2c' = <<>> => Len(s2c') = 0
        OBVIOUS
      <3> QED
        BY <2>3, <3>1, <3>2
    <2> QED
      BY <2>1, <2>3, <2>4, <2>5 DEF Interrupted
  <1>8. ASSUME Open
        PROVE  /\ srv # "ack" /\ Then = srv /\ ~ Interrupted'
               /\ \A k \in 1..Len(c2s) : ~ Live(c2s[k])
    <2>1. srv # "ack"
      <3> SUFFICES ASSUME srv = "ack" PROVE FALSE
        OBVIOUS
      <3>1. Confirmed
        BY <1>8 DEF Open
      <3>2. s2c[Len(s2c)] = <<"I">> /\ Len(s2c) \in 1..Len(s2c)
        <4>1. Len(s2c) \in 1..Len(s2c)
          BY <1>3
        <4> QED
          BY <1>1, <4>1 DEF AckOK
      <3> QED
        BY <1>1, <3>1, <3>2 DEF AckOK
    <2>2. ~ Interrupted'
      BY <1>1, <1>5, <2>1 DEF AckOK
    <2>3. \A k \in 1..Len(c2s) : ~ Live(c2s[k])
      BY <1>1, <1>8 DEF Agreed
    <2> QED
      BY <2>1, <2>2, <2>3 DEF Then
  <1> QED
    BY <1>3, <1>4, <1>5, <1>6, <1>7, <1>8

(* What each of these steps leaves as it was, and what it has to bring.    *)
LEMMA TalkInv ==
  ASSUME RemoteInv, todo = <<>>, UNCHANGED <<c2s, place, server, raced>>, RTypes',
         s2c' = s2c \/ (s2c # <<>> /\ s2c' = Tail(s2c)),
         \A i \in 2..Len(todo') : todo'[i] # <<"C">>,
         todo' # <<>> /\ Head(todo') = <<"C">> =>
           /\ s2c # <<>> /\ Head(s2c) = <<"I">> /\ s2c' = Tail(s2c)
           /\ at' \in {"prompt", "asking"},
         \A i \in 1..Len(todo') : i < Len(todo') => todo'[i][1] \in {"C", "D"},
         at' = "asking" => asked' # <<>>,
         at' \in {"prompt", "halting"} => in_console',
         Open' => /\ Shape'
                  /\ \A k \in 1..Len(c2s) : Live(c2s[k]) =>
                       /\ Due(Content(c2s[k]), Then', at', asked')
                       /\ Ends(c2s[k]) => c2s[k].at.cmd[1] = "D"
                  /\ \A i \in 1..Len(todo') : todo'[i] = <<"C">> \/ Due(todo'[i], Then', at', asked')
                  /\ s2c' # <<>> => todo' = <<>> /\ \A k \in 1..Len(c2s) : ~ Live(c2s[k]),
         ~ raced => /\ ~ wrong'
                    /\ Interrupted' => Expected'
                    /\ srv = "ack" => Interrupted' \/ Confirmed'
                    /\ told' = trace \/ (at' = "asking" /\ asked' = <<"T">>)
  PROVE  RemoteInv'
  <1>1. /\ RTypes /\ LineOK /\ InStep /\ AckOK /\ HeardOK /\ Agreed /\ Control
    BY DEF RemoteInv
  <1>2. /\ srv' = srv /\ rx' = rx /\ trace' = trace /\ c2s' = c2s /\ place' = place /\ raced' = raced
    BY DEF server, mode
  <1>3. /\ place.index = 0 /\ ~ place.cut /\ ~ place.half /\ ~ Confirming
        /\ Confirmed <=> \E k \in 1..Len(c2s) : Revives(c2s[k])
    BY Rests
  <1>4. LineOK' /\ Reached' = Reached
    <2>1. (PlaceOK(place) /\ ~ place.half)'
      BY <1>1, <1>2 DEF LineOK, PlaceOK
    <2>2. (place.index > 0 => todo # <<>> /\ Head(todo) = place.cmd)'
      BY <1>2, <1>3
    <2>3. Chain(c2s, place)
      BY <1>1 DEF LineOK
    <2>4. Chain(c2s', place')
      BY <1>2, <2>3
    <2>5. Chain(c2s, place)'
      BY <2>4 DEF PlaceOK, Chain, ItemOK, OfFrame, Starts, Escapes, Carries, Ends,
        Breaks, BreaksOff
    <2>6. LineOK'
      BY <2>1, <2>2, <2>5 DEF LineOK
    <2> QED
      BY <1>2, <2>6 DEF Reached, Start
  <1>5. InStep'
    BY <1>1, <1>2, <1>4 DEF InStep, Fits
  <1>6. Confirming' <=> todo' # <<>> /\ Head(todo') = <<"C">>
    BY <1>2, <1>3 DEF Confirming
  <1>7. Confirmed' <=> Confirming' \/ \E k \in 1..Len(c2s) : Revives(c2s[k])
    BY <1>2 DEF Confirmed, Revives
  <1>8. Confirming' => /\ s2c' = <<>> /\ srv = "ack" /\ ~ Confirmed /\ ~ place.heard
                       /\ at' \in {"prompt", "asking"}
    BY <1>6, Taken
  <1>9. /\ Interrupted' => Interrupted
        /\ \A i \in 1..Len(s2c') : s2c'[i] = <<"I">> => i = Len(s2c')
        /\ s2c' # <<>> /\ srv = "ack" => s2c'[Len(s2c')] = <<"I">>
    <2>1. CASE s2c' = s2c
      BY <1>1, <2>1 DEF AckOK, Interrupted
    <2>2. CASE s2c # <<>> /\ s2c' = Tail(s2c)
      <3>1. /\ Len(s2c) \in Nat /\ Len(s2c') = Len(s2c) - 1
            /\ \A i \in 1..Len(s2c') : s2c'[i] = s2c[i + 1] /\ i + 1 \in 1..Len(s2c)
            /\ Interrupted' => Interrupted
        BY <2>2, Taken
      <3>2. \A i \in 1..Len(s2c') : s2c'[i] = <<"I">> => i = Len(s2c')
        <4>1. \A i \in 1..Len(s2c') : s2c'[i] = <<"I">> => i + 1 = Len(s2c)
          BY <1>1, <3>1 DEF AckOK
        <4> QED
          BY <3>1, <4>1
      <3>3. ASSUME s2c' # <<>>, srv = "ack"
            PROVE  s2c'[Len(s2c')] = <<"I">>
        <4>1. s2c' \in Seq(Replies)
          BY DEF RTypes
        <4>2. Len(s2c') \in 1..Len(s2c') /\ Len(s2c') + 1 = Len(s2c)
          BY <3>1, <3>3, <4>1
        <4> QED
          BY <1>1, <2>2, <3>1, <3>3, <4>2 DEF AckOK
      <3> QED
        BY <3>1, <3>2, <3>3
    <2> QED
      BY <2>1, <2>2
  <1>10. AckOK'
    <2>1. srv' # "ack" => ~ Confirmed' /\ ~ Interrupted'
      BY <1>1, <1>2, <1>3, <1>7, <1>8, <1>9 DEF AckOK
    <2>2. ASSUME NEW i \in 1..Len(s2c'), s2c'[i] = <<"I">>
          PROVE  ~ Confirmed' /\ i = Len(s2c')
      <3>1. Interrupted' /\ s2c' # <<>>
        <4>1. s2c' = <<>> => Len(s2c') = 0
          OBVIOUS
        <4> QED
          BY <2>2, <4>1 DEF Interrupted
      <3>2. ~ Confirmed
        BY <1>1, <1>9, <3>1 DEF AckOK, Interrupted
      <3> QED
        BY <1>3, <1>7, <1>8, <1>9, <2>2, <3>1, <3>2
    <2>3. \A j, k \in 1..Len(c2s) : Revives(c2s[j]) /\ Revives(c2s[k]) => j = k
      BY <1>1 DEF AckOK
    <2>4. \A k \in 1..Len(c2s) : Revives(c2s[k]) => ~ Confirming'
      BY <1>3, <1>8
    <2>5. todo' # <<>> /\ Head(todo') = <<"C">> => ~ place'.heard
      BY <1>2, <1>6, <1>8
    <2>6. \A k \in 1..Len(c2s) :
            ~ OfBreak(c2s[k]) /\ Content(c2s[k]) = <<"C">> => ~ c2s[k].at.heard
      BY <1>1 DEF AckOK
    <2>7. (/\ \A j, k \in 1..Len(c2s) : Revives(c2s[j]) /\ Revives(c2s[k]) => j = k
           /\ \A k \in 1..Len(c2s) : Revives(c2s[k]) => ~ Confirming
           /\ \A k \in 1..Len(c2s) :
                ~ OfBreak(c2s[k]) /\ Content(c2s[k]) = <<"C">> => ~ c2s[k].at.heard)'
      BY <1>2, <2>3, <2>4, <2>6 DEF Revives, OfBreak, Content
    <2> QED
      BY <1>2, <1>9, <2>1, <2>2, <2>5, <2>7 DEF AckOK
  <1>11. HeardOK'
    BY <1>1, <1>2 DEF HeardOK
  <1>12. Agreed'
    <2> SUFFICES ASSUME Open'
                 PROVE  Agreed'
      BY DEF Agreed
    <2>1. (\A k \in 1..Len(c2s) : Live(c2s[k]) => Expects(Content(c2s[k])))'
      BY <1>2 DEF Expects, Live, OfBreak, Content, Due
    <2>2. (TodoLive => \A i \in 1..Len(todo) : todo[i] = <<"C">> \/ Expects(todo[i]))'
      BY DEF Expects, Due
    <2>3. (\A k \in 1..Len(c2s) : Live(c2s[k]) /\ Ends(c2s[k]) /\ c2s[k].at.cmd[1] # "D" =>
             todo = <<>> /\ \A j \in (k + 1)..Len(c2s) : OfBreak(c2s[j]))'
      BY <1>2 DEF Live, OfBreak, Ends
    <2>4. (s2c # <<>> => (TodoLive => todo = <<>>) /\ \A k \in 1..Len(c2s) : ~ Live(c2s[k]))'
      BY <1>2 DEF Live, OfBreak
    <2> QED
      BY <2>1, <2>2, <2>3, <2>4 DEF Agreed
  <1>13. Control'
    BY <1>1, <1>2, <1>4, <1>8 DEF Control
  <1>14. InTime'
    BY <1>2 DEF InTime
  <1> QED
    BY <1>4, <1>5, <1>10, <1>11, <1>12, <1>13, <1>14 DEF RemoteInv

(* The frames about registers.                                             *)
LEMMA RegsContents ==
  /\ Regs \in Seq(Registers) /\ Regs # <<>> /\ Head(Regs) \in Registers
  /\ \A i \in 1..Len(Regs) : Regs[i] \in Registers /\ Regs[i] # "T"
  /\ \A reg \in Registers : Examine(reg) \in Contents /\ Deposit(reg) \in Contents
  /\ \A reg \in Registers : <<reg>> \in Seq(Registers) /\ <<reg>> # <<>> /\ Head(<<reg>>) = reg
  /\ "T" \in Registers
  <1>1. Regs \in Seq(Range(Regs)) /\ Regs # <<>> /\ "T" \notin Range(Regs)
    BY RemoteAssumption
  <1>2. Range(Regs) \subseteq Registers /\ "T" \in Registers
    BY DEF Registers
  <1> DEFINE S == Range(Regs)
  <1> HIDE DEF S
  <1>3. Regs \in Seq(S) /\ Regs # <<>> /\ "T" \notin S /\ S \subseteq Registers
    BY <1>1, <1>2 DEF S
  <1>4. \A i \in 1..Len(Regs) : Regs[i] \in S
    BY <1>3
  <1>5. Head(Regs) \in S
    BY <1>3
  <1>6. Regs \in Seq(Registers)
    BY <1>3
  <1>7. \A reg \in Registers : Examine(reg) \in Contents /\ Deposit(reg) \in Contents
    BY DEF Contents
  <1>8. \A reg \in Registers : <<reg>> \in Seq(Registers) /\ <<reg>> # <<>> /\ Head(<<reg>>) = reg
    OBVIOUS
  <1> QED
    BY <1>2, <1>3, <1>4, <1>5, <1>6, <1>7, <1>8

(* Short sequences of frames.                                              *)
LEMMA NoFrames ==
  ASSUME NEW q, q = <<>> PROVE \A i \in 1..Len(q) : FALSE
  OBVIOUS

LEMMA Counts ==
  ASSUME NEW n \in Nat PROVE n + 1 \in Nat
  OBVIOUS

LEMMA SomeFrames ==
  ASSUME NEW S, NEW q \in Seq(S)
  PROVE  /\ \A i \in 2..Len(q) : i \in 1..Len(q)
         /\ q # <<>> => Head(q) = q[1] /\ 1 \in 1..Len(q)
  OBVIOUS

(* A 'C' is no frame that a running server expects.                        *)
LEMMA NoConfirmation ==
  ASSUME NEW cmd, NEW s, NEW where, NEW regs, Due(cmd, s, where, regs)
  PROVE  cmd # <<"C">>
  <1> SUFFICES ASSUME cmd = <<"C">> PROVE FALSE
    OBVIOUS
  <1>1. cmd[1] = "C"
    OBVIOUS
  <1>2. cmd # Examine(Head(regs)) /\ cmd \notin {<<"R">>, <<"S">>} /\ cmd # <<"Q">>
    <2>1. Examine(Head(regs))[1] = "E" /\ <<"R">>[1] = "R" /\ <<"S">>[1] = "S" /\ <<"Q">>[1] = "Q"
      BY DEF Examine
    <2> QED
      BY <1>1, <2>1
  <1> QED
    BY <1>1, <1>2 DEF Due

LEMMA OneOf ==
  ASSUME NEW S, NEW x \in S, NEW q, q = <<x>>
  PROVE  /\ q \in Seq(S) /\ q # <<>> /\ Head(q) = x /\ Tail(q) = <<>>
         /\ \A i \in 1..Len(q) : q[i] = x
         /\ \A i \in 2..Len(q) : FALSE
         /\ \A i \in 1..Len(q) : ~ (i < Len(q))
  OBVIOUS

LEMMA TwoOf ==
  ASSUME NEW S, NEW x \in S, NEW y \in S, NEW q, q = <<x, y>>
  PROVE  /\ q \in Seq(S) /\ q # <<>> /\ Head(q) = x
         /\ \A i \in 1..Len(q) : q[i] = x \/ q[i] = y
         /\ \A i \in 2..Len(q) : q[i] = y
         /\ \A i \in 1..Len(q) : i < Len(q) => q[i] = x
  OBVIOUS

(* A command at the prompt: no reply is under way, and nothing but         *)
(* deposits to the machine.                                                *)
LEMMA AtPrompt ==
  ASSUME RemoteInv, at = "prompt", todo = <<>>
  PROVE  /\ Open => /\ Then = "idle" /\ s2c = <<>>
                    /\ \A k \in 1..Len(c2s) : Live(c2s[k]) =>
                         /\ Content(c2s[k])[1] = "D" /\ Content(c2s[k]) # Deposit("T")
                         /\ Ends(c2s[k]) => c2s[k].at.cmd[1] = "D"
         /\ ~ raced => /\ ~ wrong /\ ~ Interrupted /\ told = trace
                       /\ srv = "ack" => Confirmed
  <1>1. /\ RTypes /\ LineOK /\ Agreed /\ InTime
    BY DEF RemoteInv
  <1>2. ~ Expected
    BY DEF Expected
  <1>3. ~ raced => /\ ~ wrong /\ ~ Interrupted /\ told = trace
                   /\ srv = "ack" => Confirmed
    BY <1>1, <1>2 DEF InTime
  <1>4. ASSUME Open
        PROVE  /\ Then = "idle" /\ s2c = <<>>
               /\ \A k \in 1..Len(c2s) : Live(c2s[k]) =>
                    /\ Content(c2s[k])[1] = "D" /\ Content(c2s[k]) # Deposit("T")
                    /\ Ends(c2s[k]) => c2s[k].at.cmd[1] = "D"
    <2>1. Shape
      BY <1>1, <1>4 DEF Agreed
    <2>2. Then \in Loop \cup {"idle", "key", "quit"}
      BY <1>1 DEF RTypes, Then
    <2>3. Then = "idle" /\ s2c = <<>>
      BY <2>1, <2>2 DEF Shape
    <2>4. ASSUME NEW k \in 1..Len(c2s), Live(c2s[k])
          PROVE  Content(c2s[k])[1] = "D" /\ Content(c2s[k]) # Deposit("T")
      <3>1. Expects(Content(c2s[k]))
        BY <1>1, <1>4, <2>4 DEF Agreed
      <3> QED
        BY <2>3, <3>1 DEF Expects, Due
    <2>5. ASSUME NEW k \in 1..Len(c2s), Ends(c2s[k])
          PROVE  Content(c2s[k]) = c2s[k].at.cmd
      BY <2>5 DEF Ends, Content
    <2> QED
      BY <2>3, <2>4, <2>5
  <1> QED
    BY <1>3, <1>4

(* The operator enters what sends commands, all of them expected.          *)
LEMMA EntersInv ==
  ASSUME RemoteInv, NEW command, Enter(command), UNCHANGED <<c2s, place>>,
         todo' \in Seq(Contents), at' \in {"prompt", "running", "asking"},
         asked' \in Seq(Registers), resume' \in {"", "R", "S", "Q"}, in_console' \in BOOLEAN,
         \A i \in 1..Len(todo') : Due(todo'[i], "idle", at', asked'),
         \A i \in 1..Len(todo') : i < Len(todo') => todo'[i][1] = "D",
         at' = "asking" => asked' # <<>>, at' = "prompt" => in_console'
  PROVE  RemoteInv'
  <1>1. /\ RTypes /\ at = "prompt" /\ todo = <<>> /\ commands \in Nat /\ commands' = commands + 1
        /\ UNCHANGED <<s2c, told, wrong, exit_on_HLT, server, raced, breaks, typed, accepted>>
    BY DEF RemoteInv, Enter, RTypes
  <1>2. RTypes'
    <2>1. told' \in {"on", "off"} /\ wrong' \in BOOLEAN /\ typed' \in Seq(Keys)
      BY <1>1 DEF RTypes
    <2>2. commands' \in Nat
      BY <1>1, Counts
    <2> QED
      BY <1>1, <2>1, <2>2, TalkTypes
  <1>3. srv' = srv /\ trace' = trace /\ s2c' = s2c
    BY <1>1 DEF server, mode
  <1>4. \A i \in 1..Len(todo') : todo'[i] # <<"C">>
    <2>1. \A cmd : Due(cmd, "idle", at', asked') => cmd # <<"C">>
      BY NoConfirmation
    <2> QED
      BY <2>1
  <1>5. /\ \A i \in 2..Len(todo') : todo'[i] # <<"C">>
        /\ todo' # <<>> => Head(todo') # <<"C">>
    <2>1. /\ \A i \in 2..Len(todo') : i \in 1..Len(todo')
          /\ todo' # <<>> => Head(todo') = todo'[1] /\ 1 \in 1..Len(todo')
      BY SomeFrames
    <2> QED
      BY <1>4, <2>1
  <1>6. Confirmed' <=> Confirmed
    <2>1. ~ Confirming' /\ ~ Confirming
      BY <1>1, <1>5 DEF Confirming
    <2> QED
      BY <2>1 DEF Confirmed, Revives
  <1>7. ASSUME Open'
        PROVE  /\ Shape'
               /\ \A k \in 1..Len(c2s) : Live(c2s[k]) =>
                    /\ Due(Content(c2s[k]), Then', at', asked')
                    /\ Ends(c2s[k]) => c2s[k].at.cmd[1] = "D"
               /\ \A i \in 1..Len(todo') : todo'[i] = <<"C">> \/ Due(todo'[i], Then', at', asked')
               /\ s2c' # <<>> => todo' = <<>> /\ \A k \in 1..Len(c2s) : ~ Live(c2s[k])
    <2>1. Open /\ Then' = Then
      BY <1>3, <1>6, <1>7 DEF Open, Then
    <2>2. /\ Then' = "idle" /\ s2c' = <<>>
          /\ \A k \in 1..Len(c2s) : Live(c2s[k]) =>
               /\ Content(c2s[k])[1] = "D" /\ Content(c2s[k]) # Deposit("T")
               /\ Ends(c2s[k]) => c2s[k].at.cmd[1] = "D"
      BY <1>1, <1>3, <2>1, AtPrompt
    <2>3. Shape'
      <3>1. \A last : Queue(last)'
        <4>1. \A i \in 1..Len(s2c') : FALSE
          BY <2>2, NoFrames
        <4> QED
          BY <4>1 DEF Queue
      <3>2. Then' \notin Loop \cup {"key", "quit"}
        BY <2>2 DEF Loop
      <3>3. (Then = "idle" /\ at = "running" => Queue(Ender))'
        BY <3>1
      <3>4. (/\ Then = "idle" /\ at = "asking" /\ s2c # <<>> => s2c = <<Value(Head(asked))>>
             /\ Then = "idle" /\ at \notin {"running", "asking"} => s2c = <<>>)'
        BY <2>2
      <3> QED
        BY <2>2, <3>2, <3>3, <3>4 DEF Shape
    <2>4. \A k \in 1..Len(c2s) : Live(c2s[k]) => Due(Content(c2s[k]), Then', at', asked')
      BY <2>2 DEF Due
    <2> QED
      BY <2>2, <2>3, <2>4
  <1>8. ASSUME ~ raced
        PROVE  /\ ~ wrong'
               /\ Interrupted' => Expected'
               /\ srv = "ack" => Interrupted' \/ Confirmed'
               /\ told' = trace \/ (at' = "asking" /\ asked' = <<"T">>)
    BY <1>1, <1>6, <1>8, AtPrompt DEF Interrupted
  <1>9. \A i \in 1..Len(todo') : i < Len(todo') => todo'[i][1] \in {"C", "D"}
    OBVIOUS
  <1>10. at' \in {"prompt", "halting"} => in_console'
    OBVIOUS
  <1>11. UNCHANGED <<c2s, place, server, raced>>
    BY <1>1
  <1> QED
    BY <1>1, <1>2, <1>3, <1>5, <1>7, <1>8, <1>9, <1>10, <1>11, TalkInv

(* One command and one examine, or only one of them.                       *)
LEMMA EnterInv ==
  ASSUME RemoteInv, EnterRun \/ EnterStep \/ EnterExamine \/ EnterSave \/ EnterTrace \/ EnterExit
  PROVE  RemoteInv'
  <1>1. /\ RTypes /\ Control
    BY DEF RemoteInv
  <1>2. in_console \in BOOLEAN /\ asked \in Seq(Registers)
    BY <1>1 DEF RTypes
  <1>3. CASE EnterRun
    <2>1. /\ Enter("run") /\ at' = "running" /\ in_console' = FALSE /\ resume' = "R" /\ asked' = asked
          /\ todo' = << <<"R">> >> /\ UNCHANGED <<c2s, place>>
      BY <1>3 DEF EnterRun, Frames
    <2>2. <<"R">> \in Contents /\ Due(<<"R">>, "idle", at', asked')
      BY <2>1 DEF Contents, Due
    <2>3. todo' \in Seq(Contents) /\ \A i \in 1..Len(todo') : todo'[i] = <<"R">> /\ ~ (i < Len(todo'))
      BY <2>1, <2>2, OneOf
    <2>4. \A i \in 1..Len(todo') : Due(todo'[i], "idle", at', asked')
      BY <2>2, <2>3
    <2>5. \A i \in 1..Len(todo') : i < Len(todo') => todo'[i][1] = "D"
      BY <2>3
    <2>6. /\ at' \in {"prompt", "running", "asking"} /\ asked' \in Seq(Registers)
          /\ resume' \in {"", "R", "S", "Q"} /\ in_console' \in BOOLEAN
          /\ at' = "asking" => asked' # <<>>
          /\ at' = "prompt" => in_console'
      BY <1>2, <2>1
    <2> QED
      BY <2>1, <2>3, <2>4, <2>5, <2>6, EntersInv
  <1>4. ASSUME NEW command, NEW regs \in Seq(Registers), NEW next \in {"", "R", "S", "Q"},
               Enter(command), Ask(regs, next), Frames(<<Examine(Head(regs))>>), regs # <<>>
        PROVE  RemoteInv'
    <2>1. /\ at' = "asking" /\ in_console' = in_console /\ resume' = next /\ asked' = regs
          /\ todo' = <<Examine(Head(regs))>> /\ UNCHANGED <<c2s, place>>
      BY <1>4 DEF Ask, Frames
    <2>2. Examine(Head(regs)) \in Contents /\ Due(Examine(Head(regs)), "idle", at', asked')
      <3>1. Head(regs) \in Registers
        BY <1>4, HeadTailProperties
      <3> QED
        BY <2>1, <3>1, RegsContents DEF Due
    <2>3. /\ todo' \in Seq(Contents)
          /\ \A i \in 1..Len(todo') : todo'[i] = Examine(Head(regs)) /\ ~ (i < Len(todo'))
      BY <2>1, <2>2, OneOf
    <2>4. \A i \in 1..Len(todo') : Due(todo'[i], "idle", at', asked')
      BY <2>2, <2>3
    <2>5. \A i \in 1..Len(todo') : i < Len(todo') => todo'[i][1] = "D"
      BY <2>3
    <2>6. /\ at' \in {"prompt", "running", "asking"} /\ asked' \in Seq(Registers)
          /\ resume' \in {"", "R", "S", "Q"} /\ in_console' \in BOOLEAN
          /\ at' = "asking" => asked' # <<>>
          /\ at' = "prompt" => in_console'
      BY <1>2, <1>4, <2>1
    <2> QED
      BY <1>4, <2>1, <2>3, <2>4, <2>5, <2>6, EntersInv
  <1>5. CASE EnterStep
    BY <1>4, <1>5, RegsContents DEF EnterStep
  <1>6. CASE EnterExamine
    <2>1. <<Head(Regs)>> \in Seq(Registers) /\ <<Head(Regs)>> # <<>> /\ Head(<<Head(Regs)>>) = Head(Regs)
      BY RegsContents
    <2> QED
      BY <1>4, <1>6, <2>1 DEF EnterExamine
  <1>7. CASE EnterSave
    BY <1>4, <1>7, RegsContents DEF EnterSave
  <1>8. CASE EnterExit
    BY <1>4, <1>8, RegsContents DEF EnterExit
  <1>9. CASE EnterTrace
    <2>1. /\ Enter("trace") /\ at' = "asking" /\ in_console' = in_console /\ resume' = ""
          /\ asked' = <<"T">> /\ todo' = <<Deposit("T"), Examine("T")>> /\ UNCHANGED <<c2s, place>>
      BY <1>9 DEF EnterTrace, Frames, Ask
    <2>2. /\ Deposit("T") \in Contents /\ Examine("T") \in Contents
          /\ <<"T">> \in Seq(Registers) /\ <<"T">> # <<>> /\ Head(<<"T">>) = "T"
      BY RegsContents
    <2>3. /\ Due(Deposit("T"), "idle", at', asked') /\ Due(Examine("T"), "idle", at', asked')
          /\ Deposit("T")[1] = "D"
      BY <2>1, <2>2 DEF Due, Deposit
    <2>4. /\ todo' \in Seq(Contents)
          /\ \A i \in 1..Len(todo') : todo'[i] = Deposit("T") \/ todo'[i] = Examine("T")
          /\ \A i \in 1..Len(todo') : i < Len(todo') => todo'[i] = Deposit("T")
      <3> DEFINE x == Deposit("T")
                 y == Examine("T")
      <3>1. x \in Contents /\ y \in Contents /\ todo' = <<x, y>>
        BY <2>1, <2>2
      <3> HIDE DEF x, y
      <3>2. /\ todo' \in Seq(Contents)
            /\ \A i \in 1..Len(todo') : todo'[i] = x \/ todo'[i] = y
            /\ \A i \in 1..Len(todo') : i < Len(todo') => todo'[i] = x
        BY <3>1, TwoOf
      <3> QED
        BY <3>2 DEF x, y
    <2>5. \A i \in 1..Len(todo') : Due(todo'[i], "idle", at', asked')
      BY <2>3, <2>4
    <2>6. \A i \in 1..Len(todo') : i < Len(todo') => todo'[i][1] = "D"
      BY <2>3, <2>4
    <2>7. /\ at' \in {"prompt", "running", "asking"} /\ asked' \in Seq(Registers)
          /\ resume' \in {"", "R", "S", "Q"} /\ in_console' \in BOOLEAN
          /\ at' = "asking" => asked' # <<>>
          /\ at' = "prompt" => in_console'
      BY <1>2, <2>1, <2>2
    <2> QED
      BY <2>1, <2>4, <2>5, <2>6, <2>7, EntersInv
  <1> QED
    BY <1>3, <1>5, <1>6, <1>7, <1>8, <1>9

(* A deposit for each register.                                            *)
LEMMA EnterRestoreInv ==
  ASSUME RemoteInv, EnterRestore
  PROVE  RemoteInv'
  <1>1. /\ RTypes /\ Control
    BY DEF RemoteInv
  <1>2. /\ Enter("restore") /\ UNCHANGED <<c2s, place, at, asked, resume, in_console>>
        /\ todo' = [i \in 1..Len(Regs) |-> Deposit(Regs[i])] /\ at = "prompt"
    BY DEF EnterRestore, Frames, Enter
  <1>3. Len(Regs) \in Nat /\ \A i \in 1..Len(Regs) : Deposit(Regs[i]) \in Contents
    BY RegsContents, LenProperties
  <1>4. todo' \in Seq(Contents) /\ Len(todo') = Len(Regs) /\ \A i \in 1..Len(todo') : todo'[i] = Deposit(Regs[i])
    BY <1>2, <1>3
  <1>5. \A reg : reg # "T" => Due(Deposit(reg), "idle", at', asked') /\ Deposit(reg)[1] = "D"
    BY DEF Due, Deposit
  <1>6. \A i \in 1..Len(todo') : Due(todo'[i], "idle", at', asked') /\ todo'[i][1] = "D"
    BY <1>4, <1>5, RegsContents
  <1>7. /\ at' \in {"prompt", "running", "asking"} /\ asked' \in Seq(Registers)
        /\ resume' \in {"", "R", "S", "Q"} /\ in_console' \in BOOLEAN
        /\ at' = "asking" => asked' # <<>>
        /\ at' = "prompt" => in_console'
    BY <1>1, <1>2 DEF RTypes, Control
  <1> QED
    BY <1>2, <1>4, <1>6, <1>7, EntersInv

(* A break is sent: the types.                                             *)
LEMMA BreakTypes ==
  ASSUME RTypes, LineOK, SendBreak,
         UNCHANGED <<s2c, todo, asked, resume, in_console, told, wrong, exit_on_HLT, server>>,
         UNCHANGED <<typed, accepted>>,
         at' \in {"prompt", "running", "asking", "halting", "exited"}, raced' \in BOOLEAN,
         breaks' \in Nat, commands' \in Nat
  PROVE  RTypes'
  <1>1. UNCHANGED <<srv, rx, single, trace, stop_at>>
    BY DEF server, mode
  <1>2. c2s' \in Seq(Items)
    BY SendBreakLine
  <1>3. place' \in Places
    <2>1. place' = InBreak(Len(ConsoleBreak)) /\ place \in Places
      BY DEF SendBreak, RTypes
    <2>2. Len(ConsoleBreak) = 2
      BY DEF ConsoleBreak
    <2>3. InBreak(2) = [place EXCEPT !.cut = place.index > 0, !.heard = FALSE]
      BY <2>2 DEF InBreak
    <2> DEFINE cut == place.index > 0
    <2>4. cut \in BOOLEAN
      OBVIOUS
    <2>5. place' = [place EXCEPT !.cut = cut, !.heard = FALSE]
      BY <2>1, <2>2, <2>3
    <2> HIDE DEF cut
    <2> QED
      BY <2>1, <2>4, <2>5 DEF Places
  <1>4. (/\ s2c \in Seq(Replies) /\ todo \in Seq(Contents) /\ Len(s2c) <= PtyFrames)'
    BY DEF RTypes
  <1>5. (/\ asked \in Seq(Registers) /\ resume \in {"", "R", "S", "Q"}
         /\ in_console \in BOOLEAN /\ told \in {"on", "off"} /\ wrong \in BOOLEAN
         /\ exit_on_HLT \in BOOLEAN /\ typed \in Seq(Keys) /\ accepted \in Seq(Keys))'
    BY DEF RTypes
  <1>6. (/\ single \in BOOLEAN /\ trace \in {"on", "off"} /\ stop_at \in BOOLEAN
         /\ srv \in Loop \cup {"idle", "key", "ack", "quit"}
         /\ rx \in Receivers /\ rx.len <= Len(rx.buf)
         /\ srv \in Loop \cup {"key"} => rx.buf # <<>>)'
    BY <1>1 DEF RTypes
  <1> QED
    BY <1>2, <1>3, <1>4, <1>5, <1>6 DEF RTypes

(* SIGINT, whatever the client is doing.                                   *)
LEMMA SigintInv ==
  ASSUME RemoteInv, Sigint
  PROVE  RemoteInv'
  <1>1. /\ RTypes /\ LineOK /\ AckOK /\ Control /\ InTime
    BY DEF RemoteInv
  <1>2. /\ SendBreak /\ breaks' = breaks + 1 /\ commands' = commands
        /\ raced' = (raced \/ at # "running")
        /\ UNCHANGED <<s2c, at, todo, asked, resume, in_console, told, wrong, exit_on_HLT, server>>
        /\ UNCHANGED <<typed, accepted>>
    BY DEF Sigint
  <1>3. RTypes'
    <2>1. breaks' \in Nat
      <3>1. breaks \in Nat
        BY <1>1 DEF RTypes
      <3> QED
        BY <1>2, <3>1, Counts
    <2>2. commands' \in Nat /\ raced' \in BOOLEAN
          /\ at' \in {"prompt", "running", "asking", "halting", "exited"}
      BY <1>1, <1>2 DEF RTypes
    <2> QED
      BY <1>1, <1>2, <2>1, <2>2, BreakTypes
  <1>4. Open => Shape' /\ \A cmd \in Contents : Expects(cmd) => Due(cmd, Then, at', asked)
    <2>1. srv' = srv /\ s2c' = s2c /\ at' = at /\ asked' = asked /\ trace' = trace
      BY <1>2 DEF server, mode
    <2>2. Open => Shape
      BY DEF RemoteInv, Agreed
    <2>3. Shape => Shape'
      BY <2>1 DEF Shape, Then, Queue, Value
    <2> QED
      BY <1>2, <2>2, <2>3 DEF Expects
  <1>5. Control => (at = "asking" => asked # <<>>)' /\ (at \in {"prompt", "halting"} => in_console)'
    BY <1>2 DEF Control
  <1>6. Confirming => at' \in {"prompt", "asking"}
    BY <1>1, <1>2 DEF Control
  <1>7. ASSUME ~ raced'
        PROVE  /\ ~ wrong' /\ (Interrupted => Expected')
               /\ srv = "ack" => Interrupted \/ (Confirmed /\ ~ Confirming)
               /\ told' = trace \/ (at' = "asking" /\ asked = <<"T">>)
    <2>1. ~ raced /\ at = "running"
      BY <1>2, <1>7
    <2>2. ~ Confirming
      BY <1>1, <2>1 DEF Control
    <2>3. Expected => Expected'
      BY <1>2 DEF Expected
    <2> QED
      BY <1>1, <1>2, <2>1, <2>2, <2>3 DEF InTime
  <1> QED
    BY <1>2, <1>3, <1>4, <1>5, <1>6, <1>7, SendBreakInv

(* machine_halt: the same from the prompt.                                 *)
LEMMA EnterHaltInv ==
  ASSUME RemoteInv, EnterHalt
  PROVE  RemoteInv'
  <1>1. /\ RTypes /\ LineOK /\ AckOK /\ Control /\ InTime
    BY DEF RemoteInv
  <1>2. /\ SendBreak /\ commands' = commands + 1 /\ at = "prompt" /\ at' = "halting" /\ todo = <<>>
        /\ UNCHANGED <<s2c, todo, asked, resume, in_console, told, wrong, exit_on_HLT, server>>
        /\ UNCHANGED <<typed, accepted, raced, breaks>>
    BY DEF EnterHalt, Enter
  <1>3. RTypes'
    <2>1. commands' \in Nat
      <3>1. commands \in Nat
        BY <1>1 DEF RTypes
      <3> QED
        BY <1>2, <3>1, Counts
    <2>2. breaks' \in Nat /\ raced' \in BOOLEAN
          /\ at' \in {"prompt", "running", "asking", "halting", "exited"}
      BY <1>1, <1>2 DEF RTypes
    <2> QED
      BY <1>1, <1>2, <2>1, <2>2, BreakTypes
  <1>4. ASSUME Open
        PROVE  Shape' /\ \A cmd \in Contents : Expects(cmd) => Due(cmd, Then, at', asked)
    <2>1. Then = "idle" /\ s2c = <<>>
      BY <1>2, <1>4, AtPrompt
    <2>2. Then' = "idle" /\ s2c' = <<>>
      BY <1>2, <2>1 DEF Then, server
    <2>3. Shape'
      <3>1. Then' \notin Loop \cup {"key", "quit"}
        BY <2>2 DEF Loop
      <3> QED
        BY <1>2, <2>2, <3>1 DEF Shape
    <2>4. \A cmd \in Contents : Expects(cmd) => Due(cmd, Then, at', asked)
      BY <1>2 DEF Expects, Due
    <2> QED
      BY <2>3, <2>4
  <1>5. ~ Confirming
    BY <1>2 DEF Confirming
  <1>6. Control => (at = "asking" => asked # <<>>)' /\ (at \in {"prompt", "halting"} => in_console)'
    BY <1>2 DEF Control
  <1>7. ASSUME ~ raced'
        PROVE  /\ ~ wrong' /\ (Interrupted => Expected')
               /\ srv = "ack" => Interrupted \/ (Confirmed /\ ~ Confirming)
               /\ told' = trace \/ (at' = "asking" /\ asked = <<"T">>)
    BY <1>2, <1>5, <1>7, AtPrompt
  <1> QED
    BY <1>2, <1>3, <1>4, <1>5, <1>6, <1>7, SendBreakInv

-----------------------------------------------------------------------------
(* A reply taken: the answer to a break while the server waits for the     *)
(* 'C'; something older before it, that changes nothing; or what the       *)
(* server, running on, has sent.                                           *)
LEMMA ReplyInv ==
  ASSUME RemoteInv, todo = <<>>, s2c # <<>>, s2c' = Tail(s2c),
         UNCHANGED <<c2s, place, server, raced>>, RTypes',
         \A i \in 2..Len(todo') : todo'[i] # <<"C">>,
         todo' # <<>> /\ Head(todo') = <<"C">> =>
           Head(s2c) = <<"I">> /\ at' \in {"prompt", "asking"},
         \A i \in 1..Len(todo') : i < Len(todo') => todo'[i][1] \in {"C", "D"},
         at' = "asking" => asked' # <<>>,
         at' \in {"prompt", "halting"} => in_console',
         todo' # <<>> /\ Head(todo') = <<"C">> =>
           \A i \in 1..Len(todo') : todo'[i] = <<"C">> \/ Due(todo'[i], "idle", at', asked'),
         Open => /\ Shape'
                 /\ \A i \in 1..Len(todo') : todo'[i] = <<"C">> \/ Due(todo'[i], Then, at', asked')
                 /\ s2c' # <<>> => todo' = <<>>,
         ~ raced => /\ ~ wrong'
                    /\ Head(s2c) = <<"I">> => todo' # <<>> /\ Head(todo') = <<"C">>
                    /\ Head(s2c) # <<"I">> /\ ~ Open => Expected'
                    /\ told' = trace \/ (at' = "asking" /\ asked' = <<"T">>)
  PROVE  RemoteInv'
  <1>1. srv' = srv /\ c2s' = c2s /\ place' = place
    BY DEF server
  <1>2. /\ ~ place.cut /\ ~ Confirming
        /\ Confirmed <=> \E k \in 1..Len(c2s) : Revives(c2s[k])
    BY Rests
  <1>3. /\ Confirming' <=> todo' # <<>> /\ Head(todo') = <<"C">>
        /\ Confirmed' <=> Confirming' \/ Confirmed
    BY <1>1, <1>2 DEF Confirming, Confirmed, Revives
  <1>4. /\ Head(s2c) = <<"I">> =>
             /\ s2c' = <<>> /\ srv = "ack" /\ ~ Confirmed
             /\ \A k \in 1..Len(c2s) : ~ Live(c2s[k])
        /\ Head(s2c) # <<"I">> /\ ~ Open => srv = "ack" /\ s2c' # <<>> /\ Interrupted'
        /\ Open => /\ srv # "ack" /\ Then = srv /\ ~ Interrupted'
                   /\ \A k \in 1..Len(c2s) : ~ Live(c2s[k])
    BY Taken
  <1>5. ASSUME Open'
        PROVE  /\ Shape'
               /\ \A k \in 1..Len(c2s) : ~ Live(c2s[k])
               /\ \A i \in 1..Len(todo') : todo'[i] = <<"C">> \/ Due(todo'[i], Then', at', asked')
               /\ s2c' # <<>> => todo' = <<>>
    <2>1. CASE Open
      <3>1. Then' = Then
        BY <1>1 DEF Then
      <3> QED
        BY <1>4, <2>1, <3>1
    <2>2. CASE ~ Open
      <3>1. srv = "ack" /\ ~ Confirmed
        BY <2>2 DEF Open
      <3>2. Confirming' /\ Then' = "idle"
        BY <1>1, <1>3, <1>5, <3>1 DEF Open, Then
      <3>3. Head(s2c) = <<"I">> /\ at' \in {"prompt", "asking"}
        BY <1>3, <3>2
      <3>4. s2c' = <<>> /\ \A k \in 1..Len(c2s) : ~ Live(c2s[k])
        BY <1>4, <3>3
      <3>5. Shape'
        <4>1. Then' \notin Loop \cup {"key", "quit"}
          BY <3>2 DEF Loop
        <4> QED
          BY <3>2, <3>3, <3>4, <4>1 DEF Shape
      <3> QED
        BY <1>3, <3>2, <3>4, <3>5
    <2> QED
      BY <2>1, <2>2
  <1>6. Interrupted' => s2c' # <<>>
    <2>1. s2c' = <<>> => \A i \in 1..Len(s2c') : FALSE
      BY NoFrames
    <2> QED
      BY <2>1 DEF Interrupted
  <1>7. ASSUME ~ raced
        PROVE  /\ ~ wrong'
               /\ Interrupted' => Expected'
               /\ srv = "ack" => Interrupted' \/ Confirmed'
               /\ told' = trace \/ (at' = "asking" /\ asked' = <<"T">>)
    <2>1. CASE Head(s2c) = <<"I">>
      BY <1>3, <1>4, <1>6, <1>7, <2>1
    <2>2. CASE Head(s2c) # <<"I">> /\ ~ Open
      BY <1>4, <1>7, <2>2
    <2>3. CASE Open
      BY <1>4, <1>7, <2>3
    <2> QED
      BY <2>1, <2>2, <2>3
  <1>8. s2c' = s2c \/ (s2c # <<>> /\ s2c' = Tail(s2c))
    OBVIOUS
  <1>9. todo' # <<>> /\ Head(todo') = <<"C">> =>
          /\ s2c # <<>> /\ Head(s2c) = <<"I">> /\ s2c' = Tail(s2c)
          /\ at' \in {"prompt", "asking"}
    OBVIOUS
  <1> QED
    BY <1>5, <1>7, <1>8, <1>9, TalkInv

(* What the client gets from a server that has not seen a break.           *)
LEMMA Replied ==
  ASSUME RemoteInv, Open, todo = <<>>, s2c # <<>>
  PROVE  /\ at \in {"running", "asking", "exited"}
         /\ at = "asking" => Then = "idle" /\ s2c = <<Value(Head(asked))>>
         /\ at = "running" =>
              \/ Then = "idle" /\ Queue(Ender)
              \/ Then = "key" /\ Queue({TR})
              \/ Then \in Loop /\ Queue({TW})
  <1>1. /\ RTypes /\ Shape
    BY DEF RemoteInv, Agreed
  <1>2. Then \in Loop \cup {"idle", "key", "quit"}
    BY <1>1 DEF RTypes, Then
  <1> QED
    BY <1>1, <1>2 DEF Shape

(* The client takes the first frame of a queue.                            *)
LEMMA QueueHead ==
  ASSUME s2c \in Seq(Replies), s2c # <<>>, s2c' = Tail(s2c), NEW last, Queue(last)
  PROVE  /\ Head(s2c) \in last \cup {TW}
         /\ Head(s2c) # TW => s2c' = <<>>
         /\ Queue(last)'
  <1>1. /\ Len(s2c) \in Nat /\ Len(s2c) > 0 /\ Len(s2c') = Len(s2c) - 1 /\ Head(s2c) = s2c[1]
        /\ \A i \in 1..Len(s2c') : s2c'[i] = s2c[i + 1]
        /\ Len(s2c) = 1 => s2c' = <<>>
    OBVIOUS
  <1>2. \A i \in 1..Len(s2c) : s2c[i] \in IF i = Len(s2c) THEN last ELSE {TW}
    BY DEF Queue
  <1>3. 1 \in 1..Len(s2c) /\ (Len(s2c) # 1 => 1 # Len(s2c))
    BY <1>1
  <1>4. Head(s2c) \in last \cup {TW} /\ (Head(s2c) # TW => Len(s2c) = 1)
    BY <1>1, <1>2, <1>3
  <1>5. \A i \in 1..Len(s2c') : s2c'[i] \in IF i = Len(s2c') THEN last ELSE {TW}
    <2> TAKE i \in 1..Len(s2c')
    <2>1. i + 1 \in 1..Len(s2c) /\ (i + 1 = Len(s2c) <=> i = Len(s2c'))
      BY <1>1
    <2> QED
      BY <1>1, <1>2, <2>1
  <1> QED
    BY <1>1, <1>4, <1>5 DEF Queue

(* The first bytes of the replies.                                         *)
LEMMA ReplyShape ==
  ASSUME NEW reply \in Replies
  PROVE  /\ reply[1] = "I" <=> reply = <<"I">>
         /\ reply[1] \in {"H", "B", "P", "S", "D"} <=> reply \in Ender
         /\ reply \notin Ender \cup {<<"I">>, TR} =>
              reply[1] \notin {"I", "H", "B", "P", "S", "D"}
         /\ TR \notin Ender \cup {TW} /\ TW \notin Ender /\ <<"I">> \notin Ender \cup {TR, TW}
  <1>1. /\ TR[1] = "T" /\ TW[1] = "T" /\ <<"I">>[1] = "I" /\ TR[2] = "R" /\ TW[2] = "W"
    BY DEF TR, TW
  <1>2. \A end \in Ender : end[1] \in {"H", "B", "P", "S", "D"}
    BY DEF Ender
  <1>3. \A value \in Values : value[1] = "="
    BY DEF Values
  <1>4. reply \in {<<"I">>, TR, TW} \cup Ender \cup Values
    BY DEF Replies
  <1> QED
    BY <1>1, <1>2, <1>3, <1>4

(* As long as no break came when nobody waited for its answer, whoever     *)
(* takes a frame before that answer is in a run, or in machine_halt.       *)
LEMMA Older ==
  ASSUME RemoteInv, s2c # <<>>, todo = <<>>, s2c' = Tail(s2c), ~ raced,
         Head(s2c) = <<"I">> \/ ~ Open
  PROVE  /\ at = "halting" \/ (at = "running" /\ Head(s2c)[1] \notin {"H", "B", "P", "S", "D"})
         /\ at' = at => Expected'
  <1>1. /\ RTypes /\ AckOK /\ InTime
    BY DEF RemoteInv
  <1>2. /\ Head(s2c) = s2c[1] /\ Len(s2c) \in Nat /\ Len(s2c) > 0
        /\ \A i \in 1..Len(s2c') : s2c'[i] = s2c[i + 1] /\ i + 1 \in 1..Len(s2c)
        /\ Interrupted' => Interrupted
        /\ Head(s2c) # <<"I">> /\ ~ Open => Interrupted'
    BY Taken
  <1>3. 1 \in 1..Len(s2c)
    BY <1>2
  <1>4. Interrupted
    BY <1>2, <1>3 DEF Interrupted
  <1>5. Expected
    BY <1>1, <1>4 DEF InTime
  <1>6. at = "halting" \/ (at = "running" /\ \A i \in 1..Len(s2c) : s2c[i][1] \notin {"H", "B", "P", "S", "D"})
    BY <1>5 DEF Expected
  <1> QED
    BY <1>2, <1>3, <1>6 DEF Expected

(* A reply is taken: the types.                                            *)
LEMMA ReceiveTypes ==
  ASSUME RTypes, NEW where, Receive(where), exit_on_HLT' = exit_on_HLT,
         todo' \in Seq(Contents), at' \in {"prompt", "running", "asking", "halting", "exited"},
         asked' \in Seq(Registers), resume' \in {"", "R", "S", "Q"}, in_console' \in BOOLEAN,
         told' \in {"on", "off"}, wrong' \in BOOLEAN, typed' \in Seq(Keys)
  PROVE  RTypes'
  <1>1. commands' \in Nat
    BY DEF RTypes, Receive
  <1> QED
    BY <1>1, TalkTypes DEF Receive

(* machine_halt sends its 'C' for the 'I' and drops anything else.         *)
LEMMA HaltingInv ==
  ASSUME RemoteInv, Halting
  PROVE  RemoteInv'
  <1>1. /\ RTypes /\ Control /\ InTime
    BY DEF RemoteInv
  <1>2. /\ Receive("halting") /\ at = "halting" /\ todo = <<>> /\ s2c # <<>> /\ s2c' = Tail(s2c)
        /\ UNCHANGED <<c2s, place, server, raced>>
        /\ UNCHANGED <<asked, resume, in_console, told, wrong, exit_on_HLT, typed>>
    BY DEF Halting, Receive
  <1>3. Head(s2c) \in Replies /\ (Head(s2c)[1] = "I" <=> Head(s2c) = <<"I">>)
    BY <1>2, Taken, ReplyShape
  <1>4. ~ Open
    <2>1. ~ (at \in {"running", "asking", "exited"})
      BY <1>2
    <2> QED
      BY <1>2, <2>1, Replied
  <1>5. /\ in_console /\ in_console \in BOOLEAN /\ asked \in Seq(Registers) /\ resume \in {"", "R", "S", "Q"}
        /\ told \in {"on", "off"} /\ wrong \in BOOLEAN /\ typed \in Seq(Keys)
    BY <1>1, <1>2 DEF RTypes, Control
  <1>6. ~ raced => ~ wrong /\ told = trace
    BY <1>1, <1>2 DEF InTime
  <1>7. CASE Head(s2c) = <<"I">>
    <2>1. at' = "prompt" /\ todo' = << <<"C">> >>
      BY <1>3, <1>7 DEF Halting
    <2>2. <<"C">> \in Contents
      BY DEF Contents
    <2>3. /\ todo' \in Seq(Contents) /\ todo' # <<>> /\ Head(todo') = <<"C">>
          /\ \A i \in 1..Len(todo') : todo'[i] = <<"C">>
          /\ \A i \in 2..Len(todo') : FALSE
          /\ \A i \in 1..Len(todo') : ~ (i < Len(todo'))
      BY <2>1, <2>2, OneOf
    <2>4. RTypes'
      BY <1>1, <1>2, <1>5, <2>1, <2>3, ReceiveTypes
    <2> QED
      BY <1>2, <1>4, <1>5, <1>6, <1>7, <2>1, <2>3, <2>4, ReplyInv
  <1>8. CASE Head(s2c) # <<"I">>
    <2>1. at' = at /\ todo' = <<>>
      BY <1>2, <1>3, <1>8 DEF Halting
    <2>2. /\ \A i \in 1..Len(todo') : FALSE
          /\ \A i \in 2..Len(todo') : FALSE
          /\ todo' \in Seq(Contents)
      BY <2>1, NoFrames, SomeFrames
    <2>3. RTypes'
      BY <1>1, <1>2, <1>5, <2>1, <2>2, ReceiveTypes
    <2>4. Expected'
      BY <1>2, <2>1 DEF Expected
    <2> QED
      BY <1>2, <1>4, <1>5, <1>6, <1>8, <2>1, <2>2, <2>3, <2>4, ReplyInv
  <1> QED
    BY <1>7, <1>8

(* Requests that follow each other, or a run that goes on: what the client *)
(* sends after an answer, or the end of a run.                             *)
LEMMA ValueShape ==
  ASSUME NEW reg \in Registers
  PROVE  IsPrefix(<<"=", reg>>, Value(reg)) /\ Value(reg) # <<"I">>
         /\ (reg = "T" => Len(Value(reg)) = 3 /\ Value(reg)[3] = trace)
  <1>1. CASE reg = "T"
    BY <1>1 DEF Value, IsPrefix
  <1>2. CASE reg # "T"
    BY <1>2 DEF Value, IsPrefix
  <1> QED
    BY <1>1, <1>2

(* Only a trace flag is a third byte.                                      *)
LEMMA ReplyTold ==
  ASSUME NEW reply \in Replies, Len(reply) = 3
  PROVE  reply[3] \in {"on", "off"}
  <1>1. reply \notin {<<"I">>, TR, TW} \cup Ender \cup {<<"=", reg>> : reg \in Registers}
    <2>1. \A x \in {<<"I">>, TR, TW} : Len(x) # 3
      BY DEF TR, TW
    <2>2. \A x \in Ender : Len(x) # 3
      BY DEF Ender
    <2>3. \A x \in {<<"=", reg>> : reg \in Registers} : Len(x) # 3
      OBVIOUS
    <2> QED
      BY <2>1, <2>2, <2>3
  <1>2. reply \in {<<"=", "T", value>> : value \in {"on", "off"}}
    BY <1>1 DEF Replies, Values
  <1> QED
    BY <1>2

(* The answer is to the examine that the client waits for.                 *)
LEMMA AnswerInv ==
  ASSUME RemoteInv, Answer
  PROVE  RemoteInv'
  <1> DEFINE reg == Head(asked)
             reply == Head(s2c)
  <1>1. /\ RTypes /\ Control /\ InTime
    BY DEF RemoteInv
  <1>2. /\ Receive("asking") /\ at = "asking" /\ todo = <<>> /\ s2c # <<>> /\ s2c' = Tail(s2c)
        /\ UNCHANGED <<c2s, place, server, raced>>
        /\ UNCHANGED <<resume, exit_on_HLT, typed>>
        /\ wrong' = (wrong \/ ~ IsPrefix(<<"=", reg>>, reply))
        /\ told' = IF reg = "T" /\ Len(reply) = 3 THEN reply[3] ELSE told
        /\ asked' = Tail(asked)
    BY DEF Answer, Receive
  <1>3. \/ asked' # <<>> /\ todo' = <<Examine(Head(asked'))>> /\ at' = "asking" /\ in_console' = in_console
        \/ /\ asked' = <<>> /\ resume \in {"R", "S"} /\ todo' = << <<resume>> >> /\ at' = "running"
           /\ in_console' = FALSE
        \/ asked' = <<>> /\ todo' = << <<"Q">> >> /\ at' = "exited" /\ in_console' = in_console
        \/ asked' = <<>> /\ todo' = <<>> /\ at' = "prompt" /\ in_console' = TRUE
    BY <1>2 DEF Answer, machine_quit
  <1>4. reply \in Replies
    BY <1>2, Taken
  <1>5. /\ asked \in Seq(Registers) /\ asked # <<>> /\ in_console \in BOOLEAN
        /\ resume \in {"", "R", "S", "Q"} /\ told \in {"on", "off"} /\ wrong \in BOOLEAN /\ typed \in Seq(Keys)
    BY <1>1, <1>2 DEF RTypes, Control
  <1>6. /\ reg \in Registers /\ asked' \in Seq(Registers)
        /\ asked = <<"T">> => reg = "T"
        /\ asked' # <<>> => Head(asked') \in Registers
    <2>1. \A q \in Seq(Registers) : q # <<>> => Head(q) \in Registers /\ Tail(q) \in Seq(Registers)
      BY HeadTailProperties
    <2>2. asked = <<"T">> => reg = "T"
      OBVIOUS
    <2> QED
      BY <1>2, <1>5, <2>1, <2>2
  <1> HIDE DEF reg, reply
  <1>7. told' \in {"on", "off"} /\ wrong' \in BOOLEAN
    BY <1>2, <1>4, <1>5, ReplyTold
  <1> DEFINE Sent(cmd) == /\ cmd \in Contents /\ cmd # <<"C">>
                          /\ todo' = <<cmd>> /\ Due(cmd, "idle", at', asked')
  <1>9. (\E cmd : Sent(cmd)) \/ todo' = <<>>
    <2>1. CASE asked' # <<>> /\ todo' = <<Examine(Head(asked'))>> /\ at' = "asking"
      <3>1. Examine(Head(asked')) \in Contents
        BY <1>6, <2>1, RegsContents
      <3>2. Due(Examine(Head(asked')), "idle", at', asked')
        BY <2>1 DEF Due
      <3> QED
        BY <2>1, <3>1, <3>2, NoConfirmation
    <2>2. CASE resume \in {"R", "S"} /\ todo' = << <<resume>> >> /\ at' = "running"
      <3>1. <<resume>> \in Contents
        BY <2>2 DEF Contents
      <3>2. Due(<<resume>>, "idle", at', asked')
        BY <2>2 DEF Due
      <3> QED
        BY <2>2, <3>1, <3>2, NoConfirmation
    <2>3. CASE todo' = << <<"Q">> >> /\ at' = "exited"
      <3>1. <<"Q">> \in Contents
        BY DEF Contents
      <3>2. Due(<<"Q">>, "idle", at', asked')
        BY <2>3 DEF Due
      <3> QED
        BY <2>3, <3>1, <3>2, NoConfirmation
    <2> QED
      BY <1>3, <2>1, <2>2, <2>3
  <1>10. /\ todo' \in Seq(Contents)
         /\ \A i \in 1..Len(todo') : todo'[i] # <<"C">> /\ Due(todo'[i], "idle", at', asked')
         /\ \A i \in 2..Len(todo') : FALSE
         /\ \A i \in 1..Len(todo') : ~ (i < Len(todo'))
         /\ todo' # <<>> => Head(todo') # <<"C">>
    <2>1. ASSUME NEW cmd, Sent(cmd)
          PROVE  /\ todo' \in Seq(Contents)
                 /\ \A i \in 1..Len(todo') : todo'[i] = cmd
                 /\ \A i \in 2..Len(todo') : FALSE
                 /\ \A i \in 1..Len(todo') : ~ (i < Len(todo'))
                 /\ Head(todo') = cmd
      BY <2>1, OneOf
    <2>2. CASE \E cmd : Sent(cmd)
      BY <2>1, <2>2
    <2>3. CASE todo' = <<>>
      <3>1. /\ \A i \in 1..Len(todo') : FALSE
            /\ \A i \in 2..Len(todo') : FALSE
            /\ todo' \in Seq(Contents)
        BY <2>3, NoFrames, SomeFrames
      <3> QED
        BY <2>3, <3>1
    <2> QED
      BY <1>9, <2>2, <2>3
  <1> HIDE DEF Sent
  <1>11. /\ at' \in {"asking", "running", "exited", "prompt"} /\ in_console' \in BOOLEAN
         /\ at' = "asking" => asked' # <<>>
         /\ at' \in {"prompt", "halting"} => in_console'
         /\ resume' \in {"", "R", "S", "Q"} /\ typed' \in Seq(Keys)
    BY <1>2, <1>3, <1>5
  <1>12. RTypes'
    BY <1>1, <1>2, <1>6, <1>7, <1>10, <1>11, ReceiveTypes
  <1>13. ASSUME Open
         PROVE  /\ Then = "idle" /\ reply = Value(reg) /\ s2c' = <<>> /\ Shape'
    <2>1. Then = "idle" /\ s2c = <<Value(reg)>>
      BY <1>2, <1>13, Replied DEF reg
    <2>2. reply = Value(reg) /\ s2c' = <<>>
      BY <1>2, <2>1, OneOf DEF reply
    <2>3. Then' = "idle"
      BY <1>2, <2>1 DEF Then, server
    <2>4. Shape'
      <3>1. Then' \notin Loop \cup {"key", "quit"}
        BY <2>3 DEF Loop
      <3>2. \A last : Queue(last)'
        <4>1. \A i \in 1..Len(s2c') : FALSE
          BY <2>2, NoFrames
        <4> QED
          BY <4>1 DEF Queue
      <3>3. (Then = "idle" /\ at = "running" => Queue(Ender))'
        BY <3>2
      <3> QED
        BY <2>2, <2>3, <3>1, <3>3 DEF Shape
    <2> QED
      BY <2>1, <2>2, <2>4
  <1>14. ASSUME ~ raced
         PROVE  Open /\ ~ wrong' /\ told' = trace /\ reply # <<"I">>
    <2>1. ~ (at = "halting" \/ (at = "running" /\ Head(s2c)[1] \notin {"H", "B", "P", "S", "D"}))
      BY <1>2
    <2>2. Head(s2c) # <<"I">> /\ Open
      BY <1>2, <1>14, <2>1, Older
    <2>3. reply = Value(reg)
      BY <1>13, <2>2
    <2>4. ~ wrong /\ (told = trace \/ asked = <<"T">>)
      BY <1>1, <1>14 DEF InTime
    <2> QED
      BY <1>2, <1>6, <2>2, <2>3, <2>4, ValueShape DEF reply
  <1> QED
    BY <1>2, <1>10, <1>11, <1>12, <1>13, <1>14, ReplyInv DEF reply

(* The 'C', and a frame behind it.                                         *)
LEMMA ConfirmContents == <<"C">> \in Contents
  BY DEF Contents

LEMMA ConfirmsFirst ==
  ASSUME NEW y \in Contents, y # <<"C">>, todo' = << <<"C">>, y >>
  PROVE  /\ todo' \in Seq(Contents) /\ todo' # <<>> /\ Head(todo') = <<"C">>
         /\ \A i \in 1..Len(todo') : todo'[i] = <<"C">> \/ todo'[i] = y
         /\ \A i \in 2..Len(todo') : todo'[i] # <<"C">>
         /\ \A i \in 1..Len(todo') : i < Len(todo') => todo'[i][1] \in {"C", "D"}
  <1> DEFINE x == <<"C">>
  <1>1. x \in Contents /\ y # x /\ todo' = <<x, y>> /\ x = <<"C">> /\ x[1] \in {"C", "D"}
    BY ConfirmContents
  <1> HIDE DEF x
  <1>2. /\ todo' \in Seq(Contents) /\ todo' # <<>> /\ Head(todo') = x
        /\ \A i \in 1..Len(todo') : todo'[i] = x \/ todo'[i] = y
        /\ \A i \in 2..Len(todo') : todo'[i] = y
        /\ \A i \in 1..Len(todo') : i < Len(todo') => todo'[i] = x
    BY <1>1, TwoOf
  <1> QED
    BY <1>1, <1>2

(* What follows a run that has ended.                                      *)
LEMMA AsksInv ==
  ASSUME RemoteInv, Receive("running"), UNCHANGED <<told, wrong, exit_on_HLT, typed>>,
         NEW regs \in Seq(Registers), regs # <<>>, Head(regs) = Head(Regs),
         NEW next \in {"", "R", "S", "Q"}, Ask(regs, next),
         Head(s2c)[1] \in {"I", "H", "B", "P", "S", "D"},
         todo' = IF Head(s2c)[1] = "I" THEN << <<"C">>, Examine(Head(Regs))>> ELSE <<Examine(Head(Regs))>>
  PROVE  RemoteInv'
  <1>1. /\ RTypes /\ Control /\ InTime
    BY DEF RemoteInv
  <1>2. /\ at = "running" /\ todo = <<>> /\ s2c # <<>> /\ s2c' = Tail(s2c)
        /\ UNCHANGED <<c2s, place, server, raced>>
        /\ at' = "asking" /\ asked' = regs /\ resume' = next /\ in_console' = in_console
    BY DEF Receive, Ask
  <1>3. /\ Head(s2c) \in Replies
        /\ Head(s2c)[1] = "I" <=> Head(s2c) = <<"I">>
        /\ Head(s2c)[1] \in {"H", "B", "P", "S", "D"} <=> Head(s2c) \in Ender
        /\ <<"I">> \notin Ender /\ TW \notin Ender /\ TR \notin Ender
    BY <1>2, Taken, ReplyShape
  <1>4. /\ in_console' \in BOOLEAN /\ told' \in {"on", "off"} /\ wrong' \in BOOLEAN /\ typed' \in Seq(Keys)
    BY <1>1, <1>2 DEF RTypes
  <1>5. ~ raced => ~ wrong' /\ told' = trace
    BY <1>1, <1>2 DEF InTime
  <1>6. /\ <<"C">> \in Contents /\ Examine(Head(Regs)) \in Contents
        /\ Due(Examine(Head(Regs)), "idle", at', asked')
    <2>1. <<"C">> \in Contents
      BY ConfirmContents
    <2>2. Examine(Head(Regs)) \in Contents
      BY RegsContents
    <2>3. Head(asked') = Head(Regs)
      BY <1>2
    <2>4. Due(Examine(Head(Regs)), "idle", at', asked')
      BY <1>2, <2>3 DEF Due
    <2> QED
      BY <2>1, <2>2, <2>4
  <1>7. Examine(Head(Regs)) # <<"C">>
    BY <1>6, NoConfirmation
  <1>8. CASE Head(s2c) = <<"I">>
    <2>1. todo' = << <<"C">>, Examine(Head(Regs))>>
      BY <1>3, <1>8
    <2>2. Due(Examine(Head(Regs)), "idle", at', asked')
      BY <1>6
    <2>3. /\ todo' \in Seq(Contents) /\ todo' # <<>> /\ Head(todo') = <<"C">>
          /\ \A i \in 1..Len(todo') : todo'[i] = <<"C">> \/ todo'[i] = Examine(Head(Regs))
          /\ \A i \in 2..Len(todo') : todo'[i] # <<"C">>
          /\ \A i \in 1..Len(todo') : i < Len(todo') => todo'[i][1] \in {"C", "D"}
      BY <1>6, <1>7, <2>1, ConfirmsFirst
    <2>4. RTypes'
      BY <1>1, <1>2, <1>4, <2>3, ReceiveTypes
    <2>5. ~ Open
      BY <1>2, <1>8, Taken DEF Open
    <2>6. /\ \A i \in 2..Len(todo') : todo'[i] # <<"C">>
          /\ todo' # <<>> /\ Head(todo') = <<"C">>
          /\ \A i \in 1..Len(todo') : i < Len(todo') => todo'[i][1] \in {"C", "D"}
          /\ \A i \in 1..Len(todo') : todo'[i] = <<"C">> \/ Due(todo'[i], "idle", at', asked')
      BY <2>2, <2>3
    <2> QED
      BY <1>2, <1>5, <1>8, <2>4, <2>5, <2>6, ReplyInv
  <1>9. CASE Head(s2c) # <<"I">>
    <2> DEFINE y == Examine(Head(Regs))
    <2>1. y \in Contents /\ y # <<"C">> /\ todo' = <<y>> /\ Due(y, "idle", at', asked')
      BY <1>3, <1>6, <1>7, <1>9
    <2> HIDE DEF y
    <2>2. /\ todo' \in Seq(Contents) /\ todo' # <<>> /\ Head(todo') = y
          /\ \A i \in 1..Len(todo') : todo'[i] = y
          /\ \A i \in 2..Len(todo') : FALSE
          /\ \A i \in 1..Len(todo') : ~ (i < Len(todo'))
      BY <2>1, OneOf
    <2>3. RTypes'
      BY <1>1, <1>2, <1>4, <2>2, ReceiveTypes
    <2>4. Head(s2c) \in Ender
      BY <1>3, <1>9
    <2>5. ASSUME Open
          PROVE  Then = "idle" /\ s2c' = <<>> /\ Shape'
      <3>1. s2c \in Seq(Replies)
        BY <1>1 DEF RTypes
      <3>2. \/ Then = "idle" /\ Queue(Ender)
            \/ Queue({TR}) \/ Queue({TW})
        BY <1>2, <2>5, Replied
      <3>3. Then = "idle" /\ s2c' = <<>>
        <4>1. ~ Queue({TR}) /\ ~ Queue({TW})
          BY <1>2, <1>3, <2>4, <3>1, QueueHead
        <4>2. Head(s2c) # TW
          BY <1>3, <2>4
        <4> QED
          BY <1>2, <3>1, <3>2, <4>1, <4>2, QueueHead
      <3>4. Then' = "idle"
        BY <1>2, <3>3 DEF Then, server
      <3>5. Then' \notin Loop \cup {"key", "quit"}
        BY <3>4 DEF Loop
      <3>6. Shape'
        BY <1>2, <3>3, <3>4, <3>5 DEF Shape
      <3> QED
        BY <3>3, <3>6
    <2>6. ~ raced => Open
      BY <1>2, <1>3, <2>4, Older
    <2> QED
      BY <1>2, <1>5, <1>9, <2>1, <2>2, <2>3, <2>5, <2>6, ReplyInv
  <1> QED
    BY <1>8, <1>9

(* Registers printed, then saved.                                          *)
LEMMA TwoJoined ==
  ASSUME NEW S, NEW p \in Seq(S), NEW q \in Seq(S), p # <<>>
  PROVE  p \o q \in Seq(S) /\ p \o q # <<>> /\ Head(p \o q) = Head(p)
  OBVIOUS

LEMMA Joined ==
  ASSUME NEW x, NEW y
  PROVE  <<x>> \o <<y>> = <<x, y>> /\ <<>> \o <<y>> = <<y>>
  <1> DEFINE S == {x, y}
             p == <<x>> \o <<y>>
             q == <<x, y>>
  <1>1. /\ <<x>> \in Seq(S) /\ <<y>> \in Seq(S) /\ Len(<<x>>) = 1 /\ Len(<<y>>) = 1
        /\ <<x>>[1] = x /\ <<y>>[1] = y
    OBVIOUS
  <1>2. /\ p \in Seq(S) /\ Len(p) = 2 /\ p[1] = x /\ p[2] = y
    BY <1>1, ConcatProperties
  <1>3. q \in Seq(S) /\ Len(q) = 2 /\ q[1] = x /\ q[2] = y
    OBVIOUS
  <1>4. \A i \in 1..2 : i = 1 \/ i = 2
    OBVIOUS
  <1> HIDE DEF p, q, S
  <1>5. p = q
    BY <1>2, <1>3, <1>4, SeqEqual
  <1>6. <<>> \o <<y>> = <<y>>
    BY <1>1, ConcatEmptySeq
  <1> QED
    BY <1>5, <1>6 DEF p, q

(* machine_run returns, or reports an instruction of a trace.              *)
LEMMA StoppedInv ==
  ASSUME RemoteInv, Stopped
  PROVE  RemoteInv'
  <1> DEFINE reason == Head(s2c)[1]
             regs == IF Exits(reason) THEN Reported(reason) \o Regs ELSE Reported(reason)
             next == IF Exits(reason) THEN "Q" ELSE ""
  <1>1. /\ Receive("running") /\ reason \in {"I", "H", "B", "P"}
        /\ UNCHANGED <<told, wrong, exit_on_HLT, typed>>
        /\ Ask(regs, next)
        /\ todo' = (IF reason = "I" THEN << <<"C">> >> ELSE <<>>) \o <<Examine(Head(Regs))>>
    BY DEF Stopped
  <1>2. /\ Reported(reason) \in Seq(Registers) /\ Reported(reason) # <<>>
        /\ Head(Reported(reason)) = Head(Regs)
    BY RegsContents DEF Reported
  <1>3. regs \in Seq(Registers) /\ regs # <<>> /\ Head(regs) = Head(Regs)
    <2>1. CASE Exits(reason)
      BY <1>2, <2>1, RegsContents, TwoJoined
    <2> QED
      BY <1>2, <2>1
  <1>4. next \in {"", "R", "S", "Q"}
    OBVIOUS
  <1>5. todo' = IF Head(s2c)[1] = "I" THEN << <<"C">>, Examine(Head(Regs))>> ELSE <<Examine(Head(Regs))>>
    BY <1>1, Joined
  <1> HIDE DEF regs, next
  <1> QED
    BY <1>1, <1>3, <1>4, <1>5, AsksInv

LEMMA TracedInv ==
  ASSUME RemoteInv, Traced
  PROVE  RemoteInv'
  <1>1. /\ Receive("running") /\ Head(s2c)[1] = "D"
        /\ UNCHANGED <<told, wrong, exit_on_HLT, typed>>
        /\ Ask(Regs, resume) /\ todo' = <<Examine(Head(Regs))>>
    BY DEF Traced
  <1>2. resume \in {"", "R", "S", "Q"}
    BY DEF RemoteInv, RTypes
  <1>3. todo' = IF Head(s2c)[1] = "I" THEN << <<"C">>, Examine(Head(Regs))>> ELSE <<Examine(Head(Regs))>>
    BY <1>1
  <1> QED
    BY <1>1, <1>2, <1>3, RegsContents, AsksInv

(* The client goes on with its run, or is done with the single step.       *)
LEMMA RunsOnInv ==
  ASSUME RemoteInv, Receive("running"), UNCHANGED <<asked, resume, told, wrong, exit_on_HLT>>,
         todo' \in Seq(Contents), typed' \in Seq(Keys), Head(s2c)[1] # "I",
         \A i \in 1..Len(todo') : todo'[i][1] \in {"0", "1", "EOF"},
         \A i \in 2..Len(todo') : FALSE, \A i \in 1..Len(todo') : ~ (i < Len(todo')),
         \/ at' = "running" /\ in_console' = in_console /\ (Head(s2c) \notin Ender)
         \/ at' = "prompt" /\ in_console' = TRUE /\ Head(s2c) \in Ender /\ todo' = <<>>,
         todo' # <<>> => Head(s2c) = TR
  PROVE  RemoteInv'
  <1>1. /\ RTypes /\ Control /\ InTime
    BY DEF RemoteInv
  <1>2. /\ at = "running" /\ todo = <<>> /\ s2c # <<>> /\ s2c' = Tail(s2c)
        /\ UNCHANGED <<c2s, place, server, raced>>
    BY DEF Receive
  <1>3. /\ Head(s2c) \in Replies
        /\ Head(s2c) # <<"I">>
        /\ Head(s2c)[1] \in {"H", "B", "P", "S", "D"} <=> Head(s2c) \in Ender
        /\ TR \notin Ender \cup {TW} /\ TW \notin Ender
    BY <1>2, Taken, ReplyShape
  <1>4. /\ in_console' \in BOOLEAN /\ told' \in {"on", "off"} /\ wrong' \in BOOLEAN
        /\ asked' \in Seq(Registers) /\ resume' \in {"", "R", "S", "Q"}
        /\ at' \in {"prompt", "running"}
    BY <1>1 DEF RTypes
  <1>5. ~ raced => ~ wrong' /\ told' = trace
    BY <1>1, <1>2 DEF InTime
  <1>6. RTypes'
    BY <1>1, <1>4, ReceiveTypes
  <1>7. \A i \in 1..Len(todo') : todo'[i] # <<"C">>
    <2>1. <<"C">>[1] = "C"
      OBVIOUS
    <2> QED
      BY <2>1
  <1>8. todo' # <<>> => Head(todo') # <<"C">>
    BY <1>7, SomeFrames
  <1>9. ASSUME Open
        PROVE  /\ Shape'
               /\ \A i \in 1..Len(todo') : Due(todo'[i], Then, at', asked')
               /\ s2c' # <<>> => todo' = <<>>
    <2>1. s2c \in Seq(Replies) /\ Then' = Then
      BY <1>1, <1>2 DEF RTypes, Then, server
    <2>2. \/ Then = "idle" /\ Queue(Ender)
          \/ Then = "key" /\ Queue({TR})
          \/ Then \in Loop /\ Queue({TW})
      BY <1>2, <1>9, Replied
    <2>3. Then = "idle" => Queue(Ender)'
      BY <1>2, <2>1, <2>2, QueueHead DEF Loop
    <2>4. Then = "key" => Queue({TR})'
      BY <1>2, <2>1, <2>2, QueueHead DEF Loop
    <2>5. Then \in Loop => Queue({TW})'
      BY <1>2, <2>1, <2>2, QueueHead DEF Loop
    <2>6. Head(s2c) \in Ender => Then = "idle" /\ s2c' = <<>>
      BY <1>2, <1>3, <2>1, <2>2, QueueHead
    <2>7. Head(s2c) = TR => Then = "key" /\ s2c' = <<>>
      BY <1>2, <1>3, <2>1, <2>2, QueueHead
    <2>8. Then' \notin {"quit"}
      BY <2>1, <2>2 DEF Loop
    <2>9. Shape'
      <3>1. CASE at' = "running"
        BY <2>1, <2>3, <2>4, <2>5, <2>8, <3>1 DEF Shape
      <3>2. CASE at' = "prompt" /\ Head(s2c) \in Ender
        <4>1. Then' = "idle" /\ s2c' = <<>>
          BY <2>1, <2>6, <3>2
        <4>2. Then' \notin Loop \cup {"key", "quit"}
          BY <4>1 DEF Loop
        <4> QED
          BY <3>2, <4>1, <4>2 DEF Shape
      <3> QED
        BY <3>1, <3>2
    <2>10. \A i \in 1..Len(todo') : Due(todo'[i], Then, at', asked')
      <3>1. CASE todo' = <<>>
        BY <3>1, NoFrames
      <3>2. CASE todo' # <<>>
        BY <2>7, <3>2 DEF Due
      <3> QED
        BY <3>1, <3>2
    <2> QED
      BY <2>7, <2>9, <2>10
  <1>10. ASSUME ~ raced, ~ Open
         PROVE  Expected'
    BY <1>2, <1>3, <1>10, Older
  <1> QED
    BY <1>2, <1>3, <1>4, <1>5, <1>6, <1>7, <1>8, <1>9, <1>10, ReplyInv

(* A single step is done; a key is asked for; a byte is to be printed.     *)
LEMMA RunsInv ==
  ASSUME RemoteInv, Stepped \/ ReadKey \/ WriteKey
  PROVE  RemoteInv'
  <1>1. /\ Receive("running") /\ at = "running" /\ todo = <<>> /\ s2c # <<>> /\ s2c' = Tail(s2c)
        /\ UNCHANGED <<asked, resume, told, wrong, exit_on_HLT>>
    BY DEF Stepped, ReadKey, WriteKey, Receive, client
  <1>2. /\ Head(s2c) \in Replies
        /\ Head(s2c)[1] \in {"H", "B", "P", "S", "D"} <=> Head(s2c) \in Ender
        /\ Head(s2c)[1] = "I" <=> Head(s2c) = <<"I">>
        /\ <<"I">> \notin Ender \cup {TR, TW} /\ TR \notin Ender
    BY <1>1, Taken, ReplyShape
  <1>3. typed \in Seq(Keys)
    BY DEF RemoteInv, RTypes
  <1>4. ASSUME todo' = <<>>
        PROVE  /\ todo' \in Seq(Contents)
               /\ \A i \in 1..Len(todo') : FALSE
               /\ \A i \in 2..Len(todo') : FALSE
    BY <1>4, NoFrames, SomeFrames
  <1>5. CASE Stepped
    <2>1. Head(s2c)[1] = "S" /\ at' = "prompt" /\ in_console' = TRUE /\ todo' = <<>> /\ typed' = typed
      BY <1>1, <1>5 DEF Stepped
    <2> QED
      BY <1>1, <1>2, <1>3, <1>4, <2>1, RunsOnInv
  <1>6. CASE WriteKey
    <2>1. /\ Head(s2c)[1] \notin {"I", "H", "B", "P", "S", "D"}
          /\ at' = at /\ in_console' = in_console /\ todo' = <<>> /\ typed' = typed
      BY <1>1, <1>6 DEF WriteKey, client
    <2> QED
      BY <1>1, <1>2, <1>3, <1>4, <2>1, RunsOnInv
  <1>7. CASE ReadKey
    <2>1. Head(s2c) = TR /\ at' = at /\ in_console' = in_console
      BY <1>7 DEF ReadKey, TR
    <2>2. PICK key \in Keys, result \in {"0", "1", "EOF"} :
             /\ todo' = << <<result, key>> >>
             /\ typed' = typed \/ typed' = Append(typed, key)
      BY <1>7 DEF ReadKey
    <2>3. typed' \in Seq(Keys)
      BY <1>3, <2>2
    <2> DEFINE x == <<result, key>>
    <2>4. x \in Contents /\ x[1] \in {"0", "1", "EOF"} /\ todo' = <<x>>
      BY <2>2 DEF Contents
    <2> HIDE DEF x
    <2>5. /\ todo' \in Seq(Contents)
          /\ \A i \in 1..Len(todo') : todo'[i][1] \in {"0", "1", "EOF"}
          /\ \A i \in 2..Len(todo') : FALSE
          /\ \A i \in 1..Len(todo') : ~ (i < Len(todo'))
      BY <2>4, OneOf
    <2>6. Head(s2c)[1] # "I"
      BY <1>2, <2>1
    <2> QED
      BY <1>1, <1>2, <2>1, <2>3, <2>5, <2>6, RunsOnInv
  <1> QED
    BY <1>5, <1>6, <1>7

-----------------------------------------------------------------------------
(* Nothing is under way at the start.                                      *)
LEMMA Nothing ==
  ASSUME NEW S, NEW q, q = <<>>
  PROVE  /\ q \in Seq(S) /\ Len(q) = 0
         /\ \A i \in 1..Len(q) : FALSE
         /\ \A i \in 2..Len(q) : FALSE
         /\ \A i \in 1..Len(q) : ~ (i < Len(q))
  OBVIOUS

(* The invariant holds when both processes start.                          *)
LEMMA RemoteInitInv ==
  ASSUME RemoteInit
  PROVE  RemoteInv
  <1>1. /\ c2s = <<>> /\ s2c = <<>> /\ at = "prompt" /\ place = Between /\ asked = <<>> /\ resume = ""
        /\ in_console = TRUE /\ told = "off" /\ exit_on_HLT \in BOOLEAN
        /\ srv = "idle" /\ rx = Calling(<<>>)
        /\ single = FALSE /\ trace = "off" /\ stop_at = FALSE /\ wrong = FALSE /\ raced = FALSE
        /\ commands = 0 /\ breaks = 0 /\ typed = <<>> /\ accepted = <<>>
        /\ todo \in {<<>>, <<Deposit("P")>>}
    BY DEF RemoteInit
  <1>2. /\ c2s \in Seq(Items) /\ s2c \in Seq(Replies) /\ asked \in Seq(Registers)
        /\ typed \in Seq(Keys) /\ accepted \in Seq(Keys)
        /\ Len(s2c) = 0
        /\ \A i \in 1..Len(c2s) : FALSE
        /\ \A i \in 1..Len(s2c) : FALSE
    BY <1>1, Nothing
  <1>3. /\ todo \in Seq(Contents)
        /\ \A i \in 1..Len(todo) : todo[i] = Deposit("P")
        /\ \A i \in 2..Len(todo) : FALSE
        /\ \A i \in 1..Len(todo) : ~ (i < Len(todo))
        /\ todo # <<>> => Head(todo) = Deposit("P")
    <2> DEFINE x == Deposit("P")
    <2>1. x \in Contents
      BY DEF Contents
    <2>2. todo = <<>> \/ todo = <<x>>
      BY <1>1
    <2> HIDE DEF x
    <2>3. /\ todo \in Seq(Contents)
          /\ \A i \in 1..Len(todo) : todo[i] = x
          /\ \A i \in 2..Len(todo) : FALSE
          /\ \A i \in 1..Len(todo) : ~ (i < Len(todo))
          /\ todo # <<>> => Head(todo) = x
      <3>1. CASE todo = <<>>
        BY <3>1, Nothing
      <3>2. CASE todo = <<x>>
        BY <2>1, <3>2, OneOf
      <3> QED
        BY <2>2, <3>1, <3>2
    <2> QED
      BY <2>3 DEF x
  <1>4. /\ place \in Places /\ place.cmd = <<>> /\ place.index = 0 /\ ~ place.escaped
        /\ ~ place.half /\ ~ place.cut /\ place.heard
    BY <1>1 DEF Between, Places
  <1>5. rx \in Receivers /\ rx.len <= Len(rx.buf) /\ rx.state = "WAIT" /\ rx.len = 0
    <2>1. rx = [state |-> "WAIT", len |-> 0, buf |-> <<>>]
      BY <1>1 DEF Calling
    <2>2. <<>> \in Seq(Characters \cup Stops) /\ Len(<<>>) = 0
      OBVIOUS
    <2> QED
      BY <2>1, <2>2 DEF Receivers
  <1>6. Deposit("P")[1] = "D" /\ Deposit("P") # <<"C">> /\ Deposit("P") # Deposit("T")
    <2>1. Deposit("P")[1] = "D" /\ Deposit("P")[2] = "P" /\ Deposit("T")[2] = "T" /\ <<"C">>[1] = "C"
      BY DEF Deposit
    <2> QED
      BY <2>1
  <1>7. RTypes
    <2>1. PtyFrames \in Nat /\ \A n \in Nat : 0 <= n
      BY RemoteAssumption
    <2>2. /\ breaks \in Nat /\ commands \in Nat /\ Len(s2c) <= PtyFrames
      <3>1. 0 \in Nat
        OBVIOUS
      <3> QED
        BY <1>1, <1>2, <2>1, <3>1
    <2>3. srv \notin Loop \cup {"key"}
      BY <1>1 DEF Loop
    <2> QED
      BY <1>1, <1>2, <1>3, <1>4, <1>5, <2>2, <2>3 DEF RTypes
  <1>8. ~ Confirming /\ ~ Confirmed /\ ~ Interrupted
    BY <1>2, <1>3, <1>6 DEF Confirming, Confirmed, Interrupted
  <1>9. LineOK /\ Reached = place
    <2>1. PlaceOK(place)
      BY <1>4 DEF PlaceOK
    <2>2. Chain(c2s, place)
      BY <1>2 DEF Chain
    <2>3. Reached = place
      BY <1>1 DEF Reached, Start
    <2> QED
      BY <1>4, <2>1, <2>2, <2>3 DEF LineOK
  <1>10. InStep
    <2>1. ~ (0 > 0)
      OBVIOUS
    <2>2. Fits(place, srv, rx)
      BY <1>1, <1>4, <1>5, <2>1 DEF Fits
    <2> QED
      BY <1>9, <2>2 DEF InStep
  <1>11. AckOK
    BY <1>1, <1>2, <1>3, <1>6, <1>8 DEF AckOK
  <1>12. HeardOK
    BY <1>1, <1>2 DEF HeardOK
  <1>13. Agreed
    <2>1. Then = "idle" /\ Then \notin Loop \cup {"key", "quit"}
      BY <1>1 DEF Then, Loop
    <2>2. Shape
      BY <1>1, <2>1 DEF Shape
    <2>3. \A i \in 1..Len(todo) : Expects(todo[i])
      BY <1>3, <1>6, <2>1 DEF Expects, Due
    <2> QED
      BY <1>1, <1>2, <2>2, <2>3 DEF Agreed
  <1>14. Control
    <2>1. srv \notin Loop
      BY <1>1 DEF Loop
    <2> QED
      BY <1>1, <1>3, <1>8, <2>1 DEF Control
  <1>15. InTime
    BY <1>1, <1>8 DEF InTime
  <1> QED
    BY <1>7, <1>9, <1>10, <1>11, <1>12, <1>13, <1>14, <1>15 DEF RemoteInv

(* It holds when neither does anything.                                    *)
LEMMA RemoteIdleInv ==
  ASSUME RemoteInv, UNCHANGED remoteVars
  PROVE  RemoteInv'
  <1>1. /\ UNCHANGED <<c2s, s2c, at, todo, place, asked, resume, in_console, told, wrong, exit_on_HLT>>
        /\ UNCHANGED <<srv, rx, single, trace, stop_at, raced, commands, breaks, typed, accepted>>
    BY DEF remoteVars, client, server, mode, counts
  <1>2. RTypes /\ LineOK /\ InStep /\ AckOK /\ HeardOK /\ Agreed /\ Control /\ InTime
    BY DEF RemoteInv
  <1>3. RTypes'
    <2>1. (/\ c2s \in Seq(Items) /\ todo \in Seq(Contents) /\ place \in Places
           /\ s2c \in Seq(Replies) /\ Len(s2c) <= PtyFrames)'
      BY <1>1, <1>2 DEF RTypes
    <2>2. (/\ at \in {"prompt", "running", "asking", "halting", "exited"}
           /\ asked \in Seq(Registers) /\ resume \in {"", "R", "S", "Q"}
           /\ in_console \in BOOLEAN /\ told \in {"on", "off"} /\ wrong \in BOOLEAN
           /\ exit_on_HLT \in BOOLEAN)'
      BY <1>1, <1>2 DEF RTypes
    <2>3. (/\ single \in BOOLEAN /\ trace \in {"on", "off"} /\ stop_at \in BOOLEAN /\ raced \in BOOLEAN
           /\ srv \in Loop \cup {"idle", "key", "ack", "quit"}
           /\ rx \in Receivers /\ rx.len <= Len(rx.buf)
           /\ srv \in Loop \cup {"key"} => rx.buf # <<>>)'
      BY <1>1, <1>2 DEF RTypes
    <2>4. (/\ breaks \in Nat /\ commands \in Nat
           /\ typed \in Seq(Keys) /\ accepted \in Seq(Keys))'
      BY <1>1, <1>2 DEF RTypes
    <2> QED
      BY <2>1, <2>2, <2>3, <2>4 DEF RTypes
  <1>4. LineOK'
    <2>1. (PlaceOK(place) /\ ~ place.half)'
      BY <1>1, <1>2 DEF LineOK, PlaceOK
    <2>2. (place.index > 0 => todo # <<>> /\ Head(todo) = place.cmd)'
      BY <1>1, <1>2 DEF LineOK
    <2>3. Chain(c2s, place)
      BY <1>2 DEF LineOK
    <2>4. Chain(c2s', place')
      BY <1>1, <2>3
    <2>5. Chain(c2s, place)'
      BY <2>4 DEF Chain, PlaceOK, ItemOK, OfFrame, Starts, Escapes, Carries, Ends, Breaks,
                  BreaksOff, CutAt, Begun, Between
    <2> QED
      BY <2>1, <2>2, <2>5 DEF LineOK
  <1>5. InStep'
    BY <1>1, <1>2 DEF InStep, Fits, Reached, Start
  <1>6. (Confirming' <=> Confirming) /\ (Confirmed' <=> Confirmed) /\ (Interrupted' <=> Interrupted)
    BY <1>1 DEF Confirming, Confirmed, Revives, Interrupted
  <1>7. AckOK'
    BY <1>1, <1>2, <1>6 DEF AckOK, Revives, OfBreak, Content
  <1>8. HeardOK'
    BY <1>1, <1>2 DEF HeardOK, Live, Revives, OfBreak
  <1>9. Agreed'
    <2>1. Open' <=> Open
      BY <1>1, <1>6 DEF Open
    <2>2. Then' = Then /\ (TodoLive' <=> TodoLive)
      BY <1>1, <1>6 DEF Then, TodoLive
    <2>3. Shape' <=> Shape
      BY <1>1, <2>2 DEF Shape, Queue, Value
    <2>4. \A cmd : Due(cmd, Then', at', asked') <=> Expects(cmd)
      BY <1>1, <2>2 DEF Expects
    <2> SUFFICES ASSUME Open'
                 PROVE  Agreed'
      BY DEF Agreed
    <2>5. (\A k \in 1..Len(c2s) : Live(c2s[k]) => Expects(Content(c2s[k])))'
      <3>1. \A k \in 1..Len(c2s) : Live(c2s[k]) => Expects(Content(c2s[k]))
        BY <1>2, <2>1 DEF Agreed
      <3>2. \A k \in 1..Len(c2s') : Live(c2s'[k]) => Due(Content(c2s'[k]), Then', at', asked')
        BY <1>1, <2>4, <3>1
      <3> QED
        BY <3>2 DEF Expects, Live, OfBreak, Content, Due
    <2>6. (TodoLive => \A i \in 1..Len(todo) : todo[i] = <<"C">> \/ Expects(todo[i]))'
      BY <1>1, <1>2, <2>1, <2>2, <2>4 DEF Agreed, Expects, Due
    <2>7. (\A k \in 1..Len(c2s) : Live(c2s[k]) /\ Ends(c2s[k]) /\ c2s[k].at.cmd[1] # "D" =>
             todo = <<>> /\ \A j \in (k + 1)..Len(c2s) : OfBreak(c2s[j]))'
      BY <1>1, <1>2, <2>1 DEF Agreed, Live, OfBreak, Ends
    <2>8. (s2c # <<>> => (TodoLive => todo = <<>>) /\ \A k \in 1..Len(c2s) : ~ Live(c2s[k]))'
      BY <1>1, <1>2, <2>1, <2>2 DEF Agreed, Live, OfBreak
    <2> QED
      BY <1>2, <2>1, <2>3, <2>5, <2>6, <2>7, <2>8 DEF Agreed
  <1>10. Control'
    BY <1>1, <1>2, <1>6 DEF Control, Reached, Start
  <1>11. InTime'
    BY <1>1, <1>2, <1>6 DEF InTime, Expected
  <1> QED
    BY <1>3, <1>4, <1>5, <1>7, <1>8, <1>9, <1>10, <1>11 DEF RemoteInv

(* Every step keeps it.                                                    *)
LEMMA RemoteNextInv ==
  ASSUME RemoteInv, [RemoteNext]_remoteVars
  PROVE  RemoteInv'
  <1>1. CASE Client
    BY <1>1, WriteByteInv, HaltingInv, AnswerInv, StoppedInv, TracedInv, RunsInv DEF Client
  <1>2. CASE Sigint
    BY <1>2, SigintInv
  <1>3. CASE Operator
    BY <1>3, EnterInv, EnterRestoreInv, EnterHaltInv DEF Operator
  <1>4. CASE Server
    BY <1>4, GetByteInv, BreakInterrupts, PollInterrupts, InterruptsInv, DispatchInv,
       LoopStepsInv, KeyFrameInv, AckNothingInv, AcknowledgedInv
       DEF Server, Idle, KeyByte, AckByte
  <1>5. CASE UNCHANGED remoteVars
    BY <1>5, RemoteIdleInv
  <1> QED
    BY <1>1, <1>2, <1>3, <1>4, <1>5 DEF RemoteNext

(* What both processes keep: the bytes and frames under way belong         *)
(* together, and both agree on what comes next.                            *)
THEOREM RemoteInvariant == RemoteSpec => []RemoteInv
  <1>1. RemoteInit => RemoteInv
    BY RemoteInitInv
  <1>2. RemoteInv /\ [RemoteNext]_remoteVars => RemoteInv'
    BY RemoteNextInv
  <1> QED
    BY <1>1, <1>2, PTL DEF RemoteSpec

(* Both processes only ever hold and send what belongs to the protocol.    *)
THEOREM RemoteTypes == RemoteSpec => []RemoteTypeOK
  <1>1. ASSUME RemoteInv
        PROVE  RemoteTypeOK
    <2>1. RTypes
      BY <1>1 DEF RemoteInv
    <2>2. {item.byte : item \in Range(c2s)} \subseteq Characters
      <3>1. c2s \in Seq(Items)
        BY <2>1 DEF RTypes
      <3>2. \A item \in Range(c2s) : item \in Items
        BY <3>1 DEF Range
      <3> QED
        BY <3>2 DEF Items
    <2>3. ASSUME NEW i \in 1..Len(todo)
          PROVE  Range(todo[i]) \subseteq Characters
      <3>1. todo \in Seq(Contents)
        BY <2>1 DEF RTypes
      <3>2. todo[i] \in Contents
        BY <3>1
      <3>3. todo[i] \in Seq(Characters)
        BY <3>2, ContentShape
      <3> QED
        BY <3>3 DEF Range
    <2>4. /\ rx.state \in {"WAIT", "FRAME", "ESCAPED"} /\ rx.len <= Len(rx.buf)
          /\ srv \in {"idle", "run", "tty", "key", "print", "cpu", "ack", "quit", "exited"}
      BY <2>1 DEF RTypes, Receivers, Loop
    <2>5. /\ at \in {"prompt", "running", "asking", "halting", "exited"}
          /\ asked \in Seq(Registers) /\ resume \in {"", "R", "S", "Q"}
          /\ in_console \in BOOLEAN /\ told \in {"on", "off"} /\ wrong \in BOOLEAN
          /\ exit_on_HLT \in BOOLEAN
          /\ single \in BOOLEAN /\ trace \in {"on", "off"} /\ stop_at \in BOOLEAN /\ raced \in BOOLEAN
          /\ typed \in Seq(Keys) /\ accepted \in Seq(Keys) /\ Len(s2c) <= PtyFrames
      BY <2>1 DEF RTypes
    <2> QED
      BY <2>2, <2>3, <2>4, <2>5 DEF RemoteTypeOK
  <1> QED
    BY <1>1, RemoteInvariant, PTL

(* The server never dispatches on the bytes of a former frame and never    *)
(* exits on a command it does not know, wherever breaks have cut a frame.  *)
THEOREM NeverStale == RemoteSpec => []NoStaleDispatch
  <1>1. ASSUME RemoteInv
        PROVE  NoStaleDispatch
    <2>1. RTypes /\ LineOK /\ InStep
      BY <1>1 DEF RemoteInv
    <2>2. srv # "exited"
      BY <2>1 DEF RTypes, Loop
    <2>3. ASSUME srv = "idle", c2s # <<>>, ReturnsFrame(rx, Head(c2s).byte)
          PROVE  rx.len > 0
      <3>1. /\ Head(c2s) \in Items /\ Head(c2s).at = Reached
            /\ PlaceOK(Head(c2s).at) /\ ItemOK(Head(c2s))
        BY <2>1, <2>3, HeadItem
      <3>2. rx \in Receivers /\ rx.len <= Len(rx.buf)
        BY <2>1 DEF RTypes
      <3>3. Receives(Head(c2s), srv, rx)
        BY <2>1, <2>3, <3>1, <3>2 DEF Receives, InStep
      <3>4. Whole(Head(c2s), srv, rx)
        BY <2>3, <3>3, FitsFrame DEF Empty
      <3> QED
        BY <3>4 DEF Whole
    <2> QED
      BY <2>2, <2>3 DEF NoStaleDispatch
  <1> QED
    BY <1>1, RemoteInvariant, PTL

(* Every examine request gets its own answer, as long as no break comes    *)
(* when nobody waits for its acknowledge.                                  *)
THEOREM AnswersOwn == RemoteSpec => []AnswersMatch
  <1>1. RemoteInv => AnswersMatch
    BY DEF RemoteInv, InTime, AnswersMatch
  <1> QED
    BY <1>1, RemoteInvariant, PTL

(* With the prompt and an empty line, the operator and the machine agree:  *)
(* it is stopped, expects a command, and traces exactly if he was told so. *)
THEOREM ModesKept == RemoteSpec => []ModesAgree
  <1>1. ASSUME RemoteInv
        PROVE  ModesAgree
    <2> SUFFICES ASSUME at = "prompt", Quiet, ~ raced
                 PROVE  srv = "idle" /\ told = trace
      BY DEF ModesAgree
    <2>1. todo = <<>> /\ c2s = <<>> /\ \A k \in 1..Len(c2s) : FALSE
      BY NoFrames DEF Quiet
    <2>2. ~ Confirmed
      BY <2>1 DEF Confirmed, Confirming
    <2>3. srv # "ack" /\ told = trace
      BY <1>1, <2>1, <2>2, AtPrompt
    <2>4. Open
      BY <2>3 DEF Open
    <2>5. Then = "idle"
      BY <1>1, <2>1, <2>4, AtPrompt
    <2> QED
      BY <2>3, <2>5 DEF Then
  <1> QED
    BY <1>1, RemoteInvariant, PTL

-----------------------------------------------------------------------------
(***************************************************************************)
(* The keys.  One is under way at most, the last one typed: the server     *)
(* asks for a key when it has the answer to the last question (KeyOrder).  *)
(* A key is lost because a break came, and a break that may lose one has   *)
(* lost none before (KeyCount).                                            *)
(***************************************************************************)

(* A frame that the server will hear: still to send, or under way.  One    *)
(* that is Delivering leaves the server where it may ask for a key.        *)
Delivers(item) == Live(item) /\ Ends(item)
Delivering == \E k \in 1..Len(c2s) : Delivers(c2s[k]) /\ c2s[k].at.cmd[1] # "EOF"
Under(cmds) == \E k \in 1..Len(c2s) : Delivers(c2s[k]) /\ c2s[k].at.cmd \in cmds
Pending(cmds) == Under(cmds) \/ (TodoLive /\ \E i \in 1..Len(todo) : todo[i] \in cmds)

Pressed(key) == <<"1", key>>
Given == {Pressed(key) : key \in Keys}
KeySets == {{Pressed(key)} : key \in Keys} \cup {Given}

(* A question for a key is the only one, and the client that is asked runs. *)
KeyAsked == \E i \in 1..Len(s2c) : s2c[i] = TR

ReadOK ==
  \A i \in 1..Len(s2c) : s2c[i] = TR =>
    /\ srv \in {"key", "ack"} /\ at = "running"
    /\ \A j \in 1..Len(s2c) : j # i => s2c[j] = IF j < i THEN TW ELSE <<"I">>

(* A break has come, and no 'C' after it: a key typed now would be lost,   *)
(* and none has been since.                                                *)
Threatens ==
  /\ ~ TodoLive /\ at # "halting"
  /\ KeyAsked \/ (Open /\ (Then # "key" \/ Delivering))

Latest(key) == typed # <<>> /\ key = Last(typed) /\ Subsequence(accepted, Front(typed))

KeyOrder ==
  /\ \A key \in Keys : Pending({Pressed(key)}) => Latest(key)
  /\ ~ Pending(Given) => Subsequence(accepted, typed)

KeyCount ==
  Len(typed) + (IF Threatens THEN 1 ELSE 0)
    <= Len(accepted) + breaks + (IF Pending(Given) THEN 1 ELSE 0)

KeyInv == ReadOK /\ KeyOrder /\ KeyCount

-----------------------------------------------------------------------------
(* What Subsequence says of a sequence that grows.                         *)
LEMMA SubsequenceEmpty ==
  ASSUME NEW q, q = <<>>
  PROVE  Subsequence(q, q)
  <1> DEFINE where == [i \in {} |-> 0]
  <1>1. where \in [1..Len(q) -> 1..Len(q)]
    OBVIOUS
  <1>2. \A i \in 1..Len(q) : FALSE
    OBVIOUS
  <1> HIDE DEF where
  <1> QED
    BY <1>1, <1>2 DEF Subsequence

(* It stays one when the longer sequence grows, and when both grow alike.  *)
LEMMA SubsequenceLonger ==
  ASSUME NEW S, NEW s \in Seq(S), NEW t \in Seq(S), NEW x \in S, Subsequence(s, t),
         NEW u, u = Append(t, x)
  PROVE  Subsequence(s, u)
  <1>1. PICK where \in [1..Len(s) -> 1..Len(t)] :
               /\ \A i \in 1..Len(s) : s[i] = t[where[i]]
               /\ \A i, j \in 1..Len(s) : i < j => where[i] < where[j]
    BY DEF Subsequence
  <1>2. /\ Len(u) = Len(t) + 1 /\ Len(t) \in Nat
        /\ \A i \in 1..Len(t) : u[i] = t[i]
    OBVIOUS
  <1>3. 1..Len(t) \subseteq 1..Len(u)
    BY <1>2
  <1>4. where \in [1..Len(s) -> 1..Len(u)]
    BY <1>1, <1>3
  <1>5. \A i \in 1..Len(s) : where[i] \in 1..Len(t)
    BY <1>1
  <1>6. \A i \in 1..Len(s) : s[i] = u[where[i]]
    BY <1>1, <1>2, <1>5
  <1> QED
    BY <1>1, <1>4, <1>6 DEF Subsequence

LEMMA SubsequenceBoth ==
  ASSUME NEW S, NEW s \in Seq(S), NEW t \in Seq(S), NEW x \in S, Subsequence(s, t),
         NEW r, r = Append(s, x), NEW u, u = Append(t, x)
  PROVE  Subsequence(r, u)
  <1>1. PICK where \in [1..Len(s) -> 1..Len(t)] :
               /\ \A i \in 1..Len(s) : s[i] = t[where[i]]
               /\ \A i, j \in 1..Len(s) : i < j => where[i] < where[j]
    BY DEF Subsequence
  <1> DEFINE m == Len(s)
             n == Len(t)
             more == [i \in 1..(m + 1) |-> IF i = m + 1 THEN n + 1 ELSE where[i]]
  <1>2. /\ Len(u) = n + 1 /\ n \in Nat /\ Len(r) = m + 1 /\ m \in Nat
        /\ \A i \in 1..n : u[i] = t[i]
        /\ \A i \in 1..m : r[i] = s[i]
        /\ r[m + 1] = x /\ u[n + 1] = x
    OBVIOUS
  <1>3. \A i \in 1..m : where[i] \in 1..n
    BY <1>1
  <1> HIDE DEF m, n
  <1>4. \A i \in 1..(m + 1) : i \in 1..m \/ i = m + 1
    BY <1>2
  <1>5. /\ \A i \in 1..m : i # m + 1 /\ i \in 1..(m + 1)
        /\ m + 1 \in 1..(m + 1) /\ n + 1 \in 1..(n + 1)
        /\ \A k \in 1..n : k \in 1..(n + 1) /\ k < n + 1
    BY <1>2
  <1>6. /\ \A i \in 1..m : more[i] = where[i]
        /\ more[m + 1] = n + 1
    BY <1>5
  <1>7. more \in [1..(m + 1) -> 1..(n + 1)]
    BY <1>3, <1>4, <1>5 DEF more
  <1> HIDE DEF more
  <1>8. \A i \in 1..(m + 1) : r[i] = u[more[i]]
    BY <1>2, <1>1, <1>3, <1>4, <1>6 DEF m
  <1>9. ASSUME NEW i \in 1..(m + 1), NEW j \in 1..(m + 1), i < j
        PROVE  more[i] < more[j]
    <2>1. i \in 1..m
      BY <1>2, <1>9
    <2>2. CASE j = m + 1
      BY <1>3, <1>5, <1>6, <2>1, <2>2
    <2>3. CASE j \in 1..m
      BY <1>1, <1>6, <1>9, <2>1, <2>3 DEF m
    <2> QED
      BY <1>4, <2>2, <2>3
  <1>10. 1..Len(r) = 1..(m + 1) /\ 1..Len(u) = 1..(n + 1)
    BY <1>2
  <1> QED
    BY <1>7, <1>8, <1>9, <1>10 DEF Subsequence

(* A sequence and its last element.                                        *)
LEMMA FrontLast ==
  ASSUME NEW S, NEW t \in Seq(S), t # <<>>
  PROVE  Front(t) \in Seq(S) /\ Last(t) \in S /\ t = Append(Front(t), Last(t))
  BY DEF Front, Last

LEMMA FrontAppended ==
  ASSUME NEW S, NEW t \in Seq(S), NEW x \in S, NEW u, u = Append(t, x)
  PROVE  u \in Seq(S) /\ u # <<>> /\ Front(u) = t /\ Last(u) = x /\ Len(u) = Len(t) + 1
  BY DEF Front, Last

(* All but the last of a sequence is one of all of it.                     *)
LEMMA SubsequenceFront ==
  ASSUME NEW S, NEW s \in Seq(S), NEW t \in Seq(S), t # <<>>, Subsequence(s, Front(t))
  PROVE  Subsequence(s, t)
  <1> DEFINE f == Front(t)
             x == Last(t)
  <1>1. f \in Seq(S) /\ x \in S /\ t = Append(f, x) /\ Subsequence(s, f)
    BY FrontLast
  <1> HIDE DEF f, x
  <1> QED
    BY <1>1, SubsequenceLonger

-----------------------------------------------------------------------------
LEMMA KeyCommands ==
  ASSUME NEW cmds \in KeySets
  PROVE  /\ cmds \subseteq Contents /\ \A cmd \in cmds : cmd[1] = "1"
         /\ <<"C">> \notin cmds
  <1>1. cmds \subseteq Given
    BY DEF KeySets, Given
  <1>2. \A cmd \in Given : \E key \in Keys : cmd = <<"1", key>>
    BY DEF Given, Pressed
  <1>3. \A key \in Keys : <<"1", key>> \in Contents /\ <<"1", key>>[1] = "1" /\ <<"1", key>> # <<"C">>
    BY DEF Contents
  <1> QED
    BY <1>1, <1>2, <1>3

(* The sets of contents that the invariant speaks about.                   *)
LEMMA KeySetsAre ==
  Given \in KeySets /\ \A key \in Keys : {Pressed(key)} \in KeySets
  BY DEF KeySets

(* A key is under way when some key is, in this state and in the next.     *)
LEMMA GivenByKey ==
  Pending(Given) <=> \E key \in Keys : Pending({Pressed(key)})
  BY DEF Pending, Under, Given

LEMMA GivenByKeyNext ==
  Pending(Given)' <=> \E key \in Keys : Pending({Pressed(key)})'
  BY DEF Pending, Under, Given, Delivers, Live, OfBreak, Ends

(* A content of two bytes is given by them.                                *)
LEMMA ContentPair ==
  ASSUME NEW cmd \in Contents, Len(cmd) = 2
  PROVE  cmd = <<cmd[1], cmd[2]>>
  <1>1. cmd \in Seq(Characters)
    BY ContentShape
  <1> QED
    BY <1>1

(* A frame under way that the server will hear is one that it expects.     *)
LEMMA DeliversExpected ==
  ASSUME RemoteInv, NEW k \in 1..Len(c2s), Delivers(c2s[k])
  PROVE  /\ Open /\ s2c = <<>> /\ c2s[k].at.cmd \in Contents /\ Expects(c2s[k].at.cmd)
         /\ c2s[k].at.cmd[1] # "D" => todo = <<>>
  <1>1. RTypes /\ LineOK /\ HeardOK /\ AckOK /\ Agreed
    BY DEF RemoteInv
  <1>2. Live(c2s[k]) /\ Ends(c2s[k])
    BY DEF Delivers
  <1>3. Open
    <2>1. CASE srv = "ack"
      <3>1. PICK i \in 1..(k - 1) : Revives(c2s[i])
        BY <1>1, <1>2, <2>1 DEF HeardOK
      <3>2. i \in 1..Len(c2s)
        OBVIOUS
      <3> QED
        BY <3>1, <3>2 DEF Open, Confirmed
    <2>2. CASE srv # "ack"
      BY <2>2 DEF Open
    <2> QED
      BY <2>1, <2>2
  <1>4. s2c = <<>> /\ Expects(Content(c2s[k]))
    BY <1>1, <1>2, <1>3 DEF Agreed
  <1>5. c2s[k].at.index > 0 /\ Content(c2s[k]) = c2s[k].at.cmd
    BY <1>2 DEF Ends, Content
  <1>6. Content(c2s[k]) \in Contents
    BY <1>1, <1>2, LiveContent
  <1>7. c2s[k].at.cmd[1] # "D" => todo = <<>>
    BY <1>1, <1>2, <1>3 DEF Agreed
  <1> QED
    BY <1>3, <1>4, <1>5, <1>6, <1>7

(* So is what it will hear of the frames to send.                          *)
LEMMA TodoExpected ==
  ASSUME RemoteInv, TodoLive
  PROVE  /\ Open
         /\ \A i \in 1..Len(todo) :
              s2c = <<>> /\ todo[i] \in Contents /\ (todo[i] = <<"C">> \/ Expects(todo[i]))
  <1>1. RTypes /\ LineOK /\ HeardOK /\ AckOK /\ Agreed
    BY DEF RemoteInv
  <1>2. Open
    BY <1>1 DEF TodoLive, Open, Confirmed, HeardOK
  <1>3. todo \in Seq(Contents) /\ \A i \in 1..Len(todo) : todo # <<>>
    <2>1. todo \in Seq(Contents)
      BY <1>1 DEF RTypes
    <2> QED
      BY <2>1, NoFrames
  <1>4. \A i \in 1..Len(todo) : todo[i] \in Contents
    BY <1>3
  <1> QED
    BY <1>1, <1>2, <1>3, <1>4 DEF Agreed

(* While a key is under way, the server waits for it.                      *)
LEMMA KeyUnderWay ==
  ASSUME RemoteInv, Pending(Given)
  PROVE  Open /\ Then = "key" /\ s2c = <<>>
  <1>1. ASSUME NEW cmd \in Given, Expects(cmd)
        PROVE  Then = "key"
    <2>1. PICK key \in Keys : cmd = <<"1", key>>
      BY DEF Given, Pressed
    <2> QED
      BY <1>1, <2>1 DEF Expects, Due, Deposit, Examine
  <1>2. <<"C">> \notin Given
    BY KeySetsAre, KeyCommands
  <1>3. CASE Under(Given)
    BY <1>1, <1>3, DeliversExpected DEF Under
  <1>4. CASE TodoLive /\ \E i \in 1..Len(todo) : todo[i] \in Given
    BY <1>1, <1>2, <1>4, TodoExpected
  <1> QED
    BY <1>3, <1>4 DEF Pending

-----------------------------------------------------------------------------
(* Nothing of this changes while the line and the client's place do not.   *)
LEMMA UnderStays ==
  ASSUME c2s' = c2s
  PROVE  (\A cmds : Under(cmds)' <=> Under(cmds)) /\ (Delivering' <=> Delivering)
  <1>1. Delivering' <=> Delivering
    BY DEF Delivering, Delivers, Live, OfBreak, Ends
  <1>2. ASSUME NEW cmds PROVE Under(cmds)' <=> Under(cmds)
    BY DEF Under, Delivers, Live, OfBreak, Ends
  <1> QED
    BY <1>1, <1>2

(* What is under way to the server, when neither it nor the client acts.   *)
LEMMA PendingStays ==
  ASSUME UNCHANGED <<c2s, todo, place>>
  PROVE  /\ \A cmds : Pending(cmds)' <=> Pending(cmds)
         /\ Delivering' <=> Delivering
         /\ TodoLive' <=> TodoLive
         /\ Confirmed' <=> Confirmed
  <1>1. (TodoLive' <=> TodoLive) /\ (Confirmed' <=> Confirmed)
    BY DEF TodoLive, Confirming, Confirmed, Revives
  <1>2. ASSUME NEW cmds PROVE Pending(cmds)' <=> Pending(cmds)
    BY <1>1, UnderStays DEF Pending
  <1> QED
    BY <1>1, <1>2, UnderStays

(* A byte read takes a frame away if it ends one that is heard.            *)
LEMMA PendingRead ==
  ASSUME RTypes, LineOK, ReadsByte, NEW cmds
  PROVE  /\ Pending(cmds)' => Pending(cmds)
         /\ ~ (Delivers(Head(c2s)) /\ Head(c2s).at.cmd \in cmds) => (Pending(cmds) => Pending(cmds)')
         /\ Delivering' => Delivering
         /\ TodoLive' <=> TodoLive
         /\ Confirmed' => Confirmed
  <1>1. /\ TodoLive' = TodoLive /\ (Confirmed' => Confirmed) /\ todo' = todo
    BY ReadsConfirmed DEF ReadsByte, client
  <1>2. /\ Head(c2s) = c2s[1] /\ 1 \in 1..Len(c2s)
        /\ \A k \in 1..Len(c2s') : k + 1 \in 1..Len(c2s) /\ c2s'[k] = c2s[k + 1]
        /\ \A k \in 1..Len(c2s) : k # 1 => k - 1 \in 1..Len(c2s') /\ c2s'[k - 1] = c2s[k]
    BY ReadsLine
  <1>3. /\ Under(cmds)' <=> \E k \in 1..Len(c2s') : Delivers(c2s'[k]) /\ c2s'[k].at.cmd \in cmds
        /\ Delivering' <=> \E k \in 1..Len(c2s') : Delivers(c2s'[k]) /\ c2s'[k].at.cmd[1] # "EOF"
    BY DEF Under, Delivering, Delivers, Live, OfBreak, Ends
  <1>4. Delivering' => Delivering
    BY <1>2, <1>3 DEF Delivering
  <1>5. Under(cmds)' => Under(cmds)
    BY <1>2, <1>3 DEF Under
  <1>6. ASSUME ~ (Delivers(Head(c2s)) /\ Head(c2s).at.cmd \in cmds), Under(cmds)
        PROVE  Under(cmds)'
    <2>1. PICK k \in 1..Len(c2s) : Delivers(c2s[k]) /\ c2s[k].at.cmd \in cmds
      BY <1>6 DEF Under
    <2>2. k # 1
      BY <1>2, <1>6, <2>1
    <2> QED
      BY <1>2, <1>3, <2>1, <2>2
  <1> QED
    BY <1>1, <1>4, <1>5, <1>6 DEF Pending

(* A byte written moves a frame along that will be heard.                  *)
LEMMA PendingWritten ==
  ASSUME RemoteInv, WriteByte
  PROVE  /\ \A cmds : <<"C">> \notin cmds => (Pending(cmds)' <=> Pending(cmds))
         /\ Delivering' => Delivering \/ TodoLive'
         /\ TodoLive' => TodoLive
         /\ TodoLive /\ ~ TodoLive' => Head(todo)[1] = "EOF"
         /\ Confirmed' <=> Confirmed
  <1>1. RTypes /\ LineOK /\ AckOK /\ Control
    BY DEF RemoteInv
  <1> DEFINE n == Len(c2s)
             m == Len(c2s')
             h == c2s'[Len(c2s')]
  <1>2. /\ n \in Nat /\ m = n + 1 /\ todo # <<>>
        /\ \A k \in 1..n : c2s'[k] = c2s[k]
        /\ Written(h)
        /\ Ends(h) => todo' = Tail(todo) /\ place.cmd = Head(todo) /\ place'.index = 0
        /\ ~ Ends(h) => /\ todo' = todo /\ place'.cmd = Head(todo)
                        /\ place'.heard = place.heard /\ place'.cut = place.cut
    BY <1>1, WriteByteLine DEF WriteByte
  <1>3. /\ h \in Items /\ OfFrame(h) /\ Content(h) = Head(todo)
        /\ h.at = place /\ h.after = place' /\ ~ OfBreak(h)
    BY <1>2, Kinds DEF Written
  <1>4. /\ m \in 1..m /\ h = c2s'[m]
        /\ \A k \in 1..m : k \in 1..n \/ k = m
        /\ \A k \in 1..n : k \in 1..m /\ c2s'[k] = c2s[k]
    BY <1>2
  <1> HIDE DEF n, m, h
  <1>5. /\ todo \in Seq(Contents) /\ Head(todo) = todo[1] /\ 1 \in 1..Len(todo)
        /\ \A i \in 1..Len(Tail(todo)) : Tail(todo)[i] = todo[i + 1] /\ i + 1 \in 2..Len(todo)
        /\ \A i \in 1..Len(todo) : i # 1 => i - 1 \in 1..Len(Tail(todo)) /\ Tail(todo)[i - 1] = todo[i]
        /\ \A i \in 2..Len(todo) : i \in 1..Len(todo)
    <2>1. todo \in Seq(Contents)
      BY <1>1 DEF RTypes
    <2>2. /\ Head(todo) = todo[1] /\ 1 \in 1..Len(todo)
          /\ Len(todo) \in Nat /\ Len(Tail(todo)) = Len(todo) - 1
          /\ \A i \in 1..Len(Tail(todo)) : Tail(todo)[i] = todo[i + 1]
      BY <1>2, <2>1
    <2> QED
      BY <2>1, <2>2
  <1>6. \A i \in 2..Len(todo) : todo[i] # <<"C">>
    BY <1>1 DEF AckOK
  <1>7. Ends(h) => todo' = <<>> \/ Head(todo') # <<"C">>
    <2> SUFFICES ASSUME Tail(todo) # <<>> PROVE Head(Tail(todo)) # <<"C">>
      BY <1>2
    <2>1. Tail(todo) \in Seq(Contents)
      BY <1>2, <1>5
    <2>2. Head(Tail(todo)) = Tail(todo)[1] /\ 1 \in 1..Len(Tail(todo))
      BY <2>1
    <2> QED
      BY <1>5, <1>6, <2>2
  <1>8. /\ Ends(h) => ~ Confirming'
        /\ ~ Ends(h) => Confirming' = Confirming
    BY <1>2, <1>7 DEF Confirming
  <1>9. /\ Ends(h) => (place'.heard <=> (place.heard /\ Head(todo)[1] # "EOF") \/ Confirming)
        /\ Revives(h) <=> Ends(h) /\ Confirming
    <2>1. Confirming => ~ place.heard
      BY <1>1 DEF AckOK, Confirming
    <2>2. Ends(h) => (place'.heard <=> (place.heard /\ Head(todo)[1] # "EOF") \/ Confirming)
      <3>1. PlaceOK(h.at)
        BY <1>1, <1>3 DEF LineOK
      <3>2. Ends(h) => (h.after.heard <=> \/ h.at.heard /\ h.at.cmd[1] # "EOF"
                                          \/ h.at.cmd = <<"C">> /\ ~ h.at.cut)
        BY <1>3, <3>1, ItemFields
      <3> QED
        BY <1>2, <1>3, <3>2 DEF Confirming
    <2> QED
      BY <1>2, <1>3, <2>1, <2>2 DEF Revives
  <1>10. /\ TodoLive' => TodoLive
         /\ TodoLive /\ ~ TodoLive' => Ends(h) /\ Head(todo)[1] = "EOF"
    BY <1>2, <1>8, <1>9 DEF TodoLive
  <1>11. Confirmed' <=> Confirmed
    <2>1. (\E k \in 1..m : Revives(c2s'[k])) <=> (\E k \in 1..n : Revives(c2s[k])) \/ Revives(h)
      BY <1>4
    <2>2. Confirmed' <=> Confirming' \/ \E k \in 1..m : Revives(c2s'[k])
      BY DEF Confirmed, m, Revives
    <2>3. Confirmed <=> Confirming \/ \E k \in 1..n : Revives(c2s[k])
      BY DEF Confirmed, n
    <2> QED
      BY <1>8, <1>9, <2>1, <2>2, <2>3
  (* The frame that ends.                                                  *)
  <1>12. /\ Delivers(h) <=> Ends(h) /\ place.heard
         /\ Ends(h) => h.at.cmd = Head(todo)
    <2>1. Ends(h) => h.at.index # 0
      BY DEF Ends
    <2> QED
      BY <1>3, <2>1 DEF Delivers, Live, Content
  <1>13. Delivering' => Delivering \/ TodoLive'
    <2>1. Delivering' <=> \E k \in 1..m : Delivers(c2s'[k]) /\ c2s'[k].at.cmd[1] # "EOF"
      BY DEF Delivering, Delivers, Live, OfBreak, Ends, m
    <2> QED
      BY <1>4, <1>9, <1>12, <2>1 DEF Delivering, TodoLive, n
  <1>14. ASSUME NEW cmds, <<"C">> \notin cmds
         PROVE  Pending(cmds)' <=> Pending(cmds)
    <2>1. Under(cmds)' <=> \E k \in 1..m : Delivers(c2s'[k]) /\ c2s'[k].at.cmd \in cmds
      BY DEF Under, Delivers, Live, OfBreak, Ends, m
    <2>2. Under(cmds)' <=> Under(cmds) \/ (Delivers(h) /\ h.at.cmd \in cmds)
      BY <1>4, <2>1 DEF Under, n
    <2> DEFINE Waits == \E i \in 1..Len(todo) : todo[i] \in cmds
    <2>3. CASE ~ Ends(h)
      <3>1. (\E i \in 1..Len(todo') : todo'[i] \in cmds) <=> Waits
        BY <1>2, <2>3
      <3> QED
        BY <1>10, <1>12, <2>2, <2>3, <3>1 DEF Pending
    <2>4. CASE Ends(h)
      <3>1. (\E i \in 1..Len(todo') : todo'[i] \in cmds) \/ Head(todo) \in cmds <=> Waits
        BY <1>2, <1>5, <2>4
      <3>2. TodoLive /\ Head(todo) \in cmds => place.heard
        BY <1>14 DEF TodoLive, Confirming
      <3>3. place.heard => TodoLive
        BY DEF TodoLive
      <3>4. Head(todo)[1] = "EOF" => \A i \in 1..Len(todo) : i = 1
        <4> SUFFICES ASSUME Head(todo)[1] = "EOF", NEW i \in 1..Len(todo), i # 1
                     PROVE  FALSE
          OBVIOUS
        <4>1. 1 \in 1..Len(todo) /\ 1 < Len(todo)
          BY <1>5
        <4> QED
          BY <1>1, <1>5, <4>1 DEF Control
      <3>5. CASE TodoLive /\ ~ TodoLive'
        <4>1. Waits <=> Head(todo) \in cmds
          BY <1>5, <1>10, <3>4, <3>5
        <4> QED
          BY <1>12, <2>2, <2>4, <3>2, <3>3, <3>5, <4>1 DEF Pending
      <3>6. CASE TodoLive' <=> TodoLive
        BY <1>12, <2>2, <2>4, <3>1, <3>2, <3>3, <3>6 DEF Pending
      <3> QED
        BY <1>10, <3>5, <3>6
    <2> QED
      BY <2>3, <2>4
  <1> QED
    BY <1>10, <1>11, <1>13, <1>14

(* A break adds nothing to what will be heard, and takes what is to send.  *)
LEMMA PendingBroken ==
  ASSUME RTypes, LineOK, SendBreak, todo' = todo
  PROVE  /\ \A cmds : Pending(cmds)' => Pending(cmds)
         /\ \A cmds : Under(cmds)' <=> Under(cmds)
         /\ TodoLive' => \A cmds : Pending(cmds)' <=> Pending(cmds)
         /\ Delivering' <=> Delivering
         /\ (TodoLive' => TodoLive) /\ (Confirmed' => Confirmed) /\ ~ place'.heard
  <1>1. /\ Len(c2s) \in Nat /\ Len(c2s') = Len(c2s) + 2
        /\ \A k \in 1..Len(c2s) : c2s'[k] = c2s[k]
        /\ Breaks(c2s'[Len(c2s) + 1]) /\ BreaksOff(c2s'[Len(c2s) + 2])
        /\ c2s'[Len(c2s) + 1] \in Items /\ c2s'[Len(c2s) + 2] \in Items
        /\ ~ place'.heard /\ place'.cut = (place.index > 0)
    BY SendBreakLine
  <1> DEFINE n == Len(c2s)
             m == Len(c2s')
  <1>2. /\ \A k \in 1..m : k \in 1..n \/ k = n + 1 \/ k = n + 2
        /\ \A k \in 1..n : k \in 1..m /\ c2s'[k] = c2s[k]
    BY <1>1
  <1>3. /\ ~ Delivers(c2s'[n + 1]) /\ ~ Revives(c2s'[n + 1])
        /\ ~ Delivers(c2s'[n + 2]) /\ ~ Revives(c2s'[n + 2])
    BY <1>1, Kinds DEF Revives, Live, Delivers
  <1>4. Confirming' => Confirming
    <2>1. place \in Places /\ PlaceOK(place)
      BY DEF RTypes, LineOK
    <2>2. place.index \in Nat
      BY <2>1 DEF Places
    <2>3. ~ place'.cut => ~ place.cut
      <3>1. ~ (place.index > 0) => place.index = 0
        BY <2>2
      <3> QED
        BY <1>1, <2>1, <3>1 DEF PlaceOK
    <2> QED
      BY <2>3 DEF Confirming
  <1> HIDE DEF n, m
  <1>5. Confirmed' => Confirmed
    BY <1>2, <1>3, <1>4 DEF Confirmed, n, m, Revives
  <1>6. TodoLive' => TodoLive
    BY <1>1, <1>4 DEF TodoLive
  <1>7. Delivering' <=> Delivering
    <2>1. Delivering' <=> \E k \in 1..m : Delivers(c2s'[k]) /\ c2s'[k].at.cmd[1] # "EOF"
      BY DEF Delivering, Delivers, Live, OfBreak, Ends, m
    <2> QED
      BY <1>2, <1>3, <2>1 DEF Delivering, n
  <1>8. ASSUME NEW cmds PROVE Under(cmds)' <=> Under(cmds)
    <2>1. Under(cmds)' <=> \E k \in 1..m : Delivers(c2s'[k]) /\ c2s'[k].at.cmd \in cmds
      BY DEF Under, Delivers, Live, OfBreak, Ends, m
    <2> QED
      BY <1>2, <1>3, <2>1 DEF Under, n
  <1>9. ASSUME NEW cmds
        PROVE  /\ Pending(cmds)' => Pending(cmds)
               /\ TodoLive' => (Pending(cmds)' <=> Pending(cmds))
    BY <1>6, <1>8 DEF Pending
  <1> QED
    BY <1>1, <1>5, <1>6, <1>7, <1>8, <1>9

-----------------------------------------------------------------------------
(* Steps that leave the keys where they are, and threaten none.            *)
LEMMA KeysKept ==
  ASSUME KeyOrder, KeyCount, UNCHANGED <<typed, accepted, breaks>>,
         \A cmds \in KeySets : Pending(cmds)' <=> Pending(cmds),
         Threatens' => Threatens, RTypes
  PROVE  KeyOrder' /\ KeyCount'
  <1>1. /\ Pending(Given)' <=> Pending(Given)
        /\ \A key \in Keys : Pending({Pressed(key)})' <=> Pending({Pressed(key)})
    BY KeySetsAre
  <1>2. /\ \A key : Latest(key)' <=> Latest(key)
        /\ Subsequence(accepted, typed)' <=> Subsequence(accepted, typed)
    BY DEF Latest, Subsequence, Front, Last
  <1>3. KeyOrder'
    BY <1>1, <1>2 DEF KeyOrder
  <1>4. KeyCount'
    <2>1. typed \in Seq(Keys) /\ accepted \in Seq(Keys) /\ breaks \in Nat
      BY DEF RTypes
    <2>2. Len(typed) \in Nat /\ Len(accepted) \in Nat
      BY <2>1
    <2> QED
      BY <1>1, <2>1, <2>2 DEF KeyCount
  <1> QED
    BY <1>3, <1>4

(* A key that is no longer under way may be lost.                          *)
LEMMA KeysDropped ==
  ASSUME KeyOrder, UNCHANGED <<typed, accepted>>, RTypes,
         \A cmds \in KeySets : Pending(cmds)' => Pending(cmds)
  PROVE  KeyOrder'
  <1>1. /\ Pending(Given)' => Pending(Given)
        /\ \A key \in Keys : Pending({Pressed(key)})' => Pending({Pressed(key)})
    BY KeySetsAre
  <1>2. /\ \A key : Latest(key)' <=> Latest(key)
        /\ Subsequence(accepted, typed)' <=> Subsequence(accepted, typed)
    BY DEF Latest, Subsequence, Front, Last
  <1>3. Subsequence(accepted, typed)
    <2>1. CASE Pending(Given)
      <3>1. PICK key \in Keys : Pending({Pressed(key)})
        BY <2>1, GivenByKey
      <3>2. typed # <<>> /\ Subsequence(accepted, Front(typed))
        BY <3>1 DEF KeyOrder, Latest
      <3>3. typed \in Seq(Keys) /\ accepted \in Seq(Keys)
        BY DEF RTypes
      <3> QED
        BY <3>2, <3>3, SubsequenceFront
    <2>2. CASE ~ Pending(Given)
      BY <2>2 DEF KeyOrder
    <2> QED
      BY <2>1, <2>2
  <1> QED
    BY <1>1, <1>2, <1>3 DEF KeyOrder

(* Who is asked for a key.                                                 *)
LEMMA AskedWhen ==
  ASSUME ReadOK, KeyAsked
  PROVE  srv \in {"key", "ack"} /\ at = "running"
  BY DEF ReadOK, KeyAsked

(* Without a question, or with the same one.                               *)
LEMMA NotAsked ==
  ASSUME ~ KeyAsked'
  PROVE  ReadOK'
  BY DEF ReadOK, KeyAsked

LEMMA AskedStays ==
  ASSUME ReadOK, s2c' = s2c, at' = at, srv' = srv \/ srv' \in {"key", "ack"}
  PROVE  ReadOK' /\ (KeyAsked' <=> KeyAsked)
  BY DEF ReadOK, KeyAsked

(* The break that is answered comes behind the question.                   *)
LEMMA AskedInterrupted ==
  ASSUME RTypes, ReadOK, s2c' = Append(s2c, <<"I">>), at' = at, srv' = "ack"
  PROVE  ReadOK' /\ (KeyAsked' <=> KeyAsked)
  <1>1. s2c \in Seq(Replies)
    BY DEF RTypes
  <1>2. /\ Len(s2c) \in Nat /\ Len(s2c') = Len(s2c) + 1
        /\ \A i \in 1..Len(s2c) : s2c'[i] = s2c[i] /\ i \in 1..Len(s2c')
        /\ s2c'[Len(s2c) + 1] = <<"I">>
    BY <1>1
  <1>3. \A i \in 1..Len(s2c') : i \in 1..Len(s2c) \/ i = Len(s2c) + 1
    BY <1>2
  <1>4. <<"I">> # TR
    BY DEF TR
  <1>5. KeyAsked' <=> KeyAsked
    BY <1>2, <1>3, <1>4 DEF KeyAsked
  <1>6. ASSUME NEW i \in 1..Len(s2c'), s2c'[i] = TR
        PROVE  /\ srv' \in {"key", "ack"} /\ at' = "running"
               /\ \A j \in 1..Len(s2c') : j # i => s2c'[j] = IF j < i THEN TW ELSE <<"I">>
    <2>1. i \in 1..Len(s2c) /\ s2c[i] = TR
      BY <1>2, <1>3, <1>4, <1>6
    <2>2. at = "running" /\ \A j \in 1..Len(s2c) : j # i => s2c[j] = IF j < i THEN TW ELSE <<"I">>
      BY <2>1 DEF ReadOK
    <2>3. ~ (Len(s2c) + 1 < i)
      BY <1>2, <2>1
    <2> QED
      BY <1>2, <1>3, <2>2, <2>3
  <1>7. ReadOK'
    BY <1>6 DEF ReadOK
  <1> QED
    BY <1>5, <1>7

(* Another frame to the client asks for nothing.                           *)
LEMMA AskedByNone ==
  ASSUME RTypes, ~ KeyAsked, NEW reply, reply # TR, s2c' = Append(s2c, reply)
  PROVE  ReadOK' /\ ~ KeyAsked'
  <1>1. s2c \in Seq(Replies)
    BY DEF RTypes
  <1>2. /\ Len(s2c) \in Nat /\ Len(s2c') = Len(s2c) + 1
        /\ \A i \in 1..Len(s2c) : s2c'[i] = s2c[i]
        /\ s2c'[Len(s2c) + 1] = reply
    BY <1>1
  <1>3. \A i \in 1..Len(s2c') : i \in 1..Len(s2c) \/ i = Len(s2c) + 1
    BY <1>2
  <1>4. ~ KeyAsked'
    BY <1>2, <1>3 DEF KeyAsked
  <1> QED
    BY <1>4, NotAsked

(* The client takes a frame: behind the question there is no other.        *)
LEMMA AskedTaken ==
  ASSUME RTypes, ReadOK, s2c # <<>>, s2c' = Tail(s2c)
  PROVE  /\ KeyAsked' => KeyAsked /\ Head(s2c) = TW
         /\ Head(s2c) = TR => KeyAsked
         /\ at' = at /\ srv' = srv => ReadOK'
  <1>1. s2c \in Seq(Replies)
    BY DEF RTypes
  <1>2. /\ Len(s2c) \in Nat /\ Len(s2c') = Len(s2c) - 1 /\ Head(s2c) = s2c[1] /\ 1 \in 1..Len(s2c)
        /\ \A i \in 1..Len(s2c') : s2c'[i] = s2c[i + 1]
    BY <1>1
  <1>3. \A i \in 1..Len(s2c') : i + 1 \in 1..Len(s2c) /\ i + 1 # 1 /\ 1 < i + 1 /\ i \in Nat
    BY <1>2
  <1>4. ASSUME KeyAsked'
        PROVE  KeyAsked /\ Head(s2c) = TW
    <2>1. PICK i \in 1..Len(s2c') : s2c'[i] = TR
      BY <1>4 DEF KeyAsked
    <2>2. i + 1 \in 1..Len(s2c) /\ s2c[i + 1] = TR
      BY <1>2, <1>3, <2>1
    <2>3. 1 # i + 1 /\ 1 < i + 1
      BY <1>3
    <2> QED
      BY <1>2, <2>2, <2>3 DEF KeyAsked, ReadOK
  <1>5. Head(s2c) = TR => KeyAsked
    BY <1>2 DEF KeyAsked
  <1>6. ASSUME at' = at, srv' = srv, NEW i \in 1..Len(s2c'), s2c'[i] = TR
        PROVE  /\ srv' \in {"key", "ack"} /\ at' = "running"
               /\ \A j \in 1..Len(s2c') : j # i => s2c'[j] = IF j < i THEN TW ELSE <<"I">>
    <2>1. i + 1 \in 1..Len(s2c) /\ s2c[i + 1] = TR
      BY <1>2, <1>3, <1>6
    <2>2. /\ srv \in {"key", "ack"} /\ at = "running"
          /\ \A j \in 1..Len(s2c) : j # i + 1 => s2c[j] = IF j < i + 1 THEN TW ELSE <<"I">>
      BY <2>1 DEF ReadOK
    <2>3. ASSUME NEW j \in 1..Len(s2c'), j # i
          PROVE  s2c'[j] = IF j < i THEN TW ELSE <<"I">>
      <3>1. j + 1 \in 1..Len(s2c) /\ j + 1 # i + 1 /\ (j < i <=> j + 1 < i + 1)
        BY <1>2, <1>3, <2>3
      <3> QED
        BY <1>2, <2>2, <3>1
    <2> QED
      BY <1>6, <2>2, <2>3
  <1>7. at' = at /\ srv' = srv => ReadOK'
    BY <1>6 DEF ReadOK
  <1> QED
    BY <1>4, <1>5, <1>7

-----------------------------------------------------------------------------
(* A byte in a frame, or of a break, ends no frame.                        *)
LEMMA GetByteInside ==
  ASSUME RemoteInv, NEW where \in {"idle", "key", "ack"}, GetByte(where)
  PROVE  ~ Delivers(Head(c2s))
  <1>1. RTypes /\ LineOK /\ InStep
    BY DEF RemoteInv
  <1>2. srv \in {"idle", "key", "ack"} /\ c2s # <<>> /\ Continues(rx, Head(c2s).byte)
    BY DEF GetByte, Read
  <1>3. Receives(Head(c2s), srv, rx)
    BY <1>1, <1>2, ReadsReceives
  <1>4. /\ Head(c2s) \in Items /\ PlaceOK(Head(c2s).at)
        /\ \/ Starts(Head(c2s)) \/ Escapes(Head(c2s)) \/ Carries(Head(c2s)) \/ Breaks(Head(c2s))
    BY <1>2, <1>3, FitsByte DEF Receives
  <1>5. ASSUME NEW h \in Items, PlaceOK(h.at), Starts(h) \/ Escapes(h) \/ Carries(h) \/ Breaks(h)
        PROVE  ~ Ends(h)
    <2>1. Len(h.at.cmd) \in Nat => Len(h.at.cmd) + 1 \notin 1..Len(h.at.cmd)
      OBVIOUS
    <2>2. Ends(h) => /\ h.at.index = Len(h.at.cmd) + 1 /\ h.at.index > 0
                     /\ h.byte = END_FRAME /\ Len(h.at.cmd) \in Nat
      <3>1. Ends(h) => h.at.cmd \in Contents
        BY <1>5, ItemFields
      <3>2. h.at.cmd \in Contents => Len(h.at.cmd) \in 1..2
        BY ContentShape
      <3> QED
        BY <3>1, <3>2 DEF Ends
    <2> QED
      BY <1>5, <2>1, <2>2, SpecialDiffer DEF Starts, Escapes, Carries, Breaks
  <1> QED
    BY <1>4, <1>5 DEF Delivers

(* Bytes that end nothing, read in each of the three waiting states.       *)
LEMMA GetByteKeys ==
  ASSUME RemoteInv, KeyInv, NEW where \in {"idle", "key", "ack"}, GetByte(where)
  PROVE  KeyInv'
  <1>1. RTypes /\ LineOK /\ InStep
    BY DEF RemoteInv
  <1>2. /\ ReadsByte /\ srv' = srv /\ s2c' = s2c /\ at' = at
        /\ UNCHANGED <<typed, accepted, breaks>> /\ srv \in {"idle", "key", "ack"}
        /\ Continues(rx, Head(c2s).byte)
    BY DEF GetByte, Read, ReadsByte, client
  <1>3. ~ Delivers(Head(c2s))
    BY GetByteInside
  <1>4. /\ \A cmds : Pending(cmds)' <=> Pending(cmds)
        /\ Delivering' => Delivering
        /\ TodoLive' <=> TodoLive
        /\ Confirmed' => Confirmed
    BY <1>1, <1>2, <1>3, PendingRead
  <1>5. ReadOK' /\ (KeyAsked' <=> KeyAsked)
    BY <1>2, AskedStays DEF KeyInv
  <1>6. Threatens' => Threatens
    BY <1>2, <1>4, <1>5 DEF Threatens, Open, Then
  <1> QED
    BY <1>1, <1>2, <1>4, <1>5, <1>6, KeysKept DEF KeyInv

(* A break is read, or the end of a file, and answered.                    *)
LEMMA InterruptsKeys ==
  ASSUME RemoteInv, KeyInv, Interrupts
  PROVE  KeyInv'
  <1>1. RTypes /\ LineOK /\ AckOK'
    BY InterruptsInv DEF RemoteInv
  <1>2. /\ ReadsByte /\ srv' = "ack" /\ s2c' = Append(s2c, <<"I">>) /\ at' = at
        /\ UNCHANGED <<typed, accepted, breaks>>
        /\ OfBreak(Head(c2s)) \/ Closes(Head(c2s))
    BY DEF Interrupts, ReadsByte, client, AckConsole, Send
  <1>3. Delivers(Head(c2s)) => Head(c2s).at.cmd[1] = "EOF"
    <2>1. Head(c2s) \in Items /\ PlaceOK(Head(c2s).at) /\ ItemOK(Head(c2s))
      BY <1>1, <1>2, HeadItem DEF ReadsByte
    <2>2. Ends(Head(c2s)) => (Head(c2s).after.heard <=>
            (Head(c2s).at.heard /\ Head(c2s).at.cmd[1] # "EOF")
              \/ (Head(c2s).at.cmd = <<"C">> /\ ~ Head(c2s).at.cut))
      BY <2>1, ItemFields
    <2> QED
      BY <1>2, <2>2 DEF Delivers, Live, OfBreak, Closes
  <1>4. /\ \A cmds \in KeySets : Pending(cmds)' <=> Pending(cmds)
        /\ TodoLive' <=> TodoLive
    <2>1. \A cmds \in KeySets : \A cmd \in cmds : cmd[1] # "EOF"
      BY DEF KeySets, Given, Pressed
    <2> QED
      BY <1>1, <1>2, <1>3, <2>1, PendingRead
  <1>5. ReadOK' /\ (KeyAsked' <=> KeyAsked)
    BY <1>1, <1>2, AskedInterrupted DEF KeyInv
  <1>6. ~ Open'
    <2>1. s2c \in Seq(Replies)
      BY <1>1 DEF RTypes
    <2>2. Len(s2c') \in 1..Len(s2c') /\ s2c'[Len(s2c')] = <<"I">>
      BY <1>2, <2>1
    <2>3. ~ Confirmed'
      BY <1>1, <2>2 DEF AckOK
    <2> QED
      BY <1>2, <2>3 DEF Open
  <1>7. Threatens' => Threatens
    BY <1>2, <1>4, <1>5, <1>6 DEF Threatens
  <1> QED
    BY <1>1, <1>2, <1>4, <1>5, <1>7, KeysKept DEF KeyInv

(* A server that waits has nothing to hear next.                           *)
LEMMA AckHearsNothing ==
  ASSUME RemoteInv, srv = "ack", c2s # <<>>
  PROVE  ~ Live(Head(c2s))
  <1>1. RTypes /\ LineOK /\ HeardOK
    BY DEF RemoteInv
  <1>2. Head(c2s) = c2s[1] /\ 1 \in 1..Len(c2s)
    BY <1>1, HeadItem
  <1>3. \A i \in 1..(1 - 1) : FALSE
    OBVIOUS
  <1> QED
    BY <1>1, <1>2, <1>3 DEF HeardOK

(* Frames dropped by ack_console, and the 'C' that it waits for.           *)
LEMMA AckNothingKeys ==
  ASSUME RemoteInv, KeyInv, AckNothing
  PROVE  KeyInv'
  <1>1. RTypes /\ LineOK
    BY DEF RemoteInv
  <1>2. /\ ReadsByte /\ srv = "ack" /\ srv' = srv /\ s2c' = s2c /\ at' = at
        /\ UNCHANGED <<typed, accepted, breaks>> /\ c2s # <<>>
    BY DEF AckNothing, Read, ReadsByte, client
  <1>3. ~ Delivers(Head(c2s))
    BY <1>2, AckHearsNothing DEF Delivers
  <1>4. /\ \A cmds : Pending(cmds)' <=> Pending(cmds)
        /\ Delivering' => Delivering
        /\ TodoLive' <=> TodoLive
        /\ Confirmed' => Confirmed
    BY <1>1, <1>2, <1>3, PendingRead
  <1>5. ReadOK' /\ (KeyAsked' <=> KeyAsked)
    BY <1>2, AskedStays DEF KeyInv
  <1>6. Threatens' => Threatens
    BY <1>2, <1>4, <1>5 DEF Threatens, Open, Then
  <1> QED
    BY <1>1, <1>2, <1>4, <1>5, <1>6, KeysKept DEF KeyInv

LEMMA AcknowledgedKeys ==
  ASSUME RemoteInv, KeyInv, Acknowledged
  PROVE  KeyInv'
  <1>1. RTypes /\ LineOK /\ AckOK
    BY DEF RemoteInv
  <1>2. /\ ReadsByte /\ srv = "ack" /\ srv' = "idle" /\ s2c' = s2c /\ at' = at
        /\ UNCHANGED <<typed, accepted, breaks>> /\ c2s # <<>>
    BY DEF Acknowledged, GetFrame, Read, ReadsByte, client
  <1>3. Open /\ Then = "idle"
    <2>1. Revives(Head(c2s))
      BY Confirms
    <2>2. Head(c2s) = c2s[1] /\ 1 \in 1..Len(c2s)
      BY <1>1, <1>2, HeadItem
    <2> QED
      BY <1>2, <2>1, <2>2 DEF Open, Confirmed, Then
  <1>4. ~ KeyAsked'
    <2>1. ASSUME s2c # <<>>
          PROVE  FALSE
      <3>1. s2c \in Seq(Replies)
        BY <1>1 DEF RTypes
      <3>2. Len(s2c) \in 1..Len(s2c) /\ s2c[Len(s2c)] = <<"I">>
        BY <1>1, <1>2, <2>1, <3>1 DEF AckOK
      <3> QED
        BY <1>1, <1>2, <1>3, <3>2 DEF AckOK, Open
    <2> QED
      BY <1>2, <2>1, NoFrames DEF KeyAsked
  <1>5. ~ Delivers(Head(c2s))
    BY <1>2, AckHearsNothing DEF Delivers
  <1>6. /\ \A cmds : Pending(cmds)' <=> Pending(cmds)
        /\ TodoLive' <=> TodoLive
    BY <1>1, <1>2, <1>5, PendingRead
  <1>7. ReadOK'
    BY <1>4, NotAsked
  <1>8. Threatens' => Threatens
    BY <1>2, <1>3, <1>6 DEF Threatens
  <1> QED
    BY <1>1, <1>2, <1>6, <1>7, <1>8, KeysKept DEF KeyInv

(* A command is no key.                                                    *)
LEMMA DispatchKeys ==
  ASSUME RemoteInv, KeyInv, Dispatch
  PROVE  KeyInv'
  <1>1. RTypes /\ LineOK
    BY DEF RemoteInv
  <1>2. /\ ReadsByte /\ srv = "idle" /\ at' = at
        /\ UNCHANGED <<typed, accepted, breaks>> /\ GetFrame("idle")
    BY DEF Dispatch, GetFrame, Read, ReadsByte, client
  <1>3. PICK cmd : Takes(cmd)
    BY <1>2, TakesFrame
  <1>4. cmd = Head(c2s).at.cmd /\ cmd[1] # "1"
    <2>1. cmd \in Contents /\ Expects(cmd) /\ cmd = Head(c2s).at.cmd
      BY <1>3 DEF Takes
    <2> QED
      BY <1>2, <2>1 DEF Expects, Due, Then, Deposit, Examine
  <1>5. \A cmds \in KeySets : Pending(cmds)' <=> Pending(cmds)
    BY <1>1, <1>2, <1>4, PendingRead, KeyCommands
  <1>6. TodoLive' <=> TodoLive
    BY <1>1, <1>2, PendingRead
  <1>7. Threatens' => Threatens
    BY <1>2, <1>6 DEF Threatens, Open, Then
  <1>8. ReadOK'
    <2>1. ~ KeyAsked
      BY <1>2, AskedWhen DEF KeyInv
    <2>2. s2c' = s2c \/ \E reg : s2c' = Append(s2c, Value(reg))
      BY DEF Dispatch, Send
    <2>3. \A reg : Value(reg) # TR
      BY DEF Value, TR
    <2>4. CASE s2c' = s2c
      BY <2>1, <2>4, NotAsked DEF KeyAsked
    <2>5. CASE \E reg : s2c' = Append(s2c, Value(reg))
      BY <1>1, <2>1, <2>3, <2>5, AskedByNone
    <2> QED
      BY <2>2, <2>4, <2>5
  <1> QED
    BY <1>1, <1>2, <1>5, <1>7, <1>8, KeysKept DEF KeyInv

(* A frame that does not end the run is a key, or says that there is none. *)
LEMMA KeyOrEnd ==
  ASSUME RemoteInv, KeyFrame, ~ Interrupts, NEW cmd, Takes(cmd)
  PROVE  cmd[1] # "EOF"
  BY KeyFrameEnds

(* tty_process gets the key that was under way, or that there is none.     *)
LEMMA KeyGivenKeys ==
  ASSUME RemoteInv, KeyInv, KeyFrame, ~ Interrupts
  PROVE  KeyInv'
  <1>1. RTypes /\ LineOK
    BY DEF RemoteInv
  <1>2. /\ ReadsByte /\ srv = "key" /\ at' = at
        /\ UNCHANGED <<typed, breaks>> /\ GetFrame("key")
    BY DEF KeyFrame, GetFrame, Read, ReadsByte, client
  <1>3. PICK cmd : Takes(cmd)
    BY <1>2, TakesFrame
  <1>4. /\ cmd \in Contents /\ s2c = <<>> /\ cmd[1] \in {"0", "1"} /\ rx.len # 0
        /\ Len(cmd) = 2 /\ cmd[2] \in Keys /\ rx.buf[1] = cmd[1] /\ rx.buf[2] = cmd[2]
        /\ cmd = Head(c2s).at.cmd /\ Delivers(Head(c2s))
    <2>1. /\ cmd \in Contents /\ s2c = <<>> /\ cmd[1] \in {"0", "1"} /\ rx.len # 0
          /\ cmd = Head(c2s).at.cmd /\ Delivers(Head(c2s))
      BY <1>2, <1>3, KeyOrEnd DEF Takes, Expects, Due, Then, Delivers
    <2>2. Len(cmd) = 2 /\ cmd[2] \in Keys
      BY <2>1, ContentShape
    <2> QED
      BY <1>3, <2>1, <2>2 DEF Takes
  <1>5. /\ srv' = "print" /\ s2c' = s2c
        /\ accepted' = IF cmd[1] = "1" THEN Append(accepted, cmd[2]) ELSE accepted
    BY <1>4 DEF KeyFrame
  (* Nothing more is under way.                                            *)
  <1>6. \A cmds : ~ Pending(cmds)'
    <2>1. todo' = <<>> /\ \A k \in 1..Len(c2s') : ~ Live(c2s'[k])
      BY <1>2, <1>3, <1>4 DEF Takes, ReadsByte, client
    <2>2. \A i \in 1..Len(todo') : FALSE
      BY <2>1
    <2> QED
      BY <2>1, <2>2 DEF Pending, Under, Delivers, Live, OfBreak
  <1>7. ReadOK' /\ ~ KeyAsked'
    <2>1. \A i \in 1..Len(s2c') : FALSE
      BY <1>4, <1>5
    <2> QED
      BY <2>1, NotAsked DEF KeyAsked
  <1>8. Threatens' => Threatens
    <2>1. TodoLive' <=> TodoLive
      BY <1>1, <1>2, PendingRead
    <2>2. Delivering
      <3>1. Head(c2s) = c2s[1] /\ 1 \in 1..Len(c2s)
        BY <1>1, <1>2, ReadsLine
      <3> QED
        BY <1>4, <3>1 DEF Delivering
    <2> QED
      BY <1>2, <2>1, <2>2 DEF Threatens, Open
  <1>9. typed \in Seq(Keys) /\ accepted \in Seq(Keys) /\ breaks \in Nat
    BY <1>1 DEF RTypes
  <1>10. ~ Pending(Given)' /\ \A key \in Keys : ~ Pending({Pressed(key)})'
    BY <1>6
  <1>11. CASE cmd[1] = "1"
    <2> DEFINE key == cmd[2]
    <2>1. cmd = Pressed(key) /\ key \in Keys
      <3>1. cmd = <<cmd[1], cmd[2]>>
        BY <1>4, ContentPair
      <3> QED
        BY <1>4, <1>11, <3>1 DEF Pressed
    <2>2. Pending({Pressed(key)}) /\ Pending(Given)
      <3>1. Head(c2s) = c2s[1] /\ 1 \in 1..Len(c2s)
        BY <1>1, <1>2, ReadsLine
      <3> QED
        BY <1>4, <2>1, <3>1 DEF Pending, Under, Given
    <2>3. typed # <<>> /\ key = Last(typed) /\ Subsequence(accepted, Front(typed))
      BY <2>1, <2>2 DEF KeyInv, KeyOrder, Latest
    <2>4. accepted' = Append(accepted, key)
      BY <1>5, <1>11
    <2> HIDE DEF key
    <2>5. Subsequence(accepted', typed)
      <3> DEFINE f == Front(typed)
      <3>1. f \in Seq(Keys) /\ typed = Append(f, key) /\ Subsequence(accepted, f)
        BY <1>9, <2>3, FrontLast
      <3> HIDE DEF f
      <3> QED
        BY <1>9, <2>1, <2>4, <3>1, SubsequenceBoth
    <2>6. KeyOrder'
      <3>1. Subsequence(accepted', typed')
        BY <1>2, <2>5
      <3>2. Subsequence(accepted, typed)'
        BY <3>1 DEF Subsequence
      <3> QED
        BY <1>10, <3>2 DEF KeyOrder
    <2>7. KeyCount'
      <3>1. Len(typed) + (IF Threatens THEN 1 ELSE 0) <= Len(accepted) + breaks + 1
        BY <2>2 DEF KeyInv, KeyCount
      <3>2. Len(accepted') = Len(accepted) + 1 /\ Len(accepted) \in Nat /\ Len(typed) \in Nat
        BY <1>9, <2>1, <2>4
      <3>3. Len(typed') + (IF Threatens' THEN 1 ELSE 0) <= Len(accepted') + breaks'
        BY <1>2, <1>8, <1>9, <3>1, <3>2
      <3> QED
        BY <1>2, <1>9, <1>10, <3>2, <3>3 DEF KeyCount
    <2> QED
      BY <1>7, <2>6, <2>7 DEF KeyInv
  <1>12. CASE cmd[1] # "1"
    <2>1. accepted' = accepted
      BY <1>5, <1>12
    <2>2. \A cmds \in KeySets : Pending(cmds)' <=> Pending(cmds)
      BY <1>1, <1>2, <1>4, <1>12, PendingRead, KeyCommands
    <2> QED
      BY <1>1, <1>2, <1>7, <1>8, <2>1, <2>2, KeysKept DEF KeyInv
  <1> QED
    BY <1>11, <1>12

(* In the loop of machine_run: no key is under way, one may be asked for.  *)
LEMMA LoopKeys ==
  ASSUME RemoteInv, KeyInv, PollNothing \/ NoPrint \/ Turn \/ PrintKey \/ AskKey \/ Stop
  PROVE  KeyInv'
  <1>1. /\ RTypes /\ srv \in Loop /\ UNCHANGED <<c2s, client, counts>>
    BY DEF RemoteInv, PollNothing, NoPrint, Turn, PrintKey, AskKey, Stop, Loop
  <1>2. /\ at' = at /\ todo' = todo /\ place' = place /\ c2s' = c2s
        /\ UNCHANGED <<typed, accepted, breaks>>
    BY <1>1 DEF client, counts
  <1>3. /\ \A cmds : Pending(cmds)' <=> Pending(cmds)
        /\ TodoLive' <=> TodoLive
    BY <1>2, PendingStays
  <1>4. Open /\ Then = srv /\ at = "running" /\ Queue({TW}) /\ srv # "ack" /\ srv # "key"
    BY <1>1, LoopQuiet DEF Loop
  <1>5. Threatens' => Threatens
    BY <1>2, <1>3, <1>4 DEF Threatens
  <1>6. ~ KeyAsked
    BY <1>4, AskedWhen DEF KeyInv
  <1>7. ReadOK'
    <2>1. CASE PollNothing \/ NoPrint \/ Turn
      <3>1. s2c' = s2c
        BY <2>1 DEF PollNothing, NoPrint, Turn
      <3> QED
        BY <1>6, <3>1, NotAsked DEF KeyAsked
    <2>2. CASE PrintKey
      <3>1. s2c' = Append(s2c, TW) /\ TW # TR
        BY <2>2 DEF PrintKey, Send, TW, TR
      <3> QED
        BY <1>1, <1>6, <3>1, AskedByNone
    <2>3. CASE Stop
      <3>1. PICK reason \in Reasons : s2c' = Append(s2c, <<reason>>)
        BY <2>3 DEF Stop, Send
      <3>2. <<reason>> # TR
        BY DEF TR
      <3> QED
        BY <1>1, <1>6, <3>1, <3>2, AskedByNone
    <2>4. CASE AskKey
      <3>1. s2c' = Append(s2c, TR) /\ srv' = "key" /\ s2c \in Seq(Replies)
        BY <1>1, <2>4 DEF AskKey, Send, TR, RTypes
      <3>2. /\ Len(s2c) \in Nat /\ Len(s2c') = Len(s2c) + 1
            /\ \A i \in 1..Len(s2c) : s2c'[i] = s2c[i]
        BY <3>1
      <3>3. \A i \in 1..Len(s2c') : i \in 1..Len(s2c) \/ i = Len(s2c) + 1
        BY <3>2
      <3>4. TW # TR
        BY DEF TW, TR
      <3>5. \A i \in 1..Len(s2c) : s2c'[i] = TW /\ i < Len(s2c) + 1
        BY <1>4, <3>2 DEF Queue
      <3> QED
        BY <1>2, <1>4, <3>1, <3>3, <3>4, <3>5 DEF ReadOK
    <2> QED
      BY <2>1, <2>2, <2>3, <2>4
  <1> QED
    BY <1>1, <1>2, <1>3, <1>5, <1>7, KeysKept DEF KeyInv

-----------------------------------------------------------------------------
(* The client sends a byte.                                                *)
LEMMA WriteByteKeys ==
  ASSUME RemoteInv, KeyInv, WriteByte
  PROVE  KeyInv'
  <1>1. RTypes
    BY DEF RemoteInv
  <1>2. /\ srv' = srv /\ s2c' = s2c /\ at' = at /\ UNCHANGED <<typed, accepted, breaks>>
    BY DEF WriteByte, server, counts
  <1>3. /\ \A cmds \in KeySets : Pending(cmds)' <=> Pending(cmds)
        /\ Delivering' => Delivering \/ TodoLive'
        /\ TodoLive' => TodoLive
        /\ TodoLive /\ ~ TodoLive' => Head(todo)[1] = "EOF"
        /\ Confirmed' <=> Confirmed
    BY PendingWritten, KeyCommands
  <1>4. ReadOK' /\ (KeyAsked' <=> KeyAsked)
    BY <1>2, AskedStays DEF KeyInv
  <1>5. Threatens' => Threatens
    <2>1. CASE TodoLive' <=> TodoLive
      BY <1>2, <1>3, <1>4, <2>1 DEF Threatens, Open, Then
    <2>2. CASE TodoLive /\ ~ TodoLive'
      <3>1. 1 \in 1..Len(todo) /\ Head(todo) = todo[1] /\ todo # <<>>
        <4>1. todo \in Seq(Contents) /\ todo # <<>>
          BY <1>1 DEF RTypes, WriteByte
        <4> QED
          BY <4>1
      <3>2. s2c = <<>> /\ (todo[1] = <<"C">> \/ Expects(todo[1])) /\ todo[1][1] = "EOF"
        BY <1>3, <2>2, <3>1, TodoExpected
      <3>3. Then = "key"
        BY <3>2 DEF Expects, Due, Deposit, Examine
      <3>4. ~ Delivering
        <4> SUFFICES ASSUME NEW k \in 1..Len(c2s), Delivers(c2s[k])
                     PROVE  FALSE
          BY DEF Delivering
        <4>1. Expects(c2s[k].at.cmd) /\ c2s[k].at.cmd[1] = "D"
          BY <3>1, DeliversExpected
        <4> QED
          BY <3>3, <4>1 DEF Expects, Due
      <3>5. ~ KeyAsked'
        BY <1>4, <3>2, NoFrames DEF KeyAsked
      <3> QED
        BY <1>2, <1>3, <2>2, <3>3, <3>4, <3>5 DEF Threatens, Then
    <2> QED
      BY <1>3, <2>1, <2>2
  <1> QED
    BY <1>1, <1>2, <1>3, <1>4, <1>5, KeysKept DEF KeyInv

(* Two that are not both: a key to be sent that a break makes lost, and a  *)
(* break that may lose another.                                            *)
LEMMA BreakLosesOne ==
  ASSUME RemoteInv, SendBreak, UNCHANGED <<s2c, todo, srv>>, Pending(Given), ~ Pending(Given)'
  PROVE  ~ Threatens'
  <1>1. RTypes /\ LineOK
    BY DEF RemoteInv
  <1>2. /\ Under(Given)' <=> Under(Given)
        /\ Delivering' <=> Delivering
        /\ Confirmed' => Confirmed
    BY <1>1, PendingBroken
  <1>3. TodoLive /\ \E i \in 1..Len(todo) : todo[i] \in Given
    BY <1>2 DEF Pending
  <1>4. Open /\ Then = "key" /\ s2c = <<>>
    BY KeyUnderWay
  <1>5. todo # <<>>
    BY <1>3, NoFrames
  <1>6. ~ Delivering
    <2> SUFFICES ASSUME NEW k \in 1..Len(c2s), Delivers(c2s[k])
                 PROVE  FALSE
      BY DEF Delivering
    <2>1. Expects(c2s[k].at.cmd) /\ c2s[k].at.cmd[1] = "D"
      BY <1>5, DeliversExpected
    <2> QED
      BY <1>4, <2>1 DEF Expects, Due
  <1>7. ~ KeyAsked'
    BY <1>4, NoFrames DEF KeyAsked
  <1> QED
    BY <1>2, <1>4, <1>6, <1>7 DEF Threatens, Then

(* A SIGINT may lose the key that is being sent, or the next one.          *)
LEMMA SigintKeys ==
  ASSUME RemoteInv, KeyInv, Sigint
  PROVE  KeyInv'
  <1>1. RTypes /\ LineOK
    BY DEF RemoteInv
  <1>2. /\ SendBreak /\ UNCHANGED <<s2c, todo, srv, at, typed, accepted>> /\ breaks' = breaks + 1
    BY DEF Sigint, server
  <1>3. \A cmds : Pending(cmds)' => Pending(cmds)
    BY <1>1, <1>2, PendingBroken
  <1>4. ReadOK'
    BY <1>2, AskedStays DEF KeyInv
  <1>5. KeyOrder'
    BY <1>1, <1>2, <1>3, KeysDropped DEF KeyInv
  <1>6. KeyCount'
    <2>1. ~ (Pending(Given) /\ ~ Pending(Given)' /\ Threatens')
      BY <1>2, BreakLosesOne
    <2>2. typed \in Seq(Keys) /\ accepted \in Seq(Keys) /\ breaks \in Nat
      BY <1>1 DEF RTypes
    <2>3. Len(typed) \in Nat /\ Len(accepted) \in Nat
      BY <2>2
    <2>4. KeyCount
      BY DEF KeyInv
    <2> QED
      BY <1>2, <1>3, <2>1, <2>2, <2>3, <2>4 DEF KeyCount
  <1> QED
    BY <1>4, <1>5, <1>6 DEF KeyInv

(* A break out of machine_halt threatens no key.                           *)
LEMMA EnterHaltKeys ==
  ASSUME RemoteInv, KeyInv, EnterHalt
  PROVE  KeyInv'
  <1>1. RTypes /\ LineOK
    BY DEF RemoteInv
  <1>2. /\ SendBreak /\ todo' = todo /\ todo = <<>> /\ s2c' = s2c
        /\ UNCHANGED <<typed, accepted, breaks>> /\ at = "prompt" /\ at' = "halting"
    BY DEF EnterHalt, Enter
  <1>3. \A i \in 1..Len(todo) : FALSE
    BY <1>2, NoFrames
  <1>4. \A cmds : Pending(cmds)' <=> Pending(cmds)
    <2>1. \A cmds : Under(cmds)' <=> Under(cmds)
      BY <1>1, <1>2, PendingBroken
    <2> QED
      BY <1>2, <1>3, <2>1 DEF Pending
  <1>5. ReadOK'
    <2>1. ~ KeyAsked
      BY <1>2, AskedWhen DEF KeyInv
    <2> QED
      BY <1>2, <2>1, NotAsked DEF KeyAsked
  <1>6. ~ Threatens'
    BY <1>2 DEF Threatens
  <1> QED
    BY <1>1, <1>2, <1>4, <1>5, <1>6, KeysKept DEF KeyInv

(* What else the client does, except for a key: it sends other frames when *)
(* all are sent, and no question comes.                                    *)
LEMMA TalkKeys ==
  ASSUME RemoteInv, KeyInv, todo = <<>>, UNCHANGED <<c2s, place, srv, typed, accepted, breaks>>,
         ReadOK', KeyAsked' => KeyAsked, at = "halting" => at' = "halting" \/ TodoLive',
         \A i \in 1..Len(todo') : todo'[i][1] # "1"
  PROVE  KeyInv'
  <1>1. RTypes
    BY DEF RemoteInv
  <1>2. /\ \A cmds : Under(cmds)' <=> Under(cmds)
        /\ Delivering' <=> Delivering
    BY UnderStays
  <1>3. \A i \in 1..Len(todo) : FALSE
    BY NoFrames
  <1>4. \A cmds \in KeySets : Pending(cmds)' <=> Pending(cmds)
    BY <1>2, <1>3, KeyCommands DEF Pending
  <1>5. ~ Confirming /\ (TodoLive => TodoLive')
    BY DEF TodoLive, Confirming
  <1>6. ~ TodoLive' /\ Confirmed' => Confirmed
    BY DEF TodoLive, Confirmed, Revives
  <1>7. Threatens' => Threatens
    BY <1>2, <1>5, <1>6 DEF Threatens, Open, Then
  <1> QED
    BY <1>1, <1>4, <1>7, KeysKept DEF KeyInv

(* Frames that are no keys.                                                *)
LEMMA NoKeys ==
  /\ \A q : q = <<>> => \A i \in 1..Len(q) : q[i][1] # "1"
  /\ \A q, cmd : q = <<cmd>> /\ cmd[1] # "1" => \A i \in 1..Len(q) : q[i][1] # "1"
  /\ \A q, cmd, other : q = <<cmd, other>> /\ cmd[1] # "1" /\ other[1] # "1" =>
       \A i \in 1..Len(q) : q[i][1] # "1"
  /\ \A reg : Examine(reg)[1] # "1" /\ Deposit(reg)[1] # "1"
  /\ <<"C">>[1] # "1" /\ <<"Q">>[1] # "1" /\ <<"R">>[1] # "1" /\ <<"S">>[1] # "1"
  <1>1. ASSUME NEW q, NEW cmd, q = <<cmd>>, cmd[1] # "1"
        PROVE  \A i \in 1..Len(q) : q[i][1] # "1"
    BY <1>1
  <1>2. ASSUME NEW q, NEW cmd, NEW other, q = <<cmd, other>>, cmd[1] # "1", other[1] # "1"
        PROVE  \A i \in 1..Len(q) : q[i][1] # "1"
    <2>1. Len(q) = 2 /\ q[1] = cmd /\ q[2] = other
      BY <1>2
    <2>2. \A i \in 1..2 : i = 1 \/ i = 2
      OBVIOUS
    <2> QED
      BY <1>2, <2>1, <2>2
  <1>3. \A reg : Examine(reg)[1] # "1" /\ Deposit(reg)[1] # "1"
    BY DEF Examine, Deposit
  <1>4. <<"C">>[1] # "1" /\ <<"Q">>[1] # "1" /\ <<"R">>[1] # "1" /\ <<"S">>[1] # "1"
    OBVIOUS
  <1> QED
    BY <1>1, <1>2, <1>3, <1>4, NoFrames

(* A command of the operator.                                              *)
LEMMA EnterKeys ==
  ASSUME RemoteInv, KeyInv,
         \/ EnterRun \/ EnterStep \/ EnterExamine \/ EnterSave \/ EnterTrace \/ EnterExit
         \/ EnterRestore
  PROVE  KeyInv'
  <1>1. /\ at = "prompt" /\ todo = <<>> /\ UNCHANGED <<c2s, place, s2c, srv, typed, accepted, breaks>>
    BY DEF EnterRun, EnterStep, EnterExamine, EnterSave, EnterTrace, EnterExit, EnterRestore,
           Enter, Frames, server
  <1>2. ReadOK' /\ ~ KeyAsked'
    <2>1. ~ KeyAsked
      BY <1>1, AskedWhen DEF KeyInv
    <2> QED
      BY <1>1, <2>1, NotAsked DEF KeyAsked
  <1>3. \A i \in 1..Len(todo') : todo'[i][1] # "1"
    <2>1. CASE EnterRun
      BY <2>1, NoKeys DEF EnterRun, Frames
    <2>2. CASE EnterStep \/ EnterExamine \/ EnterSave \/ EnterExit
      <3>1. todo' = <<Examine(Head(Regs))>>
        BY <2>2 DEF EnterStep, EnterExamine, EnterSave, EnterExit, Frames
      <3> QED
        BY <3>1, NoKeys
    <2>3. CASE EnterTrace
      <3>1. todo' = <<Deposit("T"), Examine("T")>>
        BY <2>3 DEF EnterTrace, Frames
      <3> QED
        BY <3>1, NoKeys
    <2>4. CASE EnterRestore
      <3>1. todo' = [i \in 1..Len(Regs) |-> Deposit(Regs[i])] /\ Len(Regs) \in Nat
        BY <2>4, RegsContents, LenProperties DEF EnterRestore, Frames
      <3>2. \A i \in 1..Len(todo') : todo'[i] = Deposit(Regs[i])
        BY <3>1
      <3> QED
        BY <3>2, NoKeys
    <2> QED
      BY <2>1, <2>2, <2>3, <2>4
  <1> QED
    BY <1>1, <1>2, <1>3, TalkKeys

(* What a Receive leaves.                                                  *)
LEMMA Received ==
  ASSUME NEW where, Receive(where)
  PROVE  /\ at = where /\ todo = <<>> /\ s2c # <<>> /\ s2c' = Tail(s2c)
         /\ UNCHANGED <<c2s, place, srv, accepted, breaks>>
  BY DEF Receive, server

(* The client reads: in machine_halt, and what it asked for.               *)
LEMMA HaltingKeys ==
  ASSUME RemoteInv, KeyInv, Halting
  PROVE  KeyInv'
  <1>1. /\ at = "halting" /\ todo = <<>> /\ s2c # <<>> /\ s2c' = Tail(s2c)
        /\ UNCHANGED <<c2s, place, srv, typed, accepted, breaks>>
    BY Received DEF Halting
  <1>2. RTypes
    BY DEF RemoteInv
  <1>3. ReadOK' /\ ~ KeyAsked'
    BY <1>1, <1>2, AskedWhen, AskedTaken, NotAsked DEF KeyInv
  <1>4. CASE todo' = << <<"C">> >>
    <2>1. TodoLive'
      <3>1. ~ place.cut
        BY <1>1, Rests
      <3> QED
        BY <1>1, <1>4, <3>1 DEF TodoLive, Confirming
    <2> QED
      BY <1>1, <1>3, <1>4, <2>1, NoKeys, TalkKeys
  <1>5. CASE at' = "halting" /\ todo' = <<>>
    BY <1>1, <1>3, <1>5, NoKeys, TalkKeys
  <1> QED
    BY <1>1, <1>4, <1>5 DEF Halting

LEMMA AnswerKeys ==
  ASSUME RemoteInv, KeyInv, Answer
  PROVE  KeyInv'
  <1>1. /\ at = "asking" /\ todo = <<>> /\ s2c # <<>> /\ s2c' = Tail(s2c)
        /\ UNCHANGED <<c2s, place, srv, typed, accepted, breaks>>
    BY Received DEF Answer
  <1>2. RTypes
    BY DEF RemoteInv
  <1>3. ReadOK' /\ ~ KeyAsked'
    BY <1>1, <1>2, AskedWhen, AskedTaken, NotAsked DEF KeyInv
  <1>4. \A i \in 1..Len(todo') : todo'[i][1] # "1"
    <2>1. \/ todo' = <<Examine(Head(asked'))>> \/ todo' = << <<"R">> >> \/ todo' = << <<"S">> >>
          \/ todo' = << <<"Q">> >> \/ todo' = <<>>
      BY <1>1 DEF Answer, machine_quit
    <2> QED
      BY <2>1, NoKeys
  <1> QED
    BY <1>1, <1>3, <1>4, TalkKeys

(* The run ends: the question for a key would have come first.             *)
LEMMA RunEndsKeys ==
  ASSUME RemoteInv, KeyInv, Stopped \/ Stepped \/ Traced
  PROVE  KeyInv'
  <1>1. /\ at = "running" /\ todo = <<>> /\ s2c # <<>> /\ s2c' = Tail(s2c)
        /\ UNCHANGED <<c2s, place, srv, typed, accepted, breaks>>
        /\ Head(s2c)[1] \in {"I", "H", "B", "P", "S", "D"}
    BY Received DEF Stopped, Stepped, Traced
  <1>2. RTypes
    BY DEF RemoteInv
  <1>3. ReadOK' /\ ~ KeyAsked'
    <2>1. Head(s2c) # TW
      BY <1>1 DEF TW
    <2> QED
      BY <1>1, <1>2, <2>1, AskedTaken, NotAsked DEF KeyInv
  <1>4. \A i \in 1..Len(todo') : todo'[i][1] # "1"
    <2>1. CASE Stopped
      <3>1. \/ todo' = << <<"C">>, Examine(Head(Regs))>> \/ todo' = <<Examine(Head(Regs))>>
        BY <2>1, Joined DEF Stopped
      <3> QED
        BY <3>1, NoKeys
    <2>2. CASE Stepped
      BY <1>1, <2>2, NoKeys DEF Stepped
    <2>3. CASE Traced
      <3>1. todo' = <<Examine(Head(Regs))>>
        BY <2>3 DEF Traced
      <3> QED
        BY <3>1, NoKeys
    <2> QED
      BY <2>1, <2>2, <2>3
  <1> QED
    BY <1>1, <1>3, <1>4, TalkKeys

(* TTY_WRITE and TTY_READ of the server.                                   *)
LEMMA WriteKeyKeys ==
  ASSUME RemoteInv, KeyInv, WriteKey
  PROVE  KeyInv'
  <1>1. /\ at = "running" /\ at' = at /\ todo = <<>> /\ todo' = <<>> /\ s2c # <<>> /\ s2c' = Tail(s2c)
        /\ UNCHANGED <<c2s, place, srv, typed, accepted, breaks>>
    BY Received DEF WriteKey, client
  <1>2. RTypes
    BY DEF RemoteInv
  <1>3. ReadOK' /\ (KeyAsked' => KeyAsked)
    BY <1>1, <1>2, AskedTaken DEF KeyInv
  <1> QED
    BY <1>1, <1>3, NoKeys, TalkKeys

(* Before the client has read all frames to it, nothing more is heard.     *)
LEMMA NothingPending ==
  ASSUME RemoteInv, todo = <<>>, s2c # <<>>
  PROVE  ~ Delivering /\ \A cmds : ~ Pending(cmds)
  <1>1. \A k \in 1..Len(c2s) : ~ Delivers(c2s[k])
    BY DeliversExpected
  <1>2. \A i \in 1..Len(todo) : FALSE
    BY NoFrames
  <1> QED
    BY <1>1, <1>2 DEF Delivering, Pending, Under

(* A key is typed for the question of tty_process: it will be heard, or a  *)
(* break that has lost no key yet has lost this one.                       *)
LEMMA TypedKeys ==
  ASSUME RemoteInv, KeyInv, Receive("running"), Head(s2c) = TR, at' = at,
         NEW key \in Keys, typed' = Append(typed, key), todo' = <<Pressed(key)>>
  PROVE  KeyInv'
  <1>1. /\ at = "running" /\ todo = <<>> /\ s2c # <<>> /\ s2c' = Tail(s2c)
        /\ UNCHANGED <<c2s, place, srv, accepted, breaks>>
    BY Received
  <1>2. RTypes /\ AckOK
    BY DEF RemoteInv
  <1>3. ReadOK' /\ ~ KeyAsked' /\ KeyAsked /\ srv \in {"key", "ack"}
    <2>1. TR # TW
      BY DEF TR, TW
    <2> QED
      BY <1>1, <1>2, <2>1, AskedTaken, AskedWhen DEF KeyInv
  <1>4. ~ Delivering /\ ~ Delivering' /\ \A cmds : ~ Pending(cmds) /\ (Under(cmds)' <=> Under(cmds))
    BY <1>1, NothingPending, UnderStays
  <1>5. /\ ~ Confirming /\ ~ Confirming'
        /\ TodoLive <=> place.heard
        /\ TodoLive' <=> place.heard
    <2>1. Head(todo') = Pressed(key) /\ Pressed(key) # <<"C">>
      BY DEF Pressed
    <2> QED
      BY <1>1, <2>1 DEF TodoLive, Confirming
  <1>6. /\ \A i \in 1..Len(todo') : todo'[i] = Pressed(key)
        /\ 1 \in 1..Len(todo') /\ todo'[1] = Pressed(key)
    OBVIOUS
  <1>7. typed \in Seq(Keys) /\ accepted \in Seq(Keys) /\ breaks \in Nat
    BY <1>2 DEF RTypes
  <1>8. Len(typed') = Len(typed) + 1 /\ Len(typed) \in Nat /\ Len(accepted) \in Nat
    BY <1>7
  <1>9. KeyOrder'
    <2>1. Subsequence(accepted, typed) /\ Subsequence(accepted, typed')
      <3>1. Subsequence(accepted, typed)
        BY <1>4 DEF KeyInv, KeyOrder
      <3> QED
        BY <1>7, <3>1, SubsequenceLonger
    <2>2. typed' # <<>> /\ Front(typed') = typed /\ Last(typed') = key
      BY <1>7, FrontAppended
    <2>3. ASSUME NEW other \in Keys, Pending({Pressed(other)})'
          PROVE  other = key
      <3>1. \E i \in 1..Len(todo') : todo'[i] \in {Pressed(other)}
        BY <1>4, <2>3 DEF Pending
      <3>2. Pressed(key) = Pressed(other)
        BY <1>6, <3>1
      <3> QED
        BY <3>2 DEF Pressed
    <2>4. Subsequence(accepted', Front(typed')) /\ Subsequence(accepted', typed')
      BY <1>1, <2>1, <2>2
    <2>5. Latest(key)'
      BY <2>2, <2>4 DEF Latest, Subsequence, Front, Last
    <2>6. Subsequence(accepted, typed)'
      BY <2>4 DEF Subsequence
    <2>7. \A other \in Keys : Pending({Pressed(other)})' => Latest(other)'
      BY <2>3, <2>5
    <2> QED
      BY <2>6, <2>7 DEF KeyOrder
  <1>10. KeyCount'
    <2>1. Len(typed) + (IF Threatens THEN 1 ELSE 0) <= Len(accepted) + breaks
      BY <1>4, <1>7, <1>8 DEF KeyInv, KeyCount
    <2>2. CASE place.heard
      <3>1. Pending(Given)' /\ ~ Threatens'
        BY <1>5, <1>6, <2>2 DEF Pending, Given, Threatens
      <3>2. Len(typed') <= Len(accepted') + breaks' + 1
        BY <1>1, <1>7, <1>8, <2>1
      <3> QED
        BY <1>1, <1>7, <1>8, <3>1, <3>2 DEF KeyCount
    <2>3. CASE ~ place.heard
      <3>1. Threatens
        BY <1>1, <1>3, <1>5, <2>3 DEF Threatens
      <3>2. ~ Open' \/ srv = "key"
        <4>1. ASSUME srv = "ack" PROVE ~ Confirmed
          <5>1. s2c \in Seq(Replies)
            BY <1>2 DEF RTypes
          <5>2. Len(s2c) \in 1..Len(s2c) /\ s2c[Len(s2c)] = <<"I">>
            BY <1>1, <1>2, <4>1, <5>1 DEF AckOK
          <5> QED
            BY <1>2, <5>2 DEF AckOK
        <4>2. Confirmed' => Confirmed
          BY <1>1, <1>5 DEF Confirmed, Revives
        <4> QED
          BY <1>1, <1>3, <4>1, <4>2 DEF Open
      <3>3. ~ Threatens'
        BY <1>1, <1>3, <1>4, <3>2 DEF Threatens, Then
      <3>4. Len(typed') <= Len(accepted') + breaks'
        BY <1>1, <1>7, <1>8, <2>1, <3>1
      <3> QED
        BY <1>1, <1>7, <1>8, <3>3, <3>4 DEF KeyCount
    <2> QED
      BY <2>2, <2>3
  <1> QED
    BY <1>3, <1>9, <1>10 DEF KeyInv

LEMMA ReadKeyKeys ==
  ASSUME RemoteInv, KeyInv, ReadKey
  PROVE  KeyInv'
  <1>1. /\ Receive("running") /\ Head(s2c) = TR /\ at' = at
    BY DEF ReadKey, TR
  <1>2. PICK key \in Keys, result \in {"0", "EOF"} :
          \/ typed' = Append(typed, key) /\ todo' = << <<"1", key>> >>
          \/ typed' = typed /\ todo' = << <<result, key>> >>
    BY DEF ReadKey
  <1>3. CASE typed' = Append(typed, key) /\ todo' = << <<"1", key>> >>
    BY <1>1, <1>3, TypedKeys DEF Pressed
  <1>4. CASE typed' = typed /\ todo' = << <<result, key>> >>
    <2>1. /\ at = "running" /\ todo = <<>> /\ s2c # <<>> /\ s2c' = Tail(s2c)
          /\ UNCHANGED <<c2s, place, srv, typed, accepted, breaks>>
      BY <1>1, <1>4, Received
    <2>2. RTypes
      BY DEF RemoteInv
    <2>3. ReadOK' /\ (KeyAsked' => KeyAsked)
      BY <1>1, <2>1, <2>2, AskedTaken DEF KeyInv
    <2>4. \A i \in 1..Len(todo') : todo'[i][1] # "1"
      <3> DEFINE none == <<result, key>>
      <3>1. none[1] # "1" /\ todo' = <<none>>
        BY <1>4
      <3> HIDE DEF none
      <3> QED
        BY <3>1, NoKeys
    <2> QED
      BY <2>1, <2>3, <2>4, TalkKeys
  <1> QED
    BY <1>2, <1>3, <1>4

-----------------------------------------------------------------------------
LEMMA KeyInit ==
  ASSUME RemoteInit
  PROVE  KeyInv
  <1>1. /\ c2s = <<>> /\ s2c = <<>> /\ typed = <<>> /\ accepted = <<>> /\ breaks = 0
        /\ place.heard
        /\ todo = <<>> \/ todo = <<Deposit("P")>>
    BY DEF RemoteInit, Between
  <1>2. \A i \in 1..Len(todo) : todo[i][1] # "1"
    BY <1>1, NoKeys
  <1>3. (\A k \in 1..Len(c2s) : FALSE) /\ (\A i \in 1..Len(s2c) : FALSE)
    BY <1>1, NoFrames
  <1>4. \A cmds \in KeySets : ~ Pending(cmds)
    BY <1>2, <1>3, KeyCommands DEF Pending, Under
  <1>5. ReadOK
    BY <1>3 DEF ReadOK
  <1>6. KeyOrder
    BY <1>1, <1>4, KeySetsAre, SubsequenceEmpty DEF KeyOrder
  <1>7. KeyCount
    <2>1. ~ Threatens /\ ~ Pending(Given)
      BY <1>1, <1>4, KeySetsAre DEF Threatens, TodoLive
    <2>2. Len(typed) = 0 /\ Len(accepted) = 0
      BY <1>1
    <2> QED
      BY <1>1, <2>1, <2>2 DEF KeyCount
  <1> QED
    BY <1>5, <1>6, <1>7 DEF KeyInv

(* A step of nobody, and every step.                                       *)
LEMMA KeyIdle ==
  ASSUME RemoteInv, KeyInv, UNCHANGED remoteVars
  PROVE  KeyInv'
  <1>1. /\ UNCHANGED <<c2s, todo, place, s2c, srv, at, typed, accepted, breaks>>
    BY DEF remoteVars, client, server, counts
  <1>2. RTypes
    BY DEF RemoteInv
  <1>3. /\ \A cmds : Pending(cmds)' <=> Pending(cmds)
        /\ Delivering' <=> Delivering
        /\ TodoLive' <=> TodoLive
        /\ Confirmed' <=> Confirmed
    BY <1>1, PendingStays
  <1>4. ReadOK' /\ (KeyAsked' <=> KeyAsked)
    BY <1>1, AskedStays DEF KeyInv
  <1>5. Threatens' => Threatens
    BY <1>1, <1>3, <1>4 DEF Threatens, Open, Then
  <1> QED
    BY <1>1, <1>2, <1>3, <1>4, <1>5, KeysKept DEF KeyInv

LEMMA KeyNext ==
  ASSUME RemoteInv, KeyInv, [RemoteNext]_remoteVars
  PROVE  KeyInv'
  <1>1. CASE Client
    BY <1>1, WriteByteKeys, HaltingKeys, AnswerKeys, RunEndsKeys, ReadKeyKeys, WriteKeyKeys DEF Client
  <1>2. CASE Sigint
    BY <1>2, SigintKeys
  <1>3. CASE Operator
    BY <1>3, EnterKeys, EnterHaltKeys DEF Operator
  <1>4. CASE Server
    BY <1>4, GetByteKeys, BreakInterrupts, PollInterrupts, InterruptsKeys, DispatchKeys,
       LoopKeys, KeyGivenKeys, AckNothingKeys, AcknowledgedKeys
       DEF Server, Idle, KeyByte, AckByte
  <1>5. CASE UNCHANGED remoteVars
    BY <1>5, KeyIdle
  <1> QED
    BY <1>1, <1>2, <1>3, <1>4, <1>5 DEF RemoteNext

(* tty_process gets the keys in the order typed and none twice, and each   *)
(* SIGINT loses one at most, whatever breaks and frames are under way.     *)
THEOREM KeysOrdered == RemoteSpec => []KeysInOrder
  <1>1. RemoteInit => RemoteInv /\ KeyInv
    BY RemoteInitInv, KeyInit
  <1>2. RemoteInv /\ KeyInv /\ [RemoteNext]_remoteVars => (RemoteInv /\ KeyInv)'
    BY RemoteNextInv, KeyNext
  <1>3. RemoteInv /\ KeyInv => KeysInOrder
    <2> SUFFICES ASSUME RemoteInv, KeyInv
                 PROVE  KeysInOrder
      OBVIOUS
    <2>1. typed \in Seq(Keys) /\ accepted \in Seq(Keys) /\ breaks \in Nat
      BY DEF RemoteInv, RTypes
    <2>2. Subsequence(accepted, typed)
      <3>1. CASE Pending(Given)
        <4>1. PICK key \in Keys : Pending({Pressed(key)})
          BY <3>1, GivenByKey
        <4>2. typed # <<>> /\ Subsequence(accepted, Front(typed))
          BY <4>1 DEF KeyInv, KeyOrder, Latest
        <4> QED
          BY <2>1, <4>2, SubsequenceFront
      <3>2. CASE ~ Pending(Given)
        BY <3>2 DEF KeyInv, KeyOrder
      <3> QED
        BY <3>1, <3>2
    <2>3. Quiet => ~ Pending(Given)
      <3> SUFFICES ASSUME Quiet PROVE ~ Pending(Given)
        OBVIOUS
      <3>1. (\A k \in 1..Len(c2s) : FALSE) /\ (\A i \in 1..Len(todo) : FALSE)
        BY NoFrames DEF Quiet
      <3> QED
        BY <3>1 DEF Pending, Under
    <2>4. Len(typed) \in Nat /\ Len(accepted) \in Nat
      BY <2>1
    <2>5. Len(typed) <= Len(accepted) + breaks + (IF Pending(Given) THEN 1 ELSE 0)
      BY <2>1, <2>4 DEF KeyInv, KeyCount
    <2> QED
      BY <2>1, <2>2, <2>3, <2>4, <2>5 DEF KeysInOrder
  <1> QED
    BY <1>1, <1>2, <1>3, PTL DEF RemoteSpec

-----------------------------------------------------------------------------
(* Requests are what the server answers, or starts a run or ends on.       *)
Requests == {cmd \in Contents : cmd[1] \notin {"C", "D"}}

(* The client waits for what only a request brings about.                  *)
Waiting ==
  Open /\ TodoLive /\ at \in {"asking", "running", "exited"} /\ Then \in {"idle", "key"}

(* The answer or the request is under way then, and the server that heard  *)
(* nothing but the break of machine_halt answers that.                     *)
Goes ==
  /\ at = "halting" => todo = <<>> /\ ~ place.heard
  /\ Waiting => s2c # <<>> \/ Pending(Requests)

(* The client stays where it is.                                           *)
LEMMA GoesKept ==
  ASSUME Goes, UNCHANGED client, Waiting' => Waiting, s2c' = s2c,
         Waiting' => (Pending(Requests) => Pending(Requests)')
  PROVE  Goes'
  BY DEF Goes, client

(* The client asks for something.                                          *)
LEMMA GoesSent ==
  ASSUME \/ at' = "prompt"
         \/ /\ at' \in {"running", "asking", "exited"}
            /\ \E i \in 1..Len(todo') : todo'[i] \in Contents /\ todo'[i][1] \notin {"C", "D"}
  PROVE  Goes'
  <1>1. (\E i \in 1..Len(todo') : todo'[i] \in Requests) /\ TodoLive' => Pending(Requests)'
    BY DEF Pending
  <1> QED
    BY <1>1 DEF Goes, Waiting, Requests

(* The steps of the server: it answers what it hears, or is on its way.    *)
LEMMA GoesServer ==
  ASSUME RemoteInv, Goes, Server
  PROVE  Goes'
  <1>1. RTypes /\ LineOK
    BY DEF RemoteInv
  <1>2. ASSUME srv' \notin {"idle", "key", "ack"} \/ s2c' # <<>> \/ ~ Open', UNCHANGED client
        PROVE  Goes'
    BY <1>2 DEF Goes, Waiting, Then, client
  <1>3. ASSUME NEW where \in {"idle", "key", "ack"}, GetByte(where) \/ AckNothing
        PROVE  Goes'
    <2>1. /\ ReadsByte /\ srv' = srv /\ s2c' = s2c /\ at' = at /\ UNCHANGED client
      BY <1>3 DEF GetByte, AckNothing, Read, ReadsByte, client
    <2>2. ~ Delivers(Head(c2s))
      <3>1. CASE AckNothing
        BY <3>1, AckHearsNothing DEF AckNothing, Read, Delivers
      <3>2. CASE GetByte(where)
        BY <3>2, GetByteInside
      <3> QED
        BY <1>3, <3>1, <3>2
    <2>3. /\ \A cmds : Pending(cmds)' <=> Pending(cmds)
          /\ TodoLive' <=> TodoLive
          /\ Confirmed' => Confirmed
      BY <1>1, <2>1, <2>2, PendingRead
    <2>4. Waiting' => Waiting
      BY <2>1, <2>3 DEF Waiting, Open, Then
    <2> QED
      BY <2>1, <2>3, <2>4, GoesKept
  <1>4. ASSUME Interrupts
        PROVE  Goes'
    <2>1. s2c \in Seq(Replies) /\ s2c' = Append(s2c, <<"I">>) /\ UNCHANGED client
      BY <1>1, <1>4 DEF RTypes, Interrupts, AckConsole, Send, ReadsByte
    <2>2. s2c' # <<>>
      BY <2>1
    <2> QED
      BY <1>2, <2>1, <2>2
  <1>5. CASE Acknowledged
    <2>1. /\ ReadsByte /\ srv = "ack" /\ srv' = "idle" /\ s2c' = s2c /\ at' = at
          /\ UNCHANGED client /\ c2s # <<>>
      BY <1>5 DEF Acknowledged, GetFrame, Read, ReadsByte, client
    <2>2. Open
      <3>1. Revives(Head(c2s))
        BY <1>5, Confirms
      <3>2. Head(c2s) = c2s[1] /\ 1 \in 1..Len(c2s)
        BY <1>1, <2>1, HeadItem
      <3> QED
        BY <3>1, <3>2 DEF Open, Confirmed
    <2>3. ~ Delivers(Head(c2s))
      BY <2>1, AckHearsNothing DEF Delivers
    <2>4. /\ \A cmds : Pending(cmds)' <=> Pending(cmds)
          /\ TodoLive' <=> TodoLive
      BY <1>1, <2>1, <2>3, PendingRead
    <2>5. Waiting' => Waiting
      BY <2>1, <2>2, <2>4 DEF Waiting, Then
    <2> QED
      BY <2>1, <2>4, <2>5, GoesKept
  <1>6. CASE Dispatch
    <2>1. ReadsByte /\ srv = "idle" /\ GetFrame("idle") /\ at' = at /\ UNCHANGED client
      BY <1>6 DEF Dispatch, GetFrame, Read, ReadsByte, client
    <2>2. PICK cmd : Takes(cmd)
      BY <2>1, TakesFrame
    <2>3. cmd = Head(c2s).at.cmd /\ Command = cmd[1]
      BY <2>2 DEF Takes, Command
    <2>4. CASE Command = "D"
      <3>1. s2c' = s2c /\ srv' = srv
        BY <1>6, <2>4 DEF Dispatch
      <3>2. cmd \notin Requests
        BY <2>3, <2>4 DEF Requests
      <3>3. /\ Pending(Requests) => Pending(Requests)'
            /\ TodoLive' <=> TodoLive
        BY <1>1, <2>1, <2>3, <3>2, PendingRead
      <3>4. Waiting' => Waiting
        BY <2>1, <3>1, <3>3 DEF Waiting, Open, Then
      <3> QED
        BY <2>1, <3>1, <3>3, <3>4, GoesKept
    <2>5. CASE Command = "E"
      <3>1. s2c' = Append(s2c, Value(rx.buf[2])) /\ s2c = <<>>
        BY <1>6, <2>2, <2>5 DEF Dispatch, Send, Takes
      <3>2. s2c' # <<>>
        BY <3>1
      <3> QED
        BY <1>2, <2>1, <3>2
    <2>6. CASE Command \notin {"D", "E"}
      <3>1. srv' \in {"run", "quit", "exited"}
        BY <1>6, <2>6 DEF Dispatch
      <3> QED
        BY <1>2, <2>1, <3>1
    <2> QED
      BY <2>4, <2>5, <2>6
  <1>7. CASE KeyFrame
    <2>1. UNCHANGED client
      BY <1>7 DEF KeyFrame, GetFrame, Read
    <2>2. CASE srv' = "print"
      BY <1>2, <2>1, <2>2
    <2>3. CASE srv' # "print"
      <3>1. AckConsole(rx.buf) /\ s2c \in Seq(Replies)
        BY <1>1, <1>7, <2>3 DEF KeyFrame, RTypes
      <3>2. s2c' # <<>>
        BY <3>1 DEF AckConsole, Send
      <3> QED
        BY <1>2, <2>1, <3>2
    <2> QED
      BY <2>2, <2>3
  <1>8. CASE PollNothing \/ NoPrint \/ Turn \/ PrintKey \/ AskKey \/ Stop
    <2>1. UNCHANGED client /\ s2c \in Seq(Replies)
      BY <1>1, <1>8 DEF PollNothing, NoPrint, Turn, PrintKey, AskKey, Stop, RTypes
    <2>2. CASE PollNothing \/ NoPrint \/ Turn \/ PrintKey
      <3>1. srv' \in {"tty", "cpu", "run"}
        BY <2>2 DEF PollNothing, NoPrint, Turn, PrintKey
      <3> QED
        BY <1>2, <2>1, <3>1
    <2>3. CASE AskKey \/ Stop
      <3>1. \E reply : s2c' = Append(s2c, reply)
        BY <2>3 DEF AskKey, Stop, Send
      <3>2. s2c' # <<>>
        BY <2>1, <3>1
      <3> QED
        BY <1>2, <2>1, <3>2
    <2> QED
      BY <1>8, <2>2, <2>3
  <1> QED
    BY <1>3, <1>4, <1>5, <1>6, <1>7, <1>8, BreakInterrupts, PollInterrupts
       DEF Server, Idle, KeyByte, AckByte

(* The client writes on, and breaks off what it wrote.                     *)
LEMMA GoesBreaks ==
  ASSUME RemoteInv, Goes, WriteByte \/ Sigint \/ EnterHalt
  PROVE  Goes'
  <1>1. RTypes /\ LineOK
    BY DEF RemoteInv
  <1>2. CASE WriteByte
    <2>1. /\ at' = at /\ srv' = srv /\ s2c' = s2c /\ todo # <<>>
      BY <1>2 DEF WriteByte, server
    <2>2. <<"C">> \notin Requests
      BY DEF Requests
    <2>3. /\ Pending(Requests)' <=> Pending(Requests)
          /\ TodoLive' => TodoLive
          /\ Confirmed' <=> Confirmed
      BY <1>2, <2>2, PendingWritten
    <2>4. Waiting' => Waiting
      BY <2>1, <2>3 DEF Waiting, Open, Then
    <2> QED
      BY <2>1, <2>3, <2>4 DEF Goes
  <1>3. CASE Sigint
    <2>1. SendBreak /\ UNCHANGED <<s2c, todo, srv, at>>
      BY <1>3 DEF Sigint, server
    <2>2. /\ TodoLive' => (Pending(Requests)' <=> Pending(Requests))
          /\ TodoLive' => TodoLive
          /\ Confirmed' => Confirmed
          /\ ~ place'.heard
      BY <1>1, <2>1, PendingBroken
    <2>3. Waiting' => Waiting
      BY <2>1, <2>2 DEF Waiting, Open, Then
    <2>4. Waiting' => TodoLive'
      BY DEF Waiting
    <2> QED
      BY <2>1, <2>2, <2>3, <2>4 DEF Goes
  <1>4. CASE EnterHalt
    <2>1. SendBreak /\ todo' = todo /\ todo = <<>> /\ at' = "halting"
      BY <1>4 DEF EnterHalt, Enter
    <2>2. ~ place'.heard
      BY <1>1, <2>1, PendingBroken
    <2> QED
      BY <2>1, <2>2 DEF Goes, Waiting
  <1> QED
    BY <1>2, <1>3, <1>4

(* A run is to end, and only its end is on the way.                        *)
LEMMA GoesWriteKey ==
  ASSUME RemoteInv, Goes, WriteKey
  PROVE  Goes'
  <1>1. /\ at = "running" /\ at' = at /\ todo = <<>> /\ todo' = <<>> /\ s2c # <<>> /\ s2c' = Tail(s2c)
        /\ UNCHANGED <<c2s, place, srv>>
    BY Received DEF WriteKey, client
  <1>2. /\ Head(s2c) = s2c[1] /\ Head(s2c) \in Replies
        /\ Len(s2c) \in Nat /\ Len(s2c') = Len(s2c) - 1
    BY <1>1, Taken
  <1>3. Head(s2c) \notin Ender /\ Head(s2c) # TR
    BY <1>2, ReplyShape DEF WriteKey, TR
  <1>4. Waiting' => Waiting
    BY <1>1, PendingStays DEF Waiting, Open, Then
  <1>5. Waiting => s2c' # <<>>
    <2> SUFFICES ASSUME Waiting, s2c' = <<>>
                 PROVE  FALSE
      OBVIOUS
    <2>1. Queue(Ender) \/ Queue({TR})
      BY <1>1, Replied DEF Waiting, Loop
    <2>2. Len(s2c') = 0
      OBVIOUS
    <2>3. Len(s2c) = 1
      BY <1>2, <2>2
    <2> QED
      BY <1>2, <1>3, <2>1, <2>3 DEF Queue
  <1> QED
    BY <1>1, <1>4, <1>5 DEF Goes

(* The operator's commands send a request each.                            *)
LEMMA GoesEnter ==
  ASSUME RemoteInv, Goes,
         \/ EnterRun \/ EnterStep \/ EnterExamine \/ EnterSave \/ EnterTrace \/ EnterExit
         \/ EnterRestore
  PROVE  Goes'
  <1>1. /\ Examine(Head(Regs)) \in Contents /\ Examine("T") \in Contents
        /\ Examine(Head(Regs))[1] = "E" /\ Examine("T")[1] = "E"
        /\ <<"R">> \in Contents /\ <<"R">>[1] = "R"
    BY RegsContents DEF Contents, Examine
  <1>2. CASE EnterRun
    <2>1. at' = "running" /\ todo' = << <<"R">> >>
      BY <1>2 DEF EnterRun, Frames
    <2>2. 1 \in 1..Len(todo') /\ todo'[1] = <<"R">>
      BY <2>1
    <2> QED
      BY <1>1, <2>1, <2>2, GoesSent
  <1>3. CASE EnterStep \/ EnterExamine \/ EnterSave \/ EnterExit
    <2>1. at' = "asking" /\ todo' = <<Examine(Head(Regs))>>
      BY <1>3 DEF EnterStep, EnterExamine, EnterSave, EnterExit, Frames, Ask
    <2>2. 1 \in 1..Len(todo') /\ todo'[1] = Examine(Head(Regs))
      BY <2>1
    <2> QED
      BY <1>1, <2>1, <2>2, GoesSent
  <1>4. CASE EnterTrace
    <2>1. at' = "asking" /\ todo' = <<Deposit("T"), Examine("T")>>
      BY <1>4 DEF EnterTrace, Frames, Ask
    <2>2. 2 \in 1..Len(todo') /\ todo'[2] = Examine("T")
      BY <2>1
    <2> QED
      BY <1>1, <2>1, <2>2, GoesSent
  <1>5. CASE EnterRestore
    BY <1>5, GoesSent DEF EnterRestore, Enter
  <1> QED
    BY <1>2, <1>3, <1>4, <1>5

(* The client reads, and asks again or waits for no more.                  *)
LEMMA GoesReceive ==
  ASSUME RemoteInv, Goes, Halting \/ Answer \/ Stopped \/ Stepped \/ Traced \/ ReadKey
  PROVE  Goes'
  <1>1. RTypes
    BY DEF RemoteInv
  <1>2. ASSUME NEW where \in {"running", "asking", "exited"}, at' = where,
               NEW cmd \in Contents, cmd[1] \notin {"C", "D"},
               todo' = <<cmd>> \/ todo' = << <<"C">>, cmd>>
        PROVE  Goes'
    <2>1. \E i \in 1..Len(todo') : todo'[i] = cmd
      <3>1. CASE todo' = <<cmd>>
        <4>1. 1 \in 1..Len(todo') /\ todo'[1] = cmd
          BY <3>1
        <4> QED
          BY <4>1
      <3>2. CASE todo' = << <<"C">>, cmd>>
        <4>1. 2 \in 1..Len(todo') /\ todo'[2] = cmd
          BY <3>2
        <4> QED
          BY <4>1
      <3> QED
        BY <1>2, <3>1, <3>2
    <2> QED
      BY <1>2, <2>1, GoesSent
  <1>3. \A reg \in Registers : Examine(reg) \in Contents /\ Examine(reg)[1] = "E"
    BY RegsContents DEF Examine
  <1>4. Head(Regs) \in Registers
    BY RegsContents
  <1>5. CASE Halting
    <2>1. at = "halting" /\ todo = <<>> /\ place' = place
      BY <1>5, Received DEF Halting
    <2>2. at' = "prompt" \/ (at' = at /\ todo' = todo)
      BY <1>5 DEF Halting
    <2> QED
      BY <2>1, <2>2, GoesSent DEF Goes, Waiting
  <1>6. CASE Answer
    <2>1. asked' = <<>> \/ Head(asked') \in Registers
      <3>1. asked \in Seq(Registers) /\ asked' = Tail(asked) /\ at = "asking"
        BY <1>1, <1>6, Received DEF Answer, RTypes
      <3>2. asked # <<>>
        BY <3>1 DEF RemoteInv, Control
      <3>3. asked' \in Seq(Registers)
        BY <3>1, <3>2
      <3> QED
        BY <3>3
    <2>2. CASE asked' # <<>>
      <3>1. at' = "asking" /\ todo' = <<Examine(Head(asked'))>>
        BY <1>6, <2>2, Received DEF Answer
      <3> QED
        BY <1>2, <1>3, <2>1, <2>2, <3>1
    <2>3. CASE asked' = <<>> /\ resume \in {"R", "S"}
      <3>1. at' = "running" /\ todo' = << <<resume>> >>
        BY <1>6, <2>3 DEF Answer
      <3>2. <<resume>> \in Contents /\ <<resume>>[1] \notin {"C", "D"}
        BY <2>3 DEF Contents
      <3> QED
        BY <1>2, <3>1, <3>2
    <2>4. CASE asked' = <<>> /\ resume = "Q"
      <3>1. at' = "exited" /\ todo' = << <<"Q">> >>
        BY <1>6, <2>4 DEF Answer, machine_quit
      <3>2. <<"Q">> \in Contents /\ <<"Q">>[1] \notin {"C", "D"}
        BY DEF Contents
      <3> QED
        BY <1>2, <3>1, <3>2
    <2>5. CASE asked' = <<>> /\ resume \notin {"R", "S", "Q"}
      <3>1. at' = "prompt"
        BY <1>6, <2>5 DEF Answer
      <3> QED
        BY <3>1, GoesSent
    <2> QED
      BY <2>2, <2>3, <2>4, <2>5
  <1>7. CASE Stopped \/ Traced
    <2>1. /\ at' = "asking"
          /\ todo' = <<Examine(Head(Regs))>> \/ todo' = << <<"C">>, Examine(Head(Regs))>>
      BY <1>7, Joined DEF Stopped, Traced, Ask
    <2> QED
      BY <1>2, <1>3, <1>4, <2>1
  <1>8. CASE Stepped
    BY <1>8, GoesSent DEF Stepped
  <1>9. CASE ReadKey
    <2>1. at' = "running"
      BY <1>9 DEF ReadKey, Receive
    <2>2. PICK result \in {"0", "1", "EOF"}, key \in Keys : todo' = << <<result, key>> >>
      BY <1>9 DEF ReadKey
    <2> DEFINE cmd == <<result, key>>
    <2>3. cmd \in Contents /\ cmd[1] \notin {"C", "D"} /\ todo' = <<cmd>>
      BY <2>2 DEF Contents
    <2> HIDE DEF cmd
    <2> QED
      BY <1>2, <2>1, <2>3
  <1> QED
    BY <1>5, <1>6, <1>7, <1>8, <1>9

(* Every step.                                                             *)
LEMMA GoesNext ==
  ASSUME RemoteInv, Goes, [RemoteNext]_remoteVars
  PROVE  Goes'
  <1>1. CASE Client
    BY <1>1, GoesBreaks, GoesReceive, GoesWriteKey DEF Client
  <1>2. CASE Sigint
    BY <1>2, GoesBreaks
  <1>3. CASE Operator
    BY <1>3, GoesEnter, GoesBreaks DEF Operator
  <1>4. CASE Server
    BY <1>4, GoesServer
  <1>5. CASE UNCHANGED remoteVars
    <2>1. UNCHANGED <<c2s, todo, place, s2c, srv, client>>
      BY <1>5 DEF remoteVars, client, server
    <2>2. /\ Pending(Requests)' <=> Pending(Requests)
          /\ TodoLive' <=> TodoLive
          /\ Confirmed' <=> Confirmed
      BY <2>1, PendingStays
    <2>3. Waiting' => Waiting
      BY <2>1, <2>2 DEF Waiting, Open, Then, client
    <2> QED
      BY <2>1, <2>2, <2>3, GoesKept
  <1> QED
    BY <1>1, <1>2, <1>3, <1>4, <1>5 DEF RemoteNext

(* The two processes never wait for each other: with nothing under way, a  *)
(* client that waits has a server in the loop of machine_run, as long as   *)
(* no break comes when nobody waits for its acknowledge.                   *)
THEOREM NeverBothWaiting == RemoteSpec => []NeverBothWait
  <1>1. RemoteInit => RemoteInv /\ Goes
    BY RemoteInitInv DEF RemoteInit, Goes, Waiting
  <1>2. RemoteInv /\ Goes /\ [RemoteNext]_remoteVars => (RemoteInv /\ Goes)'
    BY RemoteNextInv, GoesNext
  <1>3. RemoteInv /\ Goes => NeverBothWait
    <2> SUFFICES ASSUME RemoteInv, Goes, Quiet, ~ raced, at # "prompt"
                 PROVE  srv \in {"run", "tty", "print", "cpu", "quit"}
      BY DEF NeverBothWait
    <2>1. RTypes /\ LineOK /\ InStep /\ InTime
      BY DEF RemoteInv
    <2>2. /\ \A i \in 1..Len(todo) : FALSE
          /\ \A k \in 1..Len(c2s) : FALSE
          /\ \A i \in 1..Len(s2c) : FALSE
      BY NoFrames DEF Quiet
    <2>3. srv # "ack"
      BY <2>1, <2>2 DEF InTime, Interrupted, Confirmed, Confirming, Quiet
    <2>4. place.heard
      BY <2>1, <2>3 DEF InStep, Fits, Reached, Start, LineOK, Quiet
    <2>5. Open /\ TodoLive /\ Then = srv
      BY <2>3, <2>4 DEF Open, TodoLive, Then
    <2>6. at \in {"asking", "running", "exited"}
      BY <2>1, <2>4 DEF RTypes, Goes
    <2>7. ~ Pending(Requests)
      BY <2>2 DEF Pending, Under
    <2>8. srv \notin {"idle", "key"}
      BY <2>5, <2>6, <2>7 DEF Goes, Waiting, Quiet
    <2> QED
      BY <2>1, <2>3, <2>8 DEF RTypes, Loop
  <1> QED
    BY <1>1, <1>2, <1>3, PTL DEF RemoteSpec

=============================================================================
