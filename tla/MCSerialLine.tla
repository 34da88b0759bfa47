---------------------------- MODULE MCSerialLine ----------------------------
(* Constants for SerialLine: contents in which every special character     *)
(* occurs, first, last and before another one.                             *)
EXTENDS SerialLine

MCContents == {<<"a", "~">>, <<"}", "{", "a">>, <<".">>}

(* Byte by byte, send_cmd writes the frame of SerialCom: the places it     *)
(* passes, in their order, give its bytes.                                 *)
Places(cmd) ==
  SelectSeq([k \in 1..2 * Len(cmd) + 4 |-> [index |-> (k - 1) \div 2, escaped |-> k % 2 = 0]],
            LAMBDA p : p.escaped => p.index \in 1..Len(cmd) /\ cmd[p.index] \in Special)

ASSUME WritesFrame ==
  \A cmd \in UNION {[1..n -> Special \cup {"a"}] : n \in 1..3} :
    LET places == Places(cmd) IN
    send_cmd(cmd) =
      [k \in 1..Len(places) |-> ByteAt(cmd, places[k].index, places[k].escaped)]

=============================================================================
