-------------------------------- MODULE Channel --------------------------------
(***************************************************************************)
(* What send_cmd and recv_cmd promise together, without bytes.  Frames are *)
(* received in the order sent, complete and once, except the damaged ones: *)
(* those may be missing, come garbled, or in several garbled pieces.       *)
(* Damage to one frame never touches an undamaged one.                     *)
(***************************************************************************)
EXTENDS Naturals, Sequences, SequencesExt

CONSTANTS
  Contents,        \* what a frame may hold, none is empty
  Bytes            \* what a garbled one may hold

VARIABLES
  sent,            \* the frames so far
  damaged,         \* which of them lost a byte or were cut by a break
  received         \* what recv_cmd returned: which frame, and its content

channelVars == <<sent, damaged, received>>

ChannelInit == sent = <<>> /\ damaged = {} /\ received = <<>>

Send(content) ==
  /\ sent' = Append(sent, content)
  /\ UNCHANGED <<damaged, received>>

(* The last frame that was returned. *)
Latest == IF received = <<>> THEN 0 ELSE Last(received).frame

(* Only a frame that is still under way is damaged. *)
Damage(frame) ==
  /\ Latest < frame
  /\ damaged' = damaged \cup {frame}
  /\ UNCHANGED <<sent, received>>

Returned(frame, content) ==
  received' = Append(received, [frame |-> frame, content |-> content])

(* Any content: what is left of it, or of damaged frames before it too. *)
Garbled(frame) ==
  /\ Len(received') = Len(received) + 1 /\ Front(received') = received
  /\ Last(received').frame = frame /\ Last(received').content \in Seq(Bytes)

(* Nothing but damaged frames may be left out. *)
Deliver(frame) ==
  /\ Latest < frame /\ \A skipped \in (Latest + 1)..(frame - 1) : skipped \in damaged
  /\ IF frame \in damaged THEN Garbled(frame) ELSE Returned(frame, sent[frame])
  /\ UNCHANGED <<sent, damaged>>

(* The rest of a damaged frame, read as one more. *)
DeliverRest ==
  /\ Latest \in damaged
  /\ Garbled(Latest)
  /\ UNCHANGED <<sent, damaged>>

ChannelNext ==
  \/ \E content \in Contents : Send(content)
  \/ \E frame \in 1..Len(sent) : Damage(frame) \/ Deliver(frame)
  \/ DeliverRest

ChannelSpec == ChannelInit /\ [][ChannelNext]_channelVars

=============================================================================
