---------------------------- MODULE CoreFileProofs ----------------------------
(***************************************************************************)
(* Proofs about CoreFile, for every number of pieces, files, machines and  *)
(* streams, and any number of saves, restores, failed writes and kills.    *)
(***************************************************************************)
EXTENDS CoreFile, TLAPS

Core == [kept : [Piece -> Fates], of : Machines]

(* Every piece the save under way has written so far has arrived. *)
SoFarWhole == \A i \in Piece : i <= Pieces - left => cores[file].kept[i] = "whole"

(* What a save under way has done so far: the file it writes is not one    *)
(* whose save was reported, it is of the machine the program still has,    *)
(* and unless a write has failed, it lacks only what is left to write.     *)
SaveUnderWay ==
  Saving => /\ left >= 1
            /\ saved[file] = NoMachine
            /\ cores[file].of = machine
            /\ file \notin unseen => SoFarWhole

(* The inductive invariant. *)
CoreInv ==
  /\ CoreTypeOK /\ SavedIsComplete /\ SaveUnderWay
  /\ at # "off" => prompted

-----------------------------------------------------------------------------
LEMMA EmptyRange == ASSUME NEW of \in Machines PROVE Empty(of) \in Core
  BY DEF Empty, Core, Fates

LEMMA InitCoreInv == CoreInit => CoreInv
  <1> SUFFICES ASSUME CoreInit PROVE CoreInv
    OBVIOUS
  <1>1. /\ NoCore \in Core /\ 0 \in 0..Pieces /\ 0 \in 0..MaxStreams
        /\ Blank \in Machines /\ "prev.core" \in Files
    BY CoreAssumption, EmptyRange DEF NoCore
  <1>2. ControlTypeOK
    BY <1>1 DEF CoreInit, ControlTypeOK
  <1>3. ContentTypeOK
    BY <1>1, Zenon DEF CoreInit, ContentTypeOK, Core
  <1>4. SavedIsComplete
    BY DEF CoreInit, SavedIsComplete, Reported
  <1>5. ~ Saving /\ at = "off"
    BY DEF CoreInit, Saving
  <1> QED
    BY <1>2, <1>3, <1>4, <1>5 DEF CoreInv, CoreTypeOK, SaveUnderWay

(* What is read from a file that is accepted is a machine. *)
LEMMA ReadRange ==
  ASSUME ContentTypeOK, NEW name \in Files
  PROVE  Read(cores[name]) \in Machines
  BY CoreAssumption DEF ContentTypeOK, Read

(* One more stream than there were, when there was room for one. *)
LEMMA StreamsRange ==
  ASSUME ControlTypeOK, CanOpen
  PROVE  streams + 1 \in 0..MaxStreams
  <1>1. streams \in 0..MaxStreams /\ MaxStreams \in Nat /\ streams < MaxStreams
    BY CoreAssumption DEF ControlTypeOK, CanOpen
  <1> QED
    BY <1>1

LEMMA NoStreams == 0 \in 0..MaxStreams
  BY CoreAssumption

(* Outside a save only the types and the reports can be disturbed. *)
LEMMA NotSaving ==
  ASSUME ControlTypeOK', ContentTypeOK', SavedIsComplete', at' \in {"off", "prompt"},
         at' # "off" => prompted'
  PROVE  CoreInv'
  BY DEF CoreInv, CoreTypeOK, SaveUnderWay, Saving

(* A step that leaves the files alone keeps what was reported of them. *)
LEMMA FilesAlone ==
  ASSUME SavedIsComplete, UNCHANGED <<cores, reports>>
  PROVE  SavedIsComplete'
  <1>1. UNCHANGED <<cores, saved, unseen>>
    BY DEF reports
  <1> QED
    BY <1>1 DEF SavedIsComplete, Reported, Complete

(* A save that begins withdraws what was reported of its file. *)
LEMMA OpenKeeps ==
  ASSUME CoreInv, NEW name \in Files, Open(name), machine' = machine,
         at = "prompt", at' \in {"saving", "exiting"}, prompted' = prompted
  PROVE  CoreInv'
  <1>1. /\ cores' = [cores EXCEPT ![name] = Empty(machine)] /\ file' = name /\ left' = Pieces
        /\ saved' = [saved EXCEPT ![name] = NoMachine] /\ unseen' = unseen \ {name}
        /\ result' = "" /\ streams' = streams
    BY DEF Open, Truncate
  <1>2. ContentTypeOK /\ ControlTypeOK /\ SavedIsComplete
    BY DEF CoreInv, CoreTypeOK
  <1>3. /\ Empty(machine) \in Core /\ Pieces \in 0..Pieces /\ Pieces >= 1
        /\ Empty(machine).of = machine
    BY <1>2, CoreAssumption, EmptyRange DEF ContentTypeOK, Empty
  <1>4. cores' \in [Files -> Core]
    BY <1>1, <1>2, <1>3 DEF ContentTypeOK, Core
  <1>5. ContentTypeOK'
    BY <1>1, <1>2, <1>3, <1>4 DEF ContentTypeOK, Core
  <1>6. ControlTypeOK'
    BY <1>1, <1>2 DEF ControlTypeOK, CoreInv
  <1>7. SavedIsComplete'
    <2> SUFFICES ASSUME NEW other \in Files, Reported(other)'
                 PROVE  Complete(cores'[other]) /\ cores'[other].of = saved'[other]
      BY DEF SavedIsComplete, Complete
    <2>1. other # name /\ Reported(other)
      BY <1>1, <1>2 DEF Reported, ContentTypeOK
    <2>2. cores'[other] = cores[other] /\ saved'[other] = saved[other]
      BY <1>1, <1>2, <2>1 DEF ContentTypeOK
    <2> QED
      BY <1>2, <2>1, <2>2 DEF SavedIsComplete, Complete
  <1>8. cores'[file'] = Empty(machine) /\ saved'[file'] = NoMachine
    BY <1>1, <1>2 DEF ContentTypeOK
  <1>9. SaveUnderWay'
    <2>1. left' >= 1 /\ cores'[file'].of = machine'
      BY <1>1, <1>3, <1>8
    <2>2. SoFarWhole'
      <3>1. ASSUME NEW i \in Piece PROVE ~ (i <= Pieces - left')
        <4>1. Pieces \in Nat
          BY CoreAssumption
        <4>2. i \in Nat /\ i >= 1
          BY <4>1 DEF Piece
        <4>3. left' = Pieces
          BY <1>1
        <4> QED
          BY <4>1, <4>2, <4>3
      <3> QED
        BY <3>1 DEF SoFarWhole
    <2> QED
      BY <1>8, <2>1, <2>2 DEF SaveUnderWay
  <1>10. prompted'
    BY DEF CoreInv
  <1> QED
    BY <1>5, <1>6, <1>7, <1>9, <1>10 DEF CoreInv, CoreTypeOK

(* Whatever becomes of the next piece, the file stays a file, of the same  *)
(* machine, and nothing else changes in it or in the other files.          *)
LEMMA PutOne ==
  ASSUME ContentTypeOK, left >= 1, NEW how \in Fates, Put(how)
  PROVE  /\ cores' \in [Files -> Core]
         /\ cores'[file].of = cores[file].of
         /\ \A i \in Piece : cores'[file].kept[i] = IF i = Pieces - left + 1 THEN how
                                                    ELSE cores[file].kept[i]
         /\ \A other \in Files \ {file} : cores'[other] = cores[other]
  <1> DEFINE next == Pieces - left + 1
             kept == [cores[file].kept EXCEPT ![next] = how]
             longer == [kept |-> kept, of |-> cores[file].of]
  <1>1. /\ file \in Files /\ cores \in [Files -> Core] /\ cores[file] \in Core
        /\ left \in 0..Pieces /\ Pieces \in Nat
    BY CoreAssumption DEF ContentTypeOK, Core
  <1>2. cores' = [cores EXCEPT ![file] = longer]
    BY <1>1 DEF Put
  <1>3. cores[file].kept \in [Piece -> Fates] /\ cores[file].of \in Machines
    BY <1>1 DEF Core
  <1>4. kept \in [Piece -> Fates]
        /\ \A i \in Piece : kept[i] = IF i = next THEN how ELSE cores[file].kept[i]
    BY <1>3
  <1>5. longer \in Core /\ longer.of = cores[file].of /\ longer.kept = kept
    <2> HIDE DEF kept
    <2> QED
      BY <1>3, <1>4 DEF Core
  <1>6. cores'[file] = longer
    BY <1>1, <1>2
  <1>7. cores' \in [Files -> Core] /\ \A other \in Files \ {file} : cores'[other] = cores[other]
    <2> HIDE DEF longer
    <2> QED
      BY <1>1, <1>2, <1>5
  <1> HIDE DEF longer, kept
  <1> QED
    BY <1>4, <1>5, <1>6, <1>7

(* The reports of the other files do not depend on the one being written.  *)
LEMMA OthersComplete ==
  ASSUME SavedIsComplete, ContentTypeOK,
         \A other \in Files \ {file} : /\ cores'[other] = cores[other]
                                       /\ saved'[other] = saved[other]
                                       /\ other \in unseen => other \in unseen',
         Reported(file)' => Complete(cores'[file]) /\ cores'[file].of = saved'[file],
         file' = file
  PROVE  SavedIsComplete'
  <1> SUFFICES ASSUME NEW other \in Files, saved'[other] # NoMachine, other \notin unseen'
               PROVE  Complete(cores'[other]) /\ cores'[other].of = saved'[other]
    BY DEF SavedIsComplete, Reported, Complete
  <1>1. CASE other = file
    BY <1>1 DEF Reported
  <1>2. CASE other # file
    <2>1. other \in Files \ {file}
      BY <1>2
    <2>2. cores'[other] = cores[other] /\ saved'[other] = saved[other] /\ other \notin unseen
      BY <2>1
    <2>3. Reported(other)
      BY <2>2 DEF Reported
    <2> QED
      BY <2>2, <2>3 DEF SavedIsComplete
  <1> QED
    BY <1>1, <1>2

(* One more piece, or one that is lost. *)
LEMMA WritePieceKeeps ==
  ASSUME CoreInv, WritePiece
  PROVE  CoreInv'
  <1>1. ContentTypeOK /\ ControlTypeOK /\ SavedIsComplete /\ SaveUnderWay /\ prompted
    BY DEF CoreInv, CoreTypeOK, WritePiece, Saving
  <1>2. /\ file \in Files /\ left \in 0..Pieces /\ Pieces \in Nat
        /\ saved[file] = NoMachine /\ cores[file].of = machine
        /\ file \notin unseen => SoFarWhole
    BY <1>1, CoreAssumption DEF ContentTypeOK, SaveUnderWay, WritePiece
  <1>3. /\ left > 1 /\ left' = left - 1
        /\ UNCHANGED <<at, machine, file, streams, result, saved, prompted>>
    BY DEF WritePiece
  <1>4. left' \in 0..Pieces /\ left' >= 1 /\ left >= 1 /\ Pieces - left' = Pieces - left + 1
    BY <1>2, <1>3
  <1>5. PICK how \in Fates : Put(how) /\ unseen' = IF how = "whole" THEN unseen
                                                                  ELSE unseen \cup {file}
    BY DEF WritePiece
  <1>6. /\ cores' \in [Files -> Core] /\ cores'[file].of = machine
        /\ \A i \in Piece : cores'[file].kept[i] = IF i = Pieces - left + 1 THEN how
                                                   ELSE cores[file].kept[i]
        /\ \A other \in Files \ {file} : cores'[other] = cores[other]
    BY <1>1, <1>2, <1>4, <1>5, PutOne
  <1>7. unseen \subseteq unseen' /\ unseen' \subseteq Files
    BY <1>1, <1>5 DEF ContentTypeOK
  <1>8. ContentTypeOK'
    BY <1>1, <1>3, <1>4, <1>6, <1>7 DEF ContentTypeOK, Core
  <1>9. ControlTypeOK'
    BY <1>1, <1>3 DEF ControlTypeOK
  <1>10. SavedIsComplete'
    <2>1. ~ Reported(file)'
      BY <1>2, <1>3 DEF Reported
    <2> QED
      BY <1>1, <1>3, <1>6, <1>7, <2>1, OthersComplete
  <1>11. SaveUnderWay'
    <2>1. ASSUME file \notin unseen' PROVE SoFarWhole'
      <3>1. how = "whole" /\ SoFarWhole
        BY <1>2, <1>5, <2>1
      <3> SUFFICES ASSUME NEW i \in Piece, i <= Pieces - left'
                   PROVE  cores'[file].kept[i] = "whole"
        BY <1>3 DEF SoFarWhole
      <3>2. i = Pieces - left + 1 \/ i <= Pieces - left
        <4>1. i \in Nat /\ left \in Nat /\ Pieces \in Nat
          BY <1>2 DEF Piece
        <4>2. i <= Pieces - left + 1
          BY <1>4
        <4> QED
          BY <4>1, <4>2
      <3> QED
        BY <1>6, <3>1, <3>2 DEF SoFarWhole
    <2> QED
      BY <1>2, <1>3, <1>4, <1>6, <2>1 DEF SaveUnderWay
  <1> QED
    BY <1>1, <1>3, <1>8, <1>9, <1>10, <1>11 DEF CoreInv, CoreTypeOK

(* The last piece makes the file complete when the others were written. *)
LEMMA CloseKeeps ==
  ASSUME CoreInv, Close
  PROVE  CoreInv'
  <1>1. ContentTypeOK /\ ControlTypeOK /\ SavedIsComplete /\ SaveUnderWay
    BY DEF CoreInv, CoreTypeOK
  <1>2. /\ file \in Files /\ Pieces \in Nat /\ machine \in Machines
        /\ saved[file] = NoMachine /\ cores[file].of = machine
        /\ file \notin unseen => SoFarWhole
    BY <1>1, CoreAssumption DEF ContentTypeOK, SaveUnderWay, Close
  <1>3. left = 1 /\ left' = 0 /\ UNCHANGED <<machine, file, unseen>>
    BY DEF Close
  <1>4. left' \in 0..Pieces /\ left >= 1 /\ Pieces - left + 1 = Pieces
    BY <1>2, <1>3
  <1>5. at' \in {"off", "prompt"} /\ (at' # "off" => prompted') /\ prompted' \in BOOLEAN
        /\ streams' \in 0..MaxStreams
    BY NoStreams DEF CoreInv, CoreTypeOK, ControlTypeOK, Close, Done, Off, Saving
  <1>6. ControlTypeOK'
    BY <1>1, <1>5 DEF ControlTypeOK, Close
  <1>7. PICK how \in Fates :
          /\ Put(how)
          /\ \/ how = "whole" /\ saved' = [saved EXCEPT ![file] = machine]
             \/ saved' = saved
    BY DEF Close
  <1>8. /\ cores' \in [Files -> Core] /\ cores'[file].of = machine
        /\ \A i \in Piece : cores'[file].kept[i] = IF i = Pieces THEN how
                                                   ELSE cores[file].kept[i]
        /\ \A other \in Files \ {file} : cores'[other] = cores[other]
    <2>1. /\ cores' \in [Files -> Core] /\ cores'[file].of = cores[file].of
          /\ \A i \in Piece : cores'[file].kept[i] = IF i = Pieces - left + 1 THEN how
                                                     ELSE cores[file].kept[i]
          /\ \A other \in Files \ {file} : cores'[other] = cores[other]
      BY <1>1, <1>4, <1>7, PutOne
    <2> QED
      BY <1>2, <1>4, <2>1
  <1>9. saved' \in [Files -> Machines \cup {NoMachine}]
        /\ \A other \in Files \ {file} : saved'[other] = saved[other]
    BY <1>1, <1>2, <1>7 DEF ContentTypeOK
  <1>10. ContentTypeOK'
    BY <1>1, <1>3, <1>4, <1>8, <1>9 DEF ContentTypeOK, Core
  <1>11. SavedIsComplete'
    <2>1. ASSUME Reported(file)'
          PROVE  Complete(cores'[file]) /\ cores'[file].of = saved'[file]
      <3>1. saved'[file] # NoMachine /\ file \notin unseen
        BY <1>3, <2>1 DEF Reported
      <3>2. how = "whole" /\ saved'[file] = machine
        BY <1>1, <1>2, <1>7, <3>1 DEF ContentTypeOK
      <3>3. \A i \in Piece : i = Pieces \/ i <= Pieces - left
        BY <1>2, <1>3 DEF Piece
      <3>4. \A i \in Piece : cores'[file].kept[i] = "whole"
        BY <1>2, <1>8, <3>1, <3>2, <3>3 DEF SoFarWhole
      <3> QED
        BY <1>8, <3>2, <3>4 DEF Complete
    <2> QED
      BY <1>1, <1>3, <1>8, <1>9, <2>1, OthersComplete
  <1> QED
    BY <1>5, <1>6, <1>10, <1>11, NotSaving

LEMMA NextCoreInv == CoreInv /\ [CoreNext]_coreVars => CoreInv'
  <1> SUFFICES ASSUME CoreInv, [CoreNext]_coreVars PROVE CoreInv'
    OBVIOUS
  <1>0. ContentTypeOK /\ ControlTypeOK /\ SavedIsComplete
    BY DEF CoreInv, CoreTypeOK
  <1>1. CASE Start
    <2>1. ContentTypeOK'
      BY <1>0, <1>1, CoreAssumption DEF ContentTypeOK, Start, writer, reports
    <2>2. ControlTypeOK' /\ prompted' /\ at' = "prompt"
      BY <1>0, <1>1 DEF ControlTypeOK, Start, writer, reports
    <2> QED
      BY <1>0, <1>1, <2>1, <2>2, FilesAlone, NotSaving DEF Start
  <1>2. ASSUME NEW name \in Files, StartFrom(name) \/ Restore(name)
        PROVE  CoreInv'
    <2>1. /\ UNCHANGED <<cores, file, left, saved, unseen>> /\ UNCHANGED <<cores, reports>>
          /\ prompted' /\ at' = "prompt"
          /\ machine' \in {machine, Read(cores[name])}
          /\ streams' = streams \/ (CanOpen /\ streams' = streams + 1)
          /\ result' \in {"restored", "state unchanged", "unable to open"}
      <3>1. CASE StartFrom(name)
        BY <3>1 DEF StartFrom, writer, reports
      <3>2. CASE Restore(name)
        BY <3>2 DEF CoreInv, Restore, writer, reports
      <3> QED
        BY <1>2, <3>1, <3>2
    <2>2. ContentTypeOK'
      BY <1>0, <2>1, ReadRange DEF ContentTypeOK
    <2>3. ControlTypeOK'
      BY <1>0, <2>1, StreamsRange DEF ControlTypeOK
    <2> QED
      BY <1>0, <2>1, <2>2, <2>3, FilesAlone, NotSaving
  <1>3. ASSUME NEW other \in Machines, Work(other)
        PROVE  CoreInv'
    <2>1. ContentTypeOK'
      BY <1>0, <1>3 DEF ContentTypeOK, Work, writer, reports
    <2>2. ControlTypeOK' /\ prompted' /\ at' = "prompt"
      BY <1>0, <1>3 DEF CoreInv, ControlTypeOK, Work, writer, reports
    <2> QED
      BY <1>0, <1>3, <2>1, <2>2, FilesAlone, NotSaving DEF Work
  <1>4. CASE Exit \/ \E name \in Files : Save(name)
    BY <1>4, OpenKeeps, CoreAssumption DEF Exit, Save
  <1>5. CASE CannotOpen
    <2>1. ContentTypeOK'
      BY <1>0, <1>5 DEF ContentTypeOK, CannotOpen, Off, writer, reports
    <2>2. ControlTypeOK' /\ (at' # "off" => prompted') /\ at' \in {"off", "prompt"}
      BY <1>0, <1>5, NoStreams DEF CoreInv, ControlTypeOK, CannotOpen, Off, writer, reports
    <2> QED
      BY <1>0, <1>5, <2>1, <2>2, FilesAlone, NotSaving DEF CannotOpen
  <1>6. CASE WritePiece \/ Close
    BY <1>6, WritePieceKeeps, CloseKeeps
  <1>7. CASE Kill
    <2>1. 0 \in 0..Pieces
      BY CoreAssumption
    <2>2. ContentTypeOK'
      BY <1>0, <1>7, <2>1 DEF ContentTypeOK, Kill, reports
    <2>3. ControlTypeOK' /\ at' = "off"
      BY <1>0, <1>7, NoStreams DEF ControlTypeOK, Kill, Off
    <2> QED
      BY <1>0, <1>7, <2>2, <2>3, FilesAlone, NotSaving DEF Kill
  <1>8. CASE UNCHANGED coreVars \/ \E name \in Files : StartFails(name)
    <2>1. UNCHANGED coreVars
      BY <1>8 DEF StartFails
    <2> QED
      BY <2>1 DEF CoreInv, CoreTypeOK, ContentTypeOK, ControlTypeOK, SavedIsComplete,
                  Reported, Complete, SaveUnderWay, SoFarWhole, Saving, coreVars, writer, reports
  <1> QED
    BY <1>1, <1>2, <1>3, <1>4, <1>5, <1>6, <1>7, <1>8 DEF CoreNext

LEMMA CoreInvAlways == CoreSpec => []CoreInv
  BY InitCoreInv, NextCoreInv, PTL DEF CoreSpec

-----------------------------------------------------------------------------
(* Files, machines and the writer of a core file are always what they can  *)
(* be: a save writes no more pieces than a file has, and no more streams   *)
(* are open than the program may have.                                     *)
THEOREM CoreTypeCorrect == CoreSpec => []CoreTypeOK
  <1>1. CoreInv => CoreTypeOK
    BY DEF CoreInv
  <1> QED
    BY <1>1, CoreInvAlways, PTL

(* A file whose save was reported holds the whole machine, until it is     *)
(* written again, whatever fails or is killed; unless a write before the   *)
(* last one failed, which nobody looks at.                                 *)
THEOREM SavedStaysComplete == CoreSpec => []SavedIsComplete
  <1>1. CoreInv => SavedIsComplete
    BY DEF CoreInv
  <1> QED
    BY <1>1, CoreInvAlways, PTL

(* A restore from such a file brings back that machine, or could not open  *)
(* the file and leaves the machine alone.                                  *)
THEOREM RestoresWhatWasSaved == CoreSpec => RestoreBringsBack
  <1>1. ASSUME CoreInv, NEW name \in Files, Restore(name) \/ StartFrom(name), Reported(name)
        PROVE  \/ machine' = saved[name] /\ result' = "restored"
               \/ machine' = machine /\ result' = "unable to open"
    <2>1. Complete(cores[name]) /\ cores[name].of = saved[name]
      BY <1>1 DEF CoreInv, SavedIsComplete
    <2>2. Readable(cores[name]) /\ Read(cores[name]) = saved[name]
      BY <2>1, CoreAssumption DEF Readable, Read, Complete, Piece
    <2> QED
      BY <1>1, <2>2 DEF Restore, StartFrom
  <1>2. CoreInv => RestoreIsTrue
    BY <1>1 DEF RestoreIsTrue
  <1> QED
    BY <1>2, CoreInvAlways, PTL DEF RestoreBringsBack

(* A program that never came to its prompt has not touched prev.core. *)
THEOREM PrevCoreKept == CoreSpec => PrevCoreSpared
  <1>1. CoreInv /\ [CoreNext]_coreVars => [WrittenAfterPrompt]_coreVars
    <2> SUFFICES ASSUME CoreInv, CoreNext, cores' # cores PROVE prompted
      BY DEF WrittenAfterPrompt
    <2>1. at # "off"
      BY DEF CoreNext, Start, StartFrom, StartFails, Restore, Save, Work, Exit, CannotOpen,
             WritePiece, Close, Kill, Saving, coreVars
    <2> QED
      BY <2>1 DEF CoreInv
  <1> QED
    BY <1>1, CoreInvAlways, PTL DEF PrevCoreSpared, CoreSpec

=============================================================================
