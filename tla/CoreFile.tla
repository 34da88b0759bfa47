------------------------------- MODULE CoreFile -------------------------------
(***************************************************************************)
(* Core files over the life of several runs of the program: save_state,    *)
(* restore_state, the --restore option and the save that exit_cleanup      *)
(* makes at exit, where any write may fail, for good or for once, any file *)
(* may not open, and the program may be killed at any point.               *)
(*                                                                         *)
(* What a core file holds of a machine is one value here (see Console for  *)
(* what that is).  A file grows by pieces, each what the library (external)*)
(* writes at once; the first one holds the registers.  A write that fails  *)
(* loses its piece, or what is left of it: words and digits only, or       *)
(* headings too.  The last page of memory straddles the last two pieces:   *)
(* it begins at byte 167749 of 168406, and the library writes the bytes up *)
(* to 167936 before the rest, so that the last piece holds no heading.     *)
(***************************************************************************)
EXTENDS Naturals

CONSTANTS
  Machines,        \* what a core file can say of a machine
  Blank,           \* the one machine_setup makes
  Garbage,         \* memory read from a file that does not have all of it
  Pieces,          \* writes for a whole core file (42)
  MaxStreams,      \* streams the program may have open on core files
  Files            \* names for the commands save and restore, and prev.core

ASSUME CoreAssumption ==
  /\ Blank \in Machines /\ Garbage \in Machines /\ Blank # Garbage
  /\ Pieces \in Nat /\ Pieces >= 3 /\ MaxStreams \in Nat
  /\ "prev.core" \in Files

VARIABLES
  at,          \* "off", "prompt", "saving" or "exiting" (saving prev.core)
  machine,     \* the machine of the running program
  cores,       \* the files
  file,        \* the one save_state has open
  left,        \* pieces save_state has still to write
  streams,     \* streams restore_state has opened, and left open
  result,      \* what the operator is told of the last save or restore
  saved,       \* history: the machine the last reported save to a file wrote
  unseen,      \* history: files with a failed write that fprintf reported
  prompted     \* history: this program has reached the prompt

writer == <<file, left>>
reports == <<saved, unseen>>
coreVars == <<at, machine, cores, writer, streams, result, reports, prompted>>

(* What is in a file of a piece: all, all but some words, or less. *)
Fates == {"whole", "part", "none"}
Piece == 1..Pieces

(* A file without pieces is empty or does not exist. *)
Empty(of) == [kept |-> [i \in Piece |-> "none"], of |-> of]
NoCore == Empty(Blank)
NoMachine == "none"

Complete(core) == \A i \in Piece : core.kept[i] = "whole"

CoreInit ==
  /\ at = "off" /\ machine = Blank
  /\ cores = [name \in Files |-> NoCore]
  /\ file = "prev.core" /\ left = 0 /\ streams = 0
  /\ result = "" /\ saved = [name \in Files |-> NoMachine] /\ unseen = {}
  /\ prompted = FALSE

-----------------------------------------------------------------------------
(***************************************************************************)
(* restore_state.  It looks for every heading.  Of the words it counts     *)
(* those it asks for, not those it finds: where one is missing, the rest   *)
(* of the page is whatever the array of words held.                        *)
(***************************************************************************)
Readable(core) == \A i \in 1..(Pieces - 1) : core.kept[i] # "none"
Read(core) == IF Complete(core) THEN core.of ELSE Garbage

(* There is a limit to open files, and no restore closes its own. *)
CanOpen == streams < MaxStreams

(* A file that cannot be opened or read leaves the machine alone. *)
Restore(name) ==
  /\ at = "prompt"
  /\ \/ /\ CanOpen /\ streams' = streams + 1
        /\ IF Readable(cores[name])
           THEN machine' = Read(cores[name]) /\ result' = "restored"
           ELSE machine' = machine /\ result' = "state unchanged"
     \/ machine' = machine /\ result' = "unable to open" /\ UNCHANGED streams
  /\ UNCHANGED <<at, cores, writer, reports, prompted>>

(***************************************************************************)
(* The program starts, with or without --restore.  Only what comes after   *)
(* the restore is saved at exit.                                           *)
(***************************************************************************)
Start ==
  /\ at = "off" /\ at' = "prompt" /\ prompted' = TRUE
  /\ machine' = Blank /\ result' = ""
  /\ UNCHANGED <<cores, writer, streams, reports>>

StartFrom(name) ==
  /\ at = "off" /\ CanOpen /\ Readable(cores[name])
  /\ at' = "prompt" /\ prompted' = TRUE /\ streams' = streams + 1
  /\ machine' = Read(cores[name]) /\ result' = "restored"
  /\ UNCHANGED <<cores, writer, reports>>

(* Deposits, runs and steps. *)
Work(other) ==
  /\ at = "prompt" /\ other # machine
  /\ machine' = other /\ result' = ""
  /\ UNCHANGED <<at, cores, writer, streams, reports, prompted>>

-----------------------------------------------------------------------------
(***************************************************************************)
(* save_state.                                                             *)
(***************************************************************************)

(* Mutant: opened for appending; what is read is the old content. *)
AppendTo(core) == core

(* fopen with "w+". *)
Truncate(core) == Empty(machine)

(* Mutant: one page too many. *)
OpenForMore(name) ==
  /\ CanOpen
  /\ cores' = [cores EXCEPT ![name] = Truncate(@)]
  /\ file' = name /\ left' = Pieces + 1
  /\ saved' = [saved EXCEPT ![name] = NoMachine] /\ unseen' = unseen \ {name}
  /\ result' = "" /\ UNCHANGED streams

Open(name) ==
  /\ CanOpen
  /\ cores' = [cores EXCEPT ![name] = Truncate(@)]
  /\ file' = name /\ left' = Pieces
  /\ saved' = [saved EXCEPT ![name] = NoMachine] /\ unseen' = unseen \ {name}
  /\ result' = "" /\ UNCHANGED streams

Save(name) ==
  /\ at = "prompt" /\ at' = "saving"
  /\ Open(name)
  /\ UNCHANGED <<machine, prompted>>

(* exit_cleanup, at the command exit, ^C and the stops that exit. *)
Exit ==
  /\ at = "prompt" /\ at' = "exiting"
  /\ Open("prev.core")
  /\ UNCHANGED <<machine, prompted>>

(* The end of a program closes what it left open. *)
Off == at' = "off" /\ prompted' = FALSE /\ streams' = 0

(* fopen failed, in a save or in the one at exit. *)
CannotOpen ==
  /\ at = "prompt"
  /\ \/ result' = "unable to open" /\ UNCHANGED <<at, prompted, streams>>
     \/ result' = "" /\ Off
  /\ UNCHANGED <<machine, cores, writer, reports>>

Saving == at \in {"saving", "exiting"}

(* Mutant: exit_cleanup is registered before the restore. *)
StartFailsSaving(name) ==
  /\ at = "off"
  /\ at' = "exiting" /\ machine' = Blank
  /\ Open("prev.core")
  /\ UNCHANGED prompted

(* The file to restore does not open, or cannot be read: exit before       *)
(* exit_cleanup is registered.                                             *)
StartFails(name) ==
  /\ at = "off"
  /\ UNCHANGED coreVars

(* The next piece reaches the file, or not. *)
Put(how) ==
  cores' = [cores EXCEPT ![file] =
              [kept |-> [@.kept EXCEPT ![Pieces - left + 1] = how], of |-> @.of]]

(* fprintf, whose result is not looked at: after a write that failed it    *)
(* goes on to the end, and later ones may succeed again.                   *)
WritePiece ==
  /\ Saving /\ left > 1
  /\ left' = left - 1
  /\ \E how \in Fates :
       /\ Put(how)
       /\ unseen' = IF how = "whole" THEN unseen ELSE unseen \cup {file}
  /\ UNCHANGED <<at, machine, file, streams, result, saved, prompted>>

Done == IF at = "exiting" THEN Off ELSE at' = "prompt" /\ UNCHANGED <<prompted, streams>>

(* Mutant: the result of fclose is not looked at either. *)
CloseUnchecked ==
  /\ Saving /\ left = 1 /\ left' = 0
  /\ \E how \in Fates : Put(how)
  /\ result' = "saved" /\ saved' = [saved EXCEPT ![file] = machine]
  /\ Done
  /\ UNCHANGED <<machine, file, unseen>>

(* fclose writes the last piece, and its result tells of that one only. *)
Close ==
  /\ Saving /\ left = 1 /\ left' = 0
  /\ \E how \in Fates :
       /\ Put(how)
       /\ \/ how = "whole" /\ result' = "saved" /\ saved' = [saved EXCEPT ![file] = machine]
          \/ result' = "unable to close" /\ saved' = saved
  /\ Done
  /\ UNCHANGED <<machine, file, unseen>>

(* The program is killed. *)
Kill ==
  /\ at # "off" /\ Off
  /\ result' = "" /\ left' = 0
  /\ UNCHANGED <<machine, cores, file, reports>>

CoreNext ==
  \/ Start
  \/ \E name \in Files : StartFrom(name) \/ StartFails(name) \/ Restore(name) \/ Save(name)
  \/ \E other \in Machines : Work(other)
  \/ Exit \/ CannotOpen \/ WritePiece \/ Close \/ Kill

CoreSpec == CoreInit /\ [][CoreNext]_coreVars

-----------------------------------------------------------------------------
ControlTypeOK ==
  /\ at \in {"off", "prompt", "saving", "exiting"}
  /\ streams \in 0..MaxStreams /\ prompted \in BOOLEAN
  /\ result \in {"", "saved", "unable to open", "unable to close", "restored", "state unchanged"}

ContentTypeOK ==
  /\ machine \in Machines
  /\ cores \in [Files -> [kept : [Piece -> Fates], of : Machines]]
  /\ file \in Files /\ left \in 0..Pieces
  /\ saved \in [Files -> Machines \cup {NoMachine}] /\ unseen \subseteq Files

CoreTypeOK == ControlTypeOK /\ ContentTypeOK

(* "CPU state saved" is true, and stays so until the same file is written  *)
(* again: whatever is killed, runs full, does not open, is restored or     *)
(* started meanwhile, the file holds the whole machine.  One thing can     *)
(* make it a lie: a write before the last that failed, of which fprintf    *)
(* told and nobody listened.                                               *)
Reported(name) == saved[name] # NoMachine /\ name \notin unseen

SavedIsComplete ==
  \A name \in Files :
    Reported(name) => Complete(cores[name]) /\ cores[name].of = saved[name]

(* A restore from a file whose save was reported, by whatever program,     *)
(* brings back the machine of that save, under the same condition, or does *)
(* not get to read the file; it is never refused for what it holds.        *)
RestoreIsTrue ==
  \A name \in Files :
    (Restore(name) \/ StartFrom(name)) /\ Reported(name)
      => \/ machine' = saved[name] /\ result' = "restored"
         \/ machine' = machine /\ result' = "unable to open"
RestoreBringsBack == [][RestoreIsTrue]_coreVars

(* A program that did not come to its prompt, because it could not restore *)
(* the machine it was told to, leaves prev.core alone.                     *)
WrittenAfterPrompt == cores'["prev.core"] # cores["prev.core"] => prompted
PrevCoreSpared == [][WrittenAfterPrompt]_coreVars

(* What restore accepts has all the words of a machine: "Unable to find    *)
(* all memory" otherwise.                                                  *)
RestoresWholeCores ==
  [][\A name \in Files :
       (Restore(name) \/ StartFrom(name)) /\ result' = "restored"
         => Complete(cores[name])]_coreVars

=============================================================================
