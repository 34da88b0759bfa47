--------------------------------- MODULE Tty ---------------------------------
(***************************************************************************)
(* The KL8E console terminal interface: the registers of tty.c and what    *)
(* tty_process does with them.  The program runs it now and then between   *)
(* two instructions, in the loop of machine_run.                           *)
(*                                                                         *)
(* The terminal itself is reached through read_tty_byte and                *)
(* write_tty_byte of machine.c.  A read answers 1 (a byte), 0 (nothing     *)
(* typed) or -1 (the console was called for, or the input ended).          *)
(***************************************************************************)
EXTENDS Integers

CONSTANT Byte                      \* what may be typed
ASSUME ByteAssumption == Byte \subseteq 0..\o377

VARIABLES
  tty_kb_buf, tty_kb_flag,         \* keyboard (device 03)
  tty_tp_buf, tty_tp_flag,         \* teleprinter (device 04)
  tty_dcr,                         \* device control register: interrupt enable
  output_pending,                  \* a character was handed to the printer
  intr                             \* interrupt requests (cpu.c), raised here

tty == <<tty_kb_buf, tty_kb_flag, tty_tp_buf, tty_tp_flag, tty_dcr, output_pending>>

Requests == {"TTYO", "TTYI", "USER"}

TtyTypeOK ==
  /\ tty_kb_buf \in 0..\o377
  /\ tty_kb_flag \in 0..1
  /\ tty_tp_buf \in 0..\o177
  /\ tty_tp_flag \in 0..1
  /\ tty_dcr \in 0..1
  /\ output_pending \in 0..1
  /\ intr \in SUBSET Requests

(* machine_setup resets the terminal before anything runs. *)
TtyInit ==
  /\ tty_kb_buf = 0 /\ tty_kb_flag = 0
  /\ tty_tp_buf = 0 /\ tty_tp_flag = 0
  /\ tty_dcr = 1
  /\ output_pending = 0
  /\ intr = {}

(* tty_reset: it leaves output_pending as it is. *)
TtyReset ==
  /\ tty_kb_buf' = 0 /\ tty_kb_flag' = 0
  /\ tty_tp_buf' = 0 /\ tty_tp_flag' = 0
  /\ tty_dcr' = 1
  /\ UNCHANGED output_pending

(* cpu_raise_interrupt, under the interrupt enable of the terminal. *)
Raise(request) == IF tty_dcr = 1 THEN {request} ELSE {}

(***************************************************************************)
(* tty_process: first the keyboard, then, in the same call, the printer.   *)
(***************************************************************************)

(* Mutant: output_pending is not cleared. *)
TtyOutputAgain(raised) ==
  /\ output_pending' = output_pending
  /\ tty_tp_flag' = (IF output_pending = 1 THEN 1 ELSE tty_tp_flag)
  /\ intr' = intr \cup raised \cup (IF output_pending = 1 THEN Raise("TTYO") ELSE {})
  /\ UNCHANGED <<tty_tp_buf, tty_dcr>>

(* The second half; "raised" is what the first half already requested. *)
TtyOutput(raised) ==
  /\ output_pending' = 0
  /\ IF output_pending = 1
     THEN /\ tty_tp_flag' = 1
          /\ intr' = intr \cup raised \cup Raise("TTYO")
     ELSE /\ tty_tp_flag' = tty_tp_flag
          /\ intr' = intr \cup raised
  /\ UNCHANGED <<tty_tp_buf, tty_dcr>>

(* A byte was typed.  The keyboard is only read while its flag is down. *)
TtyRead(byte) ==
  /\ tty_kb_flag = 0
  /\ tty_kb_buf' = byte
  /\ tty_kb_flag' = 1
  /\ TtyOutput(Raise("TTYI"))

(* Nothing typed, or the keyboard flag is still up. *)
TtyNoInput ==
  /\ output_pending = 1
  /\ UNCHANGED <<tty_kb_buf, tty_kb_flag>>
  /\ TtyOutput({})

=============================================================================
