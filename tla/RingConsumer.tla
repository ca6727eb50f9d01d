---------------------------- MODULE RingConsumer ----------------------------
(***************************************************************************)
(* What ddr_stream_reader promises to the two sides of the DDR ring, and   *)
(* what it asks of the host that owns the write pointer.  Counters are in  *)
(* 64-byte beats (both pointers only ever move by whole beats).            *)
(*                                                                         *)
(* The reader delivers beat 0, 1, 2, ... of the byte stream, never one     *)
(* beyond the committed write pointer, and reports completion only when it *)
(* has delivered everything up to the pointer that was committed together  *)
(* with EOF.  The host may commit up to one ring capacity ahead of what    *)
(* has been delivered.  DdrStreamReader (the RTL, clock by clock) and      *)
(* StreamRing (the host loader) are both checked against this module.      *)
(***************************************************************************)
EXTENDS Integers

CONSTANTS Ring,       \* beats of one DDR segment (cfg_ring_size / 64)
          PingPong    \* two segments, bank 0 and bank 1

ASSUME RingAssumption == Ring \in Nat \ {0} /\ PingPong \in BOOLEAN

\* ring_size_valid_cfg: a ping-pong segment must be a power of two.
RingSizeValid == PingPong => \E k \in 0..Ring : 2^k = Ring

\* ring_capacity_bytes_q; stream_capacity_bytes in the loader.
Capacity == IF PingPong THEN 2 * Ring ELSE Ring

\* pwrite_stream_window: bank and offset of stream position n.
Address(n) ==
    LET pos == n % Capacity
    IN  IF pos >= Ring THEN <<1, pos - Ring>> ELSE <<0, pos>>

VARIABLES ring_write,  \* cfg_stream_write_count: the committed write pointer
          eof,         \* cfg_stream_eof
          state,       \* "idle", "run" or "done"
          read_count,  \* beats delivered downstream
          error        \* sticky error flag

consumerVars == <<ring_write, eof, state, read_count, error>>

ConsumerTypeOK ==
    /\ ring_write \in Nat
    /\ eof \in BOOLEAN
    /\ state \in {"idle", "run", "done"}
    /\ read_count \in Nat
    /\ error \in BOOLEAN

ConsumerInit ==
    /\ ring_write = 0
    /\ eof = FALSE
    /\ state = "idle"
    /\ read_count = 0
    /\ error = FALSE

\* A committed pointer the reader accepts: not behind what it has delivered
\* and at most one capacity ahead of it.
PointerOK == read_count <= ring_write /\ ring_write - read_count <= Capacity

-----------------------------------------------------------------------------
(* The reader.                                                             *)

\* A start pulse restarts the reader from beat 0, whatever it was doing; an
\* invalid segment size ends it at once, with the error flag.
StartReader ==
    /\ state' = IF RingSizeValid THEN "run" ELSE "done"
    /\ read_count' = 0
    /\ error' = ~RingSizeValid
    /\ UNCHANGED <<ring_write, eof>>

\* One beat leaves the reader; only a committed beat can.  bad: the memory
\* answered it with an error response or a misplaced RLAST.
ConsumeBeat(bad) ==
    /\ state = "run"
    /\ read_count < ring_write
    /\ read_count' = read_count + 1
    /\ error' = (error \/ bad)
    /\ UNCHANGED <<ring_write, eof, state>>

\* A pointer the host should not have committed; a reader with nothing
\* outstanding ends in the same clock.
PointerFault ==
    /\ state = "run"
    /\ ~PointerOK
    /\ error' = TRUE
    /\ state' \in {"run", "done"}
    /\ UNCHANGED <<ring_write, eof, read_count>>

FinishReader ==
    /\ state = "run"
    /\ error \/ (eof /\ read_count >= ring_write)
    /\ state' = "done"
    /\ UNCHANGED <<ring_write, eof, read_count, error>>

\* stop_pulse or clear_pulse: both reset every register of the reader.
StopReader ==
    /\ state' = "idle"
    /\ read_count' = 0
    /\ error' = FALSE
    /\ UNCHANGED <<ring_write, eof>>

-----------------------------------------------------------------------------
(* The owner of the registers.                                             *)

\* A committed pointer never moves back and stays within the window.
CommitWindow ==
    /\ ring_write' >= ring_write
    /\ ring_write' - read_count <= Capacity
    /\ UNCHANGED <<eof, state, read_count, error>>

RaiseEof ==
    /\ eof' = TRUE
    /\ UNCHANGED <<ring_write, state, read_count, error>>

\* The register half of control bit 2: the write pointer and EOF go to zero
\* one clock before the clear pulse resets the reader.
ClearRegisters ==
    /\ ring_write' = 0
    /\ eof' = FALSE
    /\ UNCHANGED <<state, read_count, error>>

\* The host clears a stopped reader only.
ClearWindow == state = "idle" /\ ClearRegisters

ConsumerNext ==
    \/ StartReader
    \/ \E bad \in BOOLEAN : ConsumeBeat(bad)
    \/ PointerFault
    \/ FinishReader
    \/ CommitWindow
    \/ RaiseEof
    \/ StopReader
    \/ ClearWindow

ConsumerSpec == ConsumerInit /\ [][ConsumerNext]_consumerVars
=============================================================================
