------------------------------ MODULE SerialCLA ------------------------------
(***************************************************************************)
(* One direction of a serial line between two nodes: SerialCLA::send at    *)
(* one end, SerialCLA::getNewBundles at the other, the UART driver's       *)
(* receive buffer between them.                                            *)
(*                                                                         *)
(* What is sent is bytes; here they are the items of the encoding and the  *)
(* break the driver adds after a bundle, which is received as one byte.    *)
(* getNewBundles looks for the bytes 0x9f and 0xff.  Any block may hold    *)
(* them too, in its data, its times or its CRC.  What begins in the middle *)
(* of a block, or behind one, does not decode.                             *)
(***************************************************************************)
EXTENDS BundleFormat

CONSTANTS
  HoldsBegin(_), HoldsEnd(_),  \* whether a block's encoding holds a 0x9f, a 0xff
  UartBuffer,                  \* CONFIG_UART_BUF_SIZE, in items
  TimeBetweenClaPoll

ASSUME SerialAssumption ==
  UartBuffer \in Nat /\ TimeBetweenClaPoll \in Nat

VARIABLES
  now,              \* the clock, of both ends
  out,              \* what uart_write_bytes_with_break has not put on the line yet
  rx,               \* the receive buffer of the other end
  poll,             \* "read": getNewBundles has read the buffer, not flushed it yet
  data,             \* what it has read
  startOfCycle, usedBytesInCycle

lineVars == <<out, rx, poll, data, startOfCycle, usedBytesInCycle>>

Break == [is |-> "break"]

LineInit ==
  /\ out = <<>> /\ rx = <<>> /\ poll = "idle" /\ data = <<>>
  /\ startOfCycle = 0 /\ usedBytesInCycle = 0

-----------------------------------------------------------------------------
(* send *)

NewCycle == now - startOfCycle > TimeBetweenClaPoll

UsedWith(items) ==
  (IF NewCycle THEN 0 ELSE usedBytesInCycle) + Len(items) + 1

Accepts(items) == UsedWith(items) <= UartBuffer

Write(items) ==
  /\ out = <<>> /\ Accepts(items)
  /\ startOfCycle' = IF NewCycle THEN now ELSE startOfCycle
  /\ usedBytesInCycle' = UsedWith(items)
  /\ out' = Append(items, Break)
  /\ UNCHANGED <<rx, poll, data>>

Refuse(items) ==
  /\ out = <<>> /\ ~Accepts(items)
  /\ startOfCycle' = IF NewCycle THEN now ELSE startOfCycle
  /\ usedBytesInCycle' = IF NewCycle THEN 0 ELSE usedBytesInCycle
  /\ UNCHANGED <<out, rx, poll, data>>

(* A byte arrives; what does not fit into the buffer is lost. *)
Transmit ==
  /\ out # <<>>
  /\ out' = Tail(out)
  /\ rx' = IF Len(rx) < UartBuffer THEN Append(rx, Head(out)) ELSE rx
  /\ UNCHANGED <<poll, data, startOfCycle, usedBytesInCycle>>

-----------------------------------------------------------------------------
(* getNewBundles *)

(* Reads what is there, which may be nothing. *)
Read ==
  /\ poll = "idle"
  /\ poll' = "read" /\ data' = rx /\ rx' = <<>>
  /\ UNCHANGED <<out, startOfCycle, usedBytesInCycle>>

(* Discards what has arrived since. *)
Flush == poll = "read" /\ poll' = "idle" /\ data' = <<>> /\ rx' = <<>>

(* Where there is a 0x9f, a 0xff. *)
Begins(bytes) ==
  {i \in DOMAIN bytes : \/ bytes[i].is = "begin"
                        \/ bytes[i].is = "block" /\ HoldsBegin(bytes[i])}

Ends(bytes) ==
  {i \in DOMAIN bytes : \/ bytes[i].is = "end"
                        \/ bytes[i].is = "block" /\ HoldsEnd(bytes[i])}

FirstBegin(bytes) == IF Begins(bytes) = {} THEN 1 ELSE Min(Begins(bytes))

FaultyStart(bytes, end) ==
  LET before == {e \in Ends(bytes) : e < end}
  IN  IF before = {} THEN FirstBegin(bytes) ELSE Max(before) + 1

(* Behind the 0xff before, and the byte behind that: the break, or what is  *)
(* left of a block.                                                        *)
Start(bytes, end) ==
  LET before == {e \in Ends(bytes) : e < end}
  IN  IF before = {} THEN FirstBegin(bytes)
      ELSE IF bytes[Max(before)].is = "block" THEN Max(before)
      ELSE Max(before) + 2

(* What is given to fromCbor at the 0xff at end.  If that comes before the  *)
(* first 0x9f the length is negative, a huge number for fromCbor, which     *)
(* reads on (beyond the array if no bundle ends there: it then finds none). *)
Piece(bytes, end) ==
  LET start == Start(bytes, end)
  IN  SubSeq(bytes, start, IF start > end + 1 THEN Len(bytes) ELSE end)

(* The 0xff at which a bundle is found, and the bundle. *)
Decoded(bytes, end) == fromCbor(Piece(bytes, end), now)

getNewBundles(bytes) ==
  [e \in {i \in Ends(bytes) : Decoded(bytes, i).valid} |-> Decoded(bytes, e)]
=============================================================================
