------------------------------ MODULE EventRing ------------------------------
(***************************************************************************)
(* The ring buffer of countingAlgo.c: an array of SIZE slots, the position *)
(* of the oldest event, and the number of events.  Module Counting keeps   *)
(* the events as a sequence; the theorems about the ring in CountingProofs *)
(* show that nothing is lost by it while the ring holds at most SIZE       *)
(* events, which is what NoBufferOverflow of module Counting states, and   *)
(* that beyond the ring forgets.                                           *)
(***************************************************************************)
EXTENDS Integers, Sequences

\* The events of a ring, the oldest first.
Window(ring, size, head, fill) ==
  [i \in 1..fill |-> ring[(head + i - 1) % size]]

\* pushInBuffer receives an event behind the newest one.
Received(ring, size, head, fill, event) ==
  [ring EXCEPT ![(head + fill) % size] = event]

\* analyzer steps over the oldest event.
NextHead(size, head) == (head + 1) % size

=============================================================================
