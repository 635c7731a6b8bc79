----------------------------- MODULE BlockRing -----------------------------
(***************************************************************************)
(* The circular array of iovecs that Mux (Stream.cpp) and Node (Cache.cpp) *)
(* keep the blocks of a resource in.  A producer fills the slot at its     *)
(* pivot and moves the pivot on; readers own pivots of their own and stop  *)
(* at a slot that is empty.                                                *)
(*                                                                         *)
(* A block is the number it has in the order of production, 0, 1, 2 ...    *)
(* The iov_len of a slot tells three things apart: 0 (never filled),       *)
(* EMPTY_BUFFER (the producer's next slot, its old block is void) and the  *)
(* length of a block.                                                      *)
(*                                                                         *)
(* An operator whose name is a definition's and a suffix is a mutant of    *)
(* it: the definition with a bug, which the runs find.                     *)
(***************************************************************************)
EXTENDS Integers

NoData == -1        \* iov_len = 0
EmptyBuffer == -2   \* iov_len = EMPTY_BUFFER, EventType.hpp:31

Slots(size) == 0 .. size - 1

FreshRing(size) == [i \in Slots(size) |-> NoData]

(* pivot++; pivot %= size *)
NextSlot(size, p) == (p + 1) % size

(* The slot holds a block to send. *)
Holds(ring, p) == ring[p] >= 0

(* Mutant: the producer's next slot keeps the block of the last round. *)
Fill_NoMark(size, ring, p, block) ==
  [i \in Slots(size) |-> IF i = p THEN block ELSE ring[i]]

(* The block goes to the slot at p.  The slot after it becomes the         *)
(* producer's next one: if it holds a block of the last round it is        *)
(* marked, so that a reader that has caught up stops there.                *)
Fill(size, ring, p, block) ==
  [i \in Slots(size) |->
     IF i = p THEN block
     ELSE IF i = NextSlot(size, p) /\ ring[i] # NoData THEN EmptyBuffer
     ELSE ring[i]]

(* The ring after head blocks: the producer's slot holds none, and each of *)
(* the other slots holds the newest block that belongs there, or has never *)
(* been filled.                                                            *)
RingState(size, ring, p, head) ==
  /\ ring \in [Slots(size) -> Int]
  /\ p = head % size
  /\ ~Holds(ring, p)
  /\ \A i \in Slots(size) : Holds(ring, i) =>
        ring[i] < head /\ head < ring[i] + size /\ ring[i] % size = i
  /\ \A i \in Slots(size) : (i # p /\ ~Holds(ring, i)) =>
        ring[i] = NoData /\ head <= i
=============================================================================
