-------------------------- MODULE BlockRingProofs --------------------------
(* Facts about the ring of blocks, for every size. *)
EXTENDS BlockRing, TLAPS

(* The quotient and the remainder of a number by the size of the ring. *)
LEMMA DivMod ==
  ASSUME NEW n \in Nat, n >= 2, NEW x \in Int
  PROVE  /\ x = n * (x \div n) + (x % n)
         /\ x % n \in Slots(n)
         /\ x \div n \in Int
BY DEF Slots

(* A product with a positive factor is at least a whole factor away from 0. *)
LEMMA WholeLap ==
  ASSUME NEW n \in Nat, n >= 2, NEW q \in Int, NEW r \in Int, q < r
  PROVE  n * q + n <= n * r
<1>1. PICK d \in Nat : r = q + 1 + d
  <2>1. r - q - 1 \in Nat /\ r = q + 1 + (r - q - 1)
    OBVIOUS
  <2> QED
    BY <2>1
<1>2. n * r = n * q + n + n * d
  BY <1>1
<1>3. n * d >= 0
  BY <1>1
<1>4. n * q \in Int /\ n * r \in Int /\ n * d \in Int
  BY <1>1
<1> QED
  BY <1>2, <1>3, <1>4

(* There is only one way to write a number as whole laps and a slot. *)
LEMMA ModUnique ==
  ASSUME NEW n \in Nat, n >= 2, NEW x \in Int, NEW q \in Int,
         NEW s \in Slots(n), x = n * q + s
  PROVE  x % n = s
<1> DEFINE p == x \div n
           r == x % n
<1>1. x = n * p + r /\ r \in Slots(n) /\ p \in Int
  BY DivMod
<1> HIDE DEF p, r
<1>2. n * p \in Int /\ n * q \in Int
  BY <1>1
<1>3. ~(p < q)
  BY <1>1, <1>2, WholeLap DEF Slots
<1>4. ~(q < p)
  BY <1>1, <1>2, WholeLap DEF Slots
<1>5. p = q
  BY <1>1, <1>3, <1>4
<1>6. r = s
  BY <1>1, <1>2, <1>5 DEF Slots
<1> QED
  BY <1>6 DEF r

(* A slot is its own remainder. *)
LEMMA ModOfSlot ==
  ASSUME NEW n \in Nat, n >= 2, NEW s \in Slots(n)
  PROVE  s % n = s
<1>1. PICK z \in Int : z = 0
  OBVIOUS
<1>2. n * z = 0
  BY <1>1
<1>3. s = n * z + s /\ s \in Int
  BY <1>2 DEF Slots
<1> HIDE <1>1
<1> QED
  BY <1>3, ModUnique

(* The slot after the last is the first. *)
LEMMA NextSlotValue ==
  ASSUME NEW n \in Nat, n >= 2, NEW p \in Slots(n)
  PROVE  /\ NextSlot(n, p) = IF p = n - 1 THEN 0 ELSE p + 1
         /\ NextSlot(n, p) \in Slots(n)
<1>1. CASE p = n - 1
  <2>1. p + 1 = n * 1 + 0 /\ 0 \in Slots(n) /\ p + 1 \in Int
    BY <1>1 DEF Slots
  <2> QED
    BY <1>1, <2>1, ModUnique DEF NextSlot
<1>2. CASE p # n - 1
  <2>1. p + 1 \in Slots(n)
    BY <1>2 DEF Slots
  <2>2. (p + 1) % n = p + 1
    BY <2>1, ModOfSlot
  <2> QED
    BY <1>2, <2>1, <2>2 DEF NextSlot
<1> QED
  BY <1>1, <1>2

(* The pivot follows the number of blocks. *)
LEMMA NextSlotOfMod ==
  ASSUME NEW n \in Nat, n >= 2, NEW x \in Int
  PROVE  (x + 1) % n = NextSlot(n, x % n)
<1> DEFINE q == x \div n
           r == x % n
<1>1. x = n * q + r /\ r \in Slots(n) /\ q \in Int
  BY DivMod
<1> HIDE DEF q, r
<1>2. n * q \in Int /\ x + 1 \in Int
  BY <1>1
<1>3. CASE r = n - 1
  <2>1. x + 1 = n * q + n
    BY <1>1, <1>2, <1>3
  <2>2. n * q + n = n * (q + 1)
    BY <1>1
  <2>3. q + 1 \in Int /\ 0 \in Slots(n) /\ x + 1 = n * (q + 1) + 0
    BY <1>1, <1>2, <2>1, <2>2 DEF Slots
  <2>4. (x + 1) % n = 0
    BY <1>2, <2>3, ModUnique
  <2> QED
    BY <1>1, <1>3, <2>4, NextSlotValue DEF r
<1>4. CASE r # n - 1
  <2>1. x + 1 = n * q + (r + 1) /\ r + 1 \in Slots(n)
    BY <1>1, <1>2, <1>4 DEF Slots
  <2>2. (x + 1) % n = r + 1
    BY <1>1, <1>2, <2>1, ModUnique
  <2> QED
    BY <1>1, <1>4, <2>2, NextSlotValue DEF r
<1> QED
  BY <1>3, <1>4

(* Two blocks that belong in the same slot are whole laps apart. *)
LEMMA SameSlot ==
  ASSUME NEW n \in Nat, n >= 2, NEW x \in Int, NEW y \in Int,
         x % n = y % n
  PROVE  /\ (y - x) % n = 0
         /\ x < y => x + n <= y
<1> DEFINE p == x \div n
           q == y \div n
           r == x % n
<1>1. x = n * p + r /\ y = n * q + r /\ r \in Slots(n) /\ p \in Int /\ q \in Int
  BY DivMod
<1> HIDE DEF p, q, r
<1>2. n * p \in Int /\ n * q \in Int
  BY <1>1
<1>3. (y - x) % n = 0
  <2>1. y - x = n * q - n * p
    BY <1>1, <1>2 DEF Slots
  <2>2. n * q - n * p = n * (q - p)
    BY <1>1
  <2>3. y - x = n * (q - p) + 0 /\ 0 \in Slots(n) /\ q - p \in Int /\ y - x \in Int
    BY <1>1, <2>1, <2>2 DEF Slots
  <2> QED
    BY <2>3, ModUnique
<1>4. ASSUME x < y PROVE x + n <= y
  <2>1. p < q
    <3>1. ~(q < p)
      BY <1>1, <1>2, <1>4, WholeLap DEF Slots
    <3>2. p # q
      BY <1>1, <1>2, <1>4 DEF Slots
    <3> QED
      BY <1>1, <3>1, <3>2
  <2>2. n * p + n <= n * q
    BY <1>1, <2>1, WholeLap
  <2> QED
    BY <1>1, <1>2, <2>2 DEF Slots
<1> QED
  BY <1>3, <1>4

-----------------------------------------------------------------------------
(* A ring that was never written to. *)
LEMMA FreshRingState ==
  ASSUME NEW n \in Nat, n >= 2
  PROVE  RingState(n, FreshRing(n), 0, 0)
<1>1. 0 % n = 0
  BY ModOfSlot, 0 \in Slots(n) DEF Slots
<1> QED
  BY <1>1 DEF RingState, FreshRing, Holds, NoData, Slots

(* Fill takes the ring of head blocks to the ring of one block more: the   *)
(* slot that becomes the producer's is the one whose block is a lap old.   *)
LEMMA FillRingState ==
  ASSUME NEW n \in Nat, n >= 2, NEW ring, NEW p, NEW head \in Nat,
         RingState(n, ring, p, head)
  PROVE  RingState(n, Fill(n, ring, p, head), NextSlot(n, p), head + 1)
<1> DEFINE new == Fill(n, ring, p, head)
           q == NextSlot(n, p)
<1>1. p \in Slots(n) /\ p = head % n /\ ring \in [Slots(n) -> Int]
  BY DivMod DEF RingState
<1>2. q \in Slots(n) /\ q = (head + 1) % n
  BY <1>1, NextSlotValue, NextSlotOfMod
<1>3. q # p
  <2>1. q = IF p = n - 1 THEN 0 ELSE p + 1
    BY <1>1, NextSlotValue
  <2> QED
    BY <1>1, <2>1 DEF Slots
<1>4. /\ new \in [Slots(n) -> Int]
      /\ new[p] = head
      /\ new[q] = IF ring[q] # NoData THEN EmptyBuffer ELSE NoData
      /\ \A i \in Slots(n) : i # p /\ i # q => new[i] = ring[i]
  BY <1>1, <1>2, <1>3 DEF Fill, EmptyBuffer, NoData
<1> HIDE DEF new, q
<1>5. ~Holds(new, q)
  BY <1>4 DEF Holds, EmptyBuffer, NoData
<1>6. ASSUME NEW i \in Slots(n), Holds(new, i)
      PROVE  new[i] < head + 1 /\ head + 1 < new[i] + n /\ new[i] % n = i
  <2>1. CASE i = p
    BY <1>1, <1>4, <2>1
  <2>2. CASE i # p
    <3>1. i # q /\ new[i] = ring[i] /\ Holds(ring, i)
      BY <1>4, <1>5, <1>6, <2>2 DEF Holds
    <3>2. ring[i] \in Int /\ ring[i] < head /\ head < ring[i] + n /\ ring[i] % n = i
      BY <1>1, <3>1 DEF RingState
    <3>3. head + 1 # ring[i] + n
      <4>1. SUFFICES ASSUME head + 1 = ring[i] + n PROVE FALSE
        OBVIOUS
      <4>2. (ring[i] + n) % n = ring[i] % n
        <5>1. ring[i] = n * (ring[i] \div n) + i /\ ring[i] \div n \in Int
          BY <3>2, DivMod
        <5>2. ring[i] + n = n * (ring[i] \div n) + i + n
          BY <3>2, <5>1
        <5>3. n * (ring[i] \div n) + n = n * ((ring[i] \div n) + 1)
          <6> DEFINE q1 == ring[i] \div n
          <6>1. q1 \in Int /\ n \in Int
            BY <5>1
          <6> HIDE DEF q1
          <6>2. n * q1 + n = n * (q1 + 1)
            BY <6>1
          <6> QED
            BY <6>2 DEF q1
        <5>4. /\ ring[i] + n = n * ((ring[i] \div n) + 1) + i
              /\ (ring[i] \div n) + 1 \in Int /\ ring[i] + n \in Int
          <6> DEFINE q1 == ring[i] \div n
                     x == n * q1
                     y == n * (q1 + 1)
          <6>1. /\ ring[i] = x + i /\ ring[i] + n = x + i + n /\ x + n = y
                /\ q1 \in Int /\ ring[i] \in Int /\ n \in Int /\ i \in Int
            BY <3>2, <5>1, <5>2, <5>3 DEF Slots
          <6>2. x \in Int /\ y \in Int
            BY <6>1
          <6> HIDE DEF q1, x, y
          <6>3. ring[i] + n = y + i /\ q1 + 1 \in Int /\ ring[i] + n \in Int
            BY <6>1, <6>2
          <6> QED
            BY <6>3 DEF q1, y
        <5> QED
          BY <3>2, <5>4, ModUnique
      <4> QED
        BY <1>2, <3>1, <3>2, <4>1, <4>2
    <3> QED
      BY <3>1, <3>2, <3>3
  <2> QED
    BY <2>1, <2>2
<1>7. ASSUME NEW i \in Slots(n), i # q, ~Holds(new, i)
      PROVE  new[i] = NoData /\ head + 1 <= i
  <2>1. i # p /\ new[i] = ring[i] /\ ~Holds(ring, i)
    BY <1>4, <1>7 DEF Holds
  <2>2. ring[i] = NoData /\ head <= i
    BY <2>1 DEF RingState
  <2>3. head # i
    <3>1. SUFFICES ASSUME head = i PROVE FALSE
      OBVIOUS
    <3>2. head % n = i
      BY <3>1, ModOfSlot
    <3> QED
      BY <1>1, <2>1, <3>2
  <2> QED
    BY <2>1, <2>2, <2>3 DEF Slots
<1> QED
  BY <1>2, <1>4, <1>5, <1>6, <1>7 DEF RingState, new, q

(* The slot of a block. *)
SlotOf(n, k) == k % n

(* A reader that wants block k and has not overtaken the producer, and     *)
(* whose slot holds no block, stands at the producer's slot.               *)
LEMMA IdleReader ==
  ASSUME NEW n \in Nat, n >= 2, NEW ring, NEW p, NEW head \in Nat,
         RingState(n, ring, p, head),
         NEW k \in Nat, k <= head, NEW i, i = SlotOf(n, k), ~Holds(ring, i)
  PROVE  i = p
<1>0. i = k % n
  BY DEF SlotOf
<1>1. i \in Slots(n)
  <2>1. k \in Int
    OBVIOUS
  <2> QED
    BY <1>0, <2>1, DivMod
<1> SUFFICES ASSUME i # p PROVE FALSE
  OBVIOUS
<1>2. head <= i
  BY <1>1 DEF RingState
<1>3. k <= i /\ i < n
  BY <1>1, <1>2 DEF Slots
<1>4. k \in Slots(n)
  BY <1>1, <1>3 DEF Slots
<1>5. k = i
  BY <1>0, <1>4, ModOfSlot
<1>6. head = k
  BY <1>1, <1>2, <1>5 DEF Slots
<1> QED
  BY <1>0, <1>5, <1>6 DEF RingState

(* The block that such a reader finds and is sent comes after the ones     *)
(* before it, by one or by one more than whole laps, and the slot after it *)
(* is the slot of the block that the reader wants next.                    *)
LEMMA SentBlock ==
  ASSUME NEW n \in Nat, n >= 2, NEW ring, NEW p, NEW head \in Nat,
         RingState(n, ring, p, head),
         NEW k \in Nat, k <= head, NEW i, i = SlotOf(n, k), Holds(ring, i)
  PROVE  LET next == ring[i] + 1
         IN  /\ next \in Nat /\ k < next /\ next <= head
             /\ (next - k) % n = 1
             /\ next % n = NextSlot(n, i)
<1>0. i = k % n
  BY DEF SlotOf
<1> DEFINE next == ring[i] + 1
           b == ring[i]
<1>1. i \in Slots(n)
  <2>1. k \in Int
    OBVIOUS
  <2> QED
    BY <1>0, <2>1, DivMod
<1>2. b \in Int /\ b >= 0 /\ b < head /\ head < b + n /\ b % n = i /\ next = b + 1
  BY <1>1 DEF RingState, Holds
<1>3. k \in Int /\ b % n = k % n /\ k % n = b % n
  BY <1>0, <1>2
<1> HIDE DEF b, next
<1>4. (b - k) % n = 0 /\ (b < k => b + n <= k)
  BY <1>2, <1>3, SameSlot
<1>5. b >= k
  BY <1>2, <1>3, <1>4
<1>6. (b + 1) % n = NextSlot(n, i)
  BY <1>2, NextSlotOfMod
<1> DEFINE x == b - k
<1>7. x \in Int /\ x % n = 0 /\ x + 1 = next - k
  BY <1>2, <1>4
<1> HIDE DEF x
<1>8. (x + 1) % n = NextSlot(n, 0)
  BY <1>7, NextSlotOfMod
<1>9. NextSlot(n, 0) = 1
  <2>1. 0 \in Slots(n)
    BY DEF Slots
  <2> QED
    BY <2>1, NextSlotValue
<1>10. next \in Nat /\ k < next /\ next <= head
  BY <1>2, <1>5
<1> QED
  BY <1>2, <1>6, <1>7, <1>8, <1>9, <1>10 DEF next
=============================================================================
