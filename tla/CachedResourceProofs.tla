------------------------ MODULE CachedResourceProofs ------------------------
(* Proofs of the safety properties of CachedResource, for any number of    *)
(* clients, any size of the ring and any number of blocks and restarts.    *)
EXTENDS CachedResource, BlockRingProofs, SequenceTheorems

N == CacheBufferSize

(* A fetch that is not over. *)
Active(c) == chain[c] \notin {"none", "ended", "dropped"}

(* The Mux: what there is when there is none, and before it has a type. *)
MuxInv ==
  /\ ~resource => requests = <<>> /\ type = "UNDEFINED"
  /\ type = "UNDEFINED" =>
       ~is_completed /\ \A c \in Registered : req[c] = StreamRequest
  /\ SomebodyAnswers
  /\ RegisteredAreLive

(* A client's Request: an operation in flight for every time that          *)
(* is_processing is set, none for a client that waits.                     *)
RequestInv(c) ==
  LET r == req[c]
  IN  /\ r.state = "none" => r = NoRequest /\ chain[c] = "none"
      /\ r.state = "freed" =>
           r.flight <= 1 /\ (r.flight > 0 \/ r.auxiliar = "open" => failed)
      /\ r.state = "live" /\ r.event_type = "SERVER_CLOSE" =>
           r.flight = 1 /\ r.auxiliar # "open"
      /\ c \in Registered =>
           /\ r.flight = IF r.is_processing THEN 1 ELSE 0
           /\ r.event_type = "WRITE_HEADER" => r.auxiliar = "none"
           /\ r.event_type \in {"READ_CONTENT", "COPY_CONTENT"} =>
                r.auxiliar = "open" \/ failed
           /\ r.is_processing \/ r.auxiliar = "open"
                \/ type = "UNDEFINED" \/ failed
           /\ is_completed /\ r.auxiliar = "open" => r.is_processing

(* The fetches: one at a time, and what each of its steps may rely on. *)
ChainInv ==
  /\ \A c, d \in Clients : Active(c) /\ Active(d) => c = d
  /\ \A c \in Clients :
       /\ Active(c) => resource
       /\ Active(c) /\ chain[c] # "content" => type = "UNDEFINED"
       /\ chain[c] \in {"fetch", "header"} => ~file_exists
       /\ chain[c] \in {"read_header", "read_early"} => file_exists
       /\ chain[c] = "content" =>
            /\ node.exists <=> type = "CACHE"
            /\ ~node.exists => failed

(* The Mux, the Node and the file belong together until a fetch fails. *)
BindingInv ==
  /\ node.exists => file_exists
  /\ node.exists /\ ~failed =>
       resource /\ type = "CACHE" /\ header = "whole"
  /\ EndIsStored =>
       /\ resource /\ type = "CACHE"
       /\ \A c \in Clients : chain[c] # "content"
  /\ file_exists /\ restarts = 0 /\ ~failed => resource /\ type = "CACHE"
  /\ is_completed /\ ~failed => ~node.exists

(* The writer wants the block after the one it wrote last. *)
NodeInv(n) ==
  /\ RingState(N, n.buffer, n.pivot, n.head)
  /\ n.cache.block + 1 \in 0 .. n.head
  /\ n.cache.pivot = SlotOf(N, n.cache.block + 1)
  /\ n.cache.flight = IF n.cache.is_processing THEN 1 ELSE 0
  /\ ~n.cache.written => n.cache.is_processing
  /\ n.cache.is_processing => n.exists /\ n.size > 0
  /\ n.exists /\ ~n.cache.is_processing => n.cache.pivot = n.pivot
  /\ n.size = 0 => n.head = 0 /\ n.cache.block = Hole
  /\ n.head = 0 => n.size = 0

(* The file in order, and the last block in it. *)
WriteInv ==
  node.exists =>
    IF node.cache.written
      THEN IF node.size = 0 THEN file = <<>>
           ELSE Len(file) = node.size + 1 /\ file[Len(file)] = node.cache.block
      ELSE /\ node.cache.offset = node.size
           /\ IF node.size = 1 THEN file = <<>> /\ node.cache.block = 0
              ELSE /\ Len(file) = node.size
                   /\ file[Len(file)] < node.cache.block
                   /\ (node.cache.block - file[Len(file)]) % N = 1

FileInv == FileInOrder /\ WriteInv

IInv ==
  /\ TypeOK
  /\ MuxInv
  /\ \A c \in Clients : RequestInv(c)
  /\ ChainInv
  /\ BindingInv
  /\ NodeInv(node)
  /\ FileInv
  /\ CompletedIsWhole
  /\ FaultNeedsFailure

-----------------------------------------------------------------------------
(* Requests of clients. *)

EventTypes ==
  {"none", "WRITE_HEADER", "READ_CONTENT", "COPY_CONTENT", "SERVER_CLOSE"}

LEMMA ReaderUpdate ==
  ASSUME NEW r \in Readers
  PROVE  /\ \A x \in {"none", "live", "freed"} : [r EXCEPT !.state = x] \in Readers
         /\ \A x \in EventTypes : [r EXCEPT !.event_type = x] \in Readers
         /\ \A x \in BOOLEAN : [r EXCEPT !.is_processing = x] \in Readers
         /\ \A x \in Nat : [r EXCEPT !.flight = x] \in Readers
         /\ \A x \in Nat : [r EXCEPT !.pivot = x] \in Readers
         /\ \A x \in Nat : [r EXCEPT !.offset = x] \in Readers
         /\ \A x \in {"none", "open", "closed"} : [r EXCEPT !.auxiliar = x] \in Readers
         /\ \A x \in {Pending, 0, 1} : [r EXCEPT !.readed = x] \in Readers
BY DEF Readers, EventTypes

LEMMA SubmittedFields ==
  ASSUME NEW r \in Readers, NEW e \in EventTypes
  PROVE  /\ Submitted(r, e) \in Readers
         /\ Submitted(r, e).state = r.state
         /\ Submitted(r, e).event_type = e
         /\ Submitted(r, e).is_processing
         /\ Submitted(r, e).flight = r.flight + 1
         /\ Submitted(r, e).auxiliar = r.auxiliar
         /\ Submitted(r, e).pivot = r.pivot
<1> DEFINE r1 == [r EXCEPT !.event_type = e]
           r2 == [r1 EXCEPT !.is_processing = TRUE]
<1>1. r.flight + 1 \in Nat
  BY DEF Readers
<1>2. /\ r1 \in Readers
      /\ Submitted(r, e) = [r2 EXCEPT !.flight = r.flight + 1]
  BY ReaderUpdate DEF Submitted
<1>3. /\ Submitted(r, e).state = r.state
      /\ Submitted(r, e).event_type = e
      /\ Submitted(r, e).is_processing
      /\ Submitted(r, e).flight = r.flight + 1
      /\ Submitted(r, e).auxiliar = r.auxiliar
      /\ Submitted(r, e).pivot = r.pivot
  BY DEF Submitted, Readers
<1> HIDE DEF r1
<1>4. r2 \in Readers
  BY <1>2, ReaderUpdate
<1> HIDE DEF r2
<1> QED
  BY <1>1, <1>2, <1>3, <1>4, ReaderUpdate

LEMMA ReadFields ==
  ASSUME NEW r \in Readers, NEW o \in Nat
  PROVE  /\ ReadRequest(r, o) \in Readers
         /\ ReadRequest(r, o).state = r.state
         /\ ReadRequest(r, o).event_type = "READ_CONTENT"
         /\ ReadRequest(r, o).is_processing
         /\ ReadRequest(r, o).flight = r.flight + 1
         /\ ReadRequest(r, o).auxiliar = r.auxiliar
<1> DEFINE r1 == Submitted(r, "READ_CONTENT")
           r2 == [r1 EXCEPT !.offset = o]
<1>1. /\ r1 \in Readers /\ r1.state = r.state
      /\ r1.event_type = "READ_CONTENT" /\ r1.is_processing
      /\ r1.flight = r.flight + 1 /\ r1.auxiliar = r.auxiliar
  BY SubmittedFields DEF EventTypes
<1>2. ReadRequest(r, o) = [r2 EXCEPT !.readed = Pending]
  BY DEF ReadRequest
<1> HIDE DEF r1
<1>3. /\ r2 \in Readers /\ r2.state = r1.state
      /\ r2.event_type = r1.event_type
      /\ r2.is_processing = r1.is_processing
      /\ r2.flight = r1.flight /\ r2.auxiliar = r1.auxiliar
  <2>1. r1 \in Readers
    BY <1>1
  <2>2. r2 \in Readers
    BY <2>1, ReaderUpdate
  <2> QED
    BY <2>1, <2>2 DEF Readers
<1> HIDE DEF r2
<1>4. [r2 EXCEPT !.readed = Pending] \in Readers
  BY <1>3, ReaderUpdate
<1>5. /\ [r2 EXCEPT !.readed = Pending].state = r2.state
      /\ [r2 EXCEPT !.readed = Pending].event_type = r2.event_type
      /\ [r2 EXCEPT !.readed = Pending].is_processing = r2.is_processing
      /\ [r2 EXCEPT !.readed = Pending].flight = r2.flight
      /\ [r2 EXCEPT !.readed = Pending].auxiliar = r2.auxiliar
  <2>1. r2 \in Readers
    BY <1>3
  <2> QED
    BY <2>1 DEF Readers
<1> QED
  BY <1>1, <1>2, <1>3, <1>4, <1>5

LEMMA EndFields ==
  ASSUME NEW r \in Readers
  PROVE  /\ CloseRequest(r) \in Readers
         /\ CloseRequest(r).state = r.state
         /\ CloseRequest(r).event_type = "SERVER_CLOSE"
         /\ CloseRequest(r).is_processing = r.is_processing
         /\ CloseRequest(r).flight = r.flight + 1
         /\ CloseRequest(r).auxiliar = r.auxiliar
         /\ Released(r) \in Readers
         /\ Released(r).state = "freed"
         /\ Released(r).flight = r.flight
         /\ Released(r).auxiliar = r.auxiliar
<1>1. r.flight + 1 \in Nat
  BY DEF Readers
<1> DEFINE r1 == [r EXCEPT !.event_type = "SERVER_CLOSE"]
<1>2. /\ r1 \in Readers
      /\ CloseRequest(r) = [r1 EXCEPT !.flight = r.flight + 1]
  BY ReaderUpdate DEF CloseRequest, EventTypes
<1> HIDE DEF r1
<1>3. CloseRequest(r) \in Readers
  BY <1>1, <1>2, ReaderUpdate
<1>4. Released(r) \in Readers
  BY ReaderUpdate DEF Released
<1> QED
  BY <1>3, <1>4 DEF CloseRequest, Released, Readers

LEMMA CompletedFields ==
  ASSUME NEW r \in Readers, r.flight > 0
  PROVE  /\ Completed(r) \in Readers
         /\ Completed(r).state = r.state
         /\ Completed(r).event_type = r.event_type
         /\ ~Completed(r).is_processing
         /\ Completed(r).flight = r.flight - 1
         /\ Completed(r).auxiliar = r.auxiliar
         /\ Completed(r).pivot = r.pivot
<1>1. r.flight - 1 \in Nat
  BY DEF Readers
<1> DEFINE r1 == [r EXCEPT !.flight = r.flight - 1]
<1>2. /\ r1 \in Readers
      /\ Completed(r) = [r1 EXCEPT !.is_processing = FALSE]
  BY <1>1, ReaderUpdate DEF Completed
<1>3. /\ Completed(r).state = r.state
      /\ Completed(r).event_type = r.event_type
      /\ ~Completed(r).is_processing
      /\ Completed(r).flight = r.flight - 1
      /\ Completed(r).auxiliar = r.auxiliar
      /\ Completed(r).pivot = r.pivot
  BY DEF Completed, Readers
<1> HIDE DEF r1
<1> QED
  BY <1>2, <1>3, ReaderUpdate

LEMMA NewFields ==
  /\ NoRequest \in Readers /\ NoRequest.state = "none"
  /\ NoRequest.event_type = "none" /\ NoRequest.is_processing = FALSE
  /\ NoRequest.flight = 0 /\ NoRequest.auxiliar = "none"
  /\ StreamRequest \in Readers /\ StreamRequest.state = "live"
  /\ StreamRequest.event_type = "none"
  /\ StreamRequest.is_processing = FALSE
  /\ StreamRequest.flight = 0 /\ StreamRequest.auxiliar = "none"
<1>1. NoRequest \in Readers
  BY DEF NoRequest, Readers, Pending
<1>2. StreamRequest \in Readers
  BY <1>1, ReaderUpdate DEF StreamRequest
<1> QED
  BY <1>1, <1>2 DEF NoRequest, StreamRequest

-----------------------------------------------------------------------------
(* The registered requests when one joins and when one leaves. *)
LEMMA JoinRegistered ==
  ASSUME requests \in Seq(Clients), NEW c \in Clients,
         requests' = Append(requests, c)
  PROVE  /\ requests' \in Seq(Clients)
         /\ Registered' = Registered \cup {c}
         /\ \A i \in DOMAIN requests : i \in DOMAIN requests' /\ requests'[i] = requests[i]
         /\ \A i \in DOMAIN requests' : i \in DOMAIN requests \/ requests'[i] = c
<1>1. /\ requests' \in Seq(Clients) /\ Len(requests') = Len(requests) + 1
      /\ \A i \in 1 .. Len(requests) : requests'[i] = requests[i]
      /\ requests'[Len(requests) + 1] = c
  BY AppendProperties
<1>2. DOMAIN requests = 1 .. Len(requests) /\ DOMAIN requests' = 1 .. Len(requests')
      /\ Len(requests) \in Nat
  BY <1>1, LenProperties
<1> QED
  BY <1>1, <1>2 DEF Registered

LEMMA WithoutElements ==
  ASSUME requests \in Seq(Clients), NEW c \in Clients, c \in Registered
  PROVE  LET k == Position(c)
             n == Len(requests)
         IN  /\ DOMAIN requests = 1 .. n /\ n \in Nat
             /\ k \in 1 .. n /\ requests[k] = c
             /\ Without(c) \in Seq(Clients)
             /\ Len(Without(c)) = n - 1
             /\ \A i \in 1 .. n - 1 :
                  Without(c)[i] = IF i < k THEN requests[i] ELSE requests[i + 1]
<1> DEFINE k == Position(c)
           n == Len(requests)
<1>1. DOMAIN requests = 1 .. n /\ n \in Nat
  BY LenProperties
<1>2. k \in 1 .. n /\ requests[k] = c
  BY <1>1 DEF Position, Registered
<1> HIDE DEF k
<1>3. /\ Without(c) \in Seq(Clients)
      /\ Len(Without(c)) = n - 1
      /\ \A i \in 1 .. n - 1 : Without(c)[i] = IF i < k THEN requests[i] ELSE requests[i + 1]
  <2>1. Without(c) = SubSeq(requests, 1, k - 1) \o SubSeq(requests, k + 1, n)
    BY DEF Without, k
  <2>2. /\ SubSeq(requests, 1, k - 1) \in Seq(Clients)
        /\ Len(SubSeq(requests, 1, k - 1)) = k - 1
        /\ \A i \in 1 .. k - 1 : SubSeq(requests, 1, k - 1)[i] = requests[i]
    BY <1>1, <1>2
  <2>3. /\ SubSeq(requests, k + 1, n) \in Seq(Clients)
        /\ Len(SubSeq(requests, k + 1, n)) = n - k
        /\ \A i \in 1 .. n - k : SubSeq(requests, k + 1, n)[i] = requests[k + i]
    <3>1. k + 1 \in Int /\ n \in Int /\ \A i \in k + 1 .. n : requests[i] \in Clients
      BY <1>1, <1>2
    <3> HIDE DEF n
    <3>2. /\ SubSeq(requests, k + 1, n) \in Seq(Clients)
          /\ Len(SubSeq(requests, k + 1, n)) = IF k + 1 <= n THEN n - (k + 1) + 1 ELSE 0
          /\ \A i \in 1 .. n - (k + 1) + 1 :
               SubSeq(requests, k + 1, n)[i] = requests[k + 1 + i - 1]
      BY <3>1, SubSeqProperties
    <3> QED
      BY <1>1, <1>2, <3>2
  <2> HIDE DEF n
  <2> DEFINE s == SubSeq(requests, 1, k - 1)
             t == SubSeq(requests, k + 1, n)
  <2>4. /\ Without(c) = s \o t /\ s \in Seq(Clients) /\ t \in Seq(Clients)
        /\ Len(s) = k - 1 /\ Len(t) = n - k
        /\ \A i \in 1 .. k - 1 : s[i] = requests[i]
        /\ \A i \in 1 .. n - k : t[i] = requests[k + i]
    BY <2>1, <2>2, <2>3
  <2> HIDE DEF s, t
  <2>5. /\ s \o t \in Seq(Clients)
        /\ Len(s \o t) = Len(s) + Len(t)
        /\ \A i \in 1 .. Len(s) + Len(t) :
             (s \o t)[i] = IF i <= Len(s) THEN s[i] ELSE t[i - Len(s)]
    BY <2>4, ConcatProperties
  <2>6. ASSUME NEW i \in 1 .. n - 1
        PROVE  (s \o t)[i] = IF i < k THEN requests[i] ELSE requests[i + 1]
    <3>1. i \in 1 .. Len(s) + Len(t)
      BY <1>1, <1>2, <2>4
    <3>2. CASE i < k
      BY <1>1, <1>2, <2>4, <2>5, <3>1, <3>2
    <3>3. CASE ~(i < k)
      <4>1. i - (k - 1) \in 1 .. n - k /\ k + (i - (k - 1)) = i + 1
        BY <1>1, <1>2, <3>3
      <4> QED
        BY <1>1, <1>2, <2>4, <2>5, <3>1, <3>3, <4>1
    <3> QED
      BY <3>2, <3>3
  <2>7. Len(s \o t) = n - 1
    BY <1>1, <1>2, <2>4, <2>5
  <2> QED
    BY <2>4, <2>5, <2>6, <2>7
<1> QED
  BY <1>1, <1>2, <1>3 DEF k

LEMMA LeaveRegistered ==
  ASSUME requests \in Seq(Clients), NEW c \in Clients, c \in Registered,
         \A i, j \in DOMAIN requests : requests[i] = requests[j] => i = j,
         requests' = Without(c)
  PROVE  /\ requests' \in Seq(Clients)
         /\ Registered' = Registered \ {c}
         /\ \A i, j \in DOMAIN requests' : requests'[i] = requests'[j] => i = j
<1> DEFINE k == Position(c)
           n == Len(requests)
<1>1. DOMAIN requests = 1 .. n /\ n \in Nat
  BY LenProperties
<1>2. k \in 1 .. n /\ requests[k] = c
  BY WithoutElements
<1>4. /\ requests' \in Seq(Clients)
      /\ Len(requests') = n - 1
      /\ \A i \in 1 .. n - 1 : requests'[i] = IF i < k THEN requests[i] ELSE requests[i + 1]
  BY WithoutElements
<1> HIDE DEF k
<1>3. \A i, j \in 1 .. n : requests[i] = requests[j] => i = j
  BY <1>1
<1>5. DOMAIN requests' = 1 .. n - 1
  BY <1>4, LenProperties
<1> HIDE DEF n
<1>6. Registered' \subseteq Registered \ {c}
  <2>1. SUFFICES ASSUME NEW i \in 1 .. n - 1
                 PROVE  requests'[i] \in Registered \ {c}
    BY <1>5 DEF Registered
  <2>2. PICK j \in 1 .. n : j # k /\ requests'[i] = requests[j]
    <3>1. CASE i < k
      BY <1>1, <1>2, <1>4, <3>1
    <3>2. CASE i >= k
      <4>1. i + 1 \in 1 .. n /\ i + 1 # k /\ requests'[i] = requests[i + 1]
        BY <1>1, <1>2, <1>4, <3>2
      <4> QED
        BY <4>1
    <3> QED
      BY <1>1, <1>2, <3>1, <3>2
  <2>3. requests[j] # c
    BY <1>2, <1>3, <2>2
  <2> QED
    BY <1>1, <2>2, <2>3 DEF Registered
<1>7. ASSUME NEW d \in Registered \ {c} PROVE d \in Registered'
  <2>1. PICK i \in 1 .. n : requests[i] = d
    BY <1>1 DEF Registered
  <2>2. i # k
    BY <1>2, <1>7, <2>1
  <2>3. CASE i < k
    <3>1. i \in 1 .. n - 1 /\ requests'[i] = d
      BY <1>1, <1>2, <1>4, <2>1, <2>3
    <3> QED
      BY <1>5, <3>1 DEF Registered
  <2>4. CASE i > k
    <3>1. i - 1 \in 1 .. n - 1 /\ requests'[i - 1] = d
      BY <1>1, <1>2, <1>4, <2>1, <2>4
    <3> QED
      BY <1>5, <3>1 DEF Registered
  <2> QED
    BY <1>1, <1>2, <2>2, <2>3, <2>4
<1>8. ASSUME NEW i \in 1 .. n - 1, NEW j \in 1 .. n - 1, requests'[i] = requests'[j]
      PROVE  i = j
  <2> DEFINE from(x) == IF x < k THEN x ELSE x + 1
  <2>1. from(i) \in 1 .. n /\ from(j) \in 1 .. n
    BY <1>1, <1>2
  <2>2. requests'[i] = requests[from(i)] /\ requests'[j] = requests[from(j)]
    BY <1>4
  <2>3. from(i) = from(j)
    BY <1>3, <1>8, <2>1, <2>2
  <2> QED
    BY <1>1, <1>2, <2>3
<1> QED
  BY <1>4, <1>5, <1>6, <1>7, <1>8

-----------------------------------------------------------------------------
(* The Node. *)

LEMMA CellFields ==
  ASSUME NEW n \in Nodes
  PROVE  /\ n.buffer \in [Slots(N) -> Int] /\ n.pivot \in Slots(N)
         /\ n.size \in Nat /\ n.head \in Nat /\ n.exists \in BOOLEAN
         /\ n.cache \in Writers
         /\ n.cache.is_processing \in BOOLEAN /\ n.cache.flight \in Nat
         /\ n.cache.pivot \in Slots(N) /\ n.cache.block \in Int
         /\ n.cache.offset \in Nat /\ n.cache.written \in BOOLEAN
         /\ N \in Nat /\ N >= 2
BY BufferAssumption DEF Nodes, Writers, N

LEMMA NewNodeFields ==
  /\ NewNode \in Nodes /\ NoNode \in Nodes /\ NewNode.exists /\ ~NoNode.exists
  /\ NewNode.size = 0 /\ NewNode.cache.written /\ NewNode.head = 0
  /\ NewNode.buffer[NewNode.pivot] = NoData
  /\ NodeInv(NewNode) /\ NodeInv(NoNode)
<1>1. N \in Nat /\ N >= 2 /\ 0 \in Slots(N)
  BY BufferAssumption DEF N, Slots
<1>2. FreshRing(N) \in [Slots(N) -> Int] /\ FreshRing(N)[0] = NoData
  BY <1>1 DEF FreshRing, NoData
<1>3. CacheRequest \in Writers /\ CacheRequest.block = -1
      /\ CacheRequest.pivot = 0 /\ CacheRequest.flight = 0
      /\ CacheRequest.is_processing = FALSE /\ CacheRequest.written = TRUE
  BY <1>1 DEF CacheRequest, Writers, N, Hole
<1>4. /\ NewNode \in Nodes /\ NewNode.exists /\ NewNode.size = 0
      /\ NewNode.head = 0 /\ NewNode.pivot = 0 /\ NewNode.cache = CacheRequest
      /\ NewNode.buffer = FreshRing(N)
  BY <1>1, <1>2, <1>3 DEF NewNode, Nodes, N
<1>5. /\ NoNode \in Nodes /\ ~NoNode.exists /\ NoNode.size = 0
      /\ NoNode.head = 0 /\ NoNode.pivot = 0 /\ NoNode.cache = CacheRequest
      /\ NoNode.buffer = FreshRing(N)
  BY <1>4 DEF NoNode, Nodes
<1>6. RingState(N, FreshRing(N), 0, 0)
  BY <1>1, FreshRingState
<1>7. SlotOf(N, 0) = 0
  BY <1>1, ModOfSlot DEF SlotOf
<1>8. -1 + 1 = 0 /\ 0 \in 0 .. 0
  OBVIOUS
<1> QED
  BY <1>2, <1>3, <1>4, <1>5, <1>6, <1>7, <1>8 DEF NodeInv, Hole

LEMMA StoredFields ==
  ASSUME NEW n \in Nodes
  PROVE  /\ Stored(n) \in Nodes
         /\ Stored(n).buffer = Fill(N, n.buffer, n.pivot, n.head)
         /\ Stored(n).pivot = NextSlot(N, n.pivot)
         /\ Stored(n).head = n.head + 1
         /\ Stored(n).exists = n.exists /\ Stored(n).size = n.size
         /\ Stored(n).cache = n.cache
<1> DEFINE b == Fill(N, n.buffer, n.pivot, n.head)
           p == NextSlot(N, n.pivot)
<1>1. b \in [Slots(N) -> Int]
  BY CellFields DEF Fill, EmptyBuffer, NoData
<1>2. p \in Slots(N) /\ n.head + 1 \in Nat
  BY CellFields, NextSlotValue
<1>3. Stored(n) = [n EXCEPT !.buffer = b, !.pivot = p, !.head = n.head + 1]
  BY DEF Stored, N
<1> HIDE DEF b, p
<1>4. /\ Stored(n) \in Nodes /\ Stored(n).buffer = b
      /\ Stored(n).pivot = p /\ Stored(n).head = n.head + 1
      /\ Stored(n).exists = n.exists /\ Stored(n).size = n.size
      /\ Stored(n).cache = n.cache
  BY <1>1, <1>2, <1>3 DEF Nodes, N
<1> QED
  BY <1>4 DEF b, p

LEMMA WriteFields ==
  ASSUME NEW n \in Nodes
  PROVE  /\ WriteBlock(n) \in Nodes
         /\ WriteBlock(n).buffer = n.buffer /\ WriteBlock(n).pivot = n.pivot
         /\ WriteBlock(n).head = n.head /\ WriteBlock(n).exists = n.exists
         /\ WriteBlock(n).size = n.size + 1
         /\ WriteBlock(n).cache.is_processing = TRUE
         /\ WriteBlock(n).cache.flight = n.cache.flight + 1
         /\ WriteBlock(n).cache.pivot = NextSlot(N, n.cache.pivot)
         /\ WriteBlock(n).cache.block = n.buffer[n.cache.pivot]
         /\ WriteBlock(n).cache.offset = n.size + 1
         /\ WriteBlock(n).cache.written = FALSE
<1> DEFINE r == [is_processing |-> TRUE, flight |-> n.cache.flight + 1,
                 pivot |-> NextSlot(N, n.cache.pivot),
                 block |-> n.buffer[n.cache.pivot], offset |-> n.size + 1,
                 written |-> FALSE]
<1>1. /\ n.cache.flight + 1 \in Nat /\ n.size + 1 \in Nat
      /\ NextSlot(N, n.cache.pivot) \in Slots(N)
      /\ n.buffer[n.cache.pivot] \in Int
  BY CellFields, NextSlotValue
<1>2. r \in Writers
  BY <1>1 DEF Writers, N
<1>3. WriteBlock(n) = [n EXCEPT !.size = n.size + 1, !.cache = r]
  BY DEF WriteBlock, WriteOffset, N
<1>4. /\ r.is_processing = TRUE /\ r.flight = n.cache.flight + 1
      /\ r.pivot = NextSlot(N, n.cache.pivot)
      /\ r.block = n.buffer[n.cache.pivot] /\ r.offset = n.size + 1
      /\ r.written = FALSE
  OBVIOUS
<1> HIDE DEF r
<1>5. /\ WriteBlock(n) \in Nodes
      /\ WriteBlock(n).buffer = n.buffer /\ WriteBlock(n).pivot = n.pivot
      /\ WriteBlock(n).head = n.head /\ WriteBlock(n).exists = n.exists
      /\ WriteBlock(n).size = n.size + 1 /\ WriteBlock(n).cache = r
  BY <1>1, <1>2, <1>3 DEF Nodes
<1> QED
  BY <1>4, <1>5

(* The writer takes the block in front of it: a later one than the last,   *)
(* by one or by one more than whole laps.                                  *)
LEMMA WriteSound ==
  ASSUME NEW n \in Nodes, RingState(N, n.buffer, n.pivot, n.head),
         n.cache.block + 1 \in 0 .. n.head,
         n.cache.pivot = SlotOf(N, n.cache.block + 1),
         n.cache.flight = 0, n.exists, Holds(n.buffer, n.cache.pivot)
  PROVE  /\ NodeInv(WriteBlock(n))
         /\ WriteBlock(n).cache.block > n.cache.block
         /\ (WriteBlock(n).cache.block - n.cache.block) % N = 1
<1> DEFINE k == n.cache.block + 1
           i == n.cache.pivot
           b == n.buffer[i]
<1>1. /\ N \in Nat /\ N >= 2 /\ n.head \in Nat /\ n.cache.block \in Int
      /\ b \in Int /\ i \in Slots(N) /\ n.size \in Nat
  BY CellFields
<1>2. k \in Nat /\ k <= n.head /\ i = SlotOf(N, k) /\ k = n.cache.block + 1
  BY <1>1
<1>3. /\ WriteBlock(n).cache.block = b
      /\ WriteBlock(n).cache.pivot = NextSlot(N, i)
  BY WriteFields
<1>4. Holds(n.buffer, i) /\ b = n.buffer[i]
  OBVIOUS
<1> HIDE DEF k, i, b
<1>5. /\ b + 1 \in Nat /\ k < b + 1 /\ b + 1 <= n.head
      /\ (b + 1 - k) % N = 1
      /\ (b + 1) % N = NextSlot(N, i)
  BY <1>1, <1>2, <1>4, SentBlock
<1>6. /\ b > n.cache.block /\ b + 1 - k = b - n.cache.block
      /\ b + 1 \in 0 .. n.head /\ n.head # 0
  BY <1>1, <1>2, <1>5
<1>7. /\ WriteBlock(n).size = n.size + 1
      /\ WriteBlock(n).cache.flight = n.cache.flight + 1
  BY WriteFields
<1>8. WriteBlock(n).size # 0 /\ WriteBlock(n).size > 0
      /\ WriteBlock(n).cache.flight = 1
  BY <1>1, <1>7
<1>9. WriteBlock(n).cache.pivot = SlotOf(N, WriteBlock(n).cache.block + 1)
  BY <1>3, <1>5 DEF SlotOf
<1>10. NodeInv(WriteBlock(n))
  BY <1>3, <1>6, <1>8, <1>9, WriteFields DEF NodeInv
<1> QED
  BY <1>3, <1>5, <1>6, <1>10

(* The ring and the writer after AppendBuffer. *)
LEMMA AppendedSound ==
  ASSUME NEW n \in Nodes, NodeInv(n), n.exists
  PROVE  LET m == Appended(n)
         IN  /\ m \in Nodes /\ NodeInv(m) /\ m.exists
             /\ m.buffer[m.pivot] # EndBuffer
             /\ m.head = n.head + 1
             /\ IF n.cache.is_processing
                  THEN m.cache = n.cache /\ m.size = n.size
                  ELSE /\ m.size = n.size + 1 /\ m.cache.offset = m.size
                       /\ ~m.cache.written
                       /\ m.cache.block > n.cache.block
                       /\ (m.cache.block - n.cache.block) % N = 1
                       /\ n.size = 0 => m.cache.block = 0
<1> DEFINE s == Stored(n)
<1>1. /\ N \in Nat /\ N >= 2 /\ n.head \in Nat /\ n.cache.block \in Int
      /\ n.pivot \in Slots(N) /\ n.size \in Nat
      /\ n.buffer \in [Slots(N) -> Int]
      /\ n.cache.is_processing \in BOOLEAN
  BY CellFields
<1>2. /\ s \in Nodes /\ s.buffer = Fill(N, n.buffer, n.pivot, n.head)
      /\ s.pivot = NextSlot(N, n.pivot) /\ s.head = n.head + 1
      /\ s.exists /\ s.size = n.size /\ s.cache = n.cache
  BY StoredFields
<1>3. RingState(N, s.buffer, s.pivot, s.head)
  BY <1>1, <1>2, FillRingState DEF NodeInv
<1>4. s.buffer[s.pivot] # EndBuffer /\ s.buffer[n.pivot] = n.head
  <2>1. s.pivot \in Slots(N) /\ s.pivot # n.pivot
    <3>1. s.pivot = IF n.pivot = N - 1 THEN 0 ELSE n.pivot + 1
      BY <1>1, <1>2, NextSlotValue
    <3> QED
      BY <1>1, <3>1 DEF Slots
  <2> QED
    BY <1>1, <1>2, <2>1 DEF Fill, EmptyBuffer, EndBuffer, NoData
<1>5. /\ n.cache.block + 1 \in 0 .. n.head
      /\ n.cache.pivot = SlotOf(N, n.cache.block + 1)
      /\ n.cache.flight = IF n.cache.is_processing THEN 1 ELSE 0
      /\ ~n.cache.written => n.cache.is_processing
      /\ n.cache.is_processing => n.size > 0
      /\ ~n.cache.is_processing => n.cache.pivot = n.pivot
      /\ n.size = 0 => n.head = 0 /\ n.cache.block = Hole
  BY DEF NodeInv
<1>6. n.cache.block + 1 \in 0 .. n.head + 1
  BY <1>1, <1>5
<1> HIDE DEF s
<1>7. CASE n.cache.is_processing
  <2>1. Appended(n) = s
    BY <1>7 DEF Appended, s
  <2>2. NodeInv(s)
    <3>1. s.size # 0 /\ s.head # 0
      BY <1>1, <1>2, <1>5, <1>7
    <3> QED
      BY <1>2, <1>3, <1>5, <1>6, <1>7, <3>1 DEF NodeInv
  <2> QED
    BY <1>2, <1>4, <1>7, <2>1, <2>2
<1>8. CASE ~n.cache.is_processing
  <2>1. Holds(s.buffer, s.cache.pivot)
    BY <1>1, <1>2, <1>4, <1>5, <1>8 DEF Holds
  <2>2. Appended(n) = WriteBlock(s)
    BY <1>2, <1>8, <2>1 DEF Appended, s
  <2>3. /\ NodeInv(WriteBlock(s))
        /\ WriteBlock(s).cache.block > s.cache.block
        /\ (WriteBlock(s).cache.block - s.cache.block) % N = 1
    BY <1>2, <1>3, <1>5, <1>6, <1>8, <2>1, WriteSound
  <2>4. WriteBlock(s).cache.block = n.head
    <3>1. s.cache.pivot = n.pivot
      BY <1>2, <1>5, <1>8
    <3> QED
      BY <1>2, <1>4, <3>1, WriteFields
  <2>5. /\ WriteBlock(s) \in Nodes /\ WriteBlock(s).exists
        /\ WriteBlock(s).buffer = s.buffer /\ WriteBlock(s).pivot = s.pivot
        /\ WriteBlock(s).head = n.head + 1
        /\ WriteBlock(s).size = n.size + 1
        /\ WriteBlock(s).cache.offset = n.size + 1
        /\ WriteBlock(s).cache.written = FALSE
    BY <1>2, WriteFields
  <2> QED
    BY <1>2, <1>4, <1>5, <1>8, <2>2, <2>3, <2>4, <2>5
<1> QED
  BY <1>1, <1>7, <1>8

(* The ring with END_BUFFER where the next block would be. *)
LEMMA ClosedSound ==
  ASSUME NEW n \in Nodes, NodeInv(n)
  PROVE  /\ Closed(n) \in Nodes /\ NodeInv(Closed(n))
         /\ Closed(n).exists = n.exists /\ Closed(n).size = n.size
         /\ Closed(n).cache = n.cache /\ Closed(n).head = n.head
<1> DEFINE b == [n.buffer EXCEPT ![n.pivot] = EndBuffer]
<1>1. /\ n.buffer \in [Slots(N) -> Int] /\ n.pivot \in Slots(N)
  BY CellFields
<1>2. /\ b \in [Slots(N) -> Int] /\ b[n.pivot] = EndBuffer
      /\ \A i \in Slots(N) : i # n.pivot => b[i] = n.buffer[i]
  BY <1>1 DEF EndBuffer
<1>3. Closed(n) = [n EXCEPT !.buffer = b]
  BY DEF Closed
<1> HIDE DEF b
<1>4. /\ Closed(n) \in Nodes /\ Closed(n).buffer = b
      /\ Closed(n).pivot = n.pivot
      /\ Closed(n).exists = n.exists /\ Closed(n).size = n.size
      /\ Closed(n).cache = n.cache /\ Closed(n).head = n.head
  BY <1>2, <1>3 DEF Nodes, N
<1>5. RingState(N, b, n.pivot, n.head)
  <2>1. RingState(N, n.buffer, n.pivot, n.head)
    BY DEF NodeInv
  <2> QED
    BY <1>2, <2>1 DEF RingState, Holds, EndBuffer
<1> QED
  BY <1>4, <1>5 DEF NodeInv

(* The writer when its write has come to its end. *)
LEMMA IdleFields ==
  ASSUME node \in Nodes, NodeInv(node), node.cache.flight > 0
  PROVE  /\ WriterIdle \in Nodes
         /\ WriterIdle.buffer = node.buffer /\ WriterIdle.pivot = node.pivot
         /\ WriterIdle.head = node.head /\ WriterIdle.exists = node.exists
         /\ WriterIdle.size = node.size
         /\ WriterIdle.cache.is_processing = FALSE
         /\ WriterIdle.cache.flight = 0
         /\ WriterIdle.cache.pivot = node.cache.pivot
         /\ WriterIdle.cache.block = node.cache.block
         /\ WriterIdle.cache.offset = node.cache.offset
         /\ WriterIdle.cache.written = node.cache.written
         /\ node.cache.is_processing /\ node.exists
<1>1. /\ node.cache.flight - 1 = 0 /\ node.cache.is_processing /\ node.exists
  BY CellFields DEF NodeInv
<1>2. WriterIdle = [node EXCEPT !.cache = [@ EXCEPT !.is_processing = FALSE,
                                                    !.flight = 0]]
  BY <1>1, CellFields DEF WriterIdle, Nodes, Writers
<1> DEFINE r == [node.cache EXCEPT !.is_processing = FALSE, !.flight = 0]
<1>3. /\ r \in Writers /\ r.is_processing = FALSE /\ r.flight = 0
      /\ r.pivot = node.cache.pivot /\ r.block = node.cache.block
      /\ r.offset = node.cache.offset /\ r.written = node.cache.written
  BY CellFields DEF Writers
<1>4. WriterIdle = [node EXCEPT !.cache = r]
  BY <1>2
<1> HIDE DEF r
<1>5. /\ WriterIdle \in Nodes /\ WriterIdle.cache = r
      /\ WriterIdle.buffer = node.buffer /\ WriterIdle.pivot = node.pivot
      /\ WriterIdle.head = node.head /\ WriterIdle.exists = node.exists
      /\ WriterIdle.size = node.size
  BY <1>3, <1>4 DEF Nodes
<1> QED
  BY <1>1, <1>3, <1>5

-----------------------------------------------------------------------------
(* What the steps leave alone. *)

LEMMA ClientFrame ==
  ASSUME NEW c \in Clients, ClientStep(c), TypeOK
  PROVE  /\ UNCHANGED <<type, is_completed, header, node, fileVars, restarts>>
         /\ failed => failed'
         /\ failed' \in BOOLEAN
BY DEF ClientStep, JoinResource, OpenResource, HeaderWritten, ReadHappens,
       ContentRead, EndRead, ContentCopied, HandleClose, FreedCompleted,
       Crash, muxVars, TypeOK

LEMMA FetchFrame ==
  ASSUME NEW c \in Clients, FetchStep(c), TypeOK
  PROVE  /\ UNCHANGED <<got, restarts>>
         /\ failed => failed'
         /\ failed' \in BOOLEAN
BY DEF FetchStep, StatxDone, HeaderFileRead, Fetch, FetchFails, HeaderEnds,
       HeaderRead, GenerateNode, HeaderReadNoFile, BlockRead, AnswerEnds,
       Crash, TypeOK

LEMMA WriterFrame ==
  ASSUME WriterStep, TypeOK
  PROVE  /\ UNCHANGED <<resource, type, header, requests, file_exists, chain,
                        got, failed, restarts>>
BY DEF WriterStep, WriteHappens, BlockWritten, HeaderFileWritten, Crash,
       muxVars, fileVars

LEMMA CrashFrame ==
  ASSUME NEW how, Crash(how)
  PROVE  /\ fault' = how
         /\ UNCHANGED <<resource, type, is_completed, header, requests, node,
                        file, file_exists, header_file, header_write, req,
                        chain, got, failed, restarts>>
BY DEF Crash, muxVars, fileVars

-----------------------------------------------------------------------------
(* The types. *)

(* One Request changes. *)
LEMMA ReqTyped ==
  ASSUME TypeOK, NEW c \in Clients, NEW x \in Readers,
         req' = [req EXCEPT ![c] = x]
  PROVE  req' \in [Clients -> Readers]
BY DEF TypeOK

LEMMA TypeOfClient ==
  ASSUME TypeOK, NEW c \in Clients, ClientStep(c),
         RegisteredAreLive
  PROVE  TypeOK'
<1> USE DEF TypeOK
<1>1. req[c] \in Readers
  OBVIOUS
<1>2. CASE JoinResource(c)
  <2>1. requests' \in Seq(Clients)
    BY <1>2, JoinRegistered DEF JoinResource
  <2>2. Submitted(StreamRequest, "WRITE_HEADER") \in Readers /\ StreamRequest \in Readers
    BY NewFields, SubmittedFields DEF EventTypes
  <2>3. req' \in [Clients -> Readers]
    BY <1>2, <2>2 DEF JoinResource
  <2> QED
    BY <1>2, <2>1, <2>3 DEF JoinResource, fileVars
<1>3. CASE OpenResource(c)
  <2>1. requests' \in Seq(Clients)
    BY <1>3 DEF OpenResource
  <2>2. req' \in [Clients -> Readers]
    BY <1>3, NewFields, ReqTyped DEF OpenResource
  <2>3. chain' \in [Clients -> Chains]
    BY <1>3 DEF OpenResource, Chains
  <2> QED
    BY <1>3, <2>1, <2>2, <2>3 DEF OpenResource, fileVars
<1>4. ASSUME req' = req, UNCHANGED <<requests, resource, type, is_completed, header>>,
             UNCHANGED <<node, file, file_exists, header_file, header_write>>,
             UNCHANGED <<chain, got, restarts>>, failed' \in BOOLEAN,
             fault' \in {"none", "terminate", "undefined"}
      PROVE  TypeOK'
  BY <1>4
<1>5. CASE HeaderWritten(c)
  <2>1. CASE ~resource
    BY <1>4, <1>5, <2>1, CrashFrame DEF HeaderWritten
  <2>2. CASE resource
    <3> DEFINE r == [Completed(req[c]) EXCEPT !.pivot = req[requests[1]].pivot]
    <3>1. Completed(req[c]) \in Readers
      BY <1>1, <1>5, CompletedFields DEF HeaderWritten, Completes
    <3>2. req[requests[1]].pivot \in Nat
      <4>1. c \in Registered
        BY <1>5 DEF HeaderWritten, Completes, RegisteredAreLive
      <4>2. requests[1] \in Clients
        BY <4>1 DEF Registered
      <4> QED
        BY <4>2 DEF Readers
    <3>3. r \in Readers
      BY <3>1, <3>2, ReaderUpdate
    <3>4. \/ req' = [req EXCEPT ![c] = [ReadRequest(r, 0) EXCEPT !.auxiliar = "open"]]
          \/ req' = [req EXCEPT ![c] = r]
      BY <1>5, <2>2 DEF HeaderWritten
    <3> HIDE DEF r
    <3>5. [ReadRequest(r, 0) EXCEPT !.auxiliar = "open"] \in Readers
      <4>1. ReadRequest(r, 0) \in Readers
        BY <3>3, ReadFields
      <4> QED
        BY <4>1, ReaderUpdate
    <3>6. req' \in [Clients -> Readers]
      BY <3>3, <3>4, <3>5, ReqTyped
    <3> QED
      BY <1>5, <2>2, <3>6 DEF HeaderWritten, muxVars, fileVars
  <2> QED
    BY <2>1, <2>2
<1>6. CASE ReadHappens(c)
  <2>1. req' = [req EXCEPT ![c] =
                  [req[c] EXCEPT !.readed = IF req[c].offset < Len(file) THEN 1 ELSE 0]]
    BY <1>6 DEF ReadHappens
  <2>2. \A x \in {0, 1} : [req[c] EXCEPT !.readed = x] \in Readers
    BY <1>1, ReaderUpdate
  <2>3. req' \in [Clients -> Readers]
    BY <2>1, <2>2, ReqTyped
  <2> QED
    BY <1>6, <2>3 DEF ReadHappens, muxVars, fileVars
<1>7. CASE ContentRead(c)
  <2> DEFINE r == Submitted(Completed(req[c]), "COPY_CONTENT")
  <2>1. r \in Readers
    <3>1. Completed(req[c]) \in Readers
      BY <1>1, <1>7, CompletedFields DEF ContentRead, Completes
    <3> QED
      BY <3>1, SubmittedFields DEF EventTypes
  <2>2. req' = [req EXCEPT ![c] = [r EXCEPT !.pivot = r.pivot + 1]]
    BY <1>7 DEF ContentRead
  <2> HIDE DEF r
  <2>3. [r EXCEPT !.pivot = r.pivot + 1] \in Readers
    <3>1. r.pivot + 1 \in Nat
      BY <2>1 DEF Readers
    <3> QED
      BY <2>1, <3>1, ReaderUpdate
  <2>4. req' \in [Clients -> Readers]
    BY <2>2, <2>3, ReqTyped
  <2>5. got' \in [Clients -> Nat]
    BY <1>7 DEF ContentRead
  <2> QED
    BY <1>7, <2>4, <2>5 DEF ContentRead, muxVars, fileVars
<1>8. CASE EndRead(c)
  <2>1. CASE ~resource
    BY <1>4, <1>8, <2>1, CrashFrame DEF EndRead
  <2>2. CASE resource
    <3>1. Completed(req[c]) \in Readers
      BY <1>1, <1>8, CompletedFields DEF EndRead, Completes
    <3>2. c \in Registered
      BY <1>8 DEF EndRead, Completes, RegisteredAreLive
    <3>3. Without(c) \in Seq(Clients)
      BY <3>2, WithoutElements
    <3>4. [Completed(req[c]) EXCEPT !.auxiliar = "closed"] \in Readers
      BY <3>1, ReaderUpdate
    <3>5. CloseRequest([Completed(req[c]) EXCEPT !.auxiliar = "closed"]) \in Readers
      BY <3>4, EndFields
    <3>6. req' \in [Clients -> Readers]
      BY <1>8, <2>2, <3>1, <3>5, ReqTyped DEF EndRead
    <3> QED
      BY <1>8, <2>2, <3>3, <3>6 DEF EndRead, muxVars, fileVars
  <2> QED
    BY <2>1, <2>2
<1>9. CASE ContentCopied(c)
  <2>1. req[c].pivot \in Nat
    BY DEF Readers
  <2>2. ReadRequest(Completed(req[c]), req[c].pivot) \in Readers
    <3>1. Completed(req[c]) \in Readers
      BY <1>1, <1>9, CompletedFields DEF ContentCopied, Completes
    <3> QED
      BY <2>1, <3>1, ReadFields
  <2>3. req' \in [Clients -> Readers]
    BY <1>9, <2>2, ReqTyped DEF ContentCopied
  <2> QED
    BY <1>9, <2>3 DEF ContentCopied, muxVars, fileVars
<1>10. CASE HandleClose(c)
  <2>1. Released(Completed(req[c])) \in Readers
    <3>1. Completed(req[c]) \in Readers
      BY <1>1, <1>10, CompletedFields DEF HandleClose, Completes
    <3> QED
      BY <3>1, EndFields
  <2>2. req' \in [Clients -> Readers]
    BY <1>10, <2>1, ReqTyped DEF HandleClose
  <2> QED
    BY <1>10, <2>2 DEF HandleClose, muxVars, fileVars
<1>11. CASE FreedCompleted(c)
  BY <1>4, <1>11, CrashFrame DEF FreedCompleted
<1> QED
  BY <1>2, <1>3, <1>5, <1>6, <1>7, <1>8, <1>9, <1>10, <1>11 DEF ClientStep

(* The Mux gets its header, or comes to its end. *)
LEMMA MuxTyped ==
  ASSUME TypeOK
  PROVE  /\ \A text, completed :
              SetCacheResource(text, completed) => req' \in [Clients -> Readers]
         /\ CloseStream => req' \in [Clients -> Readers]
         /\ ReleaseErrorAllWaitingRequest => req' \in [Clients -> Readers]
         /\ NotifyCacheCompleted => req' \in [Clients -> Readers]
         /\ ReleaseResource =>
              /\ resource' \in BOOLEAN /\ is_completed' \in BOOLEAN
              /\ type' \in {"UNDEFINED", "CACHE"}
              /\ header' \in {"none", "empty", "whole"}
              /\ requests' \in Seq(Clients)
<1>1. ASSUME NEW c \in Clients
      PROVE  /\ req[c] \in Readers
             /\ Submitted(req[c], "WRITE_HEADER") \in Readers
             /\ CloseRequest(req[c]) \in Readers
             /\ Released(req[c]) \in Readers
             /\ ReadRequest(req[c], req[c].pivot) \in Readers
  <2>1. req[c] \in Readers
    BY DEF TypeOK
  <2>2. req[c].pivot \in Nat
    BY <2>1 DEF Readers
  <2> QED
    BY <2>1, <2>2, SubmittedFields, EndFields, ReadFields DEF EventTypes
<1>2. \A text, completed :
        SetCacheResource(text, completed) => req' \in [Clients -> Readers]
  BY <1>1 DEF SetCacheResource
<1>3. CloseStream => req' \in [Clients -> Readers]
  BY <1>1 DEF CloseStream
<1>4. ReleaseErrorAllWaitingRequest => req' \in [Clients -> Readers]
  BY <1>1 DEF ReleaseErrorAllWaitingRequest
<1>5. NotifyCacheCompleted => req' \in [Clients -> Readers]
  BY <1>1 DEF NotifyCacheCompleted, TypeOK
<1>6. ReleaseResource =>
        /\ resource' \in BOOLEAN /\ is_completed' \in BOOLEAN
        /\ type' \in {"UNDEFINED", "CACHE"}
        /\ header' \in {"none", "empty", "whole"}
        /\ requests' \in Seq(Clients)
  <2>1. <<>> \in Seq(Clients)
    BY EmptySeq
  <2> QED
    BY <2>1 DEF ReleaseResource
<1> QED
  BY <1>2, <1>3, <1>4, <1>5, <1>6

LEMMA TypeOfFetch ==
  ASSUME TypeOK, NEW c \in Clients, FetchStep(c), NodeInv(node)
  PROVE  TypeOK'
<1> USE DEF TypeOK
<1>1. ASSUME NEW how \in {"terminate", "undefined"}, Crash(how)
      PROVE  TypeOK'
  BY <1>1, CrashFrame
<1>2. \A x \in Chains : [chain EXCEPT ![c] = x] \in [Clients -> Chains]
  OBVIOUS
<1>3. CASE StatxDone(c)
  <2>1. chain' \in [Clients -> Chains]
    BY <1>2, <1>3 DEF StatxDone, Chains
  <2> QED
    BY <1>3, <2>1 DEF StatxDone, muxVars, fileVars
<1>4. CASE HeaderFileRead(c)
  <2>1. CASE resource
    <3>1. PICK text \in {header_file} \cup
                  (IF chain[c] = "read_early" THEN {"empty"} ELSE {}) :
            SetCacheResource(text, TRUE)
      BY <1>4, <2>1 DEF HeaderFileRead
    <3>2. text \in {"none", "empty", "whole"}
      BY <3>1
    <3>3. chain' \in [Clients -> Chains]
      BY <1>2, <1>4, <2>1 DEF HeaderFileRead, Chains
    <3> QED
      BY <1>4, <2>1, <3>1, <3>2, <3>3, MuxTyped
         DEF HeaderFileRead, SetCacheResource, fileVars
  <2> QED
    BY <1>1, <1>4, <2>1 DEF HeaderFileRead
<1>5. CASE Fetch(c)
  <2>1. chain' \in [Clients -> Chains]
    BY <1>2, <1>5 DEF Fetch, Chains
  <2> QED
    BY <1>5, <2>1 DEF Fetch, muxVars, fileVars
<1>6. CASE FetchFails(c)
  <2>1. CASE resource
    <3>1. chain' \in [Clients -> Chains]
      BY <1>2, <1>6, <2>1 DEF FetchFails, Chains
    <3> QED
      BY <1>6, <2>1, <3>1, MuxTyped
         DEF FetchFails, ReleaseErrorAllWaitingRequest, fileVars
  <2> QED
    BY <1>1, <1>6, <2>1 DEF FetchFails
<1>7. CASE HeaderEnds(c)
  <2>1. CASE resource
    <3>1. chain' \in [Clients -> Chains]
      BY <1>2, <1>7, <2>1 DEF HeaderEnds, Chains
    <3> QED
      BY <1>7, <2>1, <3>1, MuxTyped DEF HeaderEnds, CloseStream, fileVars
  <2> QED
    BY <1>1, <1>7, <2>1 DEF HeaderEnds
<1>8. CASE HeaderRead(c)
  <2>1. CASE resource
    <3>1. chain' \in [Clients -> Chains]
      BY <1>2, <1>8, <2>1 DEF HeaderRead, Chains
    <3>2. Generated \in Nodes /\ NodeInv(Generated) /\ Generated.exists
      BY NewNodeFields DEF Generated
    <3>3. Appended(Generated) \in Nodes
      BY <3>2, AppendedSound
    <3>4. node' \in Nodes
      BY <1>8, <2>1, <3>2, <3>3 DEF HeaderRead
    <3>5. SetCacheResource("whole", FALSE) /\ file' = <<>> /\ file_exists' = TRUE
      BY <1>8, <2>1 DEF HeaderRead, GenerateNode
    <3>6. /\ header_file' \in {"none", "empty", "whole"}
          /\ header_write' \in BOOLEAN /\ failed' \in BOOLEAN
      BY <1>8, <2>1 DEF HeaderRead, GenerateNode
    <3>7. <<>> \in Seq(Int)
      BY EmptySeq
    <3>8. /\ UNCHANGED <<resource, requests>> /\ type' = "CACHE"
          /\ is_completed' = FALSE /\ header' = "whole"
          /\ req' \in [Clients -> Readers]
      BY <3>5, MuxTyped DEF SetCacheResource
    <3>9. UNCHANGED <<fault, got, restarts>>
      BY <1>8, <2>1 DEF HeaderRead
    <3> QED
      BY <3>1, <3>4, <3>5, <3>6, <3>7, <3>8, <3>9
  <2> QED
    BY <1>1, <1>8, <2>1 DEF HeaderRead
<1>9. CASE HeaderReadNoFile(c)
  <2>1. chain' \in [Clients -> Chains]
    BY <1>2, <1>9 DEF HeaderReadNoFile, Chains
  <2> QED
    BY <1>9, <2>1 DEF HeaderReadNoFile, muxVars, fileVars
<1>10. CASE BlockRead(c)
  <2>1. CASE ~node.exists \/ (~resource /\ Appended(node).size # node.size)
    BY <1>1, <1>10, <2>1 DEF BlockRead
  <2>2. CASE ~(~node.exists \/ (~resource /\ Appended(node).size # node.size))
    <3>1. Appended(node) \in Nodes
      BY <2>2, AppendedSound
    <3> QED
      BY <1>10, <2>2, <3>1 DEF BlockRead, muxVars, fileVars
  <2> QED
    BY <2>1, <2>2
<1>11. CASE AnswerEnds(c)
  <2>1. CASE ~node.exists \/ ~resource
    BY <1>1, <1>11, <2>1 DEF AnswerEnds
  <2>2. CASE ~(~node.exists \/ ~resource)
    <3>1. Closed(node) \in Nodes
      BY ClosedSound
    <3>2. chain' \in [Clients -> Chains]
      BY <1>2, <1>11, <2>2 DEF AnswerEnds, Chains
    <3> QED
      BY <1>11, <2>2, <3>1, <3>2 DEF AnswerEnds, muxVars, fileVars
  <2> QED
    BY <2>1, <2>2
<1> QED
  BY <1>3, <1>4, <1>5, <1>6, <1>7, <1>8, <1>9, <1>10, <1>11 DEF FetchStep

-----------------------------------------------------------------------------
(* The writer's steps. *)

(* The kernel has executed the write. *)
LEMMA WrittenFields ==
  ASSUME TypeOK, NodeInv(node), WriteHappens
  PROVE  /\ node' \in Nodes
         /\ node'.exists = node.exists /\ node'.buffer = node.buffer
         /\ node'.pivot = node.pivot /\ node'.size = node.size
         /\ node'.head = node.head
         /\ node'.cache.is_processing = node.cache.is_processing
         /\ node'.cache.flight = node.cache.flight
         /\ node'.cache.pivot = node.cache.pivot
         /\ node'.cache.block = node.cache.block
         /\ node'.cache.written = TRUE
<1>1. node \in Nodes /\ node' = [node EXCEPT !.cache.written = TRUE]
  BY DEF TypeOK, WriteHappens
<1> DEFINE r == [node.cache EXCEPT !.written = TRUE]
<1>2. /\ r \in Writers /\ r.is_processing = node.cache.is_processing
      /\ r.flight = node.cache.flight /\ r.pivot = node.cache.pivot
      /\ r.block = node.cache.block /\ r.written = TRUE
  BY <1>1, CellFields DEF Writers
<1>3. node' = [node EXCEPT !.cache = r]
  BY <1>1
<1> HIDE DEF r
<1>4. /\ node' \in Nodes /\ node'.cache = r
      /\ node'.exists = node.exists /\ node'.buffer = node.buffer
      /\ node'.pivot = node.pivot /\ node'.size = node.size
      /\ node'.head = node.head
  BY <1>1, <1>2, <1>3 DEF Nodes
<1> QED
  BY <1>2, <1>4

(* WRITE_CONTENT: a later block is written, or the writer stands at the    *)
(* slot that is filled next, or has come to the end.                       *)
LEMMA BlockWrittenNode ==
  ASSUME TypeOK, NodeInv(node), BlockWritten
  PROVE  \/ Crash("terminate") /\ ~resource /\ node.exists
         \/ /\ node' = WriteBlock(WriterIdle)
            /\ UNCHANGED <<muxVars, fileVars, req, chain, fault, got, failed,
                           restarts>>
            /\ node' \in Nodes /\ NodeInv(node') /\ node'.exists
            /\ node'.buffer = node.buffer /\ node'.pivot = node.pivot
            /\ node'.head = node.head
            /\ node'.size = node.size + 1
            /\ node'.cache.offset = node'.size /\ ~node'.cache.written
            /\ node'.cache.block > node.cache.block
            /\ (node'.cache.block - node.cache.block) % N = 1
         \/ /\ NotifyCacheCompleted
            /\ UNCHANGED <<resource, type, header, requests, fileVars,
                           chain, got, failed, restarts>>
            /\ node' \in Nodes /\ NodeInv(node') /\ ~node'.exists
            /\ node'.cache.written /\ node'.head = node.head
            /\ EndIsStored
            /\ node.cache.pivot = node.pivot
         \/ /\ UNCHANGED <<muxVars, fileVars, req, chain, fault, got, failed,
                           restarts>>
            /\ node' \in Nodes /\ NodeInv(node') /\ node'.exists
            /\ node'.buffer = node.buffer /\ node'.pivot = node.pivot
            /\ node'.head = node.head /\ node'.size = node.size
            /\ node'.cache.block = node.cache.block
            /\ node'.cache.written
<1>1. /\ node \in Nodes /\ node.cache.flight > 0 /\ node.cache.written
  BY DEF TypeOK, BlockWritten
<1>2. /\ WriterIdle \in Nodes
      /\ WriterIdle.buffer = node.buffer /\ WriterIdle.pivot = node.pivot
      /\ WriterIdle.head = node.head /\ WriterIdle.exists = node.exists
      /\ WriterIdle.size = node.size
      /\ WriterIdle.cache.is_processing = FALSE
      /\ WriterIdle.cache.flight = 0
      /\ WriterIdle.cache.pivot = node.cache.pivot
      /\ WriterIdle.cache.block = node.cache.block
      /\ WriterIdle.cache.written = node.cache.written
      /\ node.cache.is_processing /\ node.exists
  BY <1>1, IdleFields
<1>3. /\ RingState(N, node.buffer, node.pivot, node.head)
      /\ node.cache.block + 1 \in 0 .. node.head
      /\ node.cache.pivot = SlotOf(N, node.cache.block + 1)
      /\ node.size > 0
      /\ node.size = 0 => node.head = 0 /\ node.cache.block = Hole
      /\ node.head = 0 => node.size = 0
  BY <1>2 DEF NodeInv
<1>4. ASSUME ~Holds(node.buffer, node.cache.pivot)
      PROVE  node.cache.pivot = node.pivot /\ NodeInv(WriterIdle)
  <2>1. node.cache.pivot = node.pivot
    <3> DEFINE k == node.cache.block + 1
    <3>1. k \in Nat /\ k <= node.head /\ node.cache.pivot = SlotOf(N, k)
      BY <1>1, <1>3, CellFields
    <3> HIDE DEF k
    <3> QED
      BY <1>1, <1>3, <1>4, <3>1, CellFields, IdleReader
  <2> QED
    BY <1>1, <1>2, <1>3, <2>1 DEF NodeInv
<1>5. CASE Holds(node.buffer, node.cache.pivot) /\ ~resource
  BY <1>2, <1>5 DEF BlockWritten
<1>6. CASE Holds(node.buffer, node.cache.pivot) /\ resource
  <2>1. /\ node' = WriteBlock(WriterIdle)
        /\ UNCHANGED <<muxVars, fileVars, req, chain, fault, got, failed,
                       restarts>>
    BY <1>6 DEF BlockWritten
  <2>2. /\ NodeInv(WriteBlock(WriterIdle))
        /\ WriteBlock(WriterIdle).cache.block > WriterIdle.cache.block
        /\ (WriteBlock(WriterIdle).cache.block - WriterIdle.cache.block) % N = 1
    BY <1>2, <1>3, <1>6, WriteSound
  <2>3. /\ WriteBlock(WriterIdle) \in Nodes
        /\ WriteBlock(WriterIdle).buffer = node.buffer
        /\ WriteBlock(WriterIdle).pivot = node.pivot
        /\ WriteBlock(WriterIdle).head = node.head
        /\ WriteBlock(WriterIdle).exists
        /\ WriteBlock(WriterIdle).size = node.size + 1
        /\ WriteBlock(WriterIdle).cache.offset = node.size + 1
        /\ ~WriteBlock(WriterIdle).cache.written
    BY <1>2, WriteFields
  <2> QED
    BY <1>2, <2>1, <2>2, <2>3
<1>7. CASE ~Holds(node.buffer, node.cache.pivot)
           /\ node.buffer[node.cache.pivot] = EndBuffer
  <2>1. /\ NotifyCacheCompleted
        /\ node' = [WriterIdle EXCEPT !.exists = FALSE]
        /\ UNCHANGED <<resource, type, header, requests, fileVars,
                       chain, got, failed, restarts>>
    BY <1>7 DEF BlockWritten
  <2>2. /\ node' \in Nodes /\ node'.exists = FALSE
        /\ node'.buffer = WriterIdle.buffer /\ node'.pivot = WriterIdle.pivot
        /\ node'.head = WriterIdle.head /\ node'.size = WriterIdle.size
        /\ node'.cache = WriterIdle.cache
    BY <1>2, <2>1 DEF Nodes
  <2>3. NodeInv(node')
    BY <1>1, <1>2, <1>4, <1>7, <2>2 DEF NodeInv
  <2> QED
    BY <1>1, <1>2, <1>4, <1>7, <2>1, <2>2, <2>3 DEF EndIsStored
<1>8. CASE ~Holds(node.buffer, node.cache.pivot)
           /\ node.buffer[node.cache.pivot] # EndBuffer
  <2>1. /\ node' = WriterIdle
        /\ UNCHANGED <<muxVars, fileVars, req, chain, fault, got, failed,
                       restarts>>
    BY <1>8 DEF BlockWritten
  <2> QED
    BY <1>1, <1>2, <1>4, <1>8, <2>1
<1> QED
  BY <1>5, <1>6, <1>7, <1>8

LEMMA TypeOfWriter ==
  ASSUME TypeOK, NodeInv(node), WriterStep, FileInv
  PROVE  TypeOK'
<1> USE DEF TypeOK
<1>1. CASE WriteHappens
  <2>1. node' \in Nodes
    BY <1>1, WrittenFields
  <2>2. file' \in Seq(Int)
    <3> DEFINE o == node.cache.offset
               n == IF o < Len(file) THEN Len(file) ELSE o + 1
               f == [i \in 1 .. n |->
                      IF i = o + 1 THEN node.cache.block
                      ELSE IF i \in DOMAIN file THEN file[i] ELSE Hole]
    <3>1. file' = f
      BY <1>1 DEF WriteHappens
    <3>2. n \in Nat
      BY CellFields
    <3>3. \A i \in 1 .. n : f[i] \in Int
      BY CellFields DEF Hole
    <3> HIDE DEF n
    <3>4. f \in [1 .. n -> Int]
      BY <3>3
    <3> QED
      BY <3>1, <3>2, <3>4 DEF f
  <2> QED
    BY <1>1, <2>1, <2>2 DEF WriteHappens, muxVars
<1>2. CASE BlockWritten
  <2>1. CASE Crash("terminate")
    BY <2>1, CrashFrame
  <2>2. CASE NotifyCacheCompleted
             /\ UNCHANGED <<resource, type, header, requests, fileVars,
                            chain, got, failed, restarts>>
             /\ node' \in Nodes
    <3>1. req' \in [Clients -> Readers]
      BY <2>2, MuxTyped
    <3>2. /\ is_completed' \in BOOLEAN
          /\ fault' \in {"none", "terminate", "undefined"}
      BY <2>2 DEF NotifyCacheCompleted
    <3> QED
      BY <2>2, <3>1, <3>2 DEF fileVars
  <2>3. CASE node' \in Nodes
             /\ UNCHANGED <<muxVars, fileVars, req, chain, fault, got, failed,
                            restarts>>
    BY <2>3 DEF muxVars, fileVars
  <2> QED
    BY <1>2, <2>1, <2>2, <2>3, BlockWrittenNode
<1>3. CASE HeaderFileWritten
  BY <1>3 DEF HeaderFileWritten, muxVars
<1> QED
  BY <1>1, <1>2, <1>3 DEF WriterStep

LEMMA TypeOfRestart == ASSUME TypeOK, Restart PROVE TypeOK'
<1>1. node' \in Nodes
  BY NewNodeFields DEF Restart
<1>2. [NoRequest EXCEPT !.state = "freed"] \in Readers
  BY NewFields, ReaderUpdate
<1>3. req' \in [Clients -> Readers]
  BY <1>2 DEF Restart, TypeOK
<1>4. chain' \in [Clients -> Chains]
  BY DEF Restart, Chains
<1> QED
  <2>1. /\ resource' \in BOOLEAN /\ is_completed' \in BOOLEAN
        /\ type' \in {"UNDEFINED", "CACHE"}
        /\ header' \in {"none", "empty", "whole"}
        /\ requests' \in Seq(Clients)
    BY MuxTyped DEF Restart
  <2>2. /\ header_write' = FALSE /\ fault' = "none" /\ restarts' \in Nat
        /\ UNCHANGED <<file, file_exists, header_file, got, failed>>
    BY DEF Restart, TypeOK
  <2> QED
    BY <1>1, <1>3, <1>4, <2>1, <2>2 DEF TypeOK

-----------------------------------------------------------------------------
(* The ring, the writer and the file. *)

LEMMA FileTypes ==
  ASSUME TypeOK
  PROVE  /\ file \in Seq(Int) /\ Len(file) \in Nat /\ DOMAIN file = 1 .. Len(file)
         /\ \A i \in 1 .. Len(file) : file[i] \in Int
         /\ node \in Nodes
BY LenProperties DEF TypeOK

(* The file grows by the block, which comes after the one before it. *)
LEMMA FileOfWrite ==
  ASSUME TypeOK, NodeInv(node), FileInv, WriteHappens
  PROVE  NodeInv(node') /\ FileInv'
<1>1. /\ node' \in Nodes
      /\ node'.exists = node.exists /\ node'.buffer = node.buffer
      /\ node'.pivot = node.pivot /\ node'.size = node.size
      /\ node'.head = node.head
      /\ node'.cache.is_processing = node.cache.is_processing
      /\ node'.cache.flight = node.cache.flight
      /\ node'.cache.pivot = node.cache.pivot
      /\ node'.cache.block = node.cache.block
      /\ node'.cache.written = TRUE
  BY WrittenFields
<1>2. NodeInv(node')
  BY <1>1 DEF NodeInv
<1> DEFINE o == node.cache.offset
           b == node.cache.block
           s == node.size
<1>3. /\ ~node.cache.written /\ node.exists /\ s > 0 /\ s \in Nat /\ b \in Int
      /\ o = s
      /\ IF s = 1 THEN file = <<>> /\ b = 0
         ELSE /\ Len(file) = s
              /\ file[Len(file)] < b
              /\ (b - file[Len(file)]) % N = 1
  BY FileTypes, CellFields DEF WriteHappens, FileInv, WriteInv, NodeInv
<1>4. Len(file) = IF s = 1 THEN 0 ELSE s
  BY <1>3, EmptySeq
<1>5. file' = [i \in 1 .. s + 1 |->
                 IF i = s + 1 THEN b
                 ELSE IF i \in DOMAIN file THEN file[i] ELSE Hole]
  <2>1. (IF o < Len(file) THEN Len(file) ELSE o + 1) = s + 1
    BY <1>3, <1>4
  <2> QED
    BY <1>3, <2>1 DEF WriteHappens
<1>6. s + 1 \in Nat /\ s + 1 \in 1 .. s + 1 /\ 1 \in 1 .. s + 1
  BY <1>3
<1> HIDE DEF o, b, s
<1>7. /\ DOMAIN file' = 1 .. s + 1 /\ file'[s + 1] = b
      /\ \A i \in 1 .. s : i \in DOMAIN file => file'[i] = file[i]
      /\ file = <<>> => file'[1] = Hole
  <2>1. file = <<>> => 1 \notin DOMAIN file
    BY EmptySeq
  <2> QED
    BY <1>3, <1>5, <1>6, <2>1
<1>8. Len(file') = s + 1
  <2>1. file' \in Seq(Int)
    BY TypeOfWriter DEF WriterStep, TypeOK
  <2> QED
    BY <1>3, <1>6, <1>7, <2>1, LenProperties
<1>9. FileInOrder'
  <2> SUFFICES ASSUME NEW i \in 1 .. s + 1
               PROVE  IF i = 1 THEN file'[i] = Hole
                      ELSE IF i = 2 THEN file'[i] = 0
                      ELSE file'[i] > file'[i - 1]
                             /\ (file'[i] - file'[i - 1]) % CacheBufferSize = 1
    BY <1>7 DEF FileInOrder
  <2>1. CASE s = 1
    BY <1>3, <1>7, <2>1
  <2>2. CASE s # 1
    <3>1. /\ Len(file) = s /\ DOMAIN file = 1 .. s
          /\ file[s] < b /\ (b - file[s]) % N = 1
      BY <1>3, <2>2, FileTypes
    <3>2. \A j \in 1 .. s : file'[j] = file[j]
      BY <1>7, <3>1
    <3>3. \A j \in 1 .. s :
            IF j = 1 THEN file[j] = Hole
            ELSE IF j = 2 THEN file[j] = 0
            ELSE file[j] > file[j - 1]
                   /\ (file[j] - file[j - 1]) % CacheBufferSize = 1
      BY <3>1 DEF FileInv, FileInOrder
    <3>4. CASE i = s + 1
      <4>1. s \in 1 .. s /\ i - 1 = s /\ i # 1 /\ i # 2
        BY <1>3, <2>2, <3>4
      <4>2. file'[i] = b /\ file'[i - 1] = file[s]
        BY <1>7, <3>2, <3>4, <4>1
      <4>3. file[s] \in Int
        BY <3>1, <4>1, FileTypes
      <4> QED
        BY <1>3, <3>1, <4>1, <4>2, <4>3 DEF N
    <3>5. CASE i # s + 1
      <4>1. i \in 1 .. s
        BY <1>3, <3>5
      <4>2. file'[i] = file[i] /\ (i # 1 => file'[i - 1] = file[i - 1])
        BY <1>3, <3>2, <4>1
      <4> QED
        BY <3>3, <4>1, <4>2
    <3> QED
      BY <3>4, <3>5
  <2> QED
    BY <2>1, <2>2
<1>10. WriteInv'
  BY <1>1, <1>3, <1>7, <1>8 DEF WriteInv, s, b
<1> QED
  BY <1>2, <1>9, <1>10 DEF FileInv

(* A step that leaves the file alone and lets the writer take a block or   *)
(* nothing.                                                                *)
LEMMA FileOfNode ==
  ASSUME TypeOK, NodeInv(node), FileInv, node' \in Nodes, file' = file,
         node'.exists =>
           /\ node.exists
           /\ \/ /\ node'.size = node.size
                 /\ node'.cache.written = node.cache.written
                 /\ node'.cache.offset = node.cache.offset
                 /\ node'.cache.block = node.cache.block
              \/ /\ node.cache.written /\ node'.cache.written
                 /\ node'.size = node.size
                 /\ node'.cache.block = node.cache.block
              \/ /\ node.cache.written /\ node'.size = node.size + 1
                 /\ node'.cache.offset = node'.size
                 /\ ~node'.cache.written
                 /\ node'.cache.block > node.cache.block
                 /\ (node'.cache.block - node.cache.block) % N = 1
                 /\ node.size = 0 => node'.cache.block = 0
  PROVE  FileInv'
<1>1. FileInOrder'
  BY DEF FileInv, FileInOrder
<1>2. ASSUME node'.exists PROVE WriteInv'
  <2>1. node.size \in Nat
    BY FileTypes, CellFields
  <2>2. CASE /\ node.cache.written /\ node'.size = node.size + 1
             /\ node'.cache.offset = node'.size
             /\ ~node'.cache.written
             /\ node'.cache.block > node.cache.block
             /\ (node'.cache.block - node.cache.block) % N = 1
             /\ node.size = 0 => node'.cache.block = 0
    <3>1. CASE node.size = 0
      BY <1>2, <2>1, <2>2, <3>1 DEF FileInv, WriteInv
    <3>2. CASE node.size # 0
      <4>1. /\ Len(file) = node.size + 1
            /\ file[Len(file)] = node.cache.block
            /\ node'.size # 1
        BY <1>2, <2>1, <2>2, <3>2 DEF FileInv, WriteInv
      <4>2. node'.cache.block \in Int /\ node.cache.block \in Int
        BY FileTypes, CellFields
      <4> QED
        BY <2>2, <4>1, <4>2 DEF WriteInv
    <3> QED
      BY <3>1, <3>2
  <2>3. CASE ~node'.cache.written /\ node'.size = node.size
             /\ node'.cache.written = node.cache.written
             /\ node'.cache.offset = node.cache.offset
             /\ node'.cache.block = node.cache.block
    BY <1>2, <2>3 DEF FileInv, WriteInv
  <2>4. CASE node'.cache.written /\ node.cache.written
             /\ node'.size = node.size
             /\ node'.cache.block = node.cache.block
    BY <1>2, <2>4 DEF FileInv, WriteInv
  <2> QED
    BY <1>2, <2>2, <2>3, <2>4
<1> QED
  BY <1>1, <1>2 DEF FileInv, WriteInv

LEMMA NodeOfFetch ==
  ASSUME TypeOK, ChainInv, BindingInv, NodeInv(node), FileInv,
         NEW c \in Clients, FetchStep(c)
  PROVE  NodeInv(node') /\ FileInv'
<1>1. CASE UNCHANGED <<node, file>>
  BY <1>1 DEF FileInv, FileInOrder, WriteInv
<1>2. CASE HeaderRead(c) /\ resource
  <2>1. Generated = NewNode
    BY <1>2 DEF HeaderRead, ChainInv, BindingInv, Generated
  <2>2. /\ file' = <<>>
        /\ node' = NewNode \/ node' = Appended(NewNode)
    BY <1>2, <2>1 DEF HeaderRead, GenerateNode
  <2>3. FileInOrder'
    BY <2>2 DEF FileInOrder
  <2>4. CASE node' = NewNode
    BY <2>2, <2>3, <2>4, NewNodeFields DEF FileInv, WriteInv
  <2>5. CASE node' = Appended(NewNode)
    <3>1. NewNode.cache.is_processing = FALSE
      BY DEF NewNode, CacheRequest
    <3>2. /\ NodeInv(node') /\ node'.size = 0 + 1
          /\ node'.cache.offset = node'.size /\ ~node'.cache.written
          /\ node'.cache.block = 0
      BY <2>5, <3>1, NewNodeFields, AppendedSound
    <3>3. node'.size = 1
      BY <3>2
    <3> QED
      BY <2>2, <2>3, <3>2, <3>3 DEF FileInv, WriteInv
  <2> QED
    BY <2>2, <2>4, <2>5
<1>3. CASE BlockRead(c) /\ node.exists /\ node' = Appended(node)
           /\ UNCHANGED fileVars
  <2>1. /\ node \in Nodes /\ file' = file
    BY <1>3, FileTypes DEF fileVars
  <2>2. /\ node' \in Nodes /\ NodeInv(node') /\ node'.exists
        /\ IF node.cache.is_processing
             THEN node'.cache = node.cache /\ node'.size = node.size
             ELSE /\ node'.size = node.size + 1 /\ node'.cache.offset = node'.size
                  /\ ~node'.cache.written
                  /\ node'.cache.block > node.cache.block
                  /\ (node'.cache.block - node.cache.block) % N = 1
                  /\ node.size = 0 => node'.cache.block = 0
    BY <1>3, <2>1, AppendedSound
  <2>3. ~node.cache.is_processing => node.cache.written
    BY DEF NodeInv
  <2> QED
    BY <1>3, <2>1, <2>2, <2>3, FileOfNode
<1>4. CASE node' = Closed(node) /\ file' = file
  <2>1. /\ Closed(node) \in Nodes /\ NodeInv(Closed(node))
        /\ Closed(node).exists = node.exists /\ Closed(node).size = node.size
        /\ Closed(node).cache = node.cache
    BY FileTypes, ClosedSound
  <2> QED
    BY <1>4, <2>1, FileOfNode
<1>5. CASE StatxDone(c) \/ HeaderFileRead(c) \/ Fetch(c) \/ FetchFails(c)
           \/ HeaderEnds(c) \/ HeaderReadNoFile(c)
  BY <1>1, <1>5
     DEF StatxDone, HeaderFileRead, Fetch, FetchFails, HeaderEnds,
         HeaderReadNoFile, Crash, fileVars
<1>6. CASE HeaderRead(c) /\ ~resource
  BY <1>1, <1>6, CrashFrame DEF HeaderRead
<1>7. CASE BlockRead(c)
  BY <1>1, <1>3, <1>7, CrashFrame DEF BlockRead
<1>8. CASE AnswerEnds(c)
  BY <1>1, <1>4, <1>8, CrashFrame DEF AnswerEnds, fileVars
<1> QED
  BY <1>2, <1>5, <1>6, <1>7, <1>8 DEF FetchStep

LEMMA NodeNext ==
  ASSUME TypeOK, ChainInv, BindingInv, NodeInv(node), FileInv, Next
  PROVE  NodeInv(node') /\ FileInv'
<1>1. CASE UNCHANGED <<node, file>>
  BY <1>1 DEF FileInv, FileInOrder, WriteInv
<1>2. ASSUME NEW c \in Clients, ClientStep(c) PROVE UNCHANGED <<node, file>>
  BY <1>2, ClientFrame DEF fileVars
<1>3. CASE WriteHappens
  BY <1>3, FileOfWrite
<1>4. CASE BlockWritten
  <2>1. CASE Crash("terminate")
    BY <1>1, <2>1, CrashFrame
  <2>2. CASE ~Crash("terminate")
    <3>1. node.cache.written /\ file' = file
      BY <1>4, <2>2, BlockWrittenNode DEF BlockWritten, fileVars
    <3>2. node.exists /\ node.size # 0
      BY <1>4 DEF BlockWritten, NodeInv
    <3> QED
      BY <1>4, <2>2, <3>1, <3>2, BlockWrittenNode, FileOfNode
  <2> QED
    BY <2>1, <2>2
<1>5. CASE HeaderFileWritten
  BY <1>1, <1>5 DEF HeaderFileWritten
<1>6. CASE Restart
  <2>1. node' = NoNode /\ file' = file
    BY <1>6 DEF Restart
  <2> QED
    BY <2>1, NewNodeFields DEF FileInv, FileInOrder, WriteInv
<1> QED
  BY <1>1, <1>2, <1>3, <1>4, <1>5, <1>6, NodeOfFetch DEF Next, WriterStep

-----------------------------------------------------------------------------
(* The fetches, the Mux, the Node and the file. *)

(* A client that opens the resource is the only step of a client that      *)
(* touches a fetch.                                                        *)
LEMMA ClientChain ==
  ASSUME NEW c \in Clients, ClientStep(c)
  PROVE  OpenResource(c) \/ UNCHANGED <<resource, chain>>
BY DEF ClientStep, JoinResource, HeaderWritten, ReadHappens, ContentRead,
       EndRead, ContentCopied, HandleClose, FreedCompleted, Crash, muxVars

(* The fetch of c goes on: nobody else's changes. *)
LEMMA ChainStep ==
  ASSUME TypeOK, NEW c \in Clients, NEW x, chain' = [chain EXCEPT ![c] = x]
  PROVE  chain'[c] = x /\ \A d \in Clients \ {c} : chain'[d] = chain[d]
BY DEF TypeOK

LEMMA ChainOfClient ==
  ASSUME TypeOK, MuxInv, ChainInv, BindingInv,
         NEW c \in Clients, ClientStep(c)
  PROVE  ChainInv' /\ BindingInv'
<1>1. /\ UNCHANGED <<type, is_completed, header, node, fileVars, restarts>>
      /\ failed => failed'
  BY ClientFrame
<1>2. CASE UNCHANGED <<resource, chain>>
  <2>1. ChainInv'
    BY <1>1, <1>2 DEF ChainInv, Active, fileVars
  <2>2. BindingInv'
    BY <1>1, <1>2 DEF BindingInv, EndIsStored, fileVars
  <2> QED
    BY <2>1, <2>2
<1>3. CASE OpenResource(c)
  <2>1. /\ ~resource /\ resource' = TRUE
        /\ type' = "UNDEFINED"
        /\ chain'[c] = "statx"
        /\ \A d \in Clients \ {c} : chain'[d] = chain[d]
    BY <1>1, <1>3, ChainStep DEF OpenResource, MuxInv
  <2>2. \A d \in Clients : ~Active(d)
    BY <2>1 DEF ChainInv
  <2>3. \A d \in Clients \ {c} : ~Active(d)'
    BY <2>1, <2>2 DEF Active
  <2>4. ChainInv'
    BY <1>1, <2>1, <2>3 DEF ChainInv, Active
  <2>5. BindingInv'
    BY <1>1, <2>1 DEF BindingInv, EndIsStored, fileVars, MuxInv
  <2> QED
    BY <2>4, <2>5
<1> QED
  BY <1>2, <1>3, ClientChain

(* A fetch that ends or fails leaves no other. *)
LEMMA LastFetch ==
  ASSUME ChainInv, TypeOK, NEW c \in Clients, Active(c),
         NEW x \in {"ended", "dropped"}, chain' = [chain EXCEPT ![c] = x]
  PROVE  \A d \in Clients : ~Active(d)'
<1>1. chain'[c] = x /\ \A d \in Clients \ {c} : chain'[d] = chain[d]
  BY ChainStep
<1>2. \A d \in Clients \ {c} : ~Active(d)
  BY DEF ChainInv
<1> QED
  BY <1>1, <1>2 DEF Active

LEMMA ChainOfFetch ==
  ASSUME TypeOK, MuxInv, ChainInv, BindingInv, NodeInv(node),
         NEW c \in Clients, FetchStep(c)
  PROVE  ChainInv' /\ BindingInv'
<1>1. failed => failed'
  BY FetchFrame
<1>2. CASE UNCHANGED <<muxVars, node, fileVars, chain>>
  <2>1. ChainInv'
    BY <1>1, <1>2 DEF ChainInv, Active, muxVars, fileVars
  <2>2. BindingInv'
    BY <1>1, <1>2, FetchFrame DEF BindingInv, EndIsStored, muxVars, fileVars
  <2> QED
    BY <2>1, <2>2
<1>3. Active(c) /\ resource /\ \A d \in Clients \ {c} : ~Active(d)
  BY DEF FetchStep, StatxDone, HeaderFileRead, Fetch, FetchFails, HeaderEnds,
         HeaderRead, HeaderReadNoFile, BlockRead, AnswerEnds, Active, ChainInv
<1>4. restarts' = restarts
  BY FetchFrame
<1>5. ASSUME NEW x, chain' = [chain EXCEPT ![c] = x]
      PROVE  /\ chain'[c] = x
             /\ \A d \in Clients \ {c} : chain'[d] = chain[d] /\ ~Active(d)'
             /\ x # "content" => \A d \in Clients : chain'[d] # "content"
  BY <1>3, <1>5, ChainStep DEF Active
<1>6. CASE StatxDone(c)
  <2>1. PICK x \in {"fetch", "dropped", "read_header", "read_early"} :
          /\ chain' = [chain EXCEPT ![c] = x]
          /\ x = "fetch" => ~file_exists
          /\ x \in {"read_header", "read_early"} => file_exists
    BY <1>6 DEF StatxDone
  <2>2. UNCHANGED <<muxVars, node, fileVars>> /\ type = "UNDEFINED"
    BY <1>3, <1>6 DEF StatxDone, ChainInv, Active
  <2>3. /\ chain'[c] = x
        /\ \A d \in Clients \ {c} : chain'[d] = chain[d] /\ ~Active(d)'
        /\ \A d \in Clients : chain'[d] # "content"
    BY <1>5, <2>1
  <2>4. ChainInv'
    BY <1>3, <2>1, <2>2, <2>3 DEF ChainInv, Active, muxVars, fileVars
  <2>5. BindingInv'
    BY <1>1, <1>4, <2>2, <2>3 DEF BindingInv, EndIsStored, muxVars, fileVars
  <2> QED
    BY <2>4, <2>5
<1>7. CASE Fetch(c)
  <2>1. PICK x \in {"header", "dropped"} : chain' = [chain EXCEPT ![c] = x]
    BY <1>7 DEF Fetch
  <2>2. UNCHANGED <<muxVars, node, fileVars>> /\ type = "UNDEFINED" /\ ~file_exists
    BY <1>3, <1>7 DEF Fetch, ChainInv, Active
  <2>3. /\ chain'[c] = x
        /\ \A d \in Clients \ {c} : chain'[d] = chain[d] /\ ~Active(d)'
        /\ \A d \in Clients : chain'[d] # "content"
    BY <1>5, <2>1
  <2>4. ChainInv'
    BY <1>3, <2>1, <2>2, <2>3 DEF ChainInv, Active, muxVars, fileVars
  <2>5. BindingInv'
    BY <1>1, <1>4, <2>2, <2>3 DEF BindingInv, EndIsStored, muxVars, fileVars
  <2> QED
    BY <2>4, <2>5
<1>8. CASE HeaderFileRead(c)
  <2>1. /\ chain' = [chain EXCEPT ![c] = "ended"]
        /\ UNCHANGED <<resource, node, fileVars>>
        /\ type' = "CACHE" /\ type = "UNDEFINED"
    BY <1>3, <1>8 DEF HeaderFileRead, SetCacheResource, ChainInv, Active
  <2>2. \A d \in Clients : ~Active(d)'
    BY <1>3, <2>1, LastFetch
  <2>3. \A d \in Clients : chain'[d] # "content"
    BY <2>2 DEF Active
  <2>4. ChainInv'
    BY <2>2 DEF ChainInv, Active
  <2>5. node.exists => failed
    BY <2>1 DEF BindingInv
  <2>6. BindingInv'
    BY <1>1, <1>3, <1>4, <2>1, <2>3, <2>5 DEF BindingInv, EndIsStored, fileVars
  <2> QED
    BY <2>4, <2>6
<1>9. CASE FetchFails(c)
  <2>1. /\ chain' = [chain EXCEPT ![c] = "ended"] /\ failed'
        /\ UNCHANGED <<node, fileVars>> /\ is_completed' = FALSE
    BY <1>3, <1>9
       DEF FetchFails, ReleaseErrorAllWaitingRequest, ReleaseResource
  <2>2. \A d \in Clients : ~Active(d)'
    BY <1>3, <2>1, LastFetch
  <2>3. ~EndIsStored
    BY <1>9, <1>3 DEF FetchFails, BindingInv, ChainInv, Active
  <2>4. ChainInv'
    BY <2>2 DEF ChainInv, Active
  <2>5. BindingInv'
    BY <2>1, <2>3 DEF BindingInv, EndIsStored, fileVars
  <2> QED
    BY <2>4, <2>5
<1>10. CASE HeaderEnds(c)
  <2>1. /\ chain' = [chain EXCEPT ![c] = "ended"]
        /\ UNCHANGED <<node, fileVars>> /\ is_completed' = FALSE
        /\ ~file_exists /\ ~node.exists
    BY <1>3, <1>10
       DEF HeaderEnds, CloseStream, ReleaseResource, ChainInv, BindingInv
  <2>2. \A d \in Clients : ~Active(d)'
    BY <1>3, <2>1, LastFetch
  <2>3. ChainInv'
    BY <2>2 DEF ChainInv, Active
  <2>4. BindingInv'
    BY <2>1 DEF BindingInv, EndIsStored, fileVars
  <2> QED
    BY <2>3, <2>4
<1>11. CASE HeaderRead(c)
  <2>1. /\ chain' = [chain EXCEPT ![c] = "content"]
        /\ resource' = resource /\ type' = "CACHE" /\ is_completed' = FALSE
        /\ header' = "whole" /\ file_exists' = TRUE
        /\ Generated = NewNode
    BY <1>3, <1>11
       DEF HeaderRead, GenerateNode, SetCacheResource, ChainInv, BindingInv,
           Generated
  <2>2. node' = NewNode \/ node' = Appended(NewNode)
    BY <1>3, <1>11, <2>1 DEF HeaderRead
  <2>3. node'.exists /\ node'.buffer[node'.pivot] # EndBuffer
    <3>1. NewNode \in Nodes /\ NodeInv(NewNode) /\ NewNode.exists
          /\ NewNode.buffer[NewNode.pivot] # EndBuffer
      BY NewNodeFields DEF NoData, EndBuffer
    <3>2. /\ Appended(NewNode).exists
          /\ Appended(NewNode).buffer[Appended(NewNode).pivot] # EndBuffer
      BY <3>1, AppendedSound
    <3> QED
      BY <2>2, <3>1, <3>2
  <2>4. /\ chain'[c] = "content"
        /\ \A d \in Clients \ {c} : chain'[d] = chain[d] /\ ~Active(d)'
    BY <1>5, <2>1
  <2>5. ChainInv'
    BY <1>3, <2>1, <2>3, <2>4 DEF ChainInv, Active
  <2>6. BindingInv'
    BY <1>3, <2>1, <2>3 DEF BindingInv, EndIsStored
  <2> QED
    BY <2>5, <2>6
<1>12. CASE HeaderReadNoFile(c)
  <2>1. CASE UNCHANGED chain
    BY <1>2, <1>12, <2>1 DEF HeaderReadNoFile
  <2>2. CASE chain' = [chain EXCEPT ![c] = "content"]
    <3>1. /\ UNCHANGED <<muxVars, node, fileVars>> /\ failed'
          /\ type = "UNDEFINED" /\ ~file_exists /\ ~node.exists
      BY <1>3, <1>12 DEF HeaderReadNoFile, ChainInv, BindingInv, Active
    <3>2. /\ chain'[c] = "content"
          /\ \A d \in Clients \ {c} : chain'[d] = chain[d] /\ ~Active(d)'
      BY <1>5, <2>2
    <3>3. ChainInv'
      BY <1>3, <3>1, <3>2 DEF ChainInv, Active, muxVars, fileVars
    <3>4. BindingInv'
      BY <3>1 DEF BindingInv, EndIsStored, muxVars, fileVars
    <3> QED
      BY <3>3, <3>4
  <2> QED
    BY <1>12, <2>1, <2>2 DEF HeaderReadNoFile
<1>13. CASE BlockRead(c)
  <2>1. CASE Crash("terminate")
    BY <1>2, <2>1, CrashFrame DEF muxVars, fileVars
  <2>2. CASE ~Crash("terminate")
    <3>1. /\ node.exists /\ node' = Appended(node)
          /\ UNCHANGED <<muxVars, fileVars, chain, failed>>
      BY <1>13, <2>2 DEF BlockRead
    <3>2. node'.exists /\ node'.buffer[node'.pivot] # EndBuffer
      BY <3>1, AppendedSound DEF TypeOK
    <3>3. ChainInv'
      BY <3>1, <3>2 DEF ChainInv, Active, muxVars, fileVars
    <3>4. BindingInv'
      BY <1>4, <3>1, <3>2 DEF BindingInv, EndIsStored, muxVars, fileVars
    <3> QED
      BY <3>3, <3>4
  <2> QED
    BY <2>1, <2>2
<1>14. CASE AnswerEnds(c)
  <2>1. CASE Crash("terminate")
    BY <1>2, <2>1, CrashFrame DEF muxVars, fileVars
  <2>2. CASE ~Crash("terminate")
    <3>1. /\ node.exists /\ node' = Closed(node)
          /\ UNCHANGED <<muxVars, fileVars, failed>>
          /\ chain' = [chain EXCEPT ![c] = "ended"]
          /\ type = "CACHE"
      BY <1>14, <2>2 DEF AnswerEnds, ChainInv
    <3>2. node'.exists = node.exists
      BY <3>1, ClosedSound DEF TypeOK
    <3>3. \A d \in Clients : ~Active(d)'
      BY <1>3, <3>1, LastFetch
    <3>4. ChainInv'
      BY <3>3 DEF ChainInv, Active
    <3>5. \A d \in Clients : chain'[d] # "content"
      BY <3>3 DEF Active
    <3>6. BindingInv'
      BY <1>3, <1>4, <3>1, <3>2, <3>5
         DEF BindingInv, EndIsStored, muxVars, fileVars
    <3> QED
      BY <3>4, <3>6
  <2> QED
    BY <2>1, <2>2
<1> QED
  BY <1>6, <1>7, <1>8, <1>9, <1>10, <1>11, <1>12, <1>13, <1>14 DEF FetchStep

(* The writer completes the Mux only when the end of the answer is stored. *)
LEMMA ChainOfWriter ==
  ASSUME TypeOK, ChainInv, BindingInv, NodeInv(node), WriterStep
  PROVE  ChainInv' /\ BindingInv'
<1>1. UNCHANGED <<resource, type, header, requests, file_exists, chain, got,
                  failed, restarts>>
  BY WriterFrame
<1>2. CASE /\ node'.exists = node.exists /\ node'.buffer = node.buffer
           /\ node'.pivot = node.pivot /\ is_completed' = is_completed
  BY <1>1, <1>2 DEF ChainInv, Active, BindingInv, EndIsStored
<1>3. CASE WriteHappens
  BY <1>2, <1>3, WrittenFields DEF WriteHappens, muxVars
<1>4. CASE HeaderFileWritten
  BY <1>2, <1>4 DEF HeaderFileWritten, muxVars
<1>5. CASE BlockWritten
  <2>1. node.exists
    BY <1>5 DEF BlockWritten, NodeInv
  <2>2. CASE NotifyCacheCompleted /\ EndIsStored /\ ~node'.exists
    BY <1>1, <2>2 DEF ChainInv, Active, BindingInv, EndIsStored
  <2>3. CASE Crash("terminate")
    BY <1>2, <2>3, CrashFrame
  <2> QED
    BY <1>2, <1>5, <2>1, <2>2, <2>3, BlockWrittenNode DEF muxVars
<1> QED
  BY <1>3, <1>4, <1>5 DEF WriterStep

LEMMA ChainOfRestart ==
  ASSUME TypeOK, Restart PROVE ChainInv' /\ BindingInv'
<1>1. /\ \A c \in Clients : chain'[c] = "none"
      /\ node' = NoNode /\ restarts' = restarts + 1 /\ restarts \in Nat
      /\ is_completed' = FALSE
  BY DEF Restart, ReleaseResource, TypeOK
<1>2. ~node'.exists /\ restarts' # 0
  BY <1>1, NewNodeFields
<1> QED
  BY <1>1, <1>2 DEF ChainInv, Active, BindingInv, EndIsStored

LEMMA ChainNext ==
  ASSUME TypeOK, MuxInv, ChainInv, BindingInv, NodeInv(node), Next
  PROVE  ChainInv' /\ BindingInv'
BY ChainOfClient, ChainOfFetch, ChainOfWriter, ChainOfRestart DEF Next

-----------------------------------------------------------------------------
(* The end of the answer in the file, and how the process may die. *)

(* When the writer comes to the end, the block it wrote last is the last   *)
(* of the answer, or lies some laps of the ring before it.                 *)
LEMMA LastBlock ==
  ASSUME TypeOK, NodeInv(node), FileInv, node.exists, node.cache.written,
         node.size > 0, node.cache.pivot = node.pivot
  PROVE  /\ file # <<>> /\ file[Len(file)] < node.head
         /\ (node.head - 1 - file[Len(file)]) % N = 0
<1>1. /\ node.head \in Nat /\ node.cache.block \in Int /\ N \in Nat /\ N >= 2
      /\ node.size \in Nat /\ file \in Seq(Int)
  BY CellFields DEF TypeOK
<1>2. Len(file) = node.size + 1 /\ file[Len(file)] = node.cache.block
  BY <1>1 DEF FileInv, WriteInv
<1>3. /\ (node.cache.block + 1) % N = node.head % N
      /\ node.cache.block + 1 <= node.head
  BY <1>1 DEF NodeInv, RingState, SlotOf
<1>4. (node.head - (node.cache.block + 1)) % N = 0
  BY <1>1, <1>3, SameSlot
<1>5. node.head - (node.cache.block + 1) = node.head - 1 - node.cache.block
  BY <1>1
<1>6. file # <<>>
  BY <1>1, <1>2
<1> QED
  BY <1>1, <1>2, <1>3, <1>4, <1>5, <1>6

LEMMA WholeNext ==
  ASSUME TypeOK, MuxInv, ChainInv, BindingInv, NodeInv(node), FileInv,
         CompletedIsWhole, Next
  PROVE  CompletedIsWhole'
<1> SUFFICES ASSUME is_completed', ~failed', restarts' = 0
             PROVE  /\ header' = "whole" /\ ~node'.exists /\ node'.cache.written
                    /\ file' # <<>>
                    /\ file'[Len(file')] < node'.head
                    /\ (node'.head - 1 - file'[Len(file')]) % CacheBufferSize = 0
  BY DEF CompletedIsWhole
<1>1. CASE UNCHANGED <<is_completed, header, node, file, restarts>> /\ ~failed
  BY <1>1 DEF CompletedIsWhole
<1>2. ASSUME NEW c \in Clients, ClientStep(c)
      PROVE  UNCHANGED <<is_completed, header, node, file, restarts>> /\ ~failed
  BY <1>2, ClientFrame DEF fileVars
<1>3. ASSUME NEW c \in Clients, FetchStep(c)
      PROVE  UNCHANGED <<is_completed, header, node, file, restarts>> /\ ~failed
  <2>1. UNCHANGED restarts /\ ~failed
    BY <1>3, FetchFrame
  <2>2. CASE StatxDone(c) \/ Fetch(c) \/ HeaderReadNoFile(c)
    BY <2>1, <2>2 DEF StatxDone, Fetch, HeaderReadNoFile, muxVars, fileVars
  <2>3. CASE HeaderFileRead(c)
    <3>1. file_exists /\ type = "UNDEFINED" /\ restarts = 0
      BY <2>1, <2>3 DEF HeaderFileRead, ChainInv, Active
    <3> QED
      BY <2>1, <3>1 DEF BindingInv
  <2>4. CASE FetchFails(c)
    BY <2>1, <2>4, CrashFrame
       DEF FetchFails, ReleaseErrorAllWaitingRequest, ReleaseResource
  <2>5. CASE HeaderEnds(c)
    BY <2>1, <2>5, CrashFrame DEF HeaderEnds, CloseStream, ReleaseResource
  <2>6. CASE HeaderRead(c)
    BY <2>1, <2>6, CrashFrame DEF HeaderRead, GenerateNode, SetCacheResource
  <2>7. CASE BlockRead(c) \/ AnswerEnds(c)
    <3>1. is_completed' = is_completed
      BY <2>7, CrashFrame DEF BlockRead, AnswerEnds, muxVars
    <3>2. ~node.exists
      BY <2>1, <3>1 DEF BindingInv
    <3> QED
      BY <2>1, <2>7, <3>2, CrashFrame DEF BlockRead, AnswerEnds
  <2> QED
    BY <1>3, <2>2, <2>3, <2>4, <2>5, <2>6, <2>7 DEF FetchStep
<1>4. CASE WriterStep
  <2>1. UNCHANGED <<header, failed, restarts>>
    BY <1>4, WriterFrame
  <2>2. CASE WriteHappens
    <3>1. is_completed /\ ~failed /\ restarts = 0 /\ ~node.cache.written
      BY <2>1, <2>2 DEF WriteHappens, muxVars
    <3> QED
      BY <3>1 DEF CompletedIsWhole
  <2>3. CASE HeaderFileWritten
    <3>1. is_completed' = is_completed /\ node' = node /\ file' = file
      BY <2>3 DEF HeaderFileWritten, muxVars
    <3> QED
      BY <1>1, <2>1, <3>1
  <2>4. CASE BlockWritten
    <3>1. node.exists /\ node.size > 0 /\ node.cache.written /\ ~is_completed
      BY <2>1, <2>4 DEF BlockWritten, NodeInv, BindingInv
    <3>2. ~Crash("terminate")
      BY <3>1, CrashFrame
    <3>3. /\ file' = file /\ ~node'.exists /\ node'.cache.written
          /\ node'.head = node.head /\ node.cache.pivot = node.pivot
      BY <2>4, <3>1, <3>2, BlockWrittenNode DEF muxVars, fileVars
    <3>4. header' = "whole"
      BY <2>1, <3>1 DEF BindingInv
    <3>5. /\ file # <<>> /\ file[Len(file)] < node.head
          /\ (node.head - 1 - file[Len(file)]) % N = 0
      BY <3>1, <3>3, LastBlock
    <3> QED
      BY <3>3, <3>4, <3>5 DEF N
  <2> QED
    BY <1>4, <2>2, <2>3, <2>4 DEF WriterStep
<1>5. CASE Restart
  BY <1>5 DEF Restart, ReleaseResource
<1> QED
  BY <1>1, <1>2, <1>3, <1>4, <1>5 DEF Next

(* A request that completes with an operation of a stream is registered:   *)
(* there is a Mux.                                                         *)
LEMMA ServedHasMux ==
  ASSUME TypeOK, MuxInv, NEW c \in Clients, req[c].state = "live",
         req[c].event_type # "SERVER_CLOSE"
  PROVE  c \in Registered /\ resource
<1>1. c \in Registered
  BY DEF MuxInv, RegisteredAreLive
<1> QED
  BY <1>1 DEF MuxInv, Registered

LEMMA FaultNext ==
  ASSUME TypeOK, MuxInv, \A c \in Clients : RequestInv(c), ChainInv,
         BindingInv, NodeInv(node), FaultNeedsFailure, Next
  PROVE  FaultNeedsFailure'
<1>1. CASE UNCHANGED fault /\ (failed => failed')
  BY <1>1 DEF FaultNeedsFailure
<1>2. CASE failed'
  BY <1>2 DEF FaultNeedsFailure
<1>3. ASSUME NEW c \in Clients, ClientStep(c) PROVE FaultNeedsFailure'
  <2>1. failed => failed'
    BY <1>3, ClientFrame
  <2>2. CASE HeaderWritten(c) \/ EndRead(c)
    <3>1. resource
      BY <2>2, ServedHasMux DEF HeaderWritten, EndRead, Completes
    <3> QED
      BY <1>1, <2>1, <2>2, <3>1 DEF HeaderWritten, EndRead
  <2>3. CASE FreedCompleted(c)
    <3>1. failed
      BY <2>3 DEF FreedCompleted, RequestInv
    <3> QED
      BY <1>2, <2>1, <3>1
  <2>4. CASE JoinResource(c) \/ OpenResource(c) \/ ReadHappens(c)
             \/ ContentRead(c) \/ ContentCopied(c) \/ HandleClose(c)
    BY <1>1, <2>1, <2>4
       DEF JoinResource, OpenResource, ReadHappens, ContentRead,
           ContentCopied, HandleClose
  <2> QED
    BY <1>3, <2>2, <2>3, <2>4 DEF ClientStep
<1>4. ASSUME NEW c \in Clients, FetchStep(c) PROVE FaultNeedsFailure'
  <2>1. failed => failed'
    BY <1>4, FetchFrame
  <2>2. resource
    BY <1>4
       DEF FetchStep, StatxDone, HeaderFileRead, Fetch, FetchFails,
           HeaderEnds, HeaderRead, HeaderReadNoFile, BlockRead, AnswerEnds,
           Active, ChainInv
  <2>3. CASE HeaderReadNoFile(c)
    BY <1>2, <2>3 DEF HeaderReadNoFile
  <2>4. CASE BlockRead(c) \/ AnswerEnds(c)
    <3>1. CASE node.exists
      BY <1>1, <2>1, <2>2, <2>4, <3>1 DEF BlockRead, AnswerEnds
    <3>2. CASE ~node.exists
      <4>1. failed
        BY <2>4, <3>2 DEF BlockRead, AnswerEnds, ChainInv
      <4> QED
        BY <1>2, <2>1, <4>1
    <3> QED
      BY <3>1, <3>2
  <2>5. CASE StatxDone(c) \/ HeaderFileRead(c) \/ Fetch(c) \/ FetchFails(c)
             \/ HeaderEnds(c) \/ HeaderRead(c)
    BY <1>1, <2>1, <2>2, <2>5
       DEF StatxDone, HeaderFileRead, Fetch, FetchFails, HeaderEnds,
           HeaderRead
  <2> QED
    BY <1>4, <2>3, <2>4, <2>5 DEF FetchStep
<1>5. CASE WriterStep
  <2>1. failed' = failed
    BY <1>5, WriterFrame
  <2>2. CASE WriteHappens \/ HeaderFileWritten
    BY <1>1, <2>1, <2>2 DEF WriteHappens, HeaderFileWritten
  <2>3. CASE BlockWritten
    <3>1. CASE Crash("terminate") /\ ~resource /\ node.exists
      BY <1>2, <2>1, <3>1 DEF BindingInv
    <3>2. CASE NotifyCacheCompleted /\ EndIsStored
      <4>1. resource /\ type = "CACHE"
        BY <3>2 DEF BindingInv
      <4>2. CASE UNCHANGED fault
        BY <1>1, <2>1, <4>2
      <4>3. CASE ~UNCHANGED fault
        <5>1. PICK c \in Registered :
                ~req[c].is_processing /\ req[c].auxiliar = "none"
          BY <3>2, <4>1, <4>3 DEF NotifyCacheCompleted
        <5>2. c \in Clients
          BY <5>1 DEF Registered, TypeOK
        <5>3. failed
          BY <4>1, <5>1, <5>2 DEF RequestInv
        <5> QED
          BY <1>2, <2>1, <5>3
      <4> QED
        BY <4>2, <4>3
    <3>3. CASE UNCHANGED fault
      BY <1>1, <2>1, <3>3
    <3> QED
      BY <2>3, <3>1, <3>2, <3>3, BlockWrittenNode
  <2> QED
    BY <1>5, <2>2, <2>3 DEF WriterStep
<1>6. CASE Restart
  BY <1>6 DEF Restart, FaultNeedsFailure
<1> QED
  BY <1>3, <1>4, <1>5, <1>6 DEF Next

-----------------------------------------------------------------------------
(* The Mux and the Requests of its clients. *)

(* A step that touches the Request of c only leaves the others sound. *)
LEMMA OthersRequest ==
  ASSUME TypeOK, NEW c \in Clients, NEW x \in Readers,
         req' = [req EXCEPT ![c] = x],
         UNCHANGED <<type, is_completed>>, failed => failed',
         \A d \in Clients \ {c} : chain'[d] = chain[d],
         \A d \in Clients \ {c} : d \in Registered' <=> d \in Registered,
         \A d \in Clients : RequestInv(d)
  PROVE  /\ req'[c] = x
         /\ \A d \in Clients \ {c} : req'[d] = req[d] /\ RequestInv(d)'
<1>1. /\ req'[c] = x
      /\ \A d \in Clients \ {c} : req'[d] = req[d]
  BY DEF TypeOK
<1>2. ASSUME NEW d \in Clients \ {c}
      PROVE  RequestInv(d)'
  <2>1. /\ req'[d] = req[d] /\ chain'[d] = chain[d]
        /\ d \in Registered' <=> d \in Registered
        /\ RequestInv(d)
    BY <1>1
  <2> QED
    BY <2>1 DEF RequestInv
<1> QED
  BY <1>1, <1>2

(* A step of a client that is being served: it has an operation in flight, *)
(* so the Mux has a type.                                                  *)
LEMMA ServedGoesOn ==
  ASSUME TypeOK, MuxInv, \A d \in Clients : RequestInv(d),
         NEW c \in Clients, req[c].state = "live",
         req[c].event_type # "SERVER_CLOSE", req[c].flight > 0,
         NEW x \in Readers, req' = [req EXCEPT ![c] = x],
         UNCHANGED <<resource, type, is_completed, requests, chain>>,
         failed => failed',
         x.state = "live",
         x.event_type \in {"WRITE_HEADER", "READ_CONTENT", "COPY_CONTENT"},
         x.flight = IF x.is_processing THEN 1 ELSE 0,
         x.event_type = "WRITE_HEADER" => x.auxiliar = "none",
         x.event_type # "WRITE_HEADER" => x.auxiliar = "open" \/ failed',
         x.is_processing \/ x.auxiliar = "open" \/ failed',
         is_completed /\ x.auxiliar = "open" => x.is_processing
  PROVE  MuxInv' /\ \A d \in Clients : RequestInv(d)'
<1>1. c \in Registered
  BY ServedHasMux
<1>2. Registered' = Registered
  BY DEF Registered
<1>3. /\ req'[c] = x
      /\ \A d \in Clients \ {c} : req'[d] = req[d] /\ RequestInv(d)'
  BY <1>2, OthersRequest
<1>4. type # "UNDEFINED"
  <2>1. req[c] # StreamRequest
    BY NewFields
  <2> QED
    BY <1>1, <2>1 DEF MuxInv
<1>5. RequestInv(c)'
  BY <1>3 DEF RequestInv
<1>6. RegisteredAreLive'
  <2>1. \A d \in Clients : d \in Registered' <=>
          req'[d].state = "live" /\ req'[d].event_type # "SERVER_CLOSE"
    BY <1>1, <1>2, <1>3 DEF MuxInv, RegisteredAreLive
  <2> QED
    BY <2>1 DEF MuxInv, RegisteredAreLive
<1>7. MuxInv'
  BY <1>4, <1>6 DEF MuxInv, SomebodyAnswers
<1> QED
  BY <1>3, <1>5, <1>7

(* A registered Request with an operation in flight has one. *)
LEMMA ServedRequest ==
  ASSUME TypeOK, MuxInv, NEW c \in Clients, RequestInv(c),
         req[c].state = "live", req[c].event_type # "SERVER_CLOSE",
         req[c].flight > 0
  PROVE  /\ c \in Registered /\ resource /\ req[c] \in Readers
         /\ req[c].is_processing /\ req[c].flight = 1
         /\ req[c].event_type = "WRITE_HEADER" => req[c].auxiliar = "none"
         /\ req[c].event_type \in {"READ_CONTENT", "COPY_CONTENT"} =>
              req[c].auxiliar = "open" \/ failed
         /\ LET r == Completed(req[c])
            IN  /\ r \in Readers /\ r.state = "live" /\ r.flight = 0
                /\ r.event_type = req[c].event_type
                /\ ~r.is_processing /\ r.auxiliar = req[c].auxiliar
<1>1. c \in Registered /\ resource /\ req[c] \in Readers
  BY ServedHasMux DEF TypeOK
<1>2. /\ req[c].flight = IF req[c].is_processing THEN 1 ELSE 0
      /\ req[c].event_type = "WRITE_HEADER" => req[c].auxiliar = "none"
      /\ req[c].event_type \in {"READ_CONTENT", "COPY_CONTENT"} =>
              req[c].auxiliar = "open" \/ failed
  BY <1>1 DEF RequestInv
<1>3. req[c].is_processing /\ req[c].flight = 1
  BY <1>2
<1> QED
  BY <1>1, <1>2, <1>3, CompletedFields

LEMMA MuxOfHeaderWritten ==
  ASSUME TypeOK, MuxInv, \A d \in Clients : RequestInv(d),
         NEW c \in Clients, HeaderWritten(c)
  PROVE  MuxInv' /\ \A d \in Clients : RequestInv(d)'
<1>1. /\ req[c].state = "live" /\ req[c].event_type = "WRITE_HEADER"
      /\ req[c].flight > 0
  BY DEF HeaderWritten, Completes
<1> DEFINE q == Completed(req[c])
           r == [q EXCEPT !.pivot = req[requests[1]].pivot]
           s == [ReadRequest(r, 0) EXCEPT !.auxiliar = "open"]
<1>2. /\ c \in Registered /\ resource
      /\ q \in Readers /\ q.state = "live" /\ q.flight = 0
      /\ q.event_type = "WRITE_HEADER"
      /\ ~q.is_processing /\ q.auxiliar = "none"
  BY <1>1, ServedRequest
<1>3. \/ req' = [req EXCEPT ![c] = s] /\ UNCHANGED failed
      \/ req' = [req EXCEPT ![c] = r] /\ failed' = TRUE
  BY <1>2 DEF HeaderWritten
<1>4. UNCHANGED <<resource, type, is_completed, requests, chain>>
  BY <1>2 DEF HeaderWritten, muxVars
<1>5. req[requests[1]].pivot \in Nat
  <2>1. requests[1] \in Clients
    BY <1>2 DEF Registered, TypeOK
  <2> QED
    BY <2>1 DEF Readers, TypeOK
<1> HIDE DEF q
<1>6. /\ r \in Readers /\ r.state = "live" /\ r.flight = 0
      /\ r.event_type = "WRITE_HEADER"
      /\ ~r.is_processing /\ r.auxiliar = "none"
  <2>1. r \in Readers
    BY <1>2, <1>5, ReaderUpdate
  <2> QED
    BY <1>2, <2>1 DEF Readers
<1> HIDE DEF r
<1>7. /\ s \in Readers /\ s.state = "live" /\ s.flight = 1
      /\ s.event_type = "READ_CONTENT"
      /\ s.is_processing /\ s.auxiliar = "open"
  <2> DEFINE t == ReadRequest(r, 0)
  <2>1. /\ t \in Readers /\ t.state = "live" /\ t.flight = 1
        /\ t.event_type = "READ_CONTENT" /\ t.is_processing
    BY <1>6, ReadFields
  <2> HIDE DEF t
  <2>2. [t EXCEPT !.auxiliar = "open"] \in Readers
    BY <2>1, ReaderUpdate
  <2>3. /\ [t EXCEPT !.auxiliar = "open"].state = "live"
        /\ [t EXCEPT !.auxiliar = "open"].flight = 1
        /\ [t EXCEPT !.auxiliar = "open"].event_type = "READ_CONTENT"
        /\ [t EXCEPT !.auxiliar = "open"].is_processing
        /\ [t EXCEPT !.auxiliar = "open"].auxiliar = "open"
    BY <2>1 DEF Readers
  <2> QED
    BY <2>2, <2>3 DEF t
<1> HIDE DEF s
<1>8. CASE req' = [req EXCEPT ![c] = s] /\ UNCHANGED failed
  BY <1>1, <1>4, <1>7, <1>8, ServedGoesOn
<1>9. CASE req' = [req EXCEPT ![c] = r] /\ failed' = TRUE
  BY <1>1, <1>4, <1>6, <1>9, ServedGoesOn
<1> QED
  BY <1>3, <1>8, <1>9

LEMMA MuxOfRead ==
  ASSUME TypeOK, MuxInv, \A d \in Clients : RequestInv(d),
         NEW c \in Clients, ReadHappens(c) \/ ContentRead(c) \/ ContentCopied(c)
  PROVE  MuxInv' /\ \A d \in Clients : RequestInv(d)'
<1>1. /\ req[c].state = "live" /\ req[c].flight > 0
      /\ req[c].event_type \in {"READ_CONTENT", "COPY_CONTENT"}
  BY DEF ReadHappens, ContentRead, ContentCopied, Completes
<1>2. /\ req[c] \in Readers /\ req[c].is_processing /\ req[c].flight = 1
      /\ req[c].auxiliar = "open" \/ failed
  BY <1>1, ServedRequest
<1>3. /\ Completed(req[c]) \in Readers /\ Completed(req[c]).state = "live"
      /\ Completed(req[c]).flight = 0
      /\ Completed(req[c]).auxiliar = req[c].auxiliar
  BY <1>1, ServedRequest
<1>4. /\ UNCHANGED <<resource, type, is_completed, requests, chain>>
      /\ UNCHANGED failed
  BY DEF ReadHappens, ContentRead, ContentCopied, muxVars
<1>5. \E x \in Readers :
        /\ req' = [req EXCEPT ![c] = x]
        /\ x.state = "live" /\ x.flight = 1 /\ x.is_processing
        /\ x.event_type \in {"READ_CONTENT", "COPY_CONTENT"}
        /\ x.auxiliar = req[c].auxiliar
  <2>1. CASE ReadHappens(c)
    <3>1. PICK v \in {0, 1} : req' = [req EXCEPT ![c] = [req[c] EXCEPT !.readed = v]]
      BY <2>1 DEF ReadHappens
    <3> DEFINE x == [req[c] EXCEPT !.readed = v]
    <3>2. x \in Readers
      BY <1>2, ReaderUpdate
    <3>3. /\ x.state = "live" /\ x.flight = 1 /\ x.is_processing
          /\ x.event_type \in {"READ_CONTENT", "COPY_CONTENT"}
          /\ x.auxiliar = req[c].auxiliar
      BY <1>1, <1>2 DEF Readers
    <3> HIDE DEF x
    <3> QED
      BY <3>1, <3>2, <3>3 DEF x
  <2>2. CASE ContentRead(c)
    <3> DEFINE r == Submitted(Completed(req[c]), "COPY_CONTENT")
               x == [r EXCEPT !.pivot = r.pivot + 1]
    <3>1. req' = [req EXCEPT ![c] = x]
      BY <2>2 DEF ContentRead
    <3>2. /\ r \in Readers /\ r.state = "live" /\ r.flight = 1
          /\ r.is_processing /\ r.event_type = "COPY_CONTENT"
          /\ r.auxiliar = req[c].auxiliar
      BY <1>3, SubmittedFields DEF EventTypes
    <3> HIDE DEF r
    <3>3. x \in Readers
      <4>1. r.pivot + 1 \in Nat
        BY <3>2 DEF Readers
      <4> QED
        BY <3>2, <4>1, ReaderUpdate
    <3>4. /\ x.state = "live" /\ x.flight = 1 /\ x.is_processing
          /\ x.event_type = "COPY_CONTENT" /\ x.auxiliar = req[c].auxiliar
      BY <3>2 DEF Readers
    <3> HIDE DEF x
    <3> QED
      BY <3>1, <3>3, <3>4
  <2>3. CASE ContentCopied(c)
    <3> DEFINE q == Completed(req[c])
               o == req[c].pivot
               x == ReadRequest(q, o)
    <3>1. req' = [req EXCEPT ![c] = x]
      BY <2>3 DEF ContentCopied
    <3>2. /\ o \in Nat /\ q \in Readers /\ q.state = "live" /\ q.flight = 0
          /\ q.auxiliar = req[c].auxiliar
      BY <1>2, <1>3 DEF Readers
    <3> HIDE DEF q, o
    <3>3. /\ x \in Readers /\ x.state = "live" /\ x.flight = 1
          /\ x.is_processing /\ x.event_type = "READ_CONTENT"
          /\ x.auxiliar = req[c].auxiliar
      <4>1. q \in Readers /\ o \in Nat
        BY <3>2
      <4>2. /\ x \in Readers /\ x.state = q.state
            /\ x.event_type = "READ_CONTENT" /\ x.is_processing
            /\ x.flight = q.flight + 1 /\ x.auxiliar = q.auxiliar
        BY <4>1, ReadFields
      <4> QED
        BY <3>2, <4>2
    <3> HIDE DEF x
    <3> QED
      BY <3>1, <3>3
  <2> QED
    BY <2>1, <2>2, <2>3
<1> QED
  BY <1>1, <1>2, <1>4, <1>5, ServedGoesOn

(* The end of the file: the client waits, or is closed and leaves.         *)
LEMMA MuxOfEndRead ==
  ASSUME TypeOK, MuxInv, \A d \in Clients : RequestInv(d),
         NEW c \in Clients, EndRead(c)
  PROVE  MuxInv' /\ \A d \in Clients : RequestInv(d)'
<1>1. /\ req[c].state = "live" /\ req[c].event_type = "READ_CONTENT"
      /\ req[c].flight > 0
  BY DEF EndRead, Completes
<1> DEFINE q == Completed(req[c])
<1>2. /\ c \in Registered /\ resource
      /\ q \in Readers /\ q.state = "live" /\ q.flight = 0
      /\ q.event_type = "READ_CONTENT" /\ ~q.is_processing
      /\ q.auxiliar = req[c].auxiliar
      /\ q.auxiliar = "open" \/ failed
  BY <1>1, ServedRequest
<1>3. UNCHANGED <<resource, type, is_completed, chain, failed>>
  BY <1>2 DEF EndRead
<1>4. CASE ~is_completed
  <2>1. req' = [req EXCEPT ![c] = q] /\ UNCHANGED requests
    BY <1>2, <1>4 DEF EndRead
  <2> HIDE DEF q
  <2> QED
    BY <1>1, <1>2, <1>3, <1>4, <2>1, ServedGoesOn
<1>5. CASE is_completed
  <2> DEFINE r == [q EXCEPT !.auxiliar = "closed"]
             s == CloseRequest(r)
  <2>1. req' = [req EXCEPT ![c] = s] /\ requests' = Without(c)
    BY <1>2, <1>5 DEF EndRead
  <2> HIDE DEF q
  <2>2. /\ r \in Readers /\ r.state = "live" /\ r.flight = 0
        /\ r.auxiliar = "closed"
    <3>1. r \in Readers
      BY <1>2, ReaderUpdate
    <3> QED
      BY <1>2, <3>1 DEF Readers
  <2> HIDE DEF r
  <2>3. /\ s \in Readers /\ s.state = "live" /\ s.flight = 1
        /\ s.event_type = "SERVER_CLOSE" /\ s.auxiliar = "closed"
    BY <2>2, EndFields
  <2> HIDE DEF s
  <2>4. /\ Registered' = Registered \ {c}
        /\ \A i, j \in DOMAIN requests' : requests'[i] = requests'[j] => i = j
    BY <1>2, <2>1, LeaveRegistered DEF TypeOK, MuxInv, RegisteredAreLive
  <2>5. /\ req'[c] = s
        /\ \A d \in Clients \ {c} : req'[d] = req[d] /\ RequestInv(d)'
    BY <1>3, <2>1, <2>3, <2>4, OthersRequest
  <2>6. RequestInv(c)'
    BY <2>3, <2>4, <2>5 DEF RequestInv
  <2>7. type # "UNDEFINED"
    BY <1>5 DEF MuxInv
  <2>8. RegisteredAreLive'
    <3>1. \A d \in Clients : d \in Registered' <=>
            req'[d].state = "live" /\ req'[d].event_type # "SERVER_CLOSE"
      BY <2>3, <2>4, <2>5 DEF MuxInv, RegisteredAreLive
    <3> QED
      BY <2>4, <3>1 DEF RegisteredAreLive
  <2>9. MuxInv'
    BY <1>2, <1>3, <2>7, <2>8 DEF MuxInv, SomebodyAnswers
  <2> QED
    BY <2>5, <2>6, <2>9
<1> QED
  BY <1>4, <1>5

LEMMA MuxOfHandleClose ==
  ASSUME TypeOK, MuxInv, \A d \in Clients : RequestInv(d),
         NEW c \in Clients, HandleClose(c)
  PROVE  MuxInv' /\ \A d \in Clients : RequestInv(d)'
<1> DEFINE q == Completed(req[c])
           r == Released(q)
<1>1. /\ req[c].state = "live" /\ req[c].event_type = "SERVER_CLOSE"
      /\ req[c].flight > 0 /\ req[c] \in Readers
  BY DEF HandleClose, Completes, TypeOK
<1>2. req[c].flight = 1 /\ req[c].auxiliar # "open" /\ c \notin Registered
  BY <1>1 DEF RequestInv, MuxInv, RegisteredAreLive
<1>3. /\ req' = [req EXCEPT ![c] = r]
      /\ UNCHANGED <<resource, type, is_completed, requests, chain, failed>>
  BY DEF HandleClose, muxVars
<1>4. /\ r \in Readers /\ r.state = "freed" /\ r.flight = 0
      /\ r.auxiliar # "open"
  <2>1. q \in Readers /\ q.flight = 0 /\ q.auxiliar # "open"
    BY <1>1, <1>2, CompletedFields
  <2> HIDE DEF q
  <2> QED
    BY <2>1, EndFields
<1> HIDE DEF r
<1>5. Registered' = Registered
  BY <1>3 DEF Registered
<1>6. /\ req'[c] = r
      /\ \A d \in Clients \ {c} : req'[d] = req[d] /\ RequestInv(d)'
  BY <1>3, <1>4, <1>5, OthersRequest
<1>7. RequestInv(c)'
  BY <1>2, <1>4, <1>5, <1>6 DEF RequestInv
<1>8. RegisteredAreLive'
  <2>1. \A d \in Clients : d \in Registered' <=>
          req'[d].state = "live" /\ req'[d].event_type # "SERVER_CLOSE"
    BY <1>2, <1>4, <1>5, <1>6 DEF MuxInv, RegisteredAreLive
  <2> QED
    BY <1>3, <2>1 DEF MuxInv, RegisteredAreLive
<1>9. MuxInv'
  <2>1. \A d \in Registered : d \in Clients \ {c}
    BY <1>2 DEF Registered, TypeOK
  <2> QED
    BY <1>3, <1>5, <1>6, <1>8, <2>1 DEF MuxInv, SomebodyAnswers
<1> QED
  BY <1>6, <1>7, <1>9

(* A client that comes: nobody has seen its Request before. *)
LEMMA MuxOfArrival ==
  ASSUME TypeOK, MuxInv, \A d \in Clients : RequestInv(d),
         NEW c \in Clients, JoinResource(c) \/ OpenResource(c)
  PROVE  MuxInv' /\ \A d \in Clients : RequestInv(d)'
<1>1. req[c].state = "none" /\ c \notin Registered
  BY DEF JoinResource, OpenResource, MuxInv, RegisteredAreLive
<1>2. UNCHANGED <<type, is_completed, failed>>
  BY DEF JoinResource, OpenResource
<1>3. CASE JoinResource(c)
  <2> DEFINE w == Submitted(StreamRequest, "WRITE_HEADER")
             x == IF type = "UNDEFINED" THEN StreamRequest ELSE w
  <2>1. /\ req' = [req EXCEPT ![c] = x] /\ requests' = Append(requests, c)
        /\ resource /\ UNCHANGED <<resource, chain>>
    BY <1>3 DEF JoinResource
  <2>2. /\ w \in Readers /\ w.state = "live" /\ w.flight = 1
        /\ w.event_type = "WRITE_HEADER" /\ w.is_processing
        /\ w.auxiliar = "none"
    BY NewFields, SubmittedFields DEF EventTypes
  <2> HIDE DEF w
  <2>3. /\ x \in Readers /\ x.state = "live"
        /\ x.flight = IF x.is_processing THEN 1 ELSE 0
        /\ x.event_type \in {"none", "WRITE_HEADER"}
        /\ x.is_processing \/ type = "UNDEFINED"
        /\ x.auxiliar = "none"
        /\ type = "UNDEFINED" => x = StreamRequest
    BY <2>2, NewFields
  <2> HIDE DEF x
  <2>4. /\ requests' \in Seq(Clients)
        /\ Registered' = Registered \cup {c}
        /\ \A i \in DOMAIN requests : i \in DOMAIN requests' /\ requests'[i] = requests[i]
        /\ \A i \in DOMAIN requests' : i \in DOMAIN requests \/ requests'[i] = c
    BY <2>1, JoinRegistered DEF TypeOK
  <2>5. /\ req'[c] = x
        /\ \A d \in Clients \ {c} : req'[d] = req[d] /\ RequestInv(d)'
    BY <1>2, <2>1, <2>3, <2>4, OthersRequest
  <2>6. RequestInv(c)'
    BY <1>2, <2>3, <2>4, <2>5 DEF RequestInv
  <2>7. RegisteredAreLive'
    <3>1. \A d \in Clients : d \in Registered' <=>
            req'[d].state = "live" /\ req'[d].event_type # "SERVER_CLOSE"
      BY <2>3, <2>4, <2>5 DEF MuxInv, RegisteredAreLive
    <3>2. ASSUME NEW i \in DOMAIN requests', NEW j \in DOMAIN requests',
                 requests'[i] = requests'[j]
          PROVE  i = j
      <4>1. Len(requests) \in Nat /\ DOMAIN requests = 1 .. Len(requests)
        BY LenProperties DEF TypeOK
      <4>2. DOMAIN requests' = 1 .. Len(requests) + 1 /\ requests'[Len(requests) + 1] = c
        <5>1. Append(requests, c) \in Seq(Clients)
              /\ Len(Append(requests, c)) = Len(requests) + 1
              /\ Append(requests, c)[Len(requests) + 1] = c
          BY AppendProperties DEF TypeOK
        <5> QED
          BY <2>1, <5>1, LenProperties
      <4>3. \A k \in DOMAIN requests : requests[k] # c
        BY <1>1 DEF Registered
      <4>4. CASE i \in DOMAIN requests /\ j \in DOMAIN requests
        BY <2>4, <3>2, <4>4 DEF MuxInv, RegisteredAreLive
      <4>5. CASE i \notin DOMAIN requests
        <5>1. i = Len(requests) + 1 /\ requests'[j] = c
          BY <3>2, <4>1, <4>2, <4>5
        <5>2. j \notin DOMAIN requests
          BY <2>4, <4>3, <5>1
        <5> QED
          BY <4>1, <4>2, <5>1, <5>2
      <4>6. CASE j \notin DOMAIN requests
        <5>1. j = Len(requests) + 1 /\ requests'[i] = c
          BY <3>2, <4>1, <4>2, <4>6
        <5>2. i \notin DOMAIN requests
          BY <2>4, <4>3, <5>1
        <5> QED
          BY <4>1, <4>2, <5>1, <5>2
      <4> QED
        BY <4>4, <4>5, <4>6
    <3> QED
      BY <3>1, <3>2 DEF RegisteredAreLive
  <2>8. MuxInv'
    <3>1. \A d \in Registered : d \in Clients \ {c}
      BY <1>1 DEF Registered, TypeOK
    <3>2. requests' # <<>>
      BY <2>1, AppendProperties DEF TypeOK
    <3>3. SomebodyAnswers'
      BY <1>2, <2>1, <3>2 DEF MuxInv, SomebodyAnswers
    <3>4. type' = "UNDEFINED" =>
            ~is_completed' /\ \A d \in Registered' : req'[d] = StreamRequest
      BY <1>2, <2>3, <2>4, <2>5, <3>1 DEF MuxInv
    <3> QED
      BY <2>1, <2>7, <3>3, <3>4 DEF MuxInv
  <2> QED
    BY <2>5, <2>6, <2>8
<1>4. CASE OpenResource(c)
  <2>1. /\ req' = [req EXCEPT ![c] = StreamRequest] /\ requests' = <<c>>
        /\ ~resource /\ resource' /\ chain' = [chain EXCEPT ![c] = "statx"]
    BY <1>4 DEF OpenResource
  <2>2. requests = <<>> /\ type = "UNDEFINED" /\ ~is_completed
    BY <2>1 DEF MuxInv
  <2>3. Registered = {} /\ Registered' = {c}
    BY <2>1, <2>2 DEF Registered
  <2>4. chain'[c] = "statx" /\ \A d \in Clients \ {c} : chain'[d] = chain[d]
    BY <2>1, ChainStep
  <2>5. /\ req'[c] = StreamRequest
        /\ \A d \in Clients \ {c} : req'[d] = req[d] /\ RequestInv(d)'
    <3>1. \A d \in Clients \ {c} : d \in Registered' <=> d \in Registered
      BY <2>3
    <3> QED
      BY <1>2, <2>1, <2>4, <3>1, NewFields, OthersRequest
  <2>6. RequestInv(c)'
    BY <1>2, <2>2, <2>3, <2>5, NewFields DEF RequestInv
  <2>7. RegisteredAreLive'
    <3>1. \A d \in Clients : d \in Registered' <=>
            req'[d].state = "live" /\ req'[d].event_type # "SERVER_CLOSE"
      BY <2>3, <2>5, NewFields DEF MuxInv, RegisteredAreLive
    <3>2. \A i, j \in DOMAIN requests' : i = j
      BY <2>1
    <3> QED
      BY <3>1, <3>2 DEF RegisteredAreLive
  <2>8. SomebodyAnswers'
    BY <2>1, <2>4 DEF SomebodyAnswers
  <2>9. MuxInv'
    BY <1>2, <2>1, <2>2, <2>3, <2>5, <2>7, <2>8 DEF MuxInv
  <2> QED
    BY <2>5, <2>6, <2>9
<1> QED
  BY <1>3, <1>4

(* A step that leaves the Mux, the Requests and the fetches alone. *)
LEMMA MuxUnchanged ==
  ASSUME MuxInv, \A d \in Clients : RequestInv(d),
         UNCHANGED <<muxVars, req, chain>>, failed => failed'
  PROVE  MuxInv' /\ \A d \in Clients : RequestInv(d)'
<1>1. /\ UNCHANGED <<resource, type, is_completed, requests, req, chain>>
      /\ Registered' = Registered
  BY DEF muxVars, Registered
<1>2. MuxInv'
  BY <1>1 DEF MuxInv, SomebodyAnswers, RegisteredAreLive
<1>3. ASSUME NEW d \in Clients PROVE RequestInv(d)'
  BY <1>1 DEF RequestInv
<1> QED
  BY <1>2, <1>3

LEMMA MuxOfClient ==
  ASSUME TypeOK, MuxInv, \A d \in Clients : RequestInv(d),
         NEW c \in Clients, ClientStep(c)
  PROVE  MuxInv' /\ \A d \in Clients : RequestInv(d)'
<1>1. CASE FreedCompleted(c)
  BY <1>1, CrashFrame, MuxUnchanged DEF FreedCompleted, muxVars
<1> QED
  BY <1>1, MuxOfArrival, MuxOfHeaderWritten, MuxOfRead, MuxOfEndRead,
     MuxOfHandleClose DEF ClientStep

(* A step of a fetch that leaves the Mux alone: somebody still answers.    *)
LEMMA MuxOfFetchStep ==
  ASSUME TypeOK, MuxInv, \A d \in Clients : RequestInv(d),
         NEW c \in Clients, chain[c] # "none", NEW x,
         chain' = [chain EXCEPT ![c] = x],
         UNCHANGED <<muxVars, req>>, failed => failed',
         type = "UNDEFINED" => x \notin {"none", "ended"}
  PROVE  MuxInv' /\ \A d \in Clients : RequestInv(d)'
<1>1. /\ UNCHANGED <<resource, type, is_completed, requests, req>>
      /\ Registered' = Registered
      /\ chain'[c] = x /\ \A d \in Clients \ {c} : chain'[d] = chain[d]
  <2>1. /\ UNCHANGED <<resource, type, is_completed, requests, req>>
        /\ Registered' = Registered
    BY DEF muxVars, Registered
  <2>2. chain'[c] = x /\ \A d \in Clients \ {c} : chain'[d] = chain[d]
    BY ChainStep
  <2> QED
    BY <2>1, <2>2
<1>2. MuxInv'
  <2>1. SomebodyAnswers'
    BY <1>1 DEF MuxInv, SomebodyAnswers
  <2> QED
    BY <1>1, <2>1 DEF MuxInv, RegisteredAreLive
<1>3. ASSUME NEW d \in Clients PROVE RequestInv(d)'
  <2>1. d # c => chain'[d] = chain[d]
    BY <1>1
  <2>2. d = c => req[d].state # "none"
    BY DEF RequestInv
  <2>3. RequestInv(d)
    OBVIOUS
  <2> QED
    BY <1>1, <2>1, <2>2, <2>3 DEF RequestInv
<1> QED
  BY <1>2, <1>3

(* The Mux gets its header: whoever has joined is sent it. *)
LEMMA MuxOfHeader ==
  ASSUME TypeOK, MuxInv, \A d \in Clients : RequestInv(d),
         type = "UNDEFINED", resource, NEW c \in Clients, chain[c] # "none",
         NEW x, chain' = [chain EXCEPT ![c] = x], failed => failed',
         NEW text, NEW completed, SetCacheResource(text, completed)
  PROVE  MuxInv' /\ \A d \in Clients : RequestInv(d)'
<1> DEFINE w == Submitted(StreamRequest, "WRITE_HEADER")
<1>1. /\ type' = "CACHE" /\ UNCHANGED <<resource, requests>>
      /\ Registered' = Registered
  BY DEF SetCacheResource, Registered
<1>2. /\ chain'[c] = x /\ \A d \in Clients \ {c} : chain'[d] = chain[d]
      /\ req[c].state # "none"
  BY ChainStep DEF RequestInv
<1>3. \A d \in Clients : req'[d] = IF d \in Registered THEN w ELSE req[d]
  <2>1. ASSUME NEW d \in Clients, d \in Registered
        PROVE  req[d] = StreamRequest /\ ~req[d].is_processing
    BY <2>1, NewFields DEF MuxInv
  <2> QED
    BY <2>1 DEF SetCacheResource
<1>4. /\ w \in Readers /\ w.state = "live" /\ w.flight = 1
      /\ w.event_type = "WRITE_HEADER" /\ w.is_processing
      /\ w.auxiliar = "none"
  BY NewFields, SubmittedFields DEF EventTypes
<1> HIDE DEF w
<1>5. ASSUME NEW d \in Clients PROVE RequestInv(d)'
  <2>1. CASE d \in Registered
    BY <1>1, <1>3, <1>4, <2>1 DEF RequestInv
  <2>2. CASE d \notin Registered
    <3>1. /\ req'[d] = req[d] /\ d \notin Registered'
          /\ req[d].state = "none" => chain'[d] = chain[d]
          /\ RequestInv(d)
      BY <1>1, <1>2, <1>3, <2>2
    <3> QED
      BY <3>1 DEF RequestInv
  <2> QED
    BY <2>1, <2>2
<1>6. RegisteredAreLive'
  <2>1. \A d \in Clients : d \in Registered' <=>
          req'[d].state = "live" /\ req'[d].event_type # "SERVER_CLOSE"
    BY <1>1, <1>3, <1>4 DEF MuxInv, RegisteredAreLive
  <2> QED
    BY <1>1, <2>1 DEF MuxInv, RegisteredAreLive
<1>7. MuxInv'
  BY <1>1, <1>6 DEF MuxInv, SomebodyAnswers
<1> QED
  BY <1>5, <1>7

(* The fetch ends without an answer: the Mux is gone, and its Requests are *)
(* closed, or freed because something has failed.                          *)
LEMMA MuxOfRelease ==
  ASSUME TypeOK, MuxInv, \A d \in Clients : RequestInv(d),
         NEW c \in Clients, chain[c] # "none",
         NEW x, chain' = [chain EXCEPT ![c] = x], failed => failed',
         \/ CloseStream /\ type = "UNDEFINED"
         \/ ReleaseErrorAllWaitingRequest /\ failed'
  PROVE  MuxInv' /\ \A d \in Clients : RequestInv(d)'
<1>1. /\ resource' = FALSE /\ type' = "UNDEFINED" /\ is_completed' = FALSE
      /\ requests' = <<>>
  BY DEF CloseStream, ReleaseErrorAllWaitingRequest, ReleaseResource
<1>2. Registered' = {} /\ DOMAIN requests' = {}
  BY <1>1 DEF Registered
<1>3. /\ chain'[c] = x /\ \A d \in Clients \ {c} : chain'[d] = chain[d]
      /\ req[c].state # "none"
  BY ChainStep DEF RequestInv
<1>4. ASSUME NEW d \in Clients, d \notin Registered
      PROVE  RequestInv(d)' /\ req'[d] = req[d]
  <2>1. /\ req'[d] = req[d] /\ d \notin Registered'
        /\ req[d].state = "none" => chain'[d] = chain[d]
        /\ RequestInv(d)
    BY <1>2, <1>3, <1>4 DEF CloseStream, ReleaseErrorAllWaitingRequest
  <2> QED
    BY <2>1 DEF RequestInv
<1>5. ASSUME NEW d \in Clients, d \in Registered
      PROVE  /\ RequestInv(d)'
             /\ req'[d].state = "freed" \/ req'[d].event_type = "SERVER_CLOSE"
  <2>1. req[d] \in Readers /\ req[d].flight <= 1 /\ req[d].state = "live"
    <3>1. req[d].flight = IF req[d].is_processing THEN 1 ELSE 0
      BY <1>5 DEF RequestInv
    <3> QED
      BY <1>5, <3>1 DEF TypeOK, MuxInv, RegisteredAreLive
  <2>2. CASE CloseStream /\ type = "UNDEFINED"
    <3>1. req[d] = StreamRequest
      BY <1>5, <2>2 DEF MuxInv
    <3>2. req'[d] = CloseRequest(StreamRequest)
      BY <1>5, <2>2, <3>1 DEF CloseStream
    <3>3. /\ req'[d].state = "live" /\ req'[d].event_type = "SERVER_CLOSE"
          /\ req'[d].flight = 1 /\ req'[d].auxiliar = "none"
      BY <3>2, NewFields, EndFields
    <3> QED
      BY <1>2, <3>3 DEF RequestInv
  <2>3. CASE ReleaseErrorAllWaitingRequest /\ failed'
    <3>1. req'[d] = Released(req[d])
      BY <1>5, <2>3 DEF ReleaseErrorAllWaitingRequest
    <3>2. req'[d].state = "freed" /\ req'[d].flight = req[d].flight
      BY <2>1, <3>1, EndFields
    <3>3. req'[d].flight <= 1
      BY <2>1, <3>2
    <3> QED
      BY <1>2, <2>3, <3>2, <3>3 DEF RequestInv
  <2> QED
    BY <2>2, <2>3
<1>6. RegisteredAreLive'
  <2>1. \A d \in Clients : ~(req'[d].state = "live"
                              /\ req'[d].event_type # "SERVER_CLOSE")
    BY <1>4, <1>5 DEF MuxInv, RegisteredAreLive
  <2> QED
    BY <1>2, <2>1 DEF RegisteredAreLive
<1>7. MuxInv'
  BY <1>1, <1>2, <1>6 DEF MuxInv, SomebodyAnswers
<1> QED
  BY <1>4, <1>5, <1>7

LEMMA MuxOfFetch ==
  ASSUME TypeOK, MuxInv, \A d \in Clients : RequestInv(d), ChainInv,
         NEW c \in Clients, FetchStep(c)
  PROVE  MuxInv' /\ \A d \in Clients : RequestInv(d)'
<1>1. /\ Active(c) /\ chain[c] # "none" /\ resource
      /\ chain[c] # "content" => type = "UNDEFINED"
  BY DEF FetchStep, StatxDone, HeaderFileRead, Fetch, FetchFails, HeaderEnds,
         HeaderRead, HeaderReadNoFile, BlockRead, AnswerEnds, Active, ChainInv
<1>2. failed => failed'
  BY FetchFrame
<1>3. CASE StatxDone(c)
  <2>1. PICK x \in {"fetch", "dropped", "read_header", "read_early"} :
          chain' = [chain EXCEPT ![c] = x]
    BY <1>3 DEF StatxDone
  <2> QED
    BY <1>1, <1>2, <1>3, <2>1, MuxOfFetchStep DEF StatxDone
<1>4. CASE Fetch(c)
  <2>1. PICK x \in {"header", "dropped"} : chain' = [chain EXCEPT ![c] = x]
    BY <1>4 DEF Fetch
  <2> QED
    BY <1>1, <1>2, <1>4, <2>1, MuxOfFetchStep DEF Fetch
<1>5. CASE HeaderFileRead(c)
  <2>1. /\ \E text : SetCacheResource(text, TRUE)
        /\ chain' = [chain EXCEPT ![c] = "ended"]
        /\ type = "UNDEFINED"
    BY <1>1, <1>5 DEF HeaderFileRead
  <2> QED
    BY <1>1, <1>2, <2>1, MuxOfHeader
<1>6. CASE HeaderRead(c)
  <2>1. /\ SetCacheResource("whole", FALSE)
        /\ chain' = [chain EXCEPT ![c] = "content"]
        /\ type = "UNDEFINED"
    BY <1>1, <1>6 DEF HeaderRead, GenerateNode
  <2> QED
    BY <1>1, <1>2, <2>1, MuxOfHeader
<1>7. CASE FetchFails(c)
  <2>1. /\ ReleaseErrorAllWaitingRequest /\ failed'
        /\ chain' = [chain EXCEPT ![c] = "ended"]
    BY <1>1, <1>7 DEF FetchFails
  <2> QED
    BY <1>1, <1>2, <2>1, MuxOfRelease
<1>8. CASE HeaderEnds(c)
  <2>1. /\ CloseStream /\ type = "UNDEFINED"
        /\ chain' = [chain EXCEPT ![c] = "ended"]
    BY <1>1, <1>8 DEF HeaderEnds
  <2> QED
    BY <1>1, <1>2, <2>1, MuxOfRelease
<1>9. CASE HeaderReadNoFile(c)
  <2>1. CASE UNCHANGED chain
    BY <1>2, <1>9, <2>1, MuxUnchanged DEF HeaderReadNoFile
  <2>2. CASE chain' = [chain EXCEPT ![c] = "content"]
    BY <1>1, <1>2, <1>9, <2>2, MuxOfFetchStep DEF HeaderReadNoFile
  <2> QED
    BY <1>9, <2>1, <2>2 DEF HeaderReadNoFile
<1>10. CASE BlockRead(c)
  BY <1>2, <1>10, CrashFrame, MuxUnchanged DEF BlockRead, muxVars
<1>11. CASE AnswerEnds(c)
  <2>1. CASE Crash("terminate")
    BY <1>2, <2>1, CrashFrame, MuxUnchanged DEF muxVars
  <2>2. CASE ~Crash("terminate")
    <3>1. /\ chain' = [chain EXCEPT ![c] = "ended"] /\ UNCHANGED <<muxVars, req>>
          /\ type = "CACHE"
      BY <1>11, <2>2 DEF AnswerEnds, ChainInv
    <3> QED
      BY <1>1, <1>2, <3>1, MuxOfFetchStep
  <2> QED
    BY <2>1, <2>2
<1> QED
  BY <1>3, <1>4, <1>5, <1>6, <1>7, <1>8, <1>9, <1>10, <1>11 DEF FetchStep

(* The file is complete: whoever waits at its end reads on. *)
LEMMA MuxOfCompletion ==
  ASSUME TypeOK, MuxInv, \A d \in Clients : RequestInv(d),
         type = "CACHE", resource, NotifyCacheCompleted,
         UNCHANGED <<resource, type, requests, chain, failed>>
  PROVE  MuxInv' /\ \A d \in Clients : RequestInv(d)'
<1>1. Registered' = Registered
  BY DEF Registered
<1>2. ASSUME NEW d \in Clients, d \in Registered
      PROVE  /\ RequestInv(d)'
             /\ req'[d].state = "live" /\ req'[d].event_type # "SERVER_CLOSE"
  <2>1. /\ req[d] \in Readers /\ req[d].state = "live"
        /\ req[d].event_type # "SERVER_CLOSE"
        /\ req[d].flight = IF req[d].is_processing THEN 1 ELSE 0
        /\ req[d].event_type = "WRITE_HEADER" => req[d].auxiliar = "none"
        /\ req[d].event_type \in {"READ_CONTENT", "COPY_CONTENT"} =>
             req[d].auxiliar = "open" \/ failed
        /\ req[d].is_processing \/ req[d].auxiliar = "open" \/ failed
    BY <1>2 DEF TypeOK, MuxInv, RegisteredAreLive, RequestInv
  <2>2. CASE req[d].is_processing
    <3>1. req'[d] = req[d]
      BY <2>2 DEF NotifyCacheCompleted
    <3> QED
      BY <1>1, <2>1, <2>2, <3>1 DEF RequestInv
  <2>3. CASE ~req[d].is_processing
    <3> DEFINE q == req[d]
               o == req[d].pivot
               x == ReadRequest(q, o)
    <3>1. req'[d] = x
      BY <1>2, <2>3 DEF NotifyCacheCompleted
    <3>2. /\ q \in Readers /\ o \in Nat /\ q.state = "live" /\ q.flight = 0
          /\ q.auxiliar = "open" \/ failed
      BY <2>1, <2>3 DEF Readers
    <3> HIDE DEF q, o
    <3>3. /\ x \in Readers /\ x.state = q.state
          /\ x.event_type = "READ_CONTENT" /\ x.is_processing
          /\ x.flight = q.flight + 1 /\ x.auxiliar = q.auxiliar
      <4>1. q \in Readers /\ o \in Nat
        BY <3>2
      <4> QED
        BY <4>1, ReadFields
    <3> HIDE DEF x
    <3>4. /\ x.state = "live" /\ x.event_type = "READ_CONTENT"
          /\ x.is_processing /\ x.flight = 1
          /\ x.auxiliar = "open" \/ failed
      BY <3>2, <3>3
    <3> QED
      BY <1>1, <3>1, <3>4 DEF RequestInv
  <2> QED
    BY <2>2, <2>3
<1>3. ASSUME NEW d \in Clients, d \notin Registered
      PROVE  RequestInv(d)' /\ req'[d] = req[d]
  <2>1. req'[d] = req[d]
    BY <1>3 DEF NotifyCacheCompleted
  <2>2. RequestInv(d)
    OBVIOUS
  <2> QED
    BY <1>1, <1>3, <2>1, <2>2 DEF RequestInv
<1>4. RegisteredAreLive'
  <2>1. \A d \in Clients : d \in Registered' <=>
          req'[d].state = "live" /\ req'[d].event_type # "SERVER_CLOSE"
    BY <1>1, <1>2, <1>3 DEF MuxInv, RegisteredAreLive
  <2> QED
    BY <2>1 DEF MuxInv, RegisteredAreLive
<1>5. MuxInv'
  BY <1>4 DEF MuxInv, SomebodyAnswers
<1> QED
  BY <1>2, <1>3, <1>5

LEMMA MuxOfWriter ==
  ASSUME TypeOK, MuxInv, \A d \in Clients : RequestInv(d), BindingInv,
         NodeInv(node), WriterStep
  PROVE  MuxInv' /\ \A d \in Clients : RequestInv(d)'
<1>1. UNCHANGED <<resource, type, header, requests, chain, failed>>
  BY WriterFrame
<1>2. CASE WriteHappens \/ HeaderFileWritten
  BY <1>2, MuxUnchanged DEF WriteHappens, HeaderFileWritten
<1>3. CASE BlockWritten
  <2>1. CASE Crash("terminate")
    BY <2>1, CrashFrame, MuxUnchanged DEF muxVars
  <2>2. CASE NotifyCacheCompleted /\ EndIsStored
    BY <1>1, <2>2, MuxOfCompletion DEF BindingInv
  <2>3. CASE UNCHANGED <<muxVars, req, chain, failed>>
    BY <2>3, MuxUnchanged
  <2> QED
    BY <1>3, <2>1, <2>2, <2>3, BlockWrittenNode
<1> QED
  BY <1>2, <1>3 DEF WriterStep

LEMMA MuxOfRestart ==
  ASSUME TypeOK, \A d \in Clients : RequestInv(d), Restart
  PROVE  MuxInv' /\ \A d \in Clients : RequestInv(d)'
<1> DEFINE gone == [NoRequest EXCEPT !.state = "freed"]
<1>1. /\ resource' = FALSE /\ type' = "UNDEFINED" /\ is_completed' = FALSE
      /\ requests' = <<>>
  BY DEF Restart, ReleaseResource
<1>2. Registered' = {} /\ DOMAIN requests' = {}
  BY <1>1 DEF Registered
<1>3. gone.state = "freed" /\ gone.flight = 0 /\ gone.auxiliar = "none"
  BY DEF NoRequest
<1>4. \A d \in Clients :
        /\ req'[d] = IF req[d].state = "none" THEN req[d] ELSE gone
        /\ chain'[d] = "none"
  BY DEF Restart
<1> HIDE DEF gone
<1>5. ASSUME NEW d \in Clients PROVE RequestInv(d)' /\ req'[d].state # "live"
  <2>1. CASE req[d].state = "none"
    <3>1. req'[d] = NoRequest /\ chain'[d] = "none"
      BY <1>4, <2>1 DEF RequestInv
    <3> QED
      BY <1>2, <3>1, NewFields DEF RequestInv
  <2>2. CASE req[d].state # "none"
    <3>1. req'[d] = gone
      BY <1>4, <2>2
    <3> QED
      BY <1>2, <1>3, <3>1 DEF RequestInv
  <2> QED
    BY <2>1, <2>2
<1>6. RegisteredAreLive'
  BY <1>2, <1>5 DEF RegisteredAreLive
<1>7. MuxInv'
  BY <1>1, <1>2, <1>6 DEF MuxInv, SomebodyAnswers
<1> QED
  BY <1>5, <1>7

-----------------------------------------------------------------------------
LEMMA InvInit == Init => IInv
<1> SUFFICES ASSUME Init PROVE IInv
  OBVIOUS
<1>1. /\ resource = FALSE /\ type = "UNDEFINED" /\ is_completed = FALSE
      /\ header = "none" /\ requests = <<>> /\ node = NoNode
      /\ file = <<>> /\ file_exists = FALSE /\ header_file = "none"
      /\ header_write = FALSE /\ fault = "none" /\ failed = FALSE
      /\ restarts = 0
      /\ req = [c \in Clients |-> NoRequest]
      /\ chain = [c \in Clients |-> "none"]
      /\ got = [c \in Clients |-> 0]
  BY DEF Init
<1>2. /\ Registered = {} /\ DOMAIN requests = {}
      /\ \A c \in Clients : req[c] = NoRequest /\ chain[c] = "none"
  BY <1>1 DEF Registered
<1>3. TypeOK
  <2>1. requests \in Seq(Clients) /\ file \in Seq(Int)
    BY <1>1, EmptySeq
  <2>2. node \in Nodes /\ req \in [Clients -> Readers]
    BY <1>1, NewNodeFields, NewFields
  <2>3. chain \in [Clients -> Chains] /\ got \in [Clients -> Nat]
    BY <1>1 DEF Chains
  <2> QED
    BY <1>1, <2>1, <2>2, <2>3 DEF TypeOK
<1>4. MuxInv
  <2>1. RegisteredAreLive
    BY <1>2, NewFields DEF RegisteredAreLive
  <2> QED
    BY <1>1, <1>2, <2>1 DEF MuxInv, SomebodyAnswers
<1>5. \A c \in Clients : RequestInv(c)
  BY <1>2, NewFields DEF RequestInv
<1>6. ~node.exists
  BY <1>1, NewNodeFields
<1>7. ChainInv /\ BindingInv
  BY <1>1, <1>2, <1>6 DEF ChainInv, BindingInv, EndIsStored, Active
<1>8. NodeInv(node) /\ FileInv
  BY <1>1, <1>6, NewNodeFields DEF FileInv, FileInOrder, WriteInv
<1>9. CompletedIsWhole /\ FaultNeedsFailure
  BY <1>1 DEF CompletedIsWhole, FaultNeedsFailure
<1> QED
  BY <1>3, <1>4, <1>5, <1>7, <1>8, <1>9 DEF IInv

LEMMA InvNext == IInv /\ [Next]_vars => IInv'
<1> SUFFICES ASSUME IInv, [Next]_vars PROVE IInv'
  OBVIOUS
<1>1. /\ TypeOK /\ MuxInv /\ \A d \in Clients : RequestInv(d)
      /\ ChainInv /\ BindingInv /\ NodeInv(node) /\ FileInv
      /\ CompletedIsWhole /\ FaultNeedsFailure
  BY DEF IInv
<1>2. CASE Next
  <2>1. RegisteredAreLive
    BY <1>1 DEF MuxInv
  <2>2. TypeOK'
    BY <1>1, <1>2, <2>1, TypeOfClient, TypeOfFetch, TypeOfWriter,
       TypeOfRestart DEF Next
  <2>3. MuxInv' /\ \A d \in Clients : RequestInv(d)'
    BY <1>1, <1>2, MuxOfClient, MuxOfFetch, MuxOfWriter, MuxOfRestart DEF Next
  <2>4. ChainInv' /\ BindingInv'
    BY <1>1, <1>2, ChainNext
  <2>5. NodeInv(node') /\ FileInv'
    BY <1>1, <1>2, NodeNext
  <2>6. NodeInv(node)'
    BY <2>5 DEF NodeInv
  <2>7. CompletedIsWhole' /\ FaultNeedsFailure'
    BY <1>1, <1>2, WholeNext, FaultNext
  <2> QED
    BY <2>2, <2>3, <2>4, <2>5, <2>6, <2>7 DEF IInv
<1>3. CASE UNCHANGED vars
  <2>1. /\ UNCHANGED <<resource, type, is_completed, header, requests, node,
                       file, file_exists, header_file, header_write, req,
                       chain, fault, got, failed, restarts>>
        /\ Registered' = Registered
    BY <1>3 DEF vars, muxVars, fileVars, Registered
  <2>2. TypeOK' /\ CompletedIsWhole' /\ FaultNeedsFailure'
    BY <1>1, <2>1 DEF TypeOK, CompletedIsWhole, FaultNeedsFailure
  <2>3. MuxInv' /\ \A d \in Clients : RequestInv(d)'
    BY <1>1, <2>1, MuxUnchanged DEF muxVars
  <2>4. ChainInv' /\ BindingInv'
    BY <1>1, <2>1 DEF ChainInv, BindingInv, EndIsStored, Active
  <2>5. NodeInv(node)' /\ FileInv'
    BY <1>1, <2>1 DEF NodeInv, FileInv, FileInOrder, WriteInv
  <2> QED
    BY <2>2, <2>3, <2>4, <2>5 DEF IInv
<1> QED
  BY <1>2, <1>3

(* Between any two handlers of Stream.cpp and Cache.cpp, and over restarts *)
(* of the process, the Mux with its Requests, the one fetch, and the Node  *)
(* with its file are as IInv says, and so is what binds them together      *)
(* (Stream.cpp:22-136, 342-412, Cache.cpp:75-257).                         *)
THEOREM Invariance == Spec => []IInv
BY InvInit, InvNext, PTL DEF Spec

(* The bookkeeping of Stream.cpp:275-302 and 388-391 and of Cache.cpp:125: *)
(* whatever joins, reads and completions interleave, mux->requests holds   *)
(* the live Requests once each, every Request and the writer have at most  *)
(* one operation in flight, a Mux without a type has somebody who answers, *)
(* and no descriptor is lost unless something has failed.                  *)
THEOREM TheCacheIsSound == Spec => []CacheIsSound
<1>1. IInv => CacheIsSound
  <2> SUFFICES ASSUME IInv PROVE CacheIsSound
    OBVIOUS
  <2>1. TypeOK /\ SomebodyAnswers /\ RegisteredAreLive
    BY DEF IInv, MuxInv
  <2>2. node.cache.flight <= 1
    BY DEF IInv, NodeInv
  <2>3. ASSUME NEW c \in Clients PROVE req[c].flight <= 1
    <3>1. RequestInv(c) /\ req[c].state \in {"none", "live", "freed"}
      BY DEF IInv, TypeOK, Readers
    <3>2. CASE req[c].state \in {"none", "freed"}
      BY <3>1, <3>2, NewFields DEF RequestInv
    <3>3. CASE req[c].state = "live" /\ req[c].event_type = "SERVER_CLOSE"
      BY <3>1, <3>3 DEF RequestInv
    <3>4. CASE req[c].state = "live" /\ req[c].event_type # "SERVER_CLOSE"
      <4>1. c \in Registered
        BY <2>1, <3>4 DEF RegisteredAreLive
      <4> QED
        BY <3>1, <4>1 DEF RequestInv
    <3> QED
      BY <3>1, <3>2, <3>3, <3>4
  <2>4. CacheDescriptors
    BY DEF IInv, RequestInv, CacheDescriptors
  <2> QED
    BY <2>1, <2>2, <2>3, <2>4 DEF CacheIsSound, OneOperation
<1> QED
  BY <1>1, Invariance, PTL

(* Neither the writer nor a client is left waiting for what has come: an   *)
(* idle writer stands where AppendBuffer stores the next block, and nobody *)
(* waits for a file that is complete (Cache.cpp:171-173,                   *)
(* Stream.cpp:342-354, 386-393).                                           *)
THEOREM NobodyIsStranded == Spec => []NobodyStranded
<1>1. IInv => NobodyStranded
  <2> SUFFICES ASSUME IInv PROVE NobodyStranded
    OBVIOUS
  <2>1. WriterNeverStranded
    BY DEF IInv, NodeInv, WriterNeverStranded
  <2>2. \A c \in Registered : c \in Clients
    BY DEF IInv, TypeOK, Registered
  <2>3. NobodyWaits
    BY <2>2 DEF IInv, RequestInv, NobodyWaits
  <2> QED
    BY <2>1, <2>3 DEF NobodyStranded
<1> QED
  BY <1>1, Invariance, PTL

(* For every size of the ring and every length of the answer: the writer   *)
(* of Cache.cpp:162-203 writes the blocks in order, and what it leaves out *)
(* are whole laps of the ring.                                             *)
THEOREM TheFileIsInOrder == Spec => []FileInOrder
<1>1. IInv => FileInOrder
  BY DEF IInv, FileInv
<1> QED
  BY <1>1, Invariance, PTL

(* END_BUFFER overtakes no block (Cache.cpp:175, 250): a Mux is complete   *)
(* when the end of the answer is in the file.                              *)
THEOREM CompletionIsWhole == Spec => []CompletedIsWhole
<1>1. IInv => CompletedIsWhole
  BY DEF IInv
<1> QED
  BY <1>1, Invariance, PTL

(* No at() throws and no missing descriptor is read before a fetch or the  *)
(* opening of a file has failed (Stream.cpp:80, 102, 387; Cache.cpp:110,   *)
(* 189, 245).                                                              *)
THEOREM NoFaultWithoutFailure == Spec => []FaultNeedsFailure
<1>1. IInv => FaultNeedsFailure
  BY DEF IInv
<1> QED
  BY <1>1, Invariance, PTL

(* However many clients ask at once, one of them fetches, and only what is *)
(* not there (Cache.cpp:206-242).                                          *)
THEOREM OneClientFetches == Spec => []OneFetch
<1>1. IInv => OneFetch
  BY DEF IInv, ChainInv, BindingInv, OneFetch, Active
<1> QED
  BY <1>1, Invariance, PTL

(* A file that counts as complete does not change any more unless a fetch  *)
(* has failed: the Node is gone and no write is under way, and a file that *)
(* was found on the disk is not fetched again (Cache.cpp:84, 175-178).     *)
THEOREM CompletedStays == Spec => CompletedIsFinal
<1>1. IInv /\ [Next]_vars => [(is_completed /\ ~failed) => file' = file]_vars
  <2> SUFFICES ASSUME IInv, Next, is_completed, ~failed PROVE file' = file
    OBVIOUS
  <2>1. TypeOK /\ NodeInv(node) /\ type # "UNDEFINED" /\ ~node.exists
    BY DEF IInv, MuxInv, BindingInv
  <2>2. ~WriteHappens /\ ~BlockWritten
    BY <2>1 DEF WriteHappens, BlockWritten, NodeInv
  <2>3. ASSUME NEW c \in Clients, ClientStep(c) PROVE file' = file
    BY <2>1, <2>3, ClientFrame DEF fileVars
  <2>4. ASSUME NEW c \in Clients, FetchStep(c) PROVE file' = file
    <3>1. chain[c] # "header"
      BY <2>1 DEF IInv, ChainInv, Active
    <3> QED
      BY <2>4, <3>1, CrashFrame
         DEF FetchStep, StatxDone, HeaderFileRead, Fetch, FetchFails,
             HeaderEnds, HeaderRead, HeaderReadNoFile, BlockRead, AnswerEnds,
             fileVars
  <2> QED
    BY <2>2, <2>3, <2>4 DEF Next, WriterStep, HeaderFileWritten, Restart
<1> QED
  BY <1>1, Invariance, PTL DEF Spec, CompletedIsFinal
=============================================================================
