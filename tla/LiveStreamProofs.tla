-------------------------- MODULE LiveStreamProofs --------------------------
(* Proofs of the safety properties of LiveStream, for any number of        *)
(* clients, any size of the ring and any number of blocks.                 *)
EXTENDS LiveStream, BlockRingProofs, SequenceTheorems

N == StreamingBufferSize

(* What the operations on a stream Request do to its fields. *)
LEMMA FieldUpdate ==
  ASSUME NEW r \in Requests
  PROVE  /\ \A x \in {"none", "live", "freed"} : [r EXCEPT !.state = x] \in Requests
         /\ \A x \in {"none", "WRITE_HEADER", "WRITE_PARTIAL", "SERVER_CLOSE"} :
              [r EXCEPT !.event_type = x] \in Requests
         /\ \A x \in BOOLEAN : [r EXCEPT !.is_processing = x] \in Requests
         /\ \A x \in Slots(N) : [r EXCEPT !.pivot = x] \in Requests
BY DEF Requests, N

LEMMA RequestTypes ==
  ASSUME NEW r \in Requests
  PROVE  /\ HeaderRequest(r) \in Requests
         /\ BlockRequest(r) \in Requests
         /\ CloseRequest(r) \in Requests
         /\ Released(r) \in Requests
         /\ r.writes > 0 => WriteCompleted(r) \in Requests
         /\ r.closes > 0 => CloseCompleted(r) \in Requests
<1>1. r.writes \in Nat /\ r.closes \in Nat /\ NextSlot(N, r.pivot) \in Slots(N)
  BY NextSlotValue, BufferAssumption DEF Requests, N
<1>2. HeaderRequest(r) \in Requests
  <2> DEFINE r1 == [r EXCEPT !.event_type = "WRITE_HEADER"]
             r2 == [r1 EXCEPT !.is_processing = TRUE]
  <2>1. r1 \in Requests /\ HeaderRequest(r) = [r2 EXCEPT !.writes = r.writes + 1]
    BY FieldUpdate DEF HeaderRequest
  <2> HIDE DEF r1
  <2>2. r2 \in Requests
    BY <2>1, FieldUpdate
  <2> HIDE DEF r2
  <2>3. [r2 EXCEPT !.writes = r.writes + 1] \in Requests
    BY <1>1, <2>2 DEF Requests
  <2> QED
    BY <2>1, <2>3
<1>3. BlockRequest(r) \in Requests
  <2> DEFINE r1 == [r EXCEPT !.event_type = "WRITE_PARTIAL"]
             r2 == [r1 EXCEPT !.is_processing = TRUE]
             r3 == [r2 EXCEPT !.writes = r.writes + 1]
  <2>1. r1 \in Requests /\ BlockRequest(r) = [r3 EXCEPT !.pivot = NextSlot(N, r.pivot)]
    BY FieldUpdate DEF BlockRequest, N
  <2> HIDE DEF r1
  <2>2. r2 \in Requests
    BY <2>1, FieldUpdate
  <2> HIDE DEF r2
  <2>3. r3 \in Requests
    BY <1>1, <2>2 DEF Requests
  <2> HIDE DEF r3
  <2> QED
    BY <1>1, <2>1, <2>3, FieldUpdate
<1>4. CloseRequest(r) \in Requests
  <2> DEFINE r1 == [r EXCEPT !.event_type = "SERVER_CLOSE"]
  <2>1. r1 \in Requests /\ CloseRequest(r) = [r1 EXCEPT !.closes = r.closes + 1]
    BY FieldUpdate DEF CloseRequest
  <2> HIDE DEF r1
  <2>2. [r1 EXCEPT !.closes = r.closes + 1] \in Requests
    BY <1>1, <2>1 DEF Requests
  <2> QED
    BY <2>1, <2>2
<1>5. Released(r) \in Requests
  BY FieldUpdate DEF Released
<1>6. ASSUME r.writes > 0 PROVE WriteCompleted(r) \in Requests
  <2> DEFINE r1 == [r EXCEPT !.writes = r.writes - 1]
  <2>1. r1 \in Requests /\ WriteCompleted(r) = [r1 EXCEPT !.is_processing = FALSE]
    BY <1>1, <1>6 DEF WriteCompleted, Requests
  <2> HIDE DEF r1
  <2> QED
    BY <2>1, FieldUpdate
<1>7. ASSUME r.closes > 0 PROVE CloseCompleted(r) \in Requests
  <2> DEFINE r1 == [r EXCEPT !.closes = r.closes - 1]
  <2>1. r1 \in Requests /\ CloseCompleted(r) = [r1 EXCEPT !.is_processing = FALSE]
    BY <1>1, <1>7 DEF CloseCompleted, Requests
  <2> HIDE DEF r1
  <2> QED
    BY <2>1, FieldUpdate
<1> QED
  BY <1>2, <1>3, <1>4, <1>5, <1>6, <1>7

LEMMA RequestFields ==
  ASSUME NEW r \in Requests
  PROVE  /\ HeaderRequest(r).state = r.state
         /\ HeaderRequest(r).event_type = "WRITE_HEADER"
         /\ HeaderRequest(r).is_processing
         /\ HeaderRequest(r).pivot = r.pivot
         /\ HeaderRequest(r).writes = r.writes + 1
         /\ HeaderRequest(r).closes = r.closes
         /\ BlockRequest(r).state = r.state
         /\ BlockRequest(r).event_type = "WRITE_PARTIAL"
         /\ BlockRequest(r).is_processing
         /\ BlockRequest(r).pivot = NextSlot(N, r.pivot)
         /\ BlockRequest(r).writes = r.writes + 1
         /\ BlockRequest(r).closes = r.closes
         /\ CloseRequest(r).state = r.state
         /\ CloseRequest(r).event_type = "SERVER_CLOSE"
         /\ CloseRequest(r).writes = r.writes
         /\ CloseRequest(r).closes = r.closes + 1
         /\ Released(r).state = "freed"
         /\ Released(r).event_type = r.event_type
         /\ Released(r).writes = r.writes
         /\ Released(r).closes = r.closes
         /\ WriteCompleted(r).state = r.state
         /\ WriteCompleted(r).event_type = r.event_type
         /\ ~WriteCompleted(r).is_processing
         /\ WriteCompleted(r).pivot = r.pivot
         /\ WriteCompleted(r).writes = r.writes - 1
         /\ WriteCompleted(r).closes = r.closes
         /\ CloseCompleted(r).state = r.state
         /\ CloseCompleted(r).event_type = r.event_type
         /\ CloseCompleted(r).writes = r.writes
         /\ CloseCompleted(r).closes = r.closes - 1
<1>1. /\ HeaderRequest(r).state = r.state
      /\ HeaderRequest(r).event_type = "WRITE_HEADER"
      /\ HeaderRequest(r).is_processing
      /\ HeaderRequest(r).pivot = r.pivot
      /\ HeaderRequest(r).writes = r.writes + 1
      /\ HeaderRequest(r).closes = r.closes
  BY DEF HeaderRequest, Requests
<1>2. /\ BlockRequest(r).state = r.state
      /\ BlockRequest(r).event_type = "WRITE_PARTIAL"
      /\ BlockRequest(r).is_processing
      /\ BlockRequest(r).pivot = NextSlot(N, r.pivot)
      /\ BlockRequest(r).writes = r.writes + 1
      /\ BlockRequest(r).closes = r.closes
  BY DEF BlockRequest, Requests, N
<1>3. /\ CloseRequest(r).state = r.state
      /\ CloseRequest(r).event_type = "SERVER_CLOSE"
      /\ CloseRequest(r).writes = r.writes
      /\ CloseRequest(r).closes = r.closes + 1
      /\ Released(r).state = "freed"
      /\ Released(r).event_type = r.event_type
      /\ Released(r).writes = r.writes
      /\ Released(r).closes = r.closes
  BY DEF CloseRequest, Released, Requests
<1>4. /\ WriteCompleted(r).state = r.state
      /\ WriteCompleted(r).event_type = r.event_type
      /\ ~WriteCompleted(r).is_processing
      /\ WriteCompleted(r).pivot = r.pivot
      /\ WriteCompleted(r).writes = r.writes - 1
      /\ WriteCompleted(r).closes = r.closes
      /\ CloseCompleted(r).state = r.state
      /\ CloseCompleted(r).event_type = r.event_type
      /\ CloseCompleted(r).writes = r.writes
      /\ CloseCompleted(r).closes = r.closes - 1
  BY DEF WriteCompleted, CloseCompleted, Requests
<1> QED
  BY <1>1, <1>2, <1>3, <1>4

LEMMA NewRequestFields ==
  /\ NoRequest \in Requests /\ StreamRequest \in Requests
  /\ NoRequest.state = "none" /\ NoRequest.event_type = "none"
  /\ ~NoRequest.is_processing
  /\ NoRequest.writes = 0 /\ NoRequest.closes = 0
  /\ StreamRequest.state = "live" /\ StreamRequest.event_type = "none"
  /\ ~StreamRequest.is_processing /\ StreamRequest.pivot = 0
  /\ StreamRequest.writes = 0 /\ StreamRequest.closes = 0
<1>1. NoRequest \in Requests
  BY BufferAssumption DEF NoRequest, Requests, Slots
<1>2. StreamRequest \in Requests
  BY <1>1, FieldUpdate DEF StreamRequest
<1> QED
  BY <1>1, <1>2 DEF NoRequest, StreamRequest

(* The registered requests when one joins and when one leaves. *)
LEMMA JoinRegistered ==
  ASSUME requests \in Seq(Clients), NEW c \in Clients,
         requests' = Append(requests, c)
  PROVE  /\ requests' \in Seq(Clients)
         /\ Registered' = Registered \cup {c}
         /\ \A i \in DOMAIN requests : i \in DOMAIN requests' /\ requests'[i] = requests[i]
         /\ \A i \in DOMAIN requests' : i \in DOMAIN requests \/ requests'[i] = c
<1>1. /\ requests' \in Seq(Clients) /\ Len(requests') = Len(requests) + 1
      /\ \A i \in 1 .. Len(requests) : requests'[i] = requests[i]
      /\ requests'[Len(requests) + 1] = c
  BY AppendProperties
<1>2. DOMAIN requests = 1 .. Len(requests) /\ DOMAIN requests' = 1 .. Len(requests')
      /\ Len(requests) \in Nat
  BY <1>1, LenProperties
<1> QED
  BY <1>1, <1>2 DEF Registered

LEMMA WithoutElements ==
  ASSUME requests \in Seq(Clients), NEW c \in Clients, c \in Registered
  PROVE  LET k == Position(c)
             n == Len(requests)
         IN  /\ DOMAIN requests = 1 .. n /\ n \in Nat
             /\ k \in 1 .. n /\ requests[k] = c
             /\ Without(c) \in Seq(Clients)
             /\ Len(Without(c)) = n - 1
             /\ \A i \in 1 .. n - 1 :
                  Without(c)[i] = IF i < k THEN requests[i] ELSE requests[i + 1]
<1> DEFINE k == Position(c)
           n == Len(requests)
<1>1. DOMAIN requests = 1 .. n /\ n \in Nat
  BY LenProperties
<1>2. k \in 1 .. n /\ requests[k] = c
  BY <1>1 DEF Position, Registered
<1> HIDE DEF k
<1>3. /\ Without(c) \in Seq(Clients)
      /\ Len(Without(c)) = n - 1
      /\ \A i \in 1 .. n - 1 : Without(c)[i] = IF i < k THEN requests[i] ELSE requests[i + 1]
  <2>1. Without(c) = SubSeq(requests, 1, k - 1) \o SubSeq(requests, k + 1, n)
    BY DEF Without, k
  <2>2. /\ SubSeq(requests, 1, k - 1) \in Seq(Clients)
        /\ Len(SubSeq(requests, 1, k - 1)) = k - 1
        /\ \A i \in 1 .. k - 1 : SubSeq(requests, 1, k - 1)[i] = requests[i]
    BY <1>1, <1>2
  <2>3. /\ SubSeq(requests, k + 1, n) \in Seq(Clients)
        /\ Len(SubSeq(requests, k + 1, n)) = n - k
        /\ \A i \in 1 .. n - k : SubSeq(requests, k + 1, n)[i] = requests[k + i]
    <3>1. k + 1 \in Int /\ n \in Int /\ \A i \in k + 1 .. n : requests[i] \in Clients
      BY <1>1, <1>2
    <3> HIDE DEF n
    <3>2. /\ SubSeq(requests, k + 1, n) \in Seq(Clients)
          /\ Len(SubSeq(requests, k + 1, n)) = IF k + 1 <= n THEN n - (k + 1) + 1 ELSE 0
          /\ \A i \in 1 .. n - (k + 1) + 1 :
               SubSeq(requests, k + 1, n)[i] = requests[k + 1 + i - 1]
      BY <3>1, SubSeqProperties
    <3> QED
      BY <1>1, <1>2, <3>2
  <2> HIDE DEF n
  <2> DEFINE s == SubSeq(requests, 1, k - 1)
             t == SubSeq(requests, k + 1, n)
  <2>4. /\ Without(c) = s \o t /\ s \in Seq(Clients) /\ t \in Seq(Clients)
        /\ Len(s) = k - 1 /\ Len(t) = n - k
        /\ \A i \in 1 .. k - 1 : s[i] = requests[i]
        /\ \A i \in 1 .. n - k : t[i] = requests[k + i]
    BY <2>1, <2>2, <2>3
  <2> HIDE DEF s, t
  <2>5. /\ s \o t \in Seq(Clients)
        /\ Len(s \o t) = Len(s) + Len(t)
        /\ \A i \in 1 .. Len(s) + Len(t) :
             (s \o t)[i] = IF i <= Len(s) THEN s[i] ELSE t[i - Len(s)]
    BY <2>4, ConcatProperties
  <2>6. ASSUME NEW i \in 1 .. n - 1
        PROVE  (s \o t)[i] = IF i < k THEN requests[i] ELSE requests[i + 1]
    <3>1. i \in 1 .. Len(s) + Len(t)
      BY <1>1, <1>2, <2>4
    <3>2. CASE i < k
      BY <1>1, <1>2, <2>4, <2>5, <3>1, <3>2
    <3>3. CASE ~(i < k)
      <4>1. i - (k - 1) \in 1 .. n - k /\ k + (i - (k - 1)) = i + 1
        BY <1>1, <1>2, <3>3
      <4> QED
        BY <1>1, <1>2, <2>4, <2>5, <3>1, <3>3, <4>1
    <3> QED
      BY <3>2, <3>3
  <2>7. Len(s \o t) = n - 1
    BY <1>1, <1>2, <2>4, <2>5
  <2> QED
    BY <2>4, <2>5, <2>6, <2>7
<1> QED
  BY <1>1, <1>2, <1>3 DEF k

LEMMA LeaveRegistered ==
  ASSUME requests \in Seq(Clients), NEW c \in Clients, c \in Registered,
         \A i, j \in DOMAIN requests : requests[i] = requests[j] => i = j,
         requests' = Without(c)
  PROVE  /\ requests' \in Seq(Clients)
         /\ Registered' = Registered \ {c}
         /\ \A i, j \in DOMAIN requests' : requests'[i] = requests'[j] => i = j
<1> DEFINE k == Position(c)
           n == Len(requests)
<1>1. DOMAIN requests = 1 .. n /\ n \in Nat
  BY LenProperties
<1>2. k \in 1 .. n /\ requests[k] = c
  BY WithoutElements
<1>4. /\ requests' \in Seq(Clients)
      /\ Len(requests') = n - 1
      /\ \A i \in 1 .. n - 1 : requests'[i] = IF i < k THEN requests[i] ELSE requests[i + 1]
  BY WithoutElements
<1> HIDE DEF k
<1>3. \A i, j \in 1 .. n : requests[i] = requests[j] => i = j
  BY <1>1
<1>5. DOMAIN requests' = 1 .. n - 1
  BY <1>4, LenProperties
<1> HIDE DEF n
<1>6. Registered' \subseteq Registered \ {c}
  <2>1. SUFFICES ASSUME NEW i \in 1 .. n - 1
                 PROVE  requests'[i] \in Registered \ {c}
    BY <1>5 DEF Registered
  <2>2. PICK j \in 1 .. n : j # k /\ requests'[i] = requests[j]
    <3>1. CASE i < k
      BY <1>1, <1>2, <1>4, <3>1
    <3>2. CASE i >= k
      <4>1. i + 1 \in 1 .. n /\ i + 1 # k /\ requests'[i] = requests[i + 1]
        BY <1>1, <1>2, <1>4, <3>2
      <4> QED
        BY <4>1
    <3> QED
      BY <1>1, <1>2, <3>1, <3>2
  <2>3. requests[j] # c
    BY <1>2, <1>3, <2>2
  <2> QED
    BY <1>1, <2>2, <2>3 DEF Registered
<1>7. ASSUME NEW d \in Registered \ {c} PROVE d \in Registered'
  <2>1. PICK i \in 1 .. n : requests[i] = d
    BY <1>1 DEF Registered
  <2>2. i # k
    BY <1>2, <1>7, <2>1
  <2>3. CASE i < k
    <3>1. i \in 1 .. n - 1 /\ requests'[i] = d
      BY <1>1, <1>2, <1>4, <2>1, <2>3
    <3> QED
      BY <1>5, <3>1 DEF Registered
  <2>4. CASE i > k
    <3>1. i - 1 \in 1 .. n - 1 /\ requests'[i - 1] = d
      BY <1>1, <1>2, <1>4, <2>1, <2>4
    <3> QED
      BY <1>5, <3>1 DEF Registered
  <2> QED
    BY <1>1, <1>2, <2>2, <2>3, <2>4
<1>8. ASSUME NEW i \in 1 .. n - 1, NEW j \in 1 .. n - 1, requests'[i] = requests'[j]
      PROVE  i = j
  <2> DEFINE from(x) == IF x < k THEN x ELSE x + 1
  <2>1. from(i) \in 1 .. n /\ from(j) \in 1 .. n
    BY <1>1, <1>2
  <2>2. requests'[i] = requests[from(i)] /\ requests'[j] = requests[from(j)]
    BY <1>4
  <2>3. from(i) = from(j)
    BY <1>3, <1>8, <2>1, <2>2
  <2> QED
    BY <1>1, <1>2, <2>3
<1> QED
  BY <1>4, <1>5, <1>6, <1>7, <1>8

-----------------------------------------------------------------------------
(* Type correctness. *)

LEMMA FreshTypes ==
  /\ FreshRing(N) \in [Slots(N) -> Int]
  /\ 0 \in Slots(N)
BY BufferAssumption DEF FreshRing, Slots, NoData, N

LEMMA ConnTypes ==
  ASSUME NEW r \in Conns
  PROVE  /\ \A x \in {"none", "reading", "failing", "done"} :
              [r EXCEPT !.entry = x] \in Conns
         /\ \A x \in {"none", "open", "closed"} : [r EXCEPT !.fd = x] \in Conns
BY DEF Conns

LEMMA StartTypes ==
  ASSUME TypeOK
  PROVE  StartPivot \in Slots(N) /\ StartPos \in Nat
<1>1. requests # <<>> => requests[1] \in Clients
  BY ElementOfSeq, EmptySeq, LenProperties DEF TypeOK
<1> QED
  BY <1>1 DEF StartPivot, StartPos, TypeOK, Requests, N

LEMMA TypeInit == Init => TypeOK
<1> SUFFICES ASSUME Init PROVE TypeOK
  OBVIOUS
<1>1. requests \in Seq(Clients) /\ feeders \subseteq Clients
  BY EmptySeq DEF Init
<1>2. conn \in [Clients -> Conns]
  BY DEF Init, Conns, Peers
<1>3. req \in [Clients -> Requests] /\ chain \in [Clients -> Chains]
  BY NewRequestFields DEF Init, Chains
<1> QED
  BY <1>1, <1>2, <1>3, FreshTypes DEF Init, TypeOK, N

LEMMA TypeNext == TypeOK /\ [Next]_vars => TypeOK'
<1> SUFFICES ASSUME TypeOK, [Next]_vars PROVE TypeOK'
  OBVIOUS
<1> USE DEF TypeOK
<1>1. CASE UNCHANGED vars
  BY <1>1 DEF vars, muxVars
<1>2. ASSUME NEW how \in {"terminate", "undefined"}, Crash(how) PROVE TypeOK'
  BY <1>2 DEF Crash, muxVars
<1>3. ReleaseResource =>
        /\ resource' \in BOOLEAN /\ type' \in {"UNDEFINED", "STREAMING"}
        /\ requests' \in Seq(Clients) /\ buffer' \in [Slots(N) -> Int]
        /\ pivot' \in Slots(N) /\ head' \in Nat /\ feeders' \subseteq Clients
  <2>1. <<>> \in Seq(Clients)
    BY EmptySeq
  <2>2. FreshRing(N) \in [Slots(N) -> Int] /\ 0 \in Slots(N) /\ {} \subseteq Clients
    BY FreshTypes
  <2> SUFFICES ASSUME ReleaseResource
               PROVE  /\ resource' \in BOOLEAN /\ type' \in {"UNDEFINED", "STREAMING"}
                      /\ requests' \in Seq(Clients) /\ buffer' \in [Slots(N) -> Int]
                      /\ pivot' \in Slots(N) /\ head' \in Nat /\ feeders' \subseteq Clients
    OBVIOUS
  <2>3. /\ resource' = FALSE /\ type' = "UNDEFINED" /\ requests' = <<>>
        /\ buffer' = FreshRing(N) /\ pivot' = 0 /\ head' = 0 /\ feeders' = {}
    BY DEF ReleaseResource, N
  <2>4. buffer' \in [Slots(N) -> Int] /\ requests' \in Seq(Clients) /\ pivot' \in Slots(N)
    BY <2>1, <2>2, <2>3
  <2> QED
    BY <2>3, <2>4
<1>4. FillBuffer =>
        /\ buffer' \in [Slots(N) -> Int] /\ pivot' \in Slots(N) /\ head' \in Nat
  BY NextSlotValue, BufferAssumption DEF FillBuffer, Fill, EmptyBuffer, N
<1>5. Registered \subseteq Clients /\ Waiting \subseteq Clients
  BY ElementOfSeq, LenProperties DEF Registered, Waiting
<1>6. ASSUME NEW c \in Clients, ClientStep(c) PROVE TypeOK'
  <2>1. CASE Accept(c)
    BY <2>1 DEF Accept, muxVars, Conns, Peers
  <2>2. CASE PeerLeaves(c)
    <3>1. [conn[c] EXCEPT !.peer = "gone"] \in Conns
      BY DEF Conns, Peers
    <3>2. conn' = [conn EXCEPT ![c] = [conn[c] EXCEPT !.peer = "gone"]]
      BY <2>2 DEF PeerLeaves
    <3>3. conn' \in [Clients -> Conns]
      BY <3>1, <3>2
    <3> QED
      BY <2>2, <3>3 DEF PeerLeaves, muxVars
  <2>3. CASE RejectRead(c)
    BY <2>3 DEF RejectRead, muxVars, Conns
  <2>4. CASE JoinStream(c)
    <3>1. requests' \in Seq(Clients)
      BY <2>4, JoinRegistered DEF JoinStream
    <3>2. req' \in [Clients -> Requests]
      <4>1. StreamRequest \in Requests /\ HeaderRequest(StreamRequest) \in Requests
        BY NewRequestFields, RequestTypes
      <4>2. \/ req' = [req EXCEPT ![c] = StreamRequest]
            \/ req' = [req EXCEPT ![c] = HeaderRequest(StreamRequest)]
        BY <2>4 DEF JoinStream
      <4> QED
        BY <4>1, <4>2
    <3>3. conn' \in [Clients -> Conns]
      <4>1. conn' = [conn EXCEPT ![c] = [conn[c] EXCEPT !.entry = "done"]]
        BY <2>4 DEF JoinStream
      <4>2. [conn[c] EXCEPT !.entry = "done"] \in Conns
        BY ConnTypes
      <4> QED
        BY <4>1, <4>2
    <3>4. headers' \in [Clients -> Nat]
      BY <2>4 DEF JoinStream
    <3> QED
      BY <2>4, <3>1, <3>2, <3>3, <3>4 DEF JoinStream
  <2>5. CASE OpenStream(c)
    <3>1. /\ requests' \in Seq(Clients) /\ feeders' \subseteq Clients
          /\ buffer' \in [Slots(N) -> Int] /\ pivot' \in Slots(N)
      BY <2>5, FreshTypes DEF OpenStream, CreateMux, N
    <3>2. conn' \in [Clients -> Conns]
      <4>1. conn' = [conn EXCEPT ![c] = [conn[c] EXCEPT !.entry = "done"]]
        BY <2>5 DEF OpenStream
      <4>2. [conn[c] EXCEPT !.entry = "done"] \in Conns
        BY ConnTypes
      <4> QED
        BY <4>1, <4>2
    <3>3. req' \in [Clients -> Requests] /\ chain' \in [Clients -> Chains]
      BY <2>5, NewRequestFields DEF OpenStream, Chains
    <3> QED
      BY <2>5, <3>1, <3>2, <3>3 DEF OpenStream, CreateMux, N
  <2>6. CASE ErrorWritten(c)
    <3> DEFINE done == [conn EXCEPT ![c].entry = "done"]
    <3>1. done \in [Clients -> Conns]
      BY DEF Conns
    <3> HIDE DEF done
    <3>2. [done EXCEPT ![c].fd = "closed"] \in [Clients -> Conns]
      BY <3>1 DEF Conns
    <3>3. conn' = done \/ conn' = [done EXCEPT ![c].fd = "closed"]
      BY <2>6 DEF ErrorWritten, done
    <3> QED
      BY <2>6, <3>1, <3>2, <3>3 DEF ErrorWritten, muxVars
  <2> QED
    BY <1>6, <2>1, <2>2, <2>3, <2>4, <2>5, <2>6 DEF ClientStep
<1>7. ASSUME NEW c \in Clients, FetchStep(c) PROVE TypeOK'
  <2>1. CASE StatxDone(c) \/ DnsAnswer(c) \/ Connect(c) \/ ConnectRetry(c)
    BY <2>1 DEF StatxDone, AddFetchAAAARequest, DnsAnswer, Connect, ConnectRetry,
                muxVars, Chains
  <2>2. CASE FetchFails(c)
    <3>1. CASE ~resource
      BY <1>2, <2>2, <3>1 DEF FetchFails
    <3>2. CASE FetchEnds(c) /\ ReleaseErrorAllWaitingRequest
      <4>1. conn' \in [Clients -> Conns]
        BY <3>2 DEF ReleaseErrorAllWaitingRequest, Conns
      <4>2. req' \in [Clients -> Requests]
        BY <3>2, RequestTypes DEF ReleaseErrorAllWaitingRequest
      <4> QED
        BY <1>3, <3>2, <4>1, <4>2
        DEF FetchEnds, ReleaseErrorAllWaitingRequest, Chains, N
    <3>3. CASE FetchEnds(c) /\ CloseStream
      <4>1. req' \in [Clients -> Requests]
        BY <3>3, RequestTypes DEF CloseStream
      <4> QED
        BY <1>3, <3>3, <4>1 DEF FetchEnds, CloseStream, Chains, N
    <3> QED
      BY <2>2, <3>1, <3>2, <3>3 DEF FetchFails, FetchEnds
  <2>3. CASE HeaderRead(c)
    <3>1. CASE ~resource
      BY <1>2, <2>3, <3>1 DEF HeaderRead
    <3>2. CASE resource
      <4> SetStreamingResource
        BY <2>3, <3>2 DEF HeaderRead
      <4>1. req' \in [Clients -> Requests]
        BY RequestTypes DEF SetStreamingResource
      <4>2. headers' \in [Clients -> Nat] /\ type' = "STREAMING"
        BY DEF SetStreamingResource
      <4>3. /\ FillBuffer \/ UNCHANGED <<buffer, pivot, head>>
            /\ chain' = [chain EXCEPT ![c] = "content"]
            /\ feeders' = feeders \cup {c}
            /\ UNCHANGED <<resource, requests, conn, fault, pos>>
        BY <2>3, <3>2 DEF HeaderRead
      <4>4. chain' \in [Clients -> Chains] /\ feeders' \subseteq Clients
        BY <4>3 DEF Chains
      <4> QED
        BY <1>4, <4>1, <4>2, <4>3, <4>4 DEF N
    <3> QED
      BY <3>1, <3>2
  <2>4. CASE ContentRead(c)
    <3>1. CASE NotifyStream /\ feeders' = feeders \cup {c} /\ UNCHANGED chain
      <4>1. req' \in [Clients -> Requests]
        BY <3>1, RequestTypes DEF NotifyStream
      <4>2. pos' \in [Clients -> Nat]
        <5>1. ASSUME NEW d \in Clients, d \in Woken PROVE buffer'[req[d].pivot] + 1 \in Nat
          <6>1. req[d].pivot \in Slots(N)
            BY DEF Requests, N
          <6>2. buffer'[req[d].pivot] \in Int
            BY <1>4, <3>1, <6>1 DEF NotifyStream
          <6>3. buffer'[req[d].pivot] >= 0
            BY <5>1 DEF Woken, Holds
          <6> QED
            BY <6>2, <6>3
        <5> QED
          BY <3>1, <5>1 DEF NotifyStream
      <4> QED
        BY <1>4, <3>1, <4>1, <4>2 DEF NotifyStream, N
    <3>2. CASE /\ ReleaseResource
               /\ chain' = [chain EXCEPT ![c] = "ended"]
               /\ UNCHANGED <<conn, req, fault, pos, headers>>
      BY <1>3, <3>2 DEF Chains, N
    <3> QED
      BY <2>4, <3>1, <3>2 DEF ContentRead
  <2> QED
    BY <1>7, <2>1, <2>2, <2>3, <2>4 DEF FetchStep
<1>8. ASSUME NEW c \in Clients, StreamStep(c) PROVE TypeOK'
  <2>1. CASE HeaderWritten(c)
    <3>1. CASE ~resource
      BY <1>2, <2>1, <3>1 DEF HeaderWritten
    <3>2. CASE resource
      <4> DEFINE idle == [WriteCompleted(req[c]) EXCEPT !.pivot = StartPivot]
      <4>2. StartPivot \in Slots(N) /\ StartPos \in Nat
        BY StartTypes DEF TypeOK
      <4>3. idle \in Requests
        <5>1. WriteCompleted(req[c]) \in Requests
          BY <2>1, RequestTypes DEF HeaderWritten
        <5> QED
          BY <4>2, <5>1, FieldUpdate
      <4> HIDE DEF idle
      <4>4. Holds(buffer, StartPivot) => buffer[StartPivot] + 1 \in Nat
        BY <4>2 DEF Holds, N
      <4>5. BlockRequest(idle) \in Requests
        BY <4>3, RequestTypes
      <4>6. req' \in [Clients -> Requests] /\ pos' \in [Clients -> Nat]
        BY <2>1, <3>2, <4>2, <4>3, <4>4, <4>5 DEF HeaderWritten, idle
      <4> QED
        BY <2>1, <3>2, <4>6 DEF HeaderWritten, muxVars
    <3> QED
      BY <3>1, <3>2
  <2>2. CASE BlockWritten(c)
    <3>1. WriteCompleted(req[c]) \in Requests
      BY <2>2, RequestTypes DEF BlockWritten
    <3> QED
      BY <1>2, <2>2, <3>1 DEF BlockWritten, muxVars
  <2>3. CASE BlockRefused(c)
    <3>1. Released(WriteCompleted(req[c])) \in Requests
      BY <2>3, RequestTypes DEF BlockRefused
    <3>2. c \in Registered => Without(c) \in Seq(Clients)
      BY WithoutElements
    <3>3. CASE Crash("undefined")
      BY <1>2, <3>3
    <3>4. CASE /\ c \in Registered /\ requests' = Without(c)
               /\ req' = [req EXCEPT ![c] = Released(WriteCompleted(@))]
               /\ UNCHANGED <<resource, type, buffer, pivot, head, feeders>>
               /\ UNCHANGED <<conn, chain, fault, pos, headers>>
      BY <3>1, <3>2, <3>4
    <3>5. CASE /\ ReleaseResource
               /\ req' = [req EXCEPT ![c] = Released(WriteCompleted(@))]
               /\ UNCHANGED <<conn, chain, fault, pos, headers>>
      BY <1>3, <3>1, <3>5 DEF N
    <3>6. \/ Crash("undefined")
          \/ /\ req' = [req EXCEPT ![c] = Released(WriteCompleted(@))]
             /\ UNCHANGED <<conn, chain, fault, pos, headers>>
             /\ \/ /\ c \in Registered /\ requests' = Without(c)
                   /\ UNCHANGED <<resource, type, buffer, pivot, head, feeders>>
                \/ ReleaseResource
      BY <2>3 DEF BlockRefused
    <3> QED
      BY <3>3, <3>4, <3>5, <3>6
  <2>4. CASE HandleClose(c)
    <3>1. /\ req[c].closes > 0 => Released(CloseCompleted(req[c])) \in Requests
          /\ req[c].writes > 0 => Released(WriteCompleted(req[c])) \in Requests
      BY RequestTypes
    <3>2. req' \in [Clients -> Requests]
      BY <2>4, <3>1 DEF HandleClose
    <3>3. conn' = [conn EXCEPT ![c] = [conn[c] EXCEPT !.fd = "closed"]]
      BY <2>4 DEF HandleClose
    <3>4. [conn[c] EXCEPT !.fd = "closed"] \in Conns
      BY ConnTypes
    <3>5. conn' \in [Clients -> Conns]
      BY <3>3, <3>4
    <3> QED
      BY <2>4, <3>2, <3>5 DEF HandleClose, muxVars
  <2>5. CASE FreedCompleted(c)
    BY <1>2, <2>5 DEF FreedCompleted
  <2> QED
    BY <1>8, <2>1, <2>2, <2>3, <2>4, <2>5 DEF StreamStep
<1> QED
  BY <1>1, <1>6, <1>7, <1>8 DEF Next

-----------------------------------------------------------------------------
(* The ring of the Mux. *)

(* What a step can do to the ring. *)
LEMMA RingStep ==
  ASSUME [Next]_vars
  PROVE  \/ UNCHANGED <<buffer, pivot, head>>
         \/ FillBuffer
         \/ buffer' = FreshRing(N) /\ pivot' = 0 /\ head' = 0
<1> DEFINE Goal == \/ UNCHANGED <<buffer, pivot, head>>
                   \/ FillBuffer
                   \/ buffer' = FreshRing(N) /\ pivot' = 0 /\ head' = 0
<1>1. CASE UNCHANGED vars
  BY <1>1 DEF vars, muxVars
<1>2. ASSUME NEW c \in Clients, ClientStep(c) PROVE Goal
  BY <1>2 DEF ClientStep, Accept, PeerLeaves, RejectRead, JoinStream, OpenStream,
              ErrorWritten, CreateMux, muxVars, N
<1>3. ASSUME NEW c \in Clients, FetchStep(c) PROVE Goal
  <2>1. CASE StatxDone(c) \/ DnsAnswer(c) \/ Connect(c) \/ ConnectRetry(c)
    BY <2>1 DEF StatxDone, DnsAnswer, Connect, ConnectRetry, muxVars
  <2>2. CASE FetchFails(c)
    BY <2>2 DEF FetchFails, FetchEnds, Crash, CloseStream,
                ReleaseErrorAllWaitingRequest, ReleaseResource, muxVars, N
  <2>3. CASE HeaderRead(c)
    BY <2>3 DEF HeaderRead, Crash, muxVars
  <2>4. CASE ContentRead(c)
    BY <2>4 DEF ContentRead, NotifyStream, ReleaseResource, N
  <2> QED
    BY <1>3, <2>1, <2>2, <2>3, <2>4 DEF FetchStep
<1>4. ASSUME NEW c \in Clients, StreamStep(c) PROVE Goal
  <2>1. CASE HeaderWritten(c)
    BY <2>1 DEF HeaderWritten, Crash, muxVars
  <2>2. CASE BlockWritten(c) \/ HandleClose(c) \/ FreedCompleted(c)
    BY <2>2 DEF BlockWritten, HandleClose, FreedCompleted, Crash, muxVars
  <2>3. CASE BlockRefused(c)
    BY <2>3 DEF BlockRefused, Crash, ReleaseResource, muxVars, N
  <2> QED
    BY <1>4, <2>1, <2>2, <2>3 DEF StreamStep
<1> QED
  BY <1>1, <1>2, <1>3, <1>4 DEF Next

LEMMA RingInit == Init => RingHoldsNewest
BY FreshRingState, BufferAssumption DEF Init, RingHoldsNewest

LEMMA RingNext ==
  ASSUME TypeOK, RingHoldsNewest, [Next]_vars
  PROVE  RingHoldsNewest'
<1>1. CASE UNCHANGED <<buffer, pivot, head>>
  BY <1>1 DEF RingHoldsNewest
<1>2. CASE FillBuffer
  BY <1>2, FillRingState, BufferAssumption DEF FillBuffer, RingHoldsNewest, TypeOK
<1>3. CASE buffer' = FreshRing(N) /\ pivot' = 0 /\ head' = 0
  BY <1>3, FreshRingState, BufferAssumption DEF RingHoldsNewest, N
<1> QED
  BY <1>1, <1>2, <1>3, RingStep

-----------------------------------------------------------------------------
(* The requests of the clients and the vector of the Mux. *)

(* The vector has no pointer twice, and is empty when there is no Mux. *)
VectorInv ==
  /\ \A i, j \in DOMAIN requests : requests[i] = requests[j] => i = j
  /\ ~resource => requests = <<>>

(* A client's Request is registered or marked to be closed as long as it   *)
(* lives, has at most one write in flight and none when is_processing is   *)
(* clear.  Before the client's GET is read there is no Request, and there  *)
(* is none that lives when the client is answered with an error.           *)
ClientInv(c) ==
  LET r == req[c] IN
  /\ c \in Registered => r.state = "live" /\ r.event_type # "SERVER_CLOSE"
  /\ r.writes <= 1
  /\ (r.state = "live" /\ r.event_type # "SERVER_CLOSE" /\ ~r.is_processing)
       => r.writes = 0
  /\ r.state = "live" =>
       c \in Registered \/ (r.event_type = "SERVER_CLOSE" /\ r.closes > 0)
  /\ conn[c].entry \in {"none", "reading"} =>
       r.state = "none" /\ r.writes = 0 /\ pos[c] = 0 /\ headers[c] = 0
  /\ conn[c].entry = "failing" => r.state # "live"
  /\ conn[c].peer = "away" => conn[c].entry = "none"

RequestInv == VectorInv /\ \A c \in Clients : ClientInv(c)

LEMMA ReleaseRegistered ==
  ASSUME ReleaseResource
  PROVE  Registered' = {} /\ VectorInv'
BY DEF ReleaseResource, Registered, VectorInv

LEMMA VectorNext ==
  ASSUME TypeOK, RequestInv, [Next]_vars
  PROVE  VectorInv'
<1> USE DEF RequestInv
<1>0. CASE UNCHANGED <<resource, requests>>
  BY <1>0 DEF VectorInv
<1>1. CASE UNCHANGED vars
  BY <1>0, <1>1 DEF vars, muxVars
<1>2. ASSUME NEW c \in Clients, ClientStep(c) PROVE VectorInv'
  <2>1. CASE JoinStream(c)
    <3>1. c \notin Registered
      BY <2>1 DEF JoinStream, ClientInv
    <3>2. /\ \A i \in DOMAIN requests : i \in DOMAIN requests' /\ requests'[i] = requests[i]
          /\ \A i \in DOMAIN requests : requests[i] # c
      BY <2>1, <3>1, JoinRegistered DEF JoinStream, TypeOK, Registered
    <3>3. /\ DOMAIN requests' = 1 .. Len(requests) + 1
          /\ DOMAIN requests = 1 .. Len(requests) /\ Len(requests) \in Nat
      BY <2>1, AppendProperties, LenProperties DEF JoinStream, TypeOK
    <3>4. requests'[Len(requests) + 1] = c
      BY <2>1, AppendProperties DEF JoinStream, TypeOK
    <3> QED
      BY <2>1, <3>2, <3>3, <3>4 DEF JoinStream, VectorInv
  <2>2. CASE OpenStream(c)
    BY <2>2 DEF OpenStream, CreateMux, VectorInv
  <2>3. CASE Accept(c) \/ PeerLeaves(c) \/ RejectRead(c) \/ ErrorWritten(c)
    BY <1>0, <2>3 DEF Accept, PeerLeaves, RejectRead, ErrorWritten, muxVars
  <2> QED
    BY <1>2, <2>1, <2>2, <2>3 DEF ClientStep
<1>3. ASSUME NEW c \in Clients, FetchStep(c) PROVE VectorInv'
  BY <1>0, <1>3, ReleaseRegistered
  DEF FetchStep, StatxDone, DnsAnswer, Connect, ConnectRetry, FetchFails,
      FetchEnds, Crash, CloseStream, ReleaseErrorAllWaitingRequest, HeaderRead,
      SetStreamingResource, ContentRead, NotifyStream, muxVars
<1>4. ASSUME NEW c \in Clients, StreamStep(c) PROVE VectorInv'
  <2>1. CASE BlockRefused(c)
    <3>1. CASE c \in Registered /\ resource /\ resource' = resource /\ requests' = Without(c)
      BY <3>1, LeaveRegistered DEF VectorInv, TypeOK
    <3>2. CASE ReleaseResource
      BY <3>2, ReleaseRegistered
    <3> QED
      BY <1>0, <2>1, <3>1, <3>2 DEF BlockRefused, Crash, muxVars
  <2>2. CASE HeaderWritten(c)
    BY <1>0, <2>2 DEF HeaderWritten, Crash, muxVars
  <2>3. CASE BlockWritten(c) \/ HandleClose(c) \/ FreedCompleted(c)
    BY <1>0, <2>3 DEF BlockWritten, HandleClose, FreedCompleted, Crash, muxVars
  <2> QED
    BY <1>4, <2>1, <2>2, <2>3 DEF StreamStep
<1> QED
  BY <1>1, <1>2, <1>3, <1>4 DEF Next

(* A client whose Request, entry and registration a step leaves alone. *)
LEMMA ClientStays ==
  ASSUME NEW d \in Clients, ClientInv(d),
         Registered' = Registered, req'[d] = req[d], conn'[d] = conn[d],
         pos'[d] = pos[d], headers'[d] = headers[d]
  PROVE  ClientInv(d)'
BY DEF ClientInv

LEMMA ClientNext ==
  ASSUME TypeOK, RequestInv, [Next]_vars, NEW d \in Clients
  PROVE  ClientInv(d)'
<1>1. ClientInv(d)
  BY DEF RequestInv
<1>2. requests' = requests => Registered' = Registered
  BY DEF Registered
<1>3. req[d] \in Requests /\ conn[d] \in Conns
  BY DEF TypeOK
<1>4. CASE UNCHANGED vars
  BY <1>1, <1>2, <1>4, ClientStays DEF vars, muxVars
<1>5. ASSUME NEW how, Crash(how) PROVE ClientInv(d)'
  BY <1>1, <1>2, <1>5, ClientStays DEF Crash, muxVars
<1>6. ASSUME NEW c \in Clients, ClientStep(c) PROVE ClientInv(d)'
  <2>1. CASE Accept(c)
    <3>1. CASE c = d
      <4>1. conn'[d] = [peer |-> "open", fd |-> "open", entry |-> "reading"]
        BY <2>1, <3>1 DEF Accept, TypeOK
      <4>2. conn[d].peer = "away"
        BY <2>1, <3>1 DEF Accept
      <4> QED
        BY <1>1, <1>2, <2>1, <4>1, <4>2 DEF Accept, ClientInv, muxVars
    <3>2. CASE c # d
      BY <1>1, <1>2, <2>1, <3>2, ClientStays DEF Accept, muxVars, TypeOK
    <3> QED
      BY <3>1, <3>2
  <2>2. CASE PeerLeaves(c)
    <3>1. conn'[d].entry = conn[d].entry /\ (conn'[d].peer = "away" => conn[d].peer = "away")
      BY <2>2 DEF PeerLeaves, TypeOK, Conns
    <3> QED
      BY <1>1, <1>2, <2>2, <3>1 DEF PeerLeaves, ClientInv, muxVars
  <2>3. CASE RejectRead(c)
    <3>1. CASE c = d
      <4>1. conn'[d].entry = "failing" /\ conn'[d].peer = conn[d].peer /\ conn[d].entry = "reading"
        BY <2>3, <3>1 DEF RejectRead, TypeOK, Conns
      <4> QED
        BY <1>1, <1>2, <2>3, <4>1 DEF RejectRead, ClientInv, muxVars
    <3>2. CASE c # d
      BY <1>1, <1>2, <2>3, <3>2, ClientStays DEF RejectRead, muxVars, TypeOK
    <3> QED
      BY <3>1, <3>2
  <2>4. CASE JoinStream(c)
    <3>1. Registered' = Registered \cup {c}
      BY <2>4, JoinRegistered DEF JoinStream, TypeOK
    <3>2. CASE c = d
      <4>1. conn'[d].entry = "done" /\ conn'[d].peer = conn[d].peer /\ conn[d].entry = "reading"
        BY <2>4, <3>2 DEF JoinStream, TypeOK, Conns
      <4>2. req'[d] = StreamRequest \/ req'[d] = HeaderRequest(StreamRequest)
        BY <2>4, <3>2 DEF JoinStream, TypeOK
      <4>3. /\ req'[d].state = "live" /\ req'[d].event_type # "SERVER_CLOSE"
            /\ req'[d].writes <= 1
            /\ ~req'[d].is_processing => req'[d].writes = 0
        BY <4>2, NewRequestFields, RequestFields
      <4> QED
        BY <1>1, <3>1, <3>2, <4>1, <4>3 DEF ClientInv
    <3>3. CASE c # d
      <4>1. /\ req'[d] = req[d] /\ conn'[d] = conn[d] /\ pos'[d] = pos[d]
            /\ headers'[d] = headers[d]
        BY <2>4, <3>3 DEF JoinStream, TypeOK
      <4> QED
        BY <1>1, <3>1, <3>3, <4>1 DEF ClientInv
    <3> QED
      BY <3>2, <3>3
  <2>5. CASE OpenStream(c)
    <3>1. Registered = {} /\ Registered' = {c}
      BY <2>5 DEF OpenStream, CreateMux, Registered, RequestInv, VectorInv
    <3>2. CASE c = d
      <4>1. conn'[d].entry = "done" /\ conn'[d].peer = conn[d].peer /\ conn[d].entry = "reading"
        BY <2>5, <3>2 DEF OpenStream, TypeOK, Conns
      <4>2. req'[d] = StreamRequest
        BY <2>5, <3>2 DEF OpenStream, TypeOK
      <4> QED
        BY <1>1, <3>1, <3>2, <4>1, <4>2, NewRequestFields DEF ClientInv
    <3>3. CASE c # d
      <4>1. /\ req'[d] = req[d] /\ conn'[d] = conn[d] /\ pos'[d] = pos[d]
            /\ headers'[d] = headers[d]
        BY <2>5, <3>3 DEF OpenStream, TypeOK
      <4> QED
        BY <1>1, <3>1, <3>3, <4>1 DEF ClientInv
    <3> QED
      BY <3>2, <3>3
  <2>6. CASE ErrorWritten(c)
    <3>1. CASE c = d
      <4>1. conn'[d].entry = "done" /\ conn'[d].peer = conn[d].peer /\ conn[d].entry = "failing"
        BY <2>6, <3>1 DEF ErrorWritten, TypeOK, Conns
      <4> QED
        BY <1>1, <1>2, <2>6, <4>1 DEF ErrorWritten, ClientInv, muxVars
    <3>2. CASE c # d
      BY <1>1, <1>2, <2>6, <3>2, ClientStays DEF ErrorWritten, muxVars, TypeOK
    <3> QED
      BY <3>1, <3>2
  <2> QED
    BY <1>6, <2>1, <2>2, <2>3, <2>4, <2>5, <2>6 DEF ClientStep
<1>7. ASSUME NEW c \in Clients, FetchStep(c) PROVE ClientInv(d)'
  <2>1. CASE StatxDone(c) \/ DnsAnswer(c) \/ Connect(c) \/ ConnectRetry(c)
    BY <1>1, <1>2, <2>1, ClientStays
    DEF StatxDone, DnsAnswer, Connect, ConnectRetry, muxVars
  <2>2. CASE ReleaseErrorAllWaitingRequest
    <3>1. Registered' = {} /\ pos' = pos /\ headers' = headers
      BY <2>2, ReleaseRegistered DEF ReleaseErrorAllWaitingRequest
    <3>2. CASE d \in Registered
      <4>1. req'[d] = Released(req[d]) /\ conn'[d] = [conn[d] EXCEPT !.entry = "failing"]
        BY <2>2, <3>2 DEF ReleaseErrorAllWaitingRequest
      <4>2. /\ req'[d].state = "freed" /\ req'[d].writes = req[d].writes
            /\ conn'[d].entry = "failing" /\ conn'[d].peer = conn[d].peer
        BY <1>3, <4>1, RequestFields DEF Conns
      <4>3. conn[d].peer # "away"
        BY <1>1, <3>2 DEF ClientInv
      <4> QED
        BY <1>1, <3>1, <4>2, <4>3 DEF ClientInv
    <3>3. CASE d \notin Registered
      <4>1. req'[d] = req[d] /\ conn'[d] = conn[d]
        BY <2>2, <3>3 DEF ReleaseErrorAllWaitingRequest
      <4> QED
        BY <1>1, <3>1, <3>3, <4>1 DEF ClientInv
    <3> QED
      BY <3>2, <3>3
  <2>3. CASE CloseStream
    <3>1. Registered' = {} /\ pos' = pos /\ headers' = headers /\ conn' = conn
      BY <2>3, ReleaseRegistered DEF CloseStream
    <3>2. CASE d \in Registered
      <4>1. req'[d] = CloseRequest(req[d])
        BY <2>3, <3>2 DEF CloseStream
      <4>2. /\ req'[d].state = req[d].state /\ req'[d].writes = req[d].writes
            /\ req'[d].event_type = "SERVER_CLOSE" /\ req'[d].closes > 0
        BY <1>3, <4>1, RequestFields DEF Requests
      <4> QED
        BY <1>1, <3>1, <3>2, <4>2 DEF ClientInv
    <3>3. CASE d \notin Registered
      <4>1. req'[d] = req[d]
        BY <2>3, <3>3 DEF CloseStream
      <4> QED
        BY <1>1, <3>1, <3>3, <4>1 DEF ClientInv
    <3> QED
      BY <3>2, <3>3
  <2>4. CASE FetchFails(c)
    BY <1>5, <2>2, <2>3, <2>4 DEF FetchFails, FetchEnds
  <2>5. CASE HeaderRead(c)
    <3>1. CASE ~resource
      BY <1>5, <2>5, <3>1 DEF HeaderRead
    <3>2. CASE resource
      <4>1. /\ Registered' = Registered /\ conn' = conn /\ pos' = pos
            /\ SetStreamingResource
        BY <1>2, <2>5, <3>2 DEF HeaderRead
      <4>2. CASE d \in Waiting
        <5>1. req'[d] = HeaderRequest(req[d])
          BY <4>1, <4>2 DEF SetStreamingResource
        <5>2. d \in Registered /\ req[d].writes = 0
          BY <1>1, <4>2 DEF Waiting, ClientInv
        <5> QED
          BY <1>1, <1>3, <4>1, <5>1, <5>2, RequestFields DEF ClientInv
      <4>3. CASE d \notin Waiting
        BY <1>1, <4>1, <4>3, ClientStays DEF SetStreamingResource
      <4> QED
        BY <4>2, <4>3
    <3> QED
      BY <3>1, <3>2
  <2>6. CASE ContentRead(c)
    <3>1. CASE NotifyStream
      <4>1. Registered' = Registered /\ conn' = conn /\ headers' = headers
        BY <1>2, <3>1 DEF NotifyStream
      <4>2. CASE d \in Woken
        <5>1. req'[d] = BlockRequest(req[d])
          BY <3>1, <4>2 DEF NotifyStream
        <5>2. d \in Registered /\ req[d].writes = 0
          BY <1>1, <4>2 DEF Woken, Waiting, ClientInv
        <5> QED
          BY <1>1, <1>3, <4>1, <5>1, <5>2, RequestFields DEF ClientInv
      <4>3. CASE d \notin Woken
        BY <1>1, <3>1, <4>1, <4>3, ClientStays DEF NotifyStream
      <4> QED
        BY <4>2, <4>3
    <3>2. CASE ReleaseResource /\ requests = <<>> /\ UNCHANGED <<conn, req, fault, pos, headers>>
      <4>1. Registered' = Registered
        BY <3>2, ReleaseRegistered DEF Registered
      <4> QED
        BY <1>1, <3>2, <4>1, ClientStays
    <3> QED
      BY <2>6, <3>1, <3>2 DEF ContentRead
  <2> QED
    BY <1>7, <2>1, <2>4, <2>5, <2>6 DEF FetchStep
<1>8. ASSUME NEW c \in Clients, StreamStep(c) PROVE ClientInv(d)'
  <2>1. CASE HeaderWritten(c)
    <3>1. CASE ~resource
      BY <1>5, <2>1, <3>1 DEF HeaderWritten
    <3>2. CASE resource /\ c # d
      <4>1. requests' = requests /\ conn' = conn /\ headers' = headers
        BY <2>1, <3>2 DEF HeaderWritten, muxVars
      <4>2. req'[d] = req[d] /\ pos'[d] = pos[d]
        BY <2>1, <3>2 DEF HeaderWritten, TypeOK
      <4> QED
        BY <1>1, <1>2, <4>1, <4>2, ClientStays
    <3>3. CASE resource /\ c = d
      <4> DEFINE at == StartPivot
                 idle == [WriteCompleted(req[d]) EXCEPT !.pivot = at]
      <4>1. requests' = requests /\ conn' = conn /\ headers' = headers
        BY <2>1, <3>3 DEF HeaderWritten, muxVars
      <4>2. req'[d] = idle \/ req'[d] = BlockRequest(idle)
        BY <2>1, <3>3 DEF HeaderWritten, TypeOK
      <4>3. /\ req[d].state = "live" /\ req[d].event_type = "WRITE_HEADER"
            /\ req[d].writes > 0
        BY <2>1, <3>3 DEF HeaderWritten
      <4>4. at \in Slots(N)
        BY StartTypes
      <4> HIDE DEF at
      <4>5. WriteCompleted(req[d]) \in Requests
        BY <1>3, <4>3, RequestTypes
      <4>6. /\ idle \in Requests
            /\ idle.state = WriteCompleted(req[d]).state
            /\ idle.event_type = WriteCompleted(req[d]).event_type
            /\ idle.writes = WriteCompleted(req[d]).writes
        <5> DEFINE w == WriteCompleted(req[d])
        <5> HIDE DEF w
        <5>1. w \in Requests /\ idle = [w EXCEPT !.pivot = at]
          BY <4>5 DEF w
        <5>2. [w EXCEPT !.pivot = at] \in Requests
          BY <4>4, <5>1, FieldUpdate
        <5>3. /\ idle.state = w.state /\ idle.event_type = w.event_type
              /\ idle.writes = w.writes
          BY <5>1 DEF Requests
        <5> QED
          BY <5>1, <5>2, <5>3 DEF w
      <4>7. idle.state = "live" /\ idle.event_type = "WRITE_HEADER" /\ idle.writes = 0
        BY <1>1, <1>3, <4>3, <4>6, RequestFields DEF ClientInv, Requests
      <4> HIDE DEF idle
      <4>8. /\ req'[d].state = "live" /\ req'[d].event_type # "SERVER_CLOSE"
            /\ req'[d].writes <= 1
            /\ ~req'[d].is_processing => req'[d].writes = 0
        BY <4>2, <4>6, <4>7, RequestFields
      <4> QED
        BY <1>1, <1>2, <4>1, <4>3, <4>8 DEF ClientInv
    <3> QED
      BY <3>1, <3>2, <3>3
  <2>2. CASE BlockWritten(c)
    <3>1. CASE ~resource
      BY <1>5, <2>2, <3>1 DEF BlockWritten
    <3>2. CASE resource /\ c # d
      <4>1. requests' = requests /\ req'[d] = req[d] /\ UNCHANGED <<conn, pos, headers>>
        BY <2>2, <3>2 DEF BlockWritten, muxVars, TypeOK
      <4> QED
        BY <1>1, <1>2, <4>1, ClientStays
    <3>3. CASE resource /\ c = d
      <4>1. /\ requests' = requests /\ UNCHANGED <<conn, pos, headers>>
            /\ req'[d] = WriteCompleted(req[d])
            /\ req[d].state = "live" /\ req[d].event_type = "WRITE_PARTIAL"
            /\ req[d].writes > 0
        BY <2>2, <3>3 DEF BlockWritten, muxVars, TypeOK
      <4>2. /\ req'[d].state = "live" /\ req'[d].event_type = "WRITE_PARTIAL"
            /\ req'[d].writes = 0
        BY <1>1, <1>3, <4>1, RequestFields DEF ClientInv, Requests
      <4> QED
        BY <1>1, <1>2, <4>1, <4>2 DEF ClientInv
    <3> QED
      BY <3>1, <3>2, <3>3
  <2>3. CASE BlockRefused(c)
    <3>1. CASE Crash("undefined")
      BY <1>5, <3>1
    <3>2. CASE ~Crash("undefined")
      <4>1. /\ req' = [req EXCEPT ![c] = Released(WriteCompleted(@))]
            /\ UNCHANGED <<conn, pos, headers>>
            /\ \/ c \in Registered /\ requests' = Without(c)
               \/ ReleaseResource /\ (~resource \/ Registered = {c})
            /\ req[c].state = "live" /\ req[c].event_type = "WRITE_PARTIAL"
            /\ req[c].writes > 0
        BY <2>3, <3>2 DEF BlockRefused
      <4>2. Registered' = Registered \ {c}
        <5>1. CASE c \in Registered /\ requests' = Without(c)
          BY <5>1, LeaveRegistered DEF RequestInv, VectorInv, TypeOK
        <5>2. CASE ReleaseResource /\ (~resource \/ Registered = {c})
          BY <5>2, ReleaseRegistered DEF RequestInv, VectorInv, Registered
        <5> QED
          BY <4>1, <5>1, <5>2
      <4>3. CASE c # d
        <5>1. req'[d] = req[d]
          BY <4>1, <4>3 DEF TypeOK
        <5> QED
          BY <1>1, <4>1, <4>2, <4>3, <5>1 DEF ClientInv
      <4>4. CASE c = d
        <5>1. req'[d] = Released(WriteCompleted(req[d]))
          BY <4>1, <4>4 DEF TypeOK
        <5>2. WriteCompleted(req[d]) \in Requests
          BY <1>3, <4>1, <4>4, RequestTypes
        <5>3. req'[d].state = "freed" /\ req'[d].writes = 0
          BY <1>1, <1>3, <4>1, <4>4, <5>1, <5>2, RequestFields DEF ClientInv, Requests
        <5> QED
          BY <1>1, <4>1, <4>2, <4>4, <5>3 DEF ClientInv
      <4> QED
        BY <4>3, <4>4
    <3> QED
      BY <3>1, <3>2
  <2>4. CASE HandleClose(c)
    <3>1. CASE c # d
      <4>1. requests' = requests /\ req'[d] = req[d] /\ conn'[d] = conn[d] /\ UNCHANGED <<pos, headers>>
        BY <2>4, <3>1 DEF HandleClose, muxVars, TypeOK
      <4> QED
        BY <1>1, <1>2, <4>1, ClientStays
    <3>2. CASE c = d
      <4>1. /\ requests' = requests /\ UNCHANGED <<pos, headers>>
            /\ req[d].state = "live" /\ req[d].event_type = "SERVER_CLOSE"
            /\ \/ req[d].closes > 0 /\ req'[d] = Released(CloseCompleted(req[d]))
               \/ req[d].writes > 0 /\ req'[d] = Released(WriteCompleted(req[d]))
        BY <2>4, <3>2 DEF HandleClose, muxVars, TypeOK
      <4>2. conn'[d].entry = conn[d].entry /\ conn'[d].peer = conn[d].peer
        BY <2>4, <3>2 DEF HandleClose, TypeOK, Conns
      <4>3. /\ req[d].closes > 0 => CloseCompleted(req[d]) \in Requests
            /\ req[d].writes > 0 => WriteCompleted(req[d]) \in Requests
        BY <1>3, RequestTypes
      <4>4. req'[d].state = "freed" /\ req'[d].writes <= 1
        BY <1>1, <1>3, <4>1, <4>3, RequestFields DEF ClientInv, Requests
      <4> QED
        BY <1>1, <1>2, <4>1, <4>2, <4>4 DEF ClientInv
    <3> QED
      BY <3>1, <3>2
  <2>5. CASE FreedCompleted(c)
    BY <1>5, <2>5 DEF FreedCompleted
  <2> QED
    BY <1>8, <2>1, <2>2, <2>3, <2>4, <2>5 DEF StreamStep
<1> QED
  BY <1>4, <1>6, <1>7, <1>8 DEF Next

LEMMA RequestInit == Init => RequestInv
<1> SUFFICES ASSUME Init PROVE RequestInv
  OBVIOUS
<1>1. Registered = {} /\ VectorInv
  BY DEF Init, Registered, VectorInv
<1>2. ASSUME NEW c \in Clients PROVE ClientInv(c)
  BY <1>1, NewRequestFields DEF Init, ClientInv
<1> QED
  BY <1>1, <1>2 DEF RequestInv

LEMMA RequestNext ==
  ASSUME TypeOK, RequestInv, [Next]_vars
  PROVE  RequestInv'
BY VectorNext, ClientNext DEF RequestInv

-----------------------------------------------------------------------------
(* Where the clients are in the stream. *)

(* A registered client's slot is the slot of the block that it is to get   *)
(* next, and it is not ahead of the producer.                              *)
PosInv ==
  \A c \in Registered : req[c].pivot = pos[c] % N /\ pos[c] <= head

LEMMA StartOfRing == 0 % N = 0
BY ModOfSlot, FreshTypes, BufferAssumption DEF N

LEMMA RegisteredClients ==
  ASSUME TypeOK
  PROVE  Registered \subseteq Clients /\ Waiting \subseteq Clients
BY ElementOfSeq, LenProperties DEF Registered, Waiting, TypeOK

(* What HeaderWritten does to the position of its client. *)
LEMMA HeaderPosition ==
  ASSUME TypeOK, RingHoldsNewest, PosInv, NEW c \in Clients,
         HeaderWritten(c), resource
  PROVE  /\ req'[c].pivot = pos'[c] % N /\ pos'[c] <= head
         /\ pos'[c] >= StartPos
         /\ \A d \in Clients : d # c => req'[d] = req[d] /\ pos'[d] = pos[d]
         /\ UNCHANGED <<requests, head, headers, type>>
<1> DEFINE at == StartPivot
           from == StartPos
           idle == [WriteCompleted(req[c]) EXCEPT !.pivot = at]
<1>1. from \in Nat /\ from <= head /\ at = from % N
  <2>1. CASE requests # <<>>
    <3>1. requests[1] \in Registered
      BY <2>1, EmptySeq, LenProperties DEF Registered, TypeOK
    <3> QED
      BY <2>1, <3>1, RegisteredClients DEF PosInv, TypeOK, StartPivot, StartPos
  <2>2. CASE requests = <<>>
    BY <2>2 DEF RingHoldsNewest, RingState, TypeOK, N, StartPivot, StartPos
  <2> QED
    BY <2>1, <2>2
<1>2. at \in Slots(N)
  BY StartTypes
<1>3. /\ \/ Holds(buffer, at) /\ req' = [req EXCEPT ![c] = BlockRequest(idle)]
            /\ pos' = [pos EXCEPT ![c] = buffer[at] + 1]
         \/ req' = [req EXCEPT ![c] = idle] /\ pos' = [pos EXCEPT ![c] = from]
      /\ UNCHANGED <<requests, head, headers, type>>
      /\ req[c].writes > 0
  BY DEF HeaderWritten, muxVars
<1> HIDE DEF at, from
<1>4. idle \in Requests /\ idle.pivot = at
  <2> DEFINE w == WriteCompleted(req[c])
  <2>1. w \in Requests
    BY <1>3, RequestTypes DEF TypeOK
  <2> HIDE DEF w
  <2>2. [w EXCEPT !.pivot = at] \in Requests
    BY <1>2, <2>1, FieldUpdate
  <2>3. [w EXCEPT !.pivot = at].pivot = at
    BY <2>1 DEF Requests
  <2> QED
    BY <2>2, <2>3 DEF w
<1> HIDE DEF idle
<1>5. ASSUME Holds(buffer, at)
      PROVE  /\ from < buffer[at] + 1 /\ buffer[at] + 1 <= head
             /\ buffer[at] + 1 \in Nat
             /\ (buffer[at] + 1) % N = NextSlot(N, at)
  <2>1. /\ N \in Nat /\ N >= 2 /\ head \in Nat
        /\ RingState(N, buffer, pivot, head)
    BY BufferAssumption DEF RingHoldsNewest, TypeOK, N
  <2>2. from \in Nat /\ from <= head /\ at = SlotOf(N, from)
    BY <1>1 DEF SlotOf
  <2> HIDE DEF N
  <2> QED
    BY <1>5, <2>1, <2>2, SentBlock
<1>6. BlockRequest(idle).pivot = NextSlot(N, at)
  BY <1>4, RequestFields
<1>7. pos'[c] >= from
  BY <1>1, <1>3, <1>5 DEF TypeOK
<1> QED
  BY <1>1, <1>3, <1>4, <1>5, <1>6, <1>7 DEF TypeOK, from

(* What NotifyStream does to the position of a client that it wakes. *)
LEMMA WokenPosition ==
  ASSUME TypeOK, RingHoldsNewest, PosInv, NotifyStream, NEW c \in Woken
  PROVE  /\ pos'[c] > pos[c] /\ (pos'[c] - pos[c]) % N = 1
         /\ pos'[c] <= head + 1
         /\ req'[c].pivot = pos'[c] % N
<1>1. c \in Registered /\ c \in Clients
  BY RegisteredClients DEF Woken, Waiting
<1>2. RingState(N, buffer', pivot', head + 1)
  BY FillRingState, BufferAssumption DEF NotifyStream, FillBuffer, RingHoldsNewest, TypeOK, N
<1>3. req[c].pivot = pos[c] % N /\ pos[c] \in Nat /\ pos[c] <= head + 1 /\ head + 1 \in Nat
  BY <1>1 DEF PosInv, TypeOK
<1>4. Holds(buffer', req[c].pivot)
  BY DEF Woken
<1>5. pos'[c] = buffer'[req[c].pivot] + 1 /\ req'[c] = BlockRequest(req[c])
  BY <1>1 DEF NotifyStream
<1>6. req'[c].pivot = NextSlot(N, req[c].pivot)
  BY <1>1, <1>5, RequestFields DEF TypeOK
<1> DEFINE ring == buffer'
           k == pos[c]
           h == head + 1
           at == req[c].pivot
           next == pos'[c]
<1>7. RingState(N, ring, pivot', h) /\ k \in Nat /\ h \in Nat /\ k <= h
  BY <1>2, <1>3
<1>8. at = SlotOf(N, k) /\ Holds(ring, at)
  BY <1>3, <1>4 DEF SlotOf
<1>9. next = ring[at] + 1 /\ N \in Nat /\ N >= 2
  BY <1>5, BufferAssumption DEF N
<1> HIDE DEF ring, k, h, at, next, N
<1>10. /\ next \in Nat /\ k < next /\ next <= h
       /\ (next - k) % N = 1
       /\ next % N = NextSlot(N, at)
  BY <1>7, <1>8, <1>9, SentBlock
<1>11. next > k
  BY <1>7, <1>10
<1> QED
  BY <1>6, <1>10, <1>11 DEF k, h, at, next

LEMMA PosInit == Init => PosInv
BY DEF Init, Registered, PosInv

LEMMA PosNext ==
  ASSUME TypeOK, RingHoldsNewest, RequestInv, PosInv, [Next]_vars
  PROVE  PosInv'
<1> SUFFICES ASSUME NEW d \in Registered'
             PROVE  req'[d].pivot = pos'[d] % N /\ pos'[d] <= head'
  BY DEF PosInv, N
<1>1. requests' = requests => Registered' = Registered
  BY DEF Registered
<1>2. Registered \subseteq Clients
  BY RegisteredClients
<1>3. TypeOK'
  BY TypeNext
<1>4. d \in Clients
  BY <1>3, ElementOfSeq, LenProperties DEF Registered, TypeOK
<1>5. CASE /\ d \in Registered /\ head' = head /\ pos'[d] = pos[d]
           /\ req'[d].pivot = req[d].pivot
  BY <1>5 DEF PosInv
<1>6. CASE UNCHANGED vars
  BY <1>1, <1>5, <1>6 DEF vars, muxVars
<1>7. ASSUME NEW how, Crash(how) PROVE req'[d].pivot = pos'[d] % N /\ pos'[d] <= head'
  BY <1>1, <1>5, <1>7 DEF Crash, muxVars
<1>8. CASE ReleaseResource
  BY <1>8, ReleaseRegistered
<1>9. ASSUME NEW c \in Clients, ClientStep(c)
      PROVE  req'[d].pivot = pos'[d] % N /\ pos'[d] <= head'
  <2>1. CASE JoinStream(c)
    <3>1. Registered' = Registered \cup {c}
      BY <2>1, JoinRegistered DEF JoinStream, TypeOK
    <3>2. CASE d = c
      <4>1. pos'[d] = 0 /\ head' = head
        BY <2>1, <3>2 DEF JoinStream, RequestInv, ClientInv
      <4>2. req'[d] = StreamRequest \/ req'[d] = HeaderRequest(StreamRequest)
        BY <2>1, <3>2 DEF JoinStream, TypeOK
      <4>3. req'[d].pivot = 0
        BY <4>2, NewRequestFields, RequestFields
      <4> QED
        BY <4>1, <4>3, StartOfRing DEF TypeOK
    <3>3. CASE d # c
      BY <1>4, <1>5, <2>1, <3>1, <3>3 DEF JoinStream, TypeOK
    <3> QED
      BY <3>2, <3>3
  <2>2. CASE OpenStream(c)
    <3>1. d = c
      BY <2>2 DEF OpenStream, CreateMux, Registered
    <3>2. pos'[d] = 0 /\ head' = 0 /\ req'[d] = StreamRequest
      BY <2>2, <3>1 DEF OpenStream, CreateMux, RequestInv, ClientInv, TypeOK
    <3> QED
      BY <3>2, NewRequestFields, StartOfRing
  <2>3. CASE Accept(c) \/ PeerLeaves(c) \/ RejectRead(c) \/ ErrorWritten(c)
    BY <1>1, <1>5, <2>3 DEF Accept, PeerLeaves, RejectRead, ErrorWritten, muxVars
  <2> QED
    BY <1>9, <2>1, <2>2, <2>3 DEF ClientStep
<1>10. ASSUME NEW c \in Clients, FetchStep(c)
       PROVE  req'[d].pivot = pos'[d] % N /\ pos'[d] <= head'
  <2>1. CASE StatxDone(c) \/ DnsAnswer(c) \/ Connect(c) \/ ConnectRetry(c)
    BY <1>1, <1>5, <2>1 DEF StatxDone, DnsAnswer, Connect, ConnectRetry, muxVars
  <2>2. CASE FetchFails(c)
    BY <1>7, <1>8, <2>2 DEF FetchFails, FetchEnds, CloseStream, ReleaseErrorAllWaitingRequest
  <2>3. CASE HeaderRead(c)
    <3>1. CASE ~resource
      BY <1>7, <2>3, <3>1 DEF HeaderRead
    <3>2. CASE resource
      <4>1. /\ SetStreamingResource /\ requests' = requests /\ pos' = pos
            /\ head' = head \/ head' = head + 1
        BY <2>3, <3>2 DEF HeaderRead, FillBuffer
      <4>2. req'[d] = req[d] \/ req'[d] = HeaderRequest(req[d])
        BY <1>4, <4>1 DEF SetStreamingResource
      <4>3. req'[d].pivot = req[d].pivot
        BY <1>4, <4>2, RequestFields DEF TypeOK
      <4> QED
        BY <1>1, <1>4, <4>1, <4>3 DEF PosInv, TypeOK
    <3> QED
      BY <3>1, <3>2
  <2>4. CASE ContentRead(c)
    <3>1. CASE NotifyStream
      <4>1. head' = head + 1 /\ Registered' = Registered
        BY <1>1, <3>1 DEF NotifyStream, FillBuffer
      <4>2. CASE d \in Woken
        BY <3>1, <4>1, <4>2, WokenPosition
      <4>3. CASE d \notin Woken
        <5>1. req'[d] = req[d] /\ pos'[d] = pos[d]
          BY <1>4, <3>1, <4>3 DEF NotifyStream
        <5> QED
          BY <1>4, <4>1, <5>1 DEF PosInv, TypeOK
      <4> QED
        BY <4>2, <4>3
    <3> QED
      BY <1>8, <2>4, <3>1 DEF ContentRead
  <2> QED
    BY <1>10, <2>1, <2>2, <2>3, <2>4 DEF FetchStep
<1>11. ASSUME NEW c \in Clients, StreamStep(c)
       PROVE  req'[d].pivot = pos'[d] % N /\ pos'[d] <= head'
  <2>1. CASE HeaderWritten(c)
    <3>1. CASE ~resource
      BY <1>7, <2>1, <3>1 DEF HeaderWritten
    <3>2. CASE resource
      <4>1. d # c => req'[d] = req[d] /\ pos'[d] = pos[d]
        BY <1>4, <2>1, <3>2, HeaderPosition
      <4>2. /\ req'[c].pivot = pos'[c] % N /\ pos'[c] <= head
            /\ head' = head /\ requests' = requests
        BY <2>1, <3>2, HeaderPosition
      <4> QED
        BY <1>1, <1>5, <4>1, <4>2
    <3> QED
      BY <3>1, <3>2
  <2>2. CASE BlockWritten(c)
    <3>1. CASE ~resource
      BY <1>7, <2>2, <3>1 DEF BlockWritten
    <3>2. CASE resource
      <4>1. /\ requests' = requests /\ head' = head /\ pos' = pos
            /\ req' = [req EXCEPT ![c] = WriteCompleted(@)]
        BY <2>2, <3>2 DEF BlockWritten, muxVars
      <4>2. req'[d] = req[d] \/ req'[d] = WriteCompleted(req[d])
        BY <1>4, <4>1 DEF TypeOK
      <4>3. req'[d].pivot = req[d].pivot
        BY <1>4, <4>2, RequestFields DEF TypeOK
      <4> QED
        BY <1>1, <1>5, <4>1, <4>3
    <3> QED
      BY <3>1, <3>2
  <2>3. CASE BlockRefused(c)
    <3>1. CASE Crash("undefined")
      BY <1>7, <3>1
    <3>2. CASE /\ c \in Registered /\ requests' = Without(c)
               /\ req' = [req EXCEPT ![c] = Released(WriteCompleted(@))]
               /\ UNCHANGED <<head, pos>>
      <4>1. Registered' = Registered \ {c}
        BY <3>2, LeaveRegistered DEF RequestInv, VectorInv, TypeOK
      <4> QED
        BY <1>4, <1>5, <3>2, <4>1 DEF TypeOK
    <3> QED
      BY <1>8, <2>3, <3>1, <3>2 DEF BlockRefused
  <2>4. CASE HandleClose(c)
    <3>1. c \notin Registered /\ Registered' = Registered
      BY <1>1, <2>4 DEF HandleClose, RequestInv, ClientInv, muxVars
    <3> QED
      BY <1>4, <1>5, <2>4, <3>1 DEF HandleClose, muxVars, TypeOK
  <2>5. CASE FreedCompleted(c)
    BY <1>7, <2>5 DEF FreedCompleted
  <2> QED
    BY <1>11, <2>1, <2>2, <2>3, <2>4, <2>5 DEF StreamStep
<1> QED
  BY <1>6, <1>9, <1>10, <1>11 DEF Next

-----------------------------------------------------------------------------
(* The theorems. *)

(* Types, the ring, the requests and the positions, each inductive with    *)
(* the ones before it.                                                     *)
IInv == TypeOK /\ RingHoldsNewest /\ RequestInv /\ PosInv

(* The inductive invariant holds of every state of every execution of the  *)
(* handlers of Stream.cpp, Http.cpp and Server.cpp, whatever the order of  *)
(* the completions.                                                        *)
THEOREM Invariance == Spec => []IInv
<1>1. Init => IInv
  BY TypeInit, RingInit, RequestInit, PosInit DEF IInv
<1>2. IInv /\ [Next]_vars => IInv'
  BY TypeNext, RingNext, RequestNext, PosNext DEF IInv
<1> QED
  BY <1>1, <1>2, PTL DEF Spec

(* Every variable keeps its type: the fields of Mux and Request take only  *)
(* the values that the handlers expect of them.                            *)
THEOREM TypeCorrect == Spec => []TypeOK
<1>1. IInv => TypeOK
  BY DEF IInv
<1> QED
  BY <1>1, Invariance, PTL

(* The circular buffer of a Mux (Stream.cpp:155-168) holds the newest      *)
(* block of each slot and none in the slot of the producer.                *)
THEOREM RingCorrect == Spec => []RingHoldsNewest
<1>1. IInv => RingHoldsNewest
  BY DEF IInv
<1> QED
  BY <1>1, Invariance, PTL

(* A Request never has two writes in flight (Stream.cpp:132, 170 and       *)
(* Engine.cpp:281).                                                        *)
THEOREM OneWrite == Spec => []SingleFlight
<1>1. IInv => SingleFlight
  BY DEF IInv, SingleFlight, RequestInv, ClientInv
<1> QED
  BY <1>1, Invariance, PTL

(* mux->requests has no pointer twice and none to a Request that is freed  *)
(* or being closed (Stream.cpp:290, 304-312, Engine.cpp:309-311).          *)
THEOREM NoDanglingRequest == Spec => []RegisteredAreLive
<1>1. IInv => RegisteredAreLive
  BY RegisteredClients DEF IInv, RegisteredAreLive, RequestInv, VectorInv, ClientInv
<1> QED
  BY <1>1, Invariance, PTL

(* A Request that was not freed is registered or its nop is on the way     *)
(* (Stream.cpp:304-312).                                                   *)
THEOREM NoLostRequest == Spec => []LiveIsReachable
<1>1. IInv => LiveIsReachable
  BY DEF IInv, LiveIsReachable, RequestInv, ClientInv, TypeOK
<1> QED
  BY <1>1, Invariance, PTL

(* A client gets the stream or an error, never both (Stream.cpp:30-43,     *)
(* 226-229).                                                               *)
THEOREM OneAnswer == Spec => []ErrorExcludesStream
<1>1. IInv => ErrorExcludesStream
  BY DEF IInv, ErrorExcludesStream, RequestInv, ClientInv
<1> QED
  BY <1>1, Invariance, PTL

(* The ring, the vector of requests and the Requests of a Mux are sound    *)
(* (Stream.cpp:155-168, 275-312, Engine.cpp:281).                          *)
THEOREM MuxSound == Spec => []MuxIsSound
<1>1. /\ TypeOK /\ RingHoldsNewest /\ SingleFlight /\ RegisteredAreLive
      /\ LiveIsReachable /\ ErrorExcludesStream
      => MuxIsSound
  BY DEF MuxIsSound
<1> QED
  BY <1>1, TypeCorrect, RingCorrect, OneWrite, NoDanglingRequest,
     NoLostRequest, OneAnswer, PTL

(* A client whose slot is empty stands at the producer's slot, where the   *)
(* next block finds it (Stream.cpp:193-202).                               *)
THEOREM NobodyStranded == Spec => []NeverStranded
<1>1. IInv => NeverStranded
  <2> SUFFICES ASSUME IInv, NEW c \in Registered, ~Holds(buffer, req[c].pivot)
               PROVE  req[c].pivot = pivot
    BY DEF NeverStranded
  <2> DEFINE k == pos[c]
             at == req[c].pivot
  <2>1. k \in Nat /\ k <= head /\ at = SlotOf(N, k) /\ ~Holds(buffer, at)
    BY RegisteredClients DEF IInv, PosInv, TypeOK, SlotOf
  <2>2. /\ N \in Nat /\ N >= 2 /\ head \in Nat
        /\ RingState(N, buffer, pivot, head)
    BY BufferAssumption DEF IInv, RingHoldsNewest, TypeOK, N
  <2> HIDE DEF k, at, N
  <2>3. at = pivot
    BY <2>1, <2>2, IdleReader
  <2> QED
    BY <2>3 DEF at
<1> QED
  BY <1>1, Invariance, PTL

(* The two steps that move a client. *)
LEMMA Moves ==
  ASSUME TypeOK, Next, NEW d \in Clients, pos'[d] # pos[d]
  PROVE  \/ NotifyStream /\ d \in Woken
         \/ HeaderWritten(d) /\ resource
<1>1. PICK c \in Clients : ClientStep(c) \/ FetchStep(c) \/ StreamStep(c)
  BY DEF Next
<1>2. ~ClientStep(c)
  BY DEF ClientStep, Accept, PeerLeaves, RejectRead, JoinStream, OpenStream,
         ErrorWritten
<1>3. CASE FetchStep(c)
  <2>1. CASE StatxDone(c) \/ DnsAnswer(c) \/ Connect(c) \/ ConnectRetry(c)
    BY <2>1 DEF StatxDone, DnsAnswer, Connect, ConnectRetry
  <2>2. CASE FetchFails(c)
    BY <2>2 DEF FetchFails, FetchEnds, Crash, CloseStream,
                ReleaseErrorAllWaitingRequest
  <2>3. CASE HeaderRead(c)
    BY <2>3 DEF HeaderRead, Crash
  <2>4. CASE ContentRead(c)
    <3>1. NotifyStream
      BY <2>4 DEF ContentRead
    <3> QED
      BY <3>1 DEF NotifyStream
  <2> QED
    BY <1>3, <2>1, <2>2, <2>3, <2>4 DEF FetchStep
<1>4. CASE StreamStep(c)
  <2>1. CASE HeaderWritten(c)
    <3>1. resource
      BY <2>1 DEF HeaderWritten, Crash
    <3>2. \/ pos' = [pos EXCEPT ![c] = buffer[StartPivot] + 1]
          \/ pos' = [pos EXCEPT ![c] = StartPos]
      BY <2>1, <3>1 DEF HeaderWritten
    <3>3. c = d
      BY <3>2 DEF TypeOK
    <3> QED
      BY <2>1, <3>1, <3>3
  <2>2. CASE BlockWritten(c) \/ HandleClose(c) \/ FreedCompleted(c)
    BY <2>2 DEF BlockWritten, HandleClose, FreedCompleted, Crash
  <2>3. CASE BlockRefused(c)
    BY <2>3 DEF BlockRefused, Crash
  <2> QED
    BY <1>4, <2>1, <2>2, <2>3 DEF StreamStep
<1> QED
  BY <1>1, <1>2, <1>3, <1>4

(* From one block to the next a client's position grows by one, or by one  *)
(* more than whole laps of the ring (Stream.cpp:163-168, 194-213).         *)
THEOREM BlocksInOrder == Spec => InOrder
<1> DEFINE Advance ==
      \A c \in Clients :
        (req[c].event_type = "WRITE_PARTIAL" /\ pos'[c] # pos[c])
          => /\ pos'[c] > pos[c]
             /\ (pos'[c] - pos[c]) % StreamingBufferSize = 1
<1>1. ASSUME IInv, Next PROVE Advance
  <2> SUFFICES ASSUME NEW d \in Clients, req[d].event_type = "WRITE_PARTIAL",
                      pos'[d] # pos[d]
               PROVE  pos'[d] > pos[d] /\ (pos'[d] - pos[d]) % N = 1
    BY DEF N
  <2>1. ~HeaderWritten(d)
    BY DEF HeaderWritten
  <2>2. NotifyStream /\ d \in Woken
    BY <1>1, <2>1, Moves DEF IInv
  <2> QED
    BY <1>1, <2>2, WokenPosition DEF IInv
<1>2. IInv /\ [Next]_vars => [Advance]_vars
  BY <1>1
<1> QED
  BY <1>2, Invariance, PTL DEF Spec, InOrder

(* A client that has got the header is sent no block that the first        *)
(* registered client has gone past (Stream.cpp:80-85, 166-168).            *)
THEOREM JoinersStartFresh == Spec => FreshStart
<1> DEFINE Fresh ==
      \A c \in Clients :
        (req[c].event_type = "WRITE_HEADER" /\ req[c].is_processing
           /\ pos'[c] # pos[c])
          => pos'[c] >= StartPos
<1>1. ASSUME IInv, Next PROVE Fresh
  <2> SUFFICES ASSUME NEW d \in Clients, req[d].is_processing, pos'[d] # pos[d]
               PROVE  pos'[d] >= StartPos
    OBVIOUS
  <2>1. d \notin Woken
    BY DEF Woken, Waiting
  <2>2. HeaderWritten(d) /\ resource
    BY <1>1, <2>1, Moves DEF IInv
  <2> QED
    BY <1>1, <2>2, HeaderPosition DEF IInv
<1>2. IInv /\ [Next]_vars => [Fresh]_vars
  BY <1>1
<1> QED
  BY <1>2, Invariance, PTL DEF Spec, FreshStart

-----------------------------------------------------------------------------
(* The fetches and the resolver. *)

Unresolved == {"none", "statx", "dns", "dropped"}

(* A step of one fetch, as Lookup sees it. *)
LEMMA LookupStep ==
  ASSUME TypeOK, NEW c \in Clients, NEW to \in Chains,
         chain' = [chain EXCEPT ![c] = to]
  PROVE  /\ (LookupStatus[c] = "new" /\ to \in {"connect", "dns", "dropped"})
              => L!Ask(c)
         /\ (chain[c] = "dns" /\ to \in {"connect", "dropped"})
              => L!Settle({c})
         /\ (chain[c] \notin Unresolved /\ to \notin Unresolved)
              => UNCHANGED LookupStatus
         /\ (chain[c] = "none" /\ to = "statx") => UNCHANGED LookupStatus
<1> DEFINE Of(x) == IF x \in {"none", "statx"} THEN "new"
                    ELSE IF x = "dns" THEN "waiting"
                    ELSE IF x = "dropped" THEN "dropped"
                    ELSE "connect"
<1>1. /\ LookupStatus = [d \in Clients |-> Of(chain[d])]
      /\ LookupStatus' = [d \in Clients |-> Of(chain'[d])]
  BY DEF LookupStatus
<1>2. chain'[c] = to /\ \A d \in Clients \ {c} : chain'[d] = chain[d]
  BY DEF TypeOK
<1>3. /\ Of("connect") = "connect" /\ Of("dns") = "waiting"
      /\ Of("dropped") = "dropped"
      /\ Of("none") = "new" /\ Of("statx") = "new"
  OBVIOUS
<1>4. \A x : x \notin Unresolved => Of(x) = "connect"
  BY DEF Unresolved
<1> HIDE DEF Of
<1>5. LookupStatus' = [LookupStatus EXCEPT ![c] = Of(to)]
  BY <1>1, <1>2
<1>6. LookupStatus' = [d \in Clients |->
                         IF d \in {c} THEN Of(to) ELSE LookupStatus[d]]
  BY <1>1, <1>2
<1>7. LookupStatus[c] = Of(chain[c])
  BY <1>1
<1>8. Of(to) = LookupStatus[c] => UNCHANGED LookupStatus
  BY <1>1, <1>5
<1>9. LookupStatus[c] = "new" /\ to \in {"connect", "dns", "dropped"} => L!Ask(c)
  BY <1>3, <1>5 DEF L!Ask
<1>10. chain[c] = "dns" /\ to \in {"connect", "dropped"} => L!Settle({c})
  BY <1>3, <1>6, <1>7 DEF L!Settle
<1> QED
  BY <1>3, <1>4, <1>7, <1>8, <1>9, <1>10

(* A client without an answered request has started no fetch. *)
ChainStart ==
  \A c \in Clients : conn[c].entry \in {"none", "reading"} => chain[c] = "none"

LEMMA ConnFields ==
  ASSUME NEW r \in Conns
  PROVE  /\ \A x \in {"none", "reading", "failing", "done"} :
              [r EXCEPT !.entry = x].entry = x
         /\ [r EXCEPT !.fd = "closed"].entry = r.entry
         /\ [r EXCEPT !.peer = "gone"].entry = r.entry
BY DEF Conns

(* How the entry of a client and its fetch move. *)
LEMMA EntryNext ==
  ASSUME TypeOK, Next, NEW d \in Clients,
         conn'[d].entry \in {"none", "reading"}
  PROVE  /\ conn[d].entry \in {"none", "reading"} \/ conn[d].peer = "away"
         /\ chain'[d] = chain[d] \/ chain[d] # "none"
<1> USE DEF TypeOK
<1>1. PICK c \in Clients : ClientStep(c) \/ FetchStep(c) \/ StreamStep(c)
  BY DEF Next
<1>2. conn[d] \in Conns /\ conn[c] \in Conns
  OBVIOUS
<1>3. CASE ClientStep(c)
  <2>1. CASE Accept(c)
    BY <2>1 DEF Accept
  <2>2. CASE PeerLeaves(c)
    <3>1. conn' = [conn EXCEPT ![c] = [conn[c] EXCEPT !.peer = "gone"]]
      BY <2>2 DEF PeerLeaves
    <3>2. conn'[d].entry = conn[d].entry
      BY <1>2, <3>1, ConnFields
    <3> QED
      BY <2>2, <3>2 DEF PeerLeaves
  <2>3. CASE RejectRead(c) \/ JoinStream(c) \/ OpenStream(c)
    <3>1. conn[c].entry = "reading" /\ \A e \in Clients \ {c} : chain'[e] = chain[e]
      BY <2>3 DEF RejectRead, JoinStream, OpenStream
    <3>2. \E x \in {"failing", "done"} :
            conn' = [conn EXCEPT ![c] = [conn[c] EXCEPT !.entry = x]]
      BY <2>3 DEF RejectRead, JoinStream, OpenStream
    <3>3. d # c
      BY <1>2, <3>2, ConnFields
    <3> QED
      BY <3>1, <3>2, <3>3
  <2>4. CASE ErrorWritten(c)
    <3>1. conn'[c].entry = "done" /\ \A e \in Clients \ {c} : conn'[e] = conn[e]
      <4> DEFINE w == [conn[c] EXCEPT !.entry = "done", !.fd = "closed"]
                 v == [conn[c] EXCEPT !.entry = "done"]
      <4>1. conn' = [conn EXCEPT ![c] = w] \/ conn' = [conn EXCEPT ![c] = v]
        BY <2>4 DEF ErrorWritten
      <4>2. w.entry = "done"
        BY <1>2 DEF Conns
      <4>3. v.entry = "done"
        BY <1>2, ConnFields
      <4> HIDE DEF w, v
      <4> QED
        BY <4>1, <4>2, <4>3
    <3> QED
      BY <2>4, <3>1 DEF ErrorWritten
  <2> QED
    BY <1>3, <2>1, <2>2, <2>3, <2>4 DEF ClientStep
<1>4. CASE FetchStep(c)
  <2>1. chain[c] # "none"
    BY <1>4 DEF FetchStep, StatxDone, DnsAnswer, Connect, ConnectRetry,
       FetchFails, FetchEnds, HeaderRead, ContentRead
  <2>2. \A e \in Clients \ {c} : chain'[e] = chain[e]
    BY <1>4 DEF FetchStep, StatxDone, DnsAnswer, Connect, ConnectRetry,
       FetchFails, FetchEnds, HeaderRead, ContentRead, Crash
  <2>3. conn[d].entry \in {"none", "reading"}
    <3>1. CASE UNCHANGED conn
      BY <3>1
    <3>2. CASE ReleaseErrorAllWaitingRequest
      <4>1. conn'[d] = IF d \in Registered
                         THEN [conn[d] EXCEPT !.entry = "failing"] ELSE conn[d]
        BY <3>2 DEF ReleaseErrorAllWaitingRequest
      <4> QED
        BY <1>2, <4>1, ConnFields
    <3>3. UNCHANGED conn \/ ReleaseErrorAllWaitingRequest
      BY <1>4 DEF FetchStep, StatxDone, DnsAnswer, Connect, ConnectRetry,
         FetchFails, FetchEnds, CloseStream, HeaderRead, ContentRead,
         NotifyStream, Crash
    <3> QED
      BY <3>1, <3>2, <3>3
  <2> QED
    BY <2>1, <2>2, <2>3
<1>5. CASE StreamStep(c)
  <2>1. chain' = chain
    BY <1>5 DEF StreamStep, HeaderWritten, BlockWritten, BlockRefused,
       HandleClose, FreedCompleted, Crash
  <2>2. CASE HandleClose(c)
    <3>1. conn' = [conn EXCEPT ![c] = [conn[c] EXCEPT !.fd = "closed"]]
      BY <2>2 DEF HandleClose
    <3>2. conn'[d].entry = conn[d].entry
      BY <1>2, <3>1, ConnFields
    <3> QED
      BY <2>1, <3>2
  <2>3. CASE ~HandleClose(c)
    BY <1>5, <2>1, <2>3 DEF StreamStep, HeaderWritten, BlockWritten,
       BlockRefused, FreedCompleted, Crash
  <2> QED
    BY <2>2, <2>3
<1> QED
  BY <1>1, <1>3, <1>4, <1>5

LEMMA ChainStartNext == IInv /\ ChainStart /\ [Next]_vars => ChainStart'
<1> SUFFICES ASSUME IInv, ChainStart, [Next]_vars, NEW d \in Clients,
                    conn'[d].entry \in {"none", "reading"}
             PROVE  chain'[d] = "none"
  BY DEF ChainStart
<1>1. CASE UNCHANGED vars
  BY <1>1 DEF vars, ChainStart
<1>2. CASE Next
  <2>1. conn[d].peer = "away" => conn[d].entry = "none"
    BY DEF IInv, RequestInv, ClientInv
  <2>2. chain[d] = "none"
    BY <1>2, <2>1, EntryNext DEF IInv, ChainStart
  <2> QED
    BY <1>2, <2>2, EntryNext DEF IInv
<1> QED
  BY <1>1, <1>2

(* The fetches of the clients see of the resolver what Lookup promises,    *)
(* which Resolver implements (Engine.cpp:323-325, Dns.cpp:53-190).         *)
THEOREM LiveStreamLooksUp == Spec => FetchesLookUp
<1>1. Init => L!LookupInit /\ ChainStart
  BY DEF Init, LookupStatus, L!LookupInit, ChainStart
<1>2. IInv /\ ChainStart /\ [Next]_vars => [L!LookupNext]_LookupStatus
  <2> SUFFICES ASSUME IInv, ChainStart, [Next]_vars
               PROVE  L!LookupNext \/ UNCHANGED LookupStatus
    OBVIOUS
  <2>1. chain' = chain => UNCHANGED LookupStatus
    BY DEF LookupStatus
  <2>2. TypeOK
    BY DEF IInv
  <2>3. ASSUME NEW c \in Clients, ClientStep(c)
        PROVE  UNCHANGED LookupStatus
    <3>1. CASE OpenStream(c)
      <4>1. chain[c] = "none" /\ chain' = [chain EXCEPT ![c] = "statx"]
        BY <3>1 DEF OpenStream, ChainStart
      <4>2. "statx" \in Chains
        BY DEF Chains
      <4> QED
        BY <2>2, <4>1, <4>2, LookupStep
    <3>2. CASE ~OpenStream(c)
      BY <2>1, <2>3, <3>2 DEF ClientStep, Accept, PeerLeaves, RejectRead,
         JoinStream, ErrorWritten
    <3> QED
      BY <3>1, <3>2
  <2>4. ASSUME NEW c \in Clients, FetchStep(c)
        PROVE  L!LookupNext \/ UNCHANGED LookupStatus
    <3>1. CASE StatxDone(c)
      <4>1. PICK to \in AddFetchAAAARequest : chain' = [chain EXCEPT ![c] = to]
        BY <3>1 DEF StatxDone
      <4>2. to \in Chains /\ to \in {"connect", "dns", "dropped"}
        BY DEF Chains, AddFetchAAAARequest
      <4>3. LookupStatus[c] = "new"
        BY <3>1 DEF StatxDone, LookupStatus
      <4> QED
        BY <2>2, <4>1, <4>2, <4>3, LookupStep DEF L!LookupNext
    <3>2. CASE DnsAnswer(c)
      <4>1. PICK to \in {"connect", "dropped"} :
              chain[c] = "dns" /\ chain' = [chain EXCEPT ![c] = to]
        BY <3>2 DEF DnsAnswer
      <4>2. to \in Chains
        BY DEF Chains
      <4>3. L!Settle({c})
        BY <2>2, <4>1, <4>2, LookupStep
      <4> QED
        BY <4>3 DEF L!LookupNext
    <3>3. CASE \/ Connect(c) \/ ConnectRetry(c) \/ FetchFails(c)
               \/ HeaderRead(c) \/ ContentRead(c)
      <4>1. \/ chain' = chain
            \/ /\ chain[c] \notin Unresolved
               /\ \E to \in {"header", "retry", "content", "ended"} :
                    chain' = [chain EXCEPT ![c] = to]
        BY <3>3 DEF Connect, ConnectRetry, FetchFails, FetchEnds, HeaderRead,
           ContentRead, Crash, Unresolved
      <4>2. /\ {"header", "retry", "content", "ended"} \subseteq Chains
            /\ \A to \in {"header", "retry", "content", "ended"} :
                 to \notin Unresolved
        BY DEF Chains, Unresolved
      <4> QED
        BY <2>1, <2>2, <4>1, <4>2, LookupStep
    <3> QED
      BY <2>4, <3>1, <3>2, <3>3 DEF FetchStep
  <2>5. ASSUME NEW c \in Clients, StreamStep(c)
        PROVE  UNCHANGED LookupStatus
    BY <2>1, <2>5 DEF StreamStep, HeaderWritten, BlockWritten, BlockRefused,
       HandleClose, FreedCompleted, Crash
  <2>6. CASE UNCHANGED vars
    BY <2>1, <2>6 DEF vars
  <2> QED
    BY <2>3, <2>4, <2>5, <2>6 DEF Next
<1> QED
  BY <1>1, <1>2, ChainStartNext, Invariance, PTL
  DEF Spec, FetchesLookUp, L!LookupSpec

-----------------------------------------------------------------------------
(* Who feeds a Mux, and what may go wrong. *)

(* Before the Mux has a type nobody has been sent anything. *)
HeaderInv ==
  /\ HeaderForAll
  /\ (fault = "none" /\ type = "UNDEFINED") =>
       \A c \in Registered :
         /\ req[c].event_type = "none" /\ ~req[c].is_processing
         /\ headers[c] = 0

(* A fetch that is under way, or was dropped by the resolver. *)
Fetching(c) == chain[c] \notin {"none", "ended"}

(* As long as nobody leaves, the fetch of a Mux does not outlive it. *)
FeedInv ==
  /\ Fed
  /\ ~resource => feeders = {}
  /\ NobodyLeft =>
       /\ \A c \in Clients : Fetching(c) => feeders = {c}
       /\ \A c \in Clients : chain[c] = "content" => type = "STREAMING"
       /\ SingleFeeder

(* A Request that a handler of a running stream leaves behind is live, and *)
(* not being closed.                                                       *)
Streaming(r) == r.state # "freed" /\ r.event_type # "SERVER_CLOSE"

(* What the faults need: until a fetch has ended there is nothing freed.   *)
FaultInv ==
  /\ FaultNeedsDeparture
  /\ (NobodyLeft /\ NothingEnded) => \A c \in Clients : Streaming(req[c])

(* The fields of a connection that its steps leave alone. *)
LEMMA ConnSteps ==
  ASSUME NEW r \in Conns
  PROVE  /\ \A x \in {"none", "reading", "failing", "done"} :
              /\ [r EXCEPT !.entry = x].peer = r.peer
              /\ [r EXCEPT !.entry = x].fd = r.fd
         /\ [r EXCEPT !.fd = "closed"].peer = r.peer
         /\ [r EXCEPT !.fd = "closed"].fd = "closed"
         /\ [r EXCEPT !.peer = "gone"].peer = "gone"
BY DEF Conns

(* A peer that has gone does not come back. *)
LEMMA PeersNext ==
  ASSUME TypeOK, Next
  PROVE  /\ \A d \in Clients : conn[d].peer = "gone" => conn'[d].peer = "gone"
         /\ NobodyLeft' => NobodyLeft
<1>1. ASSUME NEW d \in Clients, conn[d].peer = "gone"
      PROVE  conn'[d].peer = "gone"
  <2>1. conn[d] \in Conns
    BY DEF TypeOK
  <2>2. CASE UNCHANGED conn
    BY <1>1, <2>2
  <2>3. PICK c \in Clients : ClientStep(c) \/ FetchStep(c) \/ StreamStep(c)
    BY DEF Next
  <2>4. CASE Accept(c) \/ PeerLeaves(c)
    <3>1. d # c
      BY <1>1, <2>4 DEF Accept, PeerLeaves
    <3> QED
      BY <1>1, <2>4, <3>1 DEF Accept, PeerLeaves, TypeOK
  <2>5. CASE RejectRead(c) \/ JoinStream(c) \/ OpenStream(c)
    <3>1. PICK x \in {"failing", "done"} :
            conn' = [conn EXCEPT ![c] = [conn[c] EXCEPT !.entry = x]]
      BY <2>5 DEF RejectRead, JoinStream, OpenStream
    <3> QED
      BY <1>1, <2>1, <3>1, ConnSteps DEF TypeOK
  <2>6. CASE ErrorWritten(c)
    <3> DEFINE v == [conn[c] EXCEPT !.entry = "done"]
               w == [v EXCEPT !.fd = "closed"]
    <3>1. conn' = [conn EXCEPT ![c] = w] \/ conn' = [conn EXCEPT ![c] = v]
      BY <2>6 DEF ErrorWritten
    <3>2. conn[c] \in Conns
      BY DEF TypeOK
    <3>3. v \in Conns /\ v.peer = conn[c].peer
      BY <3>2, ConnTypes, ConnSteps
    <3> HIDE DEF v
    <3>4. w.peer = conn[c].peer
      BY <3>3, ConnSteps
    <3> HIDE DEF w
    <3> QED
      BY <1>1, <3>1, <3>3, <3>4 DEF TypeOK
  <2>7. CASE ReleaseErrorAllWaitingRequest
    <3>1. conn'[d] = IF d \in Registered
                       THEN [conn[d] EXCEPT !.entry = "failing"] ELSE conn[d]
      BY <2>7 DEF ReleaseErrorAllWaitingRequest
    <3> QED
      BY <1>1, <2>1, <3>1, ConnSteps
  <2>8. CASE FetchStep(c)
    BY <2>2, <2>7, <2>8
       DEF FetchStep, StatxDone, DnsAnswer, Connect, ConnectRetry,
           FetchFails, FetchEnds, CloseStream, HeaderRead, ContentRead,
           NotifyStream, Crash
  <2>9. CASE HandleClose(c)
    <3>1. conn' = [conn EXCEPT ![c] = [conn[c] EXCEPT !.fd = "closed"]]
      BY <2>9 DEF HandleClose
    <3> QED
      BY <1>1, <2>1, <3>1, ConnSteps DEF TypeOK
  <2>10. CASE StreamStep(c) /\ ~HandleClose(c)
    BY <2>2, <2>10
       DEF StreamStep, HeaderWritten, BlockWritten, BlockRefused,
           FreedCompleted, Crash
  <2> QED
    BY <2>3, <2>4, <2>5, <2>6, <2>8, <2>9, <2>10 DEF ClientStep
<1> QED
  BY <1>1 DEF NobodyLeft

(* A Request with a write of the stream in flight is registered. *)
LEMMA WriterIsRegistered ==
  ASSUME RequestInv, NEW c \in Clients, req[c].state = "live",
         req[c].event_type # "SERVER_CLOSE"
  PROVE  c \in Registered /\ resource
<1>1. c \in Registered
  BY DEF RequestInv, ClientInv
<1> QED
  BY <1>1 DEF RequestInv, VectorInv, Registered

LEMMA HeaderNext ==
  ASSUME IInv, HeaderInv, Next
  PROVE  HeaderInv'
<1>0. /\ TypeOK /\ RequestInv /\ VectorInv /\ fault = "none"
      /\ \A c \in Clients : ClientInv(c)
      /\ Registered \subseteq Clients
  BY RegisteredClients DEF IInv, RequestInv, Next
<1>1. requests' = requests => Registered' = Registered
  BY DEF Registered
<1>2. CASE /\ type' = type /\ headers' = headers /\ Registered' \subseteq Registered
           /\ \A d \in Registered' : req'[d] = req[d]
  BY <1>0, <1>2 DEF HeaderInv, HeaderForAll
<1>3. CASE /\ type = "STREAMING" /\ headers' = headers /\ type' = type
           /\ Registered' \subseteq Registered
  BY <1>3 DEF HeaderInv, HeaderForAll
<1>4. CASE Registered' = {}
  BY <1>4 DEF HeaderInv, HeaderForAll
<1>5. CASE \E how : Crash(how)
  BY <1>1, <1>2, <1>5 DEF Crash, muxVars
<1>6. ASSUME NEW c \in Clients, ClientStep(c) PROVE HeaderInv'
  <2>1. CASE Accept(c) \/ PeerLeaves(c) \/ RejectRead(c) \/ ErrorWritten(c)
    BY <1>1, <1>2, <2>1
       DEF Accept, PeerLeaves, RejectRead, ErrorWritten, muxVars
  <2>2. CASE JoinStream(c)
    <3>1. /\ Registered' = Registered \cup {c} /\ c \notin Registered
          /\ type' = type /\ headers[c] = 0 /\ headers[c] \in Nat
      BY <1>0, <2>2, JoinRegistered DEF JoinStream, TypeOK, ClientInv
    <3>2. \A d \in Registered : d # c /\ req'[d] = req[d] /\ headers'[d] = headers[d]
      BY <1>0, <2>2, <3>1 DEF JoinStream, TypeOK
    <3>3. CASE type = "UNDEFINED"
      <4>1. req'[c] = StreamRequest /\ headers'[c] = 0
        BY <1>0, <2>2, <3>1, <3>3 DEF JoinStream, TypeOK
      <4> QED
        BY <1>0, <3>1, <3>2, <3>3, <4>1, NewRequestFields
           DEF HeaderInv, HeaderForAll
    <3>4. CASE type # "UNDEFINED"
      <4>1. headers'[c] = headers[c] + 1
        BY <1>0, <2>2, <3>4 DEF JoinStream, TypeOK
      <4>2. headers'[c] > 0
        BY <3>1, <4>1
      <4> QED
        BY <3>1, <3>2, <3>4, <4>2 DEF HeaderInv, HeaderForAll, TypeOK
    <3> QED
      BY <3>3, <3>4
  <2>3. CASE OpenStream(c)
    <3>1. /\ Registered' = {c} /\ type' = "UNDEFINED"
          /\ req'[c] = StreamRequest /\ headers'[c] = 0
      BY <1>0, <2>3 DEF OpenStream, CreateMux, Registered, TypeOK, ClientInv
    <3> QED
      BY <3>1, NewRequestFields DEF HeaderInv, HeaderForAll
  <2> QED
    BY <1>6, <2>1, <2>2, <2>3 DEF ClientStep
<1>7. ASSUME NEW c \in Clients, FetchStep(c) PROVE HeaderInv'
  <2>1. CASE StatxDone(c) \/ DnsAnswer(c) \/ Connect(c) \/ ConnectRetry(c)
    BY <1>1, <1>2, <2>1
       DEF StatxDone, DnsAnswer, Connect, ConnectRetry, muxVars
  <2>2. CASE FetchFails(c)
    BY <1>4, <1>5, <2>2, ReleaseRegistered
       DEF FetchFails, FetchEnds, CloseStream, ReleaseErrorAllWaitingRequest
  <2>3. CASE HeaderRead(c) /\ resource
    <3>1. Registered' = Registered /\ type' = "STREAMING" /\ SetStreamingResource
      BY <1>1, <2>3 DEF HeaderRead, SetStreamingResource
    <3>2. ASSUME NEW d \in Registered PROVE headers'[d] > 0
      <4>1. d \in Clients /\ headers[d] \in Nat
        BY <1>0 DEF TypeOK
      <4>2. headers'[d] = IF d \in Waiting THEN headers[d] + 1 ELSE headers[d]
        BY <3>1, <4>1 DEF SetStreamingResource
      <4>3. d \in Waiting \/ headers[d] > 0
        BY <1>0, <3>2 DEF HeaderInv, HeaderForAll, Waiting, TypeOK
      <4> QED
        BY <4>1, <4>2, <4>3
    <3> QED
      BY <3>1, <3>2 DEF HeaderInv, HeaderForAll
  <2>4. CASE NotifyStream
    <3>1. Registered' = Registered /\ type' = type /\ headers' = headers
      BY <1>1, <2>4 DEF NotifyStream
    <3>2. CASE type = "STREAMING"
      BY <1>3, <3>1, <3>2
    <3>3. CASE type = "UNDEFINED"
      <4>1. CASE Woken = {}
        <5>1. \A d \in Clients : req'[d] = req[d]
          BY <2>4, <4>1 DEF NotifyStream
        <5> QED
          BY <1>0, <1>2, <3>1, <5>1
      <4>2. CASE Woken # {}
        <5>1. \E d \in Woken : headers[d] = 0
          BY <1>0, <3>3, <4>2 DEF HeaderInv, Woken, Waiting
        <5>2. fault' = "undefined"
          BY <2>4, <5>1 DEF NotifyStream
        <5> QED
          BY <3>1, <3>3, <5>2 DEF HeaderInv, HeaderForAll
      <4> QED
        BY <4>1, <4>2
    <3> QED
      BY <1>0, <3>2, <3>3 DEF TypeOK
  <2>5. CASE ContentRead(c)
    BY <1>4, <2>4, <2>5, ReleaseRegistered DEF ContentRead
  <2> QED
    BY <1>5, <1>7, <2>1, <2>2, <2>3, <2>5 DEF FetchStep, HeaderRead
<1>8. ASSUME NEW c \in Clients, StreamStep(c) PROVE HeaderInv'
  <2>1. CASE HeaderWritten(c) \/ BlockWritten(c) \/ BlockRefused(c)
    <3>1. /\ req[c].state = "live"
          /\ req[c].event_type \in {"WRITE_HEADER", "WRITE_PARTIAL"}
      BY <2>1 DEF HeaderWritten, BlockWritten, BlockRefused
    <3>2. c \in Registered /\ resource
      BY <1>0, <3>1, WriterIsRegistered
    <3>3. type = "STREAMING"
      BY <1>0, <3>1, <3>2 DEF HeaderInv, TypeOK
    <3>4. CASE HeaderWritten(c) \/ BlockWritten(c)
      <4>1. UNCHANGED <<type, headers, requests>>
        BY <3>2, <3>4 DEF HeaderWritten, BlockWritten, muxVars
      <4> QED
        BY <1>1, <1>3, <3>3, <4>1
    <3>5. CASE BlockRefused(c)
      <4>1. \/ requests' = Without(c) /\ UNCHANGED <<type, headers>>
            \/ ReleaseResource
        BY <3>2, <3>5 DEF BlockRefused
      <4>2. requests' = Without(c) => Registered' = Registered \ {c}
        BY <1>0, <3>2, LeaveRegistered DEF VectorInv, TypeOK
      <4> QED
        BY <1>3, <1>4, <3>3, <4>1, <4>2, ReleaseRegistered
    <3> QED
      BY <2>1, <3>4, <3>5
  <2>2. CASE HandleClose(c)
    <3>1. c \notin Registered
      BY <1>0, <2>2 DEF HandleClose, ClientInv
    <3>2. UNCHANGED <<type, headers, requests>>
      BY <2>2 DEF HandleClose, muxVars
    <3>3. \A d \in Registered : req'[d] = req[d]
      BY <1>0, <2>2, <3>1 DEF HandleClose, TypeOK
    <3> QED
      BY <1>1, <1>2, <3>2, <3>3
  <2> QED
    BY <1>5, <1>8, <2>1, <2>2 DEF StreamStep, FreedCompleted
<1> QED
  BY <1>6, <1>7, <1>8 DEF Next

(* How a step moves the fetches: a fetch ends only together with the Mux,  *)
(* whichever that is, and one that reads a block feeds the Mux.            *)
LEMMA ChainMoves ==
  ASSUME TypeOK, NEW c \in Clients, NEW x, chain' = [chain EXCEPT ![c] = x]
  PROVE  chain'[c] = x /\ \A d \in Clients \ {c} : chain'[d] = chain[d]
BY DEF TypeOK

LEMMA FeedNext ==
  ASSUME IInv, HeaderInv, FeedInv, Next
  PROVE  FeedInv'
<1>0. /\ TypeOK /\ RequestInv /\ VectorInv
      /\ Registered \subseteq Clients
      /\ NobodyLeft' => NobodyLeft
  BY RegisteredClients, PeersNext DEF IInv, RequestInv
<1>1. CASE UNCHANGED <<resource, requests, type, chain, feeders>>
  BY <1>0, <1>1 DEF FeedInv, Fed, Fetching, SingleFeeder
<1>2. CASE \E how : Crash(how)
  BY <1>1, <1>2 DEF Crash, muxVars
<1>3. ASSUME NEW c \in Clients, ReleaseResource, Fetching(c),
             chain' = [chain EXCEPT ![c] = "ended"]
      PROVE  FeedInv'
  <2>1. ~resource' /\ feeders' = {}
    BY <1>3 DEF ReleaseResource
  <2>2. chain'[c] = "ended" /\ \A d \in Clients \ {c} : chain'[d] = chain[d]
    BY <1>0, <1>3, ChainMoves
  <2>3. NobodyLeft => \A d \in Clients : ~Fetching(d)'
    BY <1>3, <2>2 DEF FeedInv, Fetching
  <2> QED
    BY <1>0, <2>1, <2>3 DEF FeedInv, Fed, Fetching, SingleFeeder
<1>4. ASSUME NEW c \in Clients, Fetching(c), NEW x,
             chain' = [chain EXCEPT ![c] = x], x \notin {"none", "ended"},
             UNCHANGED <<resource, requests>>,
             feeders' = feeders \/ (resource /\ feeders' = feeders \cup {c}),
             x = "content" => type' = "STREAMING",
             x # "content" => type' = type
      PROVE  FeedInv'
  <2>1. chain'[c] = x /\ \A d \in Clients \ {c} : chain'[d] = chain[d]
    BY <1>0, <1>4, ChainMoves
  <2>2. \A d \in Clients : Fetching(d)' <=> Fetching(d)
    BY <1>4, <2>1 DEF Fetching
  <2>3. Fed' /\ (~resource' => feeders' = {})
    BY <1>4, <2>2 DEF FeedInv, Fed, Fetching
  <2>4. ASSUME NobodyLeft
        PROVE  /\ \A d \in Clients : Fetching(d)' => feeders' = {d}
               /\ \A d \in Clients : chain'[d] = "content" => type' = "STREAMING"
               /\ \A d, e \in feeders' : d = e
    <3>1. feeders = {c} /\ feeders' = {c}
      BY <1>4, <2>4 DEF FeedInv
    <3>2. \A d \in Clients : Fetching(d) => d = c
      BY <2>4, <3>1 DEF FeedInv
    <3>3. \A d \in Clients : chain'[d] = "content" => d = c
      BY <2>2, <3>2 DEF Fetching
    <3> QED
      BY <1>4, <2>1, <2>2, <3>1, <3>2, <3>3
  <2> QED
    BY <1>0, <2>3, <2>4 DEF FeedInv, SingleFeeder
<1>5. ASSUME NEW c \in Clients, ClientStep(c) PROVE FeedInv'
  <2>1. CASE Accept(c) \/ PeerLeaves(c) \/ RejectRead(c) \/ ErrorWritten(c)
    BY <1>1, <2>1 DEF Accept, PeerLeaves, RejectRead, ErrorWritten, muxVars
  <2>2. CASE JoinStream(c)
    <3>1. /\ requests' = Append(requests, c)
          /\ UNCHANGED <<resource, type, chain, feeders>>
      BY <2>2 DEF JoinStream
    <3>2. c \in Registered'
      BY <1>0, <3>1, JoinRegistered DEF TypeOK
    <3>3. requests' # <<>>
      BY <3>2 DEF Registered
    <3> QED
      BY <1>0, <3>1, <3>3 DEF FeedInv, Fed, Fetching, SingleFeeder
  <2>3. CASE OpenStream(c)
    <3>1. /\ ~resource /\ resource' /\ requests' = <<c>> /\ feeders' = {c}
          /\ chain' = [chain EXCEPT ![c] = "statx"]
      BY <2>3 DEF OpenStream, CreateMux
    <3>2. chain'[c] = "statx" /\ \A d \in Clients \ {c} : chain'[d] = chain[d]
      BY <1>0, <3>1, ChainMoves
    <3>3. Fed' /\ (~resource' => feeders' = {})
      BY <3>1, <3>2 DEF Fed
    <3>4. NobodyLeft => \A d \in Clients : ~Fetching(d)
      BY <3>1 DEF FeedInv
    <3>5. NobodyLeft => \A d \in Clients \ {c} :
                           ~Fetching(d)' /\ chain'[d] # "content"
      BY <3>2, <3>4 DEF Fetching
    <3> QED
      BY <1>0, <3>1, <3>2, <3>3, <3>5 DEF FeedInv, SingleFeeder
  <2> QED
    BY <1>5, <2>1, <2>2, <2>3 DEF ClientStep
<1>6. ASSUME NEW c \in Clients, FetchStep(c) PROVE FeedInv'
  <2>1. CASE StatxDone(c) \/ DnsAnswer(c) \/ Connect(c) \/ ConnectRetry(c)
    <3>1. PICK x \in {"connect", "dns", "dropped", "header", "retry"} :
            chain' = [chain EXCEPT ![c] = x]
      BY <2>1 DEF StatxDone, DnsAnswer, Connect, ConnectRetry,
                  AddFetchAAAARequest
    <3>2. Fetching(c) /\ UNCHANGED <<resource, requests, type, feeders>>
      BY <2>1 DEF StatxDone, DnsAnswer, Connect, ConnectRetry, Fetching,
                  muxVars
    <3>3. x \notin {"none", "ended"} /\ (x = "content" => type' = "STREAMING")
      OBVIOUS
    <3>4. /\ UNCHANGED <<resource, requests>>
          /\ feeders' = feeders \/ (resource /\ feeders' = feeders \cup {c})
          /\ x # "content" => type' = type
      BY <3>2
    <3>5. Fetching(c)
      BY <3>2
    <3> HIDE DEF Fetching
    <3> QED
      BY <1>4, <3>1, <3>3, <3>4, <3>5
  <2>2. CASE FetchFails(c) /\ resource
    <3>1. /\ ReleaseResource /\ Fetching(c)
          /\ chain' = [chain EXCEPT ![c] = "ended"]
      BY <2>2 DEF FetchFails, FetchEnds, CloseStream,
                  ReleaseErrorAllWaitingRequest, Fetching
    <3> QED
      BY <1>3, <3>1
  <2>3. CASE HeaderRead(c) /\ resource
    <3>1. /\ Fetching(c) /\ chain' = [chain EXCEPT ![c] = "content"]
          /\ UNCHANGED <<resource, requests>> /\ type' = "STREAMING"
          /\ feeders' = feeders \cup {c}
      BY <2>3 DEF HeaderRead, SetStreamingResource, Fetching
    <3>2. "content" \notin {"none", "ended"}
      OBVIOUS
    <3> QED
      BY <1>4, <2>3, <3>1, <3>2
  <2>4. CASE /\ chain[c] = "content" /\ resource /\ NotifyStream
             /\ chain' = chain /\ feeders' = feeders \cup {c}
    <3>1. Fetching(c) /\ UNCHANGED <<resource, requests, type>> /\ resource
      BY <2>4 DEF NotifyStream, Fetching
    <3>2. feeders' = feeders \cup {c}
      BY <2>4
    <3>3. Fed' /\ (~resource' => feeders' = {})
      BY <2>4, <3>1, <3>2 DEF FeedInv, Fed
    <3>4. NobodyLeft => feeders' = feeders
      BY <3>1, <3>2 DEF FeedInv
    <3> QED
      BY <1>0, <2>4, <3>1, <3>3, <3>4 DEF FeedInv, Fetching, SingleFeeder
  <2>5. CASE ContentRead(c) /\ ReleaseResource
             /\ chain' = [chain EXCEPT ![c] = "ended"]
    <3>1. Fetching(c)
      BY <2>5 DEF ContentRead, Fetching
    <3> QED
      BY <1>3, <2>5, <3>1
  <2>6. CASE ContentRead(c)
    BY <2>4, <2>5, <2>6 DEF ContentRead
  <2> QED
    BY <1>2, <1>6, <2>1, <2>2, <2>3, <2>6
       DEF FetchStep, HeaderRead, FetchFails
<1>7. ASSUME NEW c \in Clients, StreamStep(c) PROVE FeedInv'
  <2>1. CASE HeaderWritten(c) \/ BlockWritten(c) \/ HandleClose(c)
    BY <1>1, <1>2, <2>1 DEF HeaderWritten, BlockWritten, HandleClose, muxVars
  <2>2. CASE BlockRefused(c)
    <3>1. /\ req[c].state = "live" /\ req[c].event_type = "WRITE_PARTIAL"
          /\ conn[c].peer = "gone"
      BY <2>2 DEF BlockRefused
    <3>2. c \in Registered /\ resource
      BY <1>0, <3>1, WriterIsRegistered
    <3>3. ~NobodyLeft
      BY <3>1 DEF NobodyLeft
    <3>4. type = "STREAMING"
      BY <1>0, <3>1, <3>2 DEF HeaderInv, TypeOK, Next
    <3>5. CASE ReleaseResource
      BY <1>0, <3>3, <3>5 DEF FeedInv, Fed, ReleaseResource
    <3>6. CASE ~ReleaseResource
      <4>1. /\ requests' = Without(c) /\ Registered # {c}
            /\ UNCHANGED <<resource, feeders>> /\ chain' = chain
        BY <2>2, <3>2, <3>4, <3>6 DEF BlockRefused
      <4>2. Registered' = Registered \ {c}
        BY <1>0, <3>2, <4>1, LeaveRegistered DEF VectorInv, TypeOK
      <4>3. requests' # <<>>
        BY <3>2, <4>1, <4>2 DEF Registered
      <4> QED
        BY <1>0, <3>3, <4>1, <4>3 DEF FeedInv, Fed
    <3> QED
      BY <3>5, <3>6
  <2> QED
    BY <1>2, <1>7, <2>1, <2>2 DEF StreamStep, FreedCompleted
<1> QED
  BY <1>5, <1>6, <1>7 DEF Next

(* A fetch that has ended stays so: its client has had its request.        *)
LEMMA EndedStays ==
  ASSUME TypeOK, ChainStart, Next
  PROVE  NothingEnded' => NothingEnded
<1> SUFFICES ASSUME NEW d \in Clients, chain[d] = "ended"
             PROVE  chain'[d] = "ended"
  BY DEF NothingEnded
<1>1. CASE chain' = chain
  BY <1>1
<1>2. ASSUME NEW c \in Clients, NEW x, chain' = [chain EXCEPT ![c] = x],
             chain[c] # "ended" \/ x = "ended"
      PROVE  chain'[d] = "ended"
  BY <1>2, ChainMoves
<1>3. PICK c \in Clients : ClientStep(c) \/ FetchStep(c) \/ StreamStep(c)
  BY DEF Next
<1>4. CASE OpenStream(c)
  <2>1. chain[c] = "none" /\ chain' = [chain EXCEPT ![c] = "statx"]
    BY <1>4 DEF OpenStream, ChainStart
  <2> QED
    BY <1>2, <2>1
<1>5. CASE ClientStep(c) /\ ~OpenStream(c)
  BY <1>1, <1>5
     DEF ClientStep, Accept, PeerLeaves, RejectRead, JoinStream, ErrorWritten
<1>6. CASE FetchStep(c)
  <2>1. \/ chain' = chain
        \/ /\ chain[c] # "ended"
           /\ \E x \in Chains : chain' = [chain EXCEPT ![c] = x]
    <3>1. CASE StatxDone(c) \/ DnsAnswer(c) \/ Connect(c) \/ ConnectRetry(c)
      BY <3>1 DEF StatxDone, DnsAnswer, Connect, ConnectRetry, Chains,
                  AddFetchAAAARequest
    <3>2. CASE FetchFails(c) \/ HeaderRead(c) \/ ContentRead(c)
      BY <3>2 DEF FetchFails, FetchEnds, HeaderRead, ContentRead, Crash, Chains
    <3> QED
      BY <1>6, <3>1, <3>2 DEF FetchStep
  <2> QED
    BY <1>1, <1>2, <2>1
<1>7. CASE StreamStep(c)
  BY <1>1, <1>7
     DEF StreamStep, HeaderWritten, BlockWritten, BlockRefused, HandleClose,
         FreedCompleted, Crash
<1> QED
  BY <1>3, <1>4, <1>5, <1>6, <1>7

LEMMA StreamingSteps ==
  ASSUME NEW r \in Requests, Streaming(r)
  PROVE  /\ Streaming(HeaderRequest(r)) /\ Streaming(BlockRequest(r))
         /\ Streaming(WriteCompleted(r))
BY RequestFields DEF Streaming

LEMMA StreamingNext ==
  ASSUME IInv, Next, NobodyLeft, NothingEnded',
         \A c \in Clients : Streaming(req[c])
  PROVE  \A c \in Clients : Streaming(req'[c])
<1> SUFFICES ASSUME NEW d \in Clients
             PROVE  Streaming(req'[d])
  OBVIOUS
<1>0. TypeOK /\ req[d] \in Requests /\ Streaming(req[d])
  BY DEF IInv, TypeOK
<1>1. CASE req'[d] = req[d]
  BY <1>0, <1>1
<1>2. PICK c \in Clients : ClientStep(c) \/ FetchStep(c) \/ StreamStep(c)
  BY DEF Next
<1>3. CASE JoinStream(c) \/ OpenStream(c)
  <2>1. /\ req'[d] \in {req[d], StreamRequest, HeaderRequest(StreamRequest)}
    BY <1>0, <1>3 DEF JoinStream, OpenStream, TypeOK
  <2>2. StreamRequest \in Requests /\ Streaming(StreamRequest)
    BY NewRequestFields DEF Streaming
  <2> QED
    BY <1>0, <2>1, <2>2, StreamingSteps
<1>4. CASE ClientStep(c) /\ ~JoinStream(c) /\ ~OpenStream(c)
  BY <1>1, <1>4 DEF ClientStep, Accept, PeerLeaves, RejectRead, ErrorWritten
<1>5. CASE FetchStep(c)
  <2>1. CASE StatxDone(c) \/ DnsAnswer(c) \/ Connect(c) \/ ConnectRetry(c)
    BY <1>1, <2>1 DEF StatxDone, DnsAnswer, Connect, ConnectRetry
  <2>2. CASE FetchFails(c)
    <3>1. chain' # [chain EXCEPT ![c] = "ended"]
      BY <1>0, ChainMoves DEF NothingEnded
    <3> QED
      BY <1>1, <2>2, <3>1 DEF FetchFails, FetchEnds, Crash
  <2>3. CASE HeaderRead(c)
    <3>1. req'[d] \in {req[d], HeaderRequest(req[d])}
      BY <2>3 DEF HeaderRead, Crash, SetStreamingResource
    <3> QED
      BY <1>0, <3>1, StreamingSteps
  <2>4. CASE ContentRead(c)
    <3>1. req'[d] \in {req[d], BlockRequest(req[d])}
      BY <2>4 DEF ContentRead, NotifyStream
    <3> QED
      BY <1>0, <3>1, StreamingSteps
  <2> QED
    BY <1>5, <2>1, <2>2, <2>3, <2>4 DEF FetchStep
<1>6. CASE HeaderWritten(c)
  <2> DEFINE w == WriteCompleted(req[c])
             idle == [w EXCEPT !.pivot = StartPivot]
  <2>1. req' = req \/ req' = [req EXCEPT ![c] = BlockRequest(idle)]
                   \/ req' = [req EXCEPT ![c] = idle]
    BY <1>6 DEF HeaderWritten, Crash
  <2>2. req[c] \in Requests /\ req[c].writes > 0 /\ Streaming(req[c])
    BY <1>0, <1>6 DEF HeaderWritten, TypeOK
  <2>3. w \in Requests /\ Streaming(w)
    BY <2>2, RequestTypes, StreamingSteps
  <2> HIDE DEF w
  <2>4. StartPivot \in Slots(N)
    BY <1>0, StartTypes DEF N
  <2>5. idle \in Requests /\ Streaming(idle)
    <3>1. idle.state = w.state /\ idle.event_type = w.event_type
      BY <2>3 DEF Requests
    <3> QED
      BY <2>3, <2>4, <3>1, FieldUpdate DEF Streaming
  <2> HIDE DEF idle
  <2>6. Streaming(BlockRequest(idle))
    BY <2>5, StreamingSteps
  <2> QED
    BY <1>0, <2>1, <2>5, <2>6 DEF TypeOK
<1>7. CASE BlockWritten(c)
  <2>1. req' = req \/ req' = [req EXCEPT ![c] = WriteCompleted(req[c])]
    BY <1>7 DEF BlockWritten, Crash
  <2>2. req[c] \in Requests /\ Streaming(req[c])
    BY <1>0 DEF TypeOK
  <2> QED
    BY <1>0, <2>1, <2>2, StreamingSteps DEF TypeOK
<1>8. CASE BlockRefused(c) \/ HandleClose(c) \/ FreedCompleted(c)
  BY <1>8 DEF BlockRefused, HandleClose, FreedCompleted, NobodyLeft, Streaming
<1> QED
  BY <1>2, <1>3, <1>4, <1>5, <1>6, <1>7, <1>8 DEF StreamStep

(* A Request whose write completes and is taken note of lives on. *)
LEMMA WrittenState ==
  ASSUME TypeOK, NEW c \in Clients, HeaderWritten(c) \/ BlockWritten(c)
  PROVE  req'[c].state = "live"
<1> DEFINE w == WriteCompleted(req[c])
           idle == [w EXCEPT !.pivot = StartPivot]
<1>1. req' = req \/ req' = [req EXCEPT ![c] = BlockRequest(idle)]
                 \/ req' = [req EXCEPT ![c] = idle]
                 \/ req' = [req EXCEPT ![c] = w]
  BY DEF HeaderWritten, BlockWritten, Crash
<1>2. req[c] \in Requests /\ req[c].writes > 0 /\ req[c].state = "live"
  BY DEF HeaderWritten, BlockWritten, TypeOK
<1>3. w \in Requests /\ w.state = "live"
  BY <1>2, RequestTypes, RequestFields
<1> HIDE DEF w
<1>4. StartPivot \in Slots(N)
  BY StartTypes DEF N
<1>5. idle \in Requests /\ idle.state = "live"
  <2>1. idle.state = w.state
    BY <1>3 DEF Requests
  <2> QED
    BY <1>3, <1>4, <2>1, FieldUpdate
<1> HIDE DEF idle
<1>6. BlockRequest(idle).state = "live"
  BY <1>5, RequestFields
<1> QED
  BY <1>1, <1>2, <1>3, <1>5, <1>6 DEF TypeOK

LEMMA FaultNext ==
  ASSUME IInv, ChainStart, HeaderInv, FeedInv, FaultInv, Next
  PROVE  FaultInv'
<1>0. /\ TypeOK /\ RequestInv /\ fault = "none"
      /\ NobodyLeft' => NobodyLeft
      /\ NothingEnded' => NothingEnded
  BY PeersNext, EndedStays DEF IInv, Next
<1>1. (NobodyLeft' /\ NothingEnded') => \A c \in Clients : Streaming(req'[c])
  BY <1>0, StreamingNext DEF FaultInv
<1>2. PICK c \in Clients : ClientStep(c) \/ FetchStep(c) \/ StreamStep(c)
  BY DEF Next
<1>3. ASSUME NobodyLeft PROVE Fetching(c) => resource
  BY <1>3 DEF FeedInv
<1>4. ASSUME NobodyLeft, req[c].state = "live",
             req[c].event_type # "SERVER_CLOSE"
      PROVE  resource
  BY <1>0, <1>4, WriterIsRegistered
<1>5. ASSUME NobodyLeft, fault' = "terminate" PROVE FALSE
  <2>1. CASE ClientStep(c)
    BY <1>0, <1>5, <2>1
       DEF ClientStep, Accept, PeerLeaves, RejectRead, JoinStream, OpenStream,
           ErrorWritten
  <2>2. CASE StatxDone(c) \/ DnsAnswer(c) \/ Connect(c) \/ ConnectRetry(c)
    BY <1>0, <1>5, <2>2 DEF StatxDone, DnsAnswer, Connect, ConnectRetry
  <2>3. CASE FetchFails(c)
    <3>1. Fetching(c)
      BY <2>3 DEF FetchFails, FetchEnds, Fetching
    <3> QED
      BY <1>0, <1>3, <1>5, <2>3, <3>1
         DEF FetchFails, FetchEnds, CloseStream, ReleaseErrorAllWaitingRequest
  <2>4. CASE HeaderRead(c)
    <3>1. Fetching(c)
      BY <2>4 DEF HeaderRead, Fetching
    <3> QED
      BY <1>0, <1>3, <1>5, <2>4, <3>1 DEF HeaderRead
  <2>5. CASE ContentRead(c)
    BY <1>0, <1>5, <2>5 DEF ContentRead, NotifyStream
  <2>6. CASE HeaderWritten(c)
    <3>1. resource
      BY <1>4, <1>5, <2>6 DEF HeaderWritten
    <3>2. fault' = fault
      BY <2>6, <3>1 DEF HeaderWritten
    <3> QED
      BY <1>0, <1>5, <3>2
  <2>7. CASE BlockWritten(c)
    <3>1. resource
      BY <1>4, <1>5, <2>7 DEF BlockWritten
    <3> QED
      BY <1>0, <1>5, <2>7, <3>1 DEF BlockWritten
  <2>8. CASE BlockRefused(c) \/ HandleClose(c) \/ FreedCompleted(c)
    BY <1>0, <1>5, <2>8 DEF BlockRefused, HandleClose, FreedCompleted, Crash
  <2> QED
    BY <1>2, <2>1, <2>2, <2>3, <2>4, <2>5, <2>6, <2>7, <2>8
       DEF FetchStep, StreamStep
<1>6. ASSUME NobodyLeft, NothingEnded, fault' = "undefined" PROVE FALSE
  <2>1. CASE ClientStep(c)
    BY <1>0, <1>6, <2>1
       DEF ClientStep, Accept, PeerLeaves, RejectRead, JoinStream, OpenStream,
           ErrorWritten
  <2>2. CASE FetchStep(c) /\ ~ContentRead(c)
    BY <1>0, <1>6, <2>2
       DEF FetchStep, StatxDone, DnsAnswer, Connect, ConnectRetry, FetchFails,
           FetchEnds, CloseStream, ReleaseErrorAllWaitingRequest, HeaderRead,
           Crash
  <2>3. CASE ContentRead(c)
    <3>1. type = "STREAMING"
      BY <1>6, <2>3 DEF ContentRead, FeedInv
    <3>2. \A d \in Woken : headers[d] # 0
      BY <1>0, <3>1 DEF Woken, Waiting, HeaderInv, HeaderForAll
    <3> QED
      BY <1>0, <1>6, <2>3, <3>2 DEF ContentRead, NotifyStream
  <2>4. CASE HeaderWritten(c) \/ BlockWritten(c) \/ HandleClose(c)
    BY <1>0, <1>6, <2>4 DEF HeaderWritten, BlockWritten, HandleClose, Crash
  <2>5. CASE BlockRefused(c) \/ FreedCompleted(c)
    BY <1>6, <2>5
       DEF BlockRefused, FreedCompleted, NobodyLeft, FaultInv, Streaming
  <2> QED
    BY <1>2, <2>1, <2>2, <2>3, <2>4, <2>5 DEF StreamStep
<1>7. fault' \in {"none", "terminate", "undefined"}
  BY <1>0, TypeNext DEF TypeOK
<1> QED
  BY <1>0, <1>1, <1>5, <1>6, <1>7
     DEF FaultInv, FaultNeedsDeparture, FaultFree, TerminateNeedsDeparture

(* The descriptors of the Requests that were freed. *)
LEMMA DescriptorNext ==
  ASSUME IInv, DescriptorReleased, Next
  PROVE  DescriptorReleased'
<1> DEFINE Kept(d) == (req[d].state = "freed" /\ conn[d].peer = "open") =>
                         conn[d].fd = "closed" \/ conn[d].entry = "failing"
<1> SUFFICES ASSUME NEW d \in Clients
             PROVE  Kept(d)'
  BY DEF DescriptorReleased
<1>0. /\ TypeOK /\ RequestInv /\ ClientInv(d) /\ Kept(d)
      /\ conn[d] \in Conns /\ req[d] \in Requests
      /\ conn[d].peer = "gone" => conn'[d].peer = "gone"
  BY PeersNext DEF IInv, RequestInv, TypeOK, DescriptorReleased
<1>1. CASE /\ req'[d].state # "freed" \/ req'[d].state = req[d].state
           /\ conn'[d] = conn[d]
  BY <1>0, <1>1
<1>2. PICK c \in Clients : ClientStep(c) \/ FetchStep(c) \/ StreamStep(c)
  BY DEF Next
<1>3. CASE conn' = conn /\ req' = req
  BY <1>1, <1>3
<1>4. CASE Accept(c) \/ RejectRead(c)
  <2>1. req' = req /\ (d # c => conn'[d] = conn[d])
    BY <1>0, <1>4 DEF Accept, RejectRead, TypeOK
  <2>2. d = c => req[d].state = "none"
    BY <1>0, <1>4 DEF Accept, RejectRead, ClientInv
  <2> QED
    BY <1>1, <2>1, <2>2
<1>5. CASE PeerLeaves(c)
  <2>1. req' = req /\ conn' = [conn EXCEPT ![c] = [conn[c] EXCEPT !.peer = "gone"]]
    BY <1>5 DEF PeerLeaves
  <2>2. d = c => conn'[d].peer = "gone"
    BY <1>0, <2>1, ConnSteps DEF TypeOK
  <2>3. d # c => conn'[d] = conn[d]
    BY <1>0, <2>1 DEF TypeOK
  <2> QED
    BY <1>1, <2>1, <2>2, <2>3
<1>6. CASE JoinStream(c) \/ OpenStream(c)
  <2>1. /\ d # c => req'[d] = req[d] /\ conn'[d] = conn[d]
        /\ d = c => req'[d] \in {StreamRequest, HeaderRequest(StreamRequest)}
    BY <1>0, <1>6 DEF JoinStream, OpenStream, TypeOK
  <2>2. StreamRequest.state = "live" /\ HeaderRequest(StreamRequest).state = "live"
    BY NewRequestFields, RequestFields
  <2> QED
    BY <1>1, <2>1, <2>2
<1>7. CASE ErrorWritten(c)
  <2> DEFINE v == [conn[c] EXCEPT !.entry = "done"]
             w == [v EXCEPT !.fd = "closed"]
  <2>1. /\ req' = req
        /\ \/ conn' = [conn EXCEPT ![c] = w]
           \/ conn[c].peer = "gone" /\ conn' = [conn EXCEPT ![c] = v]
    BY <1>7 DEF ErrorWritten
  <2>2. d # c => conn'[d] = conn[d]
    BY <1>0, <2>1 DEF TypeOK
  <2>3. v \in Conns
    BY <1>0, ConnTypes DEF TypeOK
  <2> HIDE DEF v
  <2>4. w.fd = "closed"
    BY <2>3, ConnSteps
  <2> HIDE DEF w
  <2>5. d = c => conn'[d].peer = "gone" \/ conn'[d].fd = "closed"
    BY <1>0, <2>1, <2>4 DEF TypeOK
  <2> QED
    BY <1>1, <2>1, <2>2, <2>5
<1>8. CASE ReleaseErrorAllWaitingRequest
  <2>1. /\ d \in Registered => conn'[d] = [conn[d] EXCEPT !.entry = "failing"]
        /\ d \notin Registered => conn'[d] = conn[d] /\ req'[d] = req[d]
    BY <1>8 DEF ReleaseErrorAllWaitingRequest
  <2>2. d \in Registered => conn'[d].entry = "failing"
    BY <1>0, <2>1 DEF Conns
  <2> QED
    BY <1>1, <2>1, <2>2
<1>9. CASE FetchStep(c)
  <2>1. CASE \/ StatxDone(c) \/ DnsAnswer(c) \/ Connect(c) \/ ConnectRetry(c)
             \/ \E how : Crash(how)
    BY <1>3, <2>1 DEF StatxDone, DnsAnswer, Connect, ConnectRetry, Crash
  <2>2. CASE CloseStream
    <3>1. conn' = conn /\ req'[d] \in {req[d], CloseRequest(req[d])}
      BY <2>2 DEF CloseStream
    <3> QED
      BY <1>0, <1>1, <3>1, RequestFields
  <2>3. CASE HeaderRead(c) /\ SetStreamingResource
    <3>1. conn' = conn /\ req'[d] \in {req[d], HeaderRequest(req[d])}
      BY <1>0, <2>3 DEF HeaderRead, SetStreamingResource, Crash
    <3> QED
      BY <1>0, <1>1, <3>1, RequestFields
  <2>4. CASE ContentRead(c)
    <3>1. conn' = conn /\ req'[d] \in {req[d], BlockRequest(req[d])}
      BY <2>4 DEF ContentRead, NotifyStream
    <3> QED
      BY <1>0, <1>1, <3>1, RequestFields
  <2> QED
    BY <1>8, <1>9, <2>1, <2>2, <2>3, <2>4
       DEF FetchStep, FetchFails, FetchEnds, HeaderRead
<1>10. CASE HeaderWritten(c) \/ BlockWritten(c)
  <2>1. /\ conn' = conn /\ req[c].state = "live" /\ req[c].writes > 0
    BY <1>10 DEF HeaderWritten, BlockWritten, Crash
  <2>2. req'[c].state = "live"
    BY <1>10, <2>1, WrittenState DEF IInv
  <2>3. d # c => req'[d] = req[d]
    BY <1>0, <1>10 DEF HeaderWritten, BlockWritten, Crash, TypeOK
  <2> QED
    BY <1>1, <2>1, <2>2, <2>3
<1>11. CASE BlockRefused(c)
  <2>1. conn' = conn /\ conn[c].peer = "gone" /\ (d # c => req'[d] = req[d])
    BY <1>0, <1>11 DEF BlockRefused, Crash, TypeOK
  <2> QED
    BY <1>1, <2>1
<1>12. CASE HandleClose(c)
  <2>1. /\ conn' = [conn EXCEPT ![c] = [conn[c] EXCEPT !.fd = "closed"]]
        /\ d # c => req'[d] = req[d]
    BY <1>0, <1>12 DEF HandleClose, TypeOK
  <2>2. d = c => conn'[d].fd = "closed"
    BY <1>0, <2>1, ConnSteps DEF TypeOK
  <2>3. d # c => conn'[d] = conn[d]
    BY <1>0, <2>1 DEF TypeOK
  <2> QED
    BY <1>1, <2>1, <2>2, <2>3
<1>13. CASE FreedCompleted(c)
  BY <1>3, <1>13 DEF FreedCompleted, Crash
<1> QED
  BY <1>2, <1>4, <1>5, <1>6, <1>7, <1>9, <1>10, <1>11, <1>12, <1>13
     DEF ClientStep, StreamStep

-----------------------------------------------------------------------------
(* What holds of the fetches and the faults, in one inductive invariant.   *)
SInv ==
  /\ ChainStart
  /\ HeaderInv
  /\ FeedInv
  /\ FaultInv
  /\ DescriptorReleased

LEMMA SInit == Init => SInv
<1> SUFFICES ASSUME Init
             PROVE  SInv
  OBVIOUS
<1>1. ChainStart /\ DescriptorReleased
  BY NewRequestFields DEF Init, ChainStart, DescriptorReleased
<1>2. Registered = {}
  BY DEF Init, Registered
<1>3. HeaderInv
  BY <1>2 DEF Init, HeaderInv, HeaderForAll
<1>4. FeedInv
  BY DEF Init, FeedInv, Fed, SingleFeeder, Fetching
<1>5. \A c \in Clients : Streaming(req[c])
  BY NewRequestFields DEF Init, Streaming
<1>6. FaultInv
  BY <1>5 DEF Init, FaultInv, FaultNeedsDeparture, FaultFree,
              TerminateNeedsDeparture
<1> QED
  BY <1>1, <1>3, <1>4, <1>6 DEF SInv

LEMMA SNext == IInv /\ SInv /\ [Next]_vars => SInv'
<1>1. ASSUME IInv, SInv, Next PROVE SInv'
  BY <1>1, ChainStartNext, HeaderNext, FeedNext, FaultNext, DescriptorNext
     DEF SInv
<1>2. ASSUME SInv, UNCHANGED vars PROVE SInv'
  <2>1. /\ resource' = resource /\ type' = type /\ requests' = requests
        /\ conn' = conn /\ req' = req /\ chain' = chain /\ fault' = fault
        /\ headers' = headers /\ feeders' = feeders
    BY <1>2 DEF vars, muxVars
  <2>2. Registered' = Registered
    BY <2>1 DEF Registered
  <2>3. ChainStart' /\ DescriptorReleased'
    BY <1>2, <2>1 DEF SInv, ChainStart, DescriptorReleased
  <2>4. HeaderInv'
    BY <1>2, <2>1, <2>2 DEF SInv, HeaderInv, HeaderForAll
  <2>5. FeedInv'
    BY <1>2, <2>1 DEF SInv, FeedInv, Fed, SingleFeeder, Fetching, NobodyLeft
  <2>6. FaultInv'
    BY <1>2, <2>1
       DEF SInv, FaultInv, FaultNeedsDeparture, FaultFree,
           TerminateNeedsDeparture, NobodyLeft, NothingEnded, Streaming
  <2> QED
    BY <2>3, <2>4, <2>5, <2>6 DEF SInv
<1> QED
  BY <1>1, <1>2

(* The fetches, the headers, the faults and the descriptors of a resource  *)
(* stay as SInv says, whatever completions Engine::Run takes               *)
(* (Stream.cpp:22-136, 222-312, Http.cpp:95-172).                          *)
THEOREM StreamInvariance == Spec => []SInv
<1> QED
  BY SInit, SNext, Invariance, PTL DEF Spec

(* Once the Mux is a stream, no client that is registered in it is without *)
(* the header: those that were there when it came got it then, all others  *)
(* when they joined (Stream.cpp:46-48, 132-136).                           *)
THEOREM EveryoneGetsTheHeader == Spec => []HeaderForAll
<1>1. SInv => HeaderForAll
  BY DEF SInv, HeaderInv
<1> QED
  BY <1>1, StreamInvariance, PTL

(* A Mux always has a client and a fetch that feeds it, and as long as no  *)
(* client has left only one fetch does (Stream.cpp:22-51, 290-299,         *)
(* Http.cpp:95-172).                                                       *)
THEOREM OneFeederEach == Spec => []OneFeeder
<1>1. SInv => OneFeeder
  BY DEF SInv, FeedInv, OneFeeder, SingleFeeder
<1> QED
  BY <1>1, StreamInvariance, PTL

(* As long as no client has left the process does not die of an at() that  *)
(* throws, and until a fetch has ended it does not die at all              *)
(* (Stream.cpp:146, 222, 226, 305, Http.cpp:98-101, 143-148).              *)
THEOREM NoFaultBeforeDeparture == Spec => []FaultNeedsDeparture
<1>1. SInv => FaultNeedsDeparture
  BY DEF SInv, FaultInv
<1> QED
  BY <1>1, StreamInvariance, PTL

(* No Request of a client that is still there is freed with the socket     *)
(* open and nothing under way that closes it (Engine.cpp:308-311,          *)
(* Server.cpp:193-216).                                                    *)
THEOREM NoDescriptorIsLost == Spec => []DescriptorReleased
<1>1. SInv => DescriptorReleased
  BY DEF SInv
<1> QED
  BY <1>1, StreamInvariance, PTL
=============================================================================
