--------------------------- MODULE UpstreamProofs ---------------------------
(* Proofs of the safety properties of Upstream, for any set of fetches and *)
(* for both clients.                                                       *)
EXTENDS Upstream, TLAPS

FetchRecords ==
  [state : {"waiting", "connect", "handshake", "header", "content", "ended"},
   inner : {"none", "held", "freed"}, http : {"none", "held", "freed"},
   sock : {"none", "open", "closed"}, tls : {"none", "held", "freed"},
   ready : BOOLEAN, told : BOOLEAN]

(* What a fetch x holds in each of its states, given the client (ssl) and  *)
(* the things that were lost (gone).  The three properties read it off;    *)
(* the steps need what it says of the states in between.                   *)
Held(x, ssl, gone) ==
  /\ x.state \in {"waiting", "connect", "handshake"} =>
       x.inner = "held" /\ x.http = "none"
  /\ x.state = "waiting" => x.sock # "open" /\ x.tls # "held"
  /\ x.state \in {"connect", "handshake", "header", "content"} =>
       x.sock = "open" /\ (ssl => x.tls = "held")
  /\ x.state \in {"header", "content"} =>
       x.inner = "freed" /\ x.http = "held"
  /\ x.state = "ended" =>
       /\ x.told /\ x.http # "held"
       /\ x.sock = "open" => "sock" \in gone
       /\ x.tls = "held" => "tls" \in gone
       /\ x.inner = "held" => "inner" \in gone
  /\ x.tls # "none" => ssl

(* A fetch in a blocking call has the thread. *)
Blocks(x) == x.state \in {"connect", "handshake"}

IInv ==
  /\ use_ssl \in BOOLEAN
  /\ fetch \in [Fetches -> FetchRecords]
  /\ thread \in Fetches \cup {"loop"}
  /\ lost \subseteq {"inner", "tls", "sock"}
  /\ \A f \in Fetches : Held(fetch[f], use_ssl, lost)
  /\ \A f \in Fetches : Blocks(fetch[f]) => thread = f

(* What is lost stays lost, so that the other fetches keep their promise.  *)
LEMMA HeldMonotone ==
  ASSUME NEW x \in FetchRecords, NEW ssl \in BOOLEAN, NEW gone, NEW more,
         gone \subseteq more, Held(x, ssl, gone)
  PROVE  Held(x, ssl, more)
BY DEF Held

(* A step that gives f the record x and the thread to who keeps the        *)
(* invariant if x is sound and nobody else is in a blocking call.          *)
LEMMA StepKeeps ==
  ASSUME IInv, UNCHANGED use_ssl,
         NEW f \in Fetches, NEW x \in FetchRecords,
         NEW who \in Fetches \cup {"loop"},
         Step(f, x, who), lost \subseteq lost',
         lost' \subseteq {"inner", "tls", "sock"},
         Held(x, use_ssl, lost'), Blocks(x) => who = f,
         \A g \in Fetches \ {f} : ~Blocks(fetch[g])
  PROVE  IInv'
<1>1. /\ fetch' \in [Fetches -> FetchRecords] /\ thread' = who
      /\ fetch'[f] = x /\ \A g \in Fetches \ {f} : fetch'[g] = fetch[g]
  BY DEF Step, IInv
<1>2. ASSUME NEW g \in Fetches PROVE Held(fetch'[g], use_ssl', lost')
  <2>1. CASE g = f
    BY <1>1, <2>1
  <2>2. CASE g # f
    BY <1>1, <2>2, HeldMonotone DEF IInv
  <2> QED
    BY <2>1, <2>2
<1>3. ASSUME NEW g \in Fetches, Blocks(fetch'[g]) PROVE thread' = g
  BY <1>1, <1>3
<1> QED
  BY <1>1, <1>2, <1>3 DEF IInv

(* The thread is the loop's, or f's: no other fetch is in a blocking call. *)
LEMMA NobodyElseBlocks ==
  ASSUME IInv, NEW f \in Fetches,
         thread = "loop" \/ thread = f \/ Blocks(fetch[f])
  PROVE  \A g \in Fetches \ {f} : ~Blocks(fetch[g])
BY FetchAssumption DEF IInv

(* CloseSSL and FetchFailed on a fetch that has its inner Request.         *)
LEMMA FailedTypes ==
  ASSUME NEW x \in FetchRecords, NEW gone, use_ssl \in BOOLEAN,
         Held(x, use_ssl, gone), x.state \in {"waiting", "connect", "handshake"}
  PROVE  /\ CloseSSL(x) \in FetchRecords
         /\ CloseSSL(x).sock # "open" /\ CloseSSL(x).tls # "held"
         /\ CloseSSL(x).inner = "held" /\ CloseSSL(x).http = "none"
         /\ CloseSSL(x).tls # "none" => use_ssl
         /\ FetchFailed(x) \in FetchRecords
         /\ FetchFailed(CloseSSL(x)) \in FetchRecords
         /\ FetchFailed(CloseSSL(x)).state = "ended"
         /\ FetchFailed(CloseSSL(x)).told
         /\ FetchFailed(CloseSSL(x)).sock # "open"
         /\ FetchFailed(CloseSSL(x)).tls # "held"
         /\ FetchFailed(CloseSSL(x)).tls # "none" => use_ssl
         /\ FetchFailed(CloseSSL(x)).http = "none"
         /\ FetchFailed(CloseSSL(x)).inner = "held" => use_ssl
<1>1. /\ CloseSSL(x) \in FetchRecords
      /\ CloseSSL(x).sock # "open" /\ CloseSSL(x).tls # "held"
      /\ CloseSSL(x).inner = "held" /\ CloseSSL(x).http = "none"
      /\ CloseSSL(x).tls # "none" => use_ssl
  BY DEF CloseSSL, FetchRecords, Held
<1>2. ASSUME NEW y \in FetchRecords
      PROVE  /\ FetchFailed(y) \in FetchRecords
             /\ FetchFailed(y).state = "ended" /\ FetchFailed(y).told
             /\ FetchFailed(y).sock = y.sock /\ FetchFailed(y).tls = y.tls
             /\ FetchFailed(y).http = y.http
             /\ FetchFailed(y).inner = "held" => use_ssl
  BY DEF FetchFailed, FetchRecords
<1> QED
  BY <1>1, <1>2

-----------------------------------------------------------------------------
LEMMA InvInit == Init => IInv
<1> SUFFICES ASSUME Init PROVE IInv
  OBVIOUS
<1>1. /\ NewFetch \in FetchRecords /\ ~Blocks(NewFetch)
      /\ Held(NewFetch, use_ssl, {})
  BY DEF NewFetch, FetchRecords, Held, Blocks
<1>2. \A f \in Fetches : fetch[f] = NewFetch
  BY DEF Init
<1> QED
  BY <1>1, <1>2 DEF Init, IInv

(* HandleFetchRequest up to connect. *)
LEMMA BeginKeeps ==
  ASSUME IInv, NEW f \in Fetches, FetchBegins(f), UNCHANGED use_ssl
  PROVE  IInv'
<1> DEFINE x == fetch[f]
<1>1. /\ x \in FetchRecords /\ x.state = "waiting" /\ thread = "loop"
      /\ Held(x, use_ssl, lost) /\ use_ssl \in BOOLEAN
      /\ lost \subseteq {"inner", "tls", "sock"}
  BY DEF FetchBegins, NoContext, NoSocket, Connects, Is, IInv
<1>2. \A g \in Fetches \ {f} : ~Blocks(fetch[g])
  BY <1>1, NobodyElseBlocks
<1>3. /\ FetchFailed(x) \in FetchRecords /\ FetchFailed(x).state = "ended"
      /\ FetchFailed(x).told /\ FetchFailed(x).sock # "open"
      /\ FetchFailed(x).tls # "held"
      /\ FetchFailed(x).tls # "none" => use_ssl
      /\ FetchFailed(x).http = "none"
      /\ FetchFailed(x).inner = "held" => use_ssl
  BY <1>1 DEF FetchFailed, FetchRecords, Held
<1>4. CASE NoContext(f)
  <2>1. Step(f, FetchFailed(x), "loop") /\ LosesInner
    BY <1>4 DEF NoContext
  <2>2. /\ lost' = lost \cup (IF use_ssl THEN {"inner"} ELSE {})
        /\ lost \subseteq lost' /\ lost' \subseteq {"inner", "tls", "sock"}
    BY <1>1, <2>1 DEF LosesInner, Loses
  <2>3. Held(FetchFailed(x), use_ssl, lost') /\ ~Blocks(FetchFailed(x))
    BY <1>3, <2>2 DEF Held, Blocks
  <2> QED
    BY <1>2, <1>3, <2>1, <2>2, <2>3, StepKeeps
<1>5. CASE NoSocket(f)
  <2> DEFINE y == [FetchFailed(x) EXCEPT !.tls = IF use_ssl THEN "held" ELSE @]
  <2>1. Step(f, y, "loop")
        /\ lost' = lost \cup (IF use_ssl THEN {"inner", "tls"} ELSE {})
    BY <1>5 DEF NoSocket, Loses
  <2>2. lost \subseteq lost' /\ lost' \subseteq {"inner", "tls", "sock"}
    BY <1>1, <2>1
  <2>3. /\ y \in FetchRecords /\ y.state = "ended" /\ y.told
        /\ y.sock # "open" /\ y.http = "none"
        /\ y.tls = "held" => use_ssl
        /\ y.tls # "none" => use_ssl
        /\ y.inner = "held" => use_ssl
    BY <1>1, <1>3 DEF FetchRecords
  <2> HIDE DEF y
  <2>4. Held(y, use_ssl, lost') /\ ~Blocks(y)
    BY <2>1, <2>3 DEF Held, Blocks
  <2> QED
    BY <1>2, <2>1, <2>2, <2>3, <2>4, StepKeeps
<1>6. CASE Connects(f)
  <2> DEFINE y == [x EXCEPT !.state = "connect", !.sock = "open",
                            !.ready = FALSE,
                            !.tls = IF use_ssl THEN "held" ELSE @]
  <2>1. Step(f, y, f) /\ lost' = lost
    BY <1>6 DEF Connects
  <2>2. y \in FetchRecords /\ Held(y, use_ssl, lost)
    BY <1>1 DEF FetchRecords, Held
  <2> QED
    BY <1>1, <1>2, <2>1, <2>2, StepKeeps
<1> QED
  BY <1>4, <1>5, <1>6 DEF FetchBegins

(* What the blocking calls lead to. *)
LEMMA CallKeeps ==
  ASSUME IInv, NEW f \in Fetches, ConnectEnds(f) \/ HandshakeEnds(f),
         UNCHANGED use_ssl
  PROVE  IInv'
<1> DEFINE x == fetch[f]
<1>1. /\ x \in FetchRecords /\ Blocks(x)
      /\ Held(x, use_ssl, lost) /\ use_ssl \in BOOLEAN
      /\ lost \subseteq {"inner", "tls", "sock"}
  BY DEF ConnectEnds, HandshakeEnds, Refused, Retry, SendFails, RequestSent,
         Handshakes, HandshakeFails, HandshakeDone, Is, IInv, Blocks
<1>2. \A g \in Fetches \ {f} : ~Blocks(fetch[g])
  BY <1>1, NobodyElseBlocks
<1>3. x.state \in {"waiting", "connect", "handshake"}
  BY <1>1 DEF Blocks
<1>4. FetchFailed(CloseSSL(x)) \in FetchRecords
      /\ FetchFailed(x) \in FetchRecords
  BY <1>1, <1>3, FailedTypes
<1>5. CASE Refused(f) \/ HandshakeFails(f)
  <2> DEFINE y == FetchFailed(CloseSSL(x))
  <2>1. /\ Step(f, y, "loop")
        /\ lost' = lost \cup (IF use_ssl THEN {"inner"} ELSE {})
    BY <1>5 DEF Refused, HandshakeFails, LosesInner, Loses
  <2>2. lost \subseteq lost' /\ lost' \subseteq {"inner", "tls", "sock"}
    BY <1>1, <2>1
  <2>3. /\ y.state = "ended" /\ y.told /\ y.http = "none"
        /\ y.sock # "open" /\ y.tls # "held"
        /\ y.tls # "none" => use_ssl
        /\ y.inner = "held" => use_ssl
    BY <1>1, <1>3, FailedTypes
  <2> HIDE DEF y
  <2>4. Held(y, use_ssl, lost') /\ ~Blocks(y)
    BY <2>1, <2>3 DEF Held, Blocks
  <2> QED
    BY <1>2, <1>4, <2>1, <2>2, <2>4, StepKeeps DEF y
<1>6. CASE Retry(f)
  <2> DEFINE y == [CloseSSL(x) EXCEPT !.state = "waiting", !.ready = TRUE]
  <2>1. Step(f, y, "loop") /\ lost' = lost
    BY <1>6 DEF Retry
  <2>2. /\ CloseSSL(x) \in FetchRecords
        /\ CloseSSL(x).sock # "open" /\ CloseSSL(x).tls # "held"
        /\ CloseSSL(x).inner = "held" /\ CloseSSL(x).http = "none"
        /\ CloseSSL(x).tls # "none" => use_ssl
    BY <1>1, <1>3, FailedTypes
  <2>3. y \in FetchRecords /\ Held(y, use_ssl, lost) /\ ~Blocks(y)
    BY <2>2 DEF FetchRecords, Held, Blocks
  <2> QED
    BY <1>1, <1>2, <2>1, <2>3, StepKeeps
<1>7. CASE SendFails(f)
  <2> DEFINE y == FetchFailed(x)
  <2>1. Step(f, y, "loop") /\ lost' = lost \cup {"sock"} /\ ~use_ssl
    BY <1>7 DEF SendFails, Loses
  <2>2. /\ y.state = "ended" /\ y.told /\ y.http = "none"
        /\ y.inner = "freed" /\ y.tls = "none"
    BY <1>1, <1>3, <2>1 DEF FetchFailed, FetchRecords, Held
  <2> HIDE DEF y
  <2>3. Held(y, use_ssl, lost') /\ ~Blocks(y)
    BY <2>1, <2>2 DEF Held, Blocks
  <2> QED
    BY <1>1, <1>2, <1>4, <2>1, <2>3, StepKeeps DEF y
<1>8. CASE RequestSent(f) \/ HandshakeDone(f)
  <2>1. Step(f, Sent(x), "loop") /\ lost' = lost
    BY <1>8 DEF RequestSent, HandshakeDone
  <2>2. /\ Sent(x) \in FetchRecords /\ Held(Sent(x), use_ssl, lost)
        /\ ~Blocks(Sent(x))
    BY <1>1 DEF Sent, FetchRecords, Held, Blocks
  <2> QED
    BY <1>1, <1>2, <2>1, <2>2, StepKeeps
<1>9. CASE Handshakes(f)
  <2> DEFINE y == [x EXCEPT !.state = "handshake"]
  <2>1. Step(f, y, f) /\ lost' = lost
    BY <1>9 DEF Handshakes
  <2>2. y \in FetchRecords /\ Held(y, use_ssl, lost)
    BY <1>1 DEF FetchRecords, Held, Blocks
  <2> QED
    BY <1>1, <1>2, <2>1, <2>2, StepKeeps
<1> QED
  BY <1>5, <1>6, <1>7, <1>8, <1>9 DEF ConnectEnds, HandshakeEnds

(* The reads of a connection. *)
LEMMA ReadKeeps ==
  ASSUME IInv, NEW f \in Fetches,
         OriginSends(f) \/ PreRequest(f) \/ ReadCompletes(f),
         UNCHANGED use_ssl
  PROVE  IInv'
<1> DEFINE x == fetch[f]
<1>1. /\ x \in FetchRecords /\ x.state \in {"header", "content"}
      /\ Held(x, use_ssl, lost) /\ use_ssl \in BOOLEAN
      /\ lost \subseteq {"inner", "tls", "sock"}
  BY DEF OriginSends, PreRequest, ReadCompletes, DataRead, ReadEnds, Reading,
         IInv
<1>2. CASE OriginSends(f)
  <2> DEFINE y == [x EXCEPT !.ready = TRUE]
  <2>1. fetch' = [fetch EXCEPT ![f] = y] /\ thread' = thread /\ lost' = lost
    BY <1>2 DEF OriginSends
  <2>2. /\ y \in FetchRecords /\ Held(y, use_ssl, lost) /\ ~Blocks(y)
    BY <1>1 DEF FetchRecords, Held, Blocks
  <2> HIDE DEF y
  <2> QED
    BY <2>1, <2>2 DEF IInv
<1>3. CASE PreRequest(f)
  <2> DEFINE y == [x EXCEPT !.ready = FALSE]
  <2>1. Step(f, y, f) /\ lost' = lost /\ thread = "loop"
    BY <1>3 DEF PreRequest
  <2>2. /\ y \in FetchRecords /\ Held(y, use_ssl, lost) /\ ~Blocks(y)
    BY <1>1 DEF FetchRecords, Held, Blocks
  <2> QED
    BY <1>1, <2>1, <2>2, NobodyElseBlocks, StepKeeps
<1>4. CASE DataRead(f)
  <2> DEFINE y == [x EXCEPT !.state = "content", !.ready = use_ssl]
  <2>1. Step(f, y, "loop") /\ lost' = lost /\ thread = f
    BY <1>4 DEF DataRead
  <2>2. /\ y \in FetchRecords /\ Held(y, use_ssl, lost) /\ ~Blocks(y)
    BY <1>1 DEF FetchRecords, Held, Blocks
  <2> QED
    BY <1>1, <2>1, <2>2, NobodyElseBlocks, StepKeeps
<1>5. CASE ReadEnds(f)
  <2> DEFINE y == [ReleaseSocket(x) EXCEPT !.told = TRUE]
  <2>1. Step(f, y, "loop") /\ lost' = lost /\ thread = f
    BY <1>5 DEF ReadEnds
  <2>2. /\ y \in FetchRecords /\ Held(y, use_ssl, lost) /\ ~Blocks(y)
    BY <1>1 DEF ReleaseSocket, CloseSSL, FetchRecords, Held, Blocks
  <2> QED
    BY <1>1, <2>1, <2>2, NobodyElseBlocks, StepKeeps
<1> QED
  BY <1>2, <1>3, <1>4, <1>5 DEF ReadCompletes

LEMMA InvNext == IInv /\ [Next]_vars => IInv'
<1> SUFFICES ASSUME IInv, [Next]_vars PROVE IInv'
  OBVIOUS
<1>1. CASE Next
  BY <1>1, BeginKeeps, CallKeeps, ReadKeeps DEF Next
<1>2. CASE UNCHANGED vars
  BY <1>2 DEF vars, IInv
<1> QED
  BY <1>1, <1>2

(* What a fetch of HttpClient or HttpsClient holds is, between any two     *)
(* handlers, what Held says of its state, and nobody but the holder of the *)
(* thread is in a blocking call (HttpsClient.cpp:78).                      *)
THEOREM Invariance == Spec => []IInv
BY InvInit, InvNext, PTL DEF Spec

(* Whatever ways the fetches take, in either client: a fetch never uses a  *)
(* Request, a connection or an SSL that it has given back, ends only with  *)
(* its waiting clients told, and holds nothing then but what the three     *)
(* leaking ways out lose (HttpClient.cpp:38-99, HttpsClient.cpp:25-105).   *)
THEOREM UpstreamHolds == Spec => []HoldsWhatItUses
<1>1. IInv => HoldsWhatItUses
  <2> SUFFICES ASSUME IInv PROVE HoldsWhatItUses
    OBVIOUS
  <2>1. \A f \in Fetches : /\ fetch[f] \in FetchRecords
                           /\ Held(fetch[f], use_ssl, lost)
                           /\ Blocks(fetch[f]) => thread = f
    BY DEF IInv
  <2>2. TypeOK
    BY <2>1 DEF TypeOK, IInv, FetchRecords, Blocks
  <2>3. NothingUsedAfterFree
    BY <2>1 DEF NothingUsedAfterFree, Held, Reading
  <2>4. ToldAtEnd /\ EndedHoldsNothing
    BY <2>1 DEF ToldAtEnd, EndedHoldsNothing, Held, Is
  <2> QED
    BY <2>2, <2>3, <2>4 DEF HoldsWhatItUses
<1> QED
  BY <1>1, Invariance, PTL
=============================================================================
