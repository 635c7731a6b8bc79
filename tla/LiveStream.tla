----------------------------- MODULE LiveStream -----------------------------
(***************************************************************************)
(* One live resource of the server: clients that ask for the same URL      *)
(* share one Mux, which one upstream connection feeds block by block.      *)
(*                                                                         *)
(* The program is one thread.  Engine::Run takes one completion (CQE) of   *)
(* the io_uring at a time and runs the handler that the event_type of the  *)
(* Request selects WHEN THE COMPLETION IS TAKEN.  Every action below is    *)
(* one such completion with its whole handler; the kernel and the two      *)
(* peers choose the order and the results.                                 *)
(*                                                                         *)
(* Scope: the resource is not in the cache directory and its origin        *)
(* answers without "Connection: close" (RESOURCE_TYPE_STREAMING).          *)
(***************************************************************************)
EXTENDS BlockRing, Sequences

CONSTANTS
  Clients,              \* the connections the server accepts, each used once
  StreamingBufferSize,  \* Settings::StreamingBufferSize, slots of a Mux
  MaxBlocks             \* bound: blocks read into one Mux

ASSUME BufferAssumption ==
  StreamingBufferSize \in Nat /\ StreamingBufferSize >= 2
ASSUME BoundAssumption == MaxBlocks \in Nat

VARIABLES
  resource,   \* the resource id is in Stream::resources_
  type,       \* mux->type
  requests,   \* mux->requests
  buffer,     \* mux->buffer
  pivot,      \* mux->pivot
  conn,       \* the client's socket and its entry request
  req,        \* the stream Request of the client
  chain,      \* the upstream fetch that the client started
  fault,      \* how the process died: "terminate" is an uncaught
              \* std::out_of_range, "undefined" is undefined behaviour
  (* history *)
  head,       \* blocks put into the Mux so far
  pos,        \* the block that the client is to get next
  headers,    \* header writes submitted for the client
  feeders     \* fetches started for this Mux or that wrote into it

muxVars == <<resource, type, requests, buffer, pivot>>
vars == <<muxVars, conn, req, chain, fault, head, pos, headers, feeders>>

-----------------------------------------------------------------------------
(* An operator whose name is a definition's and a suffix is a MUTANT: the  *)
(* definition with the bug that its comment names.  No specification uses  *)
(* it; the runs find the bug when it takes the definition's place.         *)

(* struct Request, as Stream uses it.  writes and closes count the         *)
(* submitted operations whose completions carry this Request.              *)
NoRequest ==
  [state |-> "none", event_type |-> "none", is_processing |-> FALSE,
   pivot |-> 0, writes |-> 0, closes |-> 0]

StreamRequest == [NoRequest EXCEPT !.state = "live"]

HeaderRequest(r) ==
  [r EXCEPT !.event_type = "WRITE_HEADER", !.is_processing = TRUE,
            !.writes = @ + 1]

(* Mutant: the pivot stays at the block that is sent. *)
BlockRequest_Stay(r) ==
  [r EXCEPT !.event_type = "WRITE_PARTIAL", !.is_processing = TRUE,
            !.writes = @ + 1]

BlockRequest(r) ==
  [r EXCEPT !.event_type = "WRITE_PARTIAL", !.is_processing = TRUE,
            !.writes = @ + 1,
            !.pivot = NextSlot(StreamingBufferSize, @)]

(* Mutant: the nop is not submitted. *)
CloseRequest_NoNop(r) == [r EXCEPT !.event_type = "SERVER_CLOSE"]

CloseRequest(r) ==
  [r EXCEPT !.event_type = "SERVER_CLOSE", !.closes = @ + 1]

Released(r) == [r EXCEPT !.state = "freed"]

(* Engine::Run clears is_processing before it dispatches. *)
WriteCompleted(r) == [r EXCEPT !.writes = @ - 1, !.is_processing = FALSE]
CloseCompleted(r) == [r EXCEPT !.closes = @ - 1, !.is_processing = FALSE]

InFlight(r) == r.writes + r.closes

Registered == {requests[i] : i \in DOMAIN requests}

Position(c) == CHOOSE i \in DOMAIN requests : requests[i] = c

Without(c) ==
  SubSeq(requests, 1, Position(c) - 1)
    \o SubSeq(requests, Position(c) + 1, Len(requests))

-----------------------------------------------------------------------------
Init ==
  /\ resource = FALSE
  /\ type = "UNDEFINED"
  /\ requests = <<>>
  /\ buffer = FreshRing(StreamingBufferSize)
  /\ pivot = 0
  /\ conn = [c \in Clients |->
               [peer |-> "away", fd |-> "none", entry |-> "none"]]
  /\ req = [c \in Clients |-> NoRequest]
  /\ chain = [c \in Clients |-> "none"]
  /\ fault = "none"
  /\ head = 0
  /\ pos = [c \in Clients |-> 0]
  /\ headers = [c \in Clients |-> 0]
  /\ feeders = {}

(* The process dies: nothing after it is of interest. *)
Crash(how) ==
  /\ fault' = how
  /\ UNCHANGED <<muxVars, conn, req, chain, head, pos, headers, feeders>>

(* CreateMux and its insertion, with c as the first request. *)
CreateMux(c) ==
  /\ resource' = TRUE
  /\ type' = "UNDEFINED"
  /\ requests' = <<c>>
  /\ buffer' = FreshRing(StreamingBufferSize)
  /\ pivot' = 0
  /\ head' = 0
  /\ feeders' = {c}

(* The Mux is deleted and its id erased; the fields take the values that   *)
(* they have when there is no Mux.                                         *)
ReleaseResource ==
  /\ resource' = FALSE
  /\ type' = "UNDEFINED"
  /\ requests' = <<>>
  /\ buffer' = FreshRing(StreamingBufferSize)
  /\ pivot' = 0
  /\ head' = 0
  /\ feeders' = {}

-----------------------------------------------------------------------------
(* The client's connection. *)

(* ACCEPT, with the read of the request that it submits. *)
Accept(c) ==
  /\ conn[c].peer = "away"
  /\ conn' = [conn EXCEPT ![c] =
                [peer |-> "open", fd |-> "open", entry |-> "reading"]]
  /\ UNCHANGED <<muxVars, req, chain, fault, head, pos, headers, feeders>>

(* The client closes its end, at any moment. *)
PeerLeaves(c) ==
  /\ conn[c].peer = "open"
  /\ conn' = [conn EXCEPT ![c].peer = "gone"]
  /\ UNCHANGED <<muxVars, req, chain, fault, head, pos, headers, feeders>>

(* SERVER_READ of a request that is answered with an error: malformed      *)
(* (400), another method than GET (405), or a GET whose If-Match cannot    *)
(* match, since SetStreamingResource never sets mux->etag (412).           *)
RejectRead(c) ==
  /\ conn[c].entry = "reading"
  /\ conn' = [conn EXCEPT ![c].entry = "failing"]
  /\ UNCHANGED <<muxVars, req, chain, fault, head, pos, headers, feeders>>

(* SERVER_READ of a GET for a resource that exists: HandleExistsResource   *)
(* registers the client and, once the Mux has a type, sends the header.    *)
JoinStream(c) ==
  /\ conn[c].entry = "reading"
  /\ resource
  /\ conn' = [conn EXCEPT ![c].entry = "done"]
  /\ requests' = Append(requests, c)
  /\ IF type = "UNDEFINED"
       THEN /\ req' = [req EXCEPT ![c] = StreamRequest]
            /\ UNCHANGED headers
       ELSE /\ req' = [req EXCEPT ![c] = HeaderRequest(StreamRequest)]
            /\ headers' = [headers EXCEPT ![c] = @ + 1]
  /\ UNCHANGED <<resource, type, buffer, pivot, chain, fault, head, pos,
                 feeders>>

(* Mutant: a Mux that is still UNDEFINED counts as none. *)
OpenStream_Anew(c) ==
  /\ conn[c].entry = "reading"
  /\ type = "UNDEFINED"
  /\ CreateMux(c)
  /\ conn' = [conn EXCEPT ![c].entry = "done"]
  /\ req' = [req EXCEPT ![c] = StreamRequest]
  /\ chain' = [chain EXCEPT ![c] = "statx"]
  /\ UNCHANGED <<fault, pos, headers>>

(* SERVER_READ of a GET for a resource that does not exist: the Mux is     *)
(* created and the fetch starts with a statx of the cache file.            *)
OpenStream(c) ==
  /\ conn[c].entry = "reading"
  /\ ~resource
  /\ CreateMux(c)
  /\ conn' = [conn EXCEPT ![c].entry = "done"]
  /\ req' = [req EXCEPT ![c] = StreamRequest]
  /\ chain' = [chain EXCEPT ![c] = "statx"]
  /\ UNCHANGED <<fault, pos, headers>>

(* WRITE_COMPLETE of an error response: HandleWrite closes the socket      *)
(* unless the write failed with EPIPE.                                     *)
ErrorWritten(c) ==
  /\ conn[c].entry = "failing"
  /\ \/ conn' = [conn EXCEPT ![c].entry = "done", ![c].fd = "closed"]
     \/ /\ conn[c].peer = "gone"
        /\ conn' = [conn EXCEPT ![c].entry = "done"]
  /\ UNCHANGED <<muxVars, req, chain, fault, head, pos, headers, feeders>>

-----------------------------------------------------------------------------
(* What the upstream side does to the Mux. *)

(* CloseStream: every registered request gets a nop that closes it, also   *)
(* one whose write is in flight, and the Mux goes.                         *)
CloseStream ==
  /\ req' = [c \in Clients |-> IF c \in Registered THEN CloseRequest(req[c])
                                                   ELSE req[c]]
  /\ ReleaseResource
  /\ UNCHANGED <<conn, fault, pos, headers>>

(* Mutant: the requests are freed without an answer. *)
ReleaseErrorAllWaitingRequest_Mute ==
  /\ req' = [c \in Clients |-> IF c \in Registered THEN Released(req[c])
                                                   ELSE req[c]]
  /\ ReleaseResource
  /\ UNCHANGED <<conn, fault, pos, headers>>

(* ReleaseErrorAllWaitingRequest: every registered request is answered     *)
(* with an error through a Request of its own and freed, also one whose    *)
(* write is in flight, and the Mux goes.                                   *)
ReleaseErrorAllWaitingRequest ==
  /\ conn' = [c \in Clients |-> IF c \in Registered
                                  THEN [conn[c] EXCEPT !.entry = "failing"]
                                  ELSE conn[c]]
  /\ req' = [c \in Clients |-> IF c \in Registered THEN Released(req[c])
                                                   ELSE req[c]]
  /\ ReleaseResource
  /\ UNCHANGED <<fault, pos, headers>>

(* Mutant: is_processing is not looked at. *)
Waiting_Any == Registered

Waiting == {c \in Registered : ~req[c].is_processing}

(* Mutant: only the first request gets the header. *)
SetStreamingResource_First ==
  /\ type' = "STREAMING"
  /\ req' = [c \in Clients |-> IF requests # <<>> /\ c = requests[1]
                                 THEN HeaderRequest(req[c]) ELSE req[c]]
  /\ headers' = [c \in Clients |-> IF requests # <<>> /\ c = requests[1]
                                     THEN headers[c] + 1 ELSE headers[c]]

(* SetStreamingResource: the Mux is a stream from here on, and every       *)
(* registered request that has no operation in flight gets the header.     *)
SetStreamingResource ==
  /\ type' = "STREAMING"
  /\ req' = [c \in Clients |-> IF c \in Waiting THEN HeaderRequest(req[c])
                                                ELSE req[c]]
  /\ headers' = [c \in Clients |-> IF c \in Waiting THEN headers[c] + 1
                                                    ELSE headers[c]]

(* The block that a read brought goes to the slot at the pivot. *)
FillBuffer ==
  /\ buffer' = Fill(StreamingBufferSize, buffer, pivot, head)
  /\ pivot' = NextSlot(StreamingBufferSize, pivot)
  /\ head' = head + 1

(* NotifyStream: the block is stored and each request without an operation *)
(* in flight is sent the block in front of it, if there is one             *)
(* (AddWriteStreamRequest).  A request that never had a header has no      *)
(* memory in iov[0]: the block is copied to an uninitialised pointer.      *)
Woken == {c \in Waiting : Holds(buffer', req[c].pivot)}

NotifyStream ==
  /\ FillBuffer
  /\ req' = [c \in Clients |-> IF c \in Woken THEN BlockRequest(req[c])
                                              ELSE req[c]]
  /\ pos' = [c \in Clients |-> IF c \in Woken
                                 THEN buffer'[req[c].pivot] + 1
                                 ELSE pos[c]]
  /\ fault' = IF \E c \in Woken : headers[c] = 0 THEN "undefined" ELSE fault
  /\ UNCHANGED <<resource, type, requests, conn, headers>>

-----------------------------------------------------------------------------
(* The fetch that client c started; it outlives c and its Mux. *)

(* What AddFetchAAAARequest can come to: it takes the address from the     *)
(* host file, the literal or the DNS cache, sends a query, or fails:       *)
(* dnsError only logs, and the fetch is lost.                              *)
AddFetchAAAARequest == {"connect", "dns", "dropped"}

(* CACHE_EXISTS without a cached file. *)
StatxDone(c) ==
  /\ chain[c] = "statx"
  /\ \E next \in AddFetchAAAARequest : chain' = [chain EXCEPT ![c] = next]
  /\ UNCHANGED <<muxVars, conn, req, fault, head, pos, headers, feeders>>

(* The DNS answer arrives (dnsRight) or says that there is no address      *)
(* (dnsWrong and dnsError only log).                                       *)
DnsAnswer(c) ==
  /\ chain[c] = "dns"
  /\ \E next \in {"connect", "dropped"} :
       chain' = [chain EXCEPT ![c] = next]
  /\ UNCHANGED <<muxVars, conn, req, fault, head, pos, headers, feeders>>

(* HTTP_FETCH, with a connect and a send that succeed. *)
Connect(c) ==
  /\ chain[c] \in {"connect", "retry"}
  /\ chain' = [chain EXCEPT ![c] = "header"]
  /\ UNCHANGED <<muxVars, conn, req, fault, head, pos, headers, feeders>>

(* Mutant: the host is resolved again before the retry. *)
ConnectRetry_Resolve(c) ==
  /\ chain[c] \in {"connect", "retry"}
  /\ chain' = [chain EXCEPT ![c] = "dns"]
  /\ UNCHANGED <<muxVars, conn, req, fault, head, pos, headers, feeders>>

(* HTTP_FETCH, with a connect that returns EAGAIN: the same event after    *)
(* 200 ms, for as long as it takes.                                        *)
ConnectRetry(c) ==
  /\ chain[c] \in {"connect", "retry"}
  /\ chain' = [chain EXCEPT ![c] = "retry"]
  /\ UNCHANGED <<muxVars, conn, req, fault, head, pos, headers, feeders>>

(* Mutant: after the end of the stream the connection is read on. *)
FetchEnds_ReadOn(c) ==
  /\ UNCHANGED chain
  /\ chain[c] \in {"header", "content"}
  /\ CloseStream

(* An upstream step that ends the fetch: a read error or, before that, a   *)
(* connect or send that fails (error), or the end of the origin's answer   *)
(* (eof).  Both look the Mux up with at().                                 *)
FetchEnds(c) ==
  /\ chain' = [chain EXCEPT ![c] = "ended"]
  /\ \/ /\ chain[c] \in {"connect", "retry", "header", "content"}
        /\ ReleaseErrorAllWaitingRequest
     \/ /\ chain[c] \in {"header", "content"}
        /\ CloseStream

FetchFails(c) ==
  IF resource
    THEN FetchEnds(c)
    ELSE /\ chain[c] \in {"connect", "retry", "header", "content"}
         /\ Crash("terminate")

(* HTTP_READ_HEADER with data.  The bytes after the header are the first   *)
(* block; after SetStreamingResource there is a registered request (Fed)   *)
(* and each has a write in flight, so NotifyStream only stores the block.  *)
HeaderRead(c) ==
  /\ chain[c] = "header"
  /\ IF ~resource
       THEN Crash("terminate")
       ELSE /\ SetStreamingResource
            /\ \/ UNCHANGED <<buffer, pivot, head>>
               \/ head < MaxBlocks /\ FillBuffer
            /\ chain' = [chain EXCEPT ![c] = "content"]
            /\ feeders' = feeders \cup {c}
            /\ UNCHANGED <<resource, requests, conn, fault, pos>>

(* HTTP_READ_CONTENT with data: the upstream socket is closed when there   *)
(* is nobody to notify, else the next read is submitted.                   *)
ContentRead(c) ==
  /\ chain[c] = "content"
  /\ \/ /\ resource /\ requests # <<>>
        /\ head < MaxBlocks
        /\ NotifyStream
        /\ feeders' = feeders \cup {c}
        /\ UNCHANGED chain
     \/ /\ requests = <<>>
        /\ ReleaseResource
        /\ chain' = [chain EXCEPT ![c] = "ended"]
        /\ UNCHANGED <<conn, req, fault, pos, headers>>

-----------------------------------------------------------------------------
(* Completions that carry the client's stream Request. *)

(* Mutant: at the slot that the producer fills after the next one. *)
StartPivot_Ahead == NextSlot(StreamingBufferSize, pivot)

(* Where a client starts once it has the header: with the first registered *)
(* request.                                                                *)
StartPivot == IF requests # <<>> THEN req[requests[1]].pivot ELSE pivot
StartPos == IF requests # <<>> THEN pos[requests[1]] ELSE head

(* WRITE_HEADER, whatever its result: the client is given its start and is *)
(* sent the block in front of it.                                          *)
HeaderWritten(c) ==
  /\ req[c].state = "live" /\ req[c].event_type = "WRITE_HEADER"
  /\ req[c].writes > 0
  /\ IF ~resource
       THEN Crash("terminate")
       ELSE LET idle == [WriteCompleted(req[c]) EXCEPT !.pivot = StartPivot]
            IN  /\ IF type = "STREAMING" /\ Holds(buffer, StartPivot)
                     THEN /\ req' = [req EXCEPT ![c] = BlockRequest(idle)]
                          /\ pos' = [pos EXCEPT ![c] = buffer[StartPivot] + 1]
                     ELSE /\ req' = [req EXCEPT ![c] = idle]
                          /\ pos' = [pos EXCEPT ![c] = StartPos]
                /\ UNCHANGED <<muxVars, conn, chain, fault, head, headers,
                               feeders>>

(* WRITE_PARTIAL that did not fail with EPIPE: it worked, or the peer is   *)
(* gone and the error is another one.  ProcessNext has nothing to do for a *)
(* stream: the client waits for the next block to be stored.               *)
BlockWritten(c) ==
  /\ req[c].state = "live" /\ req[c].event_type = "WRITE_PARTIAL"
  /\ req[c].writes > 0
  /\ IF ~resource
       THEN Crash("terminate")
       ELSE /\ req' = [req EXCEPT ![c] = WriteCompleted(@)]
            /\ UNCHANGED <<muxVars, conn, chain, fault, head, pos, headers,
                           feeders>>

(* WRITE_PARTIAL that failed with EPIPE: RemoveRequest and ReleaseRequest. *)
(* The descriptor is not closed.  A request that its Mux does not know     *)
(* would be erase(end()).                                                  *)
BlockRefused(c) ==
  /\ req[c].state = "live" /\ req[c].event_type = "WRITE_PARTIAL"
  /\ req[c].writes > 0
  /\ conn[c].peer = "gone"
  /\ IF resource /\ c \notin Registered
       THEN Crash("undefined")
       ELSE /\ req' = [req EXCEPT ![c] = Released(WriteCompleted(@))]
            /\ IF resource /\ (type # "STREAMING" \/ Registered # {c})
                 THEN /\ requests' = Without(c)
                      /\ UNCHANGED <<resource, type, buffer, pivot, head,
                                     feeders>>
                 ELSE ReleaseResource
            /\ UNCHANGED <<conn, chain, fault, pos, headers>>

(* SERVER_CLOSE: the first completion of a request that CloseStream has    *)
(* marked, be it the nop or a write that was still in flight.              *)
HandleClose(c) ==
  /\ req[c].state = "live" /\ req[c].event_type = "SERVER_CLOSE"
  /\ \/ /\ req[c].closes > 0
        /\ req' = [req EXCEPT ![c] = Released(CloseCompleted(@))]
     \/ /\ req[c].writes > 0
        /\ req' = [req EXCEPT ![c] = Released(WriteCompleted(@))]
  /\ conn' = [conn EXCEPT ![c].fd = "closed"]
  /\ UNCHANGED <<muxVars, chain, fault, head, pos, headers, feeders>>

(* A completion whose Request has been freed: Engine::Run writes to it and *)
(* dispatches on what it finds there.                                      *)
FreedCompleted(c) ==
  /\ req[c].state = "freed"
  /\ InFlight(req[c]) > 0
  /\ Crash("undefined")

-----------------------------------------------------------------------------
ClientStep(c) ==
  \/ Accept(c) \/ PeerLeaves(c)
  \/ RejectRead(c) \/ JoinStream(c) \/ OpenStream(c)
  \/ ErrorWritten(c)

FetchStep(c) ==
  \/ StatxDone(c) \/ DnsAnswer(c)
  \/ Connect(c) \/ ConnectRetry(c) \/ FetchFails(c)
  \/ HeaderRead(c) \/ ContentRead(c)

StreamStep(c) ==
  \/ HeaderWritten(c) \/ BlockWritten(c) \/ BlockRefused(c)
  \/ HandleClose(c) \/ FreedCompleted(c)

Next ==
  /\ fault = "none"
  /\ \E c \in Clients : ClientStep(c) \/ FetchStep(c) \/ StreamStep(c)

Spec == Init /\ [][Next]_vars

(* A nop always completes, and Engine::Run takes every completion. *)
FairSpec ==
  Spec /\ \A c \in Clients : WF_vars(fault = "none" /\ HandleClose(c))

-----------------------------------------------------------------------------
Chains == {"none", "statx", "dns", "connect", "retry", "header", "content",
           "ended", "dropped"}
Peers == {"away", "open", "gone"}
Conns == [peer : Peers, fd : {"none", "open", "closed"},
          entry : {"none", "reading", "failing", "done"}]
Requests ==
  [state : {"none", "live", "freed"},
   event_type : {"none", "WRITE_HEADER", "WRITE_PARTIAL", "SERVER_CLOSE"},
   is_processing : BOOLEAN,
   pivot : Slots(StreamingBufferSize), writes : Nat, closes : Nat]

(* Every variable has its type. *)
TypeOK ==
  /\ resource \in BOOLEAN
  /\ type \in {"UNDEFINED", "STREAMING"}
  /\ requests \in Seq(Clients)
  /\ buffer \in [Slots(StreamingBufferSize) -> Int]
  /\ pivot \in Slots(StreamingBufferSize)
  /\ conn \in [Clients -> Conns]
  /\ req \in [Clients -> Requests]
  /\ chain \in [Clients -> Chains]
  /\ fault \in {"none", "terminate", "undefined"}
  /\ head \in Nat
  /\ pos \in [Clients -> Nat]
  /\ headers \in [Clients -> Nat]
  /\ feeders \subseteq Clients

NobodyLeft == \A c \in Clients : conn[c].peer # "gone"
NothingEnded == \A c \in Clients : chain[c] # "ended"

(* The ring of a Mux (Stream.cpp:155-168) holds, in every slot but the     *)
(* producer's, the newest block that belongs there, and nothing a reader   *)
(* could take for a block in the producer's own slot: marking one slot     *)
(* ahead is enough to void every block of the last round in time.          *)
RingHoldsNewest == RingState(StreamingBufferSize, buffer, pivot, head)

(* A stream Request has one iov[0] and one event_type: it never has two    *)
(* writes in flight, whatever joins, reads and completions interleave      *)
(* (the is_processing protocol of Stream.cpp:132, 170 and Engine.cpp:281). *)
SingleFlight == \A c \in Clients : req[c].writes <= 1

(* From one block that a client is sent to the next the number grows by    *)
(* one, or by one more than some laps of the ring: what a slow client      *)
(* misses it misses in whole laps, and the pivots of Mux and client        *)
(* (Stream.cpp:163-168, 194-213) never serve an old block as a new one.    *)
InOrder ==
  [][\A c \in Clients :
       (req[c].event_type = "WRITE_PARTIAL" /\ pos'[c] # pos[c])
         => /\ pos'[c] > pos[c]
            /\ (pos'[c] - pos[c]) % StreamingBufferSize = 1]_vars

(* A client that has got the header is put next to the first registered    *)
(* client, and the block that it is sent at once, if any, is none that     *)
(* this client has gone past (Stream.cpp:80-85, 166-168).                  *)
FreshStart ==
  [][\A c \in Clients :
       (req[c].event_type = "WRITE_HEADER" /\ req[c].is_processing
          /\ pos'[c] # pos[c])
         => pos'[c] >= StartPos]_vars

(* A client whose slot has no block stands at the slot that the producer   *)
(* fills next, so that the next NotifyStream serves it                     *)
(* (Stream.cpp:193-202 returns without any retry).                         *)
NeverStranded ==
  \A c \in Registered :
    ~Holds(buffer, req[c].pivot) => req[c].pivot = pivot

(* mux->requests has no pointer twice and none to a Request that was freed *)
(* or is being closed (Stream.cpp:290, Engine.cpp:309-311).                *)
RegisteredAreLive ==
  /\ \A i, j \in DOMAIN requests : requests[i] = requests[j] => i = j
  /\ \A c \in Registered :
       req[c].state = "live" /\ req[c].event_type # "SERVER_CLOSE"

(* No client is lost: a Request that was not freed is registered, where    *)
(* the next block or the end of the stream finds it, or its nop is on the  *)
(* way (Stream.cpp:304-312).                                               *)
LiveIsReachable ==
  \A c \in Clients :
    req[c].state = "live" => c \in Registered \/ req[c].closes > 0

(* Once the Mux is a stream every registered client has been sent the      *)
(* header, whether it joined before the origin's header came               *)
(* (Stream.cpp:132-136) or after (Stream.cpp:46-48).                       *)
HeaderForAll ==
  type = "STREAMING" => \A c \in Registered : headers[c] > 0

(* A client that is answered with an error is not, and will not be, sent   *)
(* the stream as well (Stream.cpp:30-43, 226-229; Server.cpp:73, 102).     *)
ErrorExcludesStream ==
  \A c \in Clients :
    conn[c].entry \in {"reading", "failing"} =>
      c \notin Registered /\ req[c].state # "live"

(* The bookkeeping of a Mux: the types, its ring, and its Requests.        *)
MuxIsSound ==
  /\ TypeOK
  /\ RingHoldsNewest
  /\ SingleFlight
  /\ RegisteredAreLive
  /\ LiveIsReachable
  /\ ErrorExcludesStream

(* While no client leaves and no fetch ends, no order of joins, blocks and *)
(* completions makes a handler throw or touch memory it must not.          *)
FaultFree == (NobodyLeft /\ NothingEnded) => fault = "none"

(* An at() that throws needs a fetch that outlived its Mux, and that needs *)
(* a client that left (Stream.cpp:222, 305; Http.cpp:98-101, 143-148).     *)
TerminateNeedsDeparture == fault = "terminate" => ~NobodyLeft

(* The process dies of departures, and of the ends of fetches only where   *)
(* it touches memory it must not (Stream.cpp:146, 226, 305, Http.cpp:143). *)
FaultNeedsDeparture == FaultFree /\ TerminateNeedsDeparture

(* A Mux never waits for nobody and never for nothing: it has a client,    *)
(* and some fetch that was started for it or has written to it is under    *)
(* way, or was dropped by the resolver (Stream.cpp:294-299,                *)
(* Http.cpp:95-172, Dns.cpp:184-190).                                      *)
Fed ==
  resource =>
    /\ requests # <<>>
    /\ \E c \in feeders : chain[c] \notin {"none", "ended"}

(* The multiplexer: as long as no client leaves, one upstream connection   *)
(* feeds all the clients of a resource (Stream.cpp:26, 45-51).             *)
SingleFeeder == NobodyLeft => \A c, d \in feeders : c = d

(* A Mux has its feeder, and only one.                                     *)
OneFeeder == Fed /\ SingleFeeder

(* What the fetches see of the resolver is Lookup, which Resolver          *)
(* implements (Engine.cpp:323-325, Dns.cpp:53-190).                        *)
LookupStatus ==
  [c \in Clients |->
     IF chain[c] \in {"none", "statx"} THEN "new"
     ELSE IF chain[c] = "dns" THEN "waiting"
     ELSE IF chain[c] = "dropped" THEN "dropped"
     ELSE "connect"]

L == INSTANCE Lookup WITH Requests <- Clients, status <- LookupStatus

FetchesLookUp == L!LookupSpec

(* A descriptor is not lost: when its Request is freed the socket is       *)
(* closed or an error response will close it; only a peer that has gone    *)
(* can leave one behind (Engine.cpp:308-311, Server.cpp:193).              *)
DescriptorReleased ==
  \A c \in Clients :
    (req[c].state = "freed" /\ conn[c].peer = "open") =>
      conn[c].fd = "closed" \/ conn[c].entry = "failing"

(* A client that the end of the stream has marked is closed, unless the    *)
(* process dies first (Stream.cpp:307, Server.cpp:204-216).                *)
EveryoneIsClosed ==
  \A c \in Clients :
    (req[c].state = "live" /\ c \notin Registered)
      ~> (conn[c].fd = "closed" \/ fault # "none")
=============================================================================
