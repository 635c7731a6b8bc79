--------------------------- MODULE CachedResource ---------------------------
(***************************************************************************)
(* One resource of the cache: its file and header file, the Node through   *)
(* which the fetch's blocks are written to the file, and the clients that  *)
(* are served from the file, while it grows and afterwards.                *)
(*                                                                         *)
(* Every action is a completion with its whole handler, or a moment at     *)
(* which the kernel executes a read or write of the file: that lies        *)
(* anywhere between the submission and the completion.                     *)
(*                                                                         *)
(* Scope: the origin answers with "Connection: close" (RESOURCE_TYPE_CACHE)*)
(* and the Mux is not in_memory, so that the ring of the Mux is not used.  *)
(* What a client's departure does is nothing: a write to it that fails is  *)
(* taken for one that worked.  A block fills HttpBufferSize; it is one     *)
(* cell of the file, and a read brings one cell.                           *)
(***************************************************************************)
EXTENDS BlockRing, Sequences

CONSTANTS
  Clients,          \* the connections the server accepts, each used once
  CacheBufferSize,  \* Settings::CacheBufferSize, slots of a Node
  MaxBlocks,        \* bound: blocks of an answer
  MaxRestarts       \* bound: restarts of the process

ASSUME BufferAssumption == CacheBufferSize \in Nat /\ CacheBufferSize >= 2
ASSUME BoundAssumption == MaxBlocks \in Nat /\ MaxRestarts \in Nat

EndBuffer == -3  \* iov_len = END_BUFFER, EventType.hpp:32
Hole == -1       \* a cell of the file that was never written
Pending == -1    \* the kernel has not executed the read

VARIABLES
  resource,      \* the resource id is in Stream::resources_
  type,          \* mux->type
  is_completed,  \* mux->is_completed
  header,        \* mux->header: "none", "empty" or "whole"
  requests,      \* mux->requests
  node,          \* the Node of the resource in Cache::nodes_
  file,          \* the cells of the file
  file_exists,
  header_file,   \* "none", "empty" or "whole"
  header_write,  \* the header file is being written
  req,           \* the stream Request of a client
  chain,         \* the fetch that a client started
  fault,         \* how the process died, as in LiveStream
  (* history *)
  got,           \* cells that the client was sent
  failed,        \* a fetch or the opening of a file has failed
  restarts

muxVars == <<resource, type, is_completed, header, requests>>
fileVars == <<file, file_exists, header_file, header_write>>
vars == <<muxVars, node, fileVars, req, chain, fault, got, failed,
          restarts>>

-----------------------------------------------------------------------------
(* An operator whose name is a definition's and a suffix is a MUTANT: the  *)
(* definition with the bug that its comment names.                         *)

(* struct Request of a client.  flight counts the submitted operations     *)
(* whose completions carry it; offset and readed are those of a read.      *)
NoRequest ==
  [state |-> "none", event_type |-> "none", is_processing |-> FALSE,
   flight |-> 0, pivot |-> 0, auxiliar |-> "none", offset |-> 0,
   readed |-> Pending]

StreamRequest == [NoRequest EXCEPT !.state = "live"]

Submitted(r, event_type) ==
  [r EXCEPT !.event_type = event_type, !.is_processing = TRUE,
            !.flight = @ + 1]

ReadRequest(r, offset) ==
  [Submitted(r, "READ_CONTENT") EXCEPT !.offset = offset, !.readed = Pending]

(* AddCloseRequest does not touch is_processing. *)
CloseRequest(r) ==
  [r EXCEPT !.event_type = "SERVER_CLOSE", !.flight = @ + 1]

Released(r) == [r EXCEPT !.state = "freed"]

Completed(r) == [r EXCEPT !.flight = @ - 1, !.is_processing = FALSE]

(* The completion of a client's Request that has this event type. *)
Completes(c, event_type) ==
  req[c].state = "live" /\ req[c].event_type = event_type
    /\ req[c].flight > 0

Registered == {requests[i] : i \in DOMAIN requests}

(* RemoveRequest: the place of a pointer, and the vector without it. *)
Position(c) == CHOOSE i \in DOMAIN requests : requests[i] = c

Without(c) ==
  SubSeq(requests, 1, Position(c) - 1)
    \o SubSeq(requests, Position(c) + 1, Len(requests))

(* Utils::CacheRequest.  block, offset and written are those of a write.   *)
CacheRequest ==
  [is_processing |-> FALSE, flight |-> 0, pivot |-> 0, block |-> Hole,
   offset |-> 0, written |-> TRUE]

(* CreateNode.  cache is the Request that writes the file; head is history:*)
(* the number of blocks put into the Node.                                 *)
NewNode ==
  [exists |-> TRUE, buffer |-> FreshRing(CacheBufferSize), pivot |-> 0,
   size |-> 0, cache |-> CacheRequest, head |-> 0]

NoNode == [NewNode EXCEPT !.exists = FALSE]

Init ==
  /\ resource = FALSE /\ type = "UNDEFINED" /\ is_completed = FALSE
  /\ header = "none" /\ requests = <<>>
  /\ node = NoNode
  /\ file = <<>> /\ file_exists = FALSE
  /\ header_file = "none" /\ header_write = FALSE
  /\ req = [c \in Clients |-> NoRequest]
  /\ chain = [c \in Clients |-> "none"]
  /\ fault = "none"
  /\ got = [c \in Clients |-> 0]
  /\ failed = FALSE
  /\ restarts = 0

(* The process dies: nothing after it is of interest. *)
Crash(how) ==
  /\ fault' = how
  /\ UNCHANGED <<muxVars, node, fileVars, req, chain, got, failed,
                 restarts>>

-----------------------------------------------------------------------------
(* The Mux. *)

(* Mutant: the flag is set whoever calls. *)
SetCacheResource_Complete(text, completed) ==
  /\ type' = "CACHE" /\ is_completed' = TRUE /\ header' = text
  /\ req' = [c \in Clients |->
               IF c \in Registered /\ ~req[c].is_processing
                 THEN Submitted(req[c], "WRITE_HEADER") ELSE req[c]]
  /\ UNCHANGED <<resource, requests>>

(* SetCacheResource: every request without an operation in flight is sent  *)
(* the header.                                                             *)
SetCacheResource(text, completed) ==
  /\ type' = "CACHE" /\ is_completed' = completed /\ header' = text
  /\ req' = [c \in Clients |->
               IF c \in Registered /\ ~req[c].is_processing
                 THEN Submitted(req[c], "WRITE_HEADER") ELSE req[c]]
  /\ UNCHANGED <<resource, requests>>

ReleaseResource ==
  /\ resource' = FALSE /\ type' = "UNDEFINED" /\ is_completed' = FALSE
  /\ header' = "none" /\ requests' = <<>>

(* CloseStream: the answer ended before its header. *)
CloseStream ==
  /\ req' = [c \in Clients |-> IF c \in Registered THEN CloseRequest(req[c])
                                                   ELSE req[c]]
  /\ ReleaseResource

(* ReleaseErrorAllWaitingRequest: the answers with an error are sent by    *)
(* Requests of their own.                                                  *)
ReleaseErrorAllWaitingRequest ==
  /\ req' = [c \in Clients |-> IF c \in Registered THEN Released(req[c])
                                                   ELSE req[c]]
  /\ ReleaseResource

(* Mutant: the requests that wait are left alone. *)
NotifyCacheCompleted_Quiet ==
  /\ is_completed' = TRUE
  /\ UNCHANGED <<req, fault>>

(* Mutant: is_processing is not looked at. *)
NotifyCacheCompleted_Any ==
  /\ is_completed' = TRUE
  /\ req' = [c \in Clients |->
               IF c \in Registered THEN ReadRequest(req[c], req[c].pivot)
                                   ELSE req[c]]
  /\ fault' = IF \E c \in Registered : req[c].auxiliar = "none"
                THEN "undefined" ELSE fault

(* NotifyCacheCompleted: the requests that wait at the end of the file     *)
(* read on; one that could not open the file has no descriptor to read.    *)
NotifyCacheCompleted ==
  LET waiting == {c \in Registered : ~req[c].is_processing}
  IN  IF ~resource
        THEN UNCHANGED <<is_completed, req, fault>>
        ELSE /\ is_completed' = TRUE
             /\ req' = [c \in Clients |->
                          IF c \in waiting
                            THEN ReadRequest(req[c], req[c].pivot)
                            ELSE req[c]]
             /\ fault' = IF \E c \in waiting : req[c].auxiliar = "none"
                           THEN "undefined" ELSE fault

-----------------------------------------------------------------------------
(* The Node. *)

(* node->size has grown by the block's length before it is the offset. *)
WriteOffset(n) == n.size + 1

(* HandleWrite of a block: it goes into iov[0] and to the file. *)
WriteBlock(n) ==
  [n EXCEPT
     !.size = @ + 1,
     !.cache = [is_processing |-> TRUE, flight |-> n.cache.flight + 1,
                pivot |-> NextSlot(CacheBufferSize, n.cache.pivot),
                block |-> n.buffer[n.cache.pivot], offset |-> WriteOffset(n),
                written |-> FALSE]]

Stored(n) ==
  [n EXCEPT !.buffer = Fill(CacheBufferSize, @, n.pivot, n.head),
            !.pivot = NextSlot(CacheBufferSize, @), !.head = @ + 1]

(* Mutant: a writer that is busy is started as well. *)
Appended_Busy(n) ==
  IF Holds(Stored(n).buffer, n.cache.pivot) THEN WriteBlock(Stored(n))
                                            ELSE Stored(n)

(* Mutant: the writer is started only while it is busy. *)
Appended_Idle(n) ==
  IF n.cache.is_processing /\ Holds(Stored(n).buffer, n.cache.pivot)
    THEN WriteBlock(Stored(n))
    ELSE Stored(n)

(* AppendBuffer: the block is stored, and an idle writer is started.  It   *)
(* may find nothing to write in front of it.                               *)
Appended(n) ==
  IF ~n.cache.is_processing /\ Holds(Stored(n).buffer, n.cache.pivot)
    THEN WriteBlock(Stored(n))
    ELSE Stored(n)

(* Mutant: it takes the place of the last block. *)
Closed_Last(n) ==
  [n EXCEPT !.buffer =
     [@ EXCEPT ![(n.pivot + CacheBufferSize - 1) % CacheBufferSize] =
        EndBuffer]]

(* CloseBuffer: END_BUFFER goes where the next block would; nobody tells   *)
(* the writer.                                                             *)
Closed(n) == [n EXCEPT !.buffer = [@ EXCEPT ![n.pivot] = EndBuffer]]

-----------------------------------------------------------------------------
(* A client.  Requests that are answered at once are LiveStream's. *)

(* SERVER_READ of a GET for a resource that exists. *)
JoinResource(c) ==
  /\ req[c].state = "none"
  /\ resource
  /\ requests' = Append(requests, c)
  /\ req' = [req EXCEPT ![c] =
               IF type = "UNDEFINED" THEN StreamRequest
               ELSE Submitted(StreamRequest, "WRITE_HEADER")]
  /\ UNCHANGED <<resource, type, is_completed, header, node, fileVars, chain,
                 fault, got, failed, restarts>>

(* Mutant: a Mux that is still UNDEFINED counts as none. *)
OpenResource_Anew(c) ==
  /\ req[c].state = "none"
  /\ type = "UNDEFINED"
  /\ resource' = TRUE /\ requests' = <<c>>
  /\ req' = [req EXCEPT ![c] = StreamRequest]
  /\ chain' = [chain EXCEPT ![c] = "statx"]
  /\ UNCHANGED <<type, is_completed, header, node, fileVars, fault, got,
                 failed, restarts>>

(* SERVER_READ of a GET for a resource that does not exist. *)
OpenResource(c) ==
  /\ req[c].state = "none"
  /\ ~resource
  /\ resource' = TRUE /\ requests' = <<c>>
  /\ req' = [req EXCEPT ![c] = StreamRequest]
  /\ chain' = [chain EXCEPT ![c] = "statx"]
  /\ UNCHANGED <<type, is_completed, header, node, fileVars, fault, got,
                 failed, restarts>>

(* WRITE_HEADER, whatever its result.  The pivot is taken from the first   *)
(* request, the read starts at 0.                                          *)
HeaderWritten(c) ==
  /\ Completes(c, "WRITE_HEADER")
  /\ IF ~resource THEN Crash("terminate")
     ELSE LET r == [Completed(req[c]) EXCEPT !.pivot = req[requests[1]].pivot]
          IN  /\ \/ /\ req' = [req EXCEPT ![c] =
                                 [ReadRequest(r, 0) EXCEPT !.auxiliar = "open"]]
                    /\ UNCHANGED failed
                 \/ req' = [req EXCEPT ![c] = r] /\ failed' = TRUE
              /\ UNCHANGED <<muxVars, node, fileVars, chain, fault, got,
                             restarts>>

(* The kernel executes the read. *)
ReadHappens(c) ==
  /\ Completes(c, "READ_CONTENT") /\ req[c].readed = Pending
  /\ req' = [req EXCEPT ![c].readed =
               IF req[c].offset < Len(file) THEN 1 ELSE 0]
  /\ UNCHANGED <<muxVars, node, fileVars, chain, fault, got, failed, restarts>>

(* READ_CONTENT with data: what was read is sent. *)
ContentRead(c) ==
  /\ Completes(c, "READ_CONTENT") /\ req[c].readed = 1
  /\ req' = [req EXCEPT ![c] =
               [Submitted(Completed(req[c]), "COPY_CONTENT")
                  EXCEPT !.pivot = @ + 1]]
  /\ got' = [got EXCEPT ![c] = @ + 1]
  /\ UNCHANGED <<muxVars, node, fileVars, chain, fault, failed, restarts>>

(* READ_CONTENT at the end of the file: the client is closed if the file   *)
(* is complete, and waits else.                                            *)
EndRead(c) ==
  /\ Completes(c, "READ_CONTENT") /\ req[c].readed = 0
  /\ IF ~resource THEN Crash("terminate")
     ELSE /\ IF is_completed
               THEN /\ req' = [req EXCEPT ![c] = CloseRequest(
                                 [Completed(req[c]) EXCEPT
                                    !.auxiliar = "closed"])]
                    /\ requests' = Without(c)
               ELSE /\ req' = [req EXCEPT ![c] = Completed(req[c])]
                    /\ UNCHANGED requests
          /\ UNCHANGED <<resource, type, is_completed, header, node, fileVars,
                         chain, fault, got, failed, restarts>>

(* COPY_CONTENT, whatever its result: the next read. *)
ContentCopied(c) ==
  /\ Completes(c, "COPY_CONTENT")
  /\ req' = [req EXCEPT ![c] = ReadRequest(Completed(req[c]), req[c].pivot)]
  /\ UNCHANGED <<muxVars, node, fileVars, chain, fault, got, failed, restarts>>

HandleClose(c) ==
  /\ Completes(c, "SERVER_CLOSE")
  /\ req' = [req EXCEPT ![c] = Released(Completed(req[c]))]
  /\ UNCHANGED <<muxVars, node, fileVars, chain, fault, got, failed, restarts>>

(* A completion of a Request that was freed. *)
FreedCompleted(c) ==
  /\ req[c].state = "freed" /\ req[c].flight > 0
  /\ Crash("undefined")

-----------------------------------------------------------------------------
(* The fetch that c started. *)

(* CACHE_EXISTS: a file is served as it is, if it has a header file that   *)
(* can be opened; else the Mux is left to itself.                          *)
StatxDone(c) ==
  /\ chain[c] = "statx"
  /\ \/ /\ ~file_exists
        /\ \E next \in {"fetch", "dropped"} :
             chain' = [chain EXCEPT ![c] = next]
        /\ UNCHANGED failed
     \/ /\ file_exists /\ header_file # "none"
        /\ chain' = [chain EXCEPT ![c] =
                        IF header_file = "whole" THEN "read_header"
                                                 ELSE "read_early"]
        /\ UNCHANGED failed
     \/ /\ file_exists
        /\ chain' = [chain EXCEPT ![c] = "dropped"] /\ failed' = TRUE
  /\ UNCHANGED <<muxVars, node, fileVars, req, fault, got, restarts>>

(* CACHE_READ_HEADER: the file counts as complete.  A read that was        *)
(* submitted before the header file was written may find it empty.         *)
HeaderFileRead(c) ==
  /\ chain[c] \in {"read_header", "read_early"}
  /\ IF ~resource THEN Crash("terminate")
     ELSE /\ \E text \in {header_file} \cup
                  (IF chain[c] = "read_early" THEN {"empty"} ELSE {}) :
               SetCacheResource(text, TRUE)
          /\ chain' = [chain EXCEPT ![c] = "ended"]
          /\ UNCHANGED <<node, fileVars, fault, got, failed, restarts>>

(* DNS, connect and send, which LiveStream has in detail. *)
Fetch(c) ==
  /\ chain[c] = "fetch"
  /\ \E next \in {"header", "dropped"} : chain' = [chain EXCEPT ![c] = next]
  /\ UNCHANGED <<muxVars, node, fileVars, req, fault, got, failed, restarts>>

(* A connect, a send or a read that fails. *)
FetchFails(c) ==
  /\ chain[c] \in {"fetch", "header", "content"}
  /\ IF ~resource THEN Crash("terminate")
     ELSE /\ ReleaseErrorAllWaitingRequest
          /\ chain' = [chain EXCEPT ![c] = "ended"]
          /\ failed' = TRUE
          /\ UNCHANGED <<node, fileVars, fault, got, restarts>>

(* HTTP_READ_HEADER at the end of the answer. *)
HeaderEnds(c) ==
  /\ chain[c] = "header"
  /\ IF ~resource THEN Crash("terminate")
     ELSE /\ CloseStream
          /\ chain' = [chain EXCEPT ![c] = "ended"]
          /\ UNCHANGED <<node, fileVars, fault, got, failed, restarts>>

(* GenerateNode: the file is truncated, and the header file unless it      *)
(* cannot be opened.  A Node that is there would be kept.                  *)
Generated == IF node.exists THEN node ELSE NewNode

GenerateNode ==
  /\ SetCacheResource("whole", FALSE)
  /\ file' = <<>> /\ file_exists' = TRUE
  /\ \/ header_file' = "empty" /\ header_write' = TRUE /\ UNCHANGED failed
     \/ UNCHANGED <<header_file, header_write>> /\ failed' = TRUE

(* HTTP_READ_HEADER with data: GenerateNode, and AppendBuffer if there are *)
(* bytes after the header.                                                 *)
HeaderRead(c) ==
  /\ chain[c] = "header"
  /\ IF ~resource THEN Crash("terminate")
     ELSE /\ GenerateNode
          /\ \/ node' = Generated
             \/ Generated.head < MaxBlocks /\ node' = Appended(Generated)
          /\ chain' = [chain EXCEPT ![c] = "content"]
          /\ UNCHANGED <<fault, got, restarts>>

(* The same with a file that cannot be created: AppendBuffer has no Node.  *)
HeaderReadNoFile(c) ==
  /\ chain[c] = "header" /\ resource
  /\ failed' = TRUE
  /\ \/ ~node.exists /\ fault' = "terminate" /\ UNCHANGED chain
     \/ chain' = [chain EXCEPT ![c] = "content"] /\ UNCHANGED fault
  /\ UNCHANGED <<muxVars, node, fileVars, req, got, restarts>>

(* HTTP_READ_CONTENT with data.  HandleWrite looks the Mux up with at(). *)
BlockRead(c) ==
  /\ chain[c] = "content"
  /\ node.head < MaxBlocks
  /\ IF ~node.exists \/ (~resource /\ Appended(node).size # node.size)
       THEN Crash("terminate")
       ELSE /\ node' = Appended(node)
            /\ UNCHANGED <<muxVars, fileVars, req, chain, fault, got, failed,
                           restarts>>

(* HTTP_READ_CONTENT at the end of the answer. *)
AnswerEnds(c) ==
  /\ chain[c] = "content"
  /\ IF ~node.exists \/ ~resource THEN Crash("terminate")
     ELSE /\ node' = Closed(node)
          /\ chain' = [chain EXCEPT ![c] = "ended"]
          /\ UNCHANGED <<muxVars, fileVars, req, fault, got, failed, restarts>>

-----------------------------------------------------------------------------
(* The writer of the file. *)

(* The kernel executes the write; what lies before it and was never        *)
(* written is a hole.                                                      *)
WriteHappens ==
  /\ ~node.cache.written
  /\ LET o == node.cache.offset
     IN  file' = [i \in 1 .. (IF o < Len(file) THEN Len(file) ELSE o + 1) |->
                    IF i = o + 1 THEN node.cache.block
                    ELSE IF i \in DOMAIN file THEN file[i] ELSE Hole]
  /\ node' = [node EXCEPT !.cache.written = TRUE]
  /\ UNCHANGED <<muxVars, file_exists, header_file, header_write, req, chain,
                 fault, got, failed, restarts>>

WriterIdle == [node EXCEPT !.cache.is_processing = FALSE,
                           !.cache.flight = @ - 1]

(* WRITE_CONTENT: HandleWrite finds a block, nothing, or the end, which    *)
(* completes the Mux and releases the Node (its fields are history then).  *)
BlockWritten ==
  /\ node.cache.flight > 0 /\ node.cache.written
  /\ LET slot == node.cache.pivot
     IN  IF Holds(node.buffer, slot)
           THEN IF ~resource THEN Crash("terminate")
                ELSE /\ node' = WriteBlock(WriterIdle)
                     /\ UNCHANGED <<muxVars, fileVars, req, chain, fault, got,
                                    failed, restarts>>
           ELSE IF node.buffer[slot] = EndBuffer
           THEN /\ NotifyCacheCompleted
                /\ node' = [WriterIdle EXCEPT !.exists = FALSE]
                /\ UNCHANGED <<resource, type, header, requests, fileVars,
                               chain, got, failed, restarts>>
           ELSE /\ node' = WriterIdle
                /\ UNCHANGED <<muxVars, fileVars, req, chain, fault, got,
                               failed, restarts>>

(* The header file is written, and WRITE_HEADER is taken. *)
HeaderFileWritten ==
  /\ header_write
  /\ header_file' = "whole" /\ header_write' = FALSE
  /\ UNCHANGED <<muxVars, node, file, file_exists, req, chain, fault, got,
                 failed, restarts>>

(* The process is started anew: the files are what is left.  Clients that  *)
(* were connected are gone.                                                *)
Restart ==
  /\ restarts < MaxRestarts
  /\ restarts' = restarts + 1
  /\ ReleaseResource
  /\ node' = NoNode
  /\ req' = [c \in Clients |-> IF req[c].state = "none" THEN req[c]
                               ELSE [NoRequest EXCEPT !.state = "freed"]]
  /\ chain' = [c \in Clients |-> "none"]
  /\ header_write' = FALSE
  /\ fault' = "none"
  /\ UNCHANGED <<file, file_exists, header_file, got, failed>>

-----------------------------------------------------------------------------
ClientStep(c) ==
  \/ JoinResource(c) \/ OpenResource(c)
  \/ HeaderWritten(c) \/ ReadHappens(c) \/ ContentRead(c) \/ EndRead(c)
  \/ ContentCopied(c) \/ HandleClose(c) \/ FreedCompleted(c)

FetchStep(c) ==
  \/ StatxDone(c) \/ HeaderFileRead(c) \/ Fetch(c) \/ FetchFails(c)
  \/ HeaderEnds(c) \/ HeaderRead(c) \/ HeaderReadNoFile(c) \/ BlockRead(c)
  \/ AnswerEnds(c)

WriterStep == WriteHappens \/ BlockWritten \/ HeaderFileWritten

Next ==
  \/ /\ fault = "none"
     /\ \/ \E c \in Clients : ClientStep(c) \/ FetchStep(c)
        \/ WriterStep
  \/ Restart

Spec == Init /\ [][Next]_vars

(* Every completion is taken, the file is read and written in the end, and *)
(* a client takes what it is sent or its connection breaks.                *)
Service(c) ==
  \/ HeaderWritten(c) \/ ReadHappens(c) \/ ContentRead(c) \/ EndRead(c)
  \/ ContentCopied(c)

FairSpec ==
  /\ Spec
  /\ \A c \in Clients : WF_vars(fault = "none" /\ Service(c))
  /\ WF_vars(fault = "none" /\ (WriteHappens \/ BlockWritten))

-----------------------------------------------------------------------------
Readers ==
  [state : {"none", "live", "freed"},
   event_type : {"none", "WRITE_HEADER", "READ_CONTENT", "COPY_CONTENT",
                 "SERVER_CLOSE"},
   is_processing : BOOLEAN, flight : Nat, pivot : Nat,
   auxiliar : {"none", "open", "closed"}, offset : Nat,
   readed : {Pending, 0, 1}]
Writers ==
  [is_processing : BOOLEAN, flight : Nat, pivot : Slots(CacheBufferSize),
   block : Int, offset : Nat, written : BOOLEAN]
Nodes ==
  [exists : BOOLEAN, buffer : [Slots(CacheBufferSize) -> Int],
   pivot : Slots(CacheBufferSize), size : Nat, cache : Writers, head : Nat]
Chains ==
  {"none", "statx", "read_header", "read_early", "fetch", "header", "content",
   "ended", "dropped"}

(* Every variable has its type. *)
TypeOK ==
  /\ resource \in BOOLEAN /\ is_completed \in BOOLEAN
  /\ type \in {"UNDEFINED", "CACHE"}
  /\ header \in {"none", "empty", "whole"}
  /\ requests \in Seq(Clients)
  /\ node \in Nodes
  /\ file \in Seq(Int) /\ file_exists \in BOOLEAN
  /\ header_file \in {"none", "empty", "whole"}
  /\ header_write \in BOOLEAN
  /\ req \in [Clients -> Readers]
  /\ chain \in [Clients -> Chains]
  /\ fault \in {"none", "terminate", "undefined"}
  /\ got \in [Clients -> Nat]
  /\ failed \in BOOLEAN
  /\ restarts \in Nat

(* An idle writer has written all that there is and stands at the slot     *)
(* that AppendBuffer fills next (Cache.cpp:171-173 returns without a retry),*)
(* also after laps of the ring.                                            *)
WriterNeverStranded ==
  (node.exists /\ ~node.cache.is_processing) => node.cache.pivot = node.pivot

(* One Request has one iov[0]: whatever joins, blocks and completions      *)
(* interleave, the writer and each client have one operation in flight     *)
(* (the is_processing protocol of Cache.cpp:125, Stream.cpp:117, 343).     *)
OneOperation ==
  node.cache.flight <= 1 /\ \A c \in Clients : req[c].flight <= 1

(* From one cell of the file to the next the block's number grows by one,  *)
(* or by one more than some laps of the ring: a writer that is too slow    *)
(* leaves out whole laps (Cache.cpp:118-123, 162-203).                     *)
FileInOrder ==
  \A i \in DOMAIN file :
    IF i = 1 THEN file[i] = Hole
    ELSE IF i = 2 THEN file[i] = 0
    ELSE file[i] > file[i - 1]
           /\ (file[i] - file[i - 1]) % CacheBufferSize = 1

(* As long as nothing fails a Mux is complete when the last block of the   *)
(* answer is in the file, or the block some whole laps of the ring before  *)
(* it, and no write is under way: END_BUFFER (Cache.cpp:175, 250) overtakes*)
(* no other block.                                                         *)
CompletedIsWhole ==
  (is_completed /\ ~failed /\ restarts = 0) =>
    /\ header = "whole" /\ ~node.exists /\ node.cache.written
    /\ file # <<>>
    /\ file[Len(file)] < node.head
    /\ (node.head - 1 - file[Len(file)]) % CacheBufferSize = 0

(* A file that counts as complete does not change, be it by the end of the *)
(* fetch or found on the disk, unless a fetch has failed whose writer goes *)
(* on (Http.cpp:142-143 leaves the Node, Stream.cpp:102-108).              *)
CompletedIsFinal == [][(is_completed /\ ~failed) => file' = file]_vars

(* No client waits for a file that is complete: the requests that have     *)
(* come to its end read on (Stream.cpp:342-354), those that come later     *)
(* never wait (Stream.cpp:386-393).                                        *)
NobodyWaits ==
  is_completed =>
    \A c \in Registered : req[c].auxiliar = "open" => req[c].is_processing

(* A resource is fetched by one client at a time, and never when there is  *)
(* a Node or a file of it: GenerateNode (Cache.cpp:206-242) neither        *)
(* truncates what is served nor meets an entry of nodes_.                  *)
OneFetch ==
  /\ \A c, d \in Clients :
       {chain[c], chain[d]} \cap {"none", "ended", "dropped"} = {} => c = d
  /\ \A c \in Clients :
       chain[c] \in {"fetch", "header"} => ~file_exists /\ ~node.exists

(* A Mux without a type has a fetch or a read of the header file under     *)
(* way, or one that was dropped (Dns.cpp:184, Cache.cpp:84).               *)
SomebodyAnswers ==
  (resource /\ type = "UNDEFINED") =>
    /\ requests # <<>>
    /\ \E c \in Clients : chain[c] \notin {"none", "ended"}

(* Nothing throws or touches memory it must not before a fetch or the      *)
(* opening of a file has failed (Stream.cpp:80, 102, 387; Cache.cpp:110,   *)
(* 189, 245).                                                              *)
FaultNeedsFailure == fault # "none" => failed

(* mux->requests has no pointer twice, none to a Request that was freed or *)
(* is being closed, and every other Request (Stream.cpp:275-302, 388-391). *)
RegisteredAreLive ==
  /\ \A i, j \in DOMAIN requests : requests[i] = requests[j] => i = j
  /\ \A c \in Clients :
       c \in Registered <=>
         req[c].state = "live" /\ req[c].event_type # "SERVER_CLOSE"

(* The descriptor of the file that a client reads is closed with the       *)
(* client (Stream.cpp:389), unless a fetch fails.                          *)
CacheDescriptors ==
  \A c \in Clients :
    (req[c].state = "freed" /\ req[c].auxiliar = "open") => failed

(* The bookkeeping: the types, and the operations, Requests and            *)
(* descriptors that belong to a Mux.                                       *)
CacheIsSound ==
  /\ TypeOK
  /\ OneOperation
  /\ SomebodyAnswers
  /\ RegisteredAreLive
  /\ CacheDescriptors

(* Neither the writer nor a client is left waiting for what has come.      *)
NobodyStranded == WriterNeverStranded /\ NobodyWaits

(* END_BUFFER is in the ring, where the next block would be. *)
EndIsStored == node.exists /\ node.buffer[node.pivot] = EndBuffer

EndIsComing == is_completed \/ (EndIsStored /\ node.cache.is_processing)

(* Once a file is complete, or the end of the answer is stored while the   *)
(* writer is still busy, every client comes to its end and is closed       *)
(* (Cache.cpp:175-178, Stream.cpp:342-354, 385-394).                       *)
Served ==
  \A c \in Clients :
    (c \in Registered /\ EndIsComing)
      ~> (c \notin Registered \/ failed \/ fault # "none")

(* The clients of one resource get the same bytes, from the first on: an   *)
(* "Http multiplexer connection" (README.md).                              *)
EveryoneFromTheStart ==
  \A c \in Clients :
    (req[c].state = "live" /\ got[c] > 0) => req[c].pivot = got[c]

(* What is fetched (README.md, "wget") is what the origin sent: a cell of  *)
(* the file is the block of the answer that belongs there.                 *)
FileIsTheAnswer == \A i \in DOMAIN file : file[i] = i - 1

(* A download ends (README.md, "wget"): when the end of the answer is      *)
(* stored the clients come to it.                                          *)
EndReachesClients ==
  \A c \in Clients :
    (c \in Registered /\ EndIsStored)
      ~> (c \notin Registered \/ failed \/ fault # "none")
=============================================================================
