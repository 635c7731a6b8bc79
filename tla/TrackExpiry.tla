---------------------------- MODULE TrackExpiry ----------------------------
(***************************************************************************)
(* The tracks of HLSStream (SEGMENT_TAG).  A track is a resource of the    *)
(* cache, as in CachedResource; when its file is whole it is entered into  *)
(* Stream::resource_ttl_, and a timer later removes its Mux and its files. *)
(*                                                                         *)
(* Clients read the tracks meanwhile.  A client's read looks its Mux up    *)
(* only when the header is written and at the end of the file.             *)
(*                                                                         *)
(* Scope: -hls.  Of CachedResource it keeps what the expiry can meet: who  *)
(* has the Mux and the Node, what comes of a fetch, and whether the writer *)
(* is awake when the fetch ends.  A read and a write of a file take place  *)
(* when they complete, files can be opened, the writer is never a lap of   *)
(* the Node behind, and a client's reads go through the file block by      *)
(* block.                                                                  *)
(***************************************************************************)
EXTENDS Integers, FiniteSets

CONSTANTS
  Tracks,          \* resource ids
  Clients,         \* connections, each used for one request
  TIMEOUT_TRACK,   \* HLSStream.cpp:26
  CleanupPeriod,   \* the msecs of HandleCleanup's nop, 1000
  TrackSize,       \* bound: blocks of a track, of which Node has no fewer slots
  MaxTime          \* bound: the last moment of a life of the process

ASSUME TimeAssumption ==
  /\ TIMEOUT_TRACK \in Nat \ {0} /\ CleanupPeriod \in Nat \ {0}
ASSUME BoundAssumption ==
  /\ TrackSize \in Nat \ {0} /\ MaxTime \in Nat

VARIABLES
  mux,           \* Stream::resources_
  resource_ttl,  \* Stream::resource_ttl_, a map from a moment to a track
  node,          \* Cache::nodes_, with the Request that writes the file
  file,          \* blocks in the file, or NoFile
  req,           \* the stream Request of a client
  now,           \* Helpers::GetTicks, from the start of the process on
  clean_at,      \* when the nop of HandleCleanup ends
  fault,         \* how the process died, as in LiveStream
  (* history *)
  whole_at,      \* when the track was entered into resource_ttl_
  slow,          \* clients whose Mux was removed, and that are not closed yet
  clashed,       \* tracks that were whole at the same moment as another
  left           \* tracks whose file has lost its Mux without being removed

tableVars == <<resource_ttl, whole_at, clashed>>
diskVars == <<node, file, left>>
timeVars == <<now, clean_at>>
vars == <<mux, tableVars, diskVars, req, timeVars, fault, slow>>

NoFile == -1

-----------------------------------------------------------------------------
(* An operator whose name is a definition's and a suffix is a MUTANT: the  *)
(* definition with the bug that its comment names.                         *)

(* state "lookup" is a Mux whose file is looked up, "fetch" one whose      *)
(* header is awaited, both RESOURCE_TYPE_UNDEFINED; "filling" and "whole"  *)
(* are RESOURCE_TYPE_CACHE, the latter is_completed.                       *)
NoMux == [state |-> "none", requests |-> {}]

(* writer is node->cache: "busy" with a block that is being written, or    *)
(* "idle"; stored blocks are behind that one; ended is END_BUFFER.         *)
NoNode == [writer |-> "none", stored |-> 0, ended |-> FALSE]
CreateNode == [NoNode EXCEPT !.writer = "idle"]

(* What a client's Request waits for: "mux" is the Mux, "header", "copy"   *)
(* and "close" are writes, "read" is a read of the file.  "idle" is without*)
(* an operation, as at the end of a file that is not whole; "freed" is     *)
(* memory that was released while an operation was in flight.              *)
NoRequest == [track |-> "none", event |-> "none", pivot |-> 0]
Closed == [NoRequest EXCEPT !.event = "closed"]

Init ==
  /\ mux = [t \in Tracks |-> NoMux]
  /\ resource_ttl = {}
  /\ node = [t \in Tracks |-> NoNode]
  /\ file = [t \in Tracks |-> NoFile]
  /\ req = [c \in Clients |-> NoRequest]
  /\ now = 0 /\ clean_at = 0
  /\ fault = "none"
  /\ whole_at = [t \in Tracks |-> 0]
  /\ slow = {} /\ clashed = {} /\ left = {}

Typed(t) == mux[t].state \in {"filling", "whole"}

(* The requests of t that wait for the event go on with another. *)
Moved(t, from, to) ==
  [c \in Clients |->
     IF c \in mux[t].requests /\ req[c].event = from
       THEN [req[c] EXCEPT !.event = to] ELSE req[c]]

(* SERVER_READ of a GET: HandleExistsResource.  A new Mux is looked up in  *)
(* the cache directory.                                                    *)
HandleExistsResource(c, t) ==
  /\ req[c].event = "none"
  /\ req' = [req EXCEPT ![c] =
               [NoRequest EXCEPT !.track = t,
                                 !.event = IF Typed(t) THEN "header"
                                                       ELSE "mux"]]
  /\ mux' = [mux EXCEPT ![t] =
               [state |-> IF @.state = "none" THEN "lookup" ELSE @.state,
                requests |-> @.requests \cup {c}]]
  /\ UNCHANGED <<tableVars, diskVars, timeVars, fault, slow>>

(* CACHE_EXISTS: no file, so that the track is fetched. *)
NotCached(t) ==
  /\ mux[t].state = "lookup" /\ file[t] = NoFile
  /\ mux' = [mux EXCEPT ![t].state = "fetch"]
  /\ UNCHANGED <<tableVars, diskVars, req, timeVars, fault, slow>>

(* CACHE_READ_HEADER: SetCacheResource with is_completed.  The track is    *)
(* not entered into resource_ttl_.                                         *)
HandleReadHeader(t) ==
  /\ mux[t].state = "lookup" /\ file[t] # NoFile
  /\ mux' = [mux EXCEPT ![t].state = "whole"]
  /\ req' = Moved(t, "mux", "header")
  /\ UNCHANGED <<tableVars, diskVars, timeVars, fault, slow>>

-----------------------------------------------------------------------------
(* The fetch of a track.  It is under way while the Mux is "fetch", and    *)
(* while it is "filling" and END_BUFFER is not stored.                     *)

(* AppendBuffer: an idle writer is started. *)
Appended(n) ==
  IF n.writer = "idle" THEN [n EXCEPT !.writer = "busy"]
                       ELSE [n EXCEPT !.stored = @ + 1]

(* GenerateNode does not replace a Node that is there. *)
Generated(t) == IF node[t].writer = "none" THEN CreateNode ELSE node[t]

(* HTTP_READ_HEADER: GenerateNode opens the file.  A block may come with   *)
(* the header.                                                             *)
HeaderFetched(t) ==
  /\ mux[t].state = "fetch"
  /\ mux' = [mux EXCEPT ![t].state = "filling"]
  /\ file' = [file EXCEPT ![t] = 0]
  /\ \E n \in {Generated(t), Appended(Generated(t))} :
       node' = [node EXCEPT ![t] = n]
  /\ req' = Moved(t, "mux", "header")
  /\ UNCHANGED <<tableVars, left, timeVars, fault, slow>>

Fetching(t) == mux[t].state = "filling" /\ ~node[t].ended

(* Blocks of the track that have come. *)
Came(t) ==
  file[t] + node[t].stored + (IF node[t].writer = "busy" THEN 1 ELSE 0)

(* HTTP_READ_CONTENT: a block. *)
BlockFetched(t) ==
  /\ Fetching(t) /\ Came(t) < TrackSize
  /\ node' = [node EXCEPT ![t] = Appended(@)]
  /\ UNCHANGED <<mux, tableVars, file, left, req, timeVars, fault, slow>>

(* HTTP_READ_CONTENT at the end of the answer: CloseBuffer.  The writer is *)
(* not told: an idle one never sees the END_BUFFER.                        *)
FetchEnds(t) ==
  /\ Fetching(t)
  /\ node' = [node EXCEPT ![t].ended = TRUE]
  /\ UNCHANGED <<mux, tableVars, file, left, req, timeVars, fault, slow>>

(* ReleaseErrorAllWaitingRequest: the clients are answered by Requests of  *)
(* their own, and theirs are freed with the operations they have in flight.*)
Answered(t) ==
  [c \in Clients |->
     IF c \in mux[t].requests
       THEN [req[c] EXCEPT !.event =
               IF @ \in {"header", "read", "copy"} THEN "freed" ELSE "close"]
       ELSE req[c]]

(* A connect, a send or a read that fails, or an answer that ends before   *)
(* its header (CloseStream).  In the body, file and Node are left behind.  *)
FetchFails(t) ==
  /\ mux[t].state = "fetch" \/ Fetching(t)
  /\ mux' = [mux EXCEPT ![t] = NoMux]
  /\ req' = Answered(t)
  /\ left' = IF Typed(t) THEN left \cup {t} ELSE left
  /\ UNCHANGED <<tableVars, node, file, timeVars, fault, slow>>

-----------------------------------------------------------------------------
(* Mutant: the entry is due at once. *)
AddResourceTTL_Soon(t) ==
  IF \E e \in resource_ttl : e.due = now THEN resource_ttl
  ELSE resource_ttl \cup {[due |-> now, track |-> t]}

(* AddResourceTTL: insert leaves the map alone if the moment is taken. *)
AddResourceTTL(t) ==
  IF \E e \in resource_ttl : e.due = now + TIMEOUT_TRACK THEN resource_ttl
  ELSE resource_ttl \cup {[due |-> now + TIMEOUT_TRACK, track |-> t]}

(* Mutant: a track is not entered. *)
NotifyCacheCompleted_NoTTL(t) ==
  /\ mux' = [mux EXCEPT ![t].state = "whole"]
  /\ whole_at' = [whole_at EXCEPT ![t] = now]
  /\ req' = Moved(t, "idle", "read")
  /\ UNCHANGED <<resource_ttl, clashed>>

(* Mutant: those at the end of the file are left there. *)
NotifyCacheCompleted_Quiet(t) ==
  /\ resource_ttl' = AddResourceTTL(t)
  /\ mux' = [mux EXCEPT ![t].state = "whole"]
  /\ whole_at' = [whole_at EXCEPT ![t] = now]
  /\ clashed' = IF AddResourceTTL(t) = resource_ttl THEN clashed \cup {t}
                                                    ELSE clashed
  /\ UNCHANGED req

(* NotifyCacheCompleted: the track is entered, and those that are at the   *)
(* end of the file read on.                                                *)
NotifyCacheCompleted(t) ==
  /\ resource_ttl' = AddResourceTTL(t)
  /\ mux' = [mux EXCEPT ![t].state = "whole"]
  /\ whole_at' = [whole_at EXCEPT ![t] = now]
  /\ clashed' = IF AddResourceTTL(t) = resource_ttl THEN clashed \cup {t}
                                                    ELSE clashed
  /\ req' = Moved(t, "idle", "read")

(* HandleWrite, with nothing, a block or the END_BUFFER in front of the    *)
(* writer.  Only the first needs no Mux.                                   *)
WriterIdles(t) ==
  /\ node[t].stored = 0 /\ ~node[t].ended
  /\ node' = [node EXCEPT ![t].writer = "idle"]
  /\ UNCHANGED <<mux, tableVars, req, fault>>

WriterGoesOn(t) ==
  /\ node[t].stored > 0 /\ mux[t].state # "none"
  /\ node' = [node EXCEPT ![t].stored = @ - 1]
  /\ UNCHANGED <<mux, tableVars, req, fault>>

WriterEnds(t) ==
  /\ node[t].stored = 0 /\ node[t].ended /\ mux[t].state # "none"
  /\ node' = [node EXCEPT ![t] = NoNode]
  /\ NotifyCacheCompleted(t)
  /\ UNCHANGED fault

WriterFails(t) ==
  /\ node[t].stored > 0 \/ node[t].ended
  /\ mux[t].state = "none"
  /\ fault' = "terminate"
  /\ UNCHANGED <<mux, tableVars, node, req>>

(* CACHE_WRITE_CONTENT: a block is in the file. *)
BlockWritten(t) ==
  /\ node[t].writer = "busy"
  /\ file' = [file EXCEPT ![t] = @ + 1]
  /\ WriterIdles(t) \/ WriterGoesOn(t) \/ WriterEnds(t) \/ WriterFails(t)
  /\ UNCHANGED <<left, timeVars, slow>>

-----------------------------------------------------------------------------
(* The entries that are due; ReleaseResource throws at a track without a   *)
(* Mux.                                                                    *)
Due == {e \in resource_ttl : e.due <= now}
DueTracks == {e.track : e \in Due}

(* CleanCache of each of them. *)
CleanCache(ts) == [t \in Tracks |-> IF t \in ts THEN NoFile ELSE file[t]]

(* Mutant: the entries stay. *)
HandleCleanup_Keep ==
  /\ now >= clean_at
  /\ IF \E t \in DueTracks : mux[t].state = "none"
       THEN fault' = "terminate"
            /\ UNCHANGED <<mux, resource_ttl, file, clean_at, slow, clashed>>
       ELSE /\ mux' = [t \in Tracks |-> IF t \in DueTracks THEN NoMux
                                                           ELSE mux[t]]
            /\ file' = CleanCache(DueTracks)
            /\ clean_at' = now + CleanupPeriod
            /\ slow' = slow \cup UNION {mux[t].requests : t \in DueTracks}
            /\ UNCHANGED <<resource_ttl, fault, clashed>>
  /\ UNCHANGED <<node, left, req, now, whole_at>>

(* CACHE_CLEAN. *)
HandleCleanup ==
  /\ now >= clean_at
  /\ IF \E t \in DueTracks : mux[t].state = "none"
       THEN fault' = "terminate"
            /\ UNCHANGED <<mux, resource_ttl, file, clean_at, slow, clashed>>
       ELSE /\ mux' = [t \in Tracks |-> IF t \in DueTracks THEN NoMux
                                                           ELSE mux[t]]
            /\ file' = CleanCache(DueTracks)
            /\ resource_ttl' = resource_ttl \ Due
            /\ clean_at' = now + CleanupPeriod
            /\ slow' = slow \cup UNION {mux[t].requests : t \in DueTracks}
            /\ clashed' = clashed \ DueTracks
            /\ UNCHANGED fault
  /\ UNCHANGED <<node, left, req, now, whole_at>>

-----------------------------------------------------------------------------
(* Completions that carry a client's Request. *)

Goes(c, event) ==
  /\ req' = [req EXCEPT ![c].event = event]
  /\ UNCHANGED <<mux, tableVars, diskVars, timeVars, fault, slow>>

Dies(how) ==
  /\ fault' = how
  /\ UNCHANGED <<mux, tableVars, diskVars, req, timeVars, slow>>

(* SERVER_WRITE_HEADER: HandleWriteHeaders looks the Mux up and opens the  *)
(* file; with a Mux that is UNDEFINED it submits nothing.                  *)
HeaderWritten(c) ==
  /\ req[c].event = "header"
  /\ LET t == req[c].track
     IN  \/ mux[t].state = "none" /\ Dies("terminate")
         \/ mux[t].state \in {"lookup", "fetch"} /\ Goes(c, "idle")
         \/ Typed(t) /\ Goes(c, "read")

(* A file that was removed stays as it was for those who have it open:     *)
(* what is left of it is not kept here.                                    *)
MayHoldMore(c) ==
  /\ req[c].pivot < TrackSize
  /\ c \in slow \/ req[c].pivot < file[req[c].track]

MayBeAtEnd(c) == c \in slow \/ req[c].pivot >= file[req[c].track]

(* CACHE_READ_CONTENT with data: no lookup. *)
ContentRead(c) ==
  /\ req[c].event = "read" /\ MayHoldMore(c)
  /\ req' = [req EXCEPT ![c].event = "copy", ![c].pivot = @ + 1]
  /\ UNCHANGED <<mux, tableVars, diskVars, timeVars, fault, slow>>

(* CACHE_READ_CONTENT at the end of the file: of a file that is whole, or  *)
(* of one that is not, which leaves the request without an operation.      *)
EndRead(c) ==
  /\ req[c].event = "read" /\ MayBeAtEnd(c)
  /\ LET m == mux[req[c].track]
     IN  \/ m.state = "none" /\ Dies("terminate")
         \/ m.state \in {"lookup", "fetch", "filling"} /\ Goes(c, "idle")
         \/ m.state = "whole" /\ c \notin m.requests /\ Dies("undefined")
         \/ /\ m.state = "whole" /\ c \in m.requests
            /\ mux' = [mux EXCEPT ![req[c].track].requests = @ \ {c}]
            /\ req' = [req EXCEPT ![c].event = "close"]
            /\ UNCHANGED <<tableVars, diskVars, timeVars, fault, slow>>

(* CACHE_COPY_CONTENT: HandleCopyCacheRequest. *)
ContentCopied(c) == req[c].event = "copy" /\ Goes(c, "read")

(* SERVER_CLOSE *)
HandleClose(c) ==
  /\ req[c].event = "close"
  /\ req' = [req EXCEPT ![c] = Closed]
  /\ slow' = slow \ {c}
  /\ UNCHANGED <<mux, tableVars, diskVars, timeVars, fault>>

(* The completion of an operation whose Request was freed. *)
FreedCompleted(c) == req[c].event = "freed" /\ Dies("undefined")

Tick ==
  /\ now < MaxTime
  /\ now' = now + 1
  /\ UNCHANGED <<mux, tableVars, diskVars, req, clean_at, fault, slow>>

(* The process is started again, whether it died or was stopped. *)
Restart ==
  /\ mux' = [t \in Tracks |-> NoMux]
  /\ node' = [t \in Tracks |-> NoNode]
  /\ resource_ttl' = {}
  /\ req' = [c \in Clients |-> IF req[c].event = "none" THEN req[c]
                                                       ELSE Closed]
  /\ now' = 0 /\ clean_at' = 0
  /\ fault' = "none"
  /\ whole_at' = [t \in Tracks |-> 0]
  /\ slow' = {} /\ clashed' = {}
  /\ left' = {t \in Tracks : file[t] # NoFile}
  /\ UNCHANGED file

-----------------------------------------------------------------------------
TrackStep(t) ==
  \/ NotCached(t) \/ HandleReadHeader(t) \/ HeaderFetched(t) \/ FetchFails(t)
  \/ BlockFetched(t) \/ FetchEnds(t) \/ BlockWritten(t)

ClientStep(c) ==
  \/ HeaderWritten(c) \/ ContentRead(c) \/ EndRead(c) \/ ContentCopied(c)
  \/ HandleClose(c) \/ FreedCompleted(c)

Next ==
  \/ /\ fault = "none"
     /\ \/ \E c \in Clients : ClientStep(c)
        \/ \E c \in Clients, t \in Tracks : HandleExistsResource(c, t)
        \/ \E t \in Tracks : TrackStep(t)
        \/ HandleCleanup
        \/ Tick
  \/ Restart

Spec == Init /\ [][Next]_vars

(* What was submitted to the ring for a client, or to read or write a file,*)
(* completes.  Nothing is asked of the origin, nor of the timers.          *)
Fairness ==
  /\ \A t \in Tracks :
       WF_vars(fault = "none" /\ (HandleReadHeader(t) \/ BlockWritten(t)))
  /\ \A c \in Clients : WF_vars(fault = "none" /\ ClientStep(c))

FairSpec == Spec /\ Fairness

-----------------------------------------------------------------------------
TypeOK ==
  /\ mux \in [Tracks -> [state : {"none", "lookup", "fetch", "filling",
                                  "whole"},
                         requests : SUBSET Clients]]
  /\ resource_ttl \subseteq
       [due : 0 .. MaxTime + TIMEOUT_TRACK, track : Tracks]
  /\ node \in [Tracks -> [writer : {"none", "idle", "busy"}, stored : Nat,
                          ended : BOOLEAN]]
  /\ file \in [Tracks -> {NoFile} \cup Nat]
  /\ req \in [Clients -> [track : Tracks \cup {"none"},
                          event : {"none", "mux", "header", "read", "idle",
                                   "copy", "close", "closed", "freed"},
                          pivot : 0 .. TrackSize]]
  /\ now \in 0 .. MaxTime
  /\ clean_at \in 0 .. MaxTime + CleanupPeriod
  /\ fault \in {"none", "terminate", "undefined"}
  /\ whole_at \in [Tracks -> 0 .. MaxTime]
  /\ slow \subseteq Clients /\ clashed \subseteq Tracks
  /\ left \subseteq Tracks

(* Every entry is about a Mux that is whole, and no track is entered       *)
(* twice, so that the ReleaseResource of HandleCleanup finds what it       *)
(* removes and never a track that is being fetched anew (Stream.cpp:       *)
(* 430-440).                                                               *)
EntriesHaveMux ==
  /\ \A e \in resource_ttl : mux[e.track].state = "whole"
  /\ \A e, f \in resource_ttl : e.track = f.track \/ e.due = f.due => e = f

(* A Mux that is whole is entered, unless another track was whole in the   *)
(* same millisecond (Stream.cpp:450) or its file was found on the disk     *)
(* (Cache.cpp:99-102).  This says nothing of a track whose answer ended    *)
(* when the writer was idle: that is never whole (Cache.cpp:250-256).      *)
WholeIsEntered ==
  \A t \in Tracks :
    mux[t].state = "whole" =>
      t \in clashed \cup left \/ \E e \in resource_ttl : e.track = t

(* A file is on the disk as long as its Mux is there, and goes with it     *)
(* (Stream.cpp:436-438), unless it was left: by a fetch that failed in the *)
(* body (Http.cpp:142-143) or by a restart.                                *)
FilesFollowMux ==
  \A t \in Tracks \ left :
    file[t] # NoFile => mux[t].state \in {"filling", "whole"}

(* A file that was left stays: its track is never fetched again and never  *)
(* entered, whatever becomes of it later (Cache.cpp:67-73, 99-102).        *)
LeftForEver ==
  \A t \in left :
    /\ file[t] # NoFile
    /\ mux[t].state \in {"none", "lookup", "whole"}
    /\ \A e \in resource_ttl : e.track # t

(* The bookkeeping: the types, which tracks will be removed, and which     *)
(* files.                                                                  *)
TracksExpire ==
  /\ TypeOK
  /\ EntriesHaveMux
  /\ WholeIsEntered
  /\ FilesFollowMux
  /\ LeftForEver

(* A Node that a fetch left behind when it failed in the body. *)
NodeLeft(t) == node[t].writer # "none" /\ mux[t].state # "filling"

(* The process only dies of a track that was removed under a client which  *)
(* was not done with it: that client's next lookup finds no Mux, or the    *)
(* Mux of a later fetch that does not know it (Stream.cpp:80, 387-390); or *)
(* of a fetch that failed in the body: an operation of a freed Request     *)
(* completes, or the writer looks the Mux up (Stream.cpp:226-229,          *)
(* Cache.cpp:189).                                                         *)
OnlySlowClientsKill ==
  fault # "none" => slow # {} \/ \E t \in Tracks : NodeLeft(t)

(* A client without an operation is registered with the Mux that is being  *)
(* filled, so that it is among those who are notified should the file be   *)
(* whole (Stream.cpp:342-354, 386-393).  A slow client can be left idle for*)
(* ever, by a later Mux of its track.                                      *)
IdleAreNotified ==
  \A c \in Clients \ slow :
    req[c].event = "idle" =>
      mux[req[c].track].state = "filling" /\ c \in mux[req[c].track].requests

(* What goes wrong goes wrong for slow clients, or after a fetch failed in *)
(* the body.                                                               *)
OnlySlowClientsSuffer == OnlySlowClientsKill /\ IdleAreNotified

(* The cleanup leaves a track alone for TIMEOUT_TRACK after it became      *)
(* whole (HLSStream.cpp:66, Stream.cpp:432).                               *)
KeptForTimeout ==
  [][\A t \in Tracks :
       (mux[t].state = "whole" /\ mux'[t].state = "none" /\ ~Restart)
         => now >= whole_at[t] + TIMEOUT_TRACK]_vars

(* The track is whole, its file is found on the disk, or the answer has    *)
(* ended while the writer was busy.                                        *)
EndIsComing(t) ==
  \/ mux[t].state = "whole"
  \/ mux[t].state = "lookup" /\ file[t] # NoFile
  \/ mux[t].state = "filling" /\ node[t].ended /\ node[t].writer = "busy"

(* A client of such a track gets to its end and is closed, unless the track*)
(* is removed meanwhile or the process dies (Cache.cpp:175-178, Stream.cpp:*)
(* 342-354, 385-412).  Those of a track whose answer ended when the writer *)
(* was idle are never closed (Cache.cpp:250-256).                          *)
ClientsFinish ==
  \A c \in Clients, t \in Tracks :
    (c \in mux[t].requests /\ EndIsComing(t))
      ~> (req[c].event = "closed" \/ c \in slow \/ fault # "none")
=============================================================================
