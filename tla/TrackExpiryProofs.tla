------------------------- MODULE TrackExpiryProofs -------------------------
(* Proofs of the safety properties of TrackExpiry, for any sets of tracks  *)
(* and clients, any timeout and cleanup period, and any size of a track.   *)
EXTENDS TrackExpiry, TLAPS

(* A Request that was made and not yet released names its track. *)
ReqHasTrack ==
  \A c \in Clients :
    req[c].event \notin {"none", "closed"} => req[c].track \in Tracks

(* A client is registered with the Mux of its own track only, while it is  *)
(* served.                                                                 *)
Served == {"mux", "header", "read", "copy", "idle"}

RegisteredAtOwn ==
  \A c \in Clients, t \in Tracks :
    c \in mux[t].requests => req[c].track = t /\ req[c].event \in Served

(* A slow client is registered nowhere. *)
SlowIsGone ==
  \A c \in slow :
    req[c].event # "none" /\ \A t \in Tracks : c \notin mux[t].requests

(* What the Mux of a client's track is while the client waits for the      *)
(* event, as long as it has not been removed under that client.            *)
MuxFitsEvent(c) ==
  LET m == mux[req[c].track]
  IN  /\ req[c].event = "mux" =>
           m.state \in {"lookup", "fetch"} /\ c \in m.requests
      /\ req[c].event \in {"header", "read", "copy"} =>
           m.state \in {"filling", "whole"} /\ c \in m.requests
      /\ req[c].event = "idle" => m.state = "filling" /\ c \in m.requests

(* A Request was freed by a fetch whose Node is still there. *)
FreedHasNode ==
  \A c \in Clients : req[c].event = "freed" => NodeLeft(req[c].track)

(* A file that is filled or whole is on the disk. *)
FilledIsThere ==
  \A t \in Tracks : Typed(t) => file[t] # NoFile

(* A file that is filled has a Node; a Node whose Mux is gone was left with*)
(* its file, and will never meet an END_BUFFER.                            *)
NodeFitsMux ==
  \A t \in Tracks :
    /\ mux[t].state = "filling" => node[t].writer # "none"
    /\ node[t].ended => mux[t].state = "filling"
    /\ node[t].writer # "none" => mux[t].state = "filling" \/ t \in left

(* An entry is due TIMEOUT_TRACK after its track was whole. *)
DueAfterWhole ==
  \A e \in resource_ttl : e.due = whole_at[e.track] + TIMEOUT_TRACK

TypeInv == TypeOK /\ ReqHasTrack

TableInv ==
  /\ EntriesHaveMux
  /\ WholeIsEntered
  /\ FilesFollowMux
  /\ LeftForEver
  /\ FilledIsThere
  /\ NodeFitsMux
  /\ DueAfterWhole

ClientInv ==
  /\ RegisteredAtOwn
  /\ SlowIsGone
  /\ \A c \in Clients \ slow : MuxFitsEvent(c)
  /\ FreedHasNode
  /\ OnlySlowClientsKill

IInv == TypeInv /\ TableInv /\ ClientInv

-----------------------------------------------------------------------------
(* The types of a Mux, of a Node and of a Request. *)
Muxes ==
  [state : {"none", "lookup", "fetch", "filling", "whole"},
   requests : SUBSET Clients]

Nodes ==
  [writer : {"none", "idle", "busy"}, stored : Nat, ended : BOOLEAN]

Events ==
  {"none", "mux", "header", "read", "idle", "copy", "close", "closed",
   "freed"}

Reqs == [track : Tracks \cup {"none"}, event : Events, pivot : 0 .. TrackSize]

LEMMA Types ==
  ASSUME TypeOK
  PROVE  /\ mux \in [Tracks -> Muxes]
         /\ node \in [Tracks -> Nodes]
         /\ req \in [Clients -> Reqs]
         /\ file \in [Tracks -> {NoFile} \cup Nat]
         /\ resource_ttl \subseteq
              [due : 0 .. MaxTime + TIMEOUT_TRACK, track : Tracks]
BY DEF TypeOK, Muxes, Nodes, Reqs, Events

LEMMA MovedTypes ==
  ASSUME TypeOK, NEW t \in Tracks,
         NEW from \in {"mux", "idle"}, NEW to \in {"header", "read"}
  PROVE  /\ Moved(t, from, to) \in [Clients -> Reqs]
         /\ \A c \in Clients :
              /\ Moved(t, from, to)[c].track = req[c].track
              /\ c \in mux[t].requests /\ req[c].event = from =>
                   Moved(t, from, to)[c].event = to
              /\ c \notin mux[t].requests \/ req[c].event # from =>
                   Moved(t, from, to)[c] = req[c]
              /\ Moved(t, from, to)[c].event \in {"none", "closed"} <=>
                   req[c].event \in {"none", "closed"}
BY DEF Moved, TypeOK, Reqs, Events

LEMMA MovedHasTrack ==
  ASSUME TypeInv, NEW t \in Tracks,
         NEW from \in {"mux", "idle"}, NEW to \in {"header", "read"}
  PROVE  /\ Moved(t, from, to) \in [Clients -> Reqs]
         /\ \A c \in Clients :
              \/ Moved(t, from, to)[c].event \in {"none", "closed"}
              \/ Moved(t, from, to)[c].track \in Tracks
<1>1. TypeOK /\ ReqHasTrack
  BY DEF TypeInv
<1>2. ASSUME NEW c \in Clients
      PROVE  \/ Moved(t, from, to)[c].event \in {"none", "closed"}
             \/ Moved(t, from, to)[c].track \in Tracks
  <2>1. /\ Moved(t, from, to)[c].track = req[c].track
        /\ Moved(t, from, to)[c].event \in {"none", "closed"} <=>
             req[c].event \in {"none", "closed"}
    BY <1>1, MovedTypes
  <2> QED
    BY <1>1, <2>1 DEF ReqHasTrack
<1> QED
  BY <1>1, <1>2, MovedTypes

LEMMA AnsweredTypes ==
  ASSUME TypeOK, NEW t \in Tracks
  PROVE  /\ Answered(t) \in [Clients -> Reqs]
         /\ \A c \in Clients :
              /\ Answered(t)[c].track = req[c].track
              /\ c \in mux[t].requests =>
                   Answered(t)[c].event =
                     IF req[c].event \in {"header", "read", "copy"}
                       THEN "freed" ELSE "close"
              /\ c \notin mux[t].requests => Answered(t)[c] = req[c]
<1>1. req \in [Clients -> Reqs]
  BY Types
<1>2. ASSUME NEW c \in Clients
      PROVE  /\ Answered(t)[c] \in Reqs
             /\ Answered(t)[c].track = req[c].track
             /\ c \in mux[t].requests =>
                  Answered(t)[c].event =
                    IF req[c].event \in {"header", "read", "copy"}
                      THEN "freed" ELSE "close"
             /\ c \notin mux[t].requests => Answered(t)[c] = req[c]
  <2>1. req[c] \in Reqs
    BY <1>1
  <2> QED
    BY <2>1 DEF Answered, Reqs, Events
<1> QED
  BY <1>2 DEF Answered

(* A Request with a track and an event of its own. *)
LEMMA RequestOf ==
  ASSUME NEW t \in Tracks, NEW e \in Events
  PROVE  /\ [NoRequest EXCEPT !.track = t, !.event = e] \in Reqs
         /\ [NoRequest EXCEPT !.track = t, !.event = e].track = t
         /\ [NoRequest EXCEPT !.track = t, !.event = e].event = e
<1>1. NoRequest \in Reqs
  BY BoundAssumption DEF NoRequest, Reqs, Events
<1>2. ASSUME NEW r \in Reqs
      PROVE  /\ [r EXCEPT !.track = t, !.event = e] \in Reqs
             /\ [r EXCEPT !.track = t, !.event = e].track = t
             /\ [r EXCEPT !.track = t, !.event = e].event = e
  BY DEF Reqs
<1> QED
  BY <1>1, <1>2

LEMMA ClosedRequest == Closed \in Reqs /\ Closed.event = "closed"
BY BoundAssumption DEF Closed, NoRequest, Reqs, Events

(* AppendBuffer leaves a Node with a busy writer. *)
LEMMA AppendedNode ==
  ASSUME NEW n \in Nodes
  PROVE  /\ Appended(n) \in Nodes
         /\ n.writer # "none" => Appended(n).writer # "none"
         /\ Appended(n).ended = n.ended
BY DEF Appended, Nodes

LEMMA CreatedNode ==
  /\ NoNode \in Nodes /\ NoNode.writer = "none" /\ NoNode.ended = FALSE
  /\ CreateNode \in Nodes /\ CreateNode.writer = "idle"
  /\ CreateNode.ended = FALSE
BY DEF NoNode, CreateNode, Nodes

(* GenerateNode gives a Node, with or without a first block. *)
LEMMA GeneratedNode ==
  ASSUME TypeOK, NEW t \in Tracks,
         NEW n \in {Generated(t), Appended(Generated(t))}
  PROVE  /\ n \in Nodes /\ n.writer # "none"
         /\ n.ended => node[t].ended
<1>1. /\ Generated(t) \in Nodes /\ Generated(t).writer # "none"
      /\ Generated(t).ended => node[t].ended
  BY Types, CreatedNode DEF Generated
<1> HIDE DEF Generated
<1> QED
  BY <1>1, AppendedNode

LEMMA InitInv == Init => IInv
<1> SUFFICES ASSUME Init PROVE IInv
  OBVIOUS
<1>1. /\ mux = [t \in Tracks |-> NoMux] /\ node = [t \in Tracks |-> NoNode]
      /\ file = [t \in Tracks |-> NoFile] /\ resource_ttl = {}
      /\ req = [c \in Clients |-> NoRequest]
      /\ slow = {} /\ clashed = {} /\ left = {} /\ fault = "none"
  BY DEF Init
<1>2. NoRequest \in Reqs /\ NoRequest.event = "none"
  BY BoundAssumption DEF NoRequest, Reqs, Events
<1>3. NoMux \in Muxes /\ NoMux.state = "none" /\ NoMux.requests = {}
  BY DEF NoMux, Muxes
<1>4. TypeOK
  BY <1>1, <1>2, <1>3, CreatedNode, TimeAssumption, BoundAssumption
     DEF Init, TypeOK, Muxes, Nodes, Reqs, Events
<1>5. TypeInv
  BY <1>1, <1>2, <1>4 DEF TypeInv, ReqHasTrack
<1>6. TableInv
  BY <1>1, <1>3, CreatedNode
     DEF TableInv, EntriesHaveMux, WholeIsEntered, FilesFollowMux,
         LeftForEver, FilledIsThere, NodeFitsMux, DueAfterWhole, Typed
<1>7. ClientInv
  BY <1>1, <1>2, <1>3
     DEF ClientInv, RegisteredAtOwn, SlowIsGone, MuxFitsEvent, 
         FreedHasNode, OnlySlowClientsKill
<1> QED
  BY <1>5, <1>6, <1>7 DEF IInv

-----------------------------------------------------------------------------
(* The types. *)

(* A step that touches only Muxes, Nodes, files, Requests and history. *)
LEMMA TypeFrame ==
  ASSUME TypeInv,
         mux' \in [Tracks -> Muxes], node' \in [Tracks -> Nodes],
         file' \in [Tracks -> {NoFile} \cup Nat],
         req' \in [Clients -> Reqs],
         \A c \in Clients :
           \/ req'[c].event \in {"none", "closed"}
           \/ req'[c].track \in Tracks,
         resource_ttl' \subseteq
           [due : 0 .. MaxTime + TIMEOUT_TRACK, track : Tracks],
         whole_at' \in [Tracks -> 0 .. MaxTime],
         slow' \subseteq Clients, clashed' \subseteq Tracks,
         left' \subseteq Tracks,
         fault' \in {"none", "terminate", "undefined"},
         UNCHANGED timeVars
  PROVE  TypeInv'
BY DEF TypeInv, TypeOK, ReqHasTrack, timeVars, Muxes, Nodes, Reqs, Events

LEMMA TypeOfBlockWritten ==
  ASSUME TypeInv, NEW t \in Tracks, BlockWritten(t)
  PROVE  TypeInv'
<1>1. TypeOK /\ UNCHANGED <<left, timeVars, slow>>
  BY DEF TypeInv, BlockWritten
<1>2. file' \in [Tracks -> {NoFile} \cup Nat]
  <2>1. file' = [file EXCEPT ![t] = @ + 1]
    BY DEF BlockWritten
  <2>2. file[t] \in {-1} \cup Nat
    BY <1>1, Types DEF NoFile
  <2>3. file[t] + 1 \in Nat
    BY <2>2
  <2> QED
    BY <1>1, <2>1, <2>3, Types
<1>3. /\ whole_at \in [Tracks -> 0 .. MaxTime] /\ slow \subseteq Clients
      /\ clashed \subseteq Tracks /\ left \subseteq Tracks
      /\ fault \in {"none", "terminate", "undefined"}
      /\ \A c \in Clients :
           \/ req[c].event \in {"none", "closed"}
           \/ req[c].track \in Tracks
  BY DEF TypeInv, TypeOK, ReqHasTrack
<1>4. CASE WriterIdles(t)
  <2>1. node' \in [Tracks -> Nodes]
    BY <1>1, <1>4, Types DEF WriterIdles, Nodes
  <2> QED
    BY <1>1, <1>2, <1>3, <1>4, <2>1, Types, TypeFrame
       DEF WriterIdles, tableVars
<1>5. CASE WriterGoesOn(t)
  <2>1. node[t].stored - 1 \in Nat
    BY <1>1, <1>5, Types DEF WriterGoesOn, Nodes
  <2>2. node' \in [Tracks -> Nodes]
    BY <1>1, <1>5, <2>1, Types DEF WriterGoesOn, Nodes
  <2> QED
    BY <1>1, <1>2, <1>3, <1>5, <2>2, Types, TypeFrame
       DEF WriterGoesOn, tableVars
<1>6. CASE WriterEnds(t)
  <2>1. node' \in [Tracks -> Nodes]
    BY <1>1, <1>6, Types, CreatedNode DEF WriterEnds
  <2>2. /\ req' = Moved(t, "idle", "read")
        /\ mux' = [mux EXCEPT ![t].state = "whole"]
        /\ whole_at' = [whole_at EXCEPT ![t] = now]
        /\ resource_ttl' = AddResourceTTL(t)
        /\ clashed' \subseteq clashed \cup {t}
        /\ UNCHANGED fault
    BY <1>6 DEF WriterEnds, NotifyCacheCompleted
  <2>3. /\ req' \in [Clients -> Reqs]
        /\ \A c \in Clients :
             \/ req'[c].event \in {"none", "closed"}
             \/ req'[c].track \in Tracks
    BY <2>2, MovedHasTrack
  <2>4. mux' \in [Tracks -> Muxes]
    BY <1>1, <2>2, Types DEF Muxes
  <2>5. /\ resource_ttl' \subseteq
             [due : 0 .. MaxTime + TIMEOUT_TRACK, track : Tracks]
        /\ whole_at' \in [Tracks -> 0 .. MaxTime]
    BY <1>1, <2>2, TimeAssumption, BoundAssumption
       DEF AddResourceTTL, TypeOK
  <2>6. /\ clashed' \subseteq Tracks /\ slow' \subseteq Clients
        /\ left' \subseteq Tracks
        /\ fault' \in {"none", "terminate", "undefined"}
    BY <1>1, <1>3, <2>2
  <2> QED
    BY <1>1, <1>2, <2>1, <2>3, <2>4, <2>5, <2>6, TypeFrame
<1>7. CASE WriterFails(t)
  BY <1>1, <1>2, <1>3, <1>7, Types, TypeFrame DEF WriterFails, tableVars
<1> QED
  BY <1>4, <1>5, <1>6, <1>7 DEF BlockWritten

LEMMA TypeOfTrackStep ==
  ASSUME TypeInv, RegisteredAtOwn, NEW t \in Tracks, TrackStep(t)
  PROVE  TypeInv'
<1>1. TypeOK
  BY DEF TypeInv
<1>2. /\ whole_at \in [Tracks -> 0 .. MaxTime] /\ slow \subseteq Clients
      /\ clashed \subseteq Tracks /\ left \subseteq Tracks
      /\ fault \in {"none", "terminate", "undefined"}
      /\ \A c \in Clients :
           \/ req[c].event \in {"none", "closed"}
           \/ req[c].track \in Tracks
  BY DEF TypeInv, TypeOK, ReqHasTrack
<1>3. CASE NotCached(t)
  <2>1. mux' \in [Tracks -> Muxes]
    BY <1>1, <1>3, Types DEF NotCached, Muxes
  <2> QED
    BY <1>1, <1>2, <1>3, <2>1, Types, TypeFrame
       DEF NotCached, tableVars, diskVars
<1>4. CASE HandleReadHeader(t)
  <2>1. mux' \in [Tracks -> Muxes]
    BY <1>1, <1>4, Types DEF HandleReadHeader, Muxes
  <2>2. /\ req' \in [Clients -> Reqs]
        /\ \A c \in Clients :
             \/ req'[c].event \in {"none", "closed"}
             \/ req'[c].track \in Tracks
    <3>1. req' = Moved(t, "mux", "header")
      BY <1>4 DEF HandleReadHeader
    <3> QED
      BY <3>1, MovedHasTrack
  <2> QED
    BY <1>1, <1>2, <1>4, <2>1, <2>2, Types, TypeFrame
       DEF HandleReadHeader, tableVars, diskVars
<1>5. CASE HeaderFetched(t)
  <2>1. mux' \in [Tracks -> Muxes]
    BY <1>1, <1>5, Types DEF HeaderFetched, Muxes
  <2>2. /\ req' \in [Clients -> Reqs]
        /\ \A c \in Clients :
             \/ req'[c].event \in {"none", "closed"}
             \/ req'[c].track \in Tracks
    <3>1. req' = Moved(t, "mux", "header")
      BY <1>5 DEF HeaderFetched
    <3> QED
      BY <3>1, MovedHasTrack
  <2>3. file' \in [Tracks -> {NoFile} \cup Nat]
    BY <1>1, <1>5, Types DEF HeaderFetched
  <2>4. node' \in [Tracks -> Nodes]
    BY <1>1, <1>5, Types, GeneratedNode DEF HeaderFetched
  <2> QED
    BY <1>1, <1>2, <1>5, <2>1, <2>2, <2>3, <2>4, Types, TypeFrame
       DEF HeaderFetched, tableVars
<1>6. CASE FetchFails(t)
  <2>1. mux' \in [Tracks -> Muxes]
    BY <1>1, <1>6, Types DEF FetchFails, Muxes, NoMux
  <2>2. req' \in [Clients -> Reqs]
    BY <1>1, <1>6, AnsweredTypes DEF FetchFails
  <2>3. ASSUME NEW c \in Clients
        PROVE  \/ req'[c].event \in {"none", "closed"}
               \/ req'[c].track \in Tracks
    <3>1. CASE c \notin mux[t].requests
      BY <1>1, <1>2, <1>6, <3>1, AnsweredTypes DEF FetchFails
    <3>2. CASE c \in mux[t].requests
      <4>1. req[c].track = t
        BY <3>2 DEF RegisteredAtOwn
      <4> QED
        BY <1>1, <1>6, <4>1, AnsweredTypes DEF FetchFails
    <3> QED
      BY <3>1, <3>2
  <2> QED
    BY <1>1, <1>2, <1>6, <2>1, <2>2, <2>3, Types, TypeFrame
       DEF FetchFails, tableVars
<1>7. CASE BlockFetched(t)
  <2>1. node[t] \in Nodes
    BY <1>1, Types
  <2>2. node' \in [Tracks -> Nodes]
    BY <1>1, <1>7, <2>1, Types, AppendedNode DEF BlockFetched
  <2> QED
    BY <1>1, <1>2, <1>7, <2>2, Types, TypeFrame DEF BlockFetched, tableVars
<1>8. CASE FetchEnds(t)
  <2>1. node' \in [Tracks -> Nodes]
    BY <1>1, <1>8, Types DEF FetchEnds, Nodes
  <2> QED
    BY <1>1, <1>2, <1>8, <2>1, Types, TypeFrame DEF FetchEnds, tableVars
<1>9. CASE BlockWritten(t)
  BY <1>9, TypeOfBlockWritten
<1> QED
  BY <1>3, <1>4, <1>5, <1>6, <1>7, <1>8, <1>9 DEF TrackStep

(* What the handlers of a client's completions do to its Request. *)
LEMMA GoesRequest ==
  ASSUME TypeOK, NEW c \in Clients, NEW event \in Events, Goes(c, event)
  PROVE  /\ req' \in [Clients -> Reqs]
         /\ req'[c].event = event /\ req'[c].track = req[c].track
         /\ \A d \in Clients \ {c} : req'[d] = req[d]
BY Types DEF Goes, Reqs, Events

LEMMA TypeOfGoes ==
  ASSUME TypeInv, NEW c \in Clients, req[c].event \notin {"none", "closed"},
         NEW event \in Events, Goes(c, event)
  PROVE  TypeInv'
<1>1. TypeOK /\ ReqHasTrack
  BY DEF TypeInv
<1>2. TypeOK'
  BY <1>1, GoesRequest
     DEF Goes, TypeOK, tableVars, diskVars, timeVars, Reqs, Events
<1>3. ReqHasTrack'
  BY <1>1, GoesRequest DEF ReqHasTrack
<1> QED
  BY <1>2, <1>3 DEF TypeInv

LEMMA TypeOfDies ==
  ASSUME TypeInv, NEW how \in {"terminate", "undefined"}, Dies(how)
  PROVE  TypeInv'
BY DEF Dies, TypeInv, TypeOK, ReqHasTrack, tableVars, diskVars, timeVars

LEMMA TypeOfClientStep ==
  ASSUME TypeInv, NEW c \in Clients, ClientStep(c)
  PROVE  TypeInv'
<1>1. TypeOK /\ ReqHasTrack
  BY DEF TypeInv
<1>2. CASE HeaderWritten(c)
  BY <1>2, TypeOfGoes, TypeOfDies DEF HeaderWritten, Events
<1>3. CASE ContentRead(c)
  <2>1. req[c] \in Reqs /\ req[c].track \in Tracks
    BY <1>1, <1>3, Types DEF ContentRead, ReqHasTrack
  <2>2. req[c].pivot + 1 \in 0 .. TrackSize
    BY <1>3, <2>1, BoundAssumption DEF ContentRead, MayHoldMore, Reqs
  <2>3. TypeOK'
    BY <1>1, <1>3, <2>2
       DEF ContentRead, TypeOK, tableVars, diskVars, timeVars
  <2>4. ReqHasTrack'
    BY <1>1, <1>3, <2>1, Types DEF ContentRead, ReqHasTrack, Reqs
  <2> QED
    BY <2>3, <2>4 DEF TypeInv
<1>4. CASE EndRead(c)
  <2>1. CASE Dies("terminate") \/ Dies("undefined") \/ Goes(c, "idle")
    BY <1>4, <2>1, TypeOfGoes, TypeOfDies DEF EndRead, Events
  <2>2. CASE /\ mux' = [mux EXCEPT ![req[c].track].requests = @ \ {c}]
             /\ req' = [req EXCEPT ![c].event = "close"]
             /\ UNCHANGED <<tableVars, diskVars, timeVars, fault, slow>>
    <3>1. mux' \in [Tracks -> Muxes]
      BY <1>1, <2>2, Types DEF Muxes
    <3>2. /\ req' \in [Clients -> Reqs]
          /\ \A d \in Clients : req'[d].track = req[d].track
          /\ \A d \in Clients \ {c} : req'[d] = req[d]
      BY <1>1, <2>2, Types DEF Reqs, Events
    <3>3. TypeOK'
      BY <1>1, <2>2, <3>1, <3>2
         DEF TypeOK, tableVars, diskVars, timeVars, Muxes, Reqs, Events
    <3>4. ReqHasTrack'
      BY <1>1, <1>4, <3>2 DEF EndRead, ReqHasTrack
    <3> QED
      BY <3>3, <3>4 DEF TypeInv
  <2> QED
    BY <1>4, <2>1, <2>2 DEF EndRead
<1>5. CASE ContentCopied(c)
  BY <1>5, TypeOfGoes DEF ContentCopied, Events
<1>6. CASE HandleClose(c)
  <2>1. /\ req' = [req EXCEPT ![c] = Closed] /\ slow' \subseteq slow
        /\ UNCHANGED <<mux, tableVars, diskVars, timeVars, fault>>
    BY <1>6 DEF HandleClose
  <2>2. /\ req' \in [Clients -> Reqs] /\ req'[c].event = "closed"
        /\ \A d \in Clients \ {c} : req'[d] = req[d]
    BY <1>1, <2>1, ClosedRequest, Types
  <2>3. TypeOK'
    BY <1>1, <2>1, <2>2 DEF TypeOK, tableVars, diskVars, timeVars, Reqs, Events
  <2>4. ReqHasTrack'
    BY <1>1, <2>2 DEF ReqHasTrack
  <2> QED
    BY <2>3, <2>4 DEF TypeInv
<1>7. CASE FreedCompleted(c)
  BY <1>7, TypeOfDies DEF FreedCompleted
<1> QED
  BY <1>2, <1>3, <1>4, <1>5, <1>6, <1>7 DEF ClientStep

(* A request: the Mux has it, and the others are as before. *)
LEMMA RequestMade ==
  ASSUME TypeOK, NEW c \in Clients, NEW t \in Tracks,
         HandleExistsResource(c, t)
  PROVE  /\ req[c].event = "none"
         /\ req' \in [Clients -> Reqs] /\ mux' \in [Tracks -> Muxes]
         /\ req'[c].track = t
         /\ req'[c].event = IF Typed(t) THEN "header" ELSE "mux"
         /\ \A d \in Clients \ {c} : req'[d] = req[d]
         /\ mux'[t].state = IF mux[t].state = "none" THEN "lookup"
                                                     ELSE mux[t].state
         /\ mux'[t].requests = mux[t].requests \cup {c}
         /\ \A u \in Tracks \ {t} : mux'[u] = mux[u]
<1> DEFINE e == IF Typed(t) THEN "header" ELSE "mux"
           r == [NoRequest EXCEPT !.track = t, !.event = e]
<1>1. req' = [req EXCEPT ![c] = r] /\ req[c].event = "none"
  BY DEF HandleExistsResource
<1>2. e \in Events
  BY DEF Events
<1>3. r \in Reqs /\ r.track = t /\ r.event = e
  <2> HIDE DEF e
  <2> QED
    BY <1>2, RequestOf
<1> HIDE DEF r
<1>4. /\ req' \in [Clients -> Reqs] /\ req'[c] = r
      /\ \A d \in Clients \ {c} : req'[d] = req[d]
  BY <1>1, <1>3, Types
<1>5. /\ mux' \in [Tracks -> Muxes]
      /\ mux'[t].state = IF mux[t].state = "none" THEN "lookup"
                                                  ELSE mux[t].state
      /\ mux'[t].requests = mux[t].requests \cup {c}
      /\ \A u \in Tracks \ {t} : mux'[u] = mux[u]
  BY Types DEF HandleExistsResource, Muxes
<1> QED
  BY <1>1, <1>3, <1>4, <1>5

LEMMA TypeOfCleanup == TypeInv /\ HandleCleanup => TypeInv'
<1> SUFFICES ASSUME TypeInv, HandleCleanup PROVE TypeInv'
  OBVIOUS
<1>1. TypeOK /\ ReqHasTrack
  BY DEF TypeInv
<1>2. ReqHasTrack'
  BY <1>1 DEF HandleCleanup, ReqHasTrack
<1>3. CASE \E t \in DueTracks : mux[t].state = "none"
  BY <1>1, <1>2, <1>3 DEF HandleCleanup, TypeInv, TypeOK
<1>4. CASE ~\E t \in DueTracks : mux[t].state = "none"
  <2>1. DueTracks \subseteq Tracks
    BY <1>1 DEF DueTracks, Due, TypeOK
  <2>2. UNION {mux[t].requests : t \in DueTracks} \subseteq Clients
    BY <1>1, <2>1 DEF TypeOK
  <2>3. TypeOK'
    BY <1>1, <1>4, <2>2, TimeAssumption, BoundAssumption
       DEF HandleCleanup, TypeOK, CleanCache, NoMux
  <2> QED
    BY <1>2, <2>3 DEF TypeInv
<1> QED
  BY <1>3, <1>4

LEMMA TypeOfRestart == TypeInv /\ Restart => TypeInv'
<1> SUFFICES ASSUME TypeInv, Restart PROVE TypeInv'
  OBVIOUS
<1>1. TypeOK /\ ReqHasTrack
  BY DEF TypeInv
<1>2. /\ req' \in [Clients -> Reqs]
      /\ \A c \in Clients : req'[c].event \in {"none", "closed"}
  BY <1>1, ClosedRequest, Types DEF Restart
<1>3. mux' \in [Tracks -> Muxes] /\ node' \in [Tracks -> Nodes]
  BY CreatedNode DEF Restart, NoMux, Muxes
<1>4. TypeOK'
  BY <1>1, <1>2, <1>3, TimeAssumption, BoundAssumption
     DEF Restart, TypeOK, Muxes, Nodes, Reqs, Events
<1> QED
  BY <1>2, <1>4 DEF TypeInv, ReqHasTrack

LEMMA TypeNext == TypeInv /\ RegisteredAtOwn /\ [Next]_vars => TypeInv'
<1> SUFFICES ASSUME TypeInv, RegisteredAtOwn, [Next]_vars PROVE TypeInv'
  OBVIOUS
<1>1. ASSUME NEW c \in Clients, NEW t \in Tracks, HandleExistsResource(c, t)
      PROVE  TypeInv'
  <2>1. TypeOK /\ ReqHasTrack
    BY DEF TypeInv
  <2>2. /\ req' \in [Clients -> Reqs] /\ mux' \in [Tracks -> Muxes]
        /\ req'[c].track = t
        /\ \A d \in Clients \ {c} : req'[d] = req[d]
    BY <1>1, <2>1, RequestMade
  <2>3. UNCHANGED <<tableVars, diskVars, timeVars, fault, slow>>
    BY <1>1 DEF HandleExistsResource
  <2>4. TypeOK'
    BY <2>1, <2>2, <2>3
       DEF TypeOK, tableVars, diskVars, timeVars, Muxes, Reqs, Events
  <2>5. ReqHasTrack'
    BY <2>1, <2>2 DEF ReqHasTrack
  <2> QED
    BY <2>4, <2>5 DEF TypeInv
<1>2. CASE Tick
  BY <1>2, BoundAssumption
     DEF Tick, TypeInv, TypeOK, ReqHasTrack, tableVars, diskVars
<1>3. CASE UNCHANGED vars
  BY <1>3 DEF vars, tableVars, diskVars, timeVars, TypeInv, TypeOK, ReqHasTrack
<1> QED
  BY <1>1, <1>2, <1>3, TypeOfTrackStep, TypeOfClientStep, TypeOfCleanup,
     TypeOfRestart DEF Next

-----------------------------------------------------------------------------
(* The entries of resource_ttl_, the files, the Nodes and the states of the*)
(* Muxes.                                                                  *)

(* A step that leaves these alone. *)
LEMMA TableQuiet ==
  ASSUME TableInv, TypeOK, \A t \in Tracks : mux'[t].state = mux[t].state,
         UNCHANGED <<tableVars, diskVars>>
  PROVE  TableInv'
<1>1. \A e \in resource_ttl : e.track \in Tracks
  BY Types
<1>2. left \subseteq Tracks
  BY DEF TypeOK
<1> QED
  BY <1>1, <1>2
     DEF TableInv, EntriesHaveMux, WholeIsEntered, FilesFollowMux, LeftForEver,
         FilledIsThere, NodeFitsMux, DueAfterWhole, Typed, tableVars, diskVars

(* A step that changes what is known of one track without an entry, and    *)
(* enters none.                                                            *)
LEMMA TableOfOne ==
  ASSUME TableInv, TypeOK, NEW t \in Tracks,
         mux[t].state # "whole",
         \A u \in Tracks \ {t} : /\ mux'[u].state = mux[u].state
                                 /\ node'[u] = node[u]
                                 /\ file'[u] = file[u],
         left \subseteq left' /\ left' \subseteq left \cup {t},
         UNCHANGED tableVars,
         mux'[t].state = "whole" => t \in left',
         mux'[t].state \in {"filling", "whole"} => file'[t] # NoFile,
         IF t \in left'
           THEN file'[t] # NoFile
                /\ mux'[t].state \in {"none", "lookup", "whole"}
           ELSE file'[t] # NoFile => mux'[t].state \in {"filling", "whole"},
         mux'[t].state = "filling" => node'[t].writer # "none",
         node'[t].ended => mux'[t].state = "filling",
         node'[t].writer # "none" => mux'[t].state = "filling" \/ t \in left'
  PROVE  TableInv'
<1>1. /\ \A e \in resource_ttl : e.track \in Tracks /\ e.track # t
      /\ left \subseteq Tracks
  BY Types DEF TableInv, EntriesHaveMux, TypeOK
<1>2. EntriesHaveMux' /\ DueAfterWhole'
  BY <1>1 DEF TableInv, EntriesHaveMux, DueAfterWhole, tableVars
<1>3. WholeIsEntered'
  BY <1>1 DEF TableInv, WholeIsEntered, tableVars
<1>4. FilesFollowMux' /\ FilledIsThere'
  BY <1>1 DEF TableInv, FilesFollowMux, FilledIsThere, Typed
<1>5. LeftForEver'
  BY <1>1 DEF TableInv, LeftForEver, tableVars
<1>6. NodeFitsMux'
  BY <1>1 DEF TableInv, NodeFitsMux
<1> QED
  BY <1>2, <1>3, <1>4, <1>5, <1>6 DEF TableInv

LEMMA TableOfCompletion ==
  ASSUME TypeInv, TableInv, NEW t \in Tracks, BlockWritten(t), WriterEnds(t)
  PROVE  TableInv'
<1> DEFINE new == [due |-> now + TIMEOUT_TRACK, track |-> t]
<1>1. TypeOK
  BY DEF TypeInv
<1>2. /\ mux[t].state = "filling" /\ t \notin left
      /\ file[t] \in Nat /\ left \subseteq Tracks /\ now \in Int
      /\ resource_ttl \subseteq
           [due : 0 .. MaxTime + TIMEOUT_TRACK, track : Tracks]
  <2>1. mux[t].state = "filling"
    BY DEF WriterEnds, TableInv, NodeFitsMux
  <2>2. t \notin left /\ file[t] # NoFile
    BY <2>1 DEF TableInv, LeftForEver, FilledIsThere, Typed
  <2>3. file[t] \in Nat /\ left \subseteq Tracks /\ now \in Int
    BY <1>1, <2>2, Types, BoundAssumption DEF TypeOK
  <2> QED
    BY <1>1, <2>1, <2>2, <2>3, Types
<1>3. /\ mux' = [mux EXCEPT ![t].state = "whole"]
      /\ node' = [node EXCEPT ![t] = NoNode]
      /\ file' = [file EXCEPT ![t] = @ + 1]
      /\ resource_ttl' = AddResourceTTL(t)
      /\ whole_at' = [whole_at EXCEPT ![t] = now]
      /\ clashed' = IF resource_ttl' = resource_ttl THEN clashed \cup {t}
                                                    ELSE clashed
      /\ UNCHANGED left
  BY DEF BlockWritten, WriterEnds, NotifyCacheCompleted
<1>4. /\ mux'[t].state = "whole" /\ node'[t] = NoNode
      /\ file'[t] # NoFile
      /\ \A u \in Tracks \ {t} : /\ mux'[u].state = mux[u].state
                                 /\ node'[u] = node[u] /\ file'[u] = file[u]
  BY <1>1, <1>2, <1>3, Types DEF Muxes, NoFile
<1>5. \A e \in resource_ttl : e.track # t
  BY <1>2 DEF TableInv, EntriesHaveMux
<1>6. whole_at'[t] = now /\ \A u \in Tracks \ {t} : whole_at'[u] = whole_at[u]
  BY <1>1, <1>3 DEF TypeOK
<1>7. FilesFollowMux' /\ FilledIsThere' /\ NodeFitsMux'
  BY <1>2, <1>3, <1>4, CreatedNode
     DEF TableInv, FilesFollowMux, FilledIsThere, NodeFitsMux, Typed
<1>8. CASE \E e \in resource_ttl : e.due = now + TIMEOUT_TRACK
  <2>1. resource_ttl' = resource_ttl /\ t \in clashed'
        /\ clashed \subseteq clashed'
    BY <1>3, <1>8 DEF AddResourceTTL
  <2>2. EntriesHaveMux' /\ WholeIsEntered'
    BY <1>2, <1>3, <1>4, <1>5, <2>1
       DEF TableInv, EntriesHaveMux, WholeIsEntered
  <2>3. LeftForEver' /\ DueAfterWhole'
    BY <1>2, <1>3, <1>4, <1>5, <1>6, <2>1
       DEF TableInv, LeftForEver, DueAfterWhole
  <2> QED
    BY <1>7, <2>2, <2>3 DEF TableInv
<1>9. CASE ~\E e \in resource_ttl : e.due = now + TIMEOUT_TRACK
  <2>1. resource_ttl' = resource_ttl \cup {new} /\ clashed \subseteq clashed'
    BY <1>3, <1>9 DEF AddResourceTTL
  <2>2. new.due = now + TIMEOUT_TRACK /\ new.track = t
    OBVIOUS
  <2> HIDE DEF new
  <2>3. EntriesHaveMux'
    BY <1>2, <1>4, <1>5, <1>9, <2>1, <2>2 DEF TableInv, EntriesHaveMux
  <2>4. WholeIsEntered'
    BY <1>2, <1>3, <1>4, <2>1, <2>2 DEF TableInv, WholeIsEntered
  <2>5. LeftForEver'
    BY <1>2, <1>3, <1>4, <2>1, <2>2 DEF TableInv, LeftForEver
  <2>6. DueAfterWhole'
    BY <1>2, <1>5, <1>6, <2>1, <2>2 DEF TableInv, DueAfterWhole
  <2> QED
    BY <1>7, <2>3, <2>4, <2>5, <2>6 DEF TableInv
<1> QED
  BY <1>8, <1>9

(* The writer goes on, be it with a file that was left, or stops. *)
LEMMA TableOfWriter ==
  ASSUME TypeInv, TableInv, NEW t \in Tracks, BlockWritten(t), ~WriterEnds(t)
  PROVE  TableInv'
<1>1. /\ TypeOK /\ left \subseteq Tracks
      /\ node[t].writer = "busy" /\ file[t] \in {NoFile} \cup Nat
      /\ \A e \in resource_ttl : e.track \in Tracks
  BY Types DEF TypeInv, TypeOK, BlockWritten
<1>2. file' = [file EXCEPT ![t] = @ + 1] /\ UNCHANGED <<mux, tableVars, left>>
  BY DEF BlockWritten, WriterIdles, WriterGoesOn, WriterFails
<1>3. /\ file'[t] # NoFile /\ file[t] # NoFile
      /\ \A u \in Tracks \ {t} : file'[u] = file[u]
  <2>1. file[t] # NoFile
    BY <1>1
       DEF TableInv, NodeFitsMux, LeftForEver, FilledIsThere, Typed
  <2>2. file[t] + 1 # NoFile
    BY <1>1, <2>1 DEF NoFile
  <2> QED
    BY <1>1, <1>2, <2>1, <2>2, Types
<1>4. /\ node'[t].writer # "none" /\ node'[t].ended = node[t].ended
      /\ \A u \in Tracks \ {t} : node'[u] = node[u]
  BY <1>1, Types DEF BlockWritten, WriterIdles, WriterGoesOn, WriterFails,
                     Nodes
<1>5. EntriesHaveMux' /\ WholeIsEntered' /\ DueAfterWhole'
  BY <1>1, <1>2
     DEF TableInv, EntriesHaveMux, WholeIsEntered, DueAfterWhole, tableVars
<1>6. FilesFollowMux' /\ FilledIsThere' /\ LeftForEver'
  BY <1>1, <1>2, <1>3
     DEF TableInv, FilesFollowMux, FilledIsThere, LeftForEver, Typed,
         tableVars
<1>7. NodeFitsMux'
  BY <1>1, <1>2, <1>4 DEF TableInv, NodeFitsMux
<1> QED
  BY <1>5, <1>6, <1>7 DEF TableInv

LEMMA TableOfTrackStep ==
  ASSUME TypeInv, TableInv, NEW t \in Tracks, TrackStep(t)
  PROVE  TableInv'
<1>1. /\ TypeOK /\ left \subseteq Tracks
      /\ mux[t].state \in {"filling", "whole"} => file[t] # NoFile
      /\ t \in left => file[t] # NoFile
                       /\ mux[t].state \in {"none", "lookup", "whole"}
      /\ t \notin left /\ file[t] # NoFile =>
           mux[t].state \in {"filling", "whole"}
      /\ mux[t].state = "filling" => node[t].writer # "none"
      /\ node[t].ended => mux[t].state = "filling"
      /\ node[t].writer # "none" => mux[t].state = "filling" \/ t \in left
  BY DEF TypeInv, TypeOK, TableInv, FilledIsThere, LeftForEver,
         FilesFollowMux, NodeFitsMux, Typed
<1>2. CASE NotCached(t)
  <2>1. /\ mux[t].state = "lookup" /\ mux'[t].state = "fetch"
        /\ file[t] = NoFile
        /\ \A u \in Tracks \ {t} : mux'[u] = mux[u]
        /\ UNCHANGED <<tableVars, node, file, left>>
    BY <1>1, <1>2, Types DEF NotCached, Muxes, diskVars
  <2> QED
    BY <1>1, <2>1, TableOfOne
<1>3. CASE HandleReadHeader(t)
  <2>1. /\ mux[t].state = "lookup" /\ mux'[t].state = "whole"
        /\ file[t] # NoFile
        /\ \A u \in Tracks \ {t} : mux'[u] = mux[u]
        /\ UNCHANGED <<tableVars, node, file, left>>
    BY <1>1, <1>3, Types DEF HandleReadHeader, Muxes, diskVars
  <2> QED
    BY <1>1, <2>1, TableOfOne
<1>4. CASE HeaderFetched(t)
  <2>1. /\ mux[t].state = "fetch" /\ mux'[t].state = "filling"
        /\ \A u \in Tracks \ {t} : mux'[u] = mux[u]
        /\ file'[t] = 0 /\ \A u \in Tracks \ {t} : file'[u] = file[u]
        /\ UNCHANGED <<tableVars, left>>
    BY <1>1, <1>4, Types DEF HeaderFetched, Muxes
  <2>2. PICK n \in {Generated(t), Appended(Generated(t))} :
               node' = [node EXCEPT ![t] = n]
    BY <1>4 DEF HeaderFetched
  <2>3. /\ node'[t].writer # "none" /\ (node'[t].ended => node[t].ended)
        /\ \A u \in Tracks \ {t} : node'[u] = node[u]
    BY <1>1, <2>2, GeneratedNode, Types
  <2>4. t \notin left /\ file'[t] # NoFile
    BY <1>1, <2>1 DEF NoFile
  <2> QED
    BY <1>1, <2>1, <2>3, <2>4, TableOfOne
<1>5. CASE FetchFails(t)
  <2>1. /\ mux[t].state \in {"fetch", "filling"} /\ mux'[t].state = "none"
        /\ mux[t].state = "filling" => ~node[t].ended
        /\ \A u \in Tracks \ {t} : mux'[u] = mux[u]
        /\ left' = IF mux[t].state = "filling" THEN left \cup {t} ELSE left
        /\ UNCHANGED <<tableVars, node, file>>
    BY <1>1, <1>5, Types DEF FetchFails, Fetching, Typed, NoMux, Muxes
  <2> QED
    BY <1>1, <2>1, TableOfOne
<1>6. CASE BlockFetched(t)
  <2>1. /\ mux[t].state = "filling" /\ node[t] \in Nodes
        /\ node' = [node EXCEPT ![t] = Appended(node[t])]
        /\ UNCHANGED <<mux, tableVars, file, left>>
    BY <1>1, <1>6, Types DEF BlockFetched, Fetching
  <2>2. /\ node'[t].writer # "none" /\ node'[t].ended = node[t].ended
        /\ \A u \in Tracks \ {t} : node'[u] = node[u]
    BY <1>1, <2>1, AppendedNode, Types
  <2> QED
    BY <1>1, <2>1, <2>2, TableOfOne
<1>7. CASE FetchEnds(t)
  <2>1. /\ mux[t].state = "filling"
        /\ node'[t].writer = node[t].writer
        /\ \A u \in Tracks \ {t} : node'[u] = node[u]
        /\ UNCHANGED <<mux, tableVars, file, left>>
    BY <1>1, <1>7, Types DEF FetchEnds, Fetching, Nodes
  <2> QED
    BY <1>1, <2>1, TableOfOne
<1>8. CASE BlockWritten(t)
  BY <1>8, TableOfCompletion, TableOfWriter
<1> QED
  BY <1>2, <1>3, <1>4, <1>5, <1>6, <1>7, <1>8 DEF TrackStep

LEMMA TableOfClientStep ==
  ASSUME TypeInv, TableInv, NEW c \in Clients, ClientStep(c)
  PROVE  TableInv'
<1>1. TypeOK
  BY DEF TypeInv
<1>2. UNCHANGED <<tableVars, diskVars>>
  BY DEF ClientStep, HeaderWritten, ContentRead, EndRead, ContentCopied,
         HandleClose, FreedCompleted, Goes, Dies
<1>3. \/ mux' = mux
      \/ mux' = [mux EXCEPT ![req[c].track].requests = @ \ {c}]
  BY DEF ClientStep, HeaderWritten, ContentRead, EndRead, ContentCopied,
         HandleClose, FreedCompleted, Goes, Dies
<1>4. \A t \in Tracks : mux'[t].state = mux[t].state
  BY <1>1, <1>3, Types DEF Muxes
<1> QED
  BY <1>1, <1>2, <1>4, TableQuiet

(* The cleanup: nothing that is due lacks a Mux, so that it goes through.  *)
LEMMA CleanupRemoves ==
  ASSUME TableInv, HandleCleanup
  PROVE  /\ mux' = [t \in Tracks |-> IF t \in DueTracks THEN NoMux
                                                        ELSE mux[t]]
         /\ file' = [t \in Tracks |-> IF t \in DueTracks THEN NoFile
                                                         ELSE file[t]]
         /\ resource_ttl' = resource_ttl \ Due
         /\ clashed' = clashed \ DueTracks
         /\ slow' = slow \cup UNION {mux[t].requests : t \in DueTracks}
         /\ UNCHANGED <<node, left, req, whole_at, fault>>
<1>1. ~\E t \in DueTracks : mux[t].state = "none"
  BY DEF DueTracks, Due, TableInv, EntriesHaveMux
<1> QED
  BY <1>1 DEF HandleCleanup, CleanCache

LEMMA TableOfCleanup ==
  ASSUME TypeInv, TableInv, HandleCleanup
  PROVE  TableInv'
<1>1. /\ TypeOK /\ left \subseteq Tracks
      /\ \A e \in resource_ttl : e.track \in Tracks
  BY Types DEF TypeInv, TypeOK
<1>2. /\ mux' = [t \in Tracks |-> IF t \in DueTracks THEN NoMux
                                                     ELSE mux[t]]
      /\ file' = [t \in Tracks |-> IF t \in DueTracks THEN NoFile
                                                      ELSE file[t]]
      /\ resource_ttl' = resource_ttl \ Due
      /\ clashed' = clashed \ DueTracks
      /\ UNCHANGED <<node, left, whole_at>>
  BY CleanupRemoves
<1>3. /\ \A e \in resource_ttl' : e \in resource_ttl /\ e.track \notin DueTracks
      /\ \A e \in resource_ttl : e.track \notin DueTracks => e \in resource_ttl'
  <2>1. \A e \in resource_ttl : e.track \in DueTracks => e \in Due
    BY DEF DueTracks, Due, TableInv, EntriesHaveMux
  <2>2. \A e \in Due : e.track \in DueTracks
    BY DEF DueTracks
  <2> QED
    BY <1>2, <2>1, <2>2
<1>4. \A t \in DueTracks : mux[t].state = "whole" /\ t \notin left
  BY DEF DueTracks, Due, TableInv, EntriesHaveMux, LeftForEver
<1>5. /\ \A t \in Tracks \cap DueTracks : mux'[t].state = "none"
                                          /\ file'[t] = NoFile
      /\ \A t \in Tracks \ DueTracks : mux'[t] = mux[t] /\ file'[t] = file[t]
  BY <1>2 DEF NoMux
<1>6. EntriesHaveMux' /\ DueAfterWhole'
  BY <1>1, <1>2, <1>3, <1>5 DEF TableInv, EntriesHaveMux, DueAfterWhole
<1>7. WholeIsEntered'
  BY <1>1, <1>2, <1>3, <1>5 DEF TableInv, WholeIsEntered
<1>8. FilesFollowMux' /\ FilledIsThere'
  BY <1>2, <1>5 DEF TableInv, FilesFollowMux, FilledIsThere, Typed
<1>9. LeftForEver'
  BY <1>1, <1>2, <1>3, <1>4, <1>5 DEF TableInv, LeftForEver
<1>10. NodeFitsMux'
  BY <1>2, <1>4, <1>5 DEF TableInv, NodeFitsMux
<1> QED
  BY <1>6, <1>7, <1>8, <1>9, <1>10 DEF TableInv

LEMMA TableNext == TypeInv /\ TableInv /\ [Next]_vars => TableInv'
<1> SUFFICES ASSUME TypeInv, TableInv, [Next]_vars PROVE TableInv'
  OBVIOUS
<1>1. TypeOK
  BY DEF TypeInv
<1>2. ASSUME NEW c \in Clients, NEW t \in Tracks, HandleExistsResource(c, t)
      PROVE  TableInv'
  <2>1. /\ mux'[t].state = IF mux[t].state = "none" THEN "lookup"
                                                    ELSE mux[t].state
        /\ \A u \in Tracks \ {t} : mux'[u] = mux[u]
    BY <1>1, <1>2, RequestMade
  <2>2. UNCHANGED <<tableVars, diskVars>>
    BY <1>2 DEF HandleExistsResource
  <2>3. CASE mux[t].state # "none"
    BY <1>1, <2>1, <2>2, <2>3, TableQuiet
  <2>4. CASE mux[t].state = "none"
    <3>1. /\ mux'[t].state = "lookup"
          /\ UNCHANGED <<tableVars, node, file, left>>
          /\ t \in left => file[t] # NoFile
          /\ file[t] # NoFile => t \in left
          /\ ~node[t].ended
          /\ node[t].writer # "none" => t \in left
      BY <2>1, <2>2, <2>4
         DEF TableInv, LeftForEver, FilesFollowMux, NodeFitsMux, diskVars
    <3> QED
      BY <1>1, <2>1, <2>4, <3>1, TableOfOne
  <2> QED
    BY <2>3, <2>4
<1>3. CASE Tick
  BY <1>1, <1>3, TableQuiet DEF Tick
<1>4. CASE Restart
  <2>1. /\ \A t \in Tracks : mux'[t].state = "none" /\ node'[t] = NoNode
        /\ resource_ttl' = {} /\ UNCHANGED file
        /\ left' = {t \in Tracks : file[t] # NoFile}
    BY <1>4 DEF Restart, NoMux
  <2> QED
    BY <2>1, CreatedNode
       DEF TableInv, EntriesHaveMux, WholeIsEntered, FilesFollowMux,
           LeftForEver, FilledIsThere, NodeFitsMux, DueAfterWhole, Typed
<1>5. CASE UNCHANGED vars
  BY <1>1, <1>5, TableQuiet DEF vars
<1> QED
  BY <1>2, <1>3, <1>4, <1>5, TableOfTrackStep, TableOfClientStep,
     TableOfCleanup DEF Next

-----------------------------------------------------------------------------
(* The clients: what they wait for, and with which Mux they are registered.*)

(* A step that changes neither the Requests nor the states and requests of *)
(* the Muxes, nor takes a Node away.                                       *)
LEMMA ClientQuiet ==
  ASSUME ClientInv, UNCHANGED <<mux, req, slow>>, fault' = "none",
         ReqHasTrack,
         \A t \in Tracks : node[t].writer # "none" => node'[t].writer # "none"
  PROVE  ClientInv'
<1>1. RegisteredAtOwn' /\ SlowIsGone' /\ OnlySlowClientsKill'
  BY DEF ClientInv, RegisteredAtOwn, SlowIsGone, OnlySlowClientsKill
<1>2. ASSUME NEW c \in Clients \ slow'
      PROVE  MuxFitsEvent(c)'
  BY <1>2 DEF ClientInv, MuxFitsEvent
<1>3. FreedHasNode'
  BY DEF ClientInv, FreedHasNode, NodeLeft, ReqHasTrack
<1> QED
  BY <1>1, <1>2, <1>3 DEF ClientInv

(* The requests that wait for the Mux of t, or at the end of its file, go  *)
(* on, and it is what they need.                                           *)
LEMMA ClientOfMoved ==
  ASSUME TypeInv, ClientInv, NEW t \in Tracks,
         NEW from \in {"mux", "idle"}, NEW to \in {"header", "read"},
         NEW s \in {"filling", "whole"},
         req' = Moved(t, from, to),
         mux' = [mux EXCEPT ![t].state = s],
         UNCHANGED slow, fault' = "none",
         from = "mux" => mux[t].state \in {"lookup", "fetch"},
         from = "idle" => mux[t].state = "filling",
         \A u \in Tracks :
           NodeLeft(u) => mux'[u].state # "filling" /\ node'[u].writer # "none"
  PROVE  ClientInv'
<1>1. TypeOK /\ ReqHasTrack /\ req \in [Clients -> Reqs]
  BY Types DEF TypeInv
<1>2. \A c \in Clients :
        /\ req'[c].track = req[c].track
        /\ c \in mux[t].requests /\ req[c].event = from =>
             req'[c].event = to
        /\ c \notin mux[t].requests \/ req[c].event # from =>
             req'[c] = req[c]
  BY <1>1, MovedTypes
<1>3. /\ \A u \in Tracks : mux'[u].requests = mux[u].requests
      /\ \A u \in Tracks \ {t} : mux'[u] = mux[u]
      /\ mux'[t].state = s
  BY <1>1, Types DEF Muxes
<1>4. RegisteredAtOwn'
  BY <1>2, <1>3 DEF ClientInv, RegisteredAtOwn, Served
<1>7. SlowIsGone'
  BY <1>1, <1>2, <1>3 DEF ClientInv, SlowIsGone, TypeOK
<1>5. ASSUME NEW c \in Clients \ slow'
      PROVE  MuxFitsEvent(c)'
  <2>1. MuxFitsEvent(c)
    BY DEF ClientInv
  <2>2. CASE c \in mux[t].requests /\ req[c].event = from
    <3>1. req[c].track = t
      BY <2>2 DEF ClientInv, RegisteredAtOwn
    <3>2. /\ req'[c].track = t /\ req'[c].event = to
          /\ mux'[t].state \in {"filling", "whole"}
          /\ c \in mux'[t].requests
      BY <1>2, <1>3, <2>2, <3>1
    <3> QED
      BY <3>2 DEF MuxFitsEvent
  <2>3. CASE req[c].track # t
    <3>1. req'[c] = req[c]
      BY <1>2, <2>3 DEF ClientInv, RegisteredAtOwn
    <3>2. req[c].event \in Served => mux'[req[c].track] = mux[req[c].track]
      BY <1>1, <1>3, <2>3 DEF ReqHasTrack, Served
    <3> QED
      BY <2>1, <3>1, <3>2 DEF MuxFitsEvent, Served
  <2>4. CASE req[c].track = t
             /\ (c \notin mux[t].requests \/ req[c].event # from)
    <3>1. req'[c] = req[c]
      BY <1>2, <2>4
    <3> QED
      BY <1>3, <2>1, <2>4, <3>1 DEF MuxFitsEvent
  <2> QED
    BY <2>2, <2>3, <2>4
<1>6. FreedHasNode'
  <2>1. \A c \in Clients : req'[c].event = "freed" =>
          req[c].event = "freed" /\ req'[c].track = req[c].track
    BY <1>2
  <2> QED
    BY <1>1, <2>1 DEF ClientInv, FreedHasNode, NodeLeft, ReqHasTrack
<1> QED
  BY <1>4, <1>5, <1>6, <1>7 DEF ClientInv, OnlySlowClientsKill

LEMMA ClientOfFailure ==
  ASSUME TypeInv, TableInv, ClientInv, fault = "none", NEW t \in Tracks,
         FetchFails(t)
  PROVE  ClientInv'
<1>1. /\ TypeOK /\ ReqHasTrack
      /\ mux[t].state \in {"fetch", "filling"}
      /\ mux[t].state = "filling" => node[t].writer # "none"
      /\ mux'[t].state = "none" /\ mux'[t].requests = {}
      /\ \A u \in Tracks \ {t} : mux'[u] = mux[u]
      /\ req' = Answered(t)
      /\ UNCHANGED <<node, fault, slow>>
  BY Types DEF TypeInv, TableInv, NodeFitsMux, FetchFails, Fetching, NoMux,
               Muxes
<1>2. \A c \in Clients :
        /\ req'[c].track = req[c].track
        /\ c \in mux[t].requests =>
             req'[c].event = IF req[c].event \in {"header", "read", "copy"}
                               THEN "freed" ELSE "close"
        /\ c \notin mux[t].requests => req'[c] = req[c]
  BY <1>1, AnsweredTypes
<1>3. RegisteredAtOwn'
  <2> SUFFICES ASSUME NEW c \in Clients, NEW u \in Tracks,
                      c \in mux'[u].requests
               PROVE  req'[c].track = u /\ req'[c].event \in Served
    BY DEF RegisteredAtOwn
  <2>1. u # t /\ c \in mux[u].requests
    BY <1>1
  <2>2. req[c].track = u /\ req[c].event \in Served /\ c \notin mux[t].requests
    BY <2>1 DEF ClientInv, RegisteredAtOwn
  <2> QED
    BY <1>2, <2>2
<1>6. SlowIsGone'
  BY <1>1, <1>2 DEF ClientInv, SlowIsGone, TypeOK
<1>4. ASSUME NEW c \in Clients \ slow'
      PROVE  MuxFitsEvent(c)'
  <2>1. MuxFitsEvent(c)
    BY <1>1 DEF ClientInv
  <2>2. CASE c \in mux[t].requests
    <3>1. req'[c].event \in {"freed", "close"}
      BY <1>2, <2>2
    <3> QED
      BY <3>1 DEF MuxFitsEvent
  <2>3. CASE c \notin mux[t].requests /\ req[c].event \in Served
    <3>1. req'[c] = req[c] /\ req[c].track \in Tracks
      BY <1>1, <1>2, <2>3 DEF ReqHasTrack, Served
    <3>2. req[c].track # t
      BY <2>1, <2>3 DEF MuxFitsEvent, Served
    <3> QED
      BY <1>1, <2>1, <3>1, <3>2 DEF MuxFitsEvent
  <2>4. CASE c \notin mux[t].requests /\ req[c].event \notin Served
    BY <1>2, <2>4 DEF MuxFitsEvent, Served
  <2> QED
    BY <2>2, <2>3, <2>4
<1>5. FreedHasNode'
  <2> SUFFICES ASSUME NEW c \in Clients, req'[c].event = "freed"
               PROVE  NodeLeft(req[c].track)'
    BY <1>2 DEF FreedHasNode
  <2>1. CASE c \in mux[t].requests
    <3>1. req[c].track = t /\ req[c].event \in {"header", "read", "copy"}
      BY <1>2, <2>1 DEF ClientInv, RegisteredAtOwn
    <3>2. mux[t].state = "filling"
      <4>1. c \notin slow
        BY <2>1 DEF ClientInv, SlowIsGone
      <4>2. MuxFitsEvent(c)
        BY <4>1 DEF ClientInv
      <4> QED
        BY <1>1, <3>1, <4>2 DEF MuxFitsEvent
    <3> QED
      BY <1>1, <1>2, <3>1, <3>2 DEF NodeLeft
  <2>2. CASE c \notin mux[t].requests
    <3>1. req[c].event = "freed" /\ req[c].track \in Tracks
      BY <1>1, <1>2, <2>2 DEF ReqHasTrack
    <3>2. NodeLeft(req[c].track)
      BY <3>1 DEF ClientInv, FreedHasNode
    <3> QED
      BY <1>1, <1>2, <3>1, <3>2 DEF NodeLeft
  <2> QED
    BY <2>1, <2>2
<1> QED
  BY <1>1, <1>3, <1>4, <1>5, <1>6 DEF ClientInv, OnlySlowClientsKill

LEMMA ClientOfTrackStep ==
  ASSUME TypeInv, TableInv, ClientInv, fault = "none", NEW t \in Tracks,
         TrackStep(t)
  PROVE  ClientInv'
<1>1. TypeOK /\ ReqHasTrack
  BY DEF TypeInv
<1>2. \A u \in Tracks :
        NodeLeft(u) => /\ mux[u].state \in {"none", "lookup", "whole"}
                       /\ node[u].writer # "none" /\ ~node[u].ended
  BY DEF TableInv, NodeFitsMux, LeftForEver, NodeLeft
<1>3. CASE NotCached(t)
  <2>1. /\ mux[t].state = "lookup" /\ mux'[t].state = "fetch"
        /\ \A u \in Tracks : mux'[u].requests = mux[u].requests
        /\ \A u \in Tracks \ {t} : mux'[u] = mux[u]
        /\ UNCHANGED <<node, req, fault, slow>>
    BY <1>1, <1>3, Types DEF NotCached, Muxes, diskVars
  <2>2. RegisteredAtOwn' /\ SlowIsGone'
    BY <2>1 DEF ClientInv, RegisteredAtOwn, SlowIsGone
  <2>3. ASSUME NEW c \in Clients \ slow'
        PROVE  MuxFitsEvent(c)'
    <3>1. MuxFitsEvent(c)
      BY <2>1 DEF ClientInv
    <3>2. req[c].event \in Served => req[c].track \in Tracks
      BY <1>1 DEF ReqHasTrack, Served
    <3> QED
      BY <2>1, <3>1, <3>2 DEF MuxFitsEvent, Served
  <2>4. FreedHasNode'
    BY <1>1, <2>1 DEF ClientInv, FreedHasNode, NodeLeft, ReqHasTrack
  <2> QED
    BY <2>1, <2>2, <2>3, <2>4 DEF ClientInv, OnlySlowClientsKill
<1>4. CASE HandleReadHeader(t)
  <2>1. /\ mux[t].state = "lookup"
        /\ mux' = [mux EXCEPT ![t].state = "whole"]
        /\ req' = Moved(t, "mux", "header")
        /\ UNCHANGED <<node, fault, slow>>
    BY <1>4 DEF HandleReadHeader, diskVars
  <2>2. \A u \in Tracks :
          NodeLeft(u) =>
            mux'[u].state # "filling" /\ node'[u].writer # "none"
    BY <1>1, <1>2, <2>1, Types DEF Muxes
  <2> QED
    BY <2>1, <2>2, ClientOfMoved
<1>5. CASE HeaderFetched(t)
  <2>1. /\ mux[t].state = "fetch"
        /\ mux' = [mux EXCEPT ![t].state = "filling"]
        /\ req' = Moved(t, "mux", "header")
        /\ UNCHANGED <<fault, slow>>
    BY <1>5 DEF HeaderFetched
  <2>2. \A u \in Tracks \ {t} : node'[u] = node[u]
    BY <1>1, <1>5, Types DEF HeaderFetched
  <2>3. \A u \in Tracks :
          NodeLeft(u) =>
            mux'[u].state # "filling" /\ node'[u].writer # "none"
    BY <1>1, <1>2, <2>1, <2>2, Types DEF Muxes
  <2> QED
    BY <2>1, <2>3, ClientOfMoved
<1>6. CASE FetchFails(t)
  BY <1>6, ClientOfFailure
<1>7. CASE BlockFetched(t) \/ FetchEnds(t)
  <2>1. UNCHANGED <<mux, req, slow, fault>>
    BY <1>7 DEF BlockFetched, FetchEnds
  <2>2. \A u \in Tracks : node[u].writer # "none" => node'[u].writer # "none"
    <3>1. CASE BlockFetched(t)
      BY <1>1, <3>1, Types, AppendedNode DEF BlockFetched
    <3>2. CASE FetchEnds(t)
      BY <1>1, <3>2, Types DEF FetchEnds, Nodes
    <3> QED
      BY <1>7, <3>1, <3>2
  <2> QED
    BY <1>1, <2>1, <2>2, ClientQuiet
<1>8. CASE BlockWritten(t) /\ (WriterIdles(t) \/ WriterGoesOn(t))
  <2>1. UNCHANGED <<mux, req, slow, fault>>
    BY <1>8 DEF BlockWritten, WriterIdles, WriterGoesOn
  <2>2. \A u \in Tracks : node[u].writer # "none" => node'[u].writer # "none"
    BY <1>1, <1>8, Types DEF WriterIdles, WriterGoesOn, Nodes
  <2> QED
    BY <1>1, <2>1, <2>2, ClientQuiet
<1>9. CASE BlockWritten(t) /\ WriterEnds(t)
  <2>1. /\ mux' = [mux EXCEPT ![t].state = "whole"]
        /\ req' = Moved(t, "idle", "read")
        /\ node' = [node EXCEPT ![t] = NoNode]
        /\ node[t].ended
        /\ UNCHANGED <<fault, slow>>
    BY <1>9 DEF BlockWritten, WriterEnds, NotifyCacheCompleted
  <2>2. mux[t].state = "filling"
    BY <2>1 DEF TableInv, NodeFitsMux
  <2>3. \A u \in Tracks :
          NodeLeft(u) =>
            mux'[u].state # "filling" /\ node'[u].writer # "none"
    BY <1>1, <1>2, <2>1, Types DEF Muxes
  <2> QED
    BY <2>1, <2>2, <2>3, ClientOfMoved
<1>10. CASE BlockWritten(t) /\ WriterFails(t)
  <2>1. /\ UNCHANGED <<mux, req, slow, node>>
        /\ mux[t].state = "none" /\ node[t].writer = "busy"
    BY <1>10 DEF BlockWritten, WriterFails
  <2>2. OnlySlowClientsKill'
    BY <2>1 DEF OnlySlowClientsKill, NodeLeft
  <2>3. RegisteredAtOwn' /\ SlowIsGone' /\ FreedHasNode'
    BY <2>1 DEF ClientInv, RegisteredAtOwn, SlowIsGone, FreedHasNode, NodeLeft
  <2>4. ASSUME NEW c \in Clients \ slow'
        PROVE  MuxFitsEvent(c)'
    BY <2>1, <2>4 DEF ClientInv, MuxFitsEvent
  <2> QED
    BY <2>2, <2>3, <2>4 DEF ClientInv
<1> QED
  BY <1>3, <1>4, <1>5, <1>6, <1>7, <1>8, <1>9, <1>10
     DEF TrackStep, BlockWritten

(* The client goes on to an event that its Mux fits as well. *)
LEMMA ClientOfGoes ==
  ASSUME TypeInv, ClientInv, fault = "none", NEW c \in Clients,
         req[c].event \in {"header", "read", "copy"},
         NEW event \in {"read", "idle"}, Goes(c, event),
         event = "idle" /\ c \notin slow =>
           /\ mux[req[c].track].state = "filling"
           /\ c \in mux[req[c].track].requests
  PROVE  ClientInv'
<1>1. TypeOK
  BY DEF TypeInv
<1>2. /\ req'[c].event = event /\ req'[c].track = req[c].track
      /\ \A d \in Clients \ {c} : req'[d] = req[d]
      /\ UNCHANGED <<mux, node, fault, slow>>
  BY <1>1, GoesRequest DEF Goes, Events, diskVars
<1>3. RegisteredAtOwn' /\ SlowIsGone'
  BY <1>1, <1>2 DEF ClientInv, RegisteredAtOwn, SlowIsGone, Served, TypeOK
<1>4. ASSUME NEW d \in Clients \ slow'
      PROVE  MuxFitsEvent(d)'
  <2>1. MuxFitsEvent(d)
    BY <1>2 DEF ClientInv
  <2>2. CASE d = c
    BY <1>2, <2>1, <2>2 DEF MuxFitsEvent
  <2>3. CASE d # c
    BY <1>2, <2>1, <2>3 DEF MuxFitsEvent
  <2> QED
    BY <2>2, <2>3
<1>5. FreedHasNode'
  BY <1>2 DEF ClientInv, FreedHasNode, NodeLeft
<1> QED
  BY <1>2, <1>3, <1>4, <1>5 DEF ClientInv, OnlySlowClientsKill

LEMMA ClientOfDies ==
  ASSUME ClientInv, NEW how, Dies(how),
         slow # {} \/ \E t \in Tracks : NodeLeft(t)
  PROVE  ClientInv'
<1>1. UNCHANGED <<mux, node, req, slow>>
  BY DEF Dies, diskVars
<1>2. RegisteredAtOwn' /\ SlowIsGone' /\ FreedHasNode'
  BY <1>1 DEF ClientInv, RegisteredAtOwn, SlowIsGone, FreedHasNode, NodeLeft
<1>3. ASSUME NEW c \in Clients \ slow'
      PROVE  MuxFitsEvent(c)'
  BY <1>1, <1>3 DEF ClientInv, MuxFitsEvent
<1>4. OnlySlowClientsKill'
  BY <1>1 DEF OnlySlowClientsKill, NodeLeft
<1> QED
  BY <1>2, <1>3, <1>4 DEF ClientInv

(* The client is done with its Mux: it waits for nothing there. *)
LEMMA ClientOfDone ==
  ASSUME TypeInv, ClientInv, fault' = "none", NEW c \in Clients,
         NEW m \in [Tracks -> Muxes], mux' = m,
         \A t \in Tracks : /\ m[t].state = mux[t].state
                           /\ m[t].requests = mux[t].requests \ {c},
         req'[c].event \in {"close", "closed"},
         \A d \in Clients \ {c} : req'[d] = req[d],
         slow' = slow \/ slow' = slow \ {c},
         UNCHANGED node
  PROVE  ClientInv'
<1>1. ReqHasTrack /\ slow \subseteq Clients
  BY DEF TypeInv, TypeOK
<1>2. RegisteredAtOwn' /\ SlowIsGone'
  BY <1>1 DEF ClientInv, RegisteredAtOwn, SlowIsGone
<1>3. ASSUME NEW d \in Clients \ slow'
      PROVE  MuxFitsEvent(d)'
  <2>1. CASE d = c
    BY <2>1 DEF MuxFitsEvent
  <2>2. CASE d # c
    <3>1. MuxFitsEvent(d)
      BY <2>2 DEF ClientInv
    <3>2. req[d].event \in Served => req[d].track \in Tracks
      BY <1>1 DEF ReqHasTrack, Served
    <3> QED
      BY <2>2, <3>1, <3>2 DEF MuxFitsEvent, Served
  <2> QED
    BY <2>1, <2>2
<1>4. FreedHasNode'
  BY <1>1 DEF ClientInv, FreedHasNode, NodeLeft, ReqHasTrack
<1> QED
  BY <1>2, <1>3, <1>4 DEF ClientInv, OnlySlowClientsKill

LEMMA ClientOfClientStep ==
  ASSUME TypeInv, ClientInv, fault = "none", NEW c \in Clients, ClientStep(c)
  PROVE  ClientInv'
<1> DEFINE m == mux[req[c].track]
<1>1. c \in slow \/ MuxFitsEvent(c)
  BY DEF ClientInv
<1>2. TypeOK /\ ReqHasTrack
  BY DEF TypeInv
<1>3. CASE HeaderWritten(c)
  <2>1. c \in slow \/ (m.state \in {"filling", "whole"} /\ c \in m.requests)
    BY <1>1, <1>3 DEF HeaderWritten, MuxFitsEvent
  <2> QED
    BY <1>3, <2>1, ClientOfGoes, ClientOfDies DEF HeaderWritten
<1>4. CASE ContentRead(c)
  <2>1. /\ req[c].event = "read" /\ req'[c].event = "copy"
        /\ req'[c].track = req[c].track
        /\ \A d \in Clients \ {c} : req'[d] = req[d]
        /\ UNCHANGED <<mux, node, fault, slow>>
    BY <1>2, <1>4, Types DEF ContentRead, Reqs, diskVars
  <2>2. RegisteredAtOwn' /\ SlowIsGone'
    BY <1>2, <2>1
       DEF ClientInv, RegisteredAtOwn, SlowIsGone, Served, TypeOK
  <2>3. ASSUME NEW d \in Clients \ slow'
        PROVE  MuxFitsEvent(d)'
    <3>1. MuxFitsEvent(d)
      BY <2>1 DEF ClientInv
    <3>2. CASE d = c
      BY <2>1, <3>1, <3>2 DEF MuxFitsEvent
    <3>3. CASE d # c
      BY <2>1, <3>1, <3>3 DEF MuxFitsEvent
    <3> QED
      BY <3>2, <3>3
  <2>4. FreedHasNode'
    BY <2>1 DEF ClientInv, FreedHasNode, NodeLeft
  <2> QED
    BY <2>1, <2>2, <2>3, <2>4 DEF ClientInv, OnlySlowClientsKill
<1>5. CASE EndRead(c)
  <2>1. /\ c \in slow \/ (m.state \in {"filling", "whole"} /\ c \in m.requests)
        /\ req[c].event = "read" /\ req[c].track \in Tracks
    BY <1>1, <1>2, <1>5 DEF EndRead, MuxFitsEvent, ReqHasTrack
  <2>2. CASE m.state = "none" /\ Dies("terminate")
    BY <2>1, <2>2, ClientOfDies
  <2>3. CASE m.state \in {"lookup", "fetch", "filling"} /\ Goes(c, "idle")
    BY <2>1, <2>3, ClientOfGoes
  <2>4. CASE m.state = "whole" /\ c \notin m.requests /\ Dies("undefined")
    BY <2>1, <2>4, ClientOfDies
  <2>5. CASE /\ mux' = [mux EXCEPT ![req[c].track].requests = @ \ {c}]
             /\ req' = [req EXCEPT ![c].event = "close"]
             /\ UNCHANGED <<tableVars, diskVars, timeVars, fault, slow>>
    <3>1. mux' \in [Tracks -> Muxes]
      BY <1>2, <2>5, Types DEF Muxes
    <3>2. /\ req'[c].event = "close"
          /\ \A d \in Clients \ {c} : req'[d] = req[d]
          /\ UNCHANGED <<node, fault, slow>>
      BY <1>2, <2>5, Types DEF Reqs, diskVars
    <3>3. ASSUME NEW t \in Tracks
          PROVE  /\ mux'[t].state = mux[t].state
                 /\ mux'[t].requests = mux[t].requests \ {c}
      <4>1. t # req[c].track => c \notin mux[t].requests
        BY DEF ClientInv, RegisteredAtOwn
      <4> QED
        BY <1>2, <2>1, <2>5, <4>1, Types DEF Muxes
    <3> QED
      BY <3>1, <3>2, <3>3, ClientOfDone
  <2> QED
    BY <1>5, <2>2, <2>3, <2>4, <2>5 DEF EndRead
<1>6. CASE ContentCopied(c)
  BY <1>6, ClientOfGoes DEF ContentCopied
<1>7. CASE HandleClose(c)
  <2>1. /\ req[c].event = "close" /\ req'[c].event = "closed"
        /\ \A d \in Clients \ {c} : req'[d] = req[d]
        /\ slow' = slow \ {c}
        /\ UNCHANGED <<mux, node, fault>>
    BY <1>2, <1>7, Types, ClosedRequest DEF HandleClose, diskVars
  <2>2. \A t \in Tracks : c \notin mux[t].requests
    BY <2>1 DEF ClientInv, RegisteredAtOwn, Served
  <2>3. mux' \in [Tracks -> Muxes]
    BY <1>2, <2>1, Types
  <2> QED
    BY <2>1, <2>2, <2>3, ClientOfDone
<1>8. CASE FreedCompleted(c)
  <2>1. req[c].event = "freed" /\ req[c].track \in Tracks
    BY <1>2, <1>8 DEF FreedCompleted, ReqHasTrack
  <2>2. NodeLeft(req[c].track)
    BY <2>1 DEF ClientInv, FreedHasNode
  <2> QED
    BY <1>8, <2>1, <2>2, ClientOfDies DEF FreedCompleted
<1> QED
  BY <1>3, <1>4, <1>5, <1>6, <1>7, <1>8 DEF ClientStep

LEMMA ClientOfRequest ==
  ASSUME TypeInv, ClientInv, fault = "none",
         NEW c \in Clients, NEW t \in Tracks, HandleExistsResource(c, t)
  PROVE  ClientInv'
<1>1. TypeOK /\ ReqHasTrack /\ slow \subseteq Clients
  BY DEF TypeInv, TypeOK
<1>2. /\ req[c].event = "none"
      /\ req'[c].track = t
      /\ req'[c].event = IF Typed(t) THEN "header" ELSE "mux"
      /\ \A d \in Clients \ {c} : req'[d] = req[d]
      /\ mux'[t].state = IF mux[t].state = "none" THEN "lookup"
                                                  ELSE mux[t].state
      /\ mux'[t].requests = mux[t].requests \cup {c}
      /\ \A u \in Tracks \ {t} : mux'[u] = mux[u]
  BY <1>1, RequestMade
<1>3. UNCHANGED <<node, fault, slow>>
  BY DEF HandleExistsResource, diskVars
<1>4. c \notin slow /\ \A u \in Tracks : c \notin mux[u].requests
  BY <1>2 DEF ClientInv, SlowIsGone, RegisteredAtOwn, Served
<1>5. req'[c].event \in {"mux", "header"}
  BY <1>2
<1>6. RegisteredAtOwn'
  <2> SUFFICES ASSUME NEW d \in Clients, NEW u \in Tracks,
                      d \in mux'[u].requests
               PROVE  req'[d].track = u /\ req'[d].event \in Served
    BY DEF RegisteredAtOwn
  <2>1. CASE d = c
    <3>1. u = t
      BY <1>2, <1>4, <2>1
    <3> QED
      BY <1>2, <1>5, <2>1, <3>1 DEF Served
  <2>2. CASE d # c
    <3>1. d \in mux[u].requests
      BY <1>2, <2>2
    <3> QED
      BY <1>2, <2>2, <3>1 DEF ClientInv, RegisteredAtOwn
  <2> QED
    BY <2>1, <2>2
<1>7. SlowIsGone'
  <2> SUFFICES ASSUME NEW d \in slow
               PROVE  req'[d].event # "none"
                      /\ \A u \in Tracks : d \notin mux'[u].requests
    BY <1>3 DEF SlowIsGone
  <2>1. d \in Clients /\ d # c
    BY <1>1, <1>4
  <2> QED
    BY <1>2, <2>1 DEF ClientInv, SlowIsGone
<1>8. ASSUME NEW d \in Clients \ slow'
      PROVE  MuxFitsEvent(d)'
  <2>1. CASE d = c
    <3>1. mux[t].state \in {"none", "lookup", "fetch", "filling", "whole"}
      BY <1>1 DEF TypeOK
    <3> QED
      BY <1>2, <2>1, <3>1 DEF MuxFitsEvent, Typed
  <2>2. CASE d # c
    <3>1. MuxFitsEvent(d)
      BY <1>3 DEF ClientInv
    <3>2. req[d].event \in Served => req[d].track \in Tracks
      BY <1>1 DEF ReqHasTrack, Served
    <3> QED
      BY <1>2, <2>2, <3>1, <3>2 DEF MuxFitsEvent, Served
  <2> QED
    BY <2>1, <2>2
<1>9. FreedHasNode'
  <2> SUFFICES ASSUME NEW d \in Clients, req'[d].event = "freed"
               PROVE  NodeLeft(req[d].track)'
    BY DEF FreedHasNode
  <2>1. d # c /\ req'[d] = req[d]
    BY <1>2, <1>5
  <2>2. NodeLeft(req[d].track) /\ req[d].track \in Tracks
    BY <1>1, <2>1 DEF ClientInv, FreedHasNode, ReqHasTrack
  <2>3. mux'[req[d].track].state # "filling"
    BY <1>2, <2>2 DEF NodeLeft
  <2> QED
    BY <1>3, <2>1, <2>2, <2>3 DEF NodeLeft
<1> QED
  BY <1>3, <1>6, <1>7, <1>8, <1>9 DEF ClientInv, OnlySlowClientsKill

LEMMA ClientOfCleanup ==
  ASSUME TypeInv, TableInv, ClientInv, HandleCleanup
  PROVE  ClientInv'
<1>1. ReqHasTrack /\ DueTracks \subseteq Tracks
  BY Types DEF TypeInv, DueTracks, Due
<1>2. /\ mux' = [t \in Tracks |-> IF t \in DueTracks THEN NoMux
                                                     ELSE mux[t]]
      /\ slow' = slow \cup UNION {mux[t].requests : t \in DueTracks}
      /\ UNCHANGED <<node, req, fault>>
  BY CleanupRemoves
<1>3. /\ \A t \in DueTracks : /\ mux'[t].state = "none"
                              /\ mux'[t].requests = {}
      /\ \A t \in Tracks \ DueTracks : mux'[t] = mux[t]
  BY <1>1, <1>2 DEF NoMux
<1>4. RegisteredAtOwn'
  BY <1>2, <1>3 DEF ClientInv, RegisteredAtOwn
<1>5. SlowIsGone'
  <2> SUFFICES ASSUME NEW c \in slow'
               PROVE  req[c].event # "none"
                      /\ \A t \in Tracks : c \notin mux'[t].requests
    BY <1>2 DEF SlowIsGone
  <2>1. CASE c \in slow
    BY <1>3, <2>1 DEF ClientInv, SlowIsGone
  <2>2. CASE \E t \in DueTracks : c \in mux[t].requests
    <3>1. PICK t \in DueTracks : c \in mux[t].requests
      BY <2>2
    <3>2. c \in Clients /\ t \in Tracks
      BY <1>1, <3>1, Types DEF TypeInv, Muxes
    <3>3. req[c].track = t /\ req[c].event \in Served
      BY <3>1, <3>2 DEF ClientInv, RegisteredAtOwn
    <3>4. \A u \in Tracks \ {t} : c \notin mux[u].requests
      BY <3>2, <3>3 DEF ClientInv, RegisteredAtOwn
    <3> QED
      BY <1>3, <3>1, <3>3, <3>4 DEF Served
  <2> QED
    BY <1>2, <2>1, <2>2
<1>6. ASSUME NEW c \in Clients \ slow'
      PROVE  MuxFitsEvent(c)'
  <2>1. MuxFitsEvent(c) /\ \A t \in DueTracks : c \notin mux[t].requests
    BY <1>2 DEF ClientInv
  <2>2. req[c].event \in Served => req[c].track \in Tracks \ DueTracks
    BY <1>1, <2>1 DEF ReqHasTrack, MuxFitsEvent, Served
  <2> QED
    BY <1>2, <1>3, <2>1, <2>2 DEF MuxFitsEvent, Served
<1>7. \A t \in Tracks : NodeLeft(t) => NodeLeft(t)'
  BY <1>2, <1>3 DEF NodeLeft
<1>8. FreedHasNode'
  BY <1>1, <1>2, <1>7 DEF ClientInv, FreedHasNode, ReqHasTrack
<1>9. OnlySlowClientsKill'
  BY <1>2, <1>7 DEF ClientInv, OnlySlowClientsKill
<1> QED
  BY <1>4, <1>5, <1>6, <1>8, <1>9 DEF ClientInv

LEMMA ClientNext ==
  TypeInv /\ TableInv /\ ClientInv /\ [Next]_vars => ClientInv'
<1> SUFFICES ASSUME TypeInv, TableInv, ClientInv, [Next]_vars
             PROVE  ClientInv'
  OBVIOUS
<1>1. CASE Tick /\ fault = "none"
  BY <1>1, ClientQuiet DEF Tick, diskVars, TypeInv
<1>2. CASE Restart
  <2>1. /\ \A t \in Tracks : mux'[t].requests = {}
        /\ \A c \in Clients : req'[c].event \in {"none", "closed"}
        /\ slow' = {} /\ fault' = "none"
    BY <1>2, ClosedRequest DEF Restart, NoMux
  <2> QED
    BY <2>1 DEF ClientInv, RegisteredAtOwn, SlowIsGone, MuxFitsEvent,
                FreedHasNode, OnlySlowClientsKill
<1>3. CASE UNCHANGED vars
  <2>1. UNCHANGED <<mux, node, req, fault, slow>>
    BY <1>3 DEF vars, diskVars
  <2>2. RegisteredAtOwn' /\ SlowIsGone' /\ FreedHasNode' /\ OnlySlowClientsKill'
    BY <2>1 DEF ClientInv, RegisteredAtOwn, SlowIsGone, FreedHasNode,
                OnlySlowClientsKill, NodeLeft
  <2>3. ASSUME NEW c \in Clients \ slow'
        PROVE  MuxFitsEvent(c)'
    BY <2>1, <2>3 DEF ClientInv, MuxFitsEvent
  <2> QED
    BY <2>2, <2>3 DEF ClientInv
<1> QED
  BY <1>1, <1>2, <1>3, ClientOfTrackStep, ClientOfClientStep, ClientOfRequest,
     ClientOfCleanup DEF Next

-----------------------------------------------------------------------------
(* Between any two handlers resource_ttl_, the Muxes, the Nodes and the    *)
(* files of the tracks agree, and every client whose track was not taken   *)
(* away waits for something its Mux will bring, or was answered when its   *)
(* fetch failed (Stream.cpp:220-232, 430-460, HLSStream.cpp:64-68).        *)
THEOREM Invariance == Spec => []IInv
<1>1. IInv /\ [Next]_vars => IInv'
  <2> SUFFICES ASSUME IInv, [Next]_vars PROVE IInv'
    OBVIOUS
  <2>1. TypeInv' /\ TableInv' /\ ClientInv'
    BY TypeNext, TableNext, ClientNext DEF IInv, ClientInv
  <2> QED
    BY <2>1 DEF IInv
<1> QED
  BY <1>1, InitInv, PTL DEF Spec

(* What becomes of a track: one that was fetched whole is entered into     *)
(* resource_ttl_ once, with a Mux that is whole, and its file goes with    *)
(* the Mux (Stream.cpp:430-460, HLSStream.cpp:60-70).  The file of a fetch *)
(* that failed in the body, or that a restart left, stays, and its track is*)
(* never entered (Http.cpp:142-143, Cache.cpp:67-73, 99-102).              *)
THEOREM TracksComeToTheirEnd == Spec => []TracksExpire
<1>1. IInv => TracksExpire
  BY DEF IInv, TypeInv, TableInv, TracksExpire
<1> QED
  BY <1>1, Invariance, PTL

(* Nobody is hurt but the clients whose track was taken away, unless a     *)
(* fetch failed in the body (Stream.cpp:80, 226-229, 342-354, 386-393).    *)
THEOREM OthersAreUnharmed == Spec => []OnlySlowClientsSuffer
<1>1. IInv => OnlySlowClientsSuffer
  BY DEF IInv, ClientInv, OnlySlowClientsSuffer, IdleAreNotified, MuxFitsEvent
<1> QED
  BY <1>1, Invariance, PTL

(* No track that is whole loses its Mux before its time, but in a restart  *)
(* (HLSStream.cpp:66, Stream.cpp:432).                                     *)
THEOREM TracksAreKept == Spec => KeptForTimeout
<1>1. IInv /\ [Next]_vars =>
        [\A t \in Tracks :
           (mux[t].state = "whole" /\ mux'[t].state = "none" /\ ~Restart)
             => now >= whole_at[t] + TIMEOUT_TRACK]_vars
  <2> SUFFICES ASSUME IInv, Next, NEW t \in Tracks, mux[t].state = "whole",
                      mux'[t].state = "none", ~Restart
               PROVE  now >= whole_at[t] + TIMEOUT_TRACK
    OBVIOUS
  <2>1. TypeOK /\ TableInv
    BY DEF IInv, TypeInv
  <2>2. ASSUME NEW u \in Tracks, TrackStep(u) PROVE FALSE
    <3>1. \A v \in Tracks \ {u} : mux'[v] = mux[v]
      BY <2>1, <2>2, Types
         DEF TrackStep, NotCached, HandleReadHeader, HeaderFetched,
             FetchFails, BlockFetched, FetchEnds, BlockWritten, WriterIdles,
             WriterGoesOn, WriterEnds, WriterFails, NotifyCacheCompleted
    <3>2. mux[u].state = "whole" =>
            mux'[u].state = "whole"
      BY <2>1, <2>2, Types
         DEF TrackStep, NotCached, HandleReadHeader, HeaderFetched,
             FetchFails, Fetching, BlockFetched, FetchEnds, BlockWritten,
             WriterIdles, WriterGoesOn, WriterEnds, WriterFails,
             NotifyCacheCompleted, Muxes
    <3> QED
      BY <3>1, <3>2
  <2>3. ASSUME NEW c \in Clients, ClientStep(c) PROVE FALSE
    <3>1. \/ mux' = mux
          \/ mux' = [mux EXCEPT ![req[c].track].requests = @ \ {c}]
      BY <2>3 DEF ClientStep, HeaderWritten, ContentRead, EndRead,
                  ContentCopied, HandleClose, FreedCompleted, Goes, Dies
    <3> QED
      BY <2>1, <3>1, Types DEF Muxes
  <2>4. ASSUME NEW c \in Clients, NEW u \in Tracks,
               HandleExistsResource(c, u)
        PROVE  FALSE
    <3>1. mux'[u].state # "none" /\ \A v \in Tracks \ {u} : mux'[v] = mux[v]
      BY <2>1, <2>4, RequestMade
    <3> QED
      BY <3>1
  <2>5. HandleCleanup
    BY <2>2, <2>3, <2>4 DEF Next, Tick
  <2>6. t \in DueTracks
    BY <2>1, <2>5, CleanupRemoves
  <2>7. PICK e \in resource_ttl : e.due <= now /\ e.track = t
    BY <2>6 DEF DueTracks, Due
  <2>8. e.due = whole_at[t] + TIMEOUT_TRACK
    BY <2>1, <2>7 DEF TableInv, DueAfterWhole
  <2> QED
    BY <2>7, <2>8
<1> QED
  BY <1>1, Invariance, PTL DEF Spec, KeptForTimeout
=============================================================================
