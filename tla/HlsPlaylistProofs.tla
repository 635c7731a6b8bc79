------------------------- MODULE HlsPlaylistProofs -------------------------
(* Proofs of the safety properties of HlsPlaylist, for any number of       *)
(* clients and of fetches, any window of the origin and any time.          *)
EXTENDS HlsPlaylist, FiniteSetTheorems, SequenceTheorems,
        WellFoundedInduction, TLAPS

Tracks == [uid : Nat, stamp : Nat]
Bodies == Seq(Tracks)

Muxes ==
  [exists : BOOLEAN, cached : BOOLEAN, wait : BOOLEAN,
   is_completed : BOOLEAN, header : Bodies, body : Bodies,
   made : 0 .. MaxTime, requests : SUBSET Clients]

Playlists ==
  [exists : BOOLEAN, remaining : 0 .. RemainingFetches, last_stamp : Nat,
   tracks : Bodies]

States == {"none", "live", "freed"}
EventTypes == {"none", "WRITE_HEADER", "WRITE_PARTIAL", "SERVER_CLOSE"}
FetchStates == {"none", "delayed", "fetching", "dropped", "body", "whole"}
Exceptions == {"failed", "foreign", "direct", "expired", "trackless"}

Requests ==
  [state : States, id : ClientIds, event_type : EventTypes,
   is_processing : BOOLEAN, flight : Nat, pivot : 0 .. 1, told : Bodies,
   sent : Bodies]

TypeInv ==
  /\ mux \in [Ids -> Muxes]
  /\ \A id \in Ids : Len(mux[id].body) <= TracksPerPlaylist
  /\ playlist \in Playlists /\ Len(playlist.tracks) <= MaxTracks
  /\ segments \subseteq InnerIds
  /\ fetch \in [Ids -> FetchStates]
  /\ req \in [Clients -> Requests]
  /\ now \in 1 .. MaxTime
  /\ origin \in 1 .. MaxSequence
  /\ fault \in {"none", "terminate", "undefined"}
  /\ happened \subseteq Exceptions
  /\ unasked \in 0 .. RemainingFetches

(* A list was asked for that no channel had led to; or it may have         *)
(* outlived its playlist.                                                  *)
Direct == "direct" \in happened
Outlived == Direct \/ "expired" \in happened

(* A fetch has its Mux.  Those of the server's own have an entry of        *)
(* segments_, one at a time, and only as long as there is the playlist.    *)
ChainInv ==
  /\ \A id \in Ids :
       /\ ~mux[id].exists => mux[id] = NoMux
       /\ fetch[id] # "none" => mux[id].exists
  /\ \A id \in InnerIds :
       /\ mux[id].requests = {}
       /\ mux[id].exists => id \in segments
       /\ id \in segments => playlist.exists
       /\ NeverFailed /\ id \in segments => UnderWay(id)
  /\ ~("inner_channel" \in segments /\ "inner_list" \in segments)
  /\ playlist.exists /\ NeverFailed => segments # {}

(* The channel: whoever is registered has been told nothing, or the header *)
(* of the body that it will get.                                           *)
ChannelInv ==
  LET m == mux["channel"]
  IN  /\ playlist.exists => m.exists /\ m.is_completed
      /\ m.exists => m.wait
      /\ m.is_completed => m.cached /\ fetch["channel"] = "none"
      /\ fetch["channel"] \in {"body", "whole"} => m.cached
      /\ m.exists /\ ~playlist.exists /\ NeverFailed => UnderWay("channel")
      /\ m.body # Nothing => m.header = m.body
      /\ ~m.is_completed => m.body = Nothing
      /\ \A c \in m.requests :
           IF m.is_completed THEN req[c].told = m.header
                             ELSE req[c] = StreamRequest("channel")

(* The list belongs to the playlist unless it was asked for directly, or   *)
(* outlived it.                                                            *)
ListInv ==
  LET m == mux["list"]
  IN  /\ fetch["list"] # "none" => Direct
      /\ m.exists /\ ~m.wait => Direct
      /\ m.exists /\ ~playlist.exists => Outlived
      /\ playlist.exists /\ ~m.exists => Direct
      /\ m.is_completed => m.cached
      /\ fetch["list"] \in {"body", "whole"} => m.cached
      /\ m.is_completed /\ playlist.tracks = <<>> =>
           Outlived \/ "trackless" \in happened
      /\ m.exists /\ ~m.is_completed /\ NeverFailed =>
           UnderWay("list") \/ (playlist.exists /\ playlist.remaining > 0)
      /\ m.exists /\ ~m.cached =>
           /\ ~m.wait /\ m.requests # {}
           /\ \A c \in m.requests : req[c] = StreamRequest("list")

(* A client is registered until it is closed or freed, with an operation   *)
(* in flight for every time that is_processing is set.                     *)
RequestInv(c) ==
  LET r == req[c]
  IN  /\ r.state = "none" => r = NoRequest
      /\ \A id \in Ids :
           c \in mux[id].requests <=>
             r.state = "live" /\ r.event_type # "SERVER_CLOSE" /\ r.id = id
      /\ r.state = "live" /\ r.event_type # "SERVER_CLOSE" =>
           /\ r.flight = IF r.is_processing THEN 1 ELSE 0
           /\ r.is_processing \/ ~mux[r.id].is_completed
      /\ r.state = "live" /\ r.event_type = "SERVER_CLOSE" =>
           r.flight > 0 /\ (r.flight > 1 => Direct)
      /\ r.state = "freed" /\ r.flight > 0 => Outlived

PlaylistInv ==
  /\ ~playlist.exists => playlist = NoPlaylist
  /\ playlist.exists => playlist.remaining + unasked >= RemainingFetches

(* The stamps of p end before the next one, and only a playlist with       *)
(* tracks has one.                                                         *)
StampsEnd(p) ==
  \A i \in DOMAIN p.tracks : p.tracks[i].stamp < p.last_stamp

(* What the next step relies on. *)
Running ==
  /\ ChainInv
  /\ ChannelInv
  /\ ListInv
  /\ \A c \in Clients : RequestInv(c)
  /\ PlaylistInv

IInv ==
  /\ TypeInv
  /\ StampsEnd(playlist)
  /\ ChannelLength
  /\ FaultNeedsCause
  /\ fault = "none" => Running

-----------------------------------------------------------------------------
(* Typing of the operators. *)

LEMMA Constant ==
  /\ Ids = {"channel", "list", "inner_channel", "inner_list"}
  /\ Nothing \in Bodies /\ Original \in Bodies /\ Rewritten \in Bodies
  /\ Len(Nothing) = 0 /\ Len(Rewritten) = 1
  /\ Rewritten # Nothing /\ Original # Nothing
BY EmptySeq DEF Ids, ClientIds, InnerIds, Nothing, Original, Rewritten,
                Bodies, Tracks

LEMMA InnerIdsAreIds == InnerIds \subseteq Ids
BY DEF Ids

LEMMA MuxTypes ==
  /\ NewMux \in Muxes /\ NoMux \in Muxes
  /\ NewMux.exists /\ ~NoMux.exists
  /\ \A m \in {NewMux, NoMux} :
       /\ ~m.cached /\ ~m.wait /\ ~m.is_completed /\ m.header = Nothing
       /\ m.body = Nothing /\ Len(m.body) = 0 /\ m.requests = {}
<1>1. MaxTime \in Nat /\ Nothing \in Bodies /\ Len(Nothing) = 0
  BY BoundAssumption, Constant
<1>2. /\ NewMux \in Muxes /\ NewMux.exists
      /\ ~NewMux.cached /\ ~NewMux.wait /\ ~NewMux.is_completed
      /\ NewMux.header = Nothing /\ NewMux.body = Nothing
      /\ NewMux.requests = {}
  BY <1>1 DEF NewMux, Muxes
<1>3. /\ NoMux \in Muxes /\ ~NoMux.exists
      /\ ~NoMux.cached /\ ~NoMux.wait /\ ~NoMux.is_completed
      /\ NoMux.header = Nothing /\ NoMux.body = Nothing
      /\ NoMux.requests = {}
  BY <1>2 DEF NoMux, Muxes
<1> QED
  BY <1>1, <1>2, <1>3

LEMMA NoRequestType ==
  /\ NoRequest \in Requests
  /\ \A id \in ClientIds : StreamRequest(id) \in Requests
<1>1. Nothing \in Bodies
  BY Constant
<1>2. NoRequest \in Requests
  BY <1>1 DEF NoRequest, Requests, States, EventTypes, ClientIds
<1> QED
  BY <1>2 DEF StreamRequest, Requests, States

LEMMA RequestTypes ==
  ASSUME NEW r \in Requests, NEW m \in Muxes
  PROVE  /\ HeaderRequest(r, m) \in Requests
         /\ BlockRequest(r, m) \in Requests
         /\ CloseRequest(r) \in Requests
         /\ Released(r) \in Requests
         /\ r.flight > 0 => Completed(r) \in Requests
<1>1. m.header \in Bodies /\ m.body \in Bodies
  BY DEF Muxes
<1> DEFINE more == r.flight + 1
           less == r.flight - 1
           first == 1
<1>2. /\ more \in Nat /\ (r.flight > 0 => less \in Nat)
      /\ first \in 0 .. 1
  BY DEF Requests
<1>3. HeaderRequest(r, m) =
        [r EXCEPT !.event_type = "WRITE_HEADER", !.is_processing = TRUE,
                  !.flight = more, !.told = m.header]
  BY DEF HeaderRequest
<1>4. BlockRequest(r, m) =
        [r EXCEPT !.event_type = "WRITE_PARTIAL", !.is_processing = TRUE,
                  !.flight = more, !.pivot = first, !.sent = m.body]
  BY DEF BlockRequest
<1>5. CloseRequest(r) =
        [r EXCEPT !.event_type = "SERVER_CLOSE", !.flight = more]
  BY DEF CloseRequest
<1>6. Completed(r) = [r EXCEPT !.flight = less, !.is_processing = FALSE]
  BY DEF Completed
<1> HIDE DEF more, less, first
<1>7. HeaderRequest(r, m) \in Requests
  BY <1>1, <1>2, <1>3 DEF Requests, EventTypes
<1>8. BlockRequest(r, m) \in Requests
  BY <1>1, <1>2, <1>4 DEF Requests, EventTypes
<1>9. CloseRequest(r) \in Requests
  BY <1>2, <1>5 DEF Requests, EventTypes
<1>10. Released(r) \in Requests
  BY DEF Released, Requests, States
<1>11. r.flight > 0 => Completed(r) \in Requests
  BY <1>2, <1>6 DEF Requests
<1> QED
  BY <1>7, <1>8, <1>9, <1>10, <1>11

(* What the three ways of serving a request make of it. *)
LEMMA ServedTypes ==
  ASSUME NEW r \in Requests, NEW m \in Muxes
  PROVE  /\ AddWriteHeaders(r, m) \in Requests
         /\ AddWriteStreamRequest(r, m) \in Requests
         /\ Notified(r, m) \in Requests
BY RequestTypes DEF AddWriteHeaders, AddWriteStreamRequest, Notified

(* What the operations on a request change of it. *)
LEMMA RequestFields ==
  ASSUME NEW r \in Requests, NEW m \in Muxes
  PROVE  /\ LET h == HeaderRequest(r, m)
            IN  /\ h.state = r.state /\ h.id = r.id /\ h.sent = r.sent
                /\ h.event_type = "WRITE_HEADER" /\ h.is_processing
                /\ h.flight = r.flight + 1 /\ h.told = m.header
         /\ LET b == BlockRequest(r, m)
            IN  /\ b.state = r.state /\ b.id = r.id /\ b.told = r.told
                /\ b.event_type = "WRITE_PARTIAL" /\ b.is_processing
                /\ b.flight = r.flight + 1 /\ b.sent = m.body
         /\ LET e == CloseRequest(r)
            IN  /\ e.state = r.state /\ e.id = r.id /\ e.told = r.told
                /\ e.sent = r.sent /\ e.event_type = "SERVER_CLOSE"
                /\ e.flight = r.flight + 1
         /\ LET f == Released(r)
            IN  /\ f.state = "freed" /\ f.id = r.id /\ f.told = r.told
                /\ f.sent = r.sent /\ f.flight = r.flight
         /\ LET d == Completed(r)
            IN  /\ d.state = r.state /\ d.id = r.id /\ d.told = r.told
                /\ d.sent = r.sent /\ d.event_type = r.event_type
                /\ d.flight = r.flight - 1 /\ ~d.is_processing
BY DEF HeaderRequest, BlockRequest, CloseRequest, Released, Completed,
       Requests

LEMMA StreamFields ==
  ASSUME NEW id \in ClientIds
  PROVE  LET r == StreamRequest(id)
         IN  /\ r.state = "live" /\ r.id = id /\ r.event_type = "none"
             /\ ~r.is_processing /\ r.flight = 0 /\ r.pivot = 0
             /\ r.told = Nothing /\ r.sent = Nothing
BY DEF StreamRequest, NoRequest

LEMMA NoRequestFields ==
  /\ NoRequest.state = "none" /\ NoRequest.flight = 0
  /\ NoRequest.sent = Nothing
BY DEF NoRequest

(* A request with nothing in flight that is served by a Mux that is        *)
(* complete is given an operation, or it ends.                             *)
LEMMA WriteStream ==
  ASSUME NEW r \in Requests, NEW m \in Muxes, r.state = "live",
         ~r.is_processing, r.flight = 0, r.event_type # "SERVER_CLOSE"
  PROVE  LET a == AddWriteStreamRequest(r, m)
         IN  /\ a.state = "live" /\ a.id = r.id /\ a.told = r.told
             /\ Ends(r, m) => a.event_type = "SERVER_CLOSE" /\ a.flight = 1
             /\ ~Ends(r, m) =>
                  /\ a.event_type # "SERVER_CLOSE"
                  /\ a.flight = IF a.is_processing THEN 1 ELSE 0
                  /\ a.is_processing \/ ~m.is_completed
             /\ a.sent = r.sent \/ (a.sent = m.body /\ m.body # Nothing)
<1> DEFINE a == AddWriteStreamRequest(r, m)
<1>1. CASE Sends(r, m)
  <2>1. a = BlockRequest(r, m) /\ ~Ends(r, m) /\ m.body # Nothing
    BY <1>1 DEF AddWriteStreamRequest, Ends, Sends
  <2> HIDE DEF a
  <2> QED
    BY <2>1, RequestFields DEF a
<1>2. CASE ~Sends(r, m) /\ Ends(r, m)
  <2>1. a = CloseRequest(r)
    BY <1>2 DEF AddWriteStreamRequest
  <2> HIDE DEF a
  <2> QED
    BY <1>2, <2>1, RequestFields DEF a
<1>3. CASE ~Sends(r, m) /\ ~Ends(r, m)
  <2>1. a = r /\ ~m.is_completed
    BY <1>3 DEF AddWriteStreamRequest, Ends
  <2> HIDE DEF a
  <2> QED
    BY <1>3, <2>1 DEF a
<1> QED
  BY <1>1, <1>2, <1>3

LEMMA WriteHeaders ==
  ASSUME NEW r \in Requests, NEW m \in Muxes, r.state = "live",
         ~r.is_processing, r.flight = 0, r.event_type # "SERVER_CLOSE"
  PROVE  LET a == AddWriteHeaders(r, m)
         IN  /\ a.state = "live" /\ a.id = r.id /\ a.sent = r.sent
             /\ a.event_type # "SERVER_CLOSE"
             /\ a.flight = IF a.is_processing THEN 1 ELSE 0
             /\ m.is_completed \/ ~m.wait =>
                  a.is_processing /\ a.told = m.header
             /\ ~m.is_completed /\ m.wait => a = r
<1> DEFINE a == AddWriteHeaders(r, m)
<1>1. CASE m.is_completed \/ ~m.wait
  <2>1. a = HeaderRequest(r, m)
    BY <1>1 DEF AddWriteHeaders
  <2> HIDE DEF a
  <2> QED
    BY <1>1, <2>1, RequestFields DEF a
<1>2. CASE ~(m.is_completed \/ ~m.wait)
  <2>1. a = r
    BY <1>2 DEF AddWriteHeaders
  <2> HIDE DEF a
  <2> QED
    BY <1>2, <2>1 DEF a
<1> QED
  BY <1>1, <1>2

(* A registered request: what RequestInv says of it by itself. *)
Registered(c, id) ==
  /\ req[c].state = "live" /\ req[c].event_type # "SERVER_CLOSE"
  /\ req[c].id = id
  /\ req[c].flight = IF req[c].is_processing THEN 1 ELSE 0

(* Of the requests of a Mux that is completed: one that ends is removed,   *)
(* every other one has an operation in flight.                             *)
LEMMA Completion ==
  ASSUME NEW m \in Muxes, NEW id, req \in [Clients -> Requests],
         \A c \in m.requests : Registered(c, id),
         NEW done, done = NotifyCacheCompleted(m)
  PROVE  /\ done.mux \in Muxes /\ done.mux.exists = m.exists
         /\ done.mux.cached = m.cached /\ done.mux.wait = m.wait
         /\ done.mux.header = m.header /\ done.mux.body = m.body
         /\ done.mux.is_completed /\ done.mux.requests \subseteq m.requests
         /\ done.req \in [Clients -> Requests]
         /\ \A c \in Clients : c \notin m.requests => done.req[c] = req[c]
         /\ \A c \in m.requests :
              /\ done.req[c].state = "live" /\ done.req[c].id = id
              /\ c \in done.mux.requests <=>
                   done.req[c].event_type # "SERVER_CLOSE"
              /\ c \in done.mux.requests =>
                   /\ done.req[c].is_processing /\ done.req[c].flight = 1
                   /\ done.req[c].told = IF ~req[c].is_processing /\ m.wait
                        THEN m.header ELSE req[c].told
              /\ c \notin done.mux.requests => done.req[c].flight = 1
              /\ m.wait => /\ c \in done.mux.requests
                           /\ done.req[c].sent = req[c].sent
         /\ done.fault \in {"none", "undefined"}
         /\ m.wait => done.fault = "none"
<1> DEFINE whole == [m EXCEPT !.is_completed = TRUE]
           ended == {c \in m.requests : ~req[c].is_processing /\ ~m.wait
                                          /\ Ends(req[c], whole)}
           after == [whole EXCEPT !.requests = @ \ ended]
           answered == [c \in Clients |-> IF c \in m.requests
                                            THEN Notified(req[c], whole)
                                            ELSE req[c]]
           how == IF \E c \in m.requests : Unprepared(req[c], whole)
                    THEN "undefined" ELSE "none"
<1>1. NotifyCacheCompleted(m) = [mux |-> after, req |-> answered,
                                 fault |-> how]
  BY DEF NotifyCacheCompleted
<1>2. /\ whole \in Muxes /\ whole.exists = m.exists
      /\ whole.cached = m.cached /\ whole.wait = m.wait
      /\ whole.header = m.header /\ whole.body = m.body
      /\ whole.is_completed /\ whole.requests = m.requests
  BY DEF Muxes
<1>3. how \in {"none", "undefined"} /\ (m.wait => how = "none")
  <2>1. \A c \in m.requests : m.wait => ~Unprepared(req[c], whole)
    BY <1>2 DEF Unprepared
  <2> QED
    BY <2>1
<1>4. m.requests \subseteq Clients
  BY DEF Muxes
<1>5. \A c \in m.requests :
        c \in ended <=> ~req[c].is_processing /\ ~m.wait
                           /\ Ends(req[c], whole)
  OBVIOUS
<1> HIDE DEF whole, how, ended
<1>6. /\ after \in Muxes /\ after.exists = m.exists
      /\ after.cached = m.cached /\ after.wait = m.wait
      /\ after.header = m.header /\ after.body = m.body
      /\ after.is_completed /\ after.requests = m.requests \ ended
  BY <1>2 DEF Muxes
<1>7. answered \in [Clients -> Requests]
  BY <1>2, ServedTypes
<1>8. \A c \in Clients : c \notin m.requests => answered[c] = req[c]
  OBVIOUS
<1>9. ASSUME NEW c \in m.requests
      PROVE  /\ answered[c].state = "live" /\ answered[c].id = id
             /\ c \notin ended <=> answered[c].event_type # "SERVER_CLOSE"
             /\ c \notin ended =>
                  /\ answered[c].is_processing /\ answered[c].flight = 1
                  /\ answered[c].told = IF ~req[c].is_processing /\ m.wait
                       THEN m.header ELSE req[c].told
             /\ c \in ended => answered[c].flight = 1
             /\ m.wait => c \notin ended /\ answered[c].sent = req[c].sent
  <2>1. req[c] \in Requests /\ Registered(c, id)
    BY <1>4
  <2>2. answered[c] = Notified(req[c], whole)
    BY <1>4
  <2>3. CASE req[c].is_processing
    <3>1. answered[c] = req[c] /\ c \notin ended
      BY <1>5, <2>2, <2>3 DEF Notified
    <3> HIDE DEF answered
    <3> QED
      BY <2>1, <2>3, <3>1 DEF Registered
  <2>4. CASE ~req[c].is_processing /\ m.wait
    <3>1. answered[c] = AddWriteHeaders(req[c], whole) /\ c \notin ended
      BY <1>2, <1>5, <2>2, <2>4 DEF Notified
    <3> HIDE DEF answered
    <3> QED
      BY <1>2, <2>1, <2>4, <3>1, WriteHeaders DEF Registered
  <2>5. CASE ~req[c].is_processing /\ ~m.wait
    <3>1. answered[c] = AddWriteStreamRequest(req[c], whole)
      BY <1>2, <2>2, <2>5 DEF Notified
    <3>2. c \in ended <=> Ends(req[c], whole)
      BY <1>5, <2>5
    <3> HIDE DEF answered
    <3> QED
      BY <1>2, <2>1, <2>5, <3>1, <3>2, WriteStream DEF Registered
  <2> QED
    BY <2>3, <2>4, <2>5
<1>10. done.mux = after /\ done.req = answered /\ done.fault = how
  BY <1>1
<1> HIDE DEF after, answered
<1>11. /\ done.mux \in Muxes /\ done.mux.exists = m.exists
       /\ done.mux.cached = m.cached /\ done.mux.wait = m.wait
       /\ done.mux.header = m.header /\ done.mux.body = m.body
       /\ done.mux.is_completed /\ done.mux.requests \subseteq m.requests
  BY <1>6, <1>10
<1>12. \A c \in m.requests : c \in done.mux.requests <=> c \notin ended
  BY <1>6, <1>10
<1> QED
  BY <1>3, <1>7, <1>8, <1>9, <1>10, <1>11, <1>12

(* A body sent to a request that was never told of it. *)
LEMMA NobodyIsPrepared ==
  ASSUME NEW m \in Muxes, ~m.wait, m.body # Nothing, m.requests # {},
         \A c \in m.requests : req[c] = StreamRequest("list")
  PROVE  NotifyCacheCompleted(m).fault = "undefined"
<1> DEFINE whole == [m EXCEPT !.is_completed = TRUE]
<1>1. ~whole.wait /\ whole.body = m.body
  BY DEF Muxes
<1>2. PICK c \in m.requests : TRUE
  OBVIOUS
<1> HIDE DEF whole
<1>3. Unprepared(req[c], whole)
  BY <1>1, StreamFields DEF Unprepared, Sends, ClientIds
<1> QED
  BY <1>3 DEF NotifyCacheCompleted, whole

-----------------------------------------------------------------------------
(* Steps that leave a part of the state alone. *)

LEMMA TypesSuffice == TypeInv => TypeOK
BY DEF TypeInv, TypeOK, Muxes, Playlists, Requests, States, EventTypes,
       FetchStates

LEMMA Exceptional ==
  ASSUME happened \subseteq happened'
  PROVE  /\ NeverFailed' => NeverFailed
         /\ Direct => Direct'
         /\ Outlived => Outlived'
BY DEF NeverFailed, Direct, Outlived

(* A Mux gets other requests. *)
WithRequests(m, R) == [m EXCEPT !.requests = R]

LEMMA OtherRequests ==
  ASSUME NEW m \in Muxes, NEW R \in SUBSET Clients
  PROVE  LET n == WithRequests(m, R)
         IN  /\ n \in Muxes /\ n.exists = m.exists /\ n.wait = m.wait
             /\ n.cached = m.cached /\ n.is_completed = m.is_completed
             /\ n.header = m.header /\ n.body = m.body /\ n.requests = R
BY DEF Muxes, WithRequests

LEMMA ChainFrame ==
  ASSUME ChainInv, happened \subseteq happened', fetch' = fetch,
         segments' = segments, playlist'.exists = playlist.exists,
         \A id \in Ids : /\ mux'[id].exists = mux[id].exists
                         /\ ~mux[id].exists => mux'[id] = mux[id],
         \A id \in InnerIds : mux'[id] = mux[id]
  PROVE  ChainInv'
BY Exceptional DEF ChainInv, UnderWay

LEMMA ChannelFrame ==
  ASSUME ChannelInv, happened \subseteq happened',
         fetch'["channel"] = fetch["channel"],
         playlist'.exists = playlist.exists,
         mux'["channel"].exists = mux["channel"].exists,
         mux'["channel"].wait = mux["channel"].wait,
         mux'["channel"].cached = mux["channel"].cached,
         mux'["channel"].is_completed = mux["channel"].is_completed,
         mux'["channel"].header = mux["channel"].header,
         mux'["channel"].body = mux["channel"].body,
         \A c \in mux'["channel"].requests :
           /\ c \in mux["channel"].requests
           /\ req'[c].told = req[c].told
           /\ mux["channel"].is_completed \/ req'[c] = req[c]
  PROVE  ChannelInv'
BY Exceptional DEF ChannelInv, UnderWay

LEMMA ListFrame ==
  ASSUME ListInv, happened \subseteq happened',
         fetch'["list"] = fetch["list"],
         playlist'.exists = playlist.exists,
         playlist'.tracks = playlist.tracks,
         playlist.remaining > 0 => playlist'.remaining > 0,
         mux'["list"].exists = mux["list"].exists,
         mux'["list"].wait = mux["list"].wait,
         mux'["list"].cached = mux["list"].cached,
         mux'["list"].is_completed = mux["list"].is_completed,
         ~mux["list"].cached =>
           /\ mux'["list"].requests = mux["list"].requests
           /\ \A c \in mux["list"].requests : req'[c] = req[c]
  PROVE  ListInv'
BY Exceptional DEF ListInv, UnderWay

LEMMA RequestFrame ==
  ASSUME NEW c \in Clients, RequestInv(c), happened \subseteq happened',
         req'[c] = req[c],
         \A id \in Ids :
           /\ c \in mux'[id].requests <=> c \in mux[id].requests
           /\ c \in mux[id].requests =>
                (mux'[id].is_completed => mux[id].is_completed),
         req[c].id \in Ids
  PROVE  RequestInv(c)'
BY Exceptional DEF RequestInv

-----------------------------------------------------------------------------
(* The whole invariant. *)

(* As long as the process runs there is no fault to explain. *)
LEMMA Runs ==
  ASSUME TypeInv', StampsEnd(playlist)', ChannelLength', fault' = "none",
         Running'
  PROVE  IInv'
BY DEF IInv, FaultNeedsCause, TerminateNeedsCause, UndefinedNeedsCause

LEMMA Dies ==
  ASSUME TypeInv', StampsEnd(playlist)', ChannelLength', fault' # "none",
         fault' = "terminate" => Outlived' \/ "trackless" \in happened',
         fault' = "undefined" => Outlived' \/ "foreign" \in happened'
  PROVE  IInv'
BY DEF IInv, FaultNeedsCause, TerminateNeedsCause, UndefinedNeedsCause,
       Outlived, Direct

LEMMA CrashStep ==
  ASSUME IInv, NEW how \in {"terminate", "undefined"}, Crash(how),
         how = "terminate" => Outlived \/ "trackless" \in happened,
         how = "undefined" => Outlived \/ "foreign" \in happened
  PROVE  IInv'
<1>1. /\ mux' = mux /\ playlist' = playlist /\ segments' = segments
      /\ fetch' = fetch /\ req' = req /\ now' = now /\ origin' = origin
      /\ happened' = happened /\ unasked' = unasked /\ fault' = how
  BY DEF Crash
<1>2. TypeInv'
  BY <1>1 DEF IInv, TypeInv
<1>3. StampsEnd(playlist)' /\ ChannelLength'
  BY <1>1 DEF IInv, StampsEnd, ChannelLength
<1> QED
  BY <1>1, <1>2, <1>3, Dies DEF Outlived, Direct

(* A fetch goes on, and nothing else happens. *)
LEMMA FetchGoesOn ==
  ASSUME IInv, fault = "none", NEW id \in Ids,
         NEW s \in FetchStates \ {"none"},
         fetch[id] \notin {"none", "dropped"},
         fetch' = [fetch EXCEPT ![id] = s],
         s \in {"body", "whole"} => fetch[id] = "body",
         s = "dropped" => "failed" \in happened',
         happened \subseteq happened', happened' \subseteq Exceptions,
         UNCHANGED <<mux, playlist, segments, req, now, origin, fault,
                     unasked>>
  PROVE  IInv'
<1>1. TypeInv' /\ fault' = "none"
  BY DEF IInv, TypeInv
<1>2. StampsEnd(playlist)' /\ ChannelLength'
  BY DEF IInv, StampsEnd, ChannelLength
<1>3. /\ Running /\ fetch \in [Ids -> FetchStates]
      /\ \A i \in Ids : /\ (fetch'[i] = "none") <=> (fetch[i] = "none")
                        /\ NeverFailed' => (UnderWay(i)' <=> UnderWay(i))
                        /\ fetch'[i] \in {"body", "whole"} =>
                             fetch[i] \in {"body", "whole"}
  BY DEF IInv, TypeInv, UnderWay, NeverFailed
<1>4. /\ NeverFailed' => NeverFailed
      /\ Direct => Direct'
      /\ Outlived => Outlived'
  BY Exceptional
<1>5. ChainInv'
  <2>1. InnerIds \subseteq Ids
    BY DEF Ids
  <2> QED
    BY <1>3, <1>4, <2>1 DEF Running, ChainInv
<1>6. ChannelInv' /\ ListInv'
  <2>1. {"channel", "list"} \subseteq Ids
    BY DEF Ids, ClientIds
  <2> QED
    BY <1>3, <1>4, <2>1 DEF Running, ChannelInv, ListInv
<1>7. \A c \in Clients : RequestInv(c)'
  BY <1>3, <1>4 DEF Running, RequestInv
<1>8. PlaylistInv'
  BY <1>3 DEF Running, PlaylistInv
<1> QED
  BY <1>1, <1>2, <1>5, <1>6, <1>7, <1>8, Runs DEF Running

LEMMA TimerFiresStep ==
  ASSUME IInv, fault = "none", NEW id \in Ids, TimerFires(id)
  PROVE  IInv'
BY FetchGoesOn DEF TimerFires, FetchStates, IInv, TypeInv

LEMMA FetchDroppedStep ==
  ASSUME IInv, fault = "none", NEW id \in Ids, FetchDropped(id)
  PROVE  IInv'
<1>1. happened' \subseteq Exceptions /\ "failed" \in happened'
  BY DEF FetchDropped, IInv, TypeInv, Exceptions
<1> QED
  BY <1>1, FetchGoesOn DEF FetchDropped, FetchStates

LEMMA BodyEndsStep ==
  ASSUME IInv, fault = "none", NEW id \in Ids, BodyEnds(id)
  PROVE  IInv'
<1>1. fetch[id] = "body" /\ mux[id].exists
  BY DEF BodyEnds, IInv, Running, ChainInv
<1>2. /\ fetch' = [fetch EXCEPT ![id] = "whole"]
      /\ UNCHANGED <<mux, playlist, segments, req, now, origin, fault,
                     happened, unasked>>
  BY <1>1 DEF BodyEnds
<1> QED
  BY <1>1, <1>2, FetchGoesOn DEF FetchStates, IInv, TypeInv

LEMMA TickStep ==
  ASSUME IInv, fault = "none", Tick
  PROVE  IInv'
<1>1. /\ now < MaxTime /\ now' = now + 1
      /\ mux' = mux /\ playlist' = playlist /\ segments' = segments
      /\ fetch' = fetch /\ req' = req /\ origin' = origin /\ fault' = fault
      /\ happened' = happened /\ unasked' = unasked
  BY DEF Tick
<1>2. TypeInv'
  BY <1>1, BoundAssumption DEF IInv, TypeInv
<1>3. StampsEnd(playlist)' /\ ChannelLength'
  BY <1>1 DEF IInv, StampsEnd, ChannelLength
<1>4. Running'
  BY <1>1 DEF IInv, Running, ChainInv, ChannelInv, ListInv, RequestInv,
       PlaylistInv, NeverFailed, UnderWay, Direct, Outlived
<1> QED
  BY <1>1, <1>2, <1>3, <1>4, Runs

LEMMA Unchanged ==
  ASSUME IInv, UNCHANGED vars
  PROVE  IInv'
<1>1. /\ now' = now /\ mux' = mux /\ playlist' = playlist
      /\ segments' = segments /\ fetch' = fetch /\ req' = req
      /\ origin' = origin /\ fault' = fault /\ happened' = happened
      /\ unasked' = unasked
  BY DEF vars
<1>2. TypeInv'
  BY <1>1 DEF IInv, TypeInv
<1>3. StampsEnd(playlist)' /\ ChannelLength' /\ FaultNeedsCause'
  BY <1>1 DEF IInv, StampsEnd, ChannelLength, FaultNeedsCause,
       TerminateNeedsCause, UndefinedNeedsCause
<1>4. Running => Running'
  BY <1>1 DEF Running, ChainInv, ChannelInv, ListInv, RequestInv,
       PlaylistInv, NeverFailed, UnderWay, Direct, Outlived
<1> QED
  BY <1>1, <1>2, <1>3, <1>4 DEF IInv

-----------------------------------------------------------------------------
(* Steps of clients. *)

(* Who is registered, and where. *)
LEMMA RegisteredRequests ==
  ASSUME IInv, fault = "none"
  PROVE  /\ Running /\ TypeInv
         /\ \A id \in Ids :
              mux[id] \in Muxes /\ mux[id].requests \subseteq Clients
         /\ \A c \in Clients :
              /\ RequestInv(c) /\ req[c] \in Requests /\ req[c].id \in Ids
              /\ req[c].state = "none" =>
                   \A id \in Ids : c \notin mux[id].requests
         /\ \A id \in Ids : \A c \in mux[id].requests : Registered(c, id)
<1>1. Running /\ TypeInv
  BY DEF IInv
<1>2. /\ \A id \in Ids : mux[id] \in Muxes
      /\ \A c \in Clients : req[c] \in Requests
  BY <1>1 DEF TypeInv
<1>3. /\ \A id \in Ids : mux[id].requests \subseteq Clients
      /\ \A c \in Clients : req[c].id \in Ids
  BY <1>2 DEF Muxes, Requests, Ids
<1>4. \A c \in Clients :
        /\ RequestInv(c)
        /\ req[c].state = "none" => \A id \in Ids : c \notin mux[id].requests
  BY <1>1 DEF Running, RequestInv
<1>5. \A id \in Ids : \A c \in mux[id].requests : Registered(c, id)
  BY <1>3, <1>4 DEF RequestInv, Registered
<1> QED
  BY <1>1, <1>2, <1>3, <1>4, <1>5

LEMMA OpenChannelStep ==
  ASSUME IInv, fault = "none", NEW c \in Clients, OpenChannel(c)
  PROVE  IInv'
<1> DEFINE m == [NewMux EXCEPT !.wait = TRUE, !.requests = {c}]
           r == StreamRequest("channel")
<1>1. /\ req[c].state = "none" /\ ~mux["channel"].exists
      /\ req' = [req EXCEPT ![c] = r]
      /\ mux' = [mux EXCEPT !["channel"] = m]
      /\ fetch' = [fetch EXCEPT !["channel"] = "fetching"]
      /\ playlist' = playlist /\ segments' = segments /\ now' = now
      /\ origin' = origin /\ fault' = fault /\ happened' = happened
      /\ unasked' = unasked
  BY DEF OpenChannel
<1>2. /\ m \in Muxes /\ m.exists /\ m.wait /\ ~m.cached /\ ~m.is_completed
      /\ m.body = Nothing /\ Len(m.body) = 0 /\ m.requests = {c}
  BY MuxTypes DEF Muxes
<1>3. /\ r \in Requests /\ r.state = "live" /\ r.id = "channel"
      /\ r.event_type = "none" /\ ~r.is_processing /\ r.flight = 0
      /\ r.sent = Nothing
  BY NoRequestType, StreamFields DEF ClientIds
<1>4. /\ "channel" \in Ids /\ "list" \in Ids /\ InnerIds \subseteq Ids
      /\ "channel" \notin InnerIds
  BY DEF Ids, ClientIds, InnerIds
<1> HIDE DEF m, r
<1>5. Running /\ TypeInv
  BY RegisteredRequests
<1>6. /\ mux' \in [Ids -> Muxes] /\ mux'["channel"] = m
      /\ \A id \in Ids : id # "channel" => mux'[id] = mux[id]
      /\ req' \in [Clients -> Requests] /\ req'[c] = r
      /\ \A d \in Clients : d # c => req'[d] = req[d]
      /\ fetch' \in [Ids -> FetchStates] /\ fetch'["channel"] = "fetching"
      /\ \A id \in Ids : id # "channel" => fetch'[id] = fetch[id]
  BY <1>1, <1>2, <1>3, <1>4, <1>5 DEF TypeInv, FetchStates
<1>7. TypeInv'
  <2>1. \A id \in Ids : Len(mux'[id].body) <= TracksPerPlaylist
    BY <1>2, <1>5, <1>6, SizeAssumption DEF TypeInv
  <2> QED
    BY <1>1, <1>5, <1>6, <2>1 DEF TypeInv
<1>8. StampsEnd(playlist)' /\ ChannelLength'
  BY <1>1, <1>3, <1>6 DEF IInv, StampsEnd, ChannelLength
<1>9. \A id \in Ids : c \notin mux[id].requests
  BY <1>1, RegisteredRequests
<1>10. mux["channel"].requests = {} /\ ~playlist.exists
  BY <1>1, <1>4, <1>5, MuxTypes DEF Running, ChainInv, ChannelInv
<1>11. ChainInv'
  BY <1>1, <1>2, <1>4, <1>5, <1>6
     DEF Running, ChainInv, NeverFailed, UnderWay
<1>12. ChannelInv'
  BY <1>1, <1>2, <1>6, <1>10, <1>4 DEF ChannelInv, UnderWay, r
<1>13. ListInv'
  <2>1. \A d \in mux["list"].requests : req'[d] = req[d]
    BY <1>4, <1>6, <1>9, RegisteredRequests
  <2>2. mux'["list"] = mux["list"] /\ fetch'["list"] = fetch["list"] /\ ListInv
    BY <1>4, <1>5, <1>6 DEF Running
  <2> QED
    BY <1>1, <2>1, <2>2, ListFrame
<1>14. ASSUME NEW d \in Clients PROVE RequestInv(d)'
  <2>1. CASE d = c
    <3>1. \A id \in Ids : c \in mux'[id].requests <=> id = "channel"
      BY <1>2, <1>6, <1>9
    <3> QED
      BY <1>2, <1>3, <1>6, <2>1, <3>1 DEF RequestInv
  <2>2. CASE d # c
    <3>1. \A id \in Ids :
            /\ d \in mux'[id].requests <=> d \in mux[id].requests
            /\ d \in mux[id].requests =>
                 (mux'[id].is_completed => mux[id].is_completed)
      BY <1>2, <1>6, <1>10, <2>2
    <3> QED
      BY <1>1, <1>6, <2>2, <3>1, RegisteredRequests, RequestFrame
  <2> QED
    BY <2>1, <2>2
<1>15. PlaylistInv'
  BY <1>1, <1>5 DEF Running, PlaylistInv
<1> QED
  BY <1>1, <1>7, <1>8, <1>11, <1>12, <1>13, <1>14, <1>15, Runs DEF Running

LEMMA JoinedFields ==
  ASSUME NEW id \in ClientIds, mux[id] \in Muxes,
         mux[id].is_completed => mux[id].cached
  PROVE  LET j == Joined(id)
             m == mux[id]
         IN  /\ j \in Requests /\ j.state = "live" /\ j.id = id
             /\ j.event_type # "SERVER_CLOSE" /\ j.sent = Nothing
             /\ j.flight = IF j.is_processing THEN 1 ELSE 0
             /\ m.is_completed => j.is_processing /\ j.told = m.header
             /\ ~m.is_completed /\ (m.wait \/ ~m.cached) =>
                  j = StreamRequest(id)
<1> DEFINE j == Joined(id)
           r == StreamRequest(id)
<1>1. /\ r \in Requests /\ r.state = "live" /\ r.id = id
      /\ r.event_type = "none" /\ ~r.is_processing /\ r.flight = 0
      /\ r.sent = Nothing
  BY NoRequestType, StreamFields
<1>2. /\ mux[id].cached => j = AddWriteHeaders(r, mux[id])
      /\ ~mux[id].cached => j = r
  BY DEF Joined
<1> HIDE DEF j, r
<1>3. CASE mux[id].cached
  BY <1>1, <1>2, <1>3, ServedTypes, WriteHeaders DEF j, r
<1>4. CASE ~mux[id].cached
  BY <1>1, <1>2, <1>4 DEF j, r
<1> QED
  BY <1>3, <1>4

LEMMA JoinChannelStep ==
  ASSUME IInv, fault = "none", NEW c \in Clients, JoinChannel(c)
  PROVE  IInv'
<1> DEFINE j == Joined("channel")
           R == mux["channel"].requests \cup {c}
           m == WithRequests(mux["channel"], R)
<1>1. /\ req[c].state = "none" /\ mux["channel"].exists
      /\ req' = [req EXCEPT ![c] = j]
      /\ mux' = [mux EXCEPT !["channel"] = m]
      /\ fetch' = fetch /\ playlist' = playlist /\ segments' = segments
      /\ now' = now /\ origin' = origin /\ fault' = fault
      /\ happened' = happened /\ unasked' = unasked
  BY DEF JoinChannel, WithRequests
<1>2. /\ "channel" \in Ids /\ "list" \in Ids /\ InnerIds \subseteq Ids
      /\ "channel" \notin InnerIds /\ "channel" \in ClientIds
  BY DEF Ids, ClientIds, InnerIds
<1>3. /\ Running /\ TypeInv /\ mux["channel"] \in Muxes /\ R \subseteq Clients
      /\ \A id \in Ids : c \notin mux[id].requests
  BY <1>1, <1>2, RegisteredRequests
<1>4. /\ mux["channel"].wait
      /\ mux["channel"].is_completed => mux["channel"].cached
  BY <1>1, <1>3 DEF Running, ChannelInv
<1>5. /\ j \in Requests /\ j.state = "live" /\ j.id = "channel"
      /\ j.event_type # "SERVER_CLOSE" /\ j.sent = Nothing
      /\ j.flight = IF j.is_processing THEN 1 ELSE 0
      /\ mux["channel"].is_completed =>
           j.is_processing /\ j.told = mux["channel"].header
      /\ ~mux["channel"].is_completed => j = StreamRequest("channel")
  BY <1>2, <1>3, <1>4, JoinedFields
<1>6. /\ mux' \in [Ids -> Muxes]
      /\ \A id \in Ids : id # "channel" => mux'[id] = mux[id]
      /\ mux'["channel"].exists = mux["channel"].exists
      /\ mux'["channel"].wait = mux["channel"].wait
      /\ mux'["channel"].cached = mux["channel"].cached
      /\ mux'["channel"].is_completed = mux["channel"].is_completed
      /\ mux'["channel"].header = mux["channel"].header
      /\ mux'["channel"].body = mux["channel"].body
      /\ mux'["channel"].requests = R
  <2>1. /\ m \in Muxes /\ m.exists = mux["channel"].exists
        /\ m.wait = mux["channel"].wait /\ m.cached = mux["channel"].cached
        /\ m.is_completed = mux["channel"].is_completed
        /\ m.header = mux["channel"].header
        /\ m.body = mux["channel"].body /\ m.requests = R
    BY <1>3, OtherRequests
  <2>2. mux \in [Ids -> Muxes]
    BY <1>3 DEF TypeInv
  <2> HIDE DEF R, j, m
  <2> QED
    BY <1>1, <1>2, <2>1, <2>2
<1> HIDE DEF j
<1>7. /\ req' \in [Clients -> Requests] /\ req'[c] = j
      /\ \A d \in Clients : d # c => req'[d] = req[d]
  BY <1>1, <1>3, <1>5 DEF TypeInv
<1>8. TypeInv'
  <2>1. \A id \in Ids : Len(mux'[id].body) <= TracksPerPlaylist
    BY <1>3, <1>6 DEF TypeInv
  <2> QED
    BY <1>1, <1>3, <1>6, <1>7, <2>1 DEF TypeInv
<1>9. StampsEnd(playlist)' /\ ChannelLength'
  BY <1>1, <1>5, <1>7 DEF IInv, StampsEnd, ChannelLength
<1>10. ChainInv'
  <2>1. \A id \in InnerIds : mux'[id] = mux[id]
    BY <1>2, <1>6
  <2>2. \A id \in Ids : /\ mux'[id].exists = mux[id].exists
                        /\ ~mux[id].exists => mux'[id] = mux[id]
    BY <1>1, <1>6
  <2> QED
    BY <1>1, <1>3, <2>1, <2>2, ChainFrame DEF Running
<1>11. ChannelInv'
  BY <1>1, <1>3, <1>5, <1>6, <1>7
     DEF Running, ChannelInv, NeverFailed, UnderWay
<1>12. ListInv'
  <2>1. \A d \in mux["list"].requests : req'[d] = req[d]
    BY <1>2, <1>3, <1>7, RegisteredRequests
  <2>2. mux'["list"] = mux["list"] /\ ListInv
    BY <1>2, <1>3, <1>6 DEF Running
  <2> QED
    BY <1>1, <2>1, <2>2, ListFrame
<1>13. ASSUME NEW d \in Clients PROVE RequestInv(d)'
  <2>1. CASE d = c
    <3>1. \A id \in Ids : c \in mux'[id].requests <=> id = "channel"
      BY <1>2, <1>3, <1>6
    <3> QED
      BY <1>2, <1>5, <1>6, <1>7, <2>1, <3>1 DEF RequestInv
  <2>2. CASE d # c
    <3>1. \A id \in Ids :
            /\ d \in mux'[id].requests <=> d \in mux[id].requests
            /\ d \in mux[id].requests =>
                 (mux'[id].is_completed => mux[id].is_completed)
      BY <1>2, <1>6, <2>2
    <3> QED
      BY <1>1, <1>7, <2>2, <3>1, RegisteredRequests, RequestFrame
  <2> QED
    BY <2>1, <2>2
<1>14. PlaylistInv'
  BY <1>1, <1>3 DEF Running, PlaylistInv
<1> QED
  BY <1>1, <1>8, <1>9, <1>10, <1>11, <1>12, <1>13, <1>14, Runs DEF Running

LEMMA OpenListStep ==
  ASSUME IInv, fault = "none", NEW c \in Clients, OpenList(c)
  PROVE  IInv'
<1> DEFINE m == [NewMux EXCEPT !.requests = {c}]
           r == StreamRequest("list")
<1>1. /\ req[c].state = "none" /\ ~mux["list"].exists
      /\ req' = [req EXCEPT ![c] = r]
      /\ mux' = [mux EXCEPT !["list"] = m]
      /\ fetch' = [fetch EXCEPT !["list"] = "fetching"]
      /\ happened' = happened \cup {"direct"}
      /\ playlist' = playlist /\ segments' = segments /\ now' = now
      /\ origin' = origin /\ fault' = fault /\ unasked' = unasked
  BY DEF OpenList
<1>2. /\ m \in Muxes /\ m.exists /\ ~m.wait /\ ~m.cached /\ ~m.is_completed
      /\ m.body = Nothing /\ Len(m.body) = 0 /\ m.requests = {c}
  BY MuxTypes DEF Muxes
<1>3. /\ r \in Requests /\ r.state = "live" /\ r.id = "list"
      /\ r.event_type = "none" /\ ~r.is_processing /\ r.flight = 0
      /\ r.sent = Nothing
  BY NoRequestType, StreamFields DEF ClientIds
<1>4. /\ "channel" \in Ids /\ "list" \in Ids /\ InnerIds \subseteq Ids
      /\ "list" \notin InnerIds
  BY DEF Ids, ClientIds, InnerIds
<1> HIDE DEF m, r
<1>5. Running /\ TypeInv
  BY RegisteredRequests
<1>6. /\ mux' \in [Ids -> Muxes] /\ mux'["list"] = m
      /\ \A id \in Ids : id # "list" => mux'[id] = mux[id]
      /\ req' \in [Clients -> Requests] /\ req'[c] = r
      /\ \A d \in Clients : d # c => req'[d] = req[d]
      /\ fetch' \in [Ids -> FetchStates] /\ fetch'["list"] = "fetching"
      /\ \A id \in Ids : id # "list" => fetch'[id] = fetch[id]
  BY <1>1, <1>2, <1>3, <1>4, <1>5 DEF TypeInv, FetchStates
<1>7. TypeInv'
  <2>1. \A id \in Ids : Len(mux'[id].body) <= TracksPerPlaylist
    BY <1>2, <1>5, <1>6, SizeAssumption DEF TypeInv
  <2>2. happened' \subseteq Exceptions
    BY <1>1, <1>5 DEF TypeInv, Exceptions
  <2> QED
    BY <1>1, <1>5, <1>6, <2>1, <2>2 DEF TypeInv
<1>8. StampsEnd(playlist)' /\ ChannelLength'
  BY <1>1, <1>3, <1>6 DEF IInv, StampsEnd, ChannelLength
<1>9. \A id \in Ids : c \notin mux[id].requests
  BY <1>1, RegisteredRequests
<1>10. mux["list"].requests = {} /\ Direct' /\ Outlived'
  BY <1>1, <1>4, <1>5, MuxTypes DEF Running, ChainInv, Direct, Outlived
<1>11. NeverFailed' => NeverFailed
  BY <1>1, Exceptional
<1>12. ChainInv'
  <2>1. \A id \in InnerIds : mux'[id] = mux[id] /\ fetch'[id] = fetch[id]
    BY <1>4, <1>6
  <2>2. \A id \in Ids : /\ ~mux'[id].exists => mux'[id] = NoMux
                        /\ fetch'[id] # "none" => mux'[id].exists
    BY <1>2, <1>4, <1>5, <1>6 DEF Running, ChainInv
  <2> QED
    BY <1>1, <1>5, <1>11, <2>1, <2>2 DEF Running, ChainInv, UnderWay
<1>13. ChannelInv'
  <2>1. \A d \in mux["channel"].requests : req'[d] = req[d]
    BY <1>4, <1>6, <1>9, RegisteredRequests
  <2>2. /\ mux'["channel"] = mux["channel"]
        /\ fetch'["channel"] = fetch["channel"] /\ ChannelInv
    BY <1>4, <1>5, <1>6 DEF Running
  <2>3. happened \subseteq happened' /\ playlist'.exists = playlist.exists
    BY <1>1
  <2> QED
    BY <2>1, <2>2, <2>3, ChannelFrame
<1>14. ListInv'
  BY <1>1, <1>2, <1>4, <1>6, <1>10 DEF ListInv, UnderWay, r
<1>15. ASSUME NEW d \in Clients PROVE RequestInv(d)'
  <2>1. CASE d = c
    <3>1. \A id \in Ids : c \in mux'[id].requests <=> id = "list"
      BY <1>2, <1>6, <1>9
    <3> QED
      BY <1>2, <1>3, <1>6, <2>1, <3>1 DEF RequestInv
  <2>2. CASE d # c
    <3>1. \A id \in Ids :
            /\ d \in mux'[id].requests <=> d \in mux[id].requests
            /\ d \in mux[id].requests =>
                 (mux'[id].is_completed => mux[id].is_completed)
      BY <1>2, <1>6, <1>10, <2>2
    <3> QED
      BY <1>1, <1>6, <2>2, <3>1, RegisteredRequests, RequestFrame
  <2> QED
    BY <2>1, <2>2
<1>16. PlaylistInv'
  BY <1>1, <1>5 DEF Running, PlaylistInv
<1> QED
  BY <1>1, <1>7, <1>8, <1>12, <1>13, <1>14, <1>15, <1>16, Runs DEF Running

(* A request that has been told of a body is given something else to do,   *)
(* or leaves the Mux.                                                      *)
LEMMA RequestMoves ==
  ASSUME IInv, fault = "none", NEW c \in Clients, NEW i \in ClientIds,
         c \in mux[i].requests, req[c].event_type # "none",
         NEW a \in Requests, NEW R \in SUBSET Clients,
         R = mux[i].requests \/ R = mux[i].requests \ {c},
         req' = [req EXCEPT ![c] = a],
         mux' = [mux EXCEPT ![i] = WithRequests(mux[i], R)],
         UNCHANGED <<playlist, segments, fetch, now, origin, fault, happened,
                     unasked>>,
         a.id = i, a.told = req[c].told,
         \/ a.sent = req[c].sent
         \/ a.sent = mux[i].body /\ mux[i].body # Nothing,
         c \in R => /\ a.state = "live" /\ a.event_type # "SERVER_CLOSE"
                    /\ a.flight = IF a.is_processing THEN 1 ELSE 0
                    /\ a.is_processing \/ ~mux[i].is_completed,
         c \notin R =>
           \/ /\ a.state = "live" /\ a.event_type = "SERVER_CLOSE"
              /\ a.flight = 1
           \/ a.state = "freed" /\ a.flight = 0
  PROVE  IInv'
<1> DEFINE m == WithRequests(mux[i], R)
<1>1. /\ playlist' = playlist /\ segments' = segments /\ fetch' = fetch
      /\ now' = now /\ origin' = origin /\ fault' = fault
      /\ happened' = happened /\ unasked' = unasked
      /\ mux' = [mux EXCEPT ![i] = m]
  OBVIOUS
<1>2. /\ i \in Ids /\ {"channel", "list"} \subseteq Ids
      /\ i \in {"channel", "list"}
      /\ InnerIds \subseteq Ids /\ i \notin InnerIds
  BY DEF Ids, ClientIds, InnerIds
<1>3. /\ Running /\ TypeInv /\ mux[i] \in Muxes
      /\ RequestInv(c) /\ Registered(c, i)
      /\ \A id \in Ids : id # i => c \notin mux[id].requests
  <2>1. /\ Running /\ TypeInv /\ mux[i] \in Muxes
        /\ RequestInv(c) /\ Registered(c, i)
    BY <1>2, RegisteredRequests
  <2> QED
    BY <2>1, RegisteredRequests DEF Registered
<1>4. /\ m \in Muxes /\ m.exists = mux[i].exists /\ m.wait = mux[i].wait
      /\ m.cached = mux[i].cached /\ m.is_completed = mux[i].is_completed
      /\ m.header = mux[i].header /\ m.body = mux[i].body /\ m.requests = R
  BY <1>3, OtherRequests
<1> HIDE DEF m
<1>5. /\ mux' \in [Ids -> Muxes] /\ mux'[i] = m
      /\ \A id \in Ids : id # i => mux'[id] = mux[id]
      /\ req' \in [Clients -> Requests] /\ req'[c] = a
      /\ \A d \in Clients : d # c => req'[d] = req[d]
  BY <1>1, <1>2, <1>3, <1>4 DEF TypeInv
<1>6. mux[i].exists
  BY <1>2, <1>3, MuxTypes DEF Running, ChainInv
<1>7. /\ i = "channel" => mux[i].is_completed /\ req[c].told = mux[i].header
      /\ i = "list" => mux[i].cached
  <2>1. \A id \in ClientIds : req[c] # StreamRequest(id)
    BY StreamFields
  <2> QED
    BY <1>3, <1>6, <2>1 DEF Running, ChannelInv, ListInv, ClientIds
<1>8. TypeInv'
  <2>1. \A id \in Ids : Len(mux'[id].body) <= TracksPerPlaylist
    BY <1>2, <1>3, <1>4, <1>5 DEF TypeInv
  <2> QED
    BY <1>1, <1>3, <1>5, <2>1 DEF TypeInv
<1>9. StampsEnd(playlist)'
  BY <1>1 DEF IInv, StampsEnd
<1>10. ChannelLength'
  <2>1. ChannelLength
    BY DEF IInv
  <2>2. i = "channel" /\ a.sent # Nothing => a.told = a.sent
    <3>1. CASE a.sent = req[c].sent
      BY <1>3, <2>1, <3>1 DEF ChannelLength, Registered
    <3>2. CASE a.sent = mux[i].body /\ mux[i].body # Nothing
      BY <1>3, <1>7, <3>2 DEF Running, ChannelInv
    <3> QED
      BY <3>1, <3>2
  <2> QED
    BY <1>5, <2>1, <2>2 DEF ChannelLength
<1>11. ChainInv'
  <2>1. \A id \in InnerIds : mux'[id] = mux[id]
    BY <1>2, <1>5
  <2>2. \A id \in Ids : /\ mux'[id].exists = mux[id].exists
                        /\ ~mux[id].exists => mux'[id] = mux[id]
    BY <1>4, <1>5, <1>6
  <2> QED
    BY <1>1, <1>3, <2>1, <2>2, ChainFrame DEF Running
<1>12. ChannelInv'
  <2>1. \A d \in mux'["channel"].requests :
          /\ d \in mux["channel"].requests
          /\ req'[d].told = req[d].told
          /\ mux["channel"].is_completed \/ req'[d] = req[d]
    <3>1. mux["channel"].requests \subseteq Clients
      BY <1>2, RegisteredRequests
    <3>2. CASE i = "channel"
      BY <1>4, <1>5, <1>7, <3>1, <3>2
    <3>3. CASE i # "channel"
      BY <1>2, <1>3, <1>5, <3>1, <3>3
    <3> QED
      BY <3>2, <3>3
  <2>2. /\ mux'["channel"].exists = mux["channel"].exists
        /\ mux'["channel"].wait = mux["channel"].wait
        /\ mux'["channel"].cached = mux["channel"].cached
        /\ mux'["channel"].is_completed = mux["channel"].is_completed
        /\ mux'["channel"].header = mux["channel"].header
        /\ mux'["channel"].body = mux["channel"].body
    BY <1>2, <1>4, <1>5
  <2> QED
    BY <1>1, <1>3, <2>1, <2>2, ChannelFrame DEF Running
<1>13. ListInv'
  <2>1. ~mux["list"].cached =>
          /\ mux'["list"].requests = mux["list"].requests
          /\ \A d \in mux["list"].requests : req'[d] = req[d]
    <3>1. mux["list"].requests \subseteq Clients
      BY <1>2, RegisteredRequests
    <3>2. CASE i = "list"
      BY <1>7, <3>2
    <3>3. CASE i # "list"
      BY <1>2, <1>3, <1>5, <3>1, <3>3
    <3> QED
      BY <3>2, <3>3
  <2>2. /\ mux'["list"].exists = mux["list"].exists
        /\ mux'["list"].wait = mux["list"].wait
        /\ mux'["list"].cached = mux["list"].cached
        /\ mux'["list"].is_completed = mux["list"].is_completed
    BY <1>2, <1>4, <1>5
  <2> QED
    BY <1>1, <1>3, <2>1, <2>2, ListFrame DEF Running
<1>14. ASSUME NEW d \in Clients PROVE RequestInv(d)'
  <2>1. CASE d = c
    <3>1. \A id \in Ids : c \in mux'[id].requests <=> id = i /\ c \in R
      BY <1>2, <1>3, <1>4, <1>5
    <3>2. c \in R \/ c \notin R
      OBVIOUS
    <3>3. CASE c \in R
      BY <1>2, <1>4, <1>5, <2>1, <3>1, <3>3 DEF RequestInv
    <3>4. CASE c \notin R
      BY <1>2, <1>4, <1>5, <2>1, <3>1, <3>4 DEF RequestInv
    <3> QED
      BY <3>3, <3>4
  <2>2. CASE d # c
    <3>1. \A id \in Ids :
            /\ d \in mux'[id].requests <=> d \in mux[id].requests
            /\ d \in mux[id].requests =>
                 (mux'[id].is_completed => mux[id].is_completed)
      BY <1>2, <1>4, <1>5, <2>2
    <3> QED
      BY <1>1, <1>5, <2>2, <3>1, RegisteredRequests, RequestFrame
  <2> QED
    BY <2>1, <2>2
<1>15. PlaylistInv'
  BY <1>1, <1>3 DEF Running, PlaylistInv
<1> QED
  BY <1>1, <1>8, <1>9, <1>10, <1>11, <1>12, <1>13, <1>14, <1>15, Runs
     DEF Running

(* What completes for a client that is not being closed belongs to a       *)
(* registered request, whose Mux there is.                                 *)
LEMMA Completing ==
  ASSUME IInv, fault = "none", NEW c \in Clients,
         NEW type \in {"WRITE_HEADER", "WRITE_PARTIAL"}, Completes(c, type)
  PROVE  /\ req[c].id \in ClientIds /\ c \in mux[req[c].id].requests
         /\ mux[req[c].id].exists /\ mux[req[c].id] \in Muxes
         /\ mux[req[c].id].requests \subseteq Clients
         /\ req[c] \in Requests /\ req[c].event_type = type
         /\ req[c].state = "live" /\ req[c].flight = 1
         /\ Completed(req[c]) \in Requests
<1>1. /\ req[c].state = "live" /\ req[c].event_type = type
      /\ req[c].flight > 0
  BY DEF Completes
<1>2. /\ req[c] \in Requests /\ RequestInv(c) /\ req[c].id \in Ids
      /\ mux[req[c].id] \in Muxes /\ mux[req[c].id].requests \subseteq Clients
      /\ Running
  BY RegisteredRequests
<1>3. req[c].id \in ClientIds
  BY <1>2 DEF Requests
<1>4. c \in mux[req[c].id].requests /\ req[c].flight = 1
  BY <1>1, <1>2 DEF RequestInv
<1>5. mux[req[c].id].exists
  BY <1>2, <1>4, MuxTypes DEF Running, ChainInv
<1>6. Completed(req[c]) \in Requests
  BY <1>1, <1>2, RequestTypes
<1> QED
  BY <1>1, <1>2, <1>3, <1>4, <1>5, <1>6

LEMMA ServeStep ==
  ASSUME IInv, fault = "none", NEW c \in Clients,
         NEW type \in {"WRITE_HEADER", "WRITE_PARTIAL"}, Completes(c, type),
         NEW r \in Requests, r.state = "live", ~r.is_processing,
         r.flight = 0, r.event_type = type, r.id = req[c].id,
         r.told = req[c].told, r.sent = req[c].sent, Serve(c, r)
  PROVE  IInv'
<1> DEFINE i == req[c].id
           a == AddWriteStreamRequest(r, mux[i])
           R == IF Ends(r, mux[i]) THEN mux[i].requests \ {c}
                                   ELSE mux[i].requests
<1>1. /\ i \in ClientIds /\ c \in mux[i].requests
      /\ mux[i] \in Muxes /\ mux[i].requests \subseteq Clients
      /\ req[c].event_type # "none"
  BY Completing
<1>2. /\ req' = [req EXCEPT ![c] = a]
      /\ mux' = [mux EXCEPT ![i] = WithRequests(mux[i], R)]
      /\ UNCHANGED <<playlist, segments, fetch, now, origin, fault, happened,
                     unasked>>
  BY DEF Serve, WithRequests
<1>3. /\ a \in Requests /\ a.state = "live" /\ a.id = i
      /\ a.told = req[c].told
      /\ a.sent = req[c].sent \/ (a.sent = mux[i].body /\ mux[i].body # Nothing)
      /\ Ends(r, mux[i]) => a.event_type = "SERVER_CLOSE" /\ a.flight = 1
      /\ ~Ends(r, mux[i]) =>
           /\ a.event_type # "SERVER_CLOSE"
           /\ a.flight = IF a.is_processing THEN 1 ELSE 0
           /\ a.is_processing \/ ~mux[i].is_completed
  BY <1>1, ServedTypes, WriteStream
<1>4. /\ R \in SUBSET Clients
      /\ R = mux[i].requests \/ R = mux[i].requests \ {c}
      /\ c \in R <=> ~Ends(r, mux[i])
  BY <1>1
<1> HIDE DEF a, R, i
<1> QED
  BY <1>1, <1>2, <1>3, <1>4, RequestMoves

LEMMA HeaderWrittenStep ==
  ASSUME IInv, fault = "none", NEW c \in Clients, HeaderWritten(c)
  PROVE  IInv'
<1> DEFINE d == Completed(req[c])
           r == [d EXCEPT !.pivot = 0]
<1>1. Completes(c, "WRITE_HEADER")
  BY DEF HeaderWritten
<1>2. /\ mux[req[c].id].exists /\ mux[req[c].id] \in Muxes
      /\ req[c] \in Requests /\ d \in Requests
      /\ req[c].state = "live" /\ req[c].flight = 1
      /\ req[c].event_type = "WRITE_HEADER"
  BY <1>1, Completing
<1>3. Serve(c, r)
  BY <1>2 DEF HeaderWritten
<1>4. /\ d.state = "live" /\ d.id = req[c].id /\ d.told = req[c].told
      /\ d.sent = req[c].sent /\ d.event_type = "WRITE_HEADER"
      /\ d.flight = 0 /\ ~d.is_processing
  BY <1>2, RequestFields
<1> HIDE DEF d
<1>5. /\ r \in Requests /\ r.state = "live" /\ r.id = req[c].id
      /\ r.told = req[c].told /\ r.sent = req[c].sent
      /\ r.event_type = "WRITE_HEADER" /\ r.flight = 0 /\ ~r.is_processing
  BY <1>2, <1>4 DEF Requests
<1> HIDE DEF r
<1> QED
  BY <1>1, <1>3, <1>5, ServeStep

LEMMA BlockWrittenStep ==
  ASSUME IInv, fault = "none", NEW c \in Clients, BlockWritten(c)
  PROVE  IInv'
<1> DEFINE r == Completed(req[c])
<1>1. Completes(c, "WRITE_PARTIAL")
  BY DEF BlockWritten
<1>2. /\ mux[req[c].id].exists /\ mux[req[c].id] \in Muxes
      /\ req[c] \in Requests /\ r \in Requests
      /\ req[c].state = "live" /\ req[c].flight = 1
      /\ req[c].event_type = "WRITE_PARTIAL"
  BY <1>1, Completing
<1>3. Serve(c, r)
  BY <1>2 DEF BlockWritten
<1>4. /\ r.state = "live" /\ r.id = req[c].id /\ r.told = req[c].told
      /\ r.sent = req[c].sent /\ r.event_type = "WRITE_PARTIAL"
      /\ r.flight = 0 /\ ~r.is_processing
  BY <1>2, RequestFields
<1> HIDE DEF r
<1> QED
  BY <1>1, <1>2, <1>3, <1>4, ServeStep

LEMMA BlockRefusedStep ==
  ASSUME IInv, fault = "none", NEW c \in Clients, BlockRefused(c)
  PROVE  IInv'
<1> DEFINE i == req[c].id
           d == Completed(req[c])
           a == Released(d)
           R == mux[i].requests \ {c}
<1>1. Completes(c, "WRITE_PARTIAL")
  BY DEF BlockRefused
<1>2. /\ i \in ClientIds /\ c \in mux[i].requests
      /\ mux[i] \in Muxes /\ mux[i].requests \subseteq Clients
      /\ req[c] \in Requests /\ d \in Requests
      /\ req[c].flight = 1 /\ req[c].event_type # "none"
  BY <1>1, Completing
<1>3. /\ req' = [req EXCEPT ![c] = a]
      /\ mux' = [mux EXCEPT ![i] = WithRequests(mux[i], R)]
      /\ UNCHANGED <<playlist, segments, fetch, now, origin, fault, happened,
                     unasked>>
  BY <1>2 DEF BlockRefused, WithRequests
<1>4. /\ d.id = i /\ d.told = req[c].told /\ d.sent = req[c].sent
      /\ d.flight = 0
  BY <1>2, RequestFields
<1> HIDE DEF d
<1>5. /\ a \in Requests /\ a.state = "freed" /\ a.id = i
      /\ a.told = req[c].told /\ a.sent = req[c].sent /\ a.flight = 0
  BY <1>2, <1>4, RequestTypes, RequestFields
<1>6. R \in SUBSET Clients /\ c \notin R
  BY <1>2
<1>7. R = mux[i].requests \ {c}
  OBVIOUS
<1> HIDE DEF a, R, i
<1> QED
  BY <1>2, <1>3, <1>5, <1>6, <1>7, RequestMoves

LEMMA HandleCloseStep ==
  ASSUME IInv, fault = "none", NEW c \in Clients, HandleClose(c)
  PROVE  IInv'
<1> DEFINE d == Completed(req[c])
           a == Released(d)
<1>1. /\ req[c].state = "live" /\ req[c].event_type = "SERVER_CLOSE"
      /\ req[c].flight > 0
      /\ req' = [req EXCEPT ![c] = a]
      /\ mux' = mux /\ playlist' = playlist /\ segments' = segments
      /\ fetch' = fetch /\ now' = now /\ origin' = origin /\ fault' = fault
      /\ happened' = happened /\ unasked' = unasked
  BY DEF HandleClose, Completes
<1>2. /\ Running /\ TypeInv /\ req[c] \in Requests /\ RequestInv(c)
      /\ \A id \in Ids : mux[id] \in Muxes /\ mux[id].requests \subseteq Clients
      /\ {"channel", "list"} \subseteq Ids
  BY RegisteredRequests DEF Ids, ClientIds
<1>3. /\ d \in Requests /\ d.told = req[c].told /\ d.sent = req[c].sent
      /\ d.id = req[c].id /\ d.flight = req[c].flight - 1
  BY <1>1, <1>2, RequestTypes, RequestFields
<1> HIDE DEF d
<1>4. /\ a \in Requests /\ a.state = "freed" /\ a.told = req[c].told
      /\ a.sent = req[c].sent /\ a.id = req[c].id
      /\ a.flight = req[c].flight - 1
  BY <1>2, <1>3, RequestTypes, RequestFields
<1> HIDE DEF a
<1>5. /\ req' \in [Clients -> Requests] /\ req'[c] = a
      /\ \A e \in Clients : e # c => req'[e] = req[e]
  BY <1>1, <1>2, <1>4 DEF TypeInv
<1>6. TypeInv'
  BY <1>1, <1>2, <1>5 DEF TypeInv
<1>7. StampsEnd(playlist)' /\ ChannelLength'
  BY <1>1, <1>4, <1>5 DEF IInv, StampsEnd, ChannelLength
<1>8. \A id \in Ids : c \notin mux[id].requests
  BY <1>1, <1>2 DEF RequestInv
<1>9. \A id \in Ids : \A e \in mux[id].requests : req'[e] = req[e]
  BY <1>2, <1>5, <1>8
<1>10. ChainInv'
  BY <1>1, <1>2 DEF Running, ChainInv, NeverFailed, UnderWay
<1>11. ChannelInv'
  BY <1>1, <1>2, <1>9 DEF Running, ChannelInv, NeverFailed, UnderWay
<1>12. ListInv'
  BY <1>1, <1>2, <1>9
     DEF Running, ListInv, NeverFailed, UnderWay, Direct, Outlived
<1>13. ASSUME NEW e \in Clients PROVE RequestInv(e)'
  <2>1. CASE e = c
    BY <1>1, <1>2, <1>4, <1>5, <1>8, <2>1
       DEF RequestInv, Requests, Direct, Outlived
  <2>2. CASE e # c
    BY <1>1, <1>5, <2>2, RegisteredRequests, RequestFrame
  <2> QED
    BY <2>1, <2>2
<1>14. PlaylistInv'
  BY <1>1, <1>2 DEF Running, PlaylistInv
<1> QED
  BY <1>1, <1>6, <1>7, <1>10, <1>11, <1>12, <1>13, <1>14, Runs DEF Running

LEMMA FreedCompletedStep ==
  ASSUME IInv, fault = "none", NEW c \in Clients, FreedCompleted(c)
  PROVE  IInv'
<1>1. Crash("undefined") /\ Outlived
  BY RegisteredRequests DEF FreedCompleted, RequestInv
<1> QED
  BY <1>1, CrashStep

-----------------------------------------------------------------------------
(* The list of a client. *)

LEMMA LeastElement ==
  ASSUME NEW S \in SUBSET Nat, S # {}
  PROVE  \E n \in S : \A m \in S : n <= m
<1> DEFINE R == OpToRel(<, Nat)
<1>1. IsWellFoundedOn(R, Nat)
  BY NatLessThanWellFounded
<1>2. \A x, y \in Nat : <<x, y>> \in R <=> x < y
  BY DEF OpToRel
<1> HIDE DEF R
<1>3. PICK n \in S : \A m \in S : ~(<<m, n>> \in R)
  BY <1>1, WFMin
<1>4. \A m \in S : n \in Nat /\ m \in Nat /\ ~(m < n)
  BY <1>2, <1>3
<1> QED
  BY <1>4

LEMMA MinOfTwo ==
  ASSUME NEW a \in Int, NEW b \in Int
  PROVE  Min({a, b}) = IF a <= b THEN a ELSE b
BY DEF Min

LEMMA PivotIsThere ==
  ASSUME NEW p \in Playlists
  PROVE  /\ Pivot(p) \in Nat \ {0}
         /\ p.tracks # <<>> => Pivot(p) <= Len(p.tracks)
<1>1. /\ p.tracks \in Bodies /\ Len(p.tracks) \in Nat
      /\ DOMAIN p.tracks = 1 .. Len(p.tracks)
      /\ p.tracks # <<>> => Len(p.tracks) # 0
  BY LenProperties, EmptySeq DEF Playlists, Bodies
<1>2. CASE Coming(p) = {}
  BY <1>1, <1>2 DEF Pivot
<1>3. CASE Coming(p) # {}
  <2>1. Coming(p) \subseteq 1 .. Len(p.tracks)
    BY <1>1 DEF Coming
  <2>2. Coming(p) \in SUBSET Nat
    BY <1>1, <2>1
  <2>3. \E n \in Coming(p) : \A i \in Coming(p) : n <= i
    BY <1>3, <2>2, LeastElement
  <2>4. Min(Coming(p)) \in Coming(p)
    BY <2>3 DEF Min
  <2> QED
    BY <1>1, <1>3, <2>1, <2>4 DEF Pivot
<1> QED
  BY <1>2, <1>3

(* The list is a part of the tracks, not empty if there are any.           *)
LEMMA GeneratedList ==
  ASSUME NEW p \in Playlists, NEW m \in Muxes, now \in 0 .. MaxTime,
         Len(m.body) <= TracksPerPlaylist
  PROVE  LET g == GenerateSegmentClientList(m, p)
         IN  /\ g \in Muxes /\ Len(g.body) <= TracksPerPlaylist
             /\ g.exists = m.exists /\ g.cached = m.cached /\ g.wait = m.wait
             /\ g.is_completed = m.is_completed /\ g.requests = m.requests
             /\ m.requests # {} /\ p.tracks # <<>> => g.body # Nothing
<1> DEFINE last == Min({Len(p.tracks), Pivot(p) + TracksPerPlaylist - 1})
           list == SubSeq(p.tracks, Pivot(p), last)
           g == GenerateSegmentClientList(m, p)
<1>1. /\ p.tracks \in Seq(Tracks) /\ Len(p.tracks) \in Nat
      /\ \A i \in 1 .. Len(p.tracks) : p.tracks[i] \in Tracks
      /\ p.tracks # <<>> => Len(p.tracks) > 0
  BY LenProperties, ElementOfSeq, EmptySeq DEF Playlists, Bodies
<1>2. /\ Pivot(p) \in Nat \ {0} /\ TracksPerPlaylist \in Nat \ {0}
      /\ p.tracks # <<>> => Pivot(p) <= Len(p.tracks)
  BY PivotIsThere, SizeAssumption
<1>3. /\ last \in Int /\ last <= Len(p.tracks)
      /\ last - Pivot(p) + 1 <= TracksPerPlaylist
      /\ p.tracks # <<>> => Pivot(p) <= last
  <2> DEFINE end == Pivot(p) + TracksPerPlaylist - 1
  <2>1. end \in Int /\ Len(p.tracks) \in Int
    BY <1>1, <1>2
  <2> HIDE DEF end
  <2>2. Min({Len(p.tracks), end}) = IF Len(p.tracks) <= end
                                      THEN Len(p.tracks) ELSE end
    BY <2>1, MinOfTwo
  <2>3. last = IF Len(p.tracks) <= end THEN Len(p.tracks) ELSE end
    BY <2>2 DEF end
  <2> HIDE DEF last
  <2> QED
    BY <1>1, <1>2, <2>3 DEF end
<1>4. g = IF m.requests = {} THEN m
          ELSE [m EXCEPT !.body = list, !.header = list, !.made = now]
  BY DEF GenerateSegmentClientList
<1> HIDE DEF last
<1>5. /\ list \in Bodies
      /\ Len(list) = IF Pivot(p) <= last THEN last - Pivot(p) + 1 ELSE 0
  <2>1. \A i \in Pivot(p) .. last : p.tracks[i] \in Tracks
    BY <1>1, <1>2, <1>3
  <2> QED
    BY <1>2, <1>3, <2>1, SubSeqProperties DEF Bodies
<1> HIDE DEF list, g
<1>6. Len(list) <= TracksPerPlaylist /\ (p.tracks # <<>> => list # Nothing)
  BY <1>1, <1>2, <1>3, <1>5, Constant
<1>7. CASE m.requests = {}
  BY <1>4, <1>7 DEF g
<1>8. CASE m.requests # {}
  <2>1. /\ g \in Muxes /\ g.exists = m.exists /\ g.cached = m.cached
        /\ g.wait = m.wait /\ g.is_completed = m.is_completed
        /\ g.requests = m.requests /\ g.body = list
    BY <1>4, <1>5, <1>8 DEF Muxes
  <2> QED
    BY <1>6, <2>1 DEF g
<1> QED
  BY <1>7, <1>8

-----------------------------------------------------------------------------
(* The tracks of a list that are new to the playlist. *)

Keeps(uids, list, n, k) ==
  k = [i \in 0 .. n |->
         IF i = 0 THEN <<>>
         ELSE IF list[i] \in uids THEN k[i - 1]
         ELSE Append(k[i - 1], list[i])]

LEMMA KeptExists ==
  ASSUME NEW uids, NEW list \in Seq(Nat), NEW n \in 0 .. Len(list)
  PROVE  \E k \in [0 .. n -> Seq(Nat)] : Keeps(uids, list, n, k)
<1> DEFINE Bad == {i \in 0 .. Len(list) :
                     ~ \E k \in [0 .. i -> Seq(Nat)] : Keeps(uids, list, i, k)}
<1>1. Len(list) \in Nat /\ \A i \in 1 .. Len(list) : list[i] \in Nat
  BY LenProperties, ElementOfSeq
<1>2. ASSUME Bad # {} PROVE FALSE
  <2>1. Bad \in SUBSET Nat
    BY <1>1
  <2>2. \E m \in Bad : \A i \in Bad : m <= i
    <3> HIDE DEF Bad
    <3> QED
      BY <1>2, <2>1, LeastElement
  <2>3. PICK m \in Bad : \A i \in Bad : m <= i
    BY <2>2
  <2>4. CASE m = 0
    <3>1. [i \in 0 .. 0 |-> <<>>] \in [0 .. m -> Seq(Nat)]
      BY <2>4, EmptySeq
    <3>2. Keeps(uids, list, m, [i \in 0 .. 0 |-> <<>>])
      BY <2>4 DEF Keeps
    <3> QED
      BY <2>3, <3>1, <3>2
  <2>5. CASE m # 0
    <3>1. m \in 1 .. Len(list) /\ m - 1 \in 0 .. Len(list)
      BY <1>1, <2>3, <2>5
    <3>2. m - 1 \notin Bad
      <4> HIDE DEF Bad
      <4> QED
        BY <1>1, <2>3, <3>1
    <3>3. PICK k \in [0 .. m - 1 -> Seq(Nat)] : Keeps(uids, list, m - 1, k)
      BY <3>1, <3>2
    <3> DEFINE last == IF list[m] \in uids THEN k[m - 1]
                                           ELSE Append(k[m - 1], list[m])
               next == [i \in 0 .. m |-> IF i = m THEN last ELSE k[i]]
    <3>4. last \in Seq(Nat)
      <4>1. k[m - 1] \in Seq(Nat) /\ list[m] \in Nat
        BY <1>1, <3>1, <3>3
      <4> QED
        BY <4>1, AppendProperties
    <3>5. next \in [0 .. m -> Seq(Nat)]
      <4> HIDE DEF last
      <4> QED
        BY <1>1, <3>1, <3>3, <3>4
    <3>6. \A i \in 0 .. m - 1 :
            k[i] = IF i = 0 THEN <<>>
                   ELSE IF list[i] \in uids THEN k[i - 1]
                   ELSE Append(k[i - 1], list[i])
      BY <3>3 DEF Keeps
    <3>7. ASSUME NEW i \in 0 .. m
          PROVE  next[i] = IF i = 0 THEN <<>>
                           ELSE IF list[i] \in uids THEN next[i - 1]
                           ELSE Append(next[i - 1], list[i])
      <4>1. CASE i = m
        <5>1. next[i] = last /\ next[i - 1] = k[m - 1] /\ i # 0
          BY <1>1, <3>1, <4>1
        <5> HIDE DEF next
        <5> QED
          BY <4>1, <5>1
      <4>2. CASE i # m
        <5>1. /\ i \in 0 .. m - 1 /\ next[i] = k[i]
              /\ i # 0 => next[i - 1] = k[i - 1]
          BY <1>1, <3>1, <4>2
        <5> HIDE DEF next
        <5> QED
          BY <3>6, <5>1
      <4> QED
        BY <4>1, <4>2
    <3>8. Keeps(uids, list, m, next)
      <4>1. next = [i \in 0 .. m |-> next[i]]
        OBVIOUS
      <4> HIDE DEF next
      <4> QED
        BY <3>7, <4>1 DEF Keeps
    <3> HIDE DEF next
    <3> QED
      BY <2>3, <3>5, <3>8
  <2> QED
    BY <2>4, <2>5
<1> QED
  BY <1>2

LEMMA FreshIsKept ==
  ASSUME NEW uids, NEW list \in Seq(Nat)
  PROVE  \E k : /\ Keeps(uids, list, Len(list), k)
                /\ Fresh(uids, list) = k[Len(list)]
<1> DEFINE n == Len(list)
           kept == CHOOSE k : Keeps(uids, list, n, k)
<1>1. Fresh(uids, list) = kept[n]
  BY DEF Fresh, Keeps
<1>2. n \in 0 .. Len(list)
  BY LenProperties
<1>3. \E k : Keeps(uids, list, n, k)
  BY <1>2, KeptExists
<1>4. Keeps(uids, list, n, kept)
  BY <1>3
<1> QED
  BY <1>1, <1>4

(* There is one such function. *)
LEMMA KeptOnce ==
  ASSUME NEW uids, NEW list, NEW n \in Nat, NEW k, NEW l,
         Keeps(uids, list, n, k), Keeps(uids, list, n, l)
  PROVE  \A i \in 0 .. n : k[i] = l[i]
<1> DEFINE Bad == {i \in 0 .. n : k[i] # l[i]}
<1>1. \A i \in 0 .. n :
        /\ k[i] = IF i = 0 THEN <<>>
                  ELSE IF list[i] \in uids THEN k[i - 1]
                  ELSE Append(k[i - 1], list[i])
        /\ l[i] = IF i = 0 THEN <<>>
                  ELSE IF list[i] \in uids THEN l[i - 1]
                  ELSE Append(l[i - 1], list[i])
  BY DEF Keeps
<1>2. ASSUME Bad # {} PROVE FALSE
  <2>1. Bad \in SUBSET Nat /\ Bad \subseteq 0 .. n
    OBVIOUS
  <2>2. \A i \in 0 .. n : i \in Bad <=> k[i] # l[i]
    OBVIOUS
  <2> HIDE DEF Bad
  <2>3. \E m \in Bad : \A i \in Bad : m <= i
    BY <1>2, <2>1, LeastElement
  <2>4. PICK m \in Bad : \A i \in Bad : m <= i
    BY <2>3
  <2>5. m \in 0 .. n /\ m # 0
    BY <1>1, <2>1, <2>2, <2>4
  <2>6. m - 1 \in 0 .. n /\ m - 1 \notin Bad
    BY <2>4, <2>5
  <2>7. k[m - 1] = l[m - 1]
    BY <2>2, <2>6
  <2> QED
    BY <1>1, <2>2, <2>4, <2>5, <2>7
<1> QED
  BY <1>2

LEMMA FreshType ==
  ASSUME NEW uids, NEW list \in Seq(Nat)
  PROVE  Fresh(uids, list) \in Seq(Nat)
<1> DEFINE n == Len(list)
<1>1. PICK k : Keeps(uids, list, n, k) /\ Fresh(uids, list) = k[n]
  BY FreshIsKept
<1>2. n \in Nat /\ n \in 0 .. Len(list)
  BY LenProperties
<1>3. PICK l \in [0 .. n -> Seq(Nat)] : Keeps(uids, list, n, l)
  BY <1>2, KeptExists
<1>4. k[n] = l[n]
  BY <1>1, <1>2, <1>3, KeptOnce
<1>5. l[n] \in Seq(Nat)
  BY <1>2, <1>3
<1> QED
  BY <1>1, <1>4, <1>5

(* If the playlist has the first tracks of a list, the others are new. *)
LEMMA FreshSuffix ==
  ASSUME NEW uids, NEW list \in Seq(Nat), NEW d \in 0 .. Len(list),
         \A i \in 1 .. Len(list) : list[i] \in uids <=> i <= d
  PROVE  Fresh(uids, list) = SubSeq(list, d + 1, Len(list))
<1> DEFINE n == Len(list)
           l == [i \in 0 .. n |-> SubSeq(list, d + 1, i)]
<1>1. n \in Nat /\ d \in 0 .. n
  BY LenProperties
<1> HIDE DEF n
<1>2. ASSUME NEW i \in 0 .. n
      PROVE  l[i] = IF i = 0 THEN <<>>
                    ELSE IF list[i] \in uids THEN l[i - 1]
                    ELSE Append(l[i - 1], list[i])
  <2>1. l[i] = SubSeq(list, d + 1, i)
    OBVIOUS
  <2>2. i # 0 => l[i - 1] = SubSeq(list, d + 1, i - 1)
    BY <1>1
  <2> HIDE DEF l
  <2>3. CASE i = 0
    BY <1>1, <2>1, <2>3, SubSeqEmpty
  <2>4. CASE i # 0 /\ i <= d
    <3>1. list[i] \in uids
      BY <1>1, <2>4 DEF n
    <3>2. SubSeq(list, d + 1, i) = <<>> /\ SubSeq(list, d + 1, i - 1) = <<>>
      BY <1>1, <2>4, SubSeqEmpty
    <3> QED
      BY <2>1, <2>2, <2>4, <3>1, <3>2
  <2>5. CASE i > d
    <3>1. list[i] \notin uids /\ i # 0
      BY <1>1, <2>5 DEF n
    <3>2. d + 1 \in 1 .. Len(list) /\ i \in d + 1 .. Len(list)
      BY <1>1, <2>5 DEF n
    <3>3. SubSeq(list, d + 1, i) = SubSeq(list, d + 1, i - 1) \o <<list[i]>>
      BY <3>2, SubSeqRecursiveSecond
    <3>4. SubSeq(list, d + 1, i - 1) \in Seq(Nat) /\ list[i] \in Nat
      <4>1. \A j \in d + 1 .. i : list[j] \in Nat
        BY <1>1, <3>2, ElementOfSeq
      <4>2. \A j \in d + 1 .. i - 1 : list[j] \in Nat
        BY <1>1, <4>1
      <4>3. d + 1 \in Int /\ i - 1 \in Int /\ i \in d + 1 .. i
        BY <1>1, <3>2
      <4> QED
        BY <4>1, <4>2, <4>3, SubSeqProperties
    <3>5. Append(SubSeq(list, d + 1, i - 1), list[i])
            = SubSeq(list, d + 1, i - 1) \o <<list[i]>>
      BY <3>4, AppendIsConcat
    <3> QED
      BY <2>1, <2>2, <3>1, <3>3, <3>5
  <2> QED
    BY <1>1, <2>3, <2>4, <2>5
<1>3. Keeps(uids, list, n, l)
  <2>1. l = [i \in 0 .. n |-> l[i]]
    OBVIOUS
  <2> HIDE DEF l
  <2> QED
    BY <1>2, <2>1 DEF Keeps
<1>4. PICK k : Keeps(uids, list, n, k) /\ Fresh(uids, list) = k[n]
  BY FreshIsKept DEF n
<1>5. k[n] = l[n]
  <2>1. n \in 0 .. n
    BY <1>1
  <2> HIDE DEF l
  <2>2. n \in Nat /\ Keeps(uids, list, n, k) /\ Keeps(uids, list, n, l)
    BY <1>1, <1>3, <1>4
  <2>3. \A i \in 0 .. n : k[i] = l[i]
    BY <2>2, KeptOnce
  <2> QED
    BY <2>1, <2>3
<1>6. l[n] = SubSeq(list, d + 1, n)
  BY <1>1
<1> QED
  BY <1>4, <1>5, <1>6 DEF n

-----------------------------------------------------------------------------
(* The playlist is filled. *)

NextStamp(p) == IF p.last_stamp = 0 THEN now + 1 ELSE p.last_stamp

Stamped(p, fresh) ==
  [i \in DOMAIN fresh |-> [uid |-> fresh[i], stamp |-> NextStamp(p) + i - 1]]

Filled(p, list) == p.tracks \o Stamped(p, Fresh(Uids(p), list))

LEMMA FunctionIsSeq ==
  ASSUME NEW S, NEW n \in Nat, NEW s \in [1 .. n -> S]
  PROVE  s \in Seq(S) /\ Len(s) = n
BY SeqDef

LEMMA FilledTracks ==
  ASSUME NEW p \in Playlists, NEW list \in Seq(Nat), now \in Nat
  PROVE  LET fresh == Fresh(Uids(p), list)
             all == Filled(p, list)
             n == Len(p.tracks)
         IN  /\ fresh \in Seq(Nat) /\ n \in Nat /\ Len(fresh) \in Nat
             /\ NextStamp(p) \in Nat \ {0}
             /\ all \in Bodies /\ Len(all) = n + Len(fresh)
             /\ \A i \in 1 .. n : all[i] = p.tracks[i]
             /\ \A i \in 1 .. Len(fresh) :
                  /\ all[n + i].uid = fresh[i]
                  /\ all[n + i].stamp = NextStamp(p) + i - 1
<1> DEFINE fresh == Fresh(Uids(p), list)
           stamped == Stamped(p, fresh)
           n == Len(p.tracks)
<1>1. p.last_stamp \in Nat /\ p.tracks \in Seq(Tracks) /\ n \in Nat
  BY LenProperties DEF Playlists, Bodies
<1>2. NextStamp(p) \in Nat \ {0}
  BY <1>1 DEF NextStamp
<1>3. /\ fresh \in Seq(Nat) /\ Len(fresh) \in Nat
      /\ \A i \in 1 .. Len(fresh) : fresh[i] \in Nat
      /\ DOMAIN fresh = 1 .. Len(fresh)
  BY FreshType, LenProperties, ElementOfSeq
<1> HIDE DEF fresh
<1>4. stamped \in [1 .. Len(fresh) -> Tracks]
  BY <1>2, <1>3 DEF Stamped, Tracks
<1>5. stamped \in Seq(Tracks) /\ Len(stamped) = Len(fresh)
  <2> HIDE DEF stamped
  <2> QED
    BY <1>3, <1>4, FunctionIsSeq
<1>6. \A i \in 1 .. Len(fresh) :
        /\ stamped[i].uid = fresh[i]
        /\ stamped[i].stamp = NextStamp(p) + i - 1
  BY <1>3 DEF Stamped
<1> HIDE DEF stamped
<1>7. Filled(p, list) = p.tracks \o stamped
  BY DEF Filled, stamped, fresh
<1>8. /\ Filled(p, list) \in Seq(Tracks)
      /\ Len(Filled(p, list)) = n + Len(fresh)
      /\ \A i \in 1 .. n + Len(fresh) :
           Filled(p, list)[i] = IF i <= n THEN p.tracks[i] ELSE stamped[i - n]
  <2>1. /\ Filled(p, list) \in Seq(Tracks)
        /\ Len(Filled(p, list)) = Len(p.tracks) + Len(stamped)
        /\ \A i \in 1 .. Len(p.tracks) + Len(stamped) :
             Filled(p, list)[i] = IF i <= Len(p.tracks) THEN p.tracks[i]
                                  ELSE stamped[i - Len(p.tracks)]
    <3>1. p.tracks \in Seq(Tracks) /\ stamped \in Seq(Tracks)
      BY <1>1, <1>5
    <3> HIDE DEF n
    <3>2. /\ p.tracks \o stamped \in Seq(Tracks)
          /\ Len(p.tracks \o stamped) = Len(p.tracks) + Len(stamped)
          /\ \A i \in 1 .. Len(p.tracks) + Len(stamped) :
               (p.tracks \o stamped)[i] = IF i <= Len(p.tracks)
                 THEN p.tracks[i] ELSE stamped[i - Len(p.tracks)]
      BY <3>1, ConcatProperties
    <3> QED
      BY <1>7, <3>2
  <2> QED
    BY <1>5, <2>1
<1>9. /\ \A i \in 1 .. n : Filled(p, list)[i] = p.tracks[i]
      /\ \A i \in 1 .. Len(fresh) : Filled(p, list)[n + i] = stamped[i]
  <2> HIDE DEF n
  <2>1. \A i \in 1 .. n : i \in 1 .. n + Len(fresh) /\ i <= n
    BY <1>1, <1>3
  <2>2. \A i \in 1 .. Len(fresh) :
          n + i \in 1 .. n + Len(fresh) /\ ~(n + i <= n) /\ (n + i) - n = i
    BY <1>1, <1>3
  <2> QED
    BY <1>8, <2>1, <2>2
<1> QED
  BY <1>1, <1>2, <1>3, <1>6, <1>8, <1>9 DEF fresh, Bodies

(* What is left is the end of it, of which something is only dropped if    *)
(* there are MaxTracks left.                                               *)
EndOf(all, ts) ==
  /\ Len(ts) <= Len(all)
  /\ \A i \in 1 .. Len(ts) : ts[i] = all[Len(all) - Len(ts) + i]
  /\ Len(ts) = Len(all) \/ Len(ts) = MaxTracks

LEMMA ProcessedList ==
  ASSUME NEW p \in Playlists, NEW list \in Seq(Nat), now \in Nat,
         Len(p.tracks) <= MaxTracks, p.remaining > 0, StampsEnd(p)
  PROVE  LET q == ProcessSegmentList(p, list)
             all == Filled(p, list)
         IN  /\ q \in Playlists /\ Len(q.tracks) <= MaxTracks
             /\ q.exists = p.exists /\ q.remaining = p.remaining - 1
             /\ EndOf(all, q.tracks) /\ StampsEnd(q)
<1> DEFINE fresh == Fresh(Uids(p), list)
           all == Filled(p, list)
           last == NextStamp(p) + Len(fresh)
           ts == IF last # p.last_stamp THEN CleanTracks(all) ELSE all
           rest == p.remaining - 1
           q == ProcessSegmentList(p, list)
           n == Len(p.tracks)
<1>1. /\ fresh \in Seq(Nat) /\ n \in Nat /\ Len(fresh) \in Nat
      /\ NextStamp(p) \in Nat \ {0}
      /\ all \in Bodies /\ Len(all) = n + Len(fresh)
      /\ \A i \in 1 .. n : all[i] = p.tracks[i]
      /\ \A i \in 1 .. Len(fresh) :
           /\ all[n + i].uid = fresh[i]
           /\ all[n + i].stamp = NextStamp(p) + i - 1
  BY FilledTracks
<1>2. q = [p EXCEPT !.remaining = rest, !.last_stamp = last, !.tracks = ts]
  BY DEF ProcessSegmentList, Filled, Stamped, NextStamp
<1>3. MaxTracks \in Nat \ {0}
  BY SizeAssumption
<1>4. p.last_stamp \in Nat /\ p.remaining \in 0 .. RemainingFetches
  BY DEF Playlists
<1> HIDE DEF fresh, all, q
<1>5. last \in Nat /\ rest \in 0 .. RemainingFetches
  BY <1>1, <1>4, SizeAssumption
<1>6. ts \in Bodies /\ Len(ts) <= MaxTracks /\ EndOf(all, ts)
  <2>0. all \in Seq(Tracks) /\ \A i \in 1 .. Len(all) : all[i] \in Tracks
    BY <1>1, ElementOfSeq DEF Bodies
  <2>1. CASE last # p.last_stamp /\ ~(Len(all) < MaxTracks)
    <3> DEFINE from == Len(all) - MaxTracks + 1
    <3>1. ts = SubSeq(all, from, Len(all))
      BY <2>1 DEF CleanTracks
    <3>2. from \in Int /\ Len(all) \in Int /\ from >= 1 /\ from <= Len(all)
      BY <1>1, <1>3, <2>1
    <3>3. \A i \in from .. Len(all) : all[i] \in Tracks
      BY <2>0, <3>2
    <3> HIDE DEF ts, from
    <3>4. /\ ts \in Bodies /\ Len(ts) = Len(all) - from + 1
          /\ \A i \in 1 .. Len(all) - from + 1 : ts[i] = all[from + i - 1]
      BY <3>1, <3>2, <3>3, SubSeqProperties DEF Bodies
    <3>5. Len(ts) = MaxTracks
      BY <1>3, <3>2, <3>4 DEF from
    <3>6. \A i \in 1 .. Len(ts) : ts[i] = all[Len(all) - Len(ts) + i]
      <4>1. \A i \in 1 .. Len(ts) : Len(all) - Len(ts) + i = from + i - 1
        BY <1>3, <3>2, <3>5 DEF from
      <4> QED
        BY <3>4, <4>1
    <3> QED
      BY <1>3, <2>1, <3>2, <3>4, <3>5, <3>6 DEF EndOf
  <2>2. CASE ~(last # p.last_stamp /\ ~(Len(all) < MaxTracks))
    <3>1. ts = all
      BY <2>2 DEF CleanTracks
    <3>2. Len(all) <= MaxTracks
      <4>1. CASE last = p.last_stamp
        <5>1. Len(fresh) = 0
          BY <1>1, <1>4, <4>1 DEF NextStamp
        <5> QED
          BY <1>1, <5>1
      <4>2. CASE last # p.last_stamp
        BY <1>1, <1>3, <2>2, <4>2
      <4> QED
        BY <4>1, <4>2
    <3>3. EndOf(all, all)
      <4>1. \A i \in 1 .. Len(all) : Len(all) - Len(all) + i = i
        BY <1>1
      <4> QED
        BY <1>1, <4>1 DEF EndOf
    <3> HIDE DEF ts
    <3> QED
      BY <1>1, <3>1, <3>2, <3>3
  <2> QED
    BY <2>1, <2>2
<1>7. ASSUME NEW i \in 1 .. Len(all) PROVE all[i].stamp < last
  <2>1. CASE i <= n
    <3>1. all[i] = p.tracks[i] /\ i \in DOMAIN p.tracks
      <4>1. i \in 1 .. n /\ p.tracks \in Seq(Tracks)
        BY <1>1, <2>1 DEF Playlists, Bodies
      <4> QED
        BY <1>1, <4>1, LenProperties
    <3>2. p.tracks[i].stamp < p.last_stamp /\ p.tracks[i].stamp \in Nat
      <4>1. p.tracks[i] \in Tracks
        <5>1. i \in 1 .. n /\ p.tracks \in Seq(Tracks)
          BY <1>1, <2>1 DEF Playlists, Bodies
        <5> QED
          BY <5>1, ElementOfSeq
      <4> QED
        BY <3>1, <4>1 DEF StampsEnd, Tracks
    <3> QED
      BY <1>1, <1>4, <3>1, <3>2 DEF NextStamp
  <2>2. CASE i > n
    <3>1. i - n \in 1 .. Len(fresh) /\ n + (i - n) = i
      BY <1>1, <2>2
    <3>2. all[i].stamp = NextStamp(p) + (i - n) - 1
      BY <1>1, <3>1
    <3> QED
      BY <1>1, <3>1, <3>2
  <2> QED
    BY <1>1, <2>1, <2>2
<1> HIDE DEF ts, last, rest
<1>8. /\ q \in Playlists /\ q.tracks = ts /\ q.exists = p.exists
      /\ q.remaining = rest /\ q.last_stamp = last
  BY <1>2, <1>5, <1>6 DEF Playlists
<1>9. StampsEnd(q)
  <2>1. DOMAIN ts = 1 .. Len(ts) /\ Len(ts) \in Nat
    BY <1>6, LenProperties DEF Bodies
  <2>2. \A i \in 1 .. Len(ts) : /\ ts[i] = all[Len(all) - Len(ts) + i]
                                /\ Len(all) - Len(ts) + i \in 1 .. Len(all)
    <3>1. /\ Len(ts) <= Len(all) /\ Len(all) \in Nat
          /\ \A i \in 1 .. Len(ts) : ts[i] = all[Len(all) - Len(ts) + i]
      BY <1>1, <1>6 DEF EndOf
    <3>2. \A i \in 1 .. Len(ts) : Len(all) - Len(ts) + i \in 1 .. Len(all)
      BY <2>1, <3>1
    <3> QED
      BY <3>1, <3>2
  <2> QED
    BY <1>7, <1>8, <2>1, <2>2 DEF StampsEnd
<1> QED
  BY <1>6, <1>8, <1>9 DEF all, q, rest

-----------------------------------------------------------------------------
(* A client asks for the list. *)

LEMMA JoinListStep ==
  ASSUME IInv, fault = "none", NEW c \in Clients, JoinList(c)
  PROVE  IInv'
<1> DEFINE j == Joined("list")
           R == mux["list"].requests \cup {c}
           m == WithRequests(mux["list"], R)
           g == IF m.is_completed THEN GenerateSegmentClientList(m, playlist)
                ELSE m
           p == [playlist EXCEPT !.remaining = RemainingFetches]
<1>1. req[c].state = "none" /\ mux["list"].exists
  BY DEF JoinList
<1>2. /\ {"channel", "list"} \subseteq Ids /\ InnerIds \subseteq Ids
      /\ "list" \notin InnerIds /\ "list" \in ClientIds
  BY DEF Ids, ClientIds, InnerIds
<1>3. /\ Running /\ TypeInv /\ mux["list"] \in Muxes /\ R \in SUBSET Clients
      /\ \A id \in Ids : c \notin mux[id].requests
  BY <1>1, <1>2, RegisteredRequests
<1>4. /\ m \in Muxes /\ m.exists = mux["list"].exists
      /\ m.wait = mux["list"].wait
      /\ m.cached = mux["list"].cached
      /\ m.is_completed = mux["list"].is_completed
      /\ m.body = mux["list"].body /\ m.requests = R
  BY <1>1, <1>3, OtherRequests
<1>5. ~playlist.exists \/ (m.is_completed /\ Unlisted(m, playlist))
        => Crash("terminate")
  BY DEF JoinList, WithRequests
<1>6. playlist.exists /\ ~(m.is_completed /\ Unlisted(m, playlist)) =>
        /\ req' = [req EXCEPT ![c] = j]
        /\ playlist' = p
        /\ mux' = [mux EXCEPT !["list"] = g]
        /\ unasked' = 0 /\ segments' = segments /\ fetch' = fetch
        /\ now' = now /\ origin' = origin /\ fault' = fault
        /\ happened' = happened
  BY DEF JoinList, WithRequests
<1>7. ASSUME ~playlist.exists \/ (m.is_completed /\ Unlisted(m, playlist))
      PROVE  IInv'
  <2>1. Outlived \/ "trackless" \in happened
    BY <1>1, <1>3, <1>4, <1>7 DEF Running, ListInv, Unlisted
  <2> QED
    BY <1>5, <1>7, <2>1, CrashStep
<1>8. ASSUME playlist.exists, ~(m.is_completed /\ Unlisted(m, playlist))
      PROVE  IInv'
  <2>1. /\ req' = [req EXCEPT ![c] = j] /\ playlist' = p
        /\ mux' = [mux EXCEPT !["list"] = g]
        /\ unasked' = 0 /\ segments' = segments /\ fetch' = fetch
        /\ now' = now /\ origin' = origin /\ fault' = fault
        /\ happened' = happened
    BY <1>6, <1>8
  <2>2. mux["list"].is_completed => mux["list"].cached
    BY <1>3 DEF Running, ListInv
  <2>3. /\ j \in Requests /\ j.state = "live" /\ j.id = "list"
        /\ j.event_type # "SERVER_CLOSE" /\ j.sent = Nothing
        /\ j.flight = IF j.is_processing THEN 1 ELSE 0
        /\ mux["list"].is_completed => j.is_processing
        /\ ~mux["list"].is_completed /\ ~mux["list"].cached =>
             j = StreamRequest("list")
    BY <1>2, <1>3, <2>2, JoinedFields
  <2>4. playlist \in Playlists /\ now \in 0 .. MaxTime
        /\ Len(mux["list"].body) <= TracksPerPlaylist
    BY <1>2, <1>3, BoundAssumption DEF TypeInv
  <2> HIDE DEF j, m
  <2>5. /\ g \in Muxes /\ g.exists = mux["list"].exists
        /\ g.wait = mux["list"].wait
        /\ g.cached = mux["list"].cached
        /\ g.is_completed = mux["list"].is_completed
        /\ Len(g.body) <= TracksPerPlaylist /\ g.requests = R
    BY <1>4, <2>4, GeneratedList
  <2>6. /\ p \in Playlists /\ p.exists /\ p.remaining = RemainingFetches
        /\ p.tracks = playlist.tracks /\ p.last_stamp = playlist.last_stamp
    <3>1. RemainingFetches \in 0 .. RemainingFetches
      BY SizeAssumption
    <3> QED
      BY <1>8, <2>4, <3>1 DEF Playlists
  <2> HIDE DEF g, p
  <2>7. /\ mux' \in [Ids -> Muxes] /\ mux'["list"] = g
        /\ \A id \in Ids : id # "list" => mux'[id] = mux[id]
        /\ req' \in [Clients -> Requests] /\ req'[c] = j
        /\ \A d \in Clients : d # c => req'[d] = req[d]
    BY <1>2, <1>3, <2>1, <2>3, <2>5 DEF TypeInv
  <2>8. TypeInv'
    <3>1. \A id \in Ids : Len(mux'[id].body) <= TracksPerPlaylist
      BY <1>3, <2>5, <2>7 DEF TypeInv
    <3>2. playlist' \in Playlists /\ Len(playlist'.tracks) <= MaxTracks
      BY <1>3, <2>1, <2>6 DEF TypeInv
    <3>3. unasked' \in 0 .. RemainingFetches
      BY <2>1, SizeAssumption
    <3> QED
      BY <1>3, <2>1, <2>7, <3>1, <3>2, <3>3 DEF TypeInv
  <2>9. StampsEnd(playlist)'
    BY <2>1, <2>6 DEF IInv, StampsEnd
  <2>10. ChannelLength'
    BY <2>3, <2>7 DEF IInv, ChannelLength
  <2>11. ChainInv'
    <3>1. \A id \in InnerIds : mux'[id] = mux[id]
      BY <1>2, <2>7
    <3>2. \A id \in Ids : /\ mux'[id].exists = mux[id].exists
                          /\ ~mux[id].exists => mux'[id] = mux[id]
      BY <1>1, <2>5, <2>7
    <3> QED
      BY <1>3, <1>8, <2>1, <2>6, <3>1, <3>2, ChainFrame DEF Running
  <2>12. ChannelInv'
    <3>1. \A d \in mux["channel"].requests : req'[d] = req[d]
      BY <1>2, <1>3, <2>7, RegisteredRequests
    <3>2. mux'["channel"] = mux["channel"] /\ ChannelInv
      BY <1>2, <1>3, <2>7 DEF Running
    <3> QED
      BY <1>8, <2>1, <2>6, <3>1, <3>2, ChannelFrame
  <2>13. ListInv'
    <3>1. ~mux["list"].cached =>
            /\ ~mux["list"].wait
            /\ \A d \in R : req'[d] = StreamRequest("list")
      <4>1. R \subseteq Clients
        BY <1>3
      <4> QED
        BY <1>1, <1>3, <2>2, <2>3, <2>7, <4>1 DEF Running, ListInv
    <3>2. R # {}
      OBVIOUS
    <3>3. p.remaining > 0
      BY <2>6, SizeAssumption
    <3> HIDE DEF R
    <3> QED
      BY <1>1, <1>3, <1>8, <2>1, <2>5, <2>6, <2>7, <3>1, <3>2, <3>3
         DEF Running, ListInv, Direct, Outlived, NeverFailed
  <2>14. ASSUME NEW d \in Clients PROVE RequestInv(d)'
    <3>1. CASE d = c
      <4>1. \A id \in Ids : c \in mux'[id].requests <=> id = "list"
        BY <1>2, <1>3, <2>5, <2>7
      <4> QED
        BY <1>2, <2>3, <2>5, <2>7, <3>1, <4>1 DEF RequestInv
    <3>2. CASE d # c
      <4>1. \A id \in Ids :
              /\ d \in mux'[id].requests <=> d \in mux[id].requests
              /\ d \in mux[id].requests =>
                   (mux'[id].is_completed => mux[id].is_completed)
        BY <1>2, <2>5, <2>7, <3>2
      <4> QED
        BY <2>1, <2>7, <3>2, <4>1, RegisteredRequests, RequestFrame
    <3> QED
      BY <3>1, <3>2
  <2>15. PlaylistInv'
    BY <2>1, <2>6, SizeAssumption DEF PlaylistInv
  <2> QED
    BY <2>1, <2>8, <2>9, <2>10, <2>11, <2>12, <2>13, <2>14, <2>15, Runs
       DEF Running
<1> QED
  BY <1>7, <1>8

-----------------------------------------------------------------------------
(* Steps of fetches. *)

(* A request that is registered and goes on to be.                         *)
LEMMA StaysRegistered ==
  ASSUME NEW c \in Clients, NEW i \in Ids, req'[c].state = "live",
         req'[c].event_type # "SERVER_CLOSE", req'[c].id = i,
         req'[c].flight = IF req'[c].is_processing THEN 1 ELSE 0,
         \A id \in Ids : c \in mux'[id].requests <=> id = i,
         req'[c].is_processing \/ ~mux'[i].is_completed
  PROVE  RequestInv(c)'
BY DEF RequestInv

LEMMA HeaderReadStep ==
  ASSUME IInv, fault = "none", NEW id \in Ids, HeaderRead(id)
  PROVE  IInv'
<1> DEFINE m == [mux[id] EXCEPT !.cached = TRUE, !.is_completed = FALSE,
                                !.header = Original]
           served == [c \in Clients |->
                        IF c \in m.requests /\ ~req[c].is_processing
                          THEN AddWriteHeaders(req[c], m) ELSE req[c]]
<1>1. /\ Running /\ TypeInv /\ mux[id] \in Muxes
      /\ mux[id].requests \subseteq Clients
      /\ \A c \in mux[id].requests : Registered(c, id)
      /\ \A c \in Clients : req[c] \in Requests /\ RequestInv(c)
                              /\ req[c].id \in Ids
  BY RegisteredRequests
<1>2. fetch[id] = "fetching" /\ mux[id].exists
  BY <1>1 DEF HeaderRead, Running, ChainInv
<1>3. /\ mux' = [mux EXCEPT ![id] = m]
      /\ req' = served
      /\ fetch' = [fetch EXCEPT ![id] = "body"]
      /\ playlist' = playlist /\ segments' = segments /\ now' = now
      /\ origin' = origin /\ fault' = fault /\ happened' = happened
      /\ unasked' = unasked
  BY <1>2 DEF HeaderRead
<1>4. /\ {"channel", "list"} \subseteq Ids /\ InnerIds \subseteq Ids
      /\ "channel" \notin InnerIds /\ "list" \notin InnerIds
      /\ Original \in Bodies
  BY Constant DEF Ids, ClientIds, InnerIds
<1>5. /\ m \in Muxes /\ m.exists = mux[id].exists /\ m.cached
      /\ m.wait = mux[id].wait /\ ~m.is_completed
      /\ m.body = mux[id].body /\ m.requests = mux[id].requests
  BY <1>1, <1>4 DEF Muxes
<1> HIDE DEF m
<1>6. /\ served \in [Clients -> Requests]
      /\ \A c \in Clients : c \notin mux[id].requests => served[c] = req[c]
  BY <1>1, <1>5, ServedTypes
<1>7. ASSUME NEW c \in mux[id].requests
      PROVE  /\ served[c].state = "live" /\ served[c].id = id
             /\ served[c].event_type # "SERVER_CLOSE"
             /\ served[c].sent = req[c].sent
             /\ served[c].flight = IF served[c].is_processing THEN 1 ELSE 0
             /\ m.wait => served[c] = req[c]
  <2>1. req[c] \in Requests /\ Registered(c, id) /\ c \in Clients
    BY <1>1
  <2>2. CASE req[c].is_processing
    <3>1. served[c] = req[c]
      BY <2>1, <2>2
    <3> HIDE DEF served
    <3> QED
      BY <2>1, <3>1 DEF Registered
  <2>3. CASE ~req[c].is_processing
    <3>1. served[c] = AddWriteHeaders(req[c], m)
      BY <1>5, <2>1, <2>3
    <3> HIDE DEF served
    <3>2. req[c].state = "live" /\ req[c].flight = 0 /\ req[c].id = id
            /\ req[c].event_type # "SERVER_CLOSE"
      BY <2>1, <2>3 DEF Registered
    <3> QED
      BY <1>5, <2>1, <2>3, <3>1, <3>2, WriteHeaders
  <2> QED
    BY <2>2, <2>3
<1> HIDE DEF served
<1>8. /\ mux' \in [Ids -> Muxes] /\ mux'[id] = m
      /\ \A i \in Ids : i # id => mux'[i] = mux[i]
      /\ fetch' \in [Ids -> FetchStates] /\ fetch'[id] = "body"
      /\ \A i \in Ids : i # id => fetch'[i] = fetch[i]
  BY <1>1, <1>3, <1>5 DEF TypeInv, FetchStates
<1>9. TypeInv'
  <2>1. \A i \in Ids : Len(mux'[i].body) <= TracksPerPlaylist
    BY <1>1, <1>5, <1>8 DEF TypeInv
  <2> QED
    BY <1>1, <1>3, <1>6, <1>8, <2>1 DEF TypeInv
<1>10. StampsEnd(playlist)'
  BY <1>3 DEF IInv, StampsEnd
<1>11. id = "channel" => /\ m.wait /\ ~mux["channel"].is_completed
                         /\ mux["channel"].body = Nothing
  BY <1>1, <1>2, <1>5 DEF Running, ChannelInv
<1>12. ChannelLength'
  <2>1. \A c \in Clients : req'[c].id = "channel" => req'[c] = req[c]
    BY <1>3, <1>6, <1>7, <1>11
  <2> QED
    BY <2>1 DEF IInv, ChannelLength
<1>13. \A i \in Ids : UnderWay(i)' <=> UnderWay(i)
  BY <1>2, <1>8 DEF UnderWay
<1>14. ChainInv'
  <2>1. \A i \in Ids : /\ ~mux'[i].exists => mux'[i] = NoMux
                       /\ fetch'[i] # "none" => mux'[i].exists
    BY <1>1, <1>2, <1>5, <1>8 DEF Running, ChainInv
  <2>2. \A i \in InnerIds : /\ mux'[i].requests = {}
                            /\ mux'[i].exists => i \in segments
    BY <1>1, <1>4, <1>5, <1>8 DEF Running, ChainInv
  <2> QED
    BY <1>1, <1>3, <1>4, <1>13, <2>1, <2>2
       DEF Running, ChainInv, NeverFailed
<1>15. ChannelInv'
  <2>1. CASE id = "channel"
    <3>1. \A c \in mux["channel"].requests : req'[c] = req[c]
      BY <1>3, <1>7, <1>11, <2>1
    <3> QED
      BY <1>1, <1>2, <1>3, <1>4, <1>5, <1>8, <1>11, <1>13, <2>1, <3>1
         DEF Running, ChannelInv, NeverFailed
  <2>2. CASE id # "channel"
    <3>1. \A c \in mux["channel"].requests : c \in Clients /\ req'[c] = req[c]
      BY <1>3, <1>4, <1>6, <2>2, RegisteredRequests DEF Registered
    <3>2. mux'["channel"] = mux["channel"]
            /\ fetch'["channel"] = fetch["channel"]
      BY <1>4, <1>8, <2>2
    <3> QED
      BY <1>1, <1>3, <3>1, <3>2, ChannelFrame DEF Running
  <2> QED
    BY <2>1, <2>2
<1>16. ListInv'
  <2>1. CASE id = "list"
    BY <1>1, <1>2, <1>3, <1>4, <1>5, <1>8, <1>13, <2>1
       DEF Running, ListInv, NeverFailed, Direct, Outlived, UnderWay
  <2>2. CASE id # "list"
    <3>1. \A c \in mux["list"].requests : req'[c] = req[c]
      BY <1>3, <1>4, <1>6, <2>2, RegisteredRequests DEF Registered
    <3>2. mux'["list"] = mux["list"] /\ fetch'["list"] = fetch["list"]
      BY <1>4, <1>8, <2>2
    <3> QED
      BY <1>1, <1>3, <3>1, <3>2, ListFrame DEF Running
  <2> QED
    BY <2>1, <2>2
<1>17. ASSUME NEW c \in Clients PROVE RequestInv(c)'
  <2>1. \A i \in Ids : c \in mux'[i].requests <=> c \in mux[i].requests
    BY <1>5, <1>8
  <2>2. CASE c \in mux[id].requests
    <3>1. \A i \in Ids : c \in mux'[i].requests <=> i = id
      BY <1>1, <2>1, <2>2 DEF RequestInv
    <3> QED
      BY <1>3, <1>5, <1>7, <1>8, <2>2, <3>1, StaysRegistered
  <2>3. CASE c \notin mux[id].requests
    <3>1. \A i \in Ids : c \in mux[i].requests => mux'[i] = mux[i]
      BY <1>8, <2>3
    <3>2. req'[c] = req[c]
      BY <1>3, <1>6, <2>3
    <3> QED
      BY <1>1, <1>3, <2>1, <3>1, <3>2, RequestFrame
  <2> QED
    BY <2>2, <2>3
<1>18. PlaylistInv'
  BY <1>1, <1>3 DEF Running, PlaylistInv
<1> QED
  BY <1>3, <1>9, <1>10, <1>12, <1>14, <1>15, <1>16, <1>17, <1>18, Runs
     DEF Running

(* A fetch that fails: whoever is registered is freed or closed.           *)
LEMMA FetchEndsStep ==
  ASSUME IInv, fault = "none", NEW id \in Ids,
         NEW ended \in [Clients -> Requests], FetchEnds(id, ended),
         \A c \in Clients :
           /\ ended[c].id = req[c].id /\ ended[c].told = req[c].told
           /\ ended[c].sent = req[c].sent
           /\ \/ ended[c].state = "freed" /\ ended[c].flight = req[c].flight
              \/ /\ ended[c].state = req[c].state
                 /\ ended[c].event_type = "SERVER_CLOSE"
                 /\ ended[c].flight = req[c].flight + 1
  PROVE  IInv'
<1> DEFINE answered == [c \in Clients |-> IF c \in mux[id].requests
                                            THEN ended[c] ELSE req[c]]
<1>1. /\ Running /\ TypeInv /\ mux[id] \in Muxes
      /\ mux[id].requests \subseteq Clients
      /\ \A c \in mux[id].requests : Registered(c, id)
      /\ \A c \in Clients : req[c] \in Requests /\ RequestInv(c)
                              /\ req[c].id \in Ids
  BY RegisteredRequests
<1>2. fetch[id] = "fetching" /\ mux[id].exists
  BY <1>1 DEF FetchEnds, Running, ChainInv
<1>3. /\ mux' = [mux EXCEPT ![id] = NoMux]
      /\ req' = answered
      /\ fetch' = [fetch EXCEPT ![id] = "none"]
      /\ happened' = happened \cup {"failed"}
      /\ playlist' = playlist /\ segments' = segments /\ now' = now
      /\ origin' = origin /\ fault' = fault /\ unasked' = unasked
  BY <1>2 DEF FetchEnds
<1>4. /\ {"channel", "list"} \subseteq Ids /\ InnerIds \subseteq Ids
      /\ Ids = {"channel", "list"} \cup InnerIds
      /\ "channel" \notin InnerIds /\ "list" \notin InnerIds
  BY DEF Ids, ClientIds, InnerIds
<1>5. /\ answered \in [Clients -> Requests]
      /\ \A c \in Clients :
           answered[c] = IF c \in mux[id].requests THEN ended[c] ELSE req[c]
  BY <1>1 DEF TypeInv
<1> HIDE DEF answered
<1>6. /\ mux' \in [Ids -> Muxes] /\ mux'[id] = NoMux
      /\ \A i \in Ids : i # id => mux'[i] = mux[i]
      /\ fetch' \in [Ids -> FetchStates] /\ fetch'[id] = "none"
      /\ \A i \in Ids : i # id => fetch'[i] = fetch[i]
  BY <1>1, <1>3, MuxTypes DEF TypeInv, FetchStates
<1>7. /\ ~NeverFailed' /\ happened \subseteq happened'
      /\ happened' \subseteq Exceptions
  BY <1>1, <1>3 DEF NeverFailed, TypeInv, Exceptions
<1>8. TypeInv'
  <2>1. \A i \in Ids : Len(mux'[i].body) <= TracksPerPlaylist
    BY <1>1, <1>6, MuxTypes, SizeAssumption DEF TypeInv
  <2> QED
    BY <1>1, <1>3, <1>5, <1>6, <1>7, <2>1 DEF TypeInv
<1>9. StampsEnd(playlist)' /\ ChannelLength'
  BY <1>3, <1>5 DEF IInv, StampsEnd, ChannelLength
<1>10. /\ id = "channel" => /\ ~mux["channel"].is_completed
                            /\ ~playlist.exists
       /\ id = "list" => Direct
  BY <1>1, <1>2 DEF Running, ChannelInv, ListInv
<1>11. ChainInv'
  <2>1. \A i \in Ids : /\ ~mux'[i].exists => mux'[i] = NoMux
                       /\ fetch'[i] # "none" => mux'[i].exists
    BY <1>1, <1>6 DEF Running, ChainInv
  <2>2. \A i \in InnerIds : /\ mux'[i].requests = {}
                            /\ mux'[i].exists => i \in segments
    BY <1>1, <1>4, <1>6, MuxTypes DEF Running, ChainInv
  <2> QED
    BY <1>1, <1>3, <1>7, <2>1, <2>2 DEF Running, ChainInv
<1>12. ChannelInv'
  <2>1. CASE id = "channel"
    BY <1>3, <1>6, <1>10, <2>1, MuxTypes DEF ChannelInv
  <2>2. CASE id # "channel"
    <3>1. \A c \in mux["channel"].requests : req'[c] = req[c]
      BY <1>1, <1>3, <1>4, <1>5, <2>2, RegisteredRequests DEF Registered
    <3>2. mux'["channel"] = mux["channel"]
            /\ fetch'["channel"] = fetch["channel"]
      BY <1>4, <1>6, <2>2
    <3> QED
      BY <1>1, <1>3, <1>7, <3>1, <3>2, ChannelFrame DEF Running
  <2> QED
    BY <2>1, <2>2
<1>13. ListInv'
  <2>1. CASE id = "list"
    BY <1>3, <1>6, <1>7, <1>10, <2>1, MuxTypes DEF ListInv, Direct
  <2>2. CASE id # "list"
    <3>1. \A c \in mux["list"].requests : req'[c] = req[c]
      BY <1>1, <1>3, <1>4, <1>5, <2>2, RegisteredRequests DEF Registered
    <3>2. mux'["list"] = mux["list"] /\ fetch'["list"] = fetch["list"]
      BY <1>4, <1>6, <2>2
    <3> QED
      BY <1>1, <1>3, <1>7, <3>1, <3>2, ListFrame DEF Running
  <2> QED
    BY <2>1, <2>2
<1>14. ASSUME NEW c \in Clients PROVE RequestInv(c)'
  <2>1. CASE c \in mux[id].requests
    <3>1. /\ req[c].state = "live" /\ req[c].id = id /\ req[c].flight \in Nat
          /\ req[c].event_type # "SERVER_CLOSE"
      BY <1>1, <2>1 DEF Registered, Requests
    <3>2. \A i \in Ids : c \notin mux'[i].requests
      <4>1. \A i \in Ids : i # id => c \notin mux[i].requests
        BY <1>1, <3>1 DEF RequestInv
      <4> QED
        BY <1>6, <4>1, MuxTypes
    <3>3. Direct' \/ req[c].flight = 0
      <4>1. CASE id = "channel"
        <5>1. req[c] = StreamRequest("channel")
          BY <1>1, <1>10, <2>1, <4>1 DEF Running, ChannelInv
        <5> QED
          BY <5>1, StreamFields DEF ClientIds
      <4>2. CASE id = "list"
        BY <1>7, <1>10, <4>2 DEF Direct
      <4>3. CASE id \in InnerIds
        BY <1>1, <2>1, <4>3 DEF Running, ChainInv
      <4> QED
        BY <1>4, <4>1, <4>2, <4>3
    <3>4. req'[c] = ended[c] /\ ended[c] \in Requests
      BY <1>3, <1>5, <2>1
    <3> QED
      BY <3>1, <3>2, <3>3, <3>4 DEF RequestInv, Outlived
  <2>2. CASE c \notin mux[id].requests
    <3>1. \A i \in Ids : /\ c \in mux'[i].requests <=> c \in mux[i].requests
                         /\ c \in mux[i].requests => mux'[i] = mux[i]
      BY <1>6, <2>2, MuxTypes
    <3>2. req'[c] = req[c]
      BY <1>3, <1>5, <2>2
    <3> QED
      BY <1>1, <1>7, <3>1, <3>2, RequestFrame
  <2> QED
    BY <2>1, <2>2
<1>15. PlaylistInv'
  BY <1>1, <1>3 DEF Running, PlaylistInv
<1> QED
  BY <1>3, <1>8, <1>9, <1>11, <1>12, <1>13, <1>14, <1>15, Runs DEF Running

LEMMA ReleaseErrorStep ==
  ASSUME IInv, fault = "none", NEW id \in Ids,
         ReleaseErrorAllWaitingRequest(id)
  PROVE  IInv'
<1> DEFINE ended == [c \in Clients |-> Released(req[c])]
<1>1. FetchEnds(id, ended)
  BY DEF ReleaseErrorAllWaitingRequest
<1>2. /\ ended \in [Clients -> Requests]
      /\ \A c \in Clients :
           /\ ended[c].id = req[c].id /\ ended[c].told = req[c].told
           /\ ended[c].sent = req[c].sent
           /\ ended[c].state = "freed" /\ ended[c].flight = req[c].flight
  <2>1. \A c \in Clients : req[c] \in Requests
    BY RegisteredRequests
  <2>2. NoMux \in Muxes
    BY MuxTypes
  <2> QED
    BY <2>1, <2>2, RequestTypes, RequestFields
<1> HIDE DEF ended
<1> QED
  BY <1>1, <1>2, FetchEndsStep

LEMMA CloseStreamStep ==
  ASSUME IInv, fault = "none", NEW id \in Ids, CloseStream(id)
  PROVE  IInv'
<1> DEFINE ended == [c \in Clients |-> CloseRequest(req[c])]
<1>1. FetchEnds(id, ended)
  BY DEF CloseStream
<1>2. /\ ended \in [Clients -> Requests]
      /\ \A c \in Clients :
           /\ ended[c].id = req[c].id /\ ended[c].told = req[c].told
           /\ ended[c].sent = req[c].sent /\ ended[c].state = req[c].state
           /\ ended[c].event_type = "SERVER_CLOSE"
           /\ ended[c].flight = req[c].flight + 1
  <2>1. \A c \in Clients : req[c] \in Requests
    BY RegisteredRequests
  <2>2. NoMux \in Muxes
    BY MuxTypes
  <2> QED
    BY <2>1, <2>2, RequestTypes, RequestFields
<1> HIDE DEF ended
<1> QED
  BY <1>1, <1>2, FetchEndsStep

(* What a new_buffer without anything in it leads to. *)
LEMMA UninitialisedStep ==
  ASSUME IInv, Uninitialised
  PROVE  IInv'
<1>1. /\ mux' = mux /\ playlist' = playlist /\ segments' = segments
      /\ fetch' = fetch /\ req' = req /\ now' = now /\ origin' = origin
      /\ unasked' = unasked /\ fault' = "undefined"
      /\ happened' = happened \cup {"foreign"}
  BY DEF Uninitialised
<1>2. TypeInv'
  BY <1>1 DEF IInv, TypeInv, Exceptions
<1>3. StampsEnd(playlist)' /\ ChannelLength'
  BY <1>1 DEF IInv, StampsEnd, ChannelLength
<1> QED
  BY <1>1, <1>2, <1>3, Dies

(* A body that leads nowhere. *)
LEMMA ForeignCompletedStep ==
  ASSUME IInv, fault = "none", NEW id \in ClientIds, ForeignCompleted(id)
  PROVE  IInv'
<1> DEFINE done == NotifyCacheCompleted(mux[id])
<1>0. /\ id \in Ids /\ id \in {"channel", "list"} /\ id \notin InnerIds
      /\ {"channel", "list"} \subseteq Ids /\ InnerIds \subseteq Ids
  BY DEF Ids, ClientIds, InnerIds
<1>1. /\ Running /\ TypeInv /\ mux[id] \in Muxes
      /\ mux[id].requests \subseteq Clients
      /\ \A c \in mux[id].requests : Registered(c, id)
      /\ \A c \in Clients : req[c] \in Requests /\ RequestInv(c)
                              /\ req[c].id \in Ids
  BY <1>0, RegisteredRequests
<1>2. fetch[id] = "whole" /\ mux[id].exists
  BY <1>0, <1>1 DEF ForeignCompleted, Ready, Running, ChainInv
<1>3. ASSUME /\ mux' = [mux EXCEPT ![id] = done.mux]
             /\ req' = done.req
             /\ fault' = done.fault
             /\ fetch' = [fetch EXCEPT ![id] = "none"]
             /\ happened' = happened \cup {"foreign"}
             /\ UNCHANGED <<playlist, segments, now, origin, unasked>>
      PROVE  IInv'
  <2>1. /\ done.mux \in Muxes /\ done.mux.exists = mux[id].exists
        /\ done.mux.cached = mux[id].cached /\ done.mux.wait = mux[id].wait
        /\ done.mux.header = mux[id].header /\ done.mux.body = mux[id].body
        /\ done.mux.is_completed
        /\ done.mux.requests \subseteq mux[id].requests
        /\ done.req \in [Clients -> Requests]
        /\ \A c \in Clients :
             c \notin mux[id].requests => done.req[c] = req[c]
        /\ \A c \in mux[id].requests :
             /\ done.req[c].state = "live" /\ done.req[c].id = id
             /\ c \in done.mux.requests <=>
                  done.req[c].event_type # "SERVER_CLOSE"
             /\ c \in done.mux.requests =>
                  /\ done.req[c].is_processing /\ done.req[c].flight = 1
                  /\ done.req[c].told = IF ~req[c].is_processing /\ mux[id].wait
                       THEN mux[id].header ELSE req[c].told
             /\ c \notin done.mux.requests => done.req[c].flight = 1
             /\ mux[id].wait => /\ c \in done.mux.requests
                                /\ done.req[c].sent = req[c].sent
        /\ done.fault \in {"none", "undefined"}
    <3>1. /\ mux[id] \in Muxes /\ req \in [Clients -> Requests]
          /\ \A c \in mux[id].requests : Registered(c, id)
      BY <1>1 DEF TypeInv
    <3>2. done = NotifyCacheCompleted(mux[id])
      OBVIOUS
    <3> HIDE DEF done
    <3> QED
      BY <3>1, <3>2, Completion
  <2> HIDE DEF done
  <2>2. /\ playlist' = playlist /\ segments' = segments /\ now' = now
        /\ origin' = origin /\ unasked' = unasked
        /\ mux' = [mux EXCEPT ![id] = done.mux] /\ req' = done.req
        /\ fault' = done.fault /\ happened' = happened \cup {"foreign"}
        /\ fetch' = [fetch EXCEPT ![id] = "none"]
    BY <1>3
  <2>3. /\ mux' \in [Ids -> Muxes] /\ mux'[id] = done.mux
        /\ \A i \in Ids : i # id => mux'[i] = mux[i]
        /\ fetch' \in [Ids -> FetchStates] /\ fetch'[id] = "none"
        /\ \A i \in Ids : i # id => fetch'[i] = fetch[i]
    BY <1>0, <1>1, <2>1, <2>2 DEF TypeInv, FetchStates
  <2>4. /\ ~NeverFailed' /\ happened \subseteq happened'
        /\ happened' \subseteq Exceptions /\ "foreign" \in happened'
    BY <1>1, <2>2 DEF NeverFailed, TypeInv, Exceptions
  <2>5. TypeInv'
    <3>1. \A i \in Ids : Len(mux'[i].body) <= TracksPerPlaylist
      BY <1>1, <2>1, <2>3 DEF TypeInv
    <3>2. fault' \in {"none", "terminate", "undefined"}
      BY <2>1, <2>2
    <3> QED
      BY <1>1, <2>1, <2>2, <2>3, <2>4, <3>1, <3>2 DEF TypeInv
  <2>6. StampsEnd(playlist)'
    BY <2>2 DEF IInv, StampsEnd
  <2>7. id = "channel" =>
          /\ mux[id].wait /\ ~mux[id].is_completed /\ mux[id].cached
          /\ mux[id].body = Nothing /\ ~playlist.exists
          /\ \A c \in mux[id].requests : req[c] = StreamRequest("channel")
    BY <1>1, <1>2 DEF Running, ChannelInv
  <2>8. ChannelLength'
    <3>1. ASSUME NEW c \in Clients, req'[c].id = "channel",
                 req'[c].sent # Nothing
          PROVE  req'[c].told = req'[c].sent
      <4>1. CASE c \in mux[id].requests
        <5>1. id = "channel"
          BY <2>1, <2>2, <3>1, <4>1
        <5>2. req[c].sent = Nothing
          BY <2>7, <4>1, <5>1, StreamFields DEF ClientIds
        <5> QED
          BY <2>1, <2>2, <2>7, <3>1, <4>1, <5>1, <5>2
      <4>2. CASE c \notin mux[id].requests
        BY <2>1, <2>2, <3>1, <4>2 DEF IInv, ChannelLength
      <4> QED
        BY <4>1, <4>2
    <3> QED
      BY <3>1 DEF ChannelLength
  <2>9. CASE fault' # "none"
    BY <2>1, <2>2, <2>4, <2>5, <2>6, <2>8, <2>9, Dies
  <2>10. CASE fault' = "none"
    <3>1. ChainInv'
      <4>1. \A i \in Ids : /\ ~mux'[i].exists => mux'[i] = NoMux
                           /\ fetch'[i] # "none" => mux'[i].exists
        <5>1. mux'[id].exists
          BY <1>2, <2>1, <2>3
        <5> QED
          BY <1>1, <2>3, <5>1 DEF Running, ChainInv
      <4>2. \A i \in InnerIds : mux'[i] = mux[i]
        BY <1>0, <2>3
      <4> QED
        BY <1>1, <2>2, <2>4, <4>1, <4>2 DEF Running, ChainInv
    <3>2. ChannelInv'
      <4>1. CASE id = "channel"
        <5>1. \A c \in mux[id].requests : ~req[c].is_processing
          BY <2>7, <4>1, StreamFields DEF ClientIds
        <5>2. \A c \in mux'["channel"].requests :
                req'[c].told = mux'["channel"].header
          BY <2>1, <2>2, <2>3, <2>7, <4>1, <5>1
        <5> QED
          BY <1>2, <2>1, <2>2, <2>3, <2>4, <2>7, <4>1, <5>2
             DEF ChannelInv
      <4>2. CASE id # "channel"
        <5>1. \A c \in mux["channel"].requests : req'[c] = req[c]
          BY <1>0, <1>1, <2>1, <2>2, <4>2, RegisteredRequests DEF Registered
        <5>2. mux'["channel"] = mux["channel"]
                /\ fetch'["channel"] = fetch["channel"]
          BY <1>0, <2>3, <4>2
        <5> QED
          BY <1>1, <2>2, <2>4, <5>1, <5>2, ChannelFrame DEF Running
      <4> QED
        BY <4>1, <4>2
    <3>3. ListInv'
      <4>1. CASE id = "list"
        <5>1. Direct' /\ Outlived' /\ mux["list"].cached
          BY <1>1, <1>2, <2>4, <4>1, Exceptional
             DEF Running, ListInv, Outlived
        <5> QED
          BY <1>2, <2>1, <2>3, <2>4, <4>1, <5>1 DEF ListInv
      <4>2. CASE id # "list"
        <5>1. \A c \in mux["list"].requests : req'[c] = req[c]
          BY <1>0, <1>1, <2>1, <2>2, <4>2, RegisteredRequests DEF Registered
        <5>2. mux'["list"] = mux["list"] /\ fetch'["list"] = fetch["list"]
          BY <1>0, <2>3, <4>2
        <5> QED
          BY <1>1, <2>2, <2>4, <5>1, <5>2, ListFrame DEF Running
      <4> QED
        BY <4>1, <4>2
    <3>4. ASSUME NEW c \in Clients PROVE RequestInv(c)'
      <4>1. CASE c \in mux[id].requests
        <5>1. \A i \in Ids : i # id => c \notin mux'[i].requests
          BY <1>0, <1>1, <2>3, <4>1 DEF Registered, RequestInv
        <5>2. CASE c \in done.mux.requests
          <6>1. \A i \in Ids : c \in mux'[i].requests <=> i = id
            BY <2>3, <5>1, <5>2
          <6> QED
            BY <1>0, <2>1, <2>2, <4>1, <5>2, <6>1, StaysRegistered
        <5>3. CASE c \notin done.mux.requests
          <6>1. /\ req'[c].state = "live" /\ req'[c].flight = 1
                /\ req'[c].event_type = "SERVER_CLOSE"
            BY <2>1, <2>2, <4>1, <5>3
          <6>2. \A i \in Ids : c \notin mux'[i].requests
            BY <2>3, <5>1, <5>3
          <6> QED
            BY <6>1, <6>2 DEF RequestInv
        <5> QED
          BY <5>2, <5>3
      <4>2. CASE c \notin mux[id].requests
        <5>1. \A i \in Ids : /\ c \in mux'[i].requests <=> c \in mux[i].requests
                             /\ c \in mux[i].requests => mux'[i] = mux[i]
          BY <2>1, <2>3, <4>2
        <5>2. req'[c] = req[c]
          BY <2>1, <2>2, <4>2
        <5> QED
          BY <1>1, <2>4, <5>1, <5>2, RequestFrame
      <4> QED
        BY <4>1, <4>2
    <3>5. PlaylistInv'
      BY <1>1, <2>2 DEF Running, PlaylistInv
    <3> QED
      BY <2>5, <2>6, <2>8, <2>10, <3>1, <3>2, <3>3, <3>4, <3>5, Runs
         DEF Running
  <2> QED
    BY <2>9, <2>10
<1> HIDE DEF done
<1> QED
  BY <1>2, <1>3, UninitialisedStep DEF ForeignCompleted, done

LEMMA NoPlaylistType ==
  /\ NoPlaylist \in Playlists /\ ~NoPlaylist.exists
  /\ NoPlaylist.tracks = <<>> /\ NoPlaylist.last_stamp = 0
<1>1. 0 \in 0 .. RemainingFetches /\ <<>> \in Bodies
  BY SizeAssumption, EmptySeq DEF Bodies
<1> QED
  BY <1>1 DEF NoPlaylist, Playlists

(* Without a playlist there is nothing of the server's own fetches. *)
LEMMA NoChain ==
  ASSUME Running, ~playlist.exists
  PROVE  /\ segments \cap InnerIds = {}
         /\ \A id \in InnerIds : ~mux[id].exists /\ fetch[id] = "none"
BY DEF Running, ChainInv, Ids

(* The channel leads to a playlist: it was not there before. *)
LEMMA ChannelCompletedStep ==
  ASSUME IInv, fault = "none", ChannelCompleted
  PROVE  IInv'
<1> DEFINE ch == mux["channel"]
           m == ProcessChannel(ch)
           done == NotifyCacheCompleted(m)
           p == [NoPlaylist EXCEPT !.exists = TRUE,
                                   !.remaining = RemainingFetches]
           l == [NewMux EXCEPT !.cached = TRUE, !.wait = TRUE]
<1>0. /\ Ids = {"channel", "list", "inner_channel", "inner_list"}
      /\ InnerIds = {"inner_channel", "inner_list"}
      /\ "channel" \in ClientIds
  BY DEF Ids, ClientIds, InnerIds
<1>1. /\ Running /\ TypeInv /\ ch \in Muxes /\ ch.requests \subseteq Clients
      /\ \A c \in ch.requests : Registered(c, "channel")
      /\ \A c \in Clients : req[c] \in Requests /\ RequestInv(c)
                              /\ req[c].id \in Ids
  BY <1>0, RegisteredRequests
<1>2. /\ ch.exists /\ fetch["channel"] = "whole" /\ ch.wait /\ ch.cached
      /\ ~ch.is_completed /\ ch.body = Nothing /\ ~playlist.exists
      /\ \A c \in ch.requests : req[c] = StreamRequest("channel")
  BY <1>1 DEF ChannelCompleted, Ready, Running, ChannelInv
<1>3. /\ segments = {}
      /\ ~mux["inner_list"].exists /\ ~mux["inner_channel"].exists
      /\ fetch["inner_list"] = "none" /\ fetch["inner_channel"] = "none"
  BY <1>0, <1>1, <1>2, NoChain DEF TypeInv
<1>4. /\ m \in Muxes /\ m.exists = ch.exists /\ m.wait = ch.wait
      /\ m.cached = ch.cached /\ m.body = Rewritten /\ m.header = Rewritten
      /\ m.requests = ch.requests
  BY <1>1, Constant DEF ProcessChannel, Muxes
<1>5. /\ p \in Playlists /\ p.exists /\ p.remaining = RemainingFetches
      /\ p.tracks = <<>> /\ p.last_stamp = 0 /\ Len(p.tracks) = 0
  <2>1. NoPlaylist \in Playlists /\ NoPlaylist.tracks = <<>>
          /\ NoPlaylist.last_stamp = 0
    BY NoPlaylistType
  <2>2. RemainingFetches \in 0 .. RemainingFetches
    BY SizeAssumption
  <2> QED
    BY <2>1, <2>2, EmptySeq DEF Playlists
<1>6. /\ l \in Muxes /\ l.exists /\ l.cached /\ l.wait /\ ~l.is_completed
      /\ l.body = Nothing /\ Len(l.body) = 0 /\ l.requests = {}
  BY MuxTypes DEF Muxes
<1>7. /\ playlist' = p
      /\ mux' = [[[mux EXCEPT !["list"] = IF mux["list"].exists
                                            THEN mux["list"] ELSE l]
                    EXCEPT !["inner_list"] = NewMux]
                    EXCEPT !["channel"] = done.mux]
      /\ segments' = {"inner_list"}
      /\ fetch' = [fetch EXCEPT !["channel"] = "none",
                                !["inner_list"] = "delayed"]
      /\ req' = done.req /\ unasked' = 0
      /\ now' = now /\ origin' = origin /\ fault' = fault
      /\ happened' = happened
  <2>1. /\ playlist' = p /\ segments' = {"inner_list"}
        /\ fetch' = [fetch EXCEPT !["channel"] = "none",
                                  !["inner_list"] = "delayed"]
        /\ req' = done.req /\ unasked' = 0
        /\ now' = now /\ origin' = origin /\ fault' = fault
        /\ happened' = happened
        /\ mux' = [RequestFile(CreatePlaylist(mux), "inner_list")
                     EXCEPT !["channel"] = done.mux]
    BY <1>2, <1>3 DEF ChannelCompleted
  <2> HIDE DEF p, done
  <2>2. mux \in [Ids -> Muxes]
    BY <1>1 DEF TypeInv
  <2>3. CreatePlaylist(mux) = [mux EXCEPT !["list"] =
          IF mux["list"].exists THEN mux["list"] ELSE l]
    BY <1>2, <2>2 DEF CreatePlaylist
  <2>4. ~CreatePlaylist(mux)["inner_list"].exists
    BY <1>0, <1>3, <2>2, <2>3
  <2> HIDE DEF l
  <2>5. RequestFile(CreatePlaylist(mux), "inner_list")
          = [CreatePlaylist(mux) EXCEPT !["inner_list"] = NewMux]
    BY <1>0, <2>2, <2>3, <2>4 DEF RequestFile
  <2> QED
    BY <2>1, <2>3, <2>5
<1>8. done = NotifyCacheCompleted(m)
  OBVIOUS
<1> HIDE DEF m, done, p, l
<1>9. /\ done.mux \in Muxes /\ done.mux.exists = m.exists
      /\ done.mux.cached = m.cached /\ done.mux.wait = m.wait
      /\ done.mux.header = m.header /\ done.mux.body = m.body
      /\ done.mux.is_completed /\ done.mux.requests \subseteq m.requests
      /\ done.req \in [Clients -> Requests]
      /\ \A c \in Clients : c \notin m.requests => done.req[c] = req[c]
      /\ \A c \in m.requests :
           /\ done.req[c].state = "live" /\ done.req[c].id = "channel"
           /\ c \in done.mux.requests <=>
                done.req[c].event_type # "SERVER_CLOSE"
           /\ c \in done.mux.requests =>
                /\ done.req[c].is_processing /\ done.req[c].flight = 1
                /\ done.req[c].told = IF ~req[c].is_processing /\ m.wait
                     THEN m.header ELSE req[c].told
           /\ c \notin done.mux.requests => done.req[c].flight = 1
           /\ m.wait => /\ c \in done.mux.requests
                        /\ done.req[c].sent = req[c].sent
  <2>1. /\ req \in [Clients -> Requests]
        /\ \A c \in m.requests : Registered(c, "channel")
    BY <1>1, <1>4 DEF TypeInv
  <2> QED
    BY <1>4, <1>8, <2>1, Completion
<1>10. /\ mux' \in [Ids -> Muxes] /\ mux'["channel"] = done.mux
       /\ mux'["list"] = IF mux["list"].exists THEN mux["list"] ELSE l
       /\ mux'["inner_list"] = NewMux
       /\ mux'["inner_channel"] = mux["inner_channel"]
  <2>1. mux \in [Ids -> Muxes] /\ NewMux \in Muxes
    BY <1>1, MuxTypes DEF TypeInv
  <2>2. (IF mux["list"].exists THEN mux["list"] ELSE l) \in Muxes
    BY <1>0, <1>6, <2>1
  <2> QED
    BY <1>0, <1>7, <1>9, <2>1, <2>2
<1>11. /\ fetch' \in [Ids -> FetchStates] /\ fetch'["channel"] = "none"
       /\ fetch'["inner_list"] = "delayed" /\ fetch'["list"] = fetch["list"]
       /\ fetch'["inner_channel"] = fetch["inner_channel"]
  BY <1>0, <1>1, <1>7 DEF TypeInv, FetchStates
<1>12. TypeInv'
  <2>1. /\ Len(mux'["channel"].body) <= TracksPerPlaylist
        /\ Len(mux'["list"].body) <= TracksPerPlaylist
        /\ Len(mux'["inner_list"].body) <= TracksPerPlaylist
        /\ Len(mux'["inner_channel"].body) <= TracksPerPlaylist
    <3>1. mux'["channel"].body = Rewritten /\ Len(Rewritten) = 1
      BY <1>4, <1>9, <1>10, Constant
    <3>2. /\ Len(mux["list"].body) <= TracksPerPlaylist
          /\ Len(mux["inner_channel"].body) <= TracksPerPlaylist
      BY <1>0, <1>1 DEF TypeInv
    <3>3. /\ mux'["list"].body = mux["list"].body \/ mux'["list"].body = l.body
          /\ mux'["inner_list"].body = NewMux.body
          /\ mux'["inner_channel"].body = mux["inner_channel"].body
      BY <1>10
    <3>4. Len(NewMux.body) = 0 /\ Len(l.body) = 0
      BY <1>6, MuxTypes
    <3> QED
      BY <3>1, <3>2, <3>3, <3>4, SizeAssumption
  <2>2. \A id \in Ids : Len(mux'[id].body) <= TracksPerPlaylist
    BY <1>0, <2>1
  <2>3. playlist' \in Playlists /\ Len(playlist'.tracks) <= MaxTracks
    BY <1>5, <1>7, SizeAssumption
  <2>4. segments' \subseteq InnerIds /\ unasked' \in 0 .. RemainingFetches
    BY <1>0, <1>7, SizeAssumption
  <2> QED
    BY <1>1, <1>7, <1>9, <1>10, <1>11, <2>2, <2>3, <2>4 DEF TypeInv
<1>13. StampsEnd(playlist)'
  BY <1>5, <1>7, EmptySeq DEF StampsEnd
<1>14. \A c \in ch.requests :
         ~req[c].is_processing /\ req[c].sent = Nothing
  BY <1>0, <1>2, StreamFields
<1>15. ChannelLength'
  BY <1>2, <1>4, <1>7, <1>9, <1>14 DEF IInv, ChannelLength
<1>16. ChainInv'
  <2>1. \A id \in Ids : /\ ~mux'[id].exists => mux'[id] = NoMux
                        /\ fetch'[id] # "none" => mux'[id].exists
    <3>1. /\ mux'["channel"].exists /\ mux'["inner_list"].exists
      BY <1>2, <1>4, <1>9, <1>10, MuxTypes
    <3>2. mux'["list"].exists
      BY <1>6, <1>10
    <3>3. mux'["inner_channel"] = NoMux /\ fetch'["inner_channel"] = "none"
      BY <1>0, <1>1, <1>3, <1>10, <1>11 DEF Running, ChainInv
    <3> QED
      BY <1>0, <3>1, <3>2, <3>3
  <2>2. /\ mux'["inner_list"].requests = {}
        /\ mux'["inner_channel"].requests = {}
        /\ ~mux'["inner_channel"].exists
    BY <1>0, <1>1, <1>3, <1>10, MuxTypes DEF Running, ChainInv
  <2>3. UnderWay("inner_list")'
    BY <1>11 DEF UnderWay
  <2> QED
    BY <1>0, <1>5, <1>7, <2>1, <2>2, <2>3 DEF ChainInv
<1>17. ChannelInv'
  <2>1. \A c \in mux'["channel"].requests :
          req'[c].told = mux'["channel"].header
    BY <1>2, <1>4, <1>7, <1>9, <1>10, <1>14
  <2>2. /\ mux'["channel"].exists /\ mux'["channel"].wait
        /\ mux'["channel"].cached /\ mux'["channel"].is_completed
        /\ mux'["channel"].header = mux'["channel"].body
        /\ fetch'["channel"] = "none" /\ playlist'.exists
    <3>1. mux'["channel"] = done.mux /\ playlist' = p
      BY <1>7, <1>10
    <3>2. /\ done.mux.exists = ch.exists /\ done.mux.wait = ch.wait
          /\ done.mux.cached = ch.cached /\ done.mux.is_completed
      BY <1>4, <1>9
    <3>3. done.mux.header = Rewritten /\ done.mux.body = Rewritten
      BY <1>4, <1>9
    <3> HIDE DEF ch
    <3>4. /\ done.mux.exists /\ done.mux.wait /\ done.mux.cached
      BY <1>2, <3>2
    <3> QED
      BY <1>5, <1>11, <3>1, <3>2, <3>3, <3>4
  <2> QED
    BY <2>1, <2>2 DEF ChannelInv
<1>18. ListInv'
  <2>1. CASE mux["list"].exists
    <3>1. \A c \in mux["list"].requests : req'[c] = req[c]
      <4>1. \A c \in mux["list"].requests :
              c \in Clients /\ c \notin ch.requests
        BY <1>0, <1>1, RegisteredRequests DEF Registered
      <4> QED
        BY <1>4, <1>7, <1>9, <4>1
    <3>2. /\ mux'["list"] = mux["list"] /\ fetch'["list"] = fetch["list"]
          /\ Outlived
      BY <1>1, <1>2, <1>10, <1>11, <2>1 DEF Running, ListInv
    <3>3. playlist'.exists /\ playlist'.remaining > 0
      BY <1>5, <1>7, SizeAssumption
    <3> QED
      BY <1>1, <1>7, <2>1, <3>1, <3>2, <3>3
         DEF Running, ListInv, Direct, Outlived
  <2>2. CASE ~mux["list"].exists
    <3>1. mux'["list"] = l
      BY <1>10, <2>2
    <3>2. fetch'["list"] = "none"
      BY <1>0, <1>1, <1>11, <2>2 DEF Running, ChainInv
    <3>3. playlist'.exists /\ playlist'.remaining > 0
      BY <1>5, <1>7, SizeAssumption
    <3> QED
      BY <1>6, <3>1, <3>2, <3>3 DEF ListInv
  <2> QED
    BY <2>1, <2>2
<1>19. ASSUME NEW c \in Clients PROVE RequestInv(c)'
  <2>1. CASE c \in ch.requests
    <3>1. \A id \in Ids : c \in mux'[id].requests <=> id = "channel"
      <4>1. \A id \in Ids : id # "channel" => c \notin mux[id].requests
        BY <1>0, <1>1, <2>1 DEF Registered, RequestInv
      <4>2. c \in done.mux.requests
        BY <1>2, <1>4, <1>9, <2>1
      <4>3. /\ c \notin mux'["list"].requests
            /\ c \notin mux'["inner_list"].requests
            /\ c \notin mux'["inner_channel"].requests
        BY <1>0, <1>6, <1>10, <4>1, MuxTypes
      <4> QED
        BY <1>0, <1>10, <4>2, <4>3
    <3>2. /\ req'[c].state = "live" /\ req'[c].id = "channel"
          /\ req'[c].event_type # "SERVER_CLOSE"
          /\ req'[c].is_processing /\ req'[c].flight = 1
      BY <1>2, <1>4, <1>7, <1>9, <2>1
    <3>3. "channel" \in Ids
      BY <1>0
    <3> QED
      BY <3>1, <3>2, <3>3, StaysRegistered
  <2>2. CASE c \notin ch.requests
    <3>1. /\ c \notin mux'["channel"].requests
          /\ c \in mux'["list"].requests <=> c \in mux["list"].requests
          /\ c \notin mux'["inner_list"].requests
          /\ c \notin mux["inner_list"].requests
      <4>1. ~mux["list"].exists => mux["list"].requests = {}
        BY <1>0, <1>1, MuxTypes DEF Running, ChainInv
      <4> QED
        BY <1>0, <1>1, <1>4, <1>6, <1>9, <1>10, <2>2, <4>1, MuxTypes
           DEF Running, ChainInv
    <3>2. \A id \in Ids : c \in mux[id].requests => mux'[id] = mux[id]
      <4>1. c \in mux["list"].requests => mux["list"].exists
        BY <1>0, <1>1, MuxTypes DEF Running, ChainInv
      <4> QED
        BY <1>0, <1>10, <2>2, <3>1, <4>1
    <3>3. \A id \in Ids : c \in mux'[id].requests <=> c \in mux[id].requests
      BY <1>0, <1>10, <2>2, <3>1
    <3>4. req'[c] = req[c]
      BY <1>4, <1>7, <1>9, <2>2
    <3> QED
      BY <1>1, <1>7, <3>2, <3>3, <3>4, RequestFrame
  <2> QED
    BY <2>1, <2>2
<1>20. PlaylistInv'
  BY <1>5, <1>7, SizeAssumption DEF PlaylistInv
<1> QED
  BY <1>7, <1>12, <1>13, <1>15, <1>16, <1>17, <1>18, <1>19, <1>20, Runs
     DEF Running

-----------------------------------------------------------------------------
(* The server's own fetches. *)

(* While one of them is under way there is the playlist, and not the other *)
(* one.                                                                    *)
LEMMA InnerFetch ==
  ASSUME Running, TypeInv, NEW a \in InnerIds, NEW b \in InnerIds, a # b,
         fetch[a] # "none"
  PROVE  /\ mux[a].exists /\ mux[a].requests = {} /\ playlist.exists
         /\ segments = {a} /\ mux[b] = NoMux /\ fetch[b] = "none"
         /\ mux["channel"].exists /\ mux["channel"].is_completed
<1>1. /\ a \in Ids /\ b \in Ids /\ InnerIds = {a, b}
      /\ InnerIds = {"inner_channel", "inner_list"}
      /\ segments \subseteq InnerIds
  BY DEF Ids, InnerIds, TypeInv
<1>2. mux[a].exists /\ a \in segments /\ mux[a].requests = {}
  BY <1>1 DEF Running, ChainInv
<1>3. playlist.exists /\ b \notin segments
  BY <1>1, <1>2 DEF Running, ChainInv
<1>4. mux[b] = NoMux /\ fetch[b] = "none"
  BY <1>1, <1>3 DEF Running, ChainInv
<1> QED
  BY <1>1, <1>2, <1>3, <1>4 DEF Running, ChannelInv

LEMMA ChainMoves ==
  ASSUME Running, TypeInv, NEW a \in InnerIds, NEW b \in InnerIds, a # b,
         fetch[a] # "none", happened \subseteq happened', playlist'.exists,
         mux'[a] = NoMux, mux'[b] = NewMux, segments' = {b},
         fetch'[a] = "none", fetch'[b] = "delayed",
         \A id \in Ids \ {a, b} :
           /\ fetch'[id] = fetch[id]
           /\ mux'[id].exists = mux[id].exists
           /\ ~mux[id].exists => mux'[id] = mux[id]
  PROVE  ChainInv'
<1>1. InnerIds = {a, b} /\ InnerIds = {"inner_channel", "inner_list"}
  BY DEF InnerIds
<1>2. NewMux.exists /\ NewMux.requests = {} /\ NoMux.requests = {}
        /\ ~NoMux.exists
  BY MuxTypes
<1>3. \A id \in Ids : /\ ~mux'[id].exists => mux'[id] = NoMux
                      /\ fetch'[id] # "none" => mux'[id].exists
  <2>1. \A id \in Ids \ {a, b} :
          /\ ~mux'[id].exists => mux'[id] = NoMux
          /\ fetch'[id] # "none" => mux'[id].exists
    BY DEF Running, ChainInv
  <2> QED
    BY <1>2, <2>1
<1>4. UnderWay(b)'
  BY DEF UnderWay
<1>5. ~("inner_channel" \in segments' /\ "inner_list" \in segments')
  BY <1>1
<1> QED
  BY <1>1, <1>2, <1>3, <1>4, <1>5 DEF ChainInv

(* The index that the server fetched leads to the list. *)
LEMMA InnerChannelCompletedStep ==
  ASSUME IInv, fault = "none", InnerChannelCompleted
  PROVE  IInv'
<1>0. /\ Ids = {"channel", "list", "inner_channel", "inner_list"}
      /\ InnerIds = {"inner_channel", "inner_list"}
  BY DEF Ids, ClientIds, InnerIds
<1>1. /\ Running /\ TypeInv
      /\ \A c \in Clients : RequestInv(c) /\ req[c].id \in Ids
  BY RegisteredRequests
<1>2. fetch["inner_channel"] = "whole"
  BY DEF InnerChannelCompleted, Ready
<1>3. /\ mux["inner_channel"].exists /\ playlist.exists
      /\ segments = {"inner_channel"} /\ mux["inner_list"] = NoMux
      /\ mux["inner_channel"].requests = {}
  BY <1>0, <1>1, <1>2, InnerFetch
<1>4. /\ mux' = [[mux EXCEPT !["inner_list"] = NewMux]
                   EXCEPT !["inner_channel"] = NoMux]
      /\ segments' = {"inner_list"}
      /\ fetch' = [fetch EXCEPT !["inner_channel"] = "none",
                                !["inner_list"] = "delayed"]
      /\ playlist' = playlist /\ req' = req /\ now' = now
      /\ origin' = origin /\ fault' = fault /\ happened' = happened
      /\ unasked' = unasked
  <2>1. mux \in [Ids -> Muxes] /\ ~mux["inner_list"].exists
    BY <1>1, <1>3, MuxTypes DEF TypeInv
  <2>2. RequestFile(mux, "inner_list")
          = [mux EXCEPT !["inner_list"] = NewMux]
    BY <1>0, <2>1 DEF RequestFile
  <2> QED
    BY <1>3, <2>2 DEF InnerChannelCompleted
<1>5. /\ mux' \in [Ids -> Muxes] /\ mux'["inner_list"] = NewMux
      /\ mux'["inner_channel"] = NoMux
      /\ mux'["channel"] = mux["channel"] /\ mux'["list"] = mux["list"]
  BY <1>0, <1>1, <1>4, MuxTypes DEF TypeInv
<1>6. /\ fetch' \in [Ids -> FetchStates]
      /\ fetch'["inner_list"] = "delayed"
      /\ fetch'["inner_channel"] = "none"
      /\ fetch'["channel"] = fetch["channel"]
      /\ fetch'["list"] = fetch["list"]
  BY <1>0, <1>1, <1>4 DEF TypeInv, FetchStates
<1>7. TypeInv'
  <2>1. \A id \in Ids : Len(mux'[id].body) <= TracksPerPlaylist
    BY <1>0, <1>1, <1>5, MuxTypes, SizeAssumption DEF TypeInv
  <2> QED
    BY <1>0, <1>1, <1>4, <1>5, <1>6, <2>1 DEF TypeInv
<1>8. StampsEnd(playlist)' /\ ChannelLength'
  BY <1>4 DEF IInv, StampsEnd, ChannelLength
<1>9. ChainInv'
  BY <1>0, <1>1, <1>2, <1>3, <1>4, <1>5, <1>6, ChainMoves
<1>10. ChannelInv'
  BY <1>1, <1>4, <1>5, <1>6, ChannelFrame DEF Running
<1>11. ListInv'
  BY <1>1, <1>4, <1>5, <1>6, ListFrame DEF Running
<1>12. ASSUME NEW c \in Clients PROVE RequestInv(c)'
  <2>1. \A id \in Ids : /\ c \in mux'[id].requests <=> c \in mux[id].requests
                        /\ c \in mux[id].requests => mux'[id] = mux[id]
    BY <1>0, <1>3, <1>5, MuxTypes
  <2> QED
    BY <1>1, <1>4, <2>1, RequestFrame
<1>13. PlaylistInv'
  BY <1>1, <1>4 DEF Running, PlaylistInv
<1> QED
  BY <1>4, <1>7, <1>8, <1>9, <1>10, <1>11, <1>12, <1>13, Runs DEF Running

(* It leads nowhere, and the chain has ended. *)
LEMMA InnerForeignCompletedStep ==
  ASSUME IInv, fault = "none", InnerForeignCompleted
  PROVE  IInv'
<1>0. /\ Ids = {"channel", "list", "inner_channel", "inner_list"}
      /\ InnerIds = {"inner_channel", "inner_list"}
  BY DEF Ids, ClientIds, InnerIds
<1>1. /\ Running /\ TypeInv
      /\ \A c \in Clients : RequestInv(c) /\ req[c].id \in Ids
  BY RegisteredRequests
<1>2. fetch["inner_channel"] = "whole"
  BY DEF InnerForeignCompleted, Ready
<1>3. /\ segments = {"inner_channel"} /\ mux["inner_list"] = NoMux
      /\ mux["inner_channel"].requests = {} /\ fetch["inner_list"] = "none"
  BY <1>0, <1>1, <1>2, InnerFetch
<1>4. ASSUME mux' = [mux EXCEPT !["inner_channel"] = NoMux],
             segments' = segments \ {"inner_channel"},
             fetch' = [fetch EXCEPT !["inner_channel"] = "none"],
             happened' = happened \cup {"foreign"},
             UNCHANGED <<playlist, req, now, origin, fault, unasked>>
      PROVE  IInv'
  <2>1. /\ playlist' = playlist /\ req' = req /\ now' = now
        /\ origin' = origin /\ fault' = fault /\ unasked' = unasked
        /\ happened \subseteq happened' /\ ~NeverFailed'
        /\ happened' \subseteq Exceptions /\ segments' = {}
    BY <1>1, <1>3, <1>4 DEF NeverFailed, TypeInv, Exceptions
  <2>2. /\ mux' \in [Ids -> Muxes] /\ mux'["inner_channel"] = NoMux
        /\ \A id \in Ids : id # "inner_channel" => mux'[id] = mux[id]
        /\ fetch' \in [Ids -> FetchStates] /\ fetch'["inner_channel"] = "none"
        /\ \A id \in Ids : id # "inner_channel" => fetch'[id] = fetch[id]
    BY <1>0, <1>1, <1>4, MuxTypes DEF TypeInv, FetchStates
  <2>3. TypeInv'
    <3>1. \A id \in Ids : Len(mux'[id].body) <= TracksPerPlaylist
      BY <1>1, <2>2, MuxTypes, SizeAssumption DEF TypeInv
    <3> QED
      BY <1>1, <2>1, <2>2, <3>1 DEF TypeInv
  <2>4. StampsEnd(playlist)' /\ ChannelLength'
    BY <2>1 DEF IInv, StampsEnd, ChannelLength
  <2>5. ChainInv'
    <3>1. \A id \in Ids : /\ ~mux'[id].exists => mux'[id] = NoMux
                          /\ fetch'[id] # "none" => mux'[id].exists
      BY <1>1, <2>2 DEF Running, ChainInv
    <3>2. \A id \in InnerIds : mux'[id].requests = {} /\ ~mux'[id].exists
      BY <1>0, <1>3, <2>2, MuxTypes
    <3> QED
      BY <1>0, <2>1, <3>1, <3>2 DEF ChainInv
  <2>6. /\ mux'["channel"] = mux["channel"] /\ mux'["list"] = mux["list"]
        /\ fetch'["channel"] = fetch["channel"]
        /\ fetch'["list"] = fetch["list"]
    BY <1>0, <2>2
  <2>7. ChannelInv'
    BY <1>1, <2>1, <2>6, ChannelFrame DEF Running
  <2>8. ListInv'
    BY <1>1, <2>1, <2>6, ListFrame DEF Running
  <2>9. ASSUME NEW c \in Clients PROVE RequestInv(c)'
    <3>1. \A id \in Ids : /\ c \in mux'[id].requests <=> c \in mux[id].requests
                          /\ c \in mux[id].requests => mux'[id] = mux[id]
      BY <1>3, <2>2, MuxTypes
    <3> QED
      BY <1>1, <2>1, <3>1, RequestFrame
  <2>10. PlaylistInv'
    BY <1>1, <2>1 DEF Running, PlaylistInv
  <2> QED
    BY <2>1, <2>3, <2>4, <2>5, <2>7, <2>8, <2>9, <2>10, Runs DEF Running
<1> QED
  BY <1>4, UninitialisedStep DEF InnerForeignCompleted

(* The playlist and its channel go. *)
LEMMA PlaylistExpiresStep ==
  ASSUME IInv, fault = "none", PlaylistExpires
  PROVE  IInv'
<1> DEFINE freed == [c \in Clients |-> IF c \in mux["channel"].requests
                                         THEN Released(req[c]) ELSE req[c]]
<1>0. /\ Ids = {"channel", "list", "inner_channel", "inner_list"}
      /\ InnerIds = {"inner_channel", "inner_list"}
  BY DEF Ids, ClientIds, InnerIds
<1>1. /\ Running /\ TypeInv
      /\ \A c \in Clients : req[c] \in Requests /\ RequestInv(c)
                              /\ req[c].id \in Ids
      /\ \A c \in mux["channel"].requests : Registered(c, "channel")
      /\ mux["channel"].requests \subseteq Clients
  BY <1>0, RegisteredRequests
<1>2. /\ fetch["inner_list"] = "whole" /\ playlist.exists
      /\ playlist.remaining <= 0
  BY DEF PlaylistExpires, Ready
<1>3. /\ segments = {"inner_list"} /\ mux["inner_channel"] = NoMux
      /\ mux["inner_list"].requests = {} /\ fetch["inner_channel"] = "none"
      /\ mux["channel"].is_completed /\ fetch["channel"] = "none"
  BY <1>0, <1>1, <1>2, InnerFetch DEF Running, ChannelInv
<1>4. /\ playlist' = NoPlaylist
      /\ mux' = [mux EXCEPT !["inner_list"] = NoMux, !["channel"] = NoMux]
      /\ req' = freed
      /\ segments' = {}
      /\ fetch' = [fetch EXCEPT !["inner_list"] = "none"]
      /\ happened' = happened \cup {"expired"}
      /\ now' = now /\ origin' = origin /\ fault' = fault
      /\ unasked' = unasked
  BY <1>3 DEF PlaylistExpires, RemovePlaylist
<1>5. /\ mux' \in [Ids -> Muxes] /\ mux'["inner_list"] = NoMux
      /\ mux'["channel"] = NoMux /\ mux'["inner_channel"] = NoMux
      /\ mux'["list"] = mux["list"]
  BY <1>0, <1>1, <1>3, <1>4, MuxTypes DEF TypeInv
<1>6. /\ fetch' \in [Ids -> FetchStates] /\ fetch'["inner_list"] = "none"
      /\ fetch'["channel"] = "none" /\ fetch'["inner_channel"] = "none"
      /\ fetch'["list"] = fetch["list"]
  BY <1>0, <1>1, <1>3, <1>4 DEF TypeInv, FetchStates
<1>7. /\ freed \in [Clients -> Requests]
      /\ \A c \in Clients :
           /\ freed[c].id = req[c].id /\ freed[c].told = req[c].told
           /\ freed[c].sent = req[c].sent
           /\ c \notin mux["channel"].requests => freed[c] = req[c]
           /\ c \in mux["channel"].requests => freed[c].state = "freed"
  BY <1>1, MuxTypes, RequestTypes, RequestFields
<1> HIDE DEF freed
<1>8. /\ happened \subseteq happened' /\ Outlived'
      /\ happened' \subseteq Exceptions
      /\ NeverFailed' => NeverFailed
  BY <1>1, <1>4 DEF TypeInv, Exceptions, Outlived, NeverFailed
<1>9. TypeInv'
  <2>1. \A id \in Ids : Len(mux'[id].body) <= TracksPerPlaylist
    BY <1>0, <1>1, <1>5, MuxTypes, SizeAssumption DEF TypeInv
  <2>2. playlist' \in Playlists /\ Len(playlist'.tracks) <= MaxTracks
    BY <1>4, NoPlaylistType, EmptySeq, SizeAssumption
  <2> QED
    BY <1>1, <1>4, <1>5, <1>6, <1>7, <1>8, <2>1, <2>2 DEF TypeInv
<1>10. StampsEnd(playlist)'
  BY <1>4, NoPlaylistType, EmptySeq DEF StampsEnd
<1>11. ChannelLength'
  BY <1>4, <1>7 DEF IInv, ChannelLength
<1>12. ChainInv'
  <2>1. fetch["list"] # "none" => mux["list"].exists
    BY <1>0, <1>1 DEF Running, ChainInv
  <2>2. ~mux["list"].exists => mux["list"] = NoMux
    BY <1>0, <1>1 DEF Running, ChainInv
  <2> QED
    BY <1>0, <1>4, <1>5, <1>6, <2>1, <2>2, MuxTypes, NoPlaylistType
       DEF ChainInv
<1>13. ChannelInv'
  <2>1. /\ ~NoMux.exists /\ ~NoMux.is_completed /\ NoMux.body = Nothing
        /\ NoMux.requests = {}
    BY MuxTypes
  <2> QED
    BY <1>4, <1>5, <1>6, <2>1, NoPlaylistType DEF ChannelInv
<1>14. ListInv'
  <2>1. \A c \in mux["list"].requests : req'[c] = req[c]
    <3>1. \A c \in mux["list"].requests :
            c \in Clients /\ c \notin mux["channel"].requests
      BY <1>0, <1>1, RegisteredRequests DEF Registered
    <3> QED
      BY <1>4, <1>7, <3>1
  <2>2. ListInv /\ (Direct => Direct')
    BY <1>1, <1>8, Exceptional DEF Running
  <2>3. playlist' = NoPlaylist /\ mux'["list"] = mux["list"]
          /\ fetch'["list"] = fetch["list"] /\ ~playlist'.exists
    BY <1>4, <1>5, <1>6, NoPlaylistType
  <2>4. UnderWay("list")' <=> UnderWay("list")
    BY <2>3 DEF UnderWay
  <2>5. mux'["list"].exists /\ ~mux'["list"].is_completed /\ NeverFailed'
          => UnderWay("list")'
    <3>1. ~(playlist.remaining > 0)
      BY <1>1, <1>2 DEF TypeInv, Playlists
    <3> QED
      BY <1>8, <2>2, <2>3, <2>4, <3>1 DEF ListInv
  <2> QED
    BY <1>8, <2>1, <2>2, <2>3, <2>5 DEF ListInv
<1>15. ASSUME NEW c \in Clients PROVE RequestInv(c)'
  <2>1. CASE c \in mux["channel"].requests
    <3>1. \A id \in Ids : id # "channel" => c \notin mux[id].requests
      BY <1>0, <1>1, <2>1 DEF Registered, RequestInv
    <3>2. \A id \in Ids : c \notin mux'[id].requests
      BY <1>0, <1>5, <3>1, MuxTypes
    <3>3. req'[c].state = "freed"
      BY <1>4, <1>7, <2>1
    <3> QED
      BY <1>8, <3>2, <3>3 DEF RequestInv
  <2>2. CASE c \notin mux["channel"].requests
    <3>1. \A id \in Ids : /\ c \in mux'[id].requests <=> c \in mux[id].requests
                          /\ c \in mux[id].requests => mux'[id] = mux[id]
      BY <1>0, <1>3, <1>5, <2>2, MuxTypes
    <3>2. req'[c] = req[c]
      BY <1>4, <1>7, <2>2
    <3> QED
      BY <1>1, <1>8, <3>1, <3>2, RequestFrame
  <2> QED
    BY <2>1, <2>2
<1>16. PlaylistInv'
  BY <1>4, NoPlaylistType DEF PlaylistInv
<1> QED
  BY <1>4, <1>9, <1>10, <1>11, <1>12, <1>13, <1>14, <1>15, <1>16, Runs
     DEF Running

(* What the origin answers. *)
LEMMA ListsOfTheOrigin ==
  ASSUME NEW answer \in OriginLists, origin \in 1 .. MaxSequence
  PROVE  /\ answer.from \in 1 .. MaxSequence /\ answer.from >= origin
         /\ answer.list \in Seq(Nat)
         /\ \/ answer.list = <<>> /\ answer.from = origin
            \/ /\ Len(answer.list) = Window
               /\ \A i \in 1 .. Window : answer.list[i] = answer.from + i - 1
<1>1. Window \in Nat \ {0} /\ MaxSequence \in Nat \ {0}
  BY SizeAssumption, BoundAssumption
<1>2. CASE answer = [from |-> origin, list |-> <<>>]
  <2>1. answer.from = origin /\ answer.list = <<>>
    BY <1>2
  <2>2. <<>> \in Seq(Nat)
    BY EmptySeq
  <2> QED
    BY <2>1, <2>2, <1>1
<1>3. CASE answer # [from |-> origin, list |-> <<>>]
  <2>1. PICK f \in origin .. MaxSequence - Window + 1 :
          answer = [from |-> f, list |-> [i \in 1 .. Window |-> f + i - 1]]
    BY <1>3 DEF OriginLists
  <2>2. f \in 1 .. MaxSequence /\ f >= origin /\ f \in Nat
    BY <1>1, <2>1
  <2> DEFINE list == [i \in 1 .. Window |-> f + i - 1]
  <2>3. list \in [1 .. Window -> Nat]
    BY <1>1, <2>2
  <2>4. answer.from = f /\ answer.list = list
    BY <2>1
  <2>5. \A i \in 1 .. Window : list[i] = f + i - 1
    OBVIOUS
  <2> HIDE DEF list
  <2>6. list \in Seq(Nat) /\ Len(list) = Window
    BY <1>1, <2>3, FunctionIsSeq
  <2> QED
    BY <2>2, <2>4, <2>5, <2>6
<1> QED
  BY <1>2, <1>3

(* The playlist's list is not there: a client had asked for it before.     *)
LEMMA ListIsMissing ==
  ASSUME IInv, fault = "none", NEW answer \in OriginLists,
         InnerListCompleted(answer), ~mux["list"].exists
  PROVE  IInv'
<1>0. InnerIds = {"inner_channel", "inner_list"}
  BY DEF InnerIds
<1>1. /\ fault' = "terminate" /\ origin' = answer.from
      /\ mux' = mux /\ playlist' = playlist /\ segments' = segments
      /\ fetch' = fetch /\ req' = req /\ now' = now
      /\ happened' = happened /\ unasked' = unasked
  BY DEF InnerListCompleted
<1>2. Running /\ TypeInv
  BY RegisteredRequests
<1>3. playlist.exists
  BY <1>0, <1>2, InnerFetch DEF InnerListCompleted, Ready
<1>4. Outlived'
  BY <1>1, <1>2, <1>3 DEF Running, ListInv, Outlived, Direct
<1>5. TypeInv'
  BY <1>1, <1>2, ListsOfTheOrigin DEF TypeInv
<1>6. StampsEnd(playlist)' /\ ChannelLength'
  BY <1>1 DEF IInv, StampsEnd, ChannelLength
<1> QED
  BY <1>1, <1>4, <1>5, <1>6, Dies

(* The list of tracks fills the playlist, and the clients are served. *)
LEMMA InnerListCompletedStep ==
  ASSUME IInv, fault = "none", NEW answer \in OriginLists,
         InnerListCompleted(answer), mux["list"].exists
  PROVE  IInv'
<1> DEFINE ls == mux["list"]
           p == ProcessSegmentList(playlist, answer.list)
           m == GenerateSegmentClientList(ls, p)
           done == NotifyCacheCompleted(m)
           lost == Unlisted(ls, p)
           next == Min({unasked + 1, RemainingFetches})
<1>0. /\ Ids = {"channel", "list", "inner_channel", "inner_list"}
      /\ InnerIds = {"inner_channel", "inner_list"}
  BY DEF Ids, ClientIds, InnerIds
<1>1. /\ Running /\ TypeInv /\ ls \in Muxes /\ ls.requests \subseteq Clients
      /\ \A c \in ls.requests : Registered(c, "list")
      /\ \A c \in Clients : req[c] \in Requests /\ RequestInv(c)
                              /\ req[c].id \in Ids
  BY <1>0, RegisteredRequests
<1>2. fetch["inner_list"] = "whole" /\ origin' = answer.from
  BY DEF InnerListCompleted, Ready
<1>3. /\ mux["inner_list"].exists /\ playlist.exists
      /\ segments = {"inner_list"} /\ mux["inner_channel"] = NoMux
      /\ mux["inner_list"].requests = {}
  BY <1>0, <1>1, <1>2, InnerFetch
<1>4. /\ playlist.remaining > 0
      /\ playlist' = p
      /\ mux' = [RequestFile(mux, "inner_channel")
                   EXCEPT !["inner_list"] = NoMux, !["list"] = done.mux]
      /\ req' = done.req
      /\ fault' = IF lost THEN "terminate" ELSE done.fault
      /\ happened' = happened \cup
           (IF p.tracks = <<>> THEN {"trackless"} ELSE {})
      /\ segments' = {"inner_channel"}
      /\ fetch' = [fetch EXCEPT !["inner_list"] = "none",
                                !["inner_channel"] = "delayed"]
      /\ unasked' = next
      /\ now' = now
  BY <1>3 DEF InnerListCompleted
<1>5. /\ playlist \in Playlists /\ Len(playlist.tracks) <= MaxTracks
      /\ StampsEnd(playlist) /\ now \in Nat /\ now \in 0 .. MaxTime
      /\ answer.list \in Seq(Nat) /\ answer.from \in 1 .. MaxSequence
      /\ Len(ls.body) <= TracksPerPlaylist
  BY <1>0, <1>1, ListsOfTheOrigin, BoundAssumption DEF IInv, TypeInv
<1>6. /\ p \in Playlists /\ Len(p.tracks) <= MaxTracks
      /\ p.exists /\ p.remaining = playlist.remaining - 1 /\ StampsEnd(p)
  BY <1>3, <1>4, <1>5, ProcessedList
<1>7. lost <=> ls.requests # {} /\ p.tracks = <<>>
  BY DEF Unlisted
<1> HIDE DEF p, lost
<1>8. /\ m \in Muxes /\ Len(m.body) <= TracksPerPlaylist
      /\ m.exists = ls.exists /\ m.cached = ls.cached /\ m.wait = ls.wait
      /\ m.requests = ls.requests
      /\ ls.requests # {} /\ p.tracks # <<>> => m.body # Nothing
  BY <1>1, <1>5, <1>6, GeneratedList
<1> HIDE DEF m
<1>9. done = NotifyCacheCompleted(m)
  OBVIOUS
<1> HIDE DEF done
<1>10. /\ done.mux \in Muxes /\ done.mux.exists = m.exists
       /\ done.mux.cached = m.cached /\ done.mux.wait = m.wait
       /\ done.mux.header = m.header /\ done.mux.body = m.body
       /\ done.mux.is_completed /\ done.mux.requests \subseteq m.requests
       /\ done.req \in [Clients -> Requests]
       /\ \A c \in Clients : c \notin m.requests => done.req[c] = req[c]
       /\ \A c \in m.requests :
            /\ done.req[c].state = "live" /\ done.req[c].id = "list"
            /\ c \in done.mux.requests <=>
                 done.req[c].event_type # "SERVER_CLOSE"
            /\ c \in done.mux.requests =>
                 /\ done.req[c].is_processing /\ done.req[c].flight = 1
                 /\ done.req[c].told = IF ~req[c].is_processing /\ m.wait
                      THEN m.header ELSE req[c].told
            /\ c \notin done.mux.requests => done.req[c].flight = 1
            /\ m.wait => /\ c \in done.mux.requests
                         /\ done.req[c].sent = req[c].sent
       /\ done.fault \in {"none", "undefined"}
       /\ m.wait => done.fault = "none"
  <2>1. /\ req \in [Clients -> Requests]
        /\ \A c \in m.requests : Registered(c, "list")
    BY <1>1, <1>8 DEF TypeInv
  <2>2. m \in Muxes
    BY <1>8
  <2> HIDE DEF ls
  <2> QED
    BY <1>9, <2>1, <2>2, Completion
<1>11. /\ unasked \in 0 .. RemainingFetches
       /\ unasked' \in 0 .. RemainingFetches
       /\ unasked' = unasked + 1 \/ unasked' = RemainingFetches
  <2>1. unasked \in 0 .. RemainingFetches /\ RemainingFetches \in Nat
    BY <1>1, SizeAssumption DEF TypeInv
  <2>2. unasked + 1 \in Int /\ RemainingFetches \in Int
    BY <2>1
  <2>3. next = IF unasked + 1 <= RemainingFetches THEN unasked + 1
               ELSE RemainingFetches
    BY <2>2, MinOfTwo
  <2> HIDE DEF next
  <2> QED
    BY <1>4, <2>1, <2>3
<1>12. /\ mux' \in [Ids -> Muxes] /\ mux'["inner_channel"] = NewMux
       /\ mux'["inner_list"] = NoMux /\ mux'["list"] = done.mux
       /\ mux'["channel"] = mux["channel"]
  <2>1. /\ mux \in [Ids -> Muxes] /\ ~mux["inner_channel"].exists
        /\ NewMux \in Muxes /\ NoMux \in Muxes
    BY <1>1, <1>3, MuxTypes DEF TypeInv
  <2>2. RequestFile(mux, "inner_channel")
          = [mux EXCEPT !["inner_channel"] = NewMux]
    BY <1>0, <2>1 DEF RequestFile
  <2> QED
    BY <1>0, <1>4, <1>10, <2>1, <2>2
<1>13. /\ fetch' \in [Ids -> FetchStates]
       /\ fetch'["inner_channel"] = "delayed"
       /\ fetch'["inner_list"] = "none" /\ fetch'["list"] = fetch["list"]
       /\ fetch'["channel"] = fetch["channel"]
  BY <1>0, <1>1, <1>4 DEF TypeInv, FetchStates
<1>14. /\ happened \subseteq happened' /\ happened' \subseteq Exceptions
       /\ p.tracks = <<>> => "trackless" \in happened'
  BY <1>1, <1>4 DEF TypeInv, Exceptions
<1>15. TypeInv'
  <2>1. /\ Len(mux'["list"].body) <= TracksPerPlaylist
        /\ Len(mux["channel"].body) <= TracksPerPlaylist
        /\ Len(NewMux.body) = 0 /\ Len(NoMux.body) = 0
    BY <1>0, <1>1, <1>8, <1>10, <1>12, MuxTypes DEF TypeInv
  <2>2. \A id \in Ids : Len(mux'[id].body) <= TracksPerPlaylist
    BY <1>0, <1>12, <2>1, SizeAssumption
  <2>3. fault' \in {"none", "terminate", "undefined"}
    BY <1>4, <1>10
  <2>4. playlist' \in Playlists /\ Len(playlist'.tracks) <= MaxTracks
    BY <1>4, <1>6
  <2>5. segments' \subseteq InnerIds /\ now' \in 1 .. MaxTime
          /\ origin' \in 1 .. MaxSequence
    BY <1>0, <1>1, <1>2, <1>4, <1>5 DEF TypeInv
  <2>6. req' \in [Clients -> Requests]
    BY <1>4, <1>10
  <2> QED
    BY <1>11, <1>12, <1>13, <1>14, <2>2, <2>3, <2>4, <2>5, <2>6 DEF TypeInv
<1>16. StampsEnd(playlist)'
  BY <1>4, <1>6 DEF StampsEnd
<1>17. ChannelLength'
  BY <1>4, <1>8, <1>10 DEF IInv, ChannelLength
<1>18. ASSUME fault' # "none" PROVE IInv'
  <2>1. fault' = "terminate" => Outlived' \/ "trackless" \in happened'
    BY <1>4, <1>7, <1>10, <1>14
  <2>2. fault' = "undefined" => Outlived'
    <3>1. fault' = "undefined" => ~ls.wait
      BY <1>4, <1>8, <1>10
    <3> QED
      BY <1>1, <1>14, <3>1, Exceptional DEF Running, ListInv, Outlived
  <2> QED
    BY <1>15, <1>16, <1>17, <1>18, <2>1, <2>2, Dies
<1>19. ASSUME fault' = "none" PROVE IInv'
  <2>1. ~lost /\ done.fault = "none"
    BY <1>4, <1>19
  <2>2. ls.cached
    <3>1. SUFFICES ASSUME ~ls.cached PROVE FALSE
      OBVIOUS
    <3>2. /\ ~ls.wait /\ ls.requests # {}
          /\ \A c \in ls.requests : req[c] = StreamRequest("list")
      BY <1>1, <3>1 DEF Running, ListInv
    <3>3. /\ ~m.wait /\ m.requests # {} /\ m.body # Nothing
          /\ \A c \in m.requests : req[c] = StreamRequest("list")
      BY <1>7, <1>8, <2>1, <3>2
    <3>4. NotifyCacheCompleted(m).fault = "undefined"
      BY <1>8, <3>3, NobodyIsPrepared
    <3> QED
      BY <1>9, <2>1, <3>4
  <2>3. ChainInv'
    <3>1. \A id \in Ids \ {"inner_list", "inner_channel"} :
            /\ fetch'[id] = fetch[id]
            /\ mux'[id].exists = mux[id].exists
            /\ ~mux[id].exists => mux'[id] = mux[id]
      BY <1>0, <1>8, <1>10, <1>12, <1>13
    <3>2. playlist'.exists
      BY <1>4, <1>6
    <3> QED
      BY <1>0, <1>1, <1>2, <1>4, <1>12, <1>13, <1>14, <3>1, <3>2, ChainMoves
  <2>4. ChannelInv'
    <3>1. \A c \in mux["channel"].requests : req'[c] = req[c]
      <4>1. \A c \in mux["channel"].requests :
              c \in Clients /\ c \notin ls.requests
        BY <1>0, <1>1, RegisteredRequests DEF Registered
      <4> QED
        BY <1>4, <1>8, <1>10, <4>1
    <3>2. playlist'.exists = playlist.exists
      BY <1>3, <1>4, <1>6
    <3> QED
      BY <1>1, <1>12, <1>13, <1>14, <3>1, <3>2, ChannelFrame DEF Running
  <2>5. ListInv'
    <3>1. /\ mux'["list"].exists /\ mux'["list"].is_completed
          /\ mux'["list"].cached /\ mux'["list"].wait = ls.wait
          /\ playlist'.exists /\ playlist'.tracks = p.tracks
      BY <1>4, <1>6, <1>8, <1>10, <1>12, <2>2
    <3>2. /\ ~ls.wait => Direct'
          /\ fetch'["list"] # "none" => Direct'
      BY <1>1, <1>13, <1>14, Exceptional DEF Running, ListInv
    <3> QED
      BY <1>14, <3>1, <3>2 DEF ListInv
  <2>6. ASSUME NEW c \in Clients PROVE RequestInv(c)'
    <3>1. CASE c \in ls.requests
      <4>1. /\ c \notin mux'["channel"].requests
            /\ c \notin mux'["inner_list"].requests
            /\ c \notin mux'["inner_channel"].requests
        BY <1>0, <1>1, <1>12, <3>1, MuxTypes DEF Registered, RequestInv
      <4>2. CASE c \in done.mux.requests
        <5>1. \A id \in Ids : c \in mux'[id].requests <=> id = "list"
          BY <1>0, <1>12, <4>1, <4>2
        <5>2. /\ req'[c].state = "live" /\ req'[c].id = "list"
              /\ req'[c].event_type # "SERVER_CLOSE"
              /\ req'[c].is_processing /\ req'[c].flight = 1
          BY <1>4, <1>8, <1>10, <3>1, <4>2
        <5>3. "list" \in Ids
          BY <1>0
        <5> QED
          BY <5>1, <5>2, <5>3, StaysRegistered
      <4>3. CASE c \notin done.mux.requests
        <5>1. /\ req'[c].state = "live" /\ req'[c].flight = 1
              /\ req'[c].event_type = "SERVER_CLOSE"
          BY <1>4, <1>8, <1>10, <3>1, <4>3
        <5>2. \A id \in Ids : c \notin mux'[id].requests
          BY <1>0, <1>12, <4>1, <4>3
        <5> QED
          BY <5>1, <5>2 DEF RequestInv
      <4> QED
        BY <4>2, <4>3
    <3>2. CASE c \notin ls.requests
      <4>1. req'[c] = req[c]
        BY <1>4, <1>8, <1>10, <3>2
      <4>2. \A id \in Ids :
              /\ c \in mux'[id].requests <=> c \in mux[id].requests
              /\ c \in mux[id].requests => mux'[id] = mux[id]
        BY <1>0, <1>3, <1>8, <1>10, <1>12, <3>2, MuxTypes
      <4> QED
        BY <1>1, <1>14, <4>1, <4>2, RequestFrame
    <3> QED
      BY <3>1, <3>2
  <2>7. PlaylistInv'
    <3>1. playlist.remaining + unasked >= RemainingFetches
      BY <1>1, <1>3 DEF Running, PlaylistInv
    <3>2. /\ playlist.remaining \in Nat /\ playlist.remaining > 0
          /\ RemainingFetches \in Nat
      BY <1>4, <1>5, SizeAssumption DEF Playlists
    <3>3. playlist'.remaining + unasked' >= RemainingFetches
      BY <1>4, <1>6, <1>11, <3>1, <3>2
    <3> QED
      BY <1>4, <1>6, <3>3 DEF PlaylistInv
  <2> QED
    BY <1>15, <1>16, <1>17, <1>19, <2>3, <2>4, <2>5, <2>6, <2>7, Runs
       DEF Running
<1> QED
  BY <1>18, <1>19

-----------------------------------------------------------------------------
(* The invariant. *)

LEMMA InvInit == Init => IInv
<1> SUFFICES ASSUME Init PROVE IInv
  OBVIOUS
<1>1. /\ mux = [id \in Ids |-> NoMux] /\ playlist = NoPlaylist
      /\ segments = {} /\ fetch = [id \in Ids |-> "none"]
      /\ req = [c \in Clients |-> NoRequest] /\ now = 1 /\ origin = 1
      /\ fault = "none" /\ happened = {} /\ unasked = 0
  BY DEF Init
<1>2. /\ {"channel", "list"} \subseteq Ids /\ InnerIds \subseteq Ids
      /\ \A id \in Ids : mux[id] = NoMux /\ fetch[id] = "none"
  BY <1>1 DEF Ids, ClientIds
<1>3. /\ NoMux \in Muxes /\ ~NoMux.exists /\ ~NoMux.is_completed
      /\ NoMux.body = Nothing /\ Len(NoMux.body) = 0 /\ NoMux.requests = {}
  BY MuxTypes
<1>4. TypeInv
  <2>1. 1 \in 1 .. MaxTime /\ 1 \in 1 .. MaxSequence
          /\ 0 \in 0 .. RemainingFetches
    BY BoundAssumption, SizeAssumption
  <2>2. playlist \in Playlists /\ Len(playlist.tracks) <= MaxTracks
    BY <1>1, NoPlaylistType, EmptySeq, SizeAssumption
  <2>3. \A id \in Ids : Len(mux[id].body) <= TracksPerPlaylist
    BY <1>2, <1>3, SizeAssumption
  <2>4. /\ mux \in [Ids -> Muxes] /\ fetch \in [Ids -> FetchStates]
        /\ req \in [Clients -> Requests]
    BY <1>1, <1>3, NoRequestType DEF FetchStates
  <2> QED
    BY <1>1, <2>1, <2>2, <2>3, <2>4 DEF TypeInv
<1>5. StampsEnd(playlist)
  BY <1>1, NoPlaylistType, EmptySeq DEF StampsEnd
<1>6. ChannelLength
  BY <1>1, NoRequestFields DEF ChannelLength
<1>7. FaultNeedsCause
  BY <1>1 DEF FaultNeedsCause, TerminateNeedsCause, UndefinedNeedsCause
<1>8. ChainInv
  BY <1>1, <1>2, <1>3, NoPlaylistType DEF ChainInv
<1>9. ChannelInv /\ ListInv
  BY <1>1, <1>2, <1>3, NoPlaylistType DEF ChannelInv, ListInv
<1>10. \A c \in Clients : RequestInv(c)
  <2> TAKE c \in Clients
  <2>1. req[c] = NoRequest /\ \A id \in Ids : c \notin mux[id].requests
    BY <1>1, <1>2, <1>3
  <2> QED
    BY <2>1, NoRequestFields DEF RequestInv
<1>11. PlaylistInv
  BY <1>1, NoPlaylistType DEF PlaylistInv
<1> QED
  BY <1>4, <1>5, <1>6, <1>7, <1>8, <1>9, <1>10, <1>11 DEF IInv, Running

LEMMA InvNext == IInv /\ [Next]_vars => IInv'
<1> SUFFICES ASSUME IInv, [Next]_vars PROVE IInv'
  OBVIOUS
<1>1. CASE UNCHANGED vars
  BY <1>1, Unchanged
<1>2. CASE Next
  <2>1. fault = "none"
    BY <1>2 DEF Next
  <2>2. ASSUME NEW c \in Clients, ClientStep(c) PROVE IInv'
    BY <2>1, <2>2, OpenChannelStep, JoinChannelStep, OpenListStep,
       JoinListStep, HeaderWrittenStep, BlockWrittenStep, BlockRefusedStep,
       HandleCloseStep, FreedCompletedStep DEF ClientStep
  <2>3. ASSUME NEW id \in Ids, FetchStep(id) PROVE IInv'
    <3>1. CASE FetchCompleted(id)
      <4>1. CASE \E a \in OriginLists : InnerListCompleted(a)
        BY <2>1, <4>1, ListIsMissing, InnerListCompletedStep
      <4>2. CASE ~ \E a \in OriginLists : InnerListCompleted(a)
        BY <2>1, <3>1, <4>2, ChannelCompletedStep, ForeignCompletedStep,
           InnerChannelCompletedStep, InnerForeignCompletedStep,
           PlaylistExpiresStep DEF FetchCompleted
      <4> QED
        BY <4>1, <4>2
    <3>2. CASE ~FetchCompleted(id)
      BY <2>1, <2>3, <3>2, TimerFiresStep, HeaderReadStep, BodyEndsStep,
         ReleaseErrorStep, CloseStreamStep, FetchDroppedStep DEF FetchStep
    <3> QED
      BY <3>1, <3>2
  <2> QED
    BY <1>2, <2>1, <2>2, <2>3, TickStep DEF Next
<1> QED
  BY <1>1, <1>2

(* Whatever the clients ask for, however the fetches end and whatever the  *)
(* origin's lists are: as long as the process runs, the server's own       *)
(* fetches, the two Muxes of the clients and the Requests registered with  *)
(* them fit together (HLSStream.cpp:40-241, 287-408).                      *)
THEOREM Invariance == Spec => []IInv
BY InvInit, InvNext, PTL DEF Spec

(* A playlist is kept by one fetch at a time, whatever the clients do and  *)
(* however often it expires and is made again, for as long as no fetch     *)
(* fails and no body leads nowhere (HLSStream.cpp:137, 236-241, 386-393).  *)
THEOREM OneChainAtATime == Spec => []OneChain
<1>1. IInv => OneChain
  <2> SUFFICES ASSUME IInv, fault = "none" PROVE OneChain
    BY DEF OneChain
  <2>1. Running /\ TypeInv
    BY RegisteredRequests
  <2>2. ASSUME playlist.exists, NeverFailed
        PROVE  Quantify(InnerIds, LAMBDA id : UnderWay(id)) = 1
    <3>1. PICK a \in InnerIds : segments = {a} /\ UnderWay(a)
      <4>1. /\ segments \subseteq InnerIds /\ segments # {}
            /\ InnerIds = {"inner_channel", "inner_list"}
            /\ ~("inner_channel" \in segments /\ "inner_list" \in segments)
        BY <2>1, <2>2 DEF Running, ChainInv, TypeInv, InnerIds
      <4>2. \A id \in segments : UnderWay(id)
        BY <2>1, <2>2, <4>1 DEF Running, ChainInv
      <4>3. PICK a \in segments : TRUE
        BY <4>1
      <4>4. a \in InnerIds /\ segments = {a}
        BY <4>1
      <4> QED
        BY <4>2, <4>4
    <3>2. \A id \in InnerIds : id # a => ~UnderWay(id)
      BY <2>1, <3>1, InnerIdsAreIds DEF Running, ChainInv, UnderWay
    <3>3. {id \in InnerIds : UnderWay(id)} = {a}
      BY <3>1, <3>2
    <3>4. Cardinality({a}) = 1
      BY FS_Singleton
    <3> QED
      BY <3>3, <3>4 DEF Quantify
  <2>3. ~playlist.exists => \A id \in InnerIds : ~UnderWay(id)
    BY <2>1, NoChain DEF UnderWay
  <2>4. mux["channel"].exists /\ NeverFailed =>
          (playlist.exists <=> ~UnderWay("channel"))
    BY <2>1 DEF Running, ChannelInv, UnderWay
  <2> QED
    BY <2>2, <2>3, <2>4 DEF OneChain
<1> QED
  BY <1>1, Invariance, PTL

(* No client of the channel or of the list is forgotten: one that has no   *)
(* operation in flight is registered with a Mux that is not complete, and  *)
(* a fetch is under way that will complete it (HLSStream.cpp:74-80,        *)
(* Stream.cpp:342-354).                                                    *)
THEOREM WaitersWillBeFed == Spec => []WaitersAreFed
<1>1. IInv => WaitersAreFed
  <2> SUFFICES ASSUME IInv, fault = "none", NeverFailed, NEW c \in Clients,
                      req[c].state = "live", req[c].flight = 0
               PROVE  /\ mux[req[c].id].exists
                      /\ c \in mux[req[c].id].requests
                      /\ ~mux[req[c].id].is_completed
                      /\ \/ UnderWay(req[c].id)
                         \/ /\ req[c].id = "list" /\ playlist.exists
                            /\ \E id \in InnerIds : UnderWay(id)
    BY DEF WaitersAreFed
  <2>1. /\ Running /\ TypeInv /\ RequestInv(c) /\ req[c].id \in Ids
        /\ req[c].id \in ClientIds
    BY RegisteredRequests DEF Requests
  <2>2. /\ c \in mux[req[c].id].requests /\ ~mux[req[c].id].is_completed
        /\ ~req[c].is_processing
    BY <2>1 DEF RequestInv
  <2>3. mux[req[c].id].exists
    BY <2>1, <2>2, MuxTypes DEF Running, ChainInv
  <2>4. CASE req[c].id = "channel"
    <3>1. ~playlist.exists
      BY <2>1, <2>2, <2>4 DEF Running, ChannelInv
    <3>2. UnderWay("channel")
      BY <2>1, <2>3, <2>4, <3>1 DEF Running, ChannelInv
    <3> QED
      BY <2>2, <2>3, <2>4, <3>2
  <2>5. CASE req[c].id = "list"
    <3>1. UnderWay("list") \/ playlist.exists
      BY <2>1, <2>2, <2>3, <2>5 DEF Running, ListInv
    <3>2. playlist.exists => \E id \in InnerIds : UnderWay(id)
      BY <2>1 DEF Running, ChainInv, TypeInv
    <3> QED
      BY <2>2, <2>3, <2>5, <3>1, <3>2
  <2> QED
    BY <2>1, <2>4, <2>5 DEF ClientIds
<1> QED
  BY <1>1, Invariance, PTL

(* The process does not die of an exception or of memory misused unless a  *)
(* list was asked for directly, a playlist expired or has no tracks, or a  *)
(* body led nowhere (HLSStream.cpp:52, 86-102, 386-391,                    *)
(* Stream.cpp:207-209).                                                    *)
THEOREM NoFaultWithoutCause == Spec => []FaultNeedsCause
<1>1. IInv => FaultNeedsCause
  BY DEF IInv
<1> QED
  BY <1>1, Invariance, PTL

-----------------------------------------------------------------------------
(* What the steps do to the playlist. *)

LEMMA PlaylistSteps ==
  ASSUME IInv, Next
  PROVE  \/ /\ playlist'.exists = playlist.exists
            /\ playlist'.tracks = playlist.tracks /\ origin' = origin
         \/ PlaylistExpires
         \/ /\ playlist'.exists /\ playlist'.tracks = <<>>
            /\ origin' = origin
         \/ \E a \in OriginLists : InnerListCompleted(a)
<1> DEFINE Same == playlist' = playlist /\ origin' = origin
<1>1. fault = "none" /\ playlist \in Playlists
  BY DEF Next, IInv, TypeInv
<1>2. ASSUME NEW c \in Clients, ClientStep(c)
      PROVE  Same \/ JoinList(c)
  <2>1. CASE OpenChannel(c) \/ JoinChannel(c) \/ OpenList(c)
    BY <2>1 DEF OpenChannel, JoinChannel, OpenList
  <2>2. CASE HeaderWritten(c) \/ BlockWritten(c) \/ BlockRefused(c)
    BY <2>2 DEF HeaderWritten, BlockWritten, BlockRefused, Serve, Crash
  <2>3. CASE HandleClose(c) \/ FreedCompleted(c)
    BY <2>3 DEF HandleClose, FreedCompleted, Crash
  <2> QED
    BY <1>2, <2>1, <2>2, <2>3 DEF ClientStep
<1>3. ASSUME NEW c \in Clients, JoinList(c)
      PROVE  /\ playlist'.exists = playlist.exists
             /\ playlist'.tracks = playlist.tracks /\ origin' = origin
  <2>1. Same \/ (/\ origin' = origin
                 /\ playlist' = [playlist EXCEPT
                                   !.remaining = RemainingFetches])
    BY <1>3 DEF JoinList, Crash
  <2> QED
    BY <1>1, <2>1 DEF Playlists
<1>4. ASSUME NEW id \in Ids, FetchStep(id)
      PROVE  \/ Same \/ PlaylistExpires
             \/ /\ playlist'.exists /\ playlist'.tracks = <<>>
                /\ origin' = origin
             \/ \E a \in OriginLists : InnerListCompleted(a)
  <2>1. CASE TimerFires(id) \/ HeaderRead(id) \/ BodyEnds(id)
    BY <2>1 DEF TimerFires, HeaderRead, BodyEnds, Crash
  <2>2. CASE \/ ReleaseErrorAllWaitingRequest(id) \/ CloseStream(id)
             \/ FetchDropped(id)
    BY <2>2 DEF ReleaseErrorAllWaitingRequest, CloseStream, FetchEnds,
                FetchDropped, Crash
  <2>3. CASE \/ ForeignCompleted(id) \/ InnerChannelCompleted
             \/ InnerForeignCompleted
    BY <2>3 DEF ForeignCompleted, InnerChannelCompleted,
                InnerForeignCompleted, Uninitialised, Crash
  <2>4. CASE ChannelCompleted
    <3> DEFINE p == [NoPlaylist EXCEPT !.exists = TRUE,
                                       !.remaining = RemainingFetches]
    <3>1. /\ origin' = origin
          /\ playlist' = IF playlist.exists THEN playlist ELSE p
      BY <2>4 DEF ChannelCompleted
    <3>2. p.exists /\ p.tracks = <<>>
      BY NoPlaylistType DEF Playlists
    <3> HIDE DEF p
    <3> QED
      BY <3>1, <3>2
  <2> QED
    BY <1>4, <2>1, <2>2, <2>3, <2>4 DEF FetchStep, FetchCompleted
<1>5. Tick => Same
  BY DEF Tick
<1> QED
  BY <1>2, <1>3, <1>4, <1>5 DEF Next

(* A client that asks for the playlist keeps it for RemainingFetches lists *)
(* of the origin, whatever it and the others do in the meantime            *)
(* (HLSStream.cpp:52-53, 165-169).                                         *)
THEOREM RemovalNeedsIdleness == Spec => RemovalNeedsIdle
<1> DEFINE Idle == (playlist.exists /\ ~playlist'.exists)
                     => unasked >= RemainingFetches
<1>1. IInv /\ [Next]_vars => [Idle]_vars
  <2> SUFFICES ASSUME IInv, Next, playlist.exists, ~playlist'.exists
               PROVE  unasked >= RemainingFetches
    OBVIOUS
  <2>1. /\ fault = "none" /\ Running /\ TypeInv
    BY RegisteredRequests DEF Next
  <2>2. ASSUME NEW a \in OriginLists, InnerListCompleted(a)
        PROVE  FALSE
    <3>1. \/ playlist' = playlist
          \/ /\ playlist' = ProcessSegmentList(playlist, a.list)
             /\ playlist.remaining > 0
      BY <2>2 DEF InnerListCompleted
    <3>2. /\ playlist \in Playlists /\ Len(playlist.tracks) <= MaxTracks
          /\ StampsEnd(playlist) /\ now \in Nat /\ a.list \in Seq(Nat)
      BY <2>1, <2>2, ListsOfTheOrigin DEF IInv, TypeInv
    <3> QED
      BY <3>1, <3>2, ProcessedList
  <2>3. PlaylistExpires
    BY <2>2, PlaylistSteps
  <2>4. /\ playlist.remaining <= 0
        /\ playlist.remaining + unasked >= RemainingFetches
        /\ playlist.remaining \in Nat /\ unasked \in Nat
    BY <2>1, <2>3, SizeAssumption
       DEF PlaylistExpires, Running, PlaylistInv, TypeInv, Playlists
  <2> QED
    BY <2>4, SizeAssumption
<1> QED
  BY <1>1, Invariance, PTL DEF Spec, RemovalNeedsIdle

-----------------------------------------------------------------------------
(* The order of the tracks, for lists that the playlist can hold. *)

InOrder(ts) ==
  \A i, j \in 1 .. Len(ts) :
    i < j => ts[i].uid < ts[j].uid /\ ts[i].stamp < ts[j].stamp

(* ts has the tracks of the list that starts at first, at its end. *)
EndsAt(ts, first) ==
  Len(ts) # 0 =>
    /\ Len(ts) >= Window
    /\ \A i \in 1 .. Window : ts[Len(ts) - Window + i].uid = first + i - 1

Sorted ==
  /\ TracksInOrder
  /\ fault = "none" => EndsAt(playlist.tracks, origin)

LEMMA OrderOfTracks ==
  ASSUME TypeInv
  PROVE  TracksInOrder <=> InOrder(playlist.tracks)
<1>1. DOMAIN playlist.tracks = 1 .. Len(playlist.tracks)
  BY LenProperties DEF TypeInv, Playlists, Bodies
<1> QED
  BY <1>1 DEF TracksInOrder, InOrder

(* The tracks that a list adds follow those that are there. *)
LEMMA FilledInOrder ==
  ASSUME NEW p \in Playlists, NEW list \in Seq(Nat), NEW o \in Nat,
         NEW f \in Nat, o <= f, now \in Nat, StampsEnd(p),
         InOrder(p.tracks), EndsAt(p.tracks, o),
         \/ list = <<>> /\ f = o
         \/ /\ Len(list) = Window
            /\ \A i \in 1 .. Window : list[i] = f + i - 1,
         NEW all, all = Filled(p, list)
  PROVE  InOrder(all) /\ EndsAt(all, f)
<1> DEFINE fresh == Fresh(Uids(p), list)
           n == Len(p.tracks)
<1>1. /\ fresh \in Seq(Nat) /\ n \in Nat /\ Len(fresh) \in Nat
      /\ NextStamp(p) \in Nat \ {0}
      /\ all \in Bodies /\ Len(all) = n + Len(fresh)
      /\ \A i \in 1 .. n : all[i] = p.tracks[i]
      /\ \A i \in 1 .. Len(fresh) :
           /\ all[n + i].uid = fresh[i]
           /\ all[n + i].stamp = NextStamp(p) + i - 1
  BY FilledTracks
<1>2. /\ p.tracks \in Seq(Tracks) /\ DOMAIN p.tracks = 1 .. n
      /\ \A i \in 1 .. n : /\ p.tracks[i] \in Tracks
                           /\ p.tracks[i].uid \in Nat
                           /\ p.tracks[i].stamp \in Nat
                           /\ p.tracks[i].stamp < p.last_stamp
  <2>1. p.tracks \in Seq(Tracks) /\ DOMAIN p.tracks = 1 .. n
    BY LenProperties DEF Playlists, Bodies
  <2>2. \A i \in 1 .. n : p.tracks[i] \in Tracks
    BY <2>1, ElementOfSeq
  <2>3. \A i \in 1 .. n : p.tracks[i].stamp < p.last_stamp
    BY <2>1 DEF StampsEnd
  <2> QED
    BY <2>1, <2>2, <2>3 DEF Tracks
<1>3. Window \in Nat \ {0} /\ p.last_stamp \in Nat
  BY SizeAssumption DEF Playlists
<1>4. \A i \in 1 .. n : i <= n /\ p.tracks[i].stamp < NextStamp(p)
  BY <1>1, <1>2, <1>3 DEF NextStamp
<1>5. \A i \in 1 .. n : \A j \in 1 .. n :
        i < j => /\ p.tracks[i].uid < p.tracks[j].uid
                 /\ p.tracks[i].stamp < p.tracks[j].stamp
  BY <1>1 DEF InOrder
<1>6. n # 0 => /\ n >= Window
               /\ \A i \in 1 .. Window :
                    p.tracks[n - Window + i].uid = o + i - 1
  BY <1>1 DEF EndsAt
<1>7. \A i \in 1 .. n : p.tracks[i].uid <= o + Window - 1
  <2> TAKE i \in 1 .. n
  <2>1. p.tracks[n].uid = o + Window - 1
    <3>1. Window \in 1 .. Window /\ n - Window + Window = n /\ n # 0
      BY <1>1, <1>3
    <3> QED
      BY <1>6, <3>1
  <2>2. n \in 1 .. n /\ (i = n \/ i < n)
    BY <1>1
  <2>3. p.tracks[i].uid \in Nat /\ p.tracks[n].uid \in Nat
    BY <1>2, <2>2
  <2>4. i = n \/ p.tracks[i].uid < p.tracks[n].uid
    BY <1>5, <2>2
  <2> QED
    BY <1>3, <2>1, <2>3, <2>4
<1> HIDE DEF fresh, n
<1>8. CASE list = <<>> /\ f = o
  <2>1. Len(fresh) = 0
    <3>1. 0 \in 0 .. Len(list) /\ Len(list) = 0
      BY <1>8, EmptySeq
    <3>2. \A i \in 1 .. Len(list) : list[i] \in Uids(p) <=> i <= 0
      BY <3>1
    <3>3. fresh = SubSeq(list, 0 + 1, Len(list))
      BY <3>1, <3>2, FreshSuffix DEF fresh
    <3>4. SubSeq(list, 1, 0) = <<>>
      BY SubSeqEmpty
    <3> QED
      BY <3>1, <3>3, <3>4, EmptySeq
  <2>2. Len(all) = n /\ \A i \in 1 .. n : all[i] = p.tracks[i]
    BY <1>1, <2>1
  <2>3. InOrder(all)
    BY <1>5, <2>2 DEF InOrder
  <2>4. EndsAt(all, f)
    <3>1. n # 0 => \A i \in 1 .. Window : n - Window + i \in 1 .. n
      BY <1>1, <1>3, <1>6
    <3> QED
      BY <1>6, <1>8, <2>2, <3>1 DEF EndsAt
  <2> QED
    BY <2>3, <2>4
<1>9. CASE /\ Len(list) = Window
           /\ \A i \in 1 .. Window : list[i] = f + i - 1
  <2> DEFINE d == IF n # 0 /\ f <= o + Window - 1 THEN o + Window - f ELSE 0
  <2>1. d \in 0 .. Window
    BY <1>1, <1>3
  <2>2. /\ d # 0 => n # 0 /\ f = o + Window - d
        /\ n # 0 => f + d >= o + Window
    BY <1>1, <1>3
  <2>3. ASSUME NEW i \in 1 .. Window
        PROVE  list[i] \in Uids(p) <=> i <= d
    <3>1. ASSUME i <= d PROVE f + i - 1 \in Uids(p)
      <4>1. /\ n # 0 /\ Window - d + i \in 1 .. Window
            /\ f + i - 1 = o + (Window - d + i) - 1
        <5>1. d \in Nat /\ d # 0 /\ d <= Window /\ i <= d /\ i >= 1
          BY <2>1, <1>3, <3>1
        <5>2. n # 0 /\ f = o + Window - d
          BY <2>2, <5>1
        <5> QED
          BY <1>3, <5>1, <5>2
      <4>2. n - Window + (Window - d + i) \in 1 .. n
        <5>1. n \in Nat /\ n >= Window /\ d \in Nat /\ i \in Nat
          BY <1>1, <1>6, <2>1, <4>1
        <5> QED
          BY <1>3, <4>1, <5>1
      <4>3. p.tracks[n - Window + (Window - d + i)].uid = f + i - 1
        BY <1>6, <4>1
      <4> QED
        BY <1>2, <4>2, <4>3 DEF Uids
    <3>2. ASSUME f + i - 1 \in Uids(p) PROVE i <= d
      <4>1. PICK k \in 1 .. n : p.tracks[k].uid = f + i - 1
        BY <1>2, <3>2 DEF Uids
      <4>2. n # 0 /\ f + i - 1 <= o + Window - 1
        BY <1>1, <1>7, <4>1
      <4> QED
        BY <1>3, <2>1, <2>2, <4>2
    <3> QED
      BY <1>9, <3>1, <3>2
  <2> HIDE DEF d
  <2>4. fresh = SubSeq(list, d + 1, Window)
    BY <1>9, <2>1, <2>3, FreshSuffix DEF fresh
  <2>5. /\ Len(fresh) = Window - d
        /\ \A i \in 1 .. Window - d : fresh[i] = f + d + i - 1
    <3>1. \A i \in d + 1 .. Window : list[i] \in Nat
      BY <1>3, <1>9, <2>1, ElementOfSeq
    <3>2. d + 1 \in Int /\ Window \in Int
      BY <1>3, <2>1
    <3>3. /\ Len(fresh) = IF d + 1 <= Window THEN Window - (d + 1) + 1 ELSE 0
          /\ \A i \in 1 .. Window - (d + 1) + 1 :
               fresh[i] = list[(d + 1) + i - 1]
      BY <2>4, <3>1, <3>2, SubSeqProperties
    <3>4. Len(fresh) = Window - d
      BY <1>3, <2>1, <3>3
    <3>5. \A i \in 1 .. Window - d :
            /\ i \in 1 .. Window - (d + 1) + 1
            /\ (d + 1) + i - 1 \in 1 .. Window
            /\ (d + 1) + i - 1 = d + i
      BY <1>3, <2>1
    <3>6. \A i \in 1 .. Window - d : fresh[i] = f + (d + i) - 1
      BY <1>9, <3>3, <3>5
    <3> QED
      BY <2>1, <3>4, <3>6
  <2>6. ASSUME NEW i \in 1 .. Window - d
        PROVE  /\ all[n + i].uid = f + d + i - 1
               /\ all[n + i].stamp = NextStamp(p) + i - 1
    BY <1>1, <2>5
  <2>7. Len(all) = n + (Window - d)
    BY <1>1, <2>5
  <2>8. InOrder(all)
    <3>1. SUFFICES ASSUME NEW i \in 1 .. Len(all), NEW j \in 1 .. Len(all),
                          i < j
                   PROVE  all[i].uid < all[j].uid /\ all[i].stamp < all[j].stamp
      BY DEF InOrder
    <3>2. CASE j <= n
      <4>1. i \in 1 .. n /\ j \in 1 .. n
        BY <1>1, <2>1, <2>7, <3>1, <3>2
      <4> QED
        BY <1>1, <1>5, <3>1, <4>1
    <3>3. CASE i <= n /\ j > n
      <4>1. i \in 1 .. n /\ j - n \in 1 .. Window - d /\ n + (j - n) = j
        <5>1. /\ i \in Nat /\ j \in Nat /\ n \in Nat /\ d \in Nat
              /\ i >= 1 /\ i <= n /\ j > n /\ j <= n + (Window - d)
          BY <1>1, <1>3, <2>1, <2>7, <3>3
        <5> QED
          BY <1>3, <5>1
      <4>2. /\ all[j].uid = f + d + (j - n) - 1
            /\ all[j].stamp = NextStamp(p) + (j - n) - 1
        BY <2>6, <4>1
      <4>3. all[i].uid <= o + Window - 1 /\ all[i].stamp < NextStamp(p)
        BY <1>1, <1>4, <1>7, <4>1
      <4>4. all[i].uid \in Nat /\ all[i].stamp \in Nat
        BY <1>1, <1>2, <4>1
      <4>5. n # 0 /\ f + d >= o + Window /\ d \in Nat
        BY <1>1, <2>1, <2>2, <4>1
      <4> DEFINE k == j - n
      <4>6. k \in Nat /\ k >= 1
        BY <1>1, <1>3, <2>1, <4>1
      <4>7. all[j].uid = f + d + k - 1 /\ all[j].stamp = NextStamp(p) + k - 1
        BY <4>2
      <4> HIDE DEF k
      <4>8. NextStamp(p) \in Nat /\ f \in Nat
        BY <1>1
      <4>9. all[i].uid < all[j].uid
        <5>1. o + Window - 1 < f + d + k - 1
          BY <1>3, <4>5, <4>6
        <5>2. \A x, y, z \in Int : x <= y /\ y < z => x < z
          OBVIOUS
        <5>3. all[i].uid \in Int /\ o + Window - 1 \in Int
                /\ f + d + k - 1 \in Int
          BY <1>3, <4>4, <4>5, <4>6
        <5>4. all[i].uid < f + d + k - 1
          BY <4>3, <5>1, <5>2, <5>3
        <5> QED
          BY <4>7, <5>4
      <4>10. all[i].stamp < all[j].stamp
        BY <4>3, <4>4, <4>6, <4>7, <4>8
      <4> QED
        BY <4>9, <4>10
    <3>4. CASE i > n
      <4>1. /\ i - n \in 1 .. Window - d /\ n + (i - n) = i
            /\ j - n \in 1 .. Window - d /\ n + (j - n) = j
        <5>1. /\ i \in Nat /\ j \in Nat /\ n \in Nat /\ d \in Nat
              /\ i > n /\ i < j /\ j <= n + (Window - d)
              /\ i <= n + (Window - d)
          BY <1>1, <1>3, <2>1, <2>7, <3>1, <3>4
        <5> QED
          BY <1>3, <5>1
      <4>2. /\ all[i].uid = f + d + (i - n) - 1
            /\ all[i].stamp = NextStamp(p) + (i - n) - 1
            /\ all[j].uid = f + d + (j - n) - 1
            /\ all[j].stamp = NextStamp(p) + (j - n) - 1
        BY <2>6, <4>1
      <4>3. /\ n \in Nat /\ d \in Nat /\ NextStamp(p) \in Nat
            /\ i \in Nat /\ j \in Nat
        BY <1>1, <2>1
      <4>4. f + d + (i - n) - 1 < f + d + (j - n) - 1
        BY <3>1, <4>3
      <4>5. NextStamp(p) + (i - n) - 1 < NextStamp(p) + (j - n) - 1
        BY <3>1, <4>3
      <4> QED
        BY <4>2, <4>4, <4>5
    <3> QED
      BY <1>1, <3>2, <3>3, <3>4
  <2>9. EndsAt(all, f)
    <3>1. Len(all) >= Window
      BY <1>1, <1>3, <1>6, <2>1, <2>2, <2>7
    <3>2. ASSUME NEW i \in 1 .. Window
          PROVE  all[Len(all) - Window + i].uid = f + i - 1
      <4>1. CASE i > d
        <5>1. /\ i - d \in 1 .. Window - d
              /\ n + (i - d) = Len(all) - Window + i
              /\ f + d + (i - d) - 1 = f + i - 1
          BY <1>1, <1>3, <2>1, <2>7, <4>1
        <5> QED
          BY <2>6, <5>1
      <4>2. CASE i <= d
        <5>1. /\ n # 0 /\ Window - d + i \in 1 .. Window
              /\ f + i - 1 = o + (Window - d + i) - 1
              /\ n - Window + (Window - d + i) = Len(all) - Window + i
          <6>1. d \in Nat /\ d # 0 /\ d <= Window /\ i <= d /\ i >= 1
            BY <2>1, <1>3, <4>2
          <6>2. n # 0 /\ f = o + Window - d
            BY <2>2, <6>1
          <6>3. n \in Nat /\ Len(all) = n + (Window - d)
            BY <1>1, <2>7
          <6> QED
            BY <1>3, <6>1, <6>2, <6>3
        <5>2. n - Window + (Window - d + i) \in 1 .. n
          BY <1>1, <1>3, <1>6, <5>1
        <5>3. p.tracks[n - Window + (Window - d + i)].uid = f + i - 1
          BY <1>6, <5>1
        <5> QED
          BY <1>1, <5>1, <5>2, <5>3
      <4> QED
        BY <1>3, <2>1, <4>1, <4>2
    <3> QED
      BY <3>1, <3>2 DEF EndsAt
  <2> QED
    BY <2>8, <2>9
<1> QED
  BY <1>8, <1>9

(* What is left of it has the list at its end, if the list fits. *)
LEMMA EndIsSorted ==
  ASSUME NEW all \in Bodies, NEW ts \in Bodies, EndOf(all, ts),
         InOrder(all), NEW f \in Nat, EndsAt(all, f), Window <= MaxTracks
  PROVE  InOrder(ts) /\ EndsAt(ts, f)
<1>1. /\ Len(all) \in Nat /\ Len(ts) \in Nat /\ Len(ts) <= Len(all)
      /\ Window \in Nat \ {0} /\ MaxTracks \in Nat \ {0}
      /\ \A i \in 1 .. Len(ts) : ts[i] = all[Len(all) - Len(ts) + i]
      /\ Len(ts) = Len(all) \/ Len(ts) = MaxTracks
  BY LenProperties, SizeAssumption DEF EndOf, Bodies
<1>2. InOrder(ts)
  <2>1. \A i \in 1 .. Len(ts) : Len(all) - Len(ts) + i \in 1 .. Len(all)
    BY <1>1
  <2>2. \A i, j \in 1 .. Len(ts) :
          i < j => Len(all) - Len(ts) + i < Len(all) - Len(ts) + j
    BY <1>1
  <2> QED
    BY <1>1, <2>1, <2>2 DEF InOrder
<1>3. EndsAt(ts, f)
  <2>1. CASE Len(ts) # 0
    <3>1. /\ Len(all) >= Window
          /\ \A i \in 1 .. Window : all[Len(all) - Window + i].uid = f + i - 1
      BY <1>1, <2>1 DEF EndsAt
    <3>2. Len(ts) >= Window
      BY <1>1, <3>1
    <3>3. \A i \in 1 .. Window :
            /\ Len(ts) - Window + i \in 1 .. Len(ts)
            /\ Len(all) - Len(ts) + (Len(ts) - Window + i)
                 = Len(all) - Window + i
      BY <1>1, <3>2
    <3> QED
      BY <1>1, <3>1, <3>2, <3>3 DEF EndsAt
  <2> QED
    BY <2>1 DEF EndsAt
<1> QED
  BY <1>2, <1>3

LEMMA SortedStep ==
  ASSUME Window <= MaxTracks, IInv, Sorted, [Next]_vars
  PROVE  Sorted'
<1>0. IInv' /\ TypeInv /\ TypeInv'
  BY InvNext DEF IInv
<1>1. InOrder(playlist.tracks)
  BY <1>0, OrderOfTracks DEF Sorted
<1>2. ASSUME playlist'.tracks = playlist.tracks, origin' = origin,
             fault = "none" \/ fault' = fault
      PROVE  Sorted'
  <2>1. TracksInOrder'
    BY <1>2 DEF Sorted, TracksInOrder
  <2> QED
    BY <1>2, <2>1 DEF Sorted
<1>3. CASE UNCHANGED vars
  BY <1>2, <1>3 DEF vars
<1>4. CASE Next
  <2>1. fault = "none"
    BY <1>4 DEF Next
  <2>2. ASSUME playlist'.tracks = <<>> PROVE Sorted'
    BY <2>2, EmptySeq DEF Sorted, TracksInOrder, EndsAt
  <2>3. ASSUME NEW a \in OriginLists, InnerListCompleted(a)
        PROVE  Sorted'
    <3> DEFINE all == Filled(playlist, a.list)
    <3>1. /\ playlist \in Playlists /\ Len(playlist.tracks) <= MaxTracks
          /\ StampsEnd(playlist) /\ now \in Nat /\ origin \in Nat
          /\ a.list \in Seq(Nat) /\ a.from \in Nat /\ origin <= a.from
      BY <1>0, <2>3, ListsOfTheOrigin DEF IInv, TypeInv
    <3>2. /\ origin' = a.from
          /\ \/ playlist' = playlist /\ fault' = "terminate"
             \/ /\ playlist' = ProcessSegmentList(playlist, a.list)
                /\ playlist.remaining > 0
      BY <2>3 DEF InnerListCompleted
    <3>3. CASE playlist' = playlist /\ fault' = "terminate"
      BY <3>3 DEF Sorted, TracksInOrder
    <3>4. CASE /\ playlist' = ProcessSegmentList(playlist, a.list)
               /\ playlist.remaining > 0
      <4>1. EndsAt(playlist.tracks, origin)
        BY <2>1 DEF Sorted
      <4>2. \/ a.list = <<>> /\ a.from = origin
            \/ /\ Len(a.list) = Window
               /\ \A i \in 1 .. Window : a.list[i] = a.from + i - 1
        BY <1>0, ListsOfTheOrigin DEF TypeInv
      <4>3. InOrder(all) /\ EndsAt(all, a.from)
        BY <1>1, <3>1, <4>1, <4>2, FilledInOrder
      <4>4. EndOf(all, playlist'.tracks)
        BY <3>1, <3>4, ProcessedList
      <4>5. all \in Bodies
        BY <3>1, FilledTracks
      <4>6. playlist'.tracks \in Bodies
        BY <1>0 DEF TypeInv, Playlists
      <4> HIDE DEF all
      <4>7. InOrder(playlist'.tracks) /\ EndsAt(playlist'.tracks, a.from)
        BY <3>1, <4>3, <4>4, <4>5, <4>6, EndIsSorted
      <4>8. DOMAIN playlist'.tracks = 1 .. Len(playlist'.tracks)
        BY <4>6, LenProperties DEF Bodies
      <4>9. TracksInOrder'
        BY <4>7, <4>8 DEF TracksInOrder, InOrder
      <4> QED
        BY <3>2, <4>7, <4>9 DEF Sorted
    <3> QED
      BY <3>2, <3>3, <3>4
  <2>4. ASSUME PlaylistExpires PROVE Sorted'
    <3>1. playlist' = NoPlaylist
      BY <2>4 DEF PlaylistExpires, RemovePlaylist
    <3> QED
      BY <2>2, <3>1, NoPlaylistType
  <2> QED
    BY <1>2, <1>4, <2>1, <2>2, <2>3, <2>4, PlaylistSteps
<1> QED
  BY <1>3, <1>4

(* If the origin's lists fit into the playlist: its tracks are in order,   *)
(* each there once, through every refresh and every expiry; every fetch of *)
(* the server's own has its Mux and its entry; and what a client of the    *)
(* channel is told of is what it is sent (HLSStream.cpp:156, 197-220,      *)
(* 287-296, 399-440).                                                      *)
THEOREM ThePlaylistIsSound ==
  ASSUME Window <= MaxTracks
  PROVE  Spec => []PlaylistIsSound
<1>1. Init => Sorted
  <2>1. Init => playlist.tracks = <<>>
    BY NoPlaylistType DEF Init
  <2> QED
    BY <2>1, EmptySeq DEF Sorted, TracksInOrder, EndsAt
<1>2. IInv /\ Sorted /\ [Next]_vars => Sorted'
  BY SortedStep
<1>3. IInv /\ Sorted => PlaylistIsSound
  <2> SUFFICES ASSUME IInv, Sorted PROVE PlaylistIsSound
    OBVIOUS
  <2>1. TypeOK /\ ChannelLength /\ TracksInOrder
    BY TypesSuffice DEF IInv, Sorted
  <2>2. SegmentsHaveMux
    <3> SUFFICES ASSUME fault = "none", NeverFailed, NEW id \in InnerIds
                 PROVE  /\ mux[id].exists <=> id \in segments
                        /\ mux[id].exists <=> UnderWay(id)
      BY DEF SegmentsHaveMux
    <3>1. Running /\ id \in Ids
      BY InnerIdsAreIds DEF IInv
    <3> QED
      BY <3>1 DEF Running, ChainInv, UnderWay
  <2> QED
    BY <2>1, <2>2 DEF PlaylistIsSound
<1> QED
  BY <1>1, <1>2, <1>3, Invariance, PTL DEF Spec
=============================================================================
