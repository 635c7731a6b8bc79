---------------------------- MODULE HlsPlaylist ----------------------------
(***************************************************************************)
(* A channel of HLSStream.  A client asks for the channel's index; its     *)
(* first answer creates a playlist, which the server keeps filled: it      *)
(* fetches the origin's list of tracks and then, some time later, the      *)
(* index anew, over and over, until nobody has asked for the playlist for  *)
(* a while.  Clients that ask for the playlist get a window of its tracks. *)
(*                                                                         *)
(* Both are Muxes that are in_memory: what Cache collects in a Node is     *)
(* copied into the Mux when it is whole (NotifyCacheCompleted).            *)
(*                                                                         *)
(* Scope: -hls with -proxy (without a proxy ProcessChannel replaces the    *)
(* empty string for ever), one channel with one playlist, origins that     *)
(* answer with "Connection: close" and bodies that come in one read.  A    *)
(* fetch fails before its body or not at all; lookups in the cache         *)
(* directory find nothing, since nothing in_memory is written there.       *)
(***************************************************************************)
EXTENDS Integers, Sequences, FiniteSetsExt

CONSTANTS
  Clients,            \* connections, each used for one request
  RemainingFetches,   \* REMAINING_FETCHES
  MaxTracks,          \* CleanTracks keeps as many, 10
  TracksPerPlaylist,  \* MAX_TRACKS_PER_PLAYLIST
  Window,             \* tracks in a list of the origin
  MaxSequence,        \* bound: the last track of the origin
  MaxTime             \* bound: the last moment

ASSUME SizeAssumption ==
  /\ RemainingFetches \in Nat \ {0}
  /\ MaxTracks \in Nat \ {0} /\ TracksPerPlaylist \in Nat \ {0}
  /\ Window \in Nat \ {0}
ASSUME BoundAssumption ==
  MaxSequence \in Nat \ {0} /\ MaxTime \in Nat \ {0}

(* The ids of the four URLs: what clients ask for, and what the server     *)
(* fetches for itself (hashes of the same URLs with the proxy's host).     *)
ClientIds == {"channel", "list"}
InnerIds == {"inner_channel", "inner_list"}
Ids == ClientIds \cup InnerIds

VARIABLES
  mux,       \* Stream::resources_
  playlist,  \* the entry of HLSStream::playlists_
  segments,  \* the keys of HLSStream::segments_; the parent is the playlist
  fetch,     \* the fetch of an id, from its Request to NotifyCacheCompleted
  req,       \* the stream Request of a client
  now,       \* Helpers::GetTicks
  origin,    \* the first track of the origin's list
  fault,     \* how the process died, as in LiveStream
  (* history *)
  happened,  \* what has happened that the properties make exceptions for
  unasked    \* lists processed since a client asked, up to RemainingFetches

vars == <<mux, playlist, segments, fetch, req, now, origin, fault, happened,
          unasked>>

-----------------------------------------------------------------------------
(* An operator whose name is a definition's and a suffix is a MUTANT: the  *)
(* definition with the bug that its comment names.                         *)

(* A body is the tracks that it names.  The channel's own names none:      *)
(* what counts is whether it was rewritten (iov_len = 0 is Nothing).       *)
Nothing == <<>>
Original == <<[uid |-> 0, stamp |-> 0]>>
Rewritten == <<[uid |-> 0, stamp |-> 1]>>

(* CreateMux.  wait is TRANSFER_MODE_WAIT_UNTIL_COMPLETE, cached the type  *)
(* CACHE, body the buffer's first slot, header the body that the header's  *)
(* Content-Length is about, and made (history) when the body was made.     *)
NewMux ==
  [exists |-> TRUE, cached |-> FALSE, wait |-> FALSE, is_completed |-> FALSE,
   header |-> Nothing, body |-> Nothing, made |-> 0, requests |-> {}]
NoMux == [NewMux EXCEPT !.exists = FALSE]

NoPlaylist ==
  [exists |-> FALSE, remaining |-> 0, last_stamp |-> 0, tracks |-> <<>>]

(* struct Request of a client, as in CachedResource.  told is the body     *)
(* that the header it got was about, sent the body it got.                 *)
NoRequest ==
  [state |-> "none", id |-> "channel", event_type |-> "none",
   is_processing |-> FALSE, flight |-> 0, pivot |-> 0, told |-> Nothing,
   sent |-> Nothing]

StreamRequest(id) == [NoRequest EXCEPT !.state = "live", !.id = id]

HeaderRequest(r, m) ==
  [r EXCEPT !.event_type = "WRITE_HEADER", !.is_processing = TRUE,
            !.flight = @ + 1, !.told = m.header]

BlockRequest(r, m) ==
  [r EXCEPT !.event_type = "WRITE_PARTIAL", !.is_processing = TRUE,
            !.flight = @ + 1, !.pivot = 1, !.sent = m.body]

CloseRequest(r) ==
  [r EXCEPT !.event_type = "SERVER_CLOSE", !.flight = @ + 1]

Released(r) == [r EXCEPT !.state = "freed"]

Completed(r) == [r EXCEPT !.flight = @ - 1, !.is_processing = FALSE]

Completes(c, event_type) ==
  req[c].state = "live" /\ req[c].event_type = event_type
    /\ req[c].flight > 0

Init ==
  /\ mux = [id \in Ids |-> NoMux]
  /\ playlist = NoPlaylist
  /\ segments = {}
  /\ fetch = [id \in Ids |-> "none"]
  /\ req = [c \in Clients |-> NoRequest]
  /\ now = 1
  /\ origin = 1
  /\ fault = "none"
  /\ happened = {}
  /\ unasked = 0

Crash(how) ==
  /\ fault' = how
  /\ UNCHANGED <<mux, playlist, segments, fetch, req, now, origin, happened,
                 unasked>>

-----------------------------------------------------------------------------
(* Serving a Mux that is in_memory. *)

(* AddWriteHeaders *)
AddWriteHeaders(r, m) ==
  IF m.is_completed \/ ~m.wait THEN HeaderRequest(r, m) ELSE r

(* AddWriteStreamRequest: the body, or nothing yet, or the end, for which  *)
(* the request is also removed from the Mux.                               *)
Sends(r, m) == r.pivot = 0 /\ m.body # Nothing
Ends(r, m) == ~Sends(r, m) /\ m.is_completed

AddWriteStreamRequest(r, m) ==
  IF Sends(r, m) THEN BlockRequest(r, m)
  ELSE IF Ends(r, m) THEN CloseRequest(r)
  ELSE r

(* Mutant: whoever waits for the whole body is left waiting. *)
Notified_Quiet(r, m) ==
  IF r.is_processing \/ m.wait THEN r ELSE AddWriteStreamRequest(r, m)

(* NotifyCacheCompleted for one of the requests: those without an          *)
(* operation in flight get what they wait for.                             *)
Notified(r, m) ==
  IF r.is_processing THEN r
  ELSE IF m.wait THEN AddWriteHeaders(r, m)
  ELSE AddWriteStreamRequest(r, m)

(* A request to which a body is sent without a header before: its iov[0]   *)
(* is not initialised.                                                     *)
Unprepared(r, m) ==
  ~r.is_processing /\ ~m.wait /\ r.event_type = "none" /\ Sends(r, m)

(* NotifyCacheCompleted of the Mux m, which the handler has prepared.  All *)
(* its requests are taken.  The code's loop may pass over some of those    *)
(* that end in it, since RemoveRequest assigns the vector anew that it runs*)
(* over (Stream.cpp:293, 342-354): those of a list that was asked for      *)
(* directly, with an empty body.  No property speaks of these.             *)
NotifyCacheCompleted(m) ==
  LET whole == [m EXCEPT !.is_completed = TRUE]
      ended == {c \in m.requests : ~req[c].is_processing /\ ~m.wait
                                     /\ Ends(req[c], whole)}
  IN  [mux |-> [whole EXCEPT !.requests = @ \ ended],
       req |-> [c \in Clients |-> IF c \in m.requests
                                    THEN Notified(req[c], whole) ELSE req[c]],
       fault |-> IF \E c \in m.requests : Unprepared(req[c], whole)
                   THEN "undefined" ELSE "none"]

-----------------------------------------------------------------------------
(* The tracks of the playlist. *)

Uids(p) == {p.tracks[i].uid : i \in DOMAIN p.tracks}

(* The loop over a list, which names a track once: those that are not      *)
(* among these.                                                            *)
Fresh(uids, list) ==
  LET kept[n \in 0 .. Len(list)] ==
        IF n = 0 THEN <<>>
        ELSE IF list[n] \in uids THEN kept[n - 1]
        ELSE Append(kept[n - 1], list[n])
  IN  kept[Len(list)]

(* Mutant: the vectors are cut down to the last track. *)
CleanTracks_Last(tracks) ==
  IF Len(tracks) < MaxTracks THEN tracks
  ELSE SubSeq(tracks, Len(tracks), Len(tracks))

(* CleanTracks: the last ones stay. *)
CleanTracks(tracks) ==
  IF Len(tracks) < MaxTracks THEN tracks
  ELSE SubSeq(tracks, Len(tracks) - MaxTracks + 1, Len(tracks))

(* Mutant: a fetch is not counted. *)
ProcessSegmentList_Uncounted(p, list) ==
  LET base == IF p.last_stamp = 0 THEN now + 1 ELSE p.last_stamp
      fresh == Fresh(Uids(p), list)
  IN  [p EXCEPT !.last_stamp = base + Len(fresh),
                !.tracks = CleanTracks(@ \o [i \in DOMAIN fresh |->
                             [uid |-> fresh[i], stamp |-> base + i - 1]])]

(* ProcessSegmentList on a list of uids: those that the playlist does not  *)
(* have are appended.  Every track lasts one moment; the first stamp of a  *)
(* playlist is TRACK_DELTA from now.                                       *)
ProcessSegmentList(p, list) ==
  LET base == IF p.last_stamp = 0 THEN now + 1 ELSE p.last_stamp
      fresh == Fresh(Uids(p), list)
      last == base + Len(fresh)
      tracks == p.tracks \o [i \in DOMAIN fresh |->
                               [uid |-> fresh[i], stamp |-> base + i - 1]]
  IN  [p EXCEPT !.remaining = @ - 1, !.last_stamp = last,
                !.tracks = IF last # p.last_stamp THEN CleanTracks(tracks)
                                                  ELSE tracks]

Coming(p) == {i \in DOMAIN p.tracks : p.tracks[i].stamp > now}

(* The first track that is to come, or the first of all. *)
Pivot(p) == IF Coming(p) = {} THEN 1 ELSE Min(Coming(p))

(* GenerateSegmentClientList, only if there are requests; track_sequence   *)
(* must have an element at the pivot.                                      *)
Unlisted(m, p) == m.requests # {} /\ p.tracks = <<>>

GenerateSegmentClientList(m, p) ==
  LET last == Min({Len(p.tracks), Pivot(p) + TracksPerPlaylist - 1})
      list == SubSeq(p.tracks, Pivot(p), last)
  IN  IF m.requests = {} THEN m
      ELSE [m EXCEPT !.body = list, !.header = list, !.made = now]

-----------------------------------------------------------------------------
(* Clients.  SERVER_READ of a GET; HLSStream::HandleExistsResource. *)

OpenChannel(c) ==
  /\ req[c].state = "none" /\ ~mux["channel"].exists
  /\ req' = [req EXCEPT ![c] = StreamRequest("channel")]
  /\ mux' = [mux EXCEPT !["channel"] =
               [NewMux EXCEPT !.wait = TRUE, !.requests = {c}]]
  /\ fetch' = [fetch EXCEPT !["channel"] = "fetching"]
  /\ UNCHANGED <<playlist, segments, now, origin, fault, happened, unasked>>

(* The request joins, and gets the header if the Mux has a type.           *)
Joined(id) ==
  IF mux[id].cached THEN AddWriteHeaders(StreamRequest(id), mux[id])
                    ELSE StreamRequest(id)

JoinChannel(c) ==
  /\ req[c].state = "none" /\ mux["channel"].exists
  /\ req' = [req EXCEPT ![c] = Joined("channel")]
  /\ mux' = [mux EXCEPT !["channel"].requests = @ \cup {c}]
  /\ UNCHANGED <<playlist, segments, fetch, now, origin, fault, happened,
                 unasked>>

(* A list that no channel has led to is fetched for the client. *)
OpenList(c) ==
  /\ req[c].state = "none" /\ ~mux["list"].exists
  /\ req' = [req EXCEPT ![c] = StreamRequest("list")]
  /\ mux' = [mux EXCEPT !["list"] = [NewMux EXCEPT !.requests = {c}]]
  /\ fetch' = [fetch EXCEPT !["list"] = "fetching"]
  /\ happened' = happened \cup {"direct"}
  /\ UNCHANGED <<playlist, segments, now, origin, fault, unasked>>

(* Mutant: the fetches that remain are not renewed. *)
JoinList_NoRenewal(c) ==
  /\ req[c].state = "none" /\ mux["list"].exists
  /\ playlist.exists
  /\ LET m == [mux["list"] EXCEPT !.requests = @ \cup {c}]
     IN  /\ mux["list"].is_completed => ~Unlisted(m, playlist)
         /\ req' = [req EXCEPT ![c] = Joined("list")]
         /\ mux' = [mux EXCEPT !["list"] =
                      IF m.is_completed
                        THEN GenerateSegmentClientList(m, playlist) ELSE m]
         /\ unasked' = 0
         /\ UNCHANGED <<playlist, segments, fetch, now, origin, fault,
                        happened>>

(* A request for the list: the playlist is looked up with at(), its        *)
(* remaining fetches are renewed, and a list that has been complete once   *)
(* is made anew, after the header of the old one has been sent.            *)
JoinList(c) ==
  /\ req[c].state = "none" /\ mux["list"].exists
  /\ LET m == [mux["list"] EXCEPT !.requests = @ \cup {c}]
     IN  IF ~playlist.exists \/ (m.is_completed /\ Unlisted(m, playlist))
           THEN Crash("terminate")
           ELSE /\ req' = [req EXCEPT ![c] = Joined("list")]
                /\ playlist' = [playlist EXCEPT !.remaining = RemainingFetches]
                /\ mux' = [mux EXCEPT !["list"] =
                             IF m.is_completed
                               THEN GenerateSegmentClientList(m, playlist)
                               ELSE m]
                /\ unasked' = 0
                /\ UNCHANGED <<segments, fetch, now, origin, fault, happened>>

(* Completions that carry the client's Request. *)
Serve(c, r) ==
  /\ req' = [req EXCEPT ![c] = AddWriteStreamRequest(r, mux[r.id])]
  /\ mux' = [mux EXCEPT ![r.id].requests =
               IF Ends(r, mux[r.id]) THEN @ \ {c} ELSE @]
  /\ UNCHANGED <<playlist, segments, fetch, now, origin, fault, happened,
                 unasked>>

(* WRITE_HEADER: HandleWriteHeaders starts at the first slot. *)
HeaderWritten(c) ==
  /\ Completes(c, "WRITE_HEADER")
  /\ IF ~mux[req[c].id].exists THEN Crash("terminate")
     ELSE Serve(c, [Completed(req[c]) EXCEPT !.pivot = 0])

(* WRITE_PARTIAL that did not fail with EPIPE: ProcessNext. *)
BlockWritten(c) ==
  /\ Completes(c, "WRITE_PARTIAL")
  /\ IF ~mux[req[c].id].exists THEN Crash("terminate")
     ELSE Serve(c, Completed(req[c]))

(* WRITE_PARTIAL with EPIPE. *)
BlockRefused(c) ==
  /\ Completes(c, "WRITE_PARTIAL")
  /\ IF mux[req[c].id].exists /\ c \notin mux[req[c].id].requests
       THEN Crash("undefined")
       ELSE /\ req' = [req EXCEPT ![c] = Released(Completed(@))]
            /\ mux' = [mux EXCEPT ![req[c].id].requests = @ \ {c}]
            /\ UNCHANGED <<playlist, segments, fetch, now, origin, fault,
                           happened, unasked>>

HandleClose(c) ==
  /\ Completes(c, "SERVER_CLOSE")
  /\ req' = [req EXCEPT ![c] = Released(Completed(@))]
  /\ UNCHANGED <<mux, playlist, segments, fetch, now, origin, fault, happened,
                 unasked>>

FreedCompleted(c) ==
  /\ req[c].state = "freed" /\ req[c].flight > 0
  /\ Crash("undefined")

-----------------------------------------------------------------------------
(* Fetches. *)

(* The timer of RequestFile ends: DNS_FETCHAAAA. *)
TimerFires(id) ==
  /\ fetch[id] = "delayed"
  /\ fetch' = [fetch EXCEPT ![id] = "fetching"]
  /\ UNCHANGED <<mux, playlist, segments, req, now, origin, fault, happened,
                 unasked>>

(* HTTP_READ_HEADER with data: GenerateNode and SetCacheResource. *)
HeaderRead(id) ==
  /\ fetch[id] = "fetching"
  /\ IF ~mux[id].exists THEN Crash("terminate")
     ELSE LET m == [mux[id] EXCEPT !.cached = TRUE, !.is_completed = FALSE,
                                   !.header = Original]
          IN  /\ mux' = [mux EXCEPT ![id] = m]
              /\ req' = [c \in Clients |->
                           IF c \in m.requests /\ ~req[c].is_processing
                             THEN AddWriteHeaders(req[c], m) ELSE req[c]]
              /\ fetch' = [fetch EXCEPT ![id] = "body"]
              /\ UNCHANGED <<playlist, segments, now, origin, fault, happened,
                             unasked>>

(* The fetch ends before its header: with an error the requests are        *)
(* answered by Requests of their own, else they are closed.  The Mux goes, *)
(* an entry of segments_ stays.                                            *)
FetchEnds(id, ended) ==
  /\ fetch[id] = "fetching"
  /\ IF ~mux[id].exists THEN Crash("terminate")
     ELSE /\ req' = [c \in Clients |-> IF c \in mux[id].requests
                                         THEN ended[c] ELSE req[c]]
          /\ mux' = [mux EXCEPT ![id] = NoMux]
          /\ fetch' = [fetch EXCEPT ![id] = "none"]
          /\ happened' = happened \cup {"failed"}
          /\ UNCHANGED <<playlist, segments, now, origin, fault, unasked>>

ReleaseErrorAllWaitingRequest(id) ==
  FetchEnds(id, [c \in Clients |-> Released(req[c])])

CloseStream(id) ==
  FetchEnds(id, [c \in Clients |-> CloseRequest(req[c])])

(* The resolver drops the Request. *)
FetchDropped(id) ==
  /\ fetch[id] = "fetching"
  /\ fetch' = [fetch EXCEPT ![id] = "dropped"]
  /\ happened' = happened \cup {"failed"}
  /\ UNCHANGED <<mux, playlist, segments, req, now, origin, fault, unasked>>

(* HTTP_READ_CONTENT up to the end: AppendBuffer and CloseBuffer, which    *)
(* submits the nop that completes the Node.                                *)
BodyEnds(id) ==
  /\ fetch[id] = "body"
  /\ IF ~mux[id].exists THEN Crash("terminate")
     ELSE /\ fetch' = [fetch EXCEPT ![id] = "whole"]
          /\ UNCHANGED <<mux, playlist, segments, req, now, origin, fault,
                         happened, unasked>>

(* RequestFile: a Mux for the id, unless there is one. *)
RequestFile(ms, id) ==
  [ms EXCEPT ![id] = IF @.exists THEN @ ELSE NewMux]

(* Mutant: the playlist is entered without a Mux for its list. *)
CreatePlaylist_NoMux(ms) == ms

(* CreatePlaylist: the Mux of the list, unless there is one. *)
CreatePlaylist(ms) ==
  IF playlist.exists \/ ms["list"].exists THEN ms
  ELSE [ms EXCEPT !["list"] =
          [NewMux EXCEPT !.cached = TRUE, !.wait = TRUE]]

(* ProcessChannel on a body with the proxy's text: UpdateHeader; the new   *)
(* body is copied into the Mux when it is notified.                        *)
ProcessChannel(m) == [m EXCEPT !.body = Rewritten, !.header = Rewritten]

(* What a new_buffer that nothing was put into leads to: it is allocated   *)
(* but not initialised.  The process may die of it, or find iov_len = 0.   *)
Uninitialised ==
  /\ fault' = "undefined"
  /\ happened' = happened \cup {"foreign"}
  /\ UNCHANGED <<mux, playlist, segments, fetch, req, now, origin, unasked>>

(* CACHE_WRITE_CONTENT of a whole Node: HandleWrite, ReleaseBuffer and     *)
(* HLSStream::NotifyCacheCompleted.  First the channel: "streams" is a     *)
(* body with the URL of the list.                                          *)
Ready(id) == fetch[id] = "whole"

ChannelCompleted ==
  /\ Ready("channel") /\ mux["channel"].exists
  /\ LET done == NotifyCacheCompleted(ProcessChannel(mux["channel"]))
     IN  /\ playlist' = IF playlist.exists THEN playlist
                        ELSE [NoPlaylist EXCEPT
                                !.exists = TRUE,
                                !.remaining = RemainingFetches]
         /\ mux' = [RequestFile(CreatePlaylist(mux), "inner_list")
                      EXCEPT !["channel"] = done.mux]
         /\ segments' = segments \cup {"inner_list"}
         /\ fetch' = [fetch EXCEPT !["channel"] = "none",
                                   !["inner_list"] = "delayed"]
         /\ req' = done.req
         /\ unasked' = 0
         /\ UNCHANGED <<now, origin, fault, happened>>

(* A body of the channel or of a list that was fetched for a client which  *)
(* leads nowhere.  Without any bytes new_buffer is empty; with some it is  *)
(* not initialised.                                                        *)
ForeignCompleted(id) ==
  /\ Ready(id)
  /\ IF ~mux[id].exists THEN Crash("terminate")
     ELSE LET done == NotifyCacheCompleted(mux[id])
          IN  \/ /\ mux' = [mux EXCEPT ![id] = done.mux]
                 /\ req' = done.req
                 /\ fault' = done.fault
                 /\ fetch' = [fetch EXCEPT ![id] = "none"]
                 /\ happened' = happened \cup {"foreign"}
                 /\ UNCHANGED <<playlist, segments, now, origin, unasked>>
              \/ Uninitialised

(* The index that the server fetched: the list is fetched again, if the    *)
(* body leads to it.                                                       *)
InnerChannelCompleted ==
  /\ Ready("inner_channel")
  /\ IF "inner_channel" \notin segments \/ ~mux["inner_channel"].exists
       THEN Crash("terminate")
     ELSE /\ mux' = [RequestFile(mux, "inner_list")
                       EXCEPT !["inner_channel"] = NoMux]
          /\ segments' =
               (segments \cup {"inner_list"}) \ {"inner_channel"}
          /\ fetch' = [fetch EXCEPT !["inner_channel"] = "none",
                                    !["inner_list"] = "delayed"]
          /\ UNCHANGED <<playlist, req, now, origin, fault, happened, unasked>>

InnerForeignCompleted ==
  /\ Ready("inner_channel") /\ "inner_channel" \in segments
  /\ \/ /\ mux' = [mux EXCEPT !["inner_channel"] = NoMux]
        /\ segments' = segments \ {"inner_channel"}
        /\ fetch' = [fetch EXCEPT !["inner_channel"] = "none"]
        /\ happened' = happened \cup {"foreign"}
        /\ UNCHANGED <<playlist, req, now, origin, fault, unasked>>
     \/ Uninitialised

(* Mutant: the channel's Mux stays. *)
RemovePlaylist_KeepChannel ==
  /\ playlist' = NoPlaylist
  /\ mux' = [mux EXCEPT !["inner_list"] = NoMux]
  /\ UNCHANGED req

(* RemovePlaylist: the playlist and the channel go, whose requests are     *)
(* freed, whatever they have in flight.  The Mux of the list stays.        *)
RemovePlaylist ==
  /\ playlist' = NoPlaylist
  /\ mux' = [mux EXCEPT !["inner_list"] = NoMux, !["channel"] = NoMux]
  /\ req' = [c \in Clients |-> IF c \in mux["channel"].requests
                                 THEN Released(req[c]) ELSE req[c]]

(* The list of tracks, when the playlist has no fetches left. *)
PlaylistExpires ==
  /\ Ready("inner_list") /\ "inner_list" \in segments /\ playlist.exists
  /\ playlist.remaining <= 0
  /\ RemovePlaylist
  /\ segments' = segments \ {"inner_list"}
  /\ fetch' = [fetch EXCEPT !["inner_list"] = "none"]
  /\ happened' = happened \cup {"expired"}
  /\ UNCHANGED <<now, origin, fault, unasked>>

(* The origin's list, which moves on but never back, or one without        *)
(* tracks.                                                                 *)
OriginLists ==
  {[from |-> f, list |-> [i \in 1 .. Window |-> f + i - 1]] :
     f \in origin .. MaxSequence - Window + 1}
    \cup {[from |-> origin, list |-> <<>>]}

(* The list of tracks: the playlist is filled, the index is to be fetched  *)
(* again, and the clients that wait for the list are served.               *)
InnerListCompleted(answer) ==
  /\ Ready("inner_list")
  /\ origin' = answer.from
  /\ IF \/ "inner_list" \notin segments \/ ~playlist.exists
        \/ ~mux["inner_list"].exists \/ ~mux["list"].exists
       THEN fault' = "terminate"
            /\ UNCHANGED <<mux, playlist, segments, fetch, req, now, happened,
                           unasked>>
       ELSE /\ playlist.remaining > 0
            /\ LET p == ProcessSegmentList(playlist, answer.list)
                   m == GenerateSegmentClientList(mux["list"], p)
                   done == NotifyCacheCompleted(m)
                   lost == Unlisted(mux["list"], p)
               IN  /\ playlist' = p
                   /\ mux' = [RequestFile(mux, "inner_channel")
                                EXCEPT !["inner_list"] = NoMux,
                                       !["list"] = done.mux]
                   /\ req' = done.req
                   /\ fault' = IF lost THEN "terminate" ELSE done.fault
                   /\ happened' = happened \cup
                        (IF p.tracks = <<>> THEN {"trackless"} ELSE {})
            /\ segments' = (segments \cup {"inner_channel"}) \ {"inner_list"}
            /\ fetch' = [fetch EXCEPT !["inner_list"] = "none",
                                      !["inner_channel"] = "delayed"]
            /\ unasked' = Min({unasked + 1, RemainingFetches})
            /\ UNCHANGED now

Tick ==
  /\ now < MaxTime
  /\ now' = now + 1
  /\ UNCHANGED <<mux, playlist, segments, fetch, req, origin, fault, happened,
                 unasked>>

-----------------------------------------------------------------------------
ClientStep(c) ==
  \/ OpenChannel(c) \/ JoinChannel(c) \/ OpenList(c) \/ JoinList(c)
  \/ HeaderWritten(c) \/ BlockWritten(c) \/ BlockRefused(c)
  \/ HandleClose(c) \/ FreedCompleted(c)

FetchCompleted(id) ==
  \/ id = "channel" /\ ChannelCompleted
  \/ id \in ClientIds /\ ForeignCompleted(id)
  \/ id = "inner_channel" /\ (InnerChannelCompleted \/ InnerForeignCompleted)
  \/ id = "inner_list" /\ PlaylistExpires
  \/ id = "inner_list" /\ \E a \in OriginLists : InnerListCompleted(a)

FetchStep(id) ==
  \/ TimerFires(id) \/ HeaderRead(id) \/ BodyEnds(id) \/ FetchCompleted(id)
  \/ ReleaseErrorAllWaitingRequest(id) \/ CloseStream(id) \/ FetchDropped(id)

Next ==
  /\ fault = "none"
  /\ \/ \E c \in Clients : ClientStep(c)
     \/ \E id \in Ids : FetchStep(id)
     \/ Tick

Spec == Init /\ [][Next]_vars

(* A fetch goes on in the end, to whatever result: the timer fires, the    *)
(* origin answers or does not.  What is written to a client completes.     *)
Fairness ==
  /\ \A id \in Ids : WF_vars(fault = "none" /\ FetchStep(id))
  /\ \A c \in Clients :
       WF_vars(fault = "none" /\ (HeaderWritten(c) \/ BlockWritten(c)
                                    \/ HandleClose(c)))

FairSpec == Spec /\ Fairness

-----------------------------------------------------------------------------
TypeOK ==
  /\ \A id \in Ids :
       /\ mux[id].requests \subseteq Clients
       /\ {mux[id].exists, mux[id].cached, mux[id].wait,
           mux[id].is_completed} \subseteq BOOLEAN
       /\ mux[id].made \in 0 .. MaxTime
       /\ Len(mux[id].body) <= TracksPerPlaylist
  /\ playlist.exists \in BOOLEAN
  /\ playlist.remaining \in 0 .. RemainingFetches
  /\ playlist.last_stamp \in Nat
  /\ Len(playlist.tracks) <= MaxTracks
  /\ segments \subseteq InnerIds
  /\ fetch \in [Ids -> {"none", "delayed", "fetching", "dropped", "body",
                        "whole"}]
  /\ \A c \in Clients :
       /\ req[c].state \in {"none", "live", "freed"}
       /\ req[c].id \in ClientIds
       /\ req[c].event_type \in {"none", "WRITE_HEADER", "WRITE_PARTIAL",
                                 "SERVER_CLOSE"}
       /\ req[c].flight \in Nat /\ req[c].pivot \in 0 .. 1
  /\ now \in 1 .. MaxTime
  /\ origin \in 1 .. MaxSequence
  /\ fault \in {"none", "terminate", "undefined"}

NeverFailed == happened \cap {"failed", "foreign"} = {}

UnderWay(id) == fetch[id] \notin {"none", "dropped"}

(* A playlist is refreshed by exactly one fetch at a time: the list's,     *)
(* then the index's, then the list's, each of which starts the next        *)
(* (HLSStream.cpp:137, 236-241), for as long as the origin answers.  When  *)
(* it ends the channel goes as well, so that the next client of it starts  *)
(* the playlist anew (HLSStream.cpp:386-393).                              *)
OneChain ==
  fault = "none" =>
    /\ (playlist.exists /\ NeverFailed) =>
         Quantify(InnerIds, LAMBDA id : UnderWay(id)) = 1
    /\ ~playlist.exists => \A id \in InnerIds : ~UnderWay(id)
    /\ (mux["channel"].exists /\ NeverFailed) =>
         (playlist.exists <=> ~UnderWay("channel"))

(* A server's own fetch, its Mux and its entry of segments_ come and go    *)
(* together (HLSStream.cpp:287-296, 399-408).                              *)
SegmentsHaveMux ==
  (fault = "none" /\ NeverFailed) =>
    \A id \in InnerIds :
      /\ mux[id].exists <=> id \in segments
      /\ mux[id].exists <=> UnderWay(id)

(* The vectors of a playlist stay in order: a track is there once, later   *)
(* tracks have later numbers and later stamps, although the origin's lists *)
(* overlap and the oldest tracks are dropped (HLSStream.cpp:197-220,       *)
(* 424-440).                                                               *)
TracksInOrder ==
  \A i, j \in DOMAIN playlist.tracks :
    i < j => /\ playlist.tracks[i].uid < playlist.tracks[j].uid
             /\ playlist.tracks[i].stamp < playlist.tracks[j].stamp

(* Whoever has been sent nothing waits for a fetch that will come to it:   *)
(* of the channel, or of the playlist's chain (HLSStream.cpp:74-80,        *)
(* Stream.cpp:342-354).                                                    *)
WaitersAreFed ==
  (fault = "none" /\ NeverFailed) =>
    \A c \in Clients :
      (req[c].state = "live" /\ req[c].flight = 0) =>
        /\ mux[req[c].id].exists /\ c \in mux[req[c].id].requests
        /\ ~mux[req[c].id].is_completed
        /\ \/ UnderWay(req[c].id)
           \/ /\ req[c].id = "list" /\ playlist.exists
              /\ \E id \in InnerIds : UnderWay(id)

(* The header that a client of the channel gets is about the body it gets  *)
(* (HLSStream.cpp:156, 410-422).  A client of the list can be sent the     *)
(* header of an older list, since JoinList sends it first.                 *)
ChannelLength ==
  \A c \in Clients :
    (req[c].id = "channel" /\ req[c].sent # Nothing) =>
      req[c].told = req[c].sent

(* An at() that throws needs a playlist that expired or one that is empty, *)
(* or a client that asked for a list which no channel had led to.          *)
TerminateNeedsCause ==
  fault = "terminate" =>
    happened \cap {"expired", "direct", "trackless"} # {}

(* Memory is only misused if a body led nowhere, if a playlist expired     *)
(* while its channel was being sent, or after a list was asked for         *)
(* directly (HLSStream.cpp:86-102, 386-391, Stream.cpp:207-209).           *)
UndefinedNeedsCause ==
  fault = "undefined" =>
    happened \cap {"foreign", "expired", "direct"} # {}

(* The process only dies of these.                                         *)
FaultNeedsCause == TerminateNeedsCause /\ UndefinedNeedsCause

(* The bookkeeping: the types, the vectors, what belongs to a fetch of the *)
(* server's own, and what is announced of a body.                          *)
PlaylistIsSound ==
  /\ TypeOK
  /\ SegmentsHaveMux
  /\ TracksInOrder
  /\ ChannelLength

(* A playlist is only removed when RemainingFetches lists came since a     *)
(* client asked for it (HLSStream.cpp:52-53, 165-169).                     *)
RemovalNeedsIdle ==
  [][(playlist.exists /\ ~playlist'.exists)
       => unasked >= RemainingFetches]_vars

(* A playlist that nobody asks for is removed in the end, if the origin    *)
(* goes on answering (HLSStream.cpp:165-168).                              *)
Expires ==
  (playlist.exists /\ NeverFailed)
    ~> (~playlist.exists \/ ~NeverFailed \/ fault # "none")

(* "Only copy the tracks that are after the current ticks"                 *)
(* (HLSStream.cpp:345).                                                    *)
OnlyTracksToCome ==
  \A i \in DOMAIN mux["list"].body :
    mux["list"].made > 0 => mux["list"].body[i].stamp > mux["list"].made

=============================================================================
