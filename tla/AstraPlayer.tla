---------------------------- MODULE AstraPlayer ----------------------------
(***************************************************************************)
(* AstraHttpClient: a channel whose tracks the server plays one after the  *)
(* other into one stream.  A fetch of the index leads to a fetch of the    *)
(* list of tracks, that to the first track, the end of a track to the next *)
(* one, and the end of the last to the list again.  All of them carry the  *)
(* resource id of the channel, and nothing ties a chain of fetches to the  *)
(* Mux it was started for.                                                 *)
(*                                                                         *)
(* Scope: one channel.  Of the Mux it keeps whether it is there, its type  *)
(* and its clients; blocks and writes to clients are LiveStream's.  A      *)
(* timer of RequestTrack may fire at any moment.  An index or a list of    *)
(* tracks comes in one read, with the header or after it.                  *)
(***************************************************************************)
EXTENDS Integers, Sequences, FiniteSets

CONSTANTS
  Clients,      \* connections, each used for one request
  Window,       \* tracks in a list of the origin
  MaxSequence,  \* bound: the last track of the origin
  Slots         \* bound: fetches at the same time

ASSUME BoundAssumption ==
  /\ Window \in Nat \ {0} /\ MaxSequence \in Nat \ {0}
  /\ Slots \in Nat \ {0}

VARIABLES
  resource,   \* the channel is in Stream::resources_
  type,       \* mux->type
  requests,   \* the clients of mux->requests
  joined,     \* the clients whose request has come
  playlist,   \* the entry of playlist_
  fetch,      \* the fetches, from the inner Request to ReleaseSocket
  origin,     \* the first track of the origin's list
  fault,      \* how the process died, as in LiveStream
  (* history *)
  left,       \* a client has left
  failed      \* a fetch has failed or led nowhere

vars == <<resource, type, requests, joined, playlist, fetch, origin, fault,
          left, failed>>

-----------------------------------------------------------------------------
(* An operator whose name is a definition's and a suffix is a MUTANT: the  *)
(* definition with the bug that its comment names.                         *)

(* struct Playlist.  url tells whether it is set; a duration is 0 or not.  *)
NoPlaylist ==
  [exists |-> FALSE, url |-> FALSE, last_track |-> 0, tracks |-> <<>>,
   tracks_duration |-> <<>>]

(* Mutant: no duration stands in front of the first track's. *)
NewPlaylist_NoDuration == [NoPlaylist EXCEPT !.exists = TRUE]

(* CreatePlaylist: the first track need not wait, so a 0 comes first. *)
NewPlaylist ==
  [NoPlaylist EXCEPT !.exists = TRUE, !.tracks_duration = <<0>>]

(* A fetch of the "index", of the list of tracks ("content", HTTP_TYPE_    *)
(* CONTENT) or of a track ("ts").  Its state is that of the Request that   *)
(* is in flight: "requested" is the inner one, until it is connected.      *)
NoFetch == [kind |-> "none", state |-> "none"]
Requested(kind) == [kind |-> kind, state |-> "requested"]

Init ==
  /\ resource = FALSE /\ type = "UNDEFINED" /\ requests = {}
  /\ joined = {}
  /\ playlist = NoPlaylist
  /\ fetch = [f \in 1 .. Slots |-> NoFetch]
  /\ origin = 1
  /\ fault = "none"
  /\ left = FALSE /\ failed = FALSE

(* The Mux is gone: ReleaseResource. *)
Released ==
  /\ resource' = FALSE
  /\ type' = "UNDEFINED"
  /\ requests' = {}

Crash ==
  /\ fault' = "terminate"
  /\ UNCHANGED <<resource, type, requests, joined, playlist, fetch, origin,
                 left, failed>>

(* The fetch f has ended, or another has taken its place. *)
Ended(f) == fetch' = [fetch EXCEPT ![f] = NoFetch]
Follows(f, kind) == fetch' = [fetch EXCEPT ![f] = Requested(kind)]
Reads(f, state) == fetch' = [fetch EXCEPT ![f].state = state]

-----------------------------------------------------------------------------
(* Clients. *)

(* SERVER_READ of a GET that finds no Mux; the index is in no cache. *)
Open(c) ==
  /\ c \notin joined /\ ~resource
  /\ resource' = TRUE /\ requests' = {c}
  /\ joined' = joined \cup {c}
  /\ \E f \in 1 .. Slots :
       /\ fetch[f] = NoFetch
       /\ \A g \in 1 .. f - 1 : fetch[g] # NoFetch
       /\ fetch' = [fetch EXCEPT ![f] = Requested("index")]
  /\ UNCHANGED <<type, playlist, origin, fault, left, failed>>

(* Mutant: a client that joins has the index fetched again. *)
Join_Fetch(c) ==
  /\ c \notin joined /\ resource
  /\ requests' = requests \cup {c}
  /\ joined' = joined \cup {c}
  /\ \E f \in 1 .. Slots :
       fetch[f] = NoFetch /\ fetch' = [fetch EXCEPT ![f] = Requested("index")]
  /\ UNCHANGED <<resource, type, playlist, origin, fault, left, failed>>

Join(c) ==
  /\ c \notin joined /\ resource
  /\ requests' = requests \cup {c}
  /\ joined' = joined \cup {c}
  /\ UNCHANGED <<resource, type, playlist, fetch, origin, fault, left, failed>>

(* RemoveRequest: the last client takes the Mux with it. *)
RemoveRequest(c) ==
  IF requests = {c} THEN Released
  ELSE requests' = requests \ {c} /\ UNCHANGED <<resource, type>>

(* SERVER_WRITE_PARTIAL with EPIPE. *)
Leave(c) ==
  /\ resource /\ type = "STREAMING" /\ c \in requests
  /\ RemoveRequest(c)
  /\ left' = TRUE
  /\ UNCHANGED <<joined, playlist, fetch, origin, fault, failed>>

-----------------------------------------------------------------------------
(* HTTP_FETCH, after the timer or nop and the resolver. *)

Connected(f) ==
  /\ fetch[f].state = "requested"
  /\ Reads(f, "header")
  /\ UNCHANGED <<resource, type, requests, joined, playlist, origin, fault,
                 left, failed>>

(* ReleaseErrorAllWaitingRequest, and the end of f. *)
ErrorAll(f) ==
  IF ~resource THEN Crash
  ELSE /\ Released
       /\ Ended(f)
       /\ failed' = TRUE
       /\ UNCHANGED <<joined, playlist, origin, fault, left>>

ConnectFails(f) == fetch[f].state = "requested" /\ ErrorAll(f)

(* The fetch ends and nobody is told. *)
Silently(f) ==
  /\ Ended(f)
  /\ failed' = TRUE
  /\ UNCHANGED <<resource, type, requests, joined, playlist, origin, fault,
                 left>>

(* The resolver drops the Request. *)
ResolverDrops(f) == fetch[f].state = "requested" /\ Silently(f)

-----------------------------------------------------------------------------
(* HandleReadHeaderRequest. *)

HeaderUnwanted(f) ==
  /\ fetch[f].state = "header" /\ ~resource
  /\ Ended(f)
  /\ UNCHANGED <<resource, type, requests, joined, playlist, origin, fault,
                 left, failed>>

(* readed <= 0 *)
HeaderMissing(f) == fetch[f].state = "header" /\ resource /\ Silently(f)

(* A status other than 200. *)
HeaderRefused(f) == fetch[f].state = "header" /\ resource /\ ErrorAll(f)

(* The index creates the playlist, unless there is one. *)
AfterHeader(kind) ==
  IF kind = "index" /\ ~playlist.exists THEN NewPlaylist ELSE playlist

(* ProcessPlaylist on an index that names a list. *)
ProcessPlaylist(f, p) ==
  /\ p.exists
  /\ playlist' = [p EXCEPT !.url = TRUE]
  /\ Follows(f, "content")

(* Mutant: nothing is compared with the last track. *)
Fresh_All(p) == [i \in 1 .. Window |-> origin' + i - 1]

(* The tracks of the origin's list that are appended: all but the last     *)
(* one that was played.                                                    *)
Fresh(p) ==
  IF p.last_track \in origin' .. origin' + Window - 1
    THEN [i \in 1 .. Window - 1 |-> IF origin' + i - 1 < p.last_track
                                      THEN origin' + i - 1 ELSE origin' + i]
    ELSE [i \in 1 .. Window |-> origin' + i - 1]

Listed(p) ==
  [p EXCEPT !.tracks = @ \o Fresh(p),
            !.tracks_duration = @ \o [i \in DOMAIN Fresh(p) |-> 1]]

(* PlayNextTrack on a playlist with tracks: GetTimeout takes a duration.   *)
(* front and erase need one.                                               *)
PlayNextTrack(f, p) ==
  /\ playlist' = [p EXCEPT !.last_track = Head(p.tracks),
                           !.tracks = Tail(@),
                           !.tracks_duration = Tail(@)]
  /\ Follows(f, "ts")

Undefined(p) == p.tracks # <<>> /\ p.tracks_duration = <<>>

(* ProcessReproduction, once the list's tracks are appended. *)
ProcessReproduction(f, p) ==
  IF Undefined(p)
    THEN fault' = "undefined" /\ UNCHANGED <<playlist, fetch>>
    ELSE PlayNextTrack(f, p) /\ UNCHANGED fault

OriginMoves == origin' \in origin .. MaxSequence - Window + 1

(* VerifyContent on a body that leads on: an index, a list with tracks, or *)
(* one without any that finds tracks in the queue.                         *)
VerifyContent(f, p) ==
  \/ /\ fetch[f].kind = "index"
     /\ ProcessPlaylist(f, p)
     /\ UNCHANGED <<origin, fault>>
  \/ /\ fetch[f].kind = "content" /\ p.exists
     /\ OriginMoves
     /\ Listed(p).tracks # <<>>
     /\ ProcessReproduction(f, Listed(p))
  \/ /\ fetch[f].kind = "content" /\ p.tracks # <<>>
     /\ ProcessReproduction(f, p)
     /\ UNCHANGED origin

(* A body may be one that does not lead on, unless tracks are queued. *)
MayFail(f) == fetch[f].kind = "content" => playlist.tracks = <<>>

(* The header, and a body that leads on. *)
HeaderLeadsOn(f) ==
  /\ fetch[f].state = "header" /\ resource
  /\ type' = "STREAMING"
  /\ VerifyContent(f, AfterHeader(fetch[f].kind))
  /\ UNCHANGED <<resource, requests, joined, left, failed>>

(* The header, and no body yet or one that does not lead on. *)
HeaderRead(f) ==
  /\ fetch[f].state = "header" /\ resource
  /\ MayFail(f)
  /\ IF fetch[f].kind # "index" /\ ~playlist.exists THEN Crash
     ELSE /\ type' = "STREAMING"
          /\ playlist' = AfterHeader(fetch[f].kind)
          /\ Reads(f, "content")
          /\ UNCHANGED <<resource, requests, joined, origin, fault, left,
                         failed>>

-----------------------------------------------------------------------------
(* HandleReadData. *)

(* readed < 0 *)
ContentFails(f) == fetch[f].state = "content" /\ ErrorAll(f)

(* Mutant: the list is not asked for again. *)
ContentEnds_NoList(f) ==
  /\ fetch[f].state = "content"
  /\ IF playlist.exists /\ playlist.tracks # <<>>
       THEN PlayNextTrack(f, playlist)
       ELSE Ended(f) /\ UNCHANGED playlist
  /\ UNCHANGED <<resource, type, requests, joined, origin, fault, left,
                 failed>>

(* readed = 0: the next track, or the list again if its url is known.      *)
ContentEnds(f) ==
  /\ fetch[f].state = "content"
  /\ IF playlist.exists /\ playlist.tracks # <<>>
       THEN IF Undefined(playlist)
              THEN fault' = "undefined"
                   /\ UNCHANGED <<playlist, fetch, failed>>
              ELSE PlayNextTrack(f, playlist) /\ UNCHANGED <<fault, failed>>
       ELSE /\ IF playlist.url THEN Follows(f, "content") ELSE Ended(f)
            /\ failed' = (failed \/ (playlist.exists /\ ~playlist.url))
            /\ UNCHANGED <<playlist, fault>>
  /\ UNCHANGED <<resource, type, requests, joined, origin, left>>

(* Data of an index or of a list that leads on. *)
ContentLeadsOn(f) ==
  /\ fetch[f].state = "content"
  /\ VerifyContent(f, playlist)
  /\ UNCHANGED <<resource, type, requests, joined, left, failed>>

ReleasePlaylist == playlist' = NoPlaylist

(* Other data goes to the clients: NotifyStream.  If there are none the    *)
(* playlist goes too, which must be there; ProcessReproduction also looks  *)
(* it up with at().                                                        *)
ContentRead(f) ==
  /\ fetch[f].state = "content"
  /\ MayFail(f)
  /\ IF ~playlist.exists /\ (fetch[f].kind = "content" \/ ~resource)
       THEN Crash
     ELSE IF resource
       THEN UNCHANGED vars
     ELSE /\ ReleasePlaylist
          /\ Ended(f)
          /\ UNCHANGED <<resource, type, requests, joined, origin, fault,
                         left, failed>>

-----------------------------------------------------------------------------
FetchStep(f) ==
  \/ Connected(f) \/ ConnectFails(f) \/ ResolverDrops(f)
  \/ HeaderUnwanted(f) \/ HeaderMissing(f) \/ HeaderRefused(f)
  \/ HeaderLeadsOn(f) \/ HeaderRead(f)
  \/ ContentFails(f) \/ ContentEnds(f) \/ ContentLeadsOn(f) \/ ContentRead(f)

Next ==
  /\ fault = "none"
  /\ \/ \E c \in Clients : Open(c) \/ Join(c) \/ Leave(c)
     \/ \E f \in 1 .. Slots : FetchStep(f)

Spec == Init /\ [][Next]_vars

(* The origin's connections go on: the timer fires and the connection is   *)
(* made or not, a header comes or the connection ends, and a body ends.    *)
(* An origin that is asked over and over answers with tracks in the end.   *)
Fairness ==
  \A f \in 1 .. Slots :
    /\ WF_vars(fault = "none" /\ fetch[f].state # "content" /\ FetchStep(f))
    /\ WF_vars(fault = "none" /\ (ContentEnds(f) \/ ContentFails(f)))
    /\ SF_vars(fault = "none" /\ (HeaderLeadsOn(f) \/ ContentLeadsOn(f)))

FairSpec == Spec /\ Fairness

-----------------------------------------------------------------------------
Running == {f \in 1 .. Slots : fetch[f] # NoFetch}

TypeOK ==
  /\ {resource, left, failed} \subseteq BOOLEAN
  /\ type \in {"UNDEFINED", "STREAMING"}
  /\ requests \subseteq joined /\ joined \subseteq Clients
  /\ {playlist.exists, playlist.url} \subseteq BOOLEAN
  /\ playlist.last_track \in 0 .. MaxSequence
  /\ playlist.tracks \in Seq(1 .. MaxSequence)
  /\ playlist.tracks_duration \in Seq({0, 1})
  /\ fetch \in [1 .. Slots ->
                  [kind : {"none", "index", "content", "ts"},
                   state : {"none", "requested", "header", "content"}]]
  /\ origin \in 1 .. MaxSequence
  /\ fault \in {"none", "terminate", "undefined"}

(* The two vectors of a playlist stay in step, with one duration more, so  *)
(* that GetTimeout never takes the front of an empty vector                *)
(* (AstraHttpClient.cpp:161-162, 200-222, 334).                            *)
DurationsInStep ==
  /\ playlist.exists =>
       Len(playlist.tracks_duration) = Len(playlist.tracks) + 1
  /\ fault # "undefined"

(* The bookkeeping: the types and the queue. *)
QueueIsSound == TypeOK /\ DurationsInStep

(* An at() that throws needs a client that left or a fetch that failed,    *)
(* whose chain or playlist outlived its Mux (AstraHttpClient.cpp:44, 65,   *)
(* 88, 108, 140).                                                          *)
TerminateNeedsCause == fault = "terminate" => left \/ failed

(* A channel is played by one chain of fetches; a second one needs a Mux   *)
(* that was left or failed while its chain went on.                        *)
OneChain == (~left /\ ~failed) => Cardinality(Running) <= 1

(* Clients that listen are played to: a fetch is under way that will lead  *)
(* to the next track, or one was lost (AstraHttpClient.cpp:33, 95, 243).   *)
ListenersAreFed ==
  (fault = "none" /\ resource /\ ~failed) =>
    requests # {} /\ Running # {}

(* As long as nobody leaves and nothing fails one chain of fetches plays   *)
(* to the clients, and nothing throws.                                     *)
PlaysUndisturbed == TerminateNeedsCause /\ OneChain /\ ListenersAreFed

(* The same track is not played twice in a row (AstraHttpClient.cpp:149),  *)
(* by a chain that is alone.                                               *)
NoRepeat ==
  [][(~left /\ ~failed /\ playlist' # playlist
        /\ \E f \in 1 .. Slots : fetch'[f] = Requested("ts")
                                   /\ fetch[f] # Requested("ts"))
       => playlist'.last_track # playlist.last_track]_vars

(* While clients listen and no fetch fails, a queue of tracks is played to *)
(* its end and the list asked for again (AstraHttpClient.cpp:86-96).       *)
PlaysOn ==
  (resource /\ type = "STREAMING") ~>
    (failed \/ left \/ fault # "none" \/ \E f \in Running :
       fetch[f].kind = "ts")
=============================================================================
