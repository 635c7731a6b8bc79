------------------------- MODULE AstraPlayerProofs -------------------------
(* Proofs of the safety properties of AstraPlayer, for any number of       *)
(* clients and of fetches, and any length of the origin's list.            *)
EXTENDS AstraPlayer, FiniteSetTheorems, SequenceTheorems, TLAPS

Tracks == 1 .. MaxSequence

Playlists ==
  [exists : BOOLEAN, url : BOOLEAN, last_track : 0 .. MaxSequence,
   tracks : Seq(Tracks), tracks_duration : Seq({0, 1})]

Kinds == {"none", "index", "content", "ts"}
States == {"none", "requested", "header", "content"}
FetchTypes == [kind : Kinds, state : States]

(* The vectors of a playlist; where there is none the fields are empty. *)
InStep(p) ==
  IF p.exists THEN Len(p.tracks_duration) = Len(p.tracks) + 1
              ELSE p.tracks = <<>> /\ ~p.url

TypeInv ==
  /\ TypeOK
  /\ playlist \in Playlists
  /\ fetch \in [1 .. Slots -> FetchTypes]
  /\ \A f \in 1 .. Slots : fetch[f].kind = "none" <=> fetch[f].state = "none"
  /\ InStep(playlist)
  /\ fault # "undefined"

(* No track stands next to itself, in front of the queue stands the track  *)
(* that was played last.                                                   *)
NoTwice(p) ==
  /\ \A i \in 1 .. Len(p.tracks) - 1 : p.tracks[i] # p.tracks[i + 1]
  /\ p.tracks # <<>> => p.tracks[1] # p.last_track

(* The one chain of fetches, as long as nobody leaves and nothing fails: a *)
(* list of tracks is asked for only when the queue is empty.               *)
Undisturbed ==
  /\ \A f, g \in Running : f = g
  /\ ~resource => Running = {} /\ playlist.tracks = <<>>
  /\ \A f \in Running :
       /\ fetch[f].kind # "index" \/ fetch[f].state = "content" =>
            playlist.exists
       /\ fetch[f].kind # "ts" => playlist.tracks = <<>>
  /\ NoTwice(playlist)

ChainInv == ~left /\ ~failed => Undisturbed /\ fault # "terminate"

(* With a playlist any fetch leads on; without one the fetch of an index   *)
(* that is still to create it does.                                        *)
Feeds(f) ==
  fetch[f] # NoFetch
    /\ (playlist.exists
          \/ (fetch[f].kind = "index" /\ fetch[f].state # "content"))

FedInv ==
  (fault = "none" /\ resource /\ ~failed) =>
    requests # {} /\ \E f \in 1 .. Slots : Feeds(f)

IInv == TypeInv /\ ChainInv /\ FedInv

-----------------------------------------------------------------------------
(* The queue. *)

LEMMA FunctionIsSeq ==
  ASSUME NEW S, NEW n \in Nat, NEW s \in [1 .. n -> S]
  PROVE  s \in Seq(S) /\ Len(s) = n
BY SeqDef

LEMMA FreshList ==
  ASSUME origin \in Tracks, OriginMoves, NEW p \in Playlists
  PROVE  /\ Fresh(p) \in Seq(Tracks)
         /\ \A i \in 1 .. Len(Fresh(p)) : Fresh(p)[i] # p.last_track
         /\ \A i \in 1 .. Len(Fresh(p)) - 1 : Fresh(p)[i] # Fresh(p)[i + 1]
<1> DEFINE last == p.last_track
           o == origin'
<1>4. last \in 0 .. MaxSequence
  BY DEF Playlists
<1>5. origin \in 1 .. MaxSequence /\ o \in origin .. MaxSequence - Window + 1
  BY DEF Tracks, OriginMoves
<1> HIDE DEF last, o
<1>1. /\ Window \in Nat \ {0} /\ MaxSequence \in Nat \ {0}
      /\ last \in Int /\ last <= MaxSequence
      /\ o \in Nat /\ o >= 1 /\ o + Window - 1 <= MaxSequence
  BY <1>4, <1>5, BoundAssumption
<1>2. CASE last \in o .. o + Window - 1
  <2> DEFINE s == [i \in 1 .. Window - 1 |-> IF o + i - 1 < last
                                               THEN o + i - 1 ELSE o + i]
  <2>1. Fresh(p) = s
    BY <1>2 DEF Fresh, last, o
  <2>2. \A i \in 1 .. Window - 1 : s[i] \in Tracks /\ s[i] # last
    BY <1>1, <1>2 DEF Tracks
  <2>3. s \in Seq(Tracks) /\ Len(s) = Window - 1
    <3>1. s \in [1 .. Window - 1 -> Tracks] /\ Window - 1 \in Nat
      BY <1>1, <2>2
    <3> QED
      BY <3>1, FunctionIsSeq
  <2>4. \A i \in 1 .. Window - 2 : s[i] # s[i + 1]
    BY <1>1, <1>2
  <2> HIDE DEF s
  <2> QED
    BY <1>1, <2>1, <2>2, <2>3, <2>4 DEF last
<1>3. CASE last \notin o .. o + Window - 1
  <2> DEFINE s == [i \in 1 .. Window |-> o + i - 1]
  <2>1. Fresh(p) = s
    BY <1>3 DEF Fresh, last, o
  <2>2. \A i \in 1 .. Window : s[i] \in Tracks /\ s[i] # last
    BY <1>1, <1>3 DEF Tracks
  <2>3. s \in Seq(Tracks) /\ Len(s) = Window
    <3>1. s \in [1 .. Window -> Tracks] /\ Window \in Nat
      BY <1>1, <2>2
    <3> QED
      BY <3>1, FunctionIsSeq
  <2>4. \A i \in 1 .. Window - 1 : s[i] # s[i + 1]
    BY <1>1, <1>3
  <2> HIDE DEF s
  <2> QED
    BY <1>1, <2>1, <2>2, <2>3, <2>4 DEF last
<1> QED
  BY <1>2, <1>3

(* A list of tracks is appended with its durations. *)
LEMMA ListedSound ==
  ASSUME origin \in Tracks, OriginMoves, NEW p \in Playlists, p.exists,
         InStep(p)
  PROVE  /\ Listed(p) \in Playlists /\ Listed(p).exists /\ InStep(Listed(p))
         /\ Listed(p).last_track = p.last_track
         /\ p.tracks = <<>> => NoTwice(Listed(p))
<1> DEFINE s == Fresh(p)
           ds == [i \in DOMAIN s |-> 1]
           ts == p.tracks \o s
           dds == p.tracks_duration \o ds
<1>1. /\ s \in Seq(Tracks)
      /\ \A i \in 1 .. Len(s) : s[i] # p.last_track
      /\ \A i \in 1 .. Len(s) - 1 : s[i] # s[i + 1]
  BY FreshList
<1>2. p.tracks \in Seq(Tracks) /\ p.tracks_duration \in Seq({0, 1})
  BY DEF Playlists
<1> HIDE DEF s
<1>3. ds \in Seq({0, 1}) /\ Len(ds) = Len(s)
  <2>1. ds \in [1 .. Len(s) -> {0, 1}] /\ Len(s) \in Nat
    BY <1>1, LenProperties
  <2> QED
    BY <2>1, FunctionIsSeq
<1> HIDE DEF ds
<1>4. /\ ts \in Seq(Tracks) /\ Len(ts) = Len(p.tracks) + Len(s)
      /\ dds \in Seq({0, 1})
      /\ Len(dds) = Len(p.tracks_duration) + Len(ds)
  BY <1>1, <1>2, <1>3, ConcatProperties
<1>5. p.tracks = <<>> => ts = s
  BY <1>1, ConcatEmptySeq
<1> HIDE DEF ts, dds
<1>6. Listed(p) = [p EXCEPT !.tracks = ts, !.tracks_duration = dds]
  BY DEF Listed, ts, dds, s, ds
<1>7. /\ Listed(p) \in Playlists /\ Listed(p).exists
      /\ Listed(p).last_track = p.last_track
      /\ Listed(p).tracks = ts /\ Listed(p).tracks_duration = dds
  BY <1>4, <1>6 DEF Playlists
<1>8. InStep(Listed(p))
  BY <1>1, <1>2, <1>3, <1>4, <1>7, LenProperties DEF InStep
<1>9. p.tracks = <<>> => NoTwice(Listed(p))
  <2> SUFFICES ASSUME p.tracks = <<>> PROVE NoTwice(Listed(p))
    OBVIOUS
  <2>1. Listed(p).tracks = s
    BY <1>5, <1>7
  <2>2. s # <<>> => 1 \in 1 .. Len(s)
    BY <1>1, EmptySeq, LenProperties
  <2> QED
    BY <1>1, <1>7, <2>1, <2>2 DEF NoTwice
<1> QED
  BY <1>7, <1>8, <1>9

(* The track in front of the queue is played. *)
Played(p) ==
  [p EXCEPT !.last_track = Head(p.tracks), !.tracks = Tail(@),
            !.tracks_duration = Tail(@)]

LEMMA PlayedSound ==
  ASSUME NEW p \in Playlists, InStep(p), p.tracks # <<>>
  PROVE  /\ p.exists /\ ~Undefined(p)
         /\ Played(p) \in Playlists /\ Played(p).exists
         /\ InStep(Played(p))
         /\ NoTwice(p) => /\ NoTwice(Played(p))
                          /\ Played(p).last_track # p.last_track
<1> DEFINE h == Head(p.tracks)
           ts == Tail(p.tracks)
           ds == Tail(p.tracks_duration)
<1>1. /\ p.tracks \in Seq(Tracks) /\ p.tracks_duration \in Seq({0, 1})
      /\ p.exists /\ Len(p.tracks_duration) = Len(p.tracks) + 1
  BY DEF Playlists, InStep
<1>2. /\ Len(p.tracks) \in Nat \ {0}
      /\ p.tracks_duration # <<>>
  BY <1>1, EmptySeq, LenProperties
<1>3. /\ h \in Tracks /\ ts \in Seq(Tracks) /\ Len(ts) = Len(p.tracks) - 1
      /\ h = p.tracks[1]
      /\ \A i \in 1 .. Len(ts) : ts[i] = p.tracks[i + 1]
      /\ ds \in Seq({0, 1}) /\ Len(ds) = Len(p.tracks_duration) - 1
  BY <1>1, <1>2, HeadTailProperties
<1> HIDE DEF h, ts, ds
<1>4. Played(p) = [p EXCEPT !.last_track = h, !.tracks = ts,
                            !.tracks_duration = ds]
  BY DEF Played, h, ts, ds
<1>5. h \in 0 .. MaxSequence
  BY <1>3, BoundAssumption DEF Tracks
<1>6. /\ Played(p) \in Playlists /\ Played(p).exists
      /\ Played(p).last_track = h /\ Played(p).tracks = ts
      /\ Played(p).tracks_duration = ds
  BY <1>1, <1>3, <1>4, <1>5 DEF Playlists
<1>7. InStep(Played(p))
  BY <1>1, <1>2, <1>3, <1>6 DEF InStep
<1>8. NoTwice(p) => NoTwice(Played(p)) /\ Played(p).last_track # p.last_track
  <2> SUFFICES ASSUME NoTwice(p)
               PROVE  NoTwice(Played(p)) /\ Played(p).last_track # p.last_track
    OBVIOUS
  <2>1. \A i \in 1 .. Len(ts) - 1 : ts[i] # ts[i + 1]
    BY <1>2, <1>3 DEF NoTwice
  <2>2. ASSUME ts # <<>> PROVE ts[1] # h
    <3>1. Len(ts) \in Nat \ {0}
      BY <1>3, <2>2, EmptySeq
    <3>4. Len(ts) = Len(p.tracks) - 1
      BY <1>3
    <3>6. \A n \in Nat \ {0} : 1 \in 1 .. n
      OBVIOUS
    <3>5. 1 \in 1 .. Len(ts) /\ 1 \in 1 .. Len(p.tracks) - 1
      BY <3>1, <3>4, <3>6
    <3>2. ts[1] = p.tracks[1 + 1] /\ 1 \in 1 .. Len(p.tracks) - 1
      BY <1>3, <3>5
    <3>3. p.tracks[1] # p.tracks[1 + 1]
      BY <3>2 DEF NoTwice
    <3> QED
      BY <1>3, <3>2, <3>3
  <2> QED
    BY <1>3, <1>6, <2>1, <2>2 DEF NoTwice
<1> QED
  BY <1>1, <1>2, <1>6, <1>7, <1>8 DEF Undefined

LEMMA NewSound ==
  /\ NoPlaylist \in Playlists /\ InStep(NoPlaylist) /\ NoTwice(NoPlaylist)
  /\ ~NoPlaylist.exists /\ NoPlaylist.tracks = <<>>
  /\ NewPlaylist \in Playlists /\ InStep(NewPlaylist)
  /\ NewPlaylist.exists /\ NewPlaylist.tracks = <<>>
<1>1. <<>> \in Seq(Tracks) /\ <<>> \in Seq({0, 1}) /\ <<0>> \in Seq({0, 1})
      /\ Len(<<>>) = 0 /\ Len(<<0>>) = 1 /\ 0 \in 0 .. MaxSequence
  BY EmptySeq, BoundAssumption
<1>2. /\ NoPlaylist \in Playlists /\ ~NoPlaylist.exists /\ ~NoPlaylist.url
      /\ NoPlaylist.tracks = <<>>
  BY <1>1 DEF NoPlaylist, Playlists
<1>3. /\ NewPlaylist \in Playlists /\ NewPlaylist.exists
      /\ NewPlaylist.tracks = <<>> /\ NewPlaylist.tracks_duration = <<0>>
  BY <1>1, <1>2 DEF NewPlaylist, Playlists
<1> QED
  BY <1>1, <1>2, <1>3 DEF InStep, NoTwice

LEMMA AfterHeaderSound ==
  ASSUME TypeInv, NEW kind \in Kinds
  PROVE  /\ AfterHeader(kind) \in Playlists /\ InStep(AfterHeader(kind))
         /\ playlist.exists => AfterHeader(kind) = playlist
         /\ kind = "index" => AfterHeader(kind).exists
         /\ ~playlist.exists => playlist.tracks = <<>>
         /\ AfterHeader(kind).tracks = playlist.tracks
BY NewSound DEF AfterHeader, TypeInv, InStep

-----------------------------------------------------------------------------
(* What a body that leads on does. *)
LEMMA VerifySound ==
  ASSUME TypeInv, NEW f \in 1 .. Slots, NEW p \in Playlists, InStep(p),
         VerifyContent(f, p)
  PROVE  /\ p.exists
         /\ UNCHANGED fault /\ origin' \in Tracks
         /\ playlist' \in Playlists /\ playlist'.exists /\ InStep(playlist')
         /\ \/ /\ fetch[f].kind = "index"
               /\ Follows(f, "content")
               /\ playlist'.tracks = p.tracks
               /\ playlist'.last_track = p.last_track
            \/ /\ fetch[f].kind = "content"
               /\ Follows(f, "ts")
               /\ p.tracks = <<>> =>
                    /\ NoTwice(playlist')
                    /\ playlist'.last_track # p.last_track
<1>1. origin \in Tracks
  BY DEF TypeInv, TypeOK, Tracks
<1>2. CASE /\ fetch[f].kind = "index" /\ ProcessPlaylist(f, p)
           /\ UNCHANGED <<origin, fault>>
  <2>1. /\ playlist' \in Playlists /\ playlist'.exists
        /\ playlist'.tracks = p.tracks
        /\ playlist'.tracks_duration = p.tracks_duration
        /\ playlist'.last_track = p.last_track
    BY <1>2 DEF ProcessPlaylist, Playlists
  <2> QED
    BY <1>1, <1>2, <2>1 DEF ProcessPlaylist, InStep
<1>3. CASE /\ fetch[f].kind = "content" /\ p.exists
           /\ OriginMoves
           /\ Listed(p).tracks # <<>>
           /\ ProcessReproduction(f, Listed(p))
  <2> DEFINE q == Listed(p)
  <2>1. /\ q \in Playlists /\ InStep(q) /\ q.tracks # <<>>
        /\ q.last_track = p.last_track
        /\ p.tracks = <<>> => NoTwice(q)
    BY <1>1, <1>3, ListedSound
  <2>2. /\ p.exists /\ fetch[f].kind = "content"
        /\ ProcessReproduction(f, q)
    BY <1>3
  <2>3. origin' \in Tracks
    BY <1>1, <1>3, BoundAssumption DEF OriginMoves, Tracks
  <2> HIDE DEF q
  <2>4. /\ ~Undefined(q) /\ Played(q) \in Playlists /\ Played(q).exists
        /\ InStep(Played(q))
        /\ NoTwice(q) => /\ NoTwice(Played(q))
                         /\ Played(q).last_track # q.last_track
    BY <2>1, PlayedSound
  <2>5. /\ playlist' = Played(q) /\ Follows(f, "ts") /\ UNCHANGED fault
    BY <2>2, <2>4 DEF ProcessReproduction, PlayNextTrack, Played
  <2> QED
    BY <2>1, <2>2, <2>3, <2>4, <2>5
<1>4. CASE /\ fetch[f].kind = "content" /\ p.tracks # <<>>
           /\ ProcessReproduction(f, p)
           /\ UNCHANGED origin
  <2>1. /\ p.exists /\ ~Undefined(p) /\ Played(p) \in Playlists
        /\ Played(p).exists /\ InStep(Played(p))
    BY <1>4, PlayedSound
  <2>2. playlist' = Played(p) /\ Follows(f, "ts") /\ UNCHANGED fault
    BY <1>4, <2>1 DEF ProcessReproduction, PlayNextTrack, Played
  <2> QED
    BY <1>1, <1>4, <2>1, <2>2
<1> QED
  BY <1>2, <1>3, <1>4 DEF VerifyContent

(* What the end of a body does, if there are tracks. *)
LEMMA NextSound ==
  ASSUME TypeInv, NEW f \in 1 .. Slots, playlist.tracks # <<>>
  PROVE  /\ playlist.exists /\ ~Undefined(playlist)
         /\ PlayNextTrack(f, playlist) =>
              /\ playlist' \in Playlists /\ playlist'.exists
              /\ InStep(playlist') /\ Follows(f, "ts")
              /\ NoTwice(playlist) =>
                   /\ NoTwice(playlist')
                   /\ playlist'.last_track # playlist.last_track
<1>1. playlist \in Playlists /\ InStep(playlist)
  BY DEF TypeInv
<1>2. PlayNextTrack(f, playlist) =>
        playlist' = Played(playlist) /\ Follows(f, "ts")
  BY DEF PlayNextTrack, Played
<1> QED
  BY <1>1, <1>2, PlayedSound

-----------------------------------------------------------------------------
(* The fetch f becomes x. *)
LEMMA FetchTyped ==
  ASSUME TypeInv, NEW f \in 1 .. Slots, NEW x \in FetchTypes,
         x.kind = "none" <=> x.state = "none",
         fetch' = [fetch EXCEPT ![f] = x]
  PROVE  /\ fetch' \in [1 .. Slots -> FetchTypes]
         /\ \A g \in 1 .. Slots :
              fetch'[g].kind = "none" <=> fetch'[g].state = "none"
BY DEF TypeInv

LEMMA FetchSteps ==
  ASSUME TypeInv, NEW f \in 1 .. Slots
  PROVE  /\ Ended(f) => fetch' = [fetch EXCEPT ![f] = NoFetch]
         /\ NoFetch \in FetchTypes
         /\ NoFetch.kind = "none" /\ NoFetch.state = "none"
         /\ \A kind \in Kinds \ {"none"} :
              /\ Follows(f, kind) => fetch' = [fetch EXCEPT ![f] = Requested(kind)]
              /\ Requested(kind) \in FetchTypes
              /\ Requested(kind).kind = kind
              /\ Requested(kind).state = "requested"
         /\ \A state \in States \ {"none"} : fetch[f].state # "none" =>
              /\ Reads(f, state) =>
                   fetch' = [fetch EXCEPT ![f] = [fetch[f] EXCEPT !.state = state]]
              /\ [fetch[f] EXCEPT !.state = state] \in FetchTypes
              /\ [fetch[f] EXCEPT !.state = state].kind = fetch[f].kind
              /\ [fetch[f] EXCEPT !.state = state].state = state
              /\ fetch[f].kind # "none"
BY DEF TypeInv, Ended, Follows, Reads, NoFetch, Requested, FetchTypes, Kinds,
       States

(* The types after a step, variable by variable. *)
LEMMA TypeFrom ==
  ASSUME playlist' \in Playlists, InStep(playlist'),
         fetch' \in [1 .. Slots -> FetchTypes],
         \A g \in 1 .. Slots :
           fetch'[g].kind = "none" <=> fetch'[g].state = "none",
         resource' \in BOOLEAN, left' \in BOOLEAN, failed' \in BOOLEAN,
         type' \in {"UNDEFINED", "STREAMING"},
         requests' \subseteq joined', joined' \subseteq Clients,
         origin' \in Tracks, fault' \in {"none", "terminate"}
  PROVE  TypeInv'
<1>1. TypeOK'
  BY DEF TypeOK, Playlists, FetchTypes, Kinds, States, Tracks
<1> QED
  BY <1>1 DEF TypeInv

LEMMA TypeHolds ==
  ASSUME TypeInv
  PROVE  /\ playlist \in Playlists /\ InStep(playlist)
         /\ fetch \in [1 .. Slots -> FetchTypes]
         /\ \A g \in 1 .. Slots :
              fetch[g].kind = "none" <=> fetch[g].state = "none"
         /\ resource \in BOOLEAN /\ left \in BOOLEAN /\ failed \in BOOLEAN
         /\ type \in {"UNDEFINED", "STREAMING"}
         /\ requests \subseteq joined /\ joined \subseteq Clients
         /\ origin \in Tracks /\ fault \in {"none", "terminate"}
BY DEF TypeInv, TypeOK, Tracks

(* The fetches after a step of f. *)
LEMMA FetchMoves ==
  ASSUME TypeInv, NEW f \in 1 .. Slots,
         \/ fetch' = fetch \/ Ended(f)
         \/ Follows(f, "content") \/ Follows(f, "ts")
         \/ /\ fetch[f].state # "none"
            /\ Reads(f, "header") \/ Reads(f, "content")
  PROVE  /\ fetch' \in [1 .. Slots -> FetchTypes]
         /\ \A g \in 1 .. Slots :
              fetch'[g].kind = "none" <=> fetch'[g].state = "none"
<1>1. CASE fetch' = fetch
  BY <1>1, TypeHolds
<1>2. CASE Ended(f)
  BY <1>2, FetchSteps, FetchTyped
<1>3. ASSUME NEW kind \in {"content", "ts"}, Follows(f, kind)
      PROVE  /\ fetch' \in [1 .. Slots -> FetchTypes]
             /\ \A g \in 1 .. Slots :
                  fetch'[g].kind = "none" <=> fetch'[g].state = "none"
  <2>1. /\ fetch' = [fetch EXCEPT ![f] = Requested(kind)]
        /\ Requested(kind) \in FetchTypes
        /\ Requested(kind).kind # "none" /\ Requested(kind).state # "none"
    BY <1>3, FetchSteps DEF Kinds
  <2> QED
    BY <2>1, FetchTyped
<1>4. ASSUME NEW state \in {"header", "content"},
             fetch[f].state # "none", Reads(f, state)
      PROVE  /\ fetch' \in [1 .. Slots -> FetchTypes]
             /\ \A g \in 1 .. Slots :
                  fetch'[g].kind = "none" <=> fetch'[g].state = "none"
  <2> DEFINE x == [fetch[f] EXCEPT !.state = state]
  <2>1. /\ fetch' = [fetch EXCEPT ![f] = x] /\ x \in FetchTypes
        /\ x.kind # "none" /\ x.state # "none"
    BY <1>4, FetchSteps DEF States
  <2> HIDE DEF x
  <2> QED
    BY <2>1, FetchTyped
<1> QED
  BY <1>1, <1>2, <1>3, <1>4

LEMMA TypeOfClient ==
  ASSUME TypeInv, NEW c \in Clients, Open(c) \/ Join(c) \/ Leave(c)
  PROVE  TypeInv'
<1>1. CASE Open(c)
  <2>1. PICK f \in 1 .. Slots : fetch' = [fetch EXCEPT ![f] = Requested("index")]
    BY <1>1 DEF Open
  <2>2. /\ fetch' \in [1 .. Slots -> FetchTypes]
        /\ \A g \in 1 .. Slots :
             fetch'[g].kind = "none" <=> fetch'[g].state = "none"
    <3>1. /\ Requested("index") \in FetchTypes
          /\ Requested("index").kind = "index"
          /\ Requested("index").state = "requested"
      BY DEF Requested, FetchTypes, Kinds, States
    <3> QED
      BY <2>1, <3>1, FetchTyped
  <2> QED
    BY <1>1, <2>2, TypeHolds, TypeFrom DEF Open
<1>2. CASE Join(c)
  BY <1>2, TypeHolds, TypeFrom DEF Join
<1>3. CASE Leave(c)
  BY <1>3, TypeHolds, TypeFrom DEF Leave, RemoveRequest, Released
<1> QED
  BY <1>1, <1>2, <1>3

(* The steps that end f, crash or leave everything but f alone. *)
LEMMA TypeOfEnd ==
  ASSUME TypeInv, NEW f \in 1 .. Slots,
         ConnectFails(f) \/ ResolverDrops(f) \/ HeaderUnwanted(f)
           \/ HeaderMissing(f) \/ HeaderRefused(f) \/ ContentFails(f)
           \/ Connected(f)
  PROVE  TypeInv'
<1>1. ASSUME fetch' = fetch \/ Ended(f)
             \/ (fetch[f].state # "none" /\ Reads(f, "header"))
      PROVE  /\ fetch' \in [1 .. Slots -> FetchTypes]
             /\ \A g \in 1 .. Slots :
                  fetch'[g].kind = "none" <=> fetch'[g].state = "none"
  BY <1>1, FetchMoves
<1>2. CASE ErrorAll(f)
  BY <1>1, <1>2, TypeHolds, TypeFrom DEF ErrorAll, Crash, Released
<1>3. CASE Silently(f)
  BY <1>1, <1>3, TypeHolds, TypeFrom DEF Silently
<1>4. CASE HeaderUnwanted(f)
  BY <1>1, <1>4, TypeHolds, TypeFrom DEF HeaderUnwanted
<1>5. CASE Connected(f)
  BY <1>1, <1>5, TypeHolds, TypeFrom DEF Connected
<1> QED
  BY <1>2, <1>3, <1>4, <1>5
     DEF ConnectFails, ResolverDrops, HeaderMissing, HeaderRefused,
         ContentFails

(* The steps that read a body. *)
LEMMA TypeOfBody ==
  ASSUME TypeInv, NEW f \in 1 .. Slots,
         HeaderLeadsOn(f) \/ HeaderRead(f) \/ ContentEnds(f)
           \/ ContentLeadsOn(f) \/ ContentRead(f)
  PROVE  TypeInv'
<1>1. ASSUME \/ fetch' = fetch \/ Ended(f)
             \/ Follows(f, "content") \/ Follows(f, "ts")
             \/ (fetch[f].state # "none" /\ Reads(f, "content"))
      PROVE  /\ fetch' \in [1 .. Slots -> FetchTypes]
             /\ \A g \in 1 .. Slots :
                  fetch'[g].kind = "none" <=> fetch'[g].state = "none"
  BY <1>1, FetchMoves
<1>2. fetch[f].kind \in Kinds
  BY TypeHolds DEF FetchTypes
<1>3. CASE HeaderLeadsOn(f)
  <2>1. /\ VerifyContent(f, AfterHeader(fetch[f].kind))
        /\ type' = "STREAMING"
        /\ UNCHANGED <<resource, requests, joined, left, failed>>
    BY <1>3 DEF HeaderLeadsOn
  <2>2. AfterHeader(fetch[f].kind) \in Playlists
        /\ InStep(AfterHeader(fetch[f].kind))
    BY <1>2, AfterHeaderSound
  <2> QED
    BY <1>1, <2>1, <2>2, VerifySound, TypeHolds, TypeFrom
<1>4. CASE HeaderRead(f)
  <2>1. AfterHeader(fetch[f].kind) \in Playlists
        /\ InStep(AfterHeader(fetch[f].kind))
    BY <1>2, AfterHeaderSound
  <2> QED
    BY <1>1, <1>4, <2>1, TypeHolds, TypeFrom DEF HeaderRead, Crash
<1>5. CASE ContentEnds(f)
  <2>1. CASE playlist.exists /\ playlist.tracks # <<>>
    <3>1. PlayNextTrack(f, playlist) /\ UNCHANGED <<fault, failed>>
      BY <1>5, <2>1, NextSound DEF ContentEnds
    <3>2. playlist' \in Playlists /\ InStep(playlist') /\ Follows(f, "ts")
      BY <2>1, <3>1, NextSound
    <3> QED
      BY <1>1, <1>5, <3>1, <3>2, TypeHolds, TypeFrom DEF ContentEnds
  <2>2. CASE ~(playlist.exists /\ playlist.tracks # <<>>)
    <3>1. playlist.exists \in BOOLEAN /\ playlist.url \in BOOLEAN
      BY TypeHolds DEF Playlists
    <3>2. /\ Follows(f, "content") \/ Ended(f)
          /\ failed' \in BOOLEAN
          /\ UNCHANGED <<playlist, fault>>
          /\ UNCHANGED <<resource, type, requests, joined, origin, left>>
      BY <1>5, <2>2, <3>1, TypeHolds DEF ContentEnds
    <3> QED
      BY <1>1, <3>2, TypeHolds, TypeFrom
  <2> QED
    BY <2>1, <2>2
<1>6. CASE ContentLeadsOn(f)
  <2>1. /\ VerifyContent(f, playlist)
        /\ UNCHANGED <<resource, type, requests, joined, left, failed>>
    BY <1>6 DEF ContentLeadsOn
  <2> QED
    BY <1>1, <2>1, VerifySound, TypeHolds, TypeFrom
<1>7. CASE ContentRead(f)
  <2>1. CASE UNCHANGED vars
    BY <2>1, TypeHolds, TypeFrom DEF vars
  <2> QED
    BY <1>1, <1>7, <2>1, NewSound, TypeHolds, TypeFrom
       DEF ContentRead, ReleasePlaylist, Crash
<1> QED
  BY <1>3, <1>4, <1>5, <1>6, <1>7

LEMMA TypeInit == Init => TypeInv
<1> SUFFICES ASSUME Init PROVE TypeInv
  OBVIOUS
<1>1. /\ fetch \in [1 .. Slots -> FetchTypes]
      /\ \A f \in 1 .. Slots :
           fetch[f].kind = "none" /\ fetch[f].state = "none"
  BY DEF Init, NoFetch, FetchTypes, Kinds, States
<1>2. origin \in 1 .. MaxSequence
  BY BoundAssumption DEF Init
<1>3. TypeOK
  BY <1>1, <1>2, NewSound
     DEF Init, TypeOK, Playlists, FetchTypes, Kinds, States, Tracks
<1> QED
  BY <1>1, <1>3, NewSound DEF Init, TypeInv

LEMMA TypeNext == TypeInv /\ [Next]_vars => TypeInv'
<1>1. TypeInv /\ Next => TypeInv'
  BY TypeOfClient, TypeOfEnd, TypeOfBody DEF Next, FetchStep
<1>2. TypeInv /\ UNCHANGED vars => TypeInv'
  BY TypeHolds, TypeFrom DEF vars
<1> QED
  BY <1>1, <1>2

-----------------------------------------------------------------------------
(* Nobody left and nothing failed: one chain. *)
LEMMA RunningMember ==
  \A f : f \in Running <=> f \in 1 .. Slots /\ fetch[f] # NoFetch
BY DEF Running

(* The chain goes on in f, as x. *)
LEMMA ChainGoesOn ==
  ASSUME TypeInv, NEW f \in 1 .. Slots, \A g \in Running : g = f,
         NEW x \in FetchTypes, x.kind # "none",
         fetch' = [fetch EXCEPT ![f] = x], resource',
         x.kind # "index" \/ x.state = "content" => playlist'.exists,
         x.kind # "ts" => playlist'.tracks = <<>>,
         NoTwice(playlist')
  PROVE  Undisturbed'
<1>1. \A g \in Running' : g = f /\ fetch'[g] = x
  <2> SUFFICES ASSUME NEW g \in Running' PROVE g = f /\ fetch'[g] = x
    OBVIOUS
  <2>1. g \in 1 .. Slots /\ fetch'[g] # NoFetch
    BY DEF Running
  <2>2. g # f => fetch[g] # NoFetch
    BY <2>1, TypeHolds
  <2>3. g = f
    BY <2>1, <2>2, RunningMember
  <2> QED
    BY <2>3, TypeHolds
<1> QED
  BY <1>1 DEF Undisturbed, NoTwice

(* What the chain's fetch may rely on. *)
LEMMA ChainHolds ==
  ASSUME TypeInv, Undisturbed, NEW f \in 1 .. Slots, fetch[f].state # "none"
  PROVE  /\ f \in Running /\ resource /\ \A g \in Running : g = f
         /\ fetch[f].kind # "index" \/ fetch[f].state = "content" =>
              playlist.exists
         /\ fetch[f].kind # "ts" => playlist.tracks = <<>>
         /\ NoTwice(playlist)
         /\ fetch[f] \in FetchTypes /\ fetch[f].kind # "none"
<1>1. f \in Running
  BY RunningMember DEF NoFetch
<1> QED
  BY <1>1, TypeHolds DEF Undisturbed

LEMMA ChainOfClient ==
  ASSUME TypeInv, ChainInv, fault = "none", NEW c \in Clients,
         Open(c) \/ Join(c) \/ Leave(c)
  PROVE  ChainInv'
<1> SUFFICES ASSUME ~left', ~failed'
             PROVE  Undisturbed' /\ fault' # "terminate"
  BY DEF ChainInv
<1>1. CASE Open(c)
  <2>1. PICK f \in 1 .. Slots : fetch' = [fetch EXCEPT ![f] = Requested("index")]
    BY <1>1 DEF Open
  <2>2. /\ resource' /\ UNCHANGED <<playlist, fault>>
        /\ Undisturbed /\ Running = {} /\ playlist.tracks = <<>>
    BY <1>1 DEF Open, ChainInv, Undisturbed
  <2>3. /\ Requested("index") \in FetchTypes
        /\ Requested("index").kind = "index"
        /\ Requested("index").state = "requested"
    BY DEF Requested, FetchTypes, Kinds, States
  <2>4. NoTwice(playlist')
    BY <2>2 DEF Undisturbed
  <2> QED
    BY <2>1, <2>2, <2>3, <2>4, ChainGoesOn
<1>2. CASE Join(c)
  BY <1>2 DEF Join, ChainInv, Undisturbed, Running
<1>3. CASE Leave(c)
  BY <1>3 DEF Leave
<1> QED
  BY <1>1, <1>2, <1>3

LEMMA ChainOfFetch ==
  ASSUME TypeInv, ChainInv, fault = "none", NEW f \in 1 .. Slots, FetchStep(f)
  PROVE  ChainInv'
<1> SUFFICES ASSUME ~left', ~failed'
             PROVE  Undisturbed' /\ fault' # "terminate"
  BY DEF ChainInv
<1>1. UNCHANGED left /\ (failed => failed')
  BY DEF FetchStep, Connected, ConnectFails, ResolverDrops, HeaderUnwanted,
         HeaderMissing, HeaderRefused, HeaderLeadsOn, HeaderRead,
         ContentFails, ContentEnds, ContentLeadsOn, ContentRead, ErrorAll,
         Crash, Silently, vars
<1>2. Undisturbed
  BY <1>1 DEF ChainInv
<1>3. fetch[f].state \in {"requested", "header", "content"}
  BY DEF FetchStep, Connected, ConnectFails, ResolverDrops, HeaderUnwanted,
         HeaderMissing, HeaderRefused, HeaderLeadsOn, HeaderRead,
         ContentFails, ContentEnds, ContentLeadsOn, ContentRead
<1>4. /\ resource /\ \A g \in Running : g = f
      /\ fetch[f].kind # "index" \/ fetch[f].state = "content" =>
           playlist.exists
      /\ fetch[f].kind # "ts" => playlist.tracks = <<>>
      /\ NoTwice(playlist)
      /\ fetch[f].kind \in Kinds \ {"none"}
  BY <1>2, <1>3, ChainHolds DEF FetchTypes
<1>5. ASSUME NEW state \in States \ {"none"}, Reads(f, state), resource',
             fetch[f].kind # "index" \/ state = "content" => playlist'.exists,
             playlist'.tracks = playlist.tracks, NoTwice(playlist')
      PROVE  Undisturbed'
  <2> DEFINE x == [fetch[f] EXCEPT !.state = state]
  <2>1. /\ fetch' = [fetch EXCEPT ![f] = x] /\ x \in FetchTypes
        /\ x.kind = fetch[f].kind /\ x.state = state
    BY <1>3, <1>5, FetchSteps
  <2> HIDE DEF x
  <2> QED
    BY <1>4, <1>5, <2>1, ChainGoesOn
<1>6. ASSUME NEW kind \in {"content", "ts"}, Follows(f, kind), resource',
             playlist'.exists, NoTwice(playlist'),
             kind = "content" => playlist'.tracks = <<>>
      PROVE  Undisturbed'
  <2>1. /\ fetch' = [fetch EXCEPT ![f] = Requested(kind)]
        /\ Requested(kind) \in FetchTypes /\ Requested(kind).kind = kind
    BY <1>6, FetchSteps DEF Kinds
  <2> QED
    BY <1>4, <1>6, <2>1, ChainGoesOn
<1>7. ASSUME NEW p \in Playlists, InStep(p), NoTwice(p),
             fetch[f].kind # "ts" => p.tracks = <<>>,
             VerifyContent(f, p), resource'
      PROVE  Undisturbed' /\ UNCHANGED fault
  <2>1. /\ UNCHANGED fault /\ playlist' \in Playlists /\ playlist'.exists
        /\ p.tracks = <<>>
        /\ \/ /\ Follows(f, "content") /\ playlist'.tracks = p.tracks
           \/ /\ Follows(f, "ts") /\ NoTwice(playlist')
    BY <1>7, VerifySound
  <2>2. playlist'.tracks = <<>> => NoTwice(playlist')
    BY EmptySeq DEF NoTwice
  <2> QED
    BY <1>6, <1>7, <2>1, <2>2
<1>8. CASE ErrorAll(f) \/ Silently(f)
  BY <1>4, <1>8 DEF ErrorAll, Silently
<1>9. CASE Connected(f)
  <2>1. /\ Reads(f, "header") /\ UNCHANGED <<resource, playlist, fault>>
        /\ fetch[f].state = "requested"
    BY <1>9 DEF Connected
  <2> QED
    BY <1>4, <1>5, <2>1 DEF States
<1>10. CASE HeaderUnwanted(f)
  BY <1>4, <1>10 DEF HeaderUnwanted
<1>11. /\ AfterHeader(fetch[f].kind) \in Playlists
       /\ InStep(AfterHeader(fetch[f].kind))
       /\ AfterHeader(fetch[f].kind).exists
       /\ AfterHeader(fetch[f].kind).tracks = playlist.tracks
       /\ NoTwice(AfterHeader(fetch[f].kind))
  <2>1. /\ AfterHeader(fetch[f].kind) \in Playlists
        /\ InStep(AfterHeader(fetch[f].kind))
        /\ AfterHeader(fetch[f].kind).exists
        /\ AfterHeader(fetch[f].kind).tracks = playlist.tracks
        /\ playlist.exists => AfterHeader(fetch[f].kind) = playlist
        /\ ~playlist.exists => playlist.tracks = <<>>
    BY <1>4, AfterHeaderSound
  <2>2. AfterHeader(fetch[f].kind).tracks = <<>> =>
          NoTwice(AfterHeader(fetch[f].kind))
    BY EmptySeq DEF NoTwice
  <2> QED
    BY <1>4, <2>1, <2>2
<1>12. CASE HeaderLeadsOn(f)
  <2>1. VerifyContent(f, AfterHeader(fetch[f].kind)) /\ resource'
    BY <1>12 DEF HeaderLeadsOn
  <2> QED
    BY <1>4, <1>7, <1>11, <2>1
<1>13. CASE HeaderRead(f)
  <2>1. /\ playlist' = AfterHeader(fetch[f].kind) /\ Reads(f, "content")
        /\ UNCHANGED <<resource, fault>>
    BY <1>4, <1>13 DEF HeaderRead
  <2> QED
    BY <1>4, <1>5, <1>11, <2>1 DEF States
<1>14. CASE ContentEnds(f)
  <2>1. resource' /\ playlist.exists
    BY <1>4, <1>14 DEF ContentEnds
  <2>2. CASE playlist.tracks # <<>>
    <3>1. PlayNextTrack(f, playlist) /\ UNCHANGED fault
      BY <1>14, <2>1, <2>2, NextSound DEF ContentEnds
    <3>2. playlist'.exists /\ Follows(f, "ts") /\ NoTwice(playlist')
      BY <1>4, <2>2, <3>1, NextSound
    <3> QED
      BY <1>6, <2>1, <3>1, <3>2
  <2>3. CASE playlist.tracks = <<>>
    <3>1. playlist.url /\ Follows(f, "content") /\ UNCHANGED <<playlist, fault>>
      BY <1>14, <2>1, <2>3 DEF ContentEnds
    <3> QED
      BY <1>4, <1>6, <2>1, <2>3, <3>1
  <2> QED
    BY <2>2, <2>3
<1>15. CASE ContentLeadsOn(f)
  <2>1. VerifyContent(f, playlist) /\ resource'
    BY <1>4, <1>15 DEF ContentLeadsOn
  <2> QED
    BY <1>4, <1>7, <2>1, TypeHolds
<1>16. CASE ContentRead(f)
  <2>1. UNCHANGED vars
    BY <1>4, <1>16 DEF ContentRead
  <2> QED
    BY <1>2, <2>1 DEF vars, Undisturbed, Running
<1> QED
  BY <1>8, <1>9, <1>10, <1>12, <1>13, <1>14, <1>15, <1>16
     DEF FetchStep, ConnectFails, ResolverDrops, HeaderMissing,
         HeaderRefused, ContentFails

LEMMA ChainNext == TypeInv /\ ChainInv /\ [Next]_vars => ChainInv'
<1>1. TypeInv /\ ChainInv /\ Next => ChainInv'
  BY ChainOfClient, ChainOfFetch DEF Next
<1>2. ChainInv /\ UNCHANGED vars => ChainInv'
  BY DEF vars, ChainInv, Undisturbed, Running
<1> QED
  BY <1>1, <1>2

-----------------------------------------------------------------------------
(* Somebody listens and something plays on. *)

(* A fetch that is not f, or goes on as what it was, still leads on. *)
LEMMA FeedsStill ==
  ASSUME TypeInv, FedInv, NEW f \in 1 .. Slots,
         fault = "none", resource, ~failed,
         UNCHANGED <<playlist, requests>>,
         \A g \in 1 .. Slots : Feeds(g) =>
           \/ fetch'[g] = fetch[g]
           \/ /\ fetch'[g].kind = fetch[g].kind
              /\ fetch'[g].state \in {"requested", "header"}
  PROVE  FedInv'
<1>1. PICK g \in 1 .. Slots : Feeds(g)
  BY DEF FedInv
<1>2. fetch[g].kind # "none"
  BY <1>1, TypeHolds DEF Feeds, NoFetch, FetchTypes
<1>3. Feeds(g)'
  BY <1>1, <1>2 DEF Feeds, NoFetch
<1> QED
  BY <1>3 DEF FedInv

(* With a playlist the fetch f, which goes on, leads on. *)
LEMMA FeedsNow ==
  ASSUME TypeInv, FedInv, NEW f \in 1 .. Slots, fault = "none",
         UNCHANGED <<resource, requests>>, failed => failed',
         playlist'.exists, fetch'[f] # NoFetch
  PROVE  FedInv'
BY DEF FedInv, Feeds

LEMMA FollowsRuns ==
  ASSUME TypeInv, NEW f \in 1 .. Slots,
         \/ Follows(f, "content") \/ Follows(f, "ts")
         \/ fetch[f].state # "none" /\ Reads(f, "content")
  PROVE  fetch'[f] # NoFetch
<1>1. fetch \in [1 .. Slots -> FetchTypes]
  BY TypeHolds
<1>2. ASSUME NEW kind \in {"content", "ts"}, Follows(f, kind)
      PROVE  fetch'[f] # NoFetch
  <2>1. /\ fetch' = [fetch EXCEPT ![f] = Requested(kind)]
        /\ Requested(kind).kind # NoFetch.kind
    BY <1>2, FetchSteps DEF Kinds
  <2> QED
    BY <1>1, <2>1
<1>3. CASE fetch[f].state # "none" /\ Reads(f, "content")
  <2> DEFINE x == [fetch[f] EXCEPT !.state = "content"]
  <2>0. fetch[f].state # "none" /\ Reads(f, "content")
        /\ "content" \in States \ {"none"}
    BY <1>3 DEF States
  <2>1. /\ fetch' = [fetch EXCEPT ![f] = x]
        /\ x.kind = fetch[f].kind /\ fetch[f].kind # "none"
    BY <2>0, FetchSteps
  <2>2. NoFetch.kind = "none"
    BY FetchSteps
  <2> HIDE DEF x
  <2> QED
    BY <1>1, <2>1, <2>2
<1> QED
  BY <1>2, <1>3

LEMMA FedByClient ==
  ASSUME TypeInv, FedInv, fault = "none", NEW c \in Clients,
         Open(c) \/ Join(c) \/ Leave(c)
  PROVE  FedInv'
<1>1. CASE Open(c)
  <2>1. PICK f \in 1 .. Slots : fetch' = [fetch EXCEPT ![f] = Requested("index")]
    BY <1>1 DEF Open
  <2>2. fetch'[f] = Requested("index") /\ requests' # {}
    BY <1>1, <2>1, TypeHolds DEF Open
  <2>3. Feeds(f)'
    BY <2>2 DEF Feeds, Requested, NoFetch
  <2> QED
    BY <2>2, <2>3 DEF FedInv
<1>2. CASE Join(c)
  BY <1>2 DEF Join, FedInv, Feeds
<1>3. CASE Leave(c)
  BY <1>3 DEF Leave, RemoveRequest, Released, FedInv, Feeds
<1> QED
  BY <1>1, <1>2, <1>3

LEMMA FedByFetch ==
  ASSUME TypeInv, FedInv, fault = "none", NEW f \in 1 .. Slots, FetchStep(f)
  PROVE  FedInv'
<1>1. fetch[f].kind \in Kinds
  BY TypeHolds DEF FetchTypes
<1>2. CASE ErrorAll(f) \/ Silently(f)
  BY <1>2 DEF ErrorAll, Crash, Released, Silently, FedInv
<1>3. CASE HeaderUnwanted(f)
  BY <1>3 DEF HeaderUnwanted, FedInv
<1>4. CASE Connected(f)
  <2> SUFFICES ASSUME resource, ~failed PROVE FedInv'
    BY <1>4 DEF Connected, FedInv
  <2>1. /\ \A g \in 1 .. Slots : g # f => fetch'[g] = fetch[g]
        /\ fetch'[f].kind = fetch[f].kind /\ fetch'[f].state = "header"
    <3> DEFINE x == [fetch[f] EXCEPT !.state = "header"]
    <3>1. /\ fetch' = [fetch EXCEPT ![f] = x]
          /\ x.kind = fetch[f].kind /\ x.state = "header"
      BY <1>4, FetchSteps DEF States, Connected
    <3> HIDE DEF x
    <3> QED
      BY <3>1, TypeHolds
  <2> QED
    BY <1>4, <2>1, FeedsStill DEF Connected
<1>5. CASE HeaderLeadsOn(f)
  <2>1. /\ VerifyContent(f, AfterHeader(fetch[f].kind))
        /\ UNCHANGED <<resource, requests, failed>>
    BY <1>5 DEF HeaderLeadsOn
  <2>2. AfterHeader(fetch[f].kind) \in Playlists
        /\ InStep(AfterHeader(fetch[f].kind))
    BY <1>1, AfterHeaderSound
  <2>3. playlist'.exists /\ (Follows(f, "content") \/ Follows(f, "ts"))
    BY <2>1, <2>2, VerifySound
  <2> QED
    BY <2>1, <2>3, FollowsRuns, FeedsNow
<1>6. CASE HeaderRead(f)
  <2>1. CASE fetch[f].kind # "index" /\ ~playlist.exists
    BY <1>6, <2>1 DEF HeaderRead, Crash, FedInv
  <2>2. CASE fetch[f].kind = "index" \/ playlist.exists
    <3>1. /\ playlist' = AfterHeader(fetch[f].kind) /\ Reads(f, "content")
          /\ fetch[f].state # "none"
          /\ UNCHANGED <<resource, requests, failed>>
      BY <1>6, <2>2 DEF HeaderRead
    <3>2. playlist'.exists
      BY <1>1, <2>2, <3>1, AfterHeaderSound
    <3> QED
      BY <3>1, <3>2, FollowsRuns, FeedsNow
  <2> QED
    BY <2>1, <2>2
<1>7. CASE ContentEnds(f)
  <2>1. CASE playlist.exists /\ playlist.tracks # <<>>
    <3>1. PlayNextTrack(f, playlist) /\ UNCHANGED <<resource, requests, failed>>
      BY <1>7, <2>1, NextSound DEF ContentEnds
    <3>2. playlist'.exists /\ Follows(f, "ts")
      BY <2>1, <3>1, NextSound
    <3> QED
      BY <3>1, <3>2, FollowsRuns, FeedsNow
  <2>2. CASE ~(playlist.exists /\ playlist.tracks # <<>>) /\ playlist.url
    <3>1. /\ Follows(f, "content")
          /\ UNCHANGED <<resource, requests, playlist>>
          /\ failed => failed'
      BY <1>7, <2>2 DEF ContentEnds
    <3>2. playlist.exists
      BY <2>2, TypeHolds DEF InStep
    <3> QED
      BY <3>1, <3>2, FollowsRuns, FeedsNow
  <2>3. CASE ~(playlist.exists /\ playlist.tracks # <<>>) /\ ~playlist.url
    <3>1. /\ Ended(f) /\ UNCHANGED <<resource, requests, playlist>>
          /\ failed' <=> failed \/ playlist.exists
          /\ fetch[f].state = "content"
      BY <1>7, <2>3 DEF ContentEnds
    <3> SUFFICES ASSUME resource, ~failed, ~playlist.exists PROVE FedInv'
      BY <3>1 DEF FedInv
    <3>2. \A g \in 1 .. Slots : Feeds(g) => fetch'[g] = fetch[g]
      BY <3>1, TypeHolds DEF Feeds, Ended
    <3> QED
      BY <3>1, <3>2, FeedsStill
  <2> QED
    BY <2>1, <2>2, <2>3
<1>8. CASE ContentLeadsOn(f)
  <2>1. /\ VerifyContent(f, playlist)
        /\ UNCHANGED <<resource, requests, failed>>
    BY <1>8 DEF ContentLeadsOn
  <2>2. playlist'.exists /\ (Follows(f, "content") \/ Follows(f, "ts"))
    BY <2>1, TypeHolds, VerifySound
  <2> QED
    BY <2>1, <2>2, FollowsRuns, FeedsNow
<1>9. CASE ContentRead(f)
  <2>1. FedInv /\ UNCHANGED vars => FedInv'
    BY DEF vars, FedInv, Feeds
  <2> QED
    BY <1>9, <2>1 DEF ContentRead, Crash, FedInv
<1> QED
  BY <1>2, <1>3, <1>4, <1>5, <1>6, <1>7, <1>8, <1>9
     DEF FetchStep, ConnectFails, ResolverDrops, HeaderMissing,
         HeaderRefused, ContentFails

LEMMA FedNext == TypeInv /\ FedInv /\ [Next]_vars => FedInv'
<1>1. TypeInv /\ FedInv /\ Next => FedInv'
  BY FedByClient, FedByFetch DEF Next
<1>2. FedInv /\ UNCHANGED vars => FedInv'
  BY DEF vars, FedInv, Feeds
<1> QED
  BY <1>1, <1>2

-----------------------------------------------------------------------------
(* The theorems. *)

(* Between any two handlers of AstraHttpClient the types hold, there is    *)
(* one chain as long as nothing disturbed it, and who listens has a fetch  *)
(* (AstraHttpClient.cpp:18-118, 200-286).                                  *)
THEOREM Invariance == Spec => []IInv
<1>1. Init => IInv
  <2> SUFFICES ASSUME Init PROVE ChainInv /\ FedInv
    BY TypeInit DEF IInv
  <2>1. Running = {} /\ playlist.tracks = <<>>
    BY DEF Init, Running, NoPlaylist
  <2> QED
    BY <2>1, NewSound DEF Init, ChainInv, Undisturbed, FedInv
<1>2. IInv /\ [Next]_vars => IInv'
  BY TypeNext, ChainNext, FedNext DEF IInv
<1> QED
  BY <1>1, <1>2, PTL DEF Spec

(* The types hold, and the two vectors of a playlist stay in step, so that *)
(* no front or erase is of an empty vector                                 *)
(* (AstraHttpClient.cpp:161-162, 200-222, 334).                            *)
THEOREM TheQueueIsSound == Spec => []QueueIsSound
<1>1. IInv => QueueIsSound
  BY DEF IInv, TypeInv, InStep, QueueIsSound, DurationsInStep
<1> QED
  BY <1>1, Invariance, PTL

(* As long as nobody left and nothing failed nothing throws and there is   *)
(* at most one chain of fetches; and clients that listen have one, unless  *)
(* a fetch was lost                                                        *)
(* (AstraHttpClient.cpp:33, 44, 65, 88, 95, 108, 140, 243).                *)
THEOREM ChannelPlaysUndisturbed == Spec => []PlaysUndisturbed
<1>1. ASSUME IInv PROVE TerminateNeedsCause
  BY <1>1 DEF IInv, ChainInv, TerminateNeedsCause
<1>2. ASSUME IInv PROVE OneChain
  <2> SUFFICES ASSUME ~left, ~failed PROVE Cardinality(Running) <= 1
    BY DEF OneChain
  <2>1. \A f, g \in Running : f = g
    BY <1>2 DEF IInv, ChainInv, Undisturbed
  <2>2. CASE Running = {}
    BY <2>2, FS_EmptySet
  <2>3. CASE Running # {}
    <3>1. PICK f : Running = {f}
      BY <2>1, <2>3
    <3> QED
      BY <3>1, FS_Singleton
  <2> QED
    BY <2>2, <2>3
<1>3. ASSUME IInv PROVE ListenersAreFed
  BY <1>3, RunningMember DEF IInv, FedInv, Feeds, ListenersAreFed
<1>4. IInv => PlaysUndisturbed
  BY <1>1, <1>2, <1>3 DEF PlaysUndisturbed
<1> QED
  BY <1>4, Invariance, PTL

(* A chain that is alone never plays the track it played last              *)
(* (AstraHttpClient.cpp:149).                                              *)
THEOREM NoTrackRepeats == Spec => NoRepeat
<1> DEFINE Repeats ==
      ~left /\ ~failed /\ playlist' # playlist
        /\ \E f \in 1 .. Slots : fetch'[f] = Requested("ts")
                                 /\ fetch[f] # Requested("ts")
    New == playlist'.last_track # playlist.last_track
<1>1. ASSUME IInv, Next, Repeats PROVE New
  <2>1. TypeInv /\ Undisturbed /\ fault = "none"
    BY <1>1 DEF IInv, ChainInv, Next
  <2>2. PICK g \in 1 .. Slots :
          fetch'[g] = Requested("ts") /\ fetch[g] # Requested("ts")
    BY <1>1
  <2>3. \A c \in Clients : ~(Open(c) \/ Join(c) \/ Leave(c))
    BY <1>1 DEF Open, Join, Leave
  <2>4. PICK f \in 1 .. Slots : FetchStep(f)
    BY <1>1, <2>3 DEF Next
  <2>5. fetch[f].kind \in Kinds /\ playlist \in Playlists /\ InStep(playlist)
    BY <2>1, TypeHolds DEF FetchTypes
  <2>6. ASSUME NEW p \in Playlists, InStep(p), VerifyContent(f, p),
               fetch[f].kind # "index" => p.last_track = playlist.last_track,
               fetch[f].kind # "ts" => p.tracks = <<>>
        PROVE  New
    <3>1. CASE fetch[f].kind = "content"
      BY <2>1, <2>6, <3>1, VerifySound
    <3>2. CASE fetch[f].kind = "index"
      <4>1. Follows(f, "content")
        BY <2>1, <2>6, <3>2, VerifySound
      <4>2. g = f => fetch'[g] = Requested("content")
        BY <2>1, <4>1, TypeHolds DEF Follows
      <4>3. g # f => fetch'[g] = fetch[g]
        BY <2>1, <4>1, TypeHolds DEF Follows
      <4> QED
        BY <2>2, <4>2, <4>3 DEF Requested
    <3> QED
      BY <2>1, <2>6, <3>1, <3>2, VerifySound
  <2>7. ASSUME fetch[f].state # "none"
        PROVE  /\ fetch[f].kind # "ts" => playlist.tracks = <<>>
               /\ NoTwice(playlist)
    BY <2>1, <2>7, ChainHolds
  <2>8. CASE HeaderLeadsOn(f)
    <3> DEFINE p == AfterHeader(fetch[f].kind)
    <3>1. p \in Playlists /\ InStep(p) /\ p.tracks = playlist.tracks
      BY <2>1, <2>5, AfterHeaderSound
    <3>2. fetch[f].kind # "index" => p.last_track = playlist.last_track
      BY DEF AfterHeader
    <3>3. VerifyContent(f, p) /\ fetch[f].state # "none"
      BY <2>8 DEF HeaderLeadsOn
    <3> HIDE DEF p
    <3> QED
      BY <2>6, <2>7, <3>1, <3>2, <3>3
  <2>9. CASE ContentLeadsOn(f)
    <3>1. VerifyContent(f, playlist) /\ fetch[f].state # "none"
      BY <2>9 DEF ContentLeadsOn
    <3> QED
      BY <2>5, <2>6, <2>7, <3>1
  <2>10. CASE ContentEnds(f)
    <3>1. CASE playlist.tracks # <<>>
      <4>1. PlayNextTrack(f, playlist) /\ fetch[f].state # "none"
        BY <2>1, <2>10, <3>1, NextSound DEF ContentEnds
      <4> QED
        BY <2>1, <2>7, <3>1, <4>1, NextSound
    <3>2. CASE playlist.tracks = <<>>
      BY <1>1, <2>10, <3>2 DEF ContentEnds
    <3> QED
      BY <3>1, <3>2
  <2>11. CASE HeaderRead(f) \/ ContentRead(f)
    <3>1. \/ fetch' = fetch \/ Ended(f)
          \/ fetch[f].state # "none" /\ Reads(f, "content")
      BY <2>11 DEF HeaderRead, ContentRead, Crash, vars
    <3>2. fetch'[g] # fetch[g]
      BY <2>2
    <3>3. CASE Ended(f)
      <4>1. fetch'[g] = NoFetch
        BY <2>1, <3>2, <3>3, TypeHolds DEF Ended
      <4> QED
        BY <2>2, <4>1 DEF Requested, NoFetch
    <3>4. CASE fetch[f].state # "none" /\ Reads(f, "content")
      <4> DEFINE x == [fetch[f] EXCEPT !.state = "content"]
      <4>1. fetch' = [fetch EXCEPT ![f] = x] /\ x.state = "content"
        BY <2>1, <3>4, FetchSteps DEF States
      <4> HIDE DEF x
      <4>2. fetch'[g].state = "content"
        BY <2>1, <3>2, <4>1, TypeHolds
      <4> QED
        BY <2>2, <4>2 DEF Requested
    <3> QED
      BY <3>1, <3>2, <3>3, <3>4
  <2>12. ASSUME ErrorAll(f) \/ Silently(f) \/ Connected(f) \/ HeaderUnwanted(f)
         PROVE  FALSE
    BY <1>1, <2>12 DEF ErrorAll, Crash, Silently, Connected, HeaderUnwanted
  <2> QED
    BY <2>4, <2>8, <2>9, <2>10, <2>11, <2>12
       DEF FetchStep, ConnectFails, ResolverDrops, HeaderMissing,
           HeaderRefused, ContentFails
<1>2. IInv /\ [Next]_vars => [Repeats => New]_vars
  BY <1>1
<1> QED
  BY <1>2, Invariance, PTL DEF Spec, NoRepeat
=============================================================================
