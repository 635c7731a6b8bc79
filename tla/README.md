# cdn-uring: TLA+ models and proofs

cdn-uring is a reverse proxy for HTTP and HLS streams. A client asks for
`/origin/path`; the server fetches `http://origin/path` once and multiplexes the
answer to every client that asks for the same URL. It is one thread around one
`io_uring`: every operation is submitted with a pointer to a `struct Request`, and
`Engine::Run` (src/Engine.cpp:249-387) takes one completion at a time and runs the
handler that the Request's `event_type` selects. There are no locks and no threads;
what makes the program hard is the order in which completions arrive, that a
Request may be changed or freed between submission and completion, and that the
connections on both sides end at any moment.

## Inventory

| component | state | operations | interacts with |
|---|---|---|---|
| Engine (`Engine.cpp`) | listening socket, the ring | accept, dispatch of each completion | calls every other component; clears `is_processing` before each dispatch |
| Server (`Server.cpp`) | none of its own: the client socket is in the Request | read a request, write a header, a block or an error, close | Stream decides what is written |
| Stream (`Stream.cpp`, `Mux.hpp`) | `resources_`: id to Mux (type, requests, ring of blocks, pivot, header), `resource_ttl_` | join or open a resource, set its type, notify a block, write the next block, remove a request, close, release, clean up | driven by Engine, Http, Cache; writes through Server |
| Http, HttpClient | the fetch Request (type in `pivot`), the upstream socket | connect, retry, header, content, end, error | calls Stream and Cache; started by Dns |
| HttpsClient | as HttpClient, with an SSL object | the same, with blocking calls | the same; alone decides whether its Requests and sockets are released |
| Cache (`Cache.cpp`) | `nodes_`: id to Node (ring, pivot, written size, writer Request) | look a file up, read its header, append, write, complete, release | Stream (`SetCacheResource`, `NotifyCacheCompleted`), Http |
| Dns, DnsSeeker | queries by id, by host and by due time, address cache, queries in progress, next id | ask for a host, take an answer, add and remove a query, cache an answer | gets fetches from Engine, hands them to Http |
| HLSStream | `playlists_`, `segments_`, on top of Stream | rewrite playlists, fetch index and list in turn, window of tracks, expiry of playlists and of tracks | overrides Stream, starts fetches of its own, whose answers come back through Cache |
| AstraHttpClient | a playlist's tracks and the position in it | read a playlist, play the next track after its length | overrides Http, feeds Stream |
| Settings, Utils, Helpers, Logger | constants, allocation, formatting | | |

What each needs to be correct:

* **Stream**: a client is sent the header once and then blocks in order; it is never
  sent an old block as a new one; a client that waits is served by the next block;
  its Request is in exactly one place (the Mux or a close that is on the way); the
  Mux lives exactly as long as somebody needs it; one upstream connection per URL.
* **Server**: one write per Request in flight, one answer per client, no descriptor lost.
* **Http**: the end or an error of the upstream reaches the Mux it belongs to, and no other.
* **Cache**: the file holds the blocks in order without gaps; readers learn of its completion.
* **Dns**: every request that waits for a host is answered; indexes agree; limits hold.
* **HLSStream**: one chain of fetches per playlist, tracks in order, no entry used after its
  removal; playlists and tracks expire, but not under somebody who uses them.
* **AstraHttpClient**: one chain of fetches per channel; no track twice in a row; while
  somebody listens something is played.
* **HttpClient, HttpsClient**: whatever way a fetch ends, the clients are told and
  the socket, the SSL and the Requests are released once.

Hard behaviours: clients that join at any point of a fetch, that leave with a write in
flight, that are slower than a round of the ring; an upstream connection that outlives
its Mux and finds another one under the same id; completions of Requests that were
freed; DNS answers that never come. `PROJECT.json` lists each of them as a hazard at
its line, with the properties that cover it, or why none does.

## Modules

| module | models |
|---|---|
| `BlockRing` | the circular array of `iovec` that a Mux and a cache Node keep their blocks in: filling a slot, marking the next one, what a reader finds |
| `LiveStream` | one streamed resource: its clients, its Mux and the fetches it starts, from accept to close |
| `CachedResource` | one cached resource: its files, the Node that fills them, and the clients that read them |
| `Lookup` | abstract: what the resolver promises a fetch |
| `Resolver` | the DNS client: queries, their indexes, the cache of addresses, the limit |
| `HlsPlaylist` | one channel of HLSStream in memory: its index, its playlist, and the server's own fetches |
| `TrackExpiry` | the tracks of HLSStream: the map of due times, the cleanup timer, the files with the fetch and the writer that fill them, and clients that still read |
| `AstraPlayer` | one channel of AstraHttpClient: the chain of fetches that plays its tracks |
| `Upstream` | the connections to origins, plain or TLS: what each way out of a fetch releases, and who holds the only thread |
| `MCLiveStream`, ... (one per module) | the symmetries that TLC uses |
| `BlockRingProofs` | arithmetic of the ring and `RingState` as an invariant of it |
| `LiveStreamProofs` | safety of LiveStream for all constants, and that it is a client of Lookup |
| `ResolverProofs` | safety of Resolver for all constants, and that it implements Lookup |
| `CachedResourceProofs`, `HlsPlaylistProofs`, `TrackExpiryProofs`, `AstraPlayerProofs`, `UpstreamProofs` | safety of these for all constants |

`LiveStream` and `CachedResource` both stand on `BlockRing`, one with the ring of a Mux, the
other with that of a Node. `Lookup` is what lies between the fetch and the resolver:
`Resolver` implements it (`IsLookup`), and what `LiveStream` sees of its fetches' requests
is `Lookup` again (`FetchesLookUp`), so that LiveStream's three outcomes of a lookup are
no more and no less than what the resolver's code can come to.

The other four each look at one component and keep of its neighbours what it can tell apart:
`HlsPlaylist` takes from CachedResource that the body of a resource in memory is notified when it is
whole, `TrackExpiry` how a track's file is fetched, written and read meanwhile, `AstraPlayer` from LiveStream
that a Mux is there and who listens, and `Upstream` leaves out what a fetch is for and keeps what
it holds. Where the code under them is the same (`HandleWriteHeaders`, `RemoveRequest`,
`ReleaseErrorAllWaitingRequest`), the actions have the same names.

### BlockRing

A block is its number in the order of production, so that "newer" and "in order" can be
said. `iov_len` tells three things apart and so does a slot: `NoData` (0, never
filled), `EmptyBuffer` (`EMPTY_BUFFER`) and a block. `Fill` is the code of
`NotifyStream`, Stream.cpp:155-168: store at the pivot, move the pivot, mark the slot
there unless it was never filled. The operators take the size as a parameter, so that
the ring of a Node (`CacheBufferSize`) is the same module.

### LiveStream

One action per completion, with the whole handler.

| variable | code |
|---|---|
| `resource`, `type`, `requests`, `buffer`, `pivot` | the id is in `resources_`, and the fields of its Mux |
| `conn[c]` | the client's peer, our descriptor, and what the entry Request is doing |
| `req[c]` | the stream Request of the client; `writes` and `closes` count operations in flight whose completions carry it, so that a freed Request with one in flight is a use after free |
| `chain[c]` | the fetch that client `c` started: statx, DNS, connect, header, content |
| `fault` | the process died: `terminate` is an uncaught `std::out_of_range` (`resources_.at`), `undefined` is undefined behaviour (freed or uninitialised memory). Any outcome is possible after that, and the model stops |
| `head`, `pos`, `headers`, `feeders` | history: blocks stored, the block each client is to get next, headers sent, fetches that belong to the Mux |

| action | completion and handler |
|---|---|
| `Accept`, `PeerLeaves` | ACCEPT; the environment |
| `RejectRead`, `JoinStream`, `OpenStream` | SERVER_READ: `HandleRead`, `HandleExistsResource`, `AddExistsRequest` |
| `ErrorWritten` | WRITE_COMPLETE: `HandleWrite` |
| `StatxDone`, `DnsAnswer` | CACHE_EXISTS and the resolver, seen from the fetch |
| `Connect`, `ConnectRetry`, `FetchFails` | HTTP_FETCH: `HandleFetchRequest`; read errors and end of the answer |
| `HeaderRead`, `ContentRead` | HTTP_READ_HEADER, HTTP_READ_CONTENT with data |
| `HeaderWritten`, `BlockWritten`, `BlockRefused` | WRITE_HEADER, WRITE_PARTIAL with success or another error, WRITE_PARTIAL with EPIPE |
| `HandleClose`, `FreedCompleted` | SERVER_CLOSE; a completion of a freed Request |

Abstractions. The resource is not in the cache directory and its origin answers without
`Connection: close`, so that the Mux is streamed and not cached. `RejectRead` stands for
400, 405 and 412 (the etag of a streamed Mux is never set, so that any If-Match fails).
Clients send a path and a Host; without them `HandleRead` throws on the text (a
hazard of its own). A block is written whole or not: the code takes a short write for
a success and does not send the rest. `BlockWritten` covers errors other than EPIPE,
which the code does not tell from success.

The bug that ends the model most often is real: a client that leaves while the upstream
connection is open takes the Mux with it, and the next end of that connection throws.
The model keeps these executions, with `fault`; the properties say when they cannot
happen (`FaultNeedsDeparture`) and what holds up to that point.

### CachedResource

The origin says `Connection: close`: the answer goes to a file, and clients are served
from the file, while it grows and ever after.

| variable | code |
|---|---|
| `resource`, `type`, `is_completed`, `header`, `requests` | the Mux, as in LiveStream; the ring of the Mux is not used |
| `node` | the Node: `exists` (its id is in `nodes_`), ring, pivot, size, and `cache`, the Request that writes the file; `head` is history. Once `exists` is false the other fields are history too |
| `file`, `file_exists`, `header_file`, `header_write` | what is on the disk, and that the header file is being written |
| `req[c]` | the stream Request; `auxiliar` is the descriptor of the file, `offset` and `readed` belong to the read in flight |
| `chain[c]` | the fetch, or the read of the header file, that `c` started |
| `got`, `failed`, `restarts` | history: cells sent to a client, that a fetch or an `open` has failed, restarts |

| action | completion and handler |
|---|---|
| `JoinResource`, `OpenResource` | SERVER_READ: `HandleExistsResource` |
| `StatxDone`, `HeaderFileRead` | CACHE_EXISTS, CACHE_READ_HEADER |
| `Fetch`, `FetchFails`, `HeaderEnds` | the fetch up to its header, errors, an answer without a header |
| `HeaderRead`, `HeaderReadNoFile` | HTTP_READ_HEADER: `GenerateNode`, with `AppendBuffer` for bytes after the header |
| `BlockRead`, `AnswerEnds` | HTTP_READ_CONTENT: `AppendBuffer`, `CloseBuffer` |
| `WriteHappens`, `BlockWritten` | the kernel writes; CACHE_WRITE_CONTENT: `HandleWrite`, `ReleaseBuffer`, `NotifyCacheCompleted` |
| `HeaderFileWritten` | CACHE_WRITE_HEADER |
| `HeaderWritten` | WRITE_HEADER: `HandleWriteHeaders`, `AddWriteFromCacheRequest` |
| `ReadHappens`, `ContentRead`, `EndRead`, `ContentCopied` | the kernel reads; CACHE_READ_CONTENT, CACHE_COPY_CONTENT |
| `HandleClose`, `FreedCompleted`, `Restart` | SERVER_CLOSE; a freed Request; a new process that finds the files |

A read or write of the file is executed at some moment between its submission and its
completion, and the completions come in any order: that is why both are two steps. All
blocks have the length of one cell, so that a read brings one cell. The code adds a
block's length to `node->size` before that is the offset of the write, so that with blocks of
unequal length they would also overlap; with equal ones the file has a hole in front
(run `cached_resource_file`). A restart is the end of the process between two handlers; the files keep
what the kernel has written. Errors of a read or write of the file and full disks are
left out. A departure has no action: the code does not look at the result of a write
to a client here.

### Resolver

| variable | code |
|---|---|
| `increment`, `queryList`, `queryListByHost`, `queryByNextDueTime`, `cacheAAAA`, `httpInProgress` | the fields of DnsSeeker with these names |
| `now` | the clock, in moments that the index by due time tells apart |
| `host`, `told`, `failed` | the host that a Request asked for, the addresses that it was sent on with, that it was dropped |
| `asked`, `reused` | history: questions sent with their ids, and that an id was given out a second time |

| action | code |
|---|---|
| `AskStatic` | `Dns::AddFetchAAAARequest` for a literal or a name of the host file |
| `AskMerge`, `AskCached`, `AskRefused`, `AskSent`, `AskNotSent` | the outcomes of `GetAAAA` |
| `AnswerUnusable`, `AnswerRight`, `AnswerWrong`, `AnswerFails` | the outcomes of `parseEvent` for one datagram |
| `Tick` | time passes, and any entries of the cache become outdated |

Abstractions. An address is named by the host that it belongs to. `Settings::UseSSL` is the
same for all requests of a process, so that the two vectors of a Query (http, https) are
one set. A query goes to every server of resolv.conf; each may answer it, once, several times,
late or never, so an answer to any question that was ever asked may come at any time.
`checkQueries`, `cancelClient` and `cleanCache` are called from nowhere; there are no
retries and no timeouts, and nothing about liveness is claimed: an answer that is lost
leaves its requests waiting (hazard at DnsSeeker.cpp:1000).

Until ids come round (65534 queries later, `reused`) the tables agree. After that
they need not, since `addQuery` overwrites whatever query had the id.

### HlsPlaylist

`-hls` with `-proxy`. A client asks for the index of a channel. Its answer, rewritten to name the
proxy, creates a playlist; from then on the server fetches the origin's list of tracks, then the
index anew, then the list, for as long as somebody has asked for the playlist recently.

| variable | code |
|---|---|
| `mux` | the Muxes of four ids: the index and the list as clients ask for them, and as the server fetches them for itself |
| `playlist` | the entry of `playlists_`: the fetches that remain, the tracks with their numbers and stamps |
| `segments` | the keys of `segments_` |
| `fetch` | for each id the fetch from its Request (or the timer before it) to `NotifyCacheCompleted` |
| `req[c]` | the stream Request of a client, as in LiveStream |
| `now`, `origin` | the clock; the first track in the origin's list, which never goes back |
| `happened`, `unasked`, `made`, `told`, `sent` | history |

| action | code |
|---|---|
| `OpenChannel`, `JoinChannel`, `OpenList`, `JoinList` | SERVER_READ: `HLSStream::HandleExistsResource` |
| `TimerFires`, `HeaderRead`, `BodyEnds`, `ReleaseErrorAllWaitingRequest`, `CloseStream`, `FetchDropped` | a fetch up to the end of its body or its failure |
| `ChannelCompleted`, `InnerChannelCompleted` | `NotifyCacheCompleted`, `ProcessChannel`, `CreatePlaylist`, `RequestFile` |
| `InnerListCompleted`, `PlaylistExpires` | `ProcessSegmentList`, `CleanTracks`, `GenerateSegmentClientList`, `RemovePlaylist` |
| `ForeignCompleted`, `InnerForeignCompleted` | a body that names nothing that `NotifyCacheCompleted` looks for |
| `HeaderWritten`, `BlockWritten`, `BlockRefused`, `HandleClose`, `FreedCompleted` | completions of a client's Request |

What it shows besides its properties: when one fetch of the server's own fails the playlist is not
refreshed again as long as the index's Mux stays, which nothing removes. A list keeps its Mux
when its playlist expires, and the next client of that list ends the process. `RemovePlaylist` frees the
Requests of the channel whatever they have in flight, and closes no socket. Two clients that
ask for a list which no channel has led to end the process. The window of the origin must not be
longer than the ten tracks that `CleanTracks` keeps: if it is, the tracks that were dropped are
appended again, behind later ones.

Abstractions. Tracks last one moment each. A body is the tracks that it names. Bodies come in one
read. `client_socket` of the server's own Requests is not initialised in the code; nothing here
depends on it. Without `-proxy` `ProcessChannel` replaces the empty string without end, so
that the model does not have it. `NotifyCacheCompleted` takes every request of its Mux; the code's loop
(Stream.cpp:342-354) runs over a vector that `RemoveRequest` assigns anew (Stream.cpp:293) and may pass over some
of three or more, which only comes about for a list that was asked for directly and whose body is empty, and
no property speaks of those.

### TrackExpiry

| variable | code |
|---|---|
| `mux[t]` | the Mux of a track: being looked up, fetched, filled, or whole, and its requests |
| `resource_ttl` | the map from a moment to the track to remove then |
| `node[t]` | the Node that fills the file: whether its writer is busy or idle, the blocks behind the one that is being written, and whether END_BUFFER is behind them |
| `file[t]` | the blocks in its file, which a restart leaves |
| `req[c]` | a client's Request, with its offset in the file as `pivot` |
| `now`, `clean_at` | the clock since the process was started, and when the nop of `HandleCleanup` ends |
| `whole_at`, `slow`, `clashed`, `left` | history: when the track was whole, clients whose Mux was removed under them, tracks that were not entered, tracks whose file lost its Mux without being removed |

| action | code |
|---|---|
| `HandleExistsResource` | SERVER_READ: a client joins the Mux of a track or opens one |
| `NotCached`, `HandleReadHeader` | what the lookup in the cache directory comes to |
| `HeaderFetched`, `BlockFetched`, `FetchEnds` | `Http::HandleReadHeaderRequest`, `HandleReadData`: `GenerateNode`, `AppendBuffer`, `CloseBuffer` |
| `FetchFails` | the fetch fails before its header or in the body: `ReleaseErrorAllWaitingRequest` or `CloseStream` |
| `BlockWritten` (`WriterIdles`, `WriterGoesOn`, `WriterEnds`, `WriterFails`) | CACHE_WRITE_CONTENT: `Cache::HandleWrite`, and `ReleaseBuffer` at END_BUFFER |
| `HeaderWritten`, `ContentRead`, `EndRead`, `ContentCopied`, `HandleClose`, `FreedCompleted` | completions of a client's Request |
| `HandleCleanup`, `Tick`, `Restart` | the timer, the clock, the process |

`NotifyCacheCompleted` enters a track that is whole into the map (`AddResourceTTL`). It is called by the
writer alone, when it meets END_BUFFER (`WriterEnds`). `CloseBuffer` (`FetchEnds`) wakes nobody: a track whose answer
ends when the writer is idle is never whole, never entered and never removed, and those at the end
of its file stay there, which is what `cached_resource_end` finds for any cached resource.

A fetch that fails in the body (Http.cpp:142-143) releases the Mux of a file that is being filled and frees the
clients' Requests, whatever they have in flight: the completion of such an operation (`"freed"`) touches freed
memory. File and Node stay (`left`). Later requests find the file and are served it as a whole track.
The Node's writer goes on with the blocks it has, and throws if it takes up the next one when there is no Mux
(`WriterFails`).

`HandleCleanup` is the timer of one second: it removes all that is due, Muxes and files, and submits itself
again. `Restart` leaves the files, the unfinished ones too; tracks found by `HandleReadHeader` are never entered,
so that a file which was left by a failure or a restart stays for ever (`LeftForEver`). The map has one track per
millisecond: a second one that is whole in the same one is not entered (`clashed`). A client that is not done
when its track goes meets `at()` at its next lookup, or a later Mux of the same track that does not know it, and
then it is left idle for ever or an iterator past the end is erased.

Abstractions. A write and a read of a file take place when they complete. Files can be opened. The writer
is never a lap of the Node behind, and a client's reads go through the file block by block: what laps
and the hole at the file's beginning (Cache.cpp:187) come to is CachedResource's. A file that
was removed is kept for those who have it open only as "there may be more, or not".

### AstraPlayer

| variable | code |
|---|---|
| `resource`, `type`, `requests` | the Mux of the channel |
| `playlist` | the entry of `playlist_`: the queue of tracks, their durations, the last one played |
| `fetch[f]` | the fetches under way; all have the channel's resource id |
| `origin`, `joined`, `left`, `failed` | the origin's list; history |

Every fetch starts the next in its own last handler: `VerifyContent` on an index or a list, `ContentEnds` on
a track (`PlayNextTrack` or `RequestPlaylist`). Nothing ties a chain to the Mux for which it was
started. When the last client leaves, the Mux goes and the chain goes on until it has data for
nobody; a client that comes in between opens a second one. `playlist_` outlives its Mux too. A header that
does not come, or a lookup that fails, ends the chain without a word, and the listeners stay.
`ProcessReproduction` compares with the last track only, so that a list which overlaps by more replays
what was played.

Abstractions. A timer fires at any moment: `GetTimeout` is a duration less the time that has passed,
and may be negative, which is a nop. Text of a list that is not understood, and bytes that
come with the header of a track, are not modelled as data.

### Upstream

| variable | code |
|---|---|
| `use_ssl` | `Settings::UseSSL`: HttpsClient instead of HttpClient, for the life of the process |
| `fetch[f]` | where the fetch is, what it holds (the Request of the lookup, that of the connection, the socket, the SSL with its context), whether its next completion is in the ring, whether the Mux was told |
| `thread` | the fetch in whose blocking call the thread is |
| `lost` | history: what was lost on a way out that does not release it |

| action | code |
|---|---|
| `NoContext`, `NoSocket`, `Connects`, `Refused`, `Retry`, `SendFails`, `RequestSent` | `HandleFetchRequest` of either client |
| `Handshakes`, `HandshakeFails`, `HandshakeDone` | `SSL_connect` and `SSL_write` |
| `OriginSends`, `PreRequest`, `DataRead`, `ReadEnds` | HTTP_READ_HEADER and HTTP_READ_CONTENT; `PreRequest` is `SSL_read` with TLS |

Three ways out lose something: a send that fails its socket, every failure of HttpsClient the
Request of the lookup (`HandleFetchRequest` returns false, which `Engine::Run` takes for
"still in use"), and a failure of its `socket()` the SSL and the context. All others release all.

### Mutants

A definition whose name is another one's with a suffix (`Fill_NoMark`) is that
definition with a plausible bug, which its comment names. No specification uses it. For
every property of a run, `PROJECT.json` names a mutant that the run finds.

## Runs

| run | instance | shows |
|---|---|---|
| `live_stream` (`MCLiveStream.cfg`) | 3 clients, ring of 2, 4 blocks per Mux, symmetric in the clients | all safety properties, `InOrder` and `FreshStart`, 3.8 million states |
| `live_stream_closing` (`MCLiveStreamFair.cfg`) | 2 clients, ring of 3, 4 blocks | `EveryoneIsClosed` under `FairSpec`, and `FetchesLookUp` |
| `resolver` (`MCResolver.cfg`) | 4 requests, 3 hosts and a static one, 2 ids, limit 1, 1 cache entry, 2 moments | all safety properties and `IsLookup` |
| `cached_resource` (`MCCachedResource.cfg`) | 2 clients, ring of 2, 3 blocks, 1 restart | what is in the file and when it counts as complete; who fetches, who reads, who is told; `Served` under `FairSpec` |
| `hls_playlist` (`MCHlsPlaylist.cfg`) | 2 clients, 2 fetches without a request, 3 tracks kept, lists of 2 out of 4 tracks, 2 moments | the chain of fetches, the playlist, who waits, what ends the process; `Expires` under `FairSpec` |
| `track_expiry` (`MCTrackExpiry.cfg`) | 2 tracks of at most 2 blocks, 2 clients, kept for 1 moment out of 3 in each life of the process, any number of restarts | map, Muxes, Nodes and files agree, also after a fetch that fails in the body; whom the cleanup and such a failure harm; `ClientsFinish` under `FairSpec` |
| `astra_player` (`MCAstraPlayer.cfg`) | 3 clients, 3 fetches, lists of 2 out of 5 tracks | the queue, the chain, `NoRepeat`; `PlaysOn` under `FairSpec` |
| `upstream` (`MCUpstream.cfg`) | 3 fetches, plain and TLS | what each fetch holds and releases; `CompletionsHandled` under `FairSpec` |

Four runs end with a violation; each is a finding of `PROJECT.json`.

| run | property | what the code does |
|---|---|---|
| `cached_resource_end` | `EndReachesClients` | `CloseBuffer` does not wake an idle writer: the clients of the first download are never closed |
| `cached_resource_join` | `EveryoneFromTheStart` | a client that joins goes on at the offset of the first client |
| `cached_resource_file` | `FileIsTheAnswer` | the first block is written behind a hole of its own length |
| `hls_playlist_window` | `OnlyTracksToCome` | when no track is to come the list is made of the oldest ones |

Bounds of LiveStream. Three clients are one that leaves or lags, one that stays and one that opens the
resource anew while the fetch of the first is still under way. A ring of two with four
blocks is the least in which a client is lapped and then served again; a longer ring
has no case that it has not, and the proofs are for every size. Each client connects
once; a client that connects again is another client. `MaxBlocks` bounds the blocks of
one Mux, not of a run. Deadlock is not checked: a server without clients, and one that
has died, do nothing.

Bounds of CachedResource. A ring of two with three blocks laps a writer that is not done with the
first, and lets it go on; two clients are one that opens the resource and one that joins, opens it again
after a failure, or comes after a restart. One restart: a second one finds files as the first did.

Bounds of Resolver. Two ids and four requests let ids come round to a query that is still
open; a limit of one is reached with two queries and then exceeded; one cache entry is
reached with two hosts; two moments hold queries with the same and with different due times.

Bounds of HlsPlaylist. Two clients are one that opens the channel and one that joins it, asks for the
list, or comes when the playlist has expired. Lists of two tracks out of four overlap in one track,
in none or in both, and with three kept the oldest is dropped. Two fetches without a request let one pass
and the next expire the playlist. Two moments are before and after the first stamp;
`hls_playlist_window` has four, so that every track can be past.

Bounds of TrackExpiry. Two tracks are whole at the same and at different moments. A track is kept for one
moment and the timer comes every one, so that three moments hold an expiry and a second life of the
same track. Two clients are a slow one and one that fetches the track anew. Two blocks are one that is
being written and one behind it, so that the writer idles, goes on, ends and fails, and a client is before, at
and past the end of the file. A process is restarted without a limit, from whatever files there are; the clock starts
again with it.

Bounds of AstraPlayer. Three fetches are a chain, a second one that a departure lets in, and a third.
Five tracks with lists of two give lists that overlap by none, one or both; longer overlaps replay.

Bounds of Upstream. Fetches only meet in the thread: one that holds it, one that waits for it
and one that has ended.

Fairness of LiveStream. `FairSpec` asks only that the completions that carry SERVER_CLOSE are taken
(`HandleClose`): a nop completes at once and `Engine::Run` takes every completion in
its turn. Nothing is asked of clients, of the origin or of the resolver, and nothing of
writes, which a client that does not read can hold up for ever.

Fairness of CachedResource. `FairSpec` asks that file operations are executed, completions
are taken, and a write to a client ends, be it because the client takes it or because its
connection breaks; `Served` is about such clients. Nothing is asked of the origin. Even so
`EndReachesClients` fails: nobody is left that could wake the writer.

Fairness of HlsPlaylist: timers fire, a fetch goes on to its end or failure, and what is written to
clients completes. `Expires` makes an exception for a fetch that fails. Of TrackExpiry:
what is submitted to the ring for a client, or to read or write a file, completes. Nothing is asked of the origin, of
the cleanup timer or of the clock, and `ClientsFinish`, like `Served`, is about tracks whose end has come
to where the writer will meet it (`EndIsComing`). Of AstraPlayer: a fetch goes on to the end of its body, and an origin
that is asked over and over answers in the end with something that leads on; `PlaysOn` makes
exceptions for a failure and a departure. Of Upstream: the loop takes every completion
in the end, `connect` ends, and an origin of HttpsClient shakes hands and sends. The last is
needed because `SSL_connect` and `SSL_read` block the only thread: without it, one silent origin
holds up everybody, which is the hazard at HttpsClient.cpp:78. Of a plain origin nothing is
asked: HttpClient reads through the ring, and only its `connect` blocks.

## Properties

What a run checks is often a conjunction of named parts about one thing, each with a comment of its own.

LiveStream:

* `MuxIsSound` is the bookkeeping of a Mux: `TypeOK`; `RingHoldsNewest`, its ring; `SingleFlight`,
  `RegisteredAreLive`, `LiveIsReachable` and `ErrorExcludesStream`, the life of its Requests.
* `NeverStranded`, `InOrder`, `FreshStart`: the pivots that point into the ring.
* `HeaderForAll`: joiners and the header.
* `OneFeeder` (`Fed`, `SingleFeeder`): the Mux and its fetch. `Fed` counts a fetch that the resolver
  dropped as under way, for the Mux cannot know: such a Mux keeps its clients for ever.
* `FaultNeedsDeparture` (`FaultFree`, `TerminateNeedsDeparture`): what it takes to end the
  process. Without a departure and before the first fetch ends nothing does; without a departure
  nothing throws. Undefined behaviour needs less than a departure: the end of a stream while a
  block is in flight is enough (`CloseStream` and the write's completion).
* `DescriptorReleased`, `EveryoneIsClosed`: the client's socket. `FetchesLookUp`: the refinement.

CachedResource. Several hold only until a fetch or an `open` fails (`failed`), since the code then
releases the Mux but neither the Node nor the operations in flight; the model goes on and
shows what happens.

* `CacheIsSound`: `TypeOK`, `OneOperation`, `SomebodyAnswers`, `RegisteredAreLive`, `CacheDescriptors`.
* `NobodyStranded` (`WriterNeverStranded`, `NobodyWaits`) and `Served`: writer and clients go on.
* `FileInOrder`, `CompletedIsWhole`, `CompletedIsFinal`, `OneFetch`: the file.
* `FaultNeedsFailure`: what it takes to end the process.

Resolver:

* `TablesAreSound`: `TypeOK`, `HostIndex`, `DueIndex`, `OneAnswer`; `NobodyForgotten`, `RightAddress`
  and `IsLookup`, the requests; `QueryOnlyWhenStale`, the cache.
* `LimitsKeep` (`NeverOvercounts`, `CacheIsBounded`).
* Three things that a reader would expect do not hold. `httpInProgress` falls by two for an answer,
  and by one for one that settles nothing, so that more queries than the limit are in
  progress (DnsSeeker.cpp:288, 845). `removeQuery` takes all queries of a due time out of the
  index (line 830), so that `DueIndex` holds in one direction only. And a query that was
  overwritten leaves its host in the index, which then leads nowhere (line 816), so that
  `HostIndex` is about the time before ids come round.

HlsPlaylist:

* `PlaylistIsSound`: `TypeOK`, `SegmentsHaveMux`, `TracksInOrder`, `ChannelLength`.
* `OneChain`, `WaitersAreFed`, `RemovalNeedsIdle`, `Expires`: fetches, clients and the playlist's life.
* `FaultNeedsCause` (`TerminateNeedsCause`, `UndefinedNeedsCause`): a playlist that expired or is
  empty, a list asked for directly, a body that leads nowhere.

TrackExpiry: `TracksExpire` (`TypeOK`, `EntriesHaveMux`, `WholeIsEntered`, `FilesFollowMux`, `LeftForEver`);
`OnlySlowClientsSuffer` (`OnlySlowClientsKill`, `IdleAreNotified`); `KeptForTimeout`; `ClientsFinish`.

AstraPlayer: `QueueIsSound` (`TypeOK`, `DurationsInStep`); `PlaysUndisturbed` (`TerminateNeedsCause`,
`OneChain`, `ListenersAreFed`); `NoRepeat`; `PlaysOn`.

Upstream: `HoldsWhatItUses` (`TypeOK`, `NothingUsedAfterFree`, `ToldAtEnd`, `EndedHoldsNothing`);
`CompletionsHandled`.

## Proofs

`LiveStreamProofs` proves for any set of clients, any ring of at least two slots and
any number of blocks (`BufferAssumption`, `BoundAssumption`):

| theorem | property |
|---|---|
| `TypeCorrect` | `TypeOK` |
| `RingCorrect` | `RingHoldsNewest` |
| `OneWrite` | `SingleFlight` |
| `NoDanglingRequest` | `RegisteredAreLive` |
| `NoLostRequest` | `LiveIsReachable` |
| `OneAnswer` | `ErrorExcludesStream` |
| `MuxSound` | `MuxIsSound`, the conjunction of these |
| `NobodyStranded` | `NeverStranded` |
| `BlocksInOrder` | `InOrder` |
| `JoinersStartFresh` | `FreshStart` |
| `LiveStreamLooksUp` | `FetchesLookUp` |
| `EveryoneGetsTheHeader` | `HeaderForAll` |
| `OneFeederEach` | `OneFeeder` |
| `NoFaultBeforeDeparture` | `FaultNeedsDeparture` |
| `NoDescriptorIsLost` | `DescriptorReleased` |

The inductive invariant `IInv` has four parts, each inductive with those before it.

1. `TypeOK`.
2. `RingHoldsNewest`. It is inductive alone: `FillRingState` (BlockRingProofs) shows that
   `Fill` keeps it, from the arithmetic of slots (`SameSlot`: two numbers of one slot
   differ by whole laps).
3. `RequestInv`. `RegisteredAreLive` and `SingleFlight` are not inductive: that a Request
   has no write in flight when `is_processing` is clear needs that it is not one that
   is being closed, for `HandleClose` may run with the write still in flight; and that
   nobody is registered twice needs that a client which has not sent its GET has no
   Request. `ClientInv` says these for one client, `VectorInv` for the vector.
4. `PosInv`: a registered client's pivot is the slot of the block it wants, and it is not
   ahead of the producer. With the ring it gives `NeverStranded` (`IdleReader`) and the
   steps of `InOrder` and `FreshStart` (`SentBlock`).

`LiveStreamLooksUp` needs `TypeOK` and that a client which has not sent its GET has no chain
(`ChainStart`); each fetch step is then a step of Lookup or a stutter (`LookupStep`).

The last four theorems come from a second invariant, `SInv` (`StreamInvariance`), which is inductive
on top of `IInv` and `ChainStart`:

* `HeaderInv`: as long as the Mux has no type nobody who is registered has been sent anything or has
  an operation in flight, so that `SetStreamingResource`, which passes over those that do,
  passes over nobody.
* `FeedInv`: without a departure a fetch that is under way is the only feeder of the Mux, and there is
  a Mux. The end of the fetch takes the Mux with it, and only then can another client open the resource.
  With a departure all that is left is `Fed`: who leaves last takes the Mux away. It needs that a write of a
  Mux without a type is impossible (`HeaderInv`): `RemoveRequest` releases an empty Mux only if it streams.
* `FaultInv`: until a fetch has ended and as long as nobody has left no Request is freed or marked to be
  closed (`StreamingNext`); so no completion finds a freed one.
* `DescriptorReleased`, which is inductive with what `ClientInv` says of a client that has not asked.

`ResolverProofs` proves for any sets of requests and hosts and any limits (`HostAssumption`,
`LimitAssumption`):

| theorem | property |
|---|---|
| `ResolverTypes` | `TypeOK` |
| `TablesAgree` | `HostIndex` |
| `DueIndexSound` | `DueIndex` |
| `NoRequestLost` | `NobodyForgotten` |
| `AnsweredOnce` | `OneAnswer` |
| `TablesSound` | `TablesAreSound`, the conjunction of `TypeOK`, `HostIndex`, `DueIndex`, `OneAnswer` |
| `OwnAddress` | `RightAddress` |
| `NoQueryWhileFresh` | `QueryOnlyWhenStale` |
| `CountIsFair` | `NeverOvercounts` |
| `CacheStaysBounded` | `CacheIsBounded` |
| `LimitsHold` | `LimitsKeep`, the conjunction of these two |
| `ImplementsLookup` | `IsLookup` |

Its invariant `IInv` is the conjunction of these (the limits apart, which are proved on top
of it: the count with the cardinality of the set of queries, the cache with that of the hosts
which have an entry, a set that grows by one at most and so is finite whatever `Hosts` is) with two more: `IdsOnce`, that an id
stands for one host as long as ids have not come round, without which an answer that is
matched by its id alone could settle another host's query; and `NotYet`, that a request which has
not asked is nowhere, without which one request could join two queries. `ImplementsLookup`
maps what happened to a request to Lookup's status (`Status`): an answer settles all
requests of its query at once, which is why Lookup settles sets.

`CachedResourceProofs` proves for any number of clients, blocks and restarts and any ring of at least two
slots (`BufferAssumption`, `BoundAssumption`):

| theorem | property |
|---|---|
| `TheCacheIsSound` | `CacheIsSound` |
| `NobodyIsStranded` | `NobodyStranded` |
| `TheFileIsInOrder` | `FileInOrder` |
| `CompletionIsWhole` | `CompletedIsWhole` |
| `NoFaultWithoutFailure` | `FaultNeedsFailure` |
| `OneClientFetches` | `OneFetch` |
| `CompletedStays` | `CompletedIsFinal` |

None of them is inductive alone. `IInv` has a part for each thing that the code keeps and one for what binds
them. `MuxInv` and `RequestInv`: a Mux without a type is not complete and its Requests are as they were made;
`flight` is one exactly when `is_processing` is set. `ChainInv`: one fetch at a time, and what each of its
steps may rely on of the disk. `NodeInv` and `WriteInv`: the ring (`FillRingState` again, here for the ring of a Node), the
writer's pivot as the slot after the block it wrote last, and that a write under way goes to the end of the
file. `BindingInv` ties Mux, Node and file together for as long as nothing has failed: it is
what makes `CompletedIsFinal` true over restarts, since a file on the disk with a Mux of another type is what
the code would fetch again.

`HlsPlaylistProofs` proves for any number of clients and of fetches, any vectors and any time (`SizeAssumption`,
`BoundAssumption`):

| theorem | property |
|---|---|
| `OneChainAtATime` | `OneChain` |
| `WaitersWillBeFed` | `WaitersAreFed` |
| `NoFaultWithoutCause` | `FaultNeedsCause` |
| `RemovalNeedsIdleness` | `RemovalNeedsIdle` |
| `ThePlaylistIsSound`, if `Window <= MaxTracks` | `PlaylistIsSound` |

None of them is inductive alone. `IInv` says, as long as the process runs (`Running`), what the four ids and the
clients are to one another:

* `ChainInv`: a fetch has its Mux; one of the server's own has the only entry of `segments_`, and the
  playlist exists. So the step that ends one fetch finds no other one, and starts the next.
* `ChannelInv`: the channel is complete if its playlist exists, else its fetch is under way or failed or its
  body led nowhere. Until it is complete the Requests registered with it are as they were made, and after
  that they have been told of the body that they get.
* `ListInv`: the Mux of the list waits, has a type and belongs to a playlist, unless the list was asked for
  directly or the playlist expired. This is what `FaultNeedsCause` needs: each `at()` that throws and each body sent
  without a header is at a list of which one of these is true.
* `RequestInv`: a client is registered with the Mux of its id until it is closed or freed, and has as many operations in
  flight as `is_processing` says. A second one, or one that outlives the Request, has a cause in `happened`.
* `PlaylistInv`: what remains of the fetches and what came unasked make up `RemainingFetches`.
* `StampsEnd`: every stamp is before the next one.

`ThePlaylistIsSound` adds `Sorted`: the playlist ends with the tracks of the origin's list of that moment
(`EndsAt`). With it the next list, which never goes back, has a first part that the playlist has and a rest that is
later (`FilledInOrder`), and `CleanTracks` keeps all of the list (`EndIsSorted`). The hypothesis is the code's:
with a list of more than the ten tracks that `CleanTracks` keeps, the property is false, since tracks that were dropped
are appended again. `Fresh`, the loop over a list, is a recursive function: that it has a value
(`KeptExists`), one only (`KeptOnce`), and what it is for lists that overlap with the playlist (`FreshSuffix`) is proved from the
least number where it would fail, in place of an induction.

`TrackExpiryProofs` proves for any sets of tracks and clients, any timeout and period and any size of a track
(`TimeAssumption`, `BoundAssumption`) `TracksComeToTheirEnd` (`TracksExpire`), `OthersAreUnharmed`
(`OnlySlowClientsSuffer`) and `TracksAreKept` (`KeptForTimeout`). The invariant has three parts. `TypeInv`: the types,
and that a Request which was made names its track. `TableInv`: the parts of `TracksExpire`, that an entry is due
`TIMEOUT_TRACK` after its track was whole (`DueAfterWhole`), that a track which is filled or whole has a file
(`FilledIsThere`), and which Nodes a Mux goes with (`NodeFitsMux`): a track that is filled has one, one that
is not either has none or was left, and a Node that was left never has an END_BUFFER, so that the writer of a left
file never enters its track. `ClientInv`: which states of its Mux each event of a client fits (`MuxFitsEvent`),
unless the Mux was removed under that client; that such a slow client is registered nowhere (`SlowIsGone`), so that a
failing fetch does not free its Request; and that a Request was freed only where the Node was left (`FreedHasNode`),
which is why its completion counts among the causes that `OnlySlowClientsKill` names.

`AstraPlayerProofs` proves for any number of clients and fetches and any lists with at least one track
(`BoundAssumption`) `TheQueueIsSound` (`QueueIsSound`), `ChannelPlaysUndisturbed` (`PlaysUndisturbed`) and
`NoTrackRepeats` (`NoRepeat`). That there is one chain needs what the chain may rely on (`Undisturbed`): a list is asked
for only when the queue is empty, so that `ProcessReproduction` never appends to tracks that are left, and a
queue never has a track next to itself (`NoTwice`). That a listener has a fetch (`FedInv`) holds with departures
too, as long as no fetch was lost: one that follows a playlist goes on without its Mux, and finds the next one.

`UpstreamProofs` proves for any set of fetches and for both clients `UpstreamHolds` (`HoldsWhatItUses`). It
assumes only that `"loop"`, which names the event loop where a fetch could be, is no fetch (`FetchAssumption`). The
invariant is what a fetch holds in each of its states (`Held`), and that only the holder of the thread is
in a blocking call.

Every safety property that a passing run checks is a theorem. Only model-checked is liveness (`EveryoneIsClosed`, `Served`, `Expires`, `ClientsFinish`,
`PlaysOn`, `CompletionsHandled`), which is out of the prover's reach.

## Plan

The components that have a state worth checking are modelled, and their safety properties are proved. What
is left is `Multicast`, an abstract specification of what a streamed resource promises (each client gets an
increasing subsequence of the blocks, losing whole laps, until it is closed), with LiveStream as
a refinement of it.

## Not modelled

* The text of requests, headers and playlists beyond what they lead to. `FetchHeader`
  takes a request without a Host header apart at the wrong place (hazard at Server.cpp:169).
* Playlists of several channels at once: they share nothing but the maps. `playlist.m3u8`
  is an ordinary cached resource.
* Creation of the listening sockets, logging, the command line, the hash of a path
  and `xxhash64.h`, which is third-party code: none has a state that changes while the server runs.
