------------------------------ MODULE Resolver ------------------------------
(***************************************************************************)
(* The DNS client: the table of queries with its indexes by host and by    *)
(* due time, the cache of addresses and the count of queries in progress.  *)
(*                                                                         *)
(* Every action is a completion of Engine::Run that enters the resolver:   *)
(* a fetch that needs an address (Ask...), or the timer that looks at the  *)
(* sockets (Answer..., one per datagram).  A query goes to every server of *)
(* resolv.conf, so that each can answer it, late, twice or never.  The     *)
(* sender of every datagram is one of them.  Nothing is sent again and     *)
(* nothing times out: checkQueries is not called from anywhere.            *)
(*                                                                         *)
(* All requests of a process are HTTP or all are HTTPS (Settings::UseSSL): *)
(* one of the two vectors of a Query is always empty.                      *)
(***************************************************************************)
EXTENDS Integers, FiniteSets, Sequences

CONSTANTS
  Requests,       \* the Requests that need an address, each asks once
  Hosts,          \* host names
  NoHost,         \* no host name
  StaticHosts,    \* addresses and the names of the host file
  IdLimit,        \* the last query id, 65534 in the code
  MaxInProgress,  \* queries are refused beyond it, 1000 in the code
  MaxCache,       \* entries are refused beyond it, 120000 in the code
  MaxTime         \* bound: moments that are told apart

ASSUME HostAssumption ==
  /\ NoHost \notin Hosts
  /\ StaticHosts \subseteq Hosts
ASSUME LimitAssumption ==
  /\ IdLimit \in Nat /\ IdLimit >= 1
  /\ MaxInProgress \in Nat /\ MaxCache \in Nat /\ MaxTime \in Nat

Ids == 1 .. IdLimit
NoId == 0
Times == 0 .. MaxTime

VARIABLES
  increment,           \* the next id
  queryList,           \* by id, NoQuery where there is none
  queryListByHost,     \* by host, NoId where there is none
  queryByNextDueTime,  \* by time, {} where there is none
  cacheAAAA,           \* by host
  httpInProgress,
  now,                 \* the clock
  host,                \* the host that a Request has asked for
  told,                \* the addresses that a Request was given
  failed,              \* Requests that were dropped with a message or less
  (* history *)
  asked,               \* questions that were sent, with their ids
  reused               \* an id has been given to a second query

tables == <<queryList, queryListByHost, queryByNextDueTime>>
clients == <<host, told, failed>>
vars == <<increment, tables, cacheAAAA, httpInProgress, now, clients, asked,
          reused>>

(* An address is named by the host that it belongs to. *)
NoQuery == [host |-> NoHost, http |-> {}, nextRetry |-> 0]
NoEntry == [status |-> "none", fresh |-> FALSE, addr |-> NoHost]

Init ==
  /\ increment = 1
  /\ queryList = [id \in Ids |-> NoQuery]
  /\ queryListByHost = [h \in Hosts |-> NoId]
  /\ queryByNextDueTime = [t \in Times |-> {}]
  /\ cacheAAAA = [h \in Hosts |-> NoEntry]
  /\ httpInProgress = 0
  /\ now = 0
  /\ host = [r \in Requests |-> NoHost]
  /\ told = [r \in Requests |-> <<>>]
  /\ failed = {}
  /\ asked = {}
  /\ reused = FALSE

-----------------------------------------------------------------------------
(* An operator whose name is a definition's and a suffix is a MUTANT: the  *)
(* definition with the bug that its comment names.                         *)

Open == {id \in Ids : queryList[id].host # NoHost}

(* dnsRight: the Requests go on to the connect with the address. *)
DnsRight(S, a) ==
  /\ told' = [r \in Requests |-> IF r \in S THEN Append(told[r], a)
                                            ELSE told[r]]
  /\ UNCHANGED failed

(* dnsError and dnsWrong write a message: the Requests are lost. *)
DnsError(S) == failed' = failed \cup S /\ UNCHANGED told

AddCacheEntry(status, h, a) ==
  cacheAAAA' =
    IF Cardinality({g \in Hosts : cacheAAAA[g].status # "none"}) > MaxCache
      THEN cacheAAAA
      ELSE [cacheAAAA EXCEPT ![h] =
              [status |-> status, fresh |-> TRUE, addr |-> a]]

(* Mutant: the status of the entry is not looked at. *)
CachedRight_Any(h) == cacheAAAA[h].status # "none"

(* An entry that serves when a query fails, how old it may be. *)
CachedRight(h) == cacheAAAA[h].status = "right"

(* Mutant: the count is not lowered. *)
Less_Kept(n) == n

(* if (httpInProgress > 0) httpInProgress-- *)
Less(n) == IF n > 0 THEN n - 1 ELSE 0

(* Mutant: the id stays in the index by host. *)
RemoveQuery_KeepHost(id) ==
  /\ queryList' = [queryList EXCEPT ![id] = NoQuery]
  /\ queryByNextDueTime' =
       [queryByNextDueTime EXCEPT ![queryList[id].nextRetry] = {}]
  /\ UNCHANGED queryListByHost

(* Mutant: the query stays in the table. *)
RemoveQuery_KeepQuery(id) ==
  /\ queryByNextDueTime' =
       [queryByNextDueTime EXCEPT ![queryList[id].nextRetry] = {}]
  /\ queryListByHost' =
       [queryListByHost EXCEPT ![queryList[id].host] = NoId]
  /\ UNCHANGED queryList

(* removeQuery.  Every query that is due at the same moment leaves the     *)
(* index by due time with this one.                                        *)
RemoveQuery(id) ==
  /\ queryByNextDueTime' =
       [queryByNextDueTime EXCEPT ![queryList[id].nextRetry] = {}]
  /\ queryListByHost' =
       [queryListByHost EXCEPT ![queryList[id].host] = NoId]
  /\ queryList' = [queryList EXCEPT ![id] = NoQuery]

-----------------------------------------------------------------------------
(* A fetch asks for the address of h. *)

Asks(r, h) == host[r] = NoHost /\ host' = [host EXCEPT ![r] = h]

(* AddFetchAAAARequest for a literal or a name of the host file: the       *)
(* address is there, or its text is no address.                            *)
AskStatic(r, h) ==
  /\ h \in StaticHosts
  /\ Asks(r, h)
  /\ DnsRight({r}, h) \/ DnsError({r})
  /\ UNCHANGED <<increment, tables, cacheAAAA, httpInProgress, now, asked,
                 reused>>

(* GetAAAA has four outcomes for another host.                             *)
(* A query for h is in progress: the Request joins it.                     *)
InProgress(h) ==
  queryListByHost[h] # NoId /\ queryList[queryListByHost[h]].host = h

(* Mutant: the Requests that wait are replaced. *)
AskMerge_Alone(r, h) ==
  /\ h \notin StaticHosts /\ InProgress(h)
  /\ Asks(r, h)
  /\ queryList' = [queryList EXCEPT ![queryListByHost[h]].http = {r}]
  /\ UNCHANGED <<queryListByHost, queryByNextDueTime, increment, cacheAAAA,
                 httpInProgress, now, told, failed, asked, reused>>

AskMerge(r, h) ==
  /\ h \notin StaticHosts /\ InProgress(h)
  /\ Asks(r, h)
  /\ queryList' = [queryList EXCEPT ![queryListByHost[h]].http = @ \cup {r}]
  /\ UNCHANGED <<queryListByHost, queryByNextDueTime, increment, cacheAAAA,
                 httpInProgress, now, told, failed, asked, reused>>

(* Else an index entry that leads to no query of h is erased. *)
Unindexed(h) == [queryListByHost EXCEPT ![h] = NoId]

(* The cache has an entry that is not outdated. *)
AskCached(r, h) ==
  /\ h \notin StaticHosts /\ ~InProgress(h)
  /\ cacheAAAA[h].fresh
  /\ Asks(r, h)
  /\ IF CachedRight(h) THEN DnsRight({r}, cacheAAAA[h].addr) ELSE DnsError({r})
  /\ queryListByHost' = Unindexed(h)
  /\ UNCHANGED <<queryList, queryByNextDueTime, increment, cacheAAAA,
                 httpInProgress, now, asked, reused>>

(* There are too many queries in progress: nothing is sent or said. *)
AskRefused(r, h) ==
  /\ h \notin StaticHosts /\ ~InProgress(h)
  /\ ~cacheAAAA[h].fresh
  /\ httpInProgress > MaxInProgress
  /\ Asks(r, h)
  /\ DnsError({r})
  /\ queryListByHost' = Unindexed(h)
  /\ UNCHANGED <<queryList, queryByNextDueTime, increment, cacheAAAA,
                 httpInProgress, now, asked, reused>>

NextId == IF increment + 1 > IdLimit THEN 1 ELSE increment + 1

(* The query is sent and put into the table, whatever query has its id. *)
AddQuery(r, h) ==
  /\ queryList' = [queryList EXCEPT ![increment] =
                     [host |-> h, http |-> {r}, nextRetry |-> now]]
  /\ queryListByHost' = [queryListByHost EXCEPT ![h] = increment]
  /\ queryByNextDueTime' = [queryByNextDueTime EXCEPT ![now] =
                              @ \cup {increment}]
  /\ httpInProgress' = httpInProgress + 1

AskSent(r, h) ==
  /\ h \notin StaticHosts /\ ~InProgress(h)
  /\ ~cacheAAAA[h].fresh
  /\ httpInProgress <= MaxInProgress
  /\ Asks(r, h)
  /\ AddQuery(r, h)
  /\ increment' = NextId
  /\ asked' = asked \cup {<<increment, h>>}
  /\ reused' = (reused \/ \E g \in Hosts : <<increment, g>> \in asked)
  /\ UNCHANGED <<cacheAAAA, now, told, failed>>

(* No server takes the query: an old address serves. *)
AskNotSent(r, h) ==
  /\ h \notin StaticHosts /\ ~InProgress(h)
  /\ ~cacheAAAA[h].fresh
  /\ httpInProgress <= MaxInProgress
  /\ Asks(r, h)
  /\ IF CachedRight(h)
       THEN DnsRight({r}, cacheAAAA[h].addr) /\ UNCHANGED cacheAAAA
       ELSE DnsError({r}) /\ AddCacheEntry("timeout", h, NoHost)
  /\ increment' = NextId
  /\ queryListByHost' = Unindexed(h)
  /\ UNCHANGED <<queryList, queryByNextDueTime, httpInProgress, now, asked,
                 reused>>

-----------------------------------------------------------------------------
(* parseEvent: an answer to a question for g that was sent with this id.   *)
(* Only the id is compared.                                                *)
Answers(id, g) == id \in Open /\ <<id, g>> \in asked

(* It cannot be read to its end, or its address has not 16 bytes: the      *)
(* query waits on, but no longer counts.                                   *)
AnswerUnusable(id, g) ==
  /\ Answers(id, g)
  /\ httpInProgress' = Less(httpInProgress)
  /\ UNCHANGED <<increment, tables, cacheAAAA, now, clients, asked, reused>>

(* Every other answer settles the query; it is counted off twice. *)
Settled(id) ==
  /\ RemoveQuery(id)
  /\ httpInProgress' = Less(Less(httpInProgress))
  /\ UNCHANGED <<increment, now, host, asked, reused>>

(* It brings an address. *)
AnswerRight(id, g) ==
  /\ Answers(id, g)
  /\ DnsRight(queryList[id].http, g)
  /\ AddCacheEntry("right", queryList[id].host, g)
  /\ Settled(id)

(* It brings an address outside of the range that is served. *)
AnswerWrong(id, g) ==
  /\ Answers(id, g)
  /\ DnsError(queryList[id].http)
  /\ AddCacheEntry("wrong", queryList[id].host, g)
  /\ Settled(id)

(* It brings none: an old address serves.  Else the failure is cached,     *)
(* unless the server says that the query was malformed.                    *)
AnswerFails(id, g) ==
  /\ Answers(id, g)
  /\ LET h == queryList[id].host
     IN  IF CachedRight(h)
           THEN /\ DnsRight(queryList[id].http, cacheAAAA[h].addr)
                /\ UNCHANGED cacheAAAA
           ELSE /\ DnsError(queryList[id].http)
                /\ \/ UNCHANGED cacheAAAA
                   \/ \E status \in {"wrong", "error"} :
                        AddCacheEntry(status, h, NoHost)
  /\ Settled(id)

(* Time passes; entries of the cache become outdated. *)
Tick ==
  /\ now < MaxTime
  /\ now' = now + 1
  /\ \E S \in SUBSET {h \in Hosts : cacheAAAA[h].fresh} :
       cacheAAAA' = [h \in Hosts |-> [cacheAAAA[h] EXCEPT !.fresh =
                                        @ /\ h \notin S]]
  /\ UNCHANGED <<increment, tables, httpInProgress, clients, asked, reused>>

-----------------------------------------------------------------------------
AddFetchAAAARequest(r, h) ==
  \/ AskStatic(r, h) \/ AskMerge(r, h) \/ AskCached(r, h)
  \/ AskRefused(r, h) \/ AskSent(r, h) \/ AskNotSent(r, h)

ParseEvent(id, g) ==
  \/ AnswerUnusable(id, g) \/ AnswerRight(id, g)
  \/ AnswerWrong(id, g) \/ AnswerFails(id, g)

Next ==
  \/ \E r \in Requests, h \in Hosts : AddFetchAAAARequest(r, h)
  \/ \E id \in Ids, g \in Hosts : ParseEvent(id, g)
  \/ Tick

Spec == Init /\ [][Next]_vars

-----------------------------------------------------------------------------
Queries ==
  [host : Hosts \cup {NoHost}, http : SUBSET Requests, nextRetry : Times]
Entries ==
  [status : {"none", "right", "wrong", "error", "timeout"}, fresh : BOOLEAN,
   addr : Hosts \cup {NoHost}]

(* Every variable has its type. *)
TypeOK ==
  /\ increment \in Ids
  /\ queryList \in [Ids -> Queries]
  /\ queryListByHost \in [Hosts -> Ids \cup {NoId}]
  /\ queryByNextDueTime \in [Times -> SUBSET Ids]
  /\ cacheAAAA \in [Hosts -> Entries]
  /\ httpInProgress \in Nat
  /\ now \in Times
  /\ host \in [Requests -> Hosts \cup {NoHost}]
  /\ told \in [Requests -> Seq(Hosts \cup {NoHost})]
  /\ failed \subseteq Requests
  /\ asked \subseteq Ids \X Hosts
  /\ reused \in BOOLEAN

(* The table and its index by host agree as long as no id has come round:  *)
(* the branches of GetAAAA that repair the index (DnsSeeker.cpp:657-663)   *)
(* are not taken, and no host has two queries.                             *)
HostIndex ==
  ~reused =>
    /\ \A h \in Hosts : queryListByHost[h] # NoId =>
         queryList[queryListByHost[h]].host = h
    /\ \A id \in Open : queryListByHost[queryList[id].host] = id

(* What the index by due time lists is in the table: at() in checkQueries  *)
(* (DnsSeeker.cpp:1008) and in removeQuery finds it.                       *)
DueIndex ==
  ~reused =>
    \A t \in Times : \A id \in queryByNextDueTime[t] :
      id \in Open /\ queryList[id].nextRetry = t

(* A Request waits in at most one query, and then for its own host, and    *)
(* has got nothing yet: merging, duplicate answers and the end of a query  *)
(* (DnsSeeker.cpp:634-664, 822-846) neither leave it behind nor keep it.   *)
(* As long as no id has come round it is in a query until it is settled.   *)
NobodyForgotten ==
  /\ \A id \in Open : \A r \in queryList[id].http :
       /\ host[r] = queryList[id].host
       /\ told[r] = <<>> /\ r \notin failed
  /\ \A id, k \in Open : queryList[id].http \cap queryList[k].http # {} => id = k
  /\ ~reused =>
       \A r \in Requests :
         (host[r] # NoHost /\ told[r] = <<>> /\ r \notin failed) =>
           \E id \in Open : r \in queryList[id].http

(* Every server answers every query, but a Request goes on to the connect  *)
(* once and a Request that is lost stays lost (Dns.cpp:156-168).           *)
OneAnswer ==
  \A r \in Requests : Len(told[r]) <= 1 /\ (r \in failed => told[r] = <<>>)

(* The bookkeeping: the types, both indexes, and what each Request got.    *)
TablesAreSound == TypeOK /\ HostIndex /\ DueIndex /\ OneAnswer

(* A Request is given the address of the host that it asked for, fresh or  *)
(* old, as long as no id has come round (DnsSeeker.cpp:256 compares        *)
(* nothing but the id).                                                    *)
RightAddress ==
  ~reused =>
    /\ \A r \in Requests : told[r] # <<>> => told[r][1] = host[r]
    /\ \A h \in Hosts :
         cacheAAAA[h].status = "right" => cacheAAAA[h].addr = h

(* While the cache has an entry that is not outdated the host has no query *)
(* under way whose answer could replace it (DnsSeeker.cpp:665-696).        *)
QueryOnlyWhenStale ==
  ~reused => \A id \in Open : ~cacheAAAA[queryList[id].host].fresh

(* The count of queries in progress (DnsSeeker.cpp:696, 288, 819, 845)     *)
(* keeps its limit, and never exceeds the queries of the table, so that    *)
(* nobody is refused for queries that have ended.                          *)
NeverOvercounts ==
  /\ httpInProgress <= MaxInProgress + 1
  /\ ~reused => httpInProgress <= Cardinality(Open)

(* The cache keeps the size that shields the memory (DnsSeeker.cpp:544).   *)
CacheIsBounded ==
  Cardinality({h \in Hosts : cacheAAAA[h].status # "none"}) <= MaxCache + 1

(* The two limits that protect the process keep, and refuse nobody for     *)
(* what has ended.                                                         *)
LimitsKeep == NeverOvercounts /\ CacheIsBounded

(* What a fetch knows of its Request. *)
Status ==
  [r \in Requests |->
     IF told[r] # <<>> THEN "connect"
     ELSE IF r \in failed THEN "dropped"
     ELSE IF host[r] # NoHost THEN "waiting"
     ELSE "new"]

L == INSTANCE Lookup WITH status <- Status

(* The resolver keeps what it promises a fetch (Dns.cpp:143-190).          *)
IsLookup == L!LookupSpec
=============================================================================
