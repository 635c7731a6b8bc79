--------------------------- MODULE ResolverProofs ---------------------------
(***************************************************************************)
(* The tables of the resolver agree, no Request is forgotten, answered     *)
(* twice or given the address of another host, and the resolver implements *)
(* Lookup: for all numbers of requests and hosts and all limits.           *)
(***************************************************************************)
EXTENDS Resolver, SequenceTheorems, FiniteSetTheorems, TLAPS

(* Only an asked question has an open query, and an id names one question  *)
(* as long as it has not come round.                                       *)
IdsOnce ==
  ~reused =>
    /\ \A id \in Ids, g, h \in Hosts :
         (<<id, g>> \in asked /\ <<id, h>> \in asked) => g = h
    /\ \A id \in Open : <<id, queryList[id].host>> \in asked

(* A Request that has not asked is nowhere. *)
NotYet ==
  \A r \in Requests : host[r] = NoHost => told[r] = <<>> /\ r \notin failed

IInv ==
  /\ TypeOK /\ IdsOnce /\ NotYet
  /\ HostIndex /\ DueIndex /\ NobodyForgotten /\ OneAnswer
  /\ RightAddress /\ QueryOnlyWhenStale

-----------------------------------------------------------------------------
(* What the operators write. *)

LEMMA OpenIds ==
  ASSUME TypeOK, NEW id \in Open
  PROVE  /\ id \in Ids
         /\ queryList[id].host \in Hosts
         /\ queryList[id].http \subseteq Requests
         /\ queryList[id].nextRetry \in Times
BY DEF Open, TypeOK, Queries

(* The entry of h stays, or is a new one: an address of it is a. *)
Written(h, a) ==
  /\ cacheAAAA' \in [Hosts -> Entries]
  /\ \A g \in Hosts : g # h => cacheAAAA'[g] = cacheAAAA[g]
  /\ \/ cacheAAAA'[h] = cacheAAAA[h]
     \/ cacheAAAA'[h].status = "right" => cacheAAAA'[h].addr = a

LEMMA CacheWritten ==
  ASSUME TypeOK, NEW h \in Hosts, NEW a \in Hosts \cup {NoHost},
         NEW b \in Hosts \cup {NoHost},
         NEW status \in {"right", "wrong", "error", "timeout"},
         status = "right" => a = b,
         AddCacheEntry(status, h, a)
  PROVE  Written(h, b)
<1> DEFINE e == [status |-> status, fresh |-> TRUE, addr |-> a]
<1>1. e \in Entries /\ (e.status = "right" => e.addr = b)
  BY DEF Entries
<1>2. \/ cacheAAAA' = cacheAAAA
      \/ cacheAAAA' = [cacheAAAA EXCEPT ![h] = e]
  BY DEF AddCacheEntry
<1> HIDE DEF e
<1> QED
  BY <1>1, <1>2 DEF TypeOK, Written

(* The Requests of S that have got nothing are told a, or they are dropped; *)
(* nothing changes for the others.                                         *)
Given(S, a) ==
  /\ told' \in [Requests -> Seq(Hosts \cup {NoHost})]
  /\ failed' \subseteq Requests
  /\ \A r \in Requests \ S :
       told'[r] = told[r] /\ (r \in failed' <=> r \in failed)
  /\ \/ \A r \in S : (told[r] = <<>> /\ r \notin failed) =>
            told'[r] = <<a>> /\ r \notin failed'
     \/ \A r \in S : (told[r] = <<>> /\ r \notin failed) =>
            told'[r] = <<>> /\ r \in failed'

LEMMA GivenRight ==
  ASSUME TypeOK, NEW S \in SUBSET Requests, NEW a \in Hosts \cup {NoHost},
         DnsRight(S, a)
  PROVE  Given(S, a)
<1>1. \A r \in Requests : Append(told[r], a) \in Seq(Hosts \cup {NoHost})
  BY AppendProperties DEF TypeOK
<1>2. \A r \in Requests : told[r] = <<>> => Append(told[r], a) = <<a>>
  OBVIOUS
<1>3. told' = [r \in Requests |-> IF r \in S THEN Append(told[r], a)
                                             ELSE told[r]]
  BY DEF DnsRight
<1>4. failed' = failed /\ failed \subseteq Requests
  BY DEF DnsRight, TypeOK
<1>5. \A r \in Requests :
        /\ told[r] \in Seq(Hosts \cup {NoHost})
        /\ told'[r] = IF r \in S THEN Append(told[r], a) ELSE told[r]
  BY <1>3 DEF TypeOK
<1>6. told' \in [Requests -> Seq(Hosts \cup {NoHost})]
  BY <1>1, <1>3, <1>5
<1> QED
  BY <1>2, <1>4, <1>5, <1>6 DEF Given

LEMMA GivenError ==
  ASSUME TypeOK, NEW S \in SUBSET Requests, NEW a, DnsError(S)
  PROVE  Given(S, a)
BY DEF TypeOK, DnsError, Given

(* Who has got nothing yet is given one thing. *)
LEMMA GivenOnce ==
  ASSUME OneAnswer, NEW S \in SUBSET Requests, NEW a, Given(S, a),
         \A r \in S : told[r] = <<>> /\ r \notin failed
  PROVE  OneAnswer'
<1>1. Len(<<a>>) <= 1 /\ Len(<<>>) <= 1
  OBVIOUS
<1>2. ASSUME NEW r \in S
      PROVE  Len(told'[r]) <= 1 /\ (r \in failed' => told'[r] = <<>>)
  <2>1. CASE told'[r] = <<a>> /\ r \notin failed'
    BY <1>1, <2>1
  <2>2. CASE told'[r] = <<>>
    BY <1>1, <2>2
  <2> QED
    BY <2>1, <2>2 DEF Given
<1>3. \A r \in Requests \ S :
        Len(told'[r]) <= 1 /\ (r \in failed' => told'[r] = <<>>)
  BY DEF Given, OneAnswer
<1> QED
  BY <1>2, <1>3 DEF OneAnswer

-----------------------------------------------------------------------------
(* The kinds of steps. *)

(* A Request is settled when it asks. *)
AskDone(r, h, a) ==
  /\ Asks(r, h)
  /\ Given({r}, a)
  /\ a = h \/ (cacheAAAA[h].status = "right" /\ a = cacheAAAA[h].addr)
  /\ Written(h, a)
  /\ queryListByHost' \in {queryListByHost, Unindexed(h)}
  /\ queryListByHost' = queryListByHost \/ ~InProgress(h)
  /\ cacheAAAA' = cacheAAAA \/ ~InProgress(h)
  /\ increment' \in {increment, NextId}
  /\ UNCHANGED <<queryList, queryByNextDueTime, httpInProgress, now, asked,
                 reused>>

LEMMA AskDoneShape ==
  ASSUME TypeOK, NEW r \in Requests, NEW h \in Hosts,
         \/ AskStatic(r, h) \/ AskCached(r, h)
         \/ AskRefused(r, h) \/ AskNotSent(r, h)
  PROVE  \E a \in Hosts \cup {NoHost} : AskDone(r, h, a)
<1> DEFINE b == cacheAAAA[h].addr
<1>1. b \in Hosts \cup {NoHost} /\ cacheAAAA \in [Hosts -> Entries]
  BY DEF TypeOK, Entries
<1>2. cacheAAAA' = cacheAAAA => \A a : Written(h, a)
  BY <1>1 DEF Written
<1>3. (DnsRight({r}, h) \/ DnsError({r})) => Given({r}, h)
  BY GivenRight, GivenError
<1>4. DnsRight({r}, b) => Given({r}, b)
  BY <1>1, GivenRight
<1>5. AddCacheEntry("timeout", h, NoHost) => Written(h, h)
  BY CacheWritten
<1>6. CASE AskStatic(r, h)
  BY <1>2, <1>3, <1>6 DEF AskStatic, AskDone, tables
<1>7. CASE AskCached(r, h)
  <2>1. CASE CachedRight(h)
    BY <1>1, <1>2, <1>4, <1>7, <2>1 DEF AskCached, AskDone, CachedRight
  <2>2. CASE ~CachedRight(h)
    BY <1>2, <1>3, <1>7, <2>2 DEF AskCached, AskDone
  <2> QED
    BY <2>1, <2>2
<1>8. CASE AskRefused(r, h)
  BY <1>2, <1>3, <1>8 DEF AskRefused, AskDone
<1>9. CASE AskNotSent(r, h)
  <2>1. CASE CachedRight(h)
    BY <1>1, <1>2, <1>4, <1>9, <2>1 DEF AskNotSent, AskDone, CachedRight
  <2>2. CASE ~CachedRight(h)
    BY <1>3, <1>5, <1>9, <2>2 DEF AskNotSent, AskDone
  <2> QED
    BY <2>1, <2>2
<1> QED
  BY <1>6, <1>7, <1>8, <1>9

(* An answer settles a query. *)
AnswerDone(id, g, a) ==
  /\ Answers(id, g)
  /\ Given(queryList[id].http, a)
  /\ \/ a = g
     \/ /\ cacheAAAA[queryList[id].host].status = "right"
        /\ a = cacheAAAA[queryList[id].host].addr
  /\ Written(queryList[id].host, a)
  /\ Settled(id)

LEMMA AnswerDoneShape ==
  ASSUME TypeOK, NEW id \in Ids, NEW g \in Hosts,
         AnswerRight(id, g) \/ AnswerWrong(id, g) \/ AnswerFails(id, g)
  PROVE  \E a \in Hosts \cup {NoHost} : AnswerDone(id, g, a)
<1> DEFINE h == queryList[id].host
           S == queryList[id].http
           b == cacheAAAA[h].addr
<1>1. Answers(id, g) /\ Settled(id)
  BY DEF AnswerRight, AnswerWrong, AnswerFails
<1>2. h \in Hosts /\ S \in SUBSET Requests
  BY <1>1, OpenIds DEF Answers
<1>3. b \in Hosts \cup {NoHost} /\ cacheAAAA \in [Hosts -> Entries]
  BY <1>2 DEF TypeOK, Entries
<1>4. cacheAAAA' = cacheAAAA => \A a : Written(h, a)
  BY <1>3 DEF Written
<1>5. DnsRight(S, g) \/ DnsError(S) => Given(S, g)
  BY <1>2, GivenRight, GivenError
<1>6. DnsRight(S, b) => Given(S, b)
  BY <1>2, <1>3, GivenRight
<1>7. CASE AnswerRight(id, g)
  <2>1. Written(h, g)
    BY <1>2, <1>7, CacheWritten DEF AnswerRight
  <2> QED
    BY <1>1, <1>5, <1>7, <2>1 DEF AnswerRight, AnswerDone
<1>8. CASE AnswerWrong(id, g)
  <2>1. Written(h, g)
    BY <1>2, <1>8, CacheWritten DEF AnswerWrong
  <2> QED
    BY <1>1, <1>5, <1>8, <2>1 DEF AnswerWrong, AnswerDone
<1>9. CASE AnswerFails(id, g)
  <2>1. CASE CachedRight(h)
    BY <1>1, <1>3, <1>4, <1>6, <1>9, <2>1
    DEF AnswerFails, AnswerDone, CachedRight
  <2>2. CASE ~CachedRight(h)
    <3>1. \A status \in {"wrong", "error"} :
            AddCacheEntry(status, h, NoHost) => Written(h, g)
      BY <1>2, CacheWritten
    <3>2. Written(h, g) /\ DnsError(S)
      BY <1>4, <1>9, <2>2, <3>1 DEF AnswerFails
    <3> QED
      BY <1>1, <1>5, <3>2 DEF AnswerDone
  <2> QED
    BY <2>1, <2>2
<1> QED
  BY <1>7, <1>8, <1>9


-----------------------------------------------------------------------------
(* The invariant. *)

LEMMA Initially == Init => IInv
<1> SUFFICES ASSUME Init PROVE IInv
  OBVIOUS
<1>1. 1 \in Ids /\ 0 \in Times
  BY LimitAssumption DEF Ids, Times
<1>2. NoQuery \in Queries /\ NoEntry \in Entries
  BY <1>1 DEF NoQuery, NoEntry, Queries, Entries
<1>3. Open = {}
  BY DEF Open, Init, NoQuery
<1>4. TypeOK
  BY <1>1, <1>2 DEF Init, TypeOK
<1>5. IdsOnce /\ NotYet
  BY <1>3 DEF Init, IdsOnce, NotYet
<1>6. HostIndex /\ DueIndex /\ NobodyForgotten /\ OneAnswer
  BY <1>3 DEF Init, HostIndex, DueIndex, NobodyForgotten, OneAnswer
<1>7. RightAddress /\ QueryOnlyWhenStale
  BY <1>3 DEF Init, RightAddress, QueryOnlyWhenStale, NoEntry
<1> QED
  BY <1>4, <1>5, <1>6, <1>7 DEF IInv

(* A Request that is settled when it asks: no query is touched. *)
LEMMA AskDoneKeeps ==
  ASSUME IInv, NEW r \in Requests, NEW h \in Hosts,
         NEW a \in Hosts \cup {NoHost}, AskDone(r, h, a)
  PROVE  IInv'
<1>1. host[r] = NoHost /\ host' = [host EXCEPT ![r] = h] /\ h # NoHost
  BY HostAssumption DEF AskDone, Asks
<1>2. Given({r}, a) /\ Written(h, a)
  BY DEF AskDone
<1>3. /\ queryList' = queryList /\ asked' = asked /\ reused' = reused
      /\ queryByNextDueTime' = queryByNextDueTime /\ now' = now
      /\ httpInProgress' = httpInProgress /\ Open' = Open
  BY DEF AskDone, Open
<1>4. told[r] = <<>> /\ r \notin failed
  BY <1>1 DEF IInv, NotYet
<1>5. \A id \in Open : r \notin queryList[id].http
  BY <1>1, OpenIds, HostAssumption DEF IInv, NobodyForgotten
<1>6. ~reused => queryListByHost' = queryListByHost
  <2> SUFFICES ASSUME ~reused, ~InProgress(h), queryListByHost' = Unindexed(h)
               PROVE  queryListByHost' = queryListByHost
    BY DEF AskDone
  <2>1. queryListByHost[h] = NoId
    BY DEF InProgress, IInv, HostIndex
  <2> QED
    BY <2>1 DEF Unindexed, IInv, TypeOK
<1>7. TypeOK'
  <2>1. increment' \in Ids
    BY LimitAssumption DEF AskDone, NextId, Ids, IInv, TypeOK
  <2>2. queryListByHost' \in [Hosts -> Ids \cup {NoId}]
    BY DEF AskDone, Unindexed, IInv, TypeOK
  <2> QED
    BY <1>1, <1>2, <1>3, <2>1, <2>2 DEF Given, Written, IInv, TypeOK
<1>8. IdsOnce'
  BY <1>3 DEF IInv, IdsOnce
<1>9. NotYet'
  BY <1>1, <1>2 DEF Given, IInv, NotYet, TypeOK
<1>10. HostIndex' /\ DueIndex'
  BY <1>3, <1>6 DEF IInv, HostIndex, DueIndex
<1>11. NobodyForgotten'
  <2>1. \A q \in Requests \ {r} :
          /\ host'[q] = host[q] /\ told'[q] = told[q]
          /\ q \in failed' <=> q \in failed
    BY <1>1, <1>2 DEF Given, IInv, TypeOK
  <2>2. told'[r] # <<>> \/ r \in failed'
    BY <1>2, <1>4 DEF Given
  <2>3. \A id \in Open : queryList[id].http \subseteq Requests \ {r}
    BY <1>5, OpenIds DEF IInv
  <2> QED
    BY <1>3, <2>1, <2>2, <2>3 DEF IInv, NobodyForgotten
<1>12. OneAnswer'
  BY <1>2, <1>4, GivenOnce DEF IInv
<1>13. RightAddress'
  <2> SUFFICES ASSUME ~reused
               PROVE  /\ \A q \in Requests : told'[q] # <<>> =>
                           told'[q][1] = host'[q]
                      /\ \A g \in Hosts : cacheAAAA'[g].status = "right" =>
                           cacheAAAA'[g].addr = g
    BY <1>3 DEF RightAddress
  <2>1. a = h
    BY DEF AskDone, IInv, RightAddress
  <2>2. \A q \in Requests : told'[q] # <<>> => told'[q][1] = host'[q]
    BY <1>1, <1>2, <1>4, <2>1 DEF Given, IInv, RightAddress, TypeOK
  <2>3. \A g \in Hosts : cacheAAAA'[g].status = "right" =>
          cacheAAAA'[g].addr = g
    BY <1>2, <2>1 DEF Written, IInv, RightAddress
  <2> QED
    BY <2>2, <2>3
<1>14. QueryOnlyWhenStale'
  <2> SUFFICES ASSUME ~reused, NEW id \in Open
               PROVE  ~cacheAAAA'[queryList[id].host].fresh
    BY <1>3 DEF QueryOnlyWhenStale
  <2>1. CASE cacheAAAA' = cacheAAAA
    BY <2>1 DEF IInv, QueryOnlyWhenStale
  <2>2. CASE ~InProgress(h)
    <3>1. queryList[id].host # h
      BY <2>2, OpenIds, LimitAssumption
      DEF InProgress, IInv, HostIndex, Ids, NoId
    <3> QED
      BY <1>2, <3>1, OpenIds DEF Written, IInv, QueryOnlyWhenStale
  <2> QED
    BY <2>1, <2>2 DEF AskDone
<1> QED
  BY <1>7, <1>8, <1>9, <1>10, <1>11, <1>12, <1>13, <1>14 DEF IInv


(* A Request joins the query of its host. *)
LEMMA AskMergeKeeps ==
  ASSUME IInv, NEW r \in Requests, NEW h \in Hosts, AskMerge(r, h)
  PROVE  IInv'
<1> DEFINE k == queryListByHost[h]
           q == queryList[k]
<1>1. host[r] = NoHost /\ host' = [host EXCEPT ![r] = h] /\ h # NoHost
  BY HostAssumption DEF AskMerge, Asks
<1>2. k \in Ids /\ q.host = h /\ q \in Queries /\ k \in Open
  BY <1>1 DEF AskMerge, InProgress, IInv, TypeOK, Open
<1>3. queryList' = [queryList EXCEPT ![k] =
                      [q EXCEPT !.http = q.http \cup {r}]]
  BY DEF AskMerge
<1>4. UNCHANGED <<queryListByHost, queryByNextDueTime, increment, cacheAAAA,
                  httpInProgress, now, told, failed, asked, reused>>
  BY DEF AskMerge
<1>5. /\ [q EXCEPT !.http = q.http \cup {r}] \in Queries
      /\ [q EXCEPT !.http = q.http \cup {r}].host = h
      /\ [q EXCEPT !.http = q.http \cup {r}].http = q.http \cup {r}
      /\ [q EXCEPT !.http = q.http \cup {r}].nextRetry = q.nextRetry
  BY <1>2 DEF Queries
<1>6. /\ queryList' \in [Ids -> Queries]
      /\ \A id \in Ids :
           /\ queryList'[id].host = queryList[id].host
           /\ queryList'[id].nextRetry = queryList[id].nextRetry
           /\ queryList'[id].http =
                IF id = k THEN q.http \cup {r} ELSE queryList[id].http
  BY <1>2, <1>3, <1>5 DEF IInv, TypeOK
<1>7. Open' = Open /\ Open \subseteq Ids
  BY <1>6 DEF Open
<1>8. \A id \in Open : r \notin queryList[id].http
  BY <1>1, OpenIds, HostAssumption DEF IInv, NobodyForgotten
<1>9. TypeOK'
  BY <1>1, <1>4, <1>6 DEF IInv, TypeOK
<1>10. IdsOnce' /\ NotYet'
  <2>1. IdsOnce'
    BY <1>4, <1>6, <1>7 DEF IInv, IdsOnce
  <2>2. NotYet'
    BY <1>1, <1>4 DEF IInv, NotYet, TypeOK
  <2> QED
    BY <2>1, <2>2
<1>11. HostIndex' /\ DueIndex'
  <2>1. \A g \in Hosts : k # NoId /\ queryListByHost[g] \in Ids \cup {NoId}
    BY <1>2, LimitAssumption DEF IInv, TypeOK, Ids, NoId
  <2> QED
    BY <1>4, <1>6, <1>7, <2>1 DEF IInv, HostIndex, DueIndex
<1>12. NobodyForgotten'
  <2>1. \A p \in Requests \ {r} : host'[p] = host[p]
    BY <1>1 DEF IInv, TypeOK
  <2>2. host'[r] = h /\ told[r] = <<>> /\ r \notin failed
    BY <1>1 DEF IInv, TypeOK, NotYet
  <2>3. \A id \in Open : queryList[id].http \subseteq Requests \ {r}
    BY <1>8, OpenIds DEF IInv
  <2> QED
    BY <1>2, <1>4, <1>6, <1>7, <2>1, <2>2, <2>3 DEF IInv, NobodyForgotten
<1>13. OneAnswer'
  BY <1>4 DEF IInv, OneAnswer
<1>14. RightAddress'
  BY <1>1, <1>4 DEF IInv, RightAddress, TypeOK, NotYet
<1>15. QueryOnlyWhenStale'
  BY <1>4, <1>6, <1>7 DEF IInv, QueryOnlyWhenStale
<1> QED
  BY <1>9, <1>10, <1>11, <1>12, <1>13, <1>14, <1>15 DEF IInv

(* A new query is sent. *)
LEMMA AskSentKeeps ==
  ASSUME IInv, NEW r \in Requests, NEW h \in Hosts, AskSent(r, h)
  PROVE  IInv'
<1> DEFINE k == increment
           q == [host |-> h, http |-> {r}, nextRetry |-> now]
<1>1. host[r] = NoHost /\ host' = [host EXCEPT ![r] = h] /\ h # NoHost
  BY HostAssumption DEF AskSent, Asks
<1>2. k \in Ids /\ k # NoId
  BY LimitAssumption DEF IInv, TypeOK, Ids, NoId
<1>3. q \in Queries /\ q.host = h /\ q.http = {r} /\ q.nextRetry = now
  BY DEF Queries, IInv, TypeOK
<1>4. /\ queryList' = [queryList EXCEPT ![k] = q]
      /\ queryListByHost' = [queryListByHost EXCEPT ![h] = k]
      /\ queryByNextDueTime' =
           [queryByNextDueTime EXCEPT ![now] = queryByNextDueTime[now] \cup {k}]
      /\ httpInProgress' = httpInProgress + 1
  BY DEF AskSent, AddQuery
<1>5. /\ increment' = NextId
      /\ asked' = asked \cup {<<k, h>>}
      /\ reused' = (reused \/ \E g \in Hosts : <<k, g>> \in asked)
      /\ UNCHANGED <<cacheAAAA, now, told, failed>>
      /\ ~InProgress(h) /\ ~cacheAAAA[h].fresh
  BY DEF AskSent
<1> HIDE DEF q
<1>6. /\ queryList' \in [Ids -> Queries]
      /\ queryList'[k] = q
      /\ \A id \in Ids \ {k} : queryList'[id] = queryList[id]
  BY <1>2, <1>3, <1>4 DEF IInv, TypeOK
<1>7. Open' = Open \cup {k} /\ Open \subseteq Ids
  BY <1>1, <1>2, <1>3, <1>6 DEF Open
<1>8. \A id \in Open : r \notin queryList[id].http
  BY <1>1, OpenIds, HostAssumption DEF IInv, NobodyForgotten
<1>9. ~reused' => /\ ~reused /\ k \notin Open
                  /\ \A g \in Hosts : <<k, g>> \notin asked
  BY <1>5, OpenIds DEF IInv, IdsOnce
<1>10. ~reused => \A id \in Open : queryList[id].host # h
  <2> SUFFICES ASSUME ~reused, NEW id \in Open, queryList[id].host = h
               PROVE  FALSE
    OBVIOUS
  <2>1. queryListByHost[h] = id /\ id # NoId
    BY OpenIds, LimitAssumption DEF IInv, HostIndex, Ids, NoId
  <2> QED
    BY <1>5, <2>1 DEF InProgress
<1>11. TypeOK'
  <2>1. increment' \in Ids
    BY <1>5, LimitAssumption DEF NextId, Ids, IInv, TypeOK
  <2>2. reused' \in BOOLEAN
    BY <1>5
  <2>3. asked' \subseteq Ids \X Hosts
    BY <1>2, <1>5 DEF IInv, TypeOK
  <2>4. queryListByHost' \in [Hosts -> Ids \cup {NoId}]
    BY <1>2, <1>4 DEF IInv, TypeOK
  <2>5. queryByNextDueTime' \in [Times -> SUBSET Ids]
    BY <1>2, <1>4 DEF IInv, TypeOK
  <2> QED
    BY <1>1, <1>4, <1>5, <1>6, <2>1, <2>2, <2>3, <2>4, <2>5 DEF IInv, TypeOK
<1>12. IdsOnce'
  <2> SUFFICES ASSUME ~reused'
               PROVE  /\ \A id \in Ids, f, g \in Hosts :
                           (<<id, f>> \in asked' /\ <<id, g>> \in asked')
                             => f = g
                      /\ \A id \in Open' : <<id, queryList'[id].host>> \in asked'
    BY DEF IdsOnce
  <2>1. \A id \in Ids, f, g \in Hosts :
          (<<id, f>> \in asked' /\ <<id, g>> \in asked') => f = g
    BY <1>5, <1>9 DEF IInv, IdsOnce
  <2>2. \A id \in Open' : <<id, queryList'[id].host>> \in asked'
    BY <1>3, <1>5, <1>6, <1>7, <1>9 DEF IInv, IdsOnce
  <2> QED
    BY <2>1, <2>2
<1>13. NotYet'
  BY <1>1, <1>5 DEF IInv, NotYet, TypeOK
<1>14. HostIndex'
  <2> SUFFICES ASSUME ~reused'
               PROVE  /\ \A g \in Hosts : queryListByHost'[g] # NoId =>
                           queryList'[queryListByHost'[g]].host = g
                      /\ \A id \in Open' :
                           queryListByHost'[queryList'[id].host] = id
    BY DEF HostIndex
  <2>1. ~reused /\ k \notin Open
    BY <1>9
  <2>2. ASSUME NEW g \in Hosts, queryListByHost'[g] # NoId
        PROVE  queryList'[queryListByHost'[g]].host = g
    <3>1. CASE g = h
      BY <1>3, <1>4, <1>6, <3>1 DEF IInv, TypeOK
    <3>2. CASE g # h
      <4>1. queryListByHost'[g] = queryListByHost[g]
        BY <1>4, <3>2 DEF IInv, TypeOK
      <4>2. queryListByHost[g] \in Open
        BY <2>1, <2>2, <4>1, HostAssumption DEF IInv, TypeOK, HostIndex, Open
      <4> QED
        BY <1>6, <1>7, <2>1, <2>2, <4>1, <4>2 DEF IInv, HostIndex
    <3> QED
      BY <3>1, <3>2
  <2>3. ASSUME NEW id \in Open'
        PROVE  queryListByHost'[queryList'[id].host] = id
    <3>1. CASE id = k
      BY <1>3, <1>4, <1>6, <3>1 DEF IInv, TypeOK
    <3>2. CASE id # k
      BY <1>4, <1>6, <1>7, <1>10, <2>1, <2>3, <3>2, OpenIds
      DEF IInv, HostIndex, TypeOK
    <3> QED
      BY <3>1, <3>2
  <2> QED
    BY <2>2, <2>3
<1>15. DueIndex'
  <2> SUFFICES ASSUME ~reused', NEW t \in Times,
                      NEW id \in queryByNextDueTime'[t]
               PROVE  id \in Open' /\ queryList'[id].nextRetry = t
    BY DEF DueIndex
  <2>1. ~reused /\ k \notin Open
    BY <1>9
  <2>2. CASE id \in queryByNextDueTime[t]
    BY <1>6, <1>7, <2>1, <2>2 DEF IInv, DueIndex
  <2>3. CASE id \notin queryByNextDueTime[t]
    <3>1. id = k /\ t = now
      BY <1>4, <2>3 DEF IInv, TypeOK
    <3> QED
      BY <1>3, <1>6, <1>7, <3>1
  <2> QED
    BY <2>2, <2>3
<1>16. NobodyForgotten'
  <2>1. \A p \in Requests \ {r} : host'[p] = host[p]
    BY <1>1 DEF IInv, TypeOK
  <2>2. host'[r] = h /\ told[r] = <<>> /\ r \notin failed
    BY <1>1 DEF IInv, TypeOK, NotYet
  <2>3. \A id \in Open : queryList[id].http \subseteq Requests \ {r}
    BY <1>8, OpenIds DEF IInv
  <2>4. \A id \in Open' : \A p \in queryList'[id].http :
          /\ host'[p] = queryList'[id].host
          /\ told'[p] = <<>> /\ p \notin failed'
    BY <1>3, <1>5, <1>6, <1>7, <2>1, <2>2, <2>3 DEF IInv, NobodyForgotten
  <2>5. \A id, m \in Open' :
          queryList'[id].http \cap queryList'[m].http # {} => id = m
    BY <1>3, <1>6, <1>7, <2>3 DEF IInv, NobodyForgotten
  <2>6. ASSUME ~reused', NEW p \in Requests,
               host'[p] # NoHost, told'[p] = <<>>, p \notin failed'
        PROVE  \E id \in Open' : p \in queryList'[id].http
    <3>1. CASE p = r
      BY <1>3, <1>6, <1>7, <3>1
    <3>2. CASE p # r
      <4>1. PICK id \in Open : p \in queryList[id].http
        BY <1>5, <1>9, <2>1, <2>6, <3>2 DEF IInv, NobodyForgotten
      <4> QED
        BY <1>6, <1>7, <1>9, <2>6, <4>1
    <3> QED
      BY <3>1, <3>2
  <2> QED
    BY <2>4, <2>5, <2>6 DEF NobodyForgotten
<1>17. OneAnswer'
  BY <1>5 DEF IInv, OneAnswer
<1>18. RightAddress'
  BY <1>1, <1>5, <1>9 DEF IInv, RightAddress, TypeOK, NotYet
<1>19. QueryOnlyWhenStale'
  BY <1>3, <1>5, <1>6, <1>7, <1>9 DEF IInv, QueryOnlyWhenStale
<1> QED
  BY <1>11, <1>12, <1>13, <1>14, <1>15, <1>16, <1>17, <1>18, <1>19 DEF IInv


(* An answer settles a query, and the query goes. *)
LEMMA AnswerDoneKeeps ==
  ASSUME IInv, NEW id \in Ids, NEW g \in Hosts,
         NEW a \in Hosts \cup {NoHost}, AnswerDone(id, g, a)
  PROVE  IInv'
<1> DEFINE h == queryList[id].host
           S == queryList[id].http
           t == queryList[id].nextRetry
<1>1. id \in Open /\ <<id, g>> \in asked
  BY DEF AnswerDone, Answers
<1>2. h \in Hosts /\ S \in SUBSET Requests /\ t \in Times
  BY <1>1, OpenIds DEF IInv
<1>3. Given(S, a) /\ Written(h, a)
  BY DEF AnswerDone
<1>4. /\ queryList' = [queryList EXCEPT ![id] = NoQuery]
      /\ queryListByHost' = [queryListByHost EXCEPT ![h] = NoId]
      /\ queryByNextDueTime' = [queryByNextDueTime EXCEPT ![t] = {}]
      /\ httpInProgress' = Less(Less(httpInProgress))
      /\ UNCHANGED <<increment, now, host, asked, reused>>
  BY DEF AnswerDone, Settled, RemoveQuery
<1>5. NoQuery \in Queries /\ NoQuery.host = NoHost
  BY LimitAssumption DEF NoQuery, Queries, Times
<1>6. /\ queryList' \in [Ids -> Queries]
      /\ \A k \in Ids \ {id} : queryList'[k] = queryList[k]
      /\ queryList'[id].host = NoHost
  BY <1>4, <1>5 DEF IInv, TypeOK
<1>7. Open' = Open \ {id} /\ Open \subseteq Ids
  BY <1>6 DEF Open
<1>8. \A r \in S : /\ told[r] = <<>> /\ r \notin failed
                   /\ host[r] = h
                   /\ told'[r] # <<>> \/ r \in failed'
                   /\ told'[r] = <<>> \/ told'[r][1] = a
  <2>1. \A r \in S : told[r] = <<>> /\ r \notin failed /\ host[r] = h
    BY <1>1 DEF IInv, NobodyForgotten
  <2>2. <<a>> # <<>> /\ <<a>>[1] = a
    OBVIOUS
  <2>3. ASSUME NEW r \in S
        PROVE  /\ told'[r] # <<>> \/ r \in failed'
               /\ told'[r] = <<>> \/ told'[r][1] = a
    <3>1. \/ told'[r] = <<a>> /\ r \notin failed'
          \/ told'[r] = <<>> /\ r \in failed'
      BY <1>3, <2>1 DEF Given
    <3> QED
      BY <2>2, <3>1
  <2> QED
    BY <2>1, <2>3
<1>9. \A r \in Requests \ S :
        told'[r] = told[r] /\ (r \in failed' <=> r \in failed)
  BY <1>3 DEF Given
<1>10. TypeOK'
  <2>1. Less(Less(httpInProgress)) \in Nat
    BY DEF Less, IInv, TypeOK
  <2>2. queryListByHost' \in [Hosts -> Ids \cup {NoId}]
    BY <1>2, <1>4 DEF IInv, TypeOK
  <2>3. queryByNextDueTime' \in [Times -> SUBSET Ids]
    BY <1>2, <1>4 DEF IInv, TypeOK
  <2> QED
    BY <1>3, <1>4, <1>6, <2>1, <2>2, <2>3 DEF Given, Written, IInv, TypeOK
<1>11. IdsOnce'
  BY <1>4, <1>6, <1>7 DEF IInv, IdsOnce
<1>12. NotYet'
  BY <1>2, <1>4, <1>8, <1>9, HostAssumption DEF IInv, NotYet
<1>13. HostIndex'
  <2> SUFFICES ASSUME ~reused
               PROVE  /\ \A f \in Hosts : queryListByHost'[f] # NoId =>
                           queryList'[queryListByHost'[f]].host = f
                      /\ \A k \in Open' :
                           queryListByHost'[queryList'[k].host] = k
    BY <1>4 DEF HostIndex
  <2>1. ASSUME NEW f \in Hosts, queryListByHost'[f] # NoId
        PROVE  queryList'[queryListByHost'[f]].host = f
    <3>1. f # h /\ queryListByHost'[f] = queryListByHost[f]
      BY <1>2, <1>4, <2>1 DEF IInv, TypeOK
    <3>2. queryListByHost[f] \in Ids /\ queryList[queryListByHost[f]].host = f
      BY <2>1, <3>1 DEF IInv, TypeOK, HostIndex
    <3> QED
      BY <1>6, <3>1, <3>2
  <2>2. ASSUME NEW k \in Open'
        PROVE  queryListByHost'[queryList'[k].host] = k
    <3>1. k \in Open /\ k # id /\ queryList'[k] = queryList[k]
      BY <1>6, <1>7
    <3>2. queryListByHost[queryList[k].host] = k /\ queryListByHost[h] = id
      BY <1>1, <3>1 DEF IInv, HostIndex
    <3> QED
      BY <1>4, <3>1, <3>2, OpenIds DEF IInv, TypeOK
  <2> QED
    BY <2>1, <2>2
<1>14. DueIndex'
  <2> SUFFICES ASSUME ~reused, NEW u \in Times, NEW k \in queryByNextDueTime'[u]
               PROVE  k \in Open' /\ queryList'[k].nextRetry = u
    BY <1>4 DEF DueIndex
  <2>1. u # t /\ k \in queryByNextDueTime[u]
    BY <1>2, <1>4 DEF IInv, TypeOK
  <2>2. k \in Open /\ queryList[k].nextRetry = u
    BY <2>1 DEF IInv, DueIndex
  <2> QED
    BY <1>6, <1>7, <2>1, <2>2
<1>15. NobodyForgotten'
  <2>1. \A k \in Open' : /\ k \in Open /\ k # id
                         /\ queryList'[k] = queryList[k]
                         /\ queryList[k].http \cap S = {}
                         /\ queryList[k].http \subseteq Requests
    BY <1>1, <1>6, <1>7, OpenIds DEF IInv, NobodyForgotten
  <2>2. \A k \in Open' : \A p \in queryList'[k].http :
          /\ host'[p] = queryList'[k].host
          /\ told'[p] = <<>> /\ p \notin failed'
    BY <1>4, <1>9, <2>1 DEF IInv, NobodyForgotten
  <2>3. \A k, m \in Open' :
          queryList'[k].http \cap queryList'[m].http # {} => k = m
    BY <2>1 DEF IInv, NobodyForgotten
  <2>4. ASSUME ~reused, NEW p \in Requests,
               host[p] # NoHost, told'[p] = <<>>, p \notin failed'
        PROVE  \E k \in Open' : p \in queryList'[k].http
    <3>1. p \notin S
      BY <1>8, <2>4
    <3>2. PICK k \in Open : p \in queryList[k].http
      BY <1>9, <2>4, <3>1 DEF IInv, NobodyForgotten
    <3> QED
      BY <1>6, <1>7, <3>1, <3>2
  <2> QED
    BY <1>4, <2>2, <2>3, <2>4 DEF NobodyForgotten
<1>16. OneAnswer'
  BY <1>2, <1>3, <1>8, GivenOnce DEF IInv
<1>17. ~reused => a = h
  BY <1>1, <1>2 DEF AnswerDone, IInv, IdsOnce, RightAddress
<1>18. RightAddress'
  <2> SUFFICES ASSUME ~reused
               PROVE  /\ \A q \in Requests : told'[q] # <<>> =>
                           told'[q][1] = host[q]
                      /\ \A f \in Hosts : cacheAAAA'[f].status = "right" =>
                           cacheAAAA'[f].addr = f
    BY <1>4 DEF RightAddress
  <2>1. \A q \in Requests : told'[q] # <<>> => told'[q][1] = host[q]
    BY <1>8, <1>9, <1>17 DEF IInv, RightAddress
  <2>2. \A f \in Hosts : cacheAAAA'[f].status = "right" =>
          cacheAAAA'[f].addr = f
    BY <1>3, <1>17 DEF Written, IInv, RightAddress
  <2> QED
    BY <2>1, <2>2
<1>19. QueryOnlyWhenStale'
  <2> SUFFICES ASSUME ~reused, NEW k \in Open'
               PROVE  ~cacheAAAA'[queryList'[k].host].fresh
    BY <1>4 DEF QueryOnlyWhenStale
  <2>1. k \in Open /\ k # id /\ queryList'[k] = queryList[k]
    BY <1>6, <1>7
  <2>2. queryList[k].host # h
    BY <1>1, <2>1 DEF IInv, HostIndex
  <2> QED
    BY <1>3, <2>1, <2>2, OpenIds DEF Written, IInv, QueryOnlyWhenStale
<1> QED
  BY <1>10, <1>11, <1>12, <1>13, <1>14, <1>15, <1>16, <1>18, <1>19 DEF IInv

(* An answer that is of no use, and the time. *)
LEMMA UnusableKeeps ==
  ASSUME IInv, NEW id \in Ids, NEW g \in Hosts, AnswerUnusable(id, g)
  PROVE  IInv'
<1>1. /\ httpInProgress' = Less(httpInProgress)
      /\ UNCHANGED <<increment, queryList, queryListByHost,
                     queryByNextDueTime, cacheAAAA, now, host, told, failed,
                     asked, reused>>
  BY DEF AnswerUnusable, tables, clients
<1>2. Less(httpInProgress) \in Nat
  BY DEF Less, IInv, TypeOK
<1>3. TypeOK'
  BY <1>1, <1>2 DEF IInv, TypeOK
<1>4. Open' = Open
  BY <1>1 DEF Open
<1>5. IdsOnce' /\ NotYet' /\ HostIndex' /\ DueIndex'
  BY <1>1, <1>4 DEF IInv, IdsOnce, NotYet, HostIndex, DueIndex
<1>6. NobodyForgotten' /\ OneAnswer' /\ RightAddress' /\ QueryOnlyWhenStale'
  BY <1>1, <1>4
  DEF IInv, NobodyForgotten, OneAnswer, RightAddress, QueryOnlyWhenStale
<1> QED
  BY <1>3, <1>5, <1>6 DEF IInv

LEMMA TickKeeps == IInv /\ Tick => IInv'
<1> SUFFICES ASSUME IInv, Tick PROVE IInv'
  OBVIOUS
<1>1. /\ now' \in Times
      /\ UNCHANGED <<increment, queryList, queryListByHost,
                     queryByNextDueTime, httpInProgress, host, told, failed,
                     asked, reused>>
  BY LimitAssumption DEF Tick, tables, clients, Times, IInv, TypeOK
<1>2. PICK S \in SUBSET Hosts :
        cacheAAAA' = [h \in Hosts |-> [cacheAAAA[h] EXCEPT !.fresh =
                                         cacheAAAA[h].fresh /\ h \notin S]]
  BY DEF Tick
<1>3. ASSUME NEW e \in Entries, NEW f \in BOOLEAN
      PROVE  /\ [e EXCEPT !.fresh = f] \in Entries
             /\ [e EXCEPT !.fresh = f].status = e.status
             /\ [e EXCEPT !.fresh = f].addr = e.addr
             /\ [e EXCEPT !.fresh = f].fresh = f
  BY DEF Entries
<1>4. ASSUME NEW h \in Hosts
      PROVE  /\ cacheAAAA'[h] \in Entries
             /\ cacheAAAA'[h].status = cacheAAAA[h].status
             /\ cacheAAAA'[h].addr = cacheAAAA[h].addr
             /\ cacheAAAA'[h].fresh => cacheAAAA[h].fresh
  <2>1. cacheAAAA[h] \in Entries
    BY DEF IInv, TypeOK
  <2> DEFINE f == cacheAAAA[h].fresh /\ h \notin S
  <2>2. f \in BOOLEAN
    OBVIOUS
  <2>3. cacheAAAA'[h] = [cacheAAAA[h] EXCEPT !.fresh = f]
    BY <1>2
  <2>4. f => cacheAAAA[h].fresh
    OBVIOUS
  <2> HIDE DEF f
  <2> QED
    BY <1>3, <2>1, <2>2, <2>3, <2>4
<1>5. cacheAAAA' \in [Hosts -> Entries]
  BY <1>2, <1>4
<1>6. TypeOK'
  BY <1>1, <1>5 DEF IInv, TypeOK
<1>7. Open' = Open
  BY <1>1 DEF Open
<1>8. IdsOnce' /\ NotYet' /\ HostIndex' /\ DueIndex'
  BY <1>1, <1>7 DEF IInv, IdsOnce, NotYet, HostIndex, DueIndex
<1>9. NobodyForgotten' /\ OneAnswer' /\ RightAddress'
  BY <1>1, <1>4, <1>7 DEF IInv, NobodyForgotten, OneAnswer, RightAddress
<1>10. QueryOnlyWhenStale'
  BY <1>1, <1>4, <1>7, OpenIds DEF IInv, QueryOnlyWhenStale
<1> QED
  BY <1>6, <1>8, <1>9, <1>10 DEF IInv

-----------------------------------------------------------------------------
(* The theorems. *)

(* The inductive invariant holds of every state of the resolver, whatever  *)
(* is asked, answered, lost or answered twice.                             *)
THEOREM Invariance == Spec => []IInv
<1>1. IInv /\ [Next]_vars => IInv'
  <2> SUFFICES ASSUME IInv, [Next]_vars PROVE IInv'
    OBVIOUS
  <2>1. ASSUME NEW r \in Requests, NEW h \in Hosts, AddFetchAAAARequest(r, h)
        PROVE  IInv'
    <3>1. CASE AskMerge(r, h)
      BY <3>1, AskMergeKeeps
    <3>2. CASE AskSent(r, h)
      BY <3>2, AskSentKeeps
    <3>3. CASE \/ AskStatic(r, h) \/ AskCached(r, h)
               \/ AskRefused(r, h) \/ AskNotSent(r, h)
      BY <3>3, AskDoneShape, AskDoneKeeps DEF IInv
    <3> QED
      BY <2>1, <3>1, <3>2, <3>3 DEF AddFetchAAAARequest
  <2>2. ASSUME NEW id \in Ids, NEW g \in Hosts, ParseEvent(id, g)
        PROVE  IInv'
    <3>1. CASE AnswerUnusable(id, g)
      BY <3>1, UnusableKeeps
    <3>2. CASE AnswerRight(id, g) \/ AnswerWrong(id, g) \/ AnswerFails(id, g)
      BY <3>2, AnswerDoneShape, AnswerDoneKeeps DEF IInv
    <3> QED
      BY <2>2, <3>1, <3>2 DEF ParseEvent
  <2>3. CASE Tick
    BY <2>3, TickKeeps
  <2>4. CASE UNCHANGED vars
    <3>1. Open' = Open
      BY <2>4 DEF vars, tables, Open
    <3>2. TypeOK' /\ IdsOnce' /\ NotYet' /\ HostIndex' /\ DueIndex'
      BY <2>4, <3>1 DEF IInv, vars, tables, clients, TypeOK, IdsOnce, NotYet,
                        HostIndex, DueIndex
    <3>3. /\ NobodyForgotten' /\ OneAnswer'
          /\ RightAddress' /\ QueryOnlyWhenStale'
      BY <2>4, <3>1 DEF IInv, vars, tables, clients, NobodyForgotten,
                        OneAnswer, RightAddress, QueryOnlyWhenStale
    <3> QED
      BY <3>2, <3>3 DEF IInv
  <2> QED
    BY <2>1, <2>2, <2>3, <2>4 DEF Next
<1> QED
  BY <1>1, Initially, PTL DEF Spec

(* Every variable of the resolver keeps its type. *)
THEOREM ResolverTypes == Spec => []TypeOK
<1>1. IInv => TypeOK
  BY DEF IInv
<1> QED
  BY <1>1, Invariance, PTL

(* Table and host index agree until an id comes round                      *)
(* (DnsSeeker.cpp:815-820, 822-846).                                       *)
THEOREM TablesAgree == Spec => []HostIndex
<1>1. IInv => HostIndex
  BY DEF IInv
<1> QED
  BY <1>1, Invariance, PTL

(* A Request is in one query until it is settled (DnsSeeker.cpp:634-664).  *)
THEOREM NoRequestLost == Spec => []NobodyForgotten
<1>1. IInv => NobodyForgotten
  BY DEF IInv
<1> QED
  BY <1>1, Invariance, PTL

(* No Request is sent on twice, however often a server answers             *)
(* (Dns.cpp:156-168).                                                      *)
THEOREM AnsweredOnce == Spec => []OneAnswer
<1>1. IInv => OneAnswer
  BY DEF IInv
<1> QED
  BY <1>1, Invariance, PTL

(* No Request is given another host's address until an id comes round      *)
(* (DnsSeeker.cpp:256).                                                    *)
THEOREM OwnAddress == Spec => []RightAddress
<1>1. IInv => RightAddress
  BY DEF IInv
<1> QED
  BY <1>1, Invariance, PTL

(* An entry that is not outdated is not replaced by an answer that was     *)
(* under way (DnsSeeker.cpp:665-696).                                      *)
THEOREM NoQueryWhileFresh == Spec => []QueryOnlyWhenStale
<1>1. IInv => QueryOnlyWhenStale
  BY DEF IInv
<1> QED
  BY <1>1, Invariance, PTL

(* What the index by due time lists is in the table (DnsSeeker.cpp:1008).  *)
THEOREM DueIndexSound == Spec => []DueIndex
<1>1. IInv => DueIndex
  BY DEF IInv
<1> QED
  BY <1>1, Invariance, PTL

(* The tables and both indexes are sound, and nobody is answered twice     *)
(* (DnsSeeker.cpp:634-664, 802-846).                                       *)
THEOREM TablesSound == Spec => []TablesAreSound
<1>1. TypeOK /\ HostIndex /\ DueIndex /\ OneAnswer => TablesAreSound
  BY DEF TablesAreSound
<1> QED
  BY <1>1, ResolverTypes, TablesAgree, DueIndexSound, AnsweredOnce, PTL

-----------------------------------------------------------------------------
(* The count of queries in progress. *)

LEMMA OpenFinite ==
  ASSUME TypeOK
  PROVE  IsFiniteSet(Open) /\ Cardinality(Open) \in Nat
<1>1. IsFiniteSet(Ids)
  BY FS_Interval, LimitAssumption DEF Ids
<1>2. Open \subseteq Ids
  BY DEF Open
<1> QED
  BY <1>1, <1>2, FS_Subset, FS_CardinalityType

(* A step without a query that comes or goes. *)
LEMMA SameCount ==
  ASSUME TypeOK, NeverOvercounts, Open' = Open, reused' = reused,
         httpInProgress' \in {httpInProgress, Less(httpInProgress)}
  PROVE  NeverOvercounts'
<1>1. httpInProgress' <= httpInProgress /\ httpInProgress' \in Nat
  BY DEF TypeOK, Less
<1>2. Cardinality(Open) \in Nat /\ httpInProgress \in Nat
  BY OpenFinite DEF TypeOK
<1> QED
  BY <1>1, <1>2, LimitAssumption DEF NeverOvercounts

LEMMA SentCount ==
  ASSUME IInv, NeverOvercounts, NEW r \in Requests, NEW h \in Hosts,
         AskSent(r, h)
  PROVE  NeverOvercounts'
<1>1. /\ httpInProgress' = httpInProgress + 1
      /\ httpInProgress <= MaxInProgress
      /\ httpInProgress \in Nat
  BY DEF AskSent, AddQuery, IInv, TypeOK
<1>2. increment \in Ids
  BY DEF IInv, TypeOK
<1>3. queryList' = [queryList EXCEPT ![increment] =
                      [host |-> h, http |-> {r}, nextRetry |-> now]]
  BY DEF AskSent, AddQuery
<1>4. /\ queryList'[increment].host = h
      /\ \A id \in Ids \ {increment} : queryList'[id] = queryList[id]
  BY <1>2, <1>3 DEF IInv, TypeOK
<1>5. Open' = Open \cup {increment}
  BY <1>2, <1>4, HostAssumption DEF Open
<1>6. ~reused' => ~reused /\ increment \notin Open
  BY OpenIds DEF AskSent, IInv, IdsOnce
<1>7. IsFiniteSet(Open) /\ Cardinality(Open) \in Nat
  BY OpenFinite DEF IInv
<1>8. ~reused' => Cardinality(Open') = Cardinality(Open) + 1
  BY <1>5, <1>6, <1>7, FS_AddElement
<1> QED
  BY <1>1, <1>6, <1>7, <1>8, LimitAssumption DEF NeverOvercounts

LEMMA AnswerCount ==
  ASSUME IInv, NeverOvercounts, NEW id \in Ids, NEW g \in Hosts,
         NEW a, AnswerDone(id, g, a)
  PROVE  NeverOvercounts'
<1> DEFINE n == httpInProgress
           m == Cardinality(Open)
<1>1. /\ id \in Open /\ reused' = reused
      /\ httpInProgress' = Less(Less(n))
      /\ queryList' = [queryList EXCEPT ![id] = NoQuery]
  BY DEF AnswerDone, Answers, Settled, RemoveQuery
<1>2. /\ queryList'[id].host = NoHost
      /\ \A k \in Ids \ {id} : queryList'[k] = queryList[k]
  BY <1>1 DEF IInv, TypeOK, NoQuery
<1>3. Open' = Open \ {id}
  BY <1>2 DEF Open
<1>4. IsFiniteSet(Open) /\ m \in Nat
  BY OpenFinite DEF IInv
<1>5. Cardinality(Open') = m - 1 /\ m - 1 \in Nat
  <2>1. Cardinality(Open') = m - 1
    BY <1>1, <1>3, <1>4, FS_RemoveElement
  <2>2. Cardinality(Open') \in Nat
    BY <1>3, <1>4, FS_RemoveElement, FS_CardinalityType
  <2> QED
    BY <2>1, <2>2
<1>6. n \in Nat
  BY DEF IInv, TypeOK
<1> HIDE DEF n, m
<1>7. Less(Less(n)) <= n /\ (n <= m => Less(Less(n)) <= m - 1)
  BY <1>4, <1>5, <1>6 DEF Less
<1>8. Less(Less(n)) \in Nat
  BY <1>6 DEF Less
<1>9. n <= MaxInProgress + 1 /\ (~reused => n <= m)
  BY DEF NeverOvercounts, n, m
<1> QED
  BY <1>1, <1>5, <1>6, <1>7, <1>8, <1>9, LimitAssumption DEF NeverOvercounts

(* The count keeps its limit, and nobody is refused for queries that have  *)
(* ended (DnsSeeker.cpp:288, 696, 819, 845).                               *)
THEOREM CountIsFair == Spec => []NeverOvercounts
<1>1. Init => NeverOvercounts
  <2>1. Init => Open = {}
    BY DEF Init, Open, NoQuery
  <2>2. Init => Cardinality(Open) = 0
    BY <2>1, FS_EmptySet
  <2>3. Init => httpInProgress = 0
    BY DEF Init
  <2> QED
    BY <2>2, <2>3, LimitAssumption DEF NeverOvercounts
<1>2. IInv /\ NeverOvercounts /\ [Next]_vars => NeverOvercounts'
  <2> SUFFICES ASSUME IInv, NeverOvercounts, [Next]_vars
               PROVE  NeverOvercounts'
    OBVIOUS
  <2>1. ASSUME NEW r \in Requests, NEW h \in Hosts, AddFetchAAAARequest(r, h)
        PROVE  NeverOvercounts'
    <3>1. CASE AskMerge(r, h)
      <4> DEFINE k == queryListByHost[h]
                 q == queryList[k]
      <4>1. /\ UNCHANGED <<httpInProgress, reused>>
            /\ queryList' = [queryList EXCEPT ![k] =
                               [q EXCEPT !.http = q.http \cup {r}]]
        BY <3>1 DEF AskMerge
      <4>2. queryList \in [Ids -> Queries] /\ k \in Hosts \cup Ids \cup {NoId}
        BY DEF IInv, TypeOK
      <4>3. \A e \in Queries :
              [e EXCEPT !.http = q.http \cup {r}].host = e.host
        BY DEF Queries
      <4>4. \A id \in Ids : queryList'[id].host = queryList[id].host
        BY <4>1, <4>2, <4>3
      <4>5. Open' = Open
        BY <4>4 DEF Open
      <4> QED
        BY <4>1, <4>5, SameCount DEF IInv
    <3>2. CASE AskSent(r, h)
      BY <3>2, SentCount
    <3>3. CASE \/ AskStatic(r, h) \/ AskCached(r, h)
               \/ AskRefused(r, h) \/ AskNotSent(r, h)
      BY <3>3, SameCount
      DEF AskStatic, AskCached, AskRefused, AskNotSent, tables, Open, IInv
    <3> QED
      BY <2>1, <3>1, <3>2, <3>3 DEF AddFetchAAAARequest
  <2>2. ASSUME NEW id \in Ids, NEW g \in Hosts, ParseEvent(id, g)
        PROVE  NeverOvercounts'
    <3>1. CASE AnswerUnusable(id, g)
      BY <3>1, SameCount DEF AnswerUnusable, tables, Open, IInv
    <3>2. CASE AnswerRight(id, g) \/ AnswerWrong(id, g) \/ AnswerFails(id, g)
      BY <3>2, AnswerDoneShape, AnswerCount DEF IInv
    <3> QED
      BY <2>2, <3>1, <3>2 DEF ParseEvent
  <2>3. CASE Tick \/ UNCHANGED vars
    BY <2>3, SameCount DEF Tick, vars, tables, Open, IInv
  <2> QED
    BY <2>1, <2>2, <2>3 DEF Next
<1> QED
  BY <1>1, <1>2, Invariance, PTL DEF Spec

-----------------------------------------------------------------------------
(* The size of the cache. *)

CachedHosts == {h \in Hosts : cacheAAAA[h].status # "none"}

(* The set of the hosts need not be finite: that of the cached ones is.    *)
BoundInv ==
  IsFiniteSet(CachedHosts) /\ Cardinality(CachedHosts) <= MaxCache + 1

LEMMA SameCache ==
  ASSUME BoundInv, CachedHosts' = CachedHosts
  PROVE  BoundInv'
BY DEF BoundInv

(* An entry is only added while there are MaxCache or fewer.               *)
LEMMA AddCacheEntryBounded ==
  ASSUME TypeOK, BoundInv, NEW st, NEW h, NEW a, AddCacheEntry(st, h, a)
  PROVE  BoundInv'
<1>1. CASE Cardinality(CachedHosts) > MaxCache
  <2>1. cacheAAAA' = cacheAAAA
    BY <1>1 DEF AddCacheEntry, CachedHosts
  <2> QED
    BY <2>1, SameCache DEF CachedHosts
<1>2. CASE ~(Cardinality(CachedHosts) > MaxCache)
  <2> DEFINE S == CachedHosts \cup {h}
  <2>1. \A g \in Hosts : g # h => cacheAAAA'[g] = cacheAAAA[g]
    BY <1>2 DEF AddCacheEntry, CachedHosts, TypeOK
  <2>2. CachedHosts' \subseteq S
    BY <2>1 DEF CachedHosts
  <2>3. IsFiniteSet(CachedHosts) /\ Cardinality(CachedHosts) \in Nat
    BY FS_CardinalityType DEF BoundInv
  <2>4. /\ IsFiniteSet(S)
        /\ Cardinality(S) \in Nat
        /\ Cardinality(S) <= Cardinality(CachedHosts) + 1
    BY <2>3, FS_AddElement, FS_CardinalityType
  <2>5. /\ IsFiniteSet(CachedHosts')
        /\ Cardinality(CachedHosts') \in Nat
        /\ Cardinality(CachedHosts') <= Cardinality(S)
    BY <2>2, <2>4, FS_Subset, FS_CardinalityType
  <2> QED
    BY <1>2, <2>3, <2>4, <2>5, LimitAssumption DEF BoundInv
<1> QED
  BY <1>1, <1>2

(* Beyond its limit the cache takes no entry (DnsSeeker.cpp:544).          *)
THEOREM CacheStaysBounded == Spec => []CacheIsBounded
<1>1. Init => BoundInv
  <2> SUFFICES ASSUME Init
               PROVE  BoundInv
    OBVIOUS
  <2>1. CachedHosts = {}
    BY DEF Init, NoEntry, CachedHosts
  <2> QED
    BY <2>1, FS_EmptySet, LimitAssumption DEF BoundInv
<1>2. IInv /\ BoundInv /\ [Next]_vars => BoundInv'
  <2> SUFFICES ASSUME IInv, BoundInv, [Next]_vars
               PROVE  BoundInv'
    OBVIOUS
  <2>1. TypeOK
    BY DEF IInv
  <2>2. ASSUME NEW st, NEW h, NEW a, AddCacheEntry(st, h, a)
        PROVE  BoundInv'
    BY <2>1, <2>2, AddCacheEntryBounded
  <2>3. CASE UNCHANGED cacheAAAA
    BY <2>3, SameCache DEF CachedHosts
  <2>4. ASSUME NEW r \in Requests, NEW h \in Hosts, AddFetchAAAARequest(r, h)
        PROVE  BoundInv'
    BY <2>2, <2>3, <2>4
    DEF AddFetchAAAARequest, AskStatic, AskMerge, AskCached, AskRefused,
        AskSent, AskNotSent
  <2>5. ASSUME NEW id \in Ids, NEW g \in Hosts, ParseEvent(id, g)
        PROVE  BoundInv'
    BY <2>2, <2>3, <2>5
    DEF ParseEvent, AnswerUnusable, AnswerRight, AnswerWrong, AnswerFails
  <2>6. CASE Tick
    <3>1. \A h \in Hosts : cacheAAAA'[h].status = cacheAAAA[h].status
      BY <2>1, <2>6 DEF Tick, TypeOK, Entries
    <3> QED
      BY <3>1, SameCache DEF CachedHosts
  <2> QED
    BY <2>3, <2>4, <2>5, <2>6 DEF Next, vars
<1>3. BoundInv => CacheIsBounded
  BY DEF BoundInv, CachedHosts, CacheIsBounded
<1> QED
  BY <1>1, <1>2, <1>3, Invariance, PTL DEF Spec

(* Both limits keep (DnsSeeker.cpp:544, 696).                              *)
THEOREM LimitsHold == Spec => []LimitsKeep
<1>1. NeverOvercounts /\ CacheIsBounded => LimitsKeep
  BY DEF LimitsKeep
<1> QED
  BY <1>1, CountIsFair, CacheStaysBounded, PTL

-----------------------------------------------------------------------------
(* The resolver implements Lookup. *)

Statuses == {"new", "waiting", "connect", "dropped"}

(* The status of one Request. *)
LEMMA StatusOf ==
  /\ Status = [r \in Requests |-> Status[r]]
  /\ \A r \in Requests :
       /\ Status[r] \in Statuses
       /\ told[r] # <<>> => Status[r] = "connect"
       /\ told[r] = <<>> /\ r \in failed => Status[r] = "dropped"
       /\ told[r] = <<>> /\ r \notin failed =>
            Status[r] = IF host[r] = NoHost THEN "new" ELSE "waiting"
BY DEF Status, Statuses

LEMMA StatusOfNext ==
  /\ Status' = [r \in Requests |-> Status'[r]]
  /\ \A r \in Requests :
       /\ Status'[r] \in Statuses
       /\ told'[r] # <<>> => Status'[r] = "connect"
       /\ told'[r] = <<>> /\ r \in failed' => Status'[r] = "dropped"
       /\ told'[r] = <<>> /\ r \notin failed' =>
            Status'[r] = IF host'[r] = NoHost THEN "new" ELSE "waiting"
BY DEF Status, Statuses

(* Nothing that a Request sees changes. *)
LEMMA SameStatus ==
  ASSUME UNCHANGED <<host, told, failed>>
  PROVE  UNCHANGED Status
BY DEF Status

(* A Request asks: its own status alone changes. *)
LEMMA AskStatus ==
  ASSUME IInv, NEW r \in Requests, NEW h \in Hosts, Asks(r, h),
         \/ \E a : Given({r}, a)
         \/ UNCHANGED <<told, failed>>
  PROVE  L!Ask(r)
<1>1. host[r] = NoHost /\ host'[r] = h /\ h # NoHost
  BY HostAssumption DEF Asks, IInv, TypeOK
<1>2. \A q \in Requests \ {r} : host'[q] = host[q]
  BY DEF Asks, IInv, TypeOK
<1>3. told[r] = <<>> /\ r \notin failed
  BY <1>1 DEF IInv, NotYet
<1>4. \A q \in Requests \ {r} :
        told'[q] = told[q] /\ (q \in failed' <=> q \in failed)
  BY DEF Given
<1>5. \A q \in Requests \ {r} : Status'[q] = Status[q]
  BY <1>2, <1>4 DEF Status
<1>6. Status[r] = "new"
  BY <1>1, <1>3, StatusOf
<1>7. Status'[r] \in {"connect", "waiting", "dropped"}
  <2>1. told'[r] # <<>> \/ r \in failed' \/ host'[r] # NoHost
    BY <1>1
  <2> QED
    BY <2>1, StatusOfNext
<1>8. Status' = [Status EXCEPT ![r] = Status'[r]]
  BY <1>5, StatusOf, StatusOfNext
<1> QED
  BY <1>6, <1>7, <1>8 DEF L!Ask

(* An answer settles the Requests of its query together. *)
LEMMA AnswerStatus ==
  ASSUME IInv, NEW id \in Ids, NEW g \in Hosts,
         NEW a \in Hosts \cup {NoHost}, AnswerDone(id, g, a)
  PROVE  L!LookupNext \/ UNCHANGED Status
<1> DEFINE S == queryList[id].http
<1>1. id \in Open /\ Given(S, a) /\ host' = host
  BY DEF AnswerDone, Answers, Settled
<1>2. S \in SUBSET Requests
  BY <1>1, OpenIds DEF IInv
<1>3. \A r \in S : told[r] = <<>> /\ r \notin failed /\ host[r] # NoHost
  BY <1>1, OpenIds, HostAssumption DEF IInv, NobodyForgotten
<1> HIDE DEF S
<1>4. \A r \in S : Status[r] = "waiting"
  BY <1>2, <1>3, StatusOf
<1>5. \A r \in Requests \ S : Status'[r] = Status[r]
  <2>1. \A r \in Requests \ S :
          told'[r] = told[r] /\ (r \in failed' <=> r \in failed)
    BY <1>1 DEF Given
  <2> QED
    BY <1>1, <2>1 DEF Status
<1>6. PICK next \in {"connect", "dropped"} : \A r \in S : Status'[r] = next
  <2>1. <<a>> # <<>>
    OBVIOUS
  <2>2. \/ \A r \in S : told'[r] = <<a>>
        \/ \A r \in S : told'[r] = <<>> /\ r \in failed'
    BY <1>1, <1>3 DEF Given
  <2> QED
    BY <1>2, <2>1, <2>2, StatusOfNext
<1>7. Status' = [r \in Requests |-> IF r \in S THEN next ELSE Status[r]]
  BY <1>2, <1>5, <1>6, StatusOfNext
<1>8. CASE S = {}
  BY <1>5, <1>8, StatusOf, StatusOfNext
<1>9. CASE S # {}
  BY <1>2, <1>4, <1>7, <1>9 DEF L!LookupNext, L!Settle
<1> QED
  BY <1>8, <1>9

(* The resolver keeps what Lookup promises a fetch: it is sent on once, or *)
(* dropped for good, or it waits, also when ids come round                 *)
(* (Dns.cpp:53-190).                                                       *)
THEOREM ImplementsLookup == Spec => IsLookup
<1>1. Init => L!LookupInit
  BY DEF Init, L!LookupInit, Status
<1>2. IInv /\ [Next]_vars => [L!LookupNext]_Status
  <2> SUFFICES ASSUME IInv, [Next]_vars
               PROVE  L!LookupNext \/ UNCHANGED Status
    OBVIOUS
  <2>1. ASSUME NEW r \in Requests, NEW h \in Hosts, AddFetchAAAARequest(r, h)
        PROVE  L!LookupNext
    <3>1. Asks(r, h)
      BY <2>1 DEF AddFetchAAAARequest, AskStatic, AskMerge, AskCached,
                  AskRefused, AskSent, AskNotSent
    <3>2. CASE AskMerge(r, h) \/ AskSent(r, h)
      <4>1. UNCHANGED <<told, failed>>
        BY <3>2 DEF AskMerge, AskSent
      <4> QED
        BY <3>1, <4>1, AskStatus DEF L!LookupNext
    <3>3. CASE \/ AskStatic(r, h) \/ AskCached(r, h)
               \/ AskRefused(r, h) \/ AskNotSent(r, h)
      <4>1. \E a : Given({r}, a)
        BY <3>3, AskDoneShape DEF AskDone, IInv
      <4> QED
        BY <3>1, <4>1, AskStatus DEF L!LookupNext
    <3> QED
      BY <2>1, <3>2, <3>3 DEF AddFetchAAAARequest
  <2>2. ASSUME NEW id \in Ids, NEW g \in Hosts, ParseEvent(id, g)
        PROVE  L!LookupNext \/ UNCHANGED Status
    <3>1. CASE AnswerUnusable(id, g)
      BY <3>1, SameStatus DEF AnswerUnusable, clients
    <3>2. CASE AnswerRight(id, g) \/ AnswerWrong(id, g) \/ AnswerFails(id, g)
      BY <3>2, AnswerDoneShape, AnswerStatus DEF IInv
    <3> QED
      BY <2>2, <3>1, <3>2 DEF ParseEvent
  <2>3. CASE Tick \/ UNCHANGED vars
    BY <2>3, SameStatus DEF Tick, vars, clients
  <2> QED
    BY <2>1, <2>2, <2>3 DEF Next
<1> QED
  BY <1>1, <1>2, Invariance, PTL DEF Spec, IsLookup, L!LookupSpec
=============================================================================
