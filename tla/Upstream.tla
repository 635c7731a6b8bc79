------------------------------ MODULE Upstream ------------------------------
(***************************************************************************)
(* The connections to the origins: HttpClient, or HttpsClient if use_ssl.  *)
(* What each fetch allocates and opens, which of its ways out releases     *)
(* what, whether the clients that wait are told, and which calls hold the  *)
(* only thread: connect in both clients, and with TLS also SSL_connect and *)
(* SSL_read, which is called when the nop of PostRequest completes,        *)
(* whether or not the origin has sent anything.                            *)
(*                                                                         *)
(* Scope: every fetch is for a Mux of its own, which is there, so that     *)
(* telling it does not throw; what it is told is LiveStream's and          *)
(* CachedResource's.                                                       *)
(***************************************************************************)
EXTENDS Naturals

CONSTANT
  Fetches   \* the fetches that the resolver has handed over

ASSUME FetchAssumption == "loop" \notin Fetches

VARIABLES
  use_ssl,  \* Settings::UseSSL, which is set when the process starts
  fetch,    \* a fetch: what it holds, and what it does
  thread,   \* the fetch in whose blocking call the thread is, or "loop"
  lost      \* history: how things that a fetch held were lost

vars == <<use_ssl, fetch, thread, lost>>

-----------------------------------------------------------------------------
(* An operator whose name is a definition's and a suffix is a MUTANT: the  *)
(* definition with the bug that its comment names.                         *)

(* state   "waiting" for HTTP_FETCH or the timer of Retry, "connect" and   *)
(*         "handshake" in these calls, "header" and "content" from one     *)
(*         HTTP_READ event to the next, "ended";                           *)
(* inner   the Request of the lookup, http that of the connection;         *)
(* sock    the socket, tls the SSL and its SSL_CTX;                        *)
(* ready   the next completion is in the ring;                             *)
(* told    the Mux was told how the fetch ended.                           *)
NewFetch ==
  [state |-> "waiting", inner |-> "held", http |-> "none", sock |-> "none",
   tls |-> "none", ready |-> TRUE, told |-> FALSE]

Init ==
  /\ use_ssl \in BOOLEAN
  /\ fetch = [f \in Fetches |-> NewFetch]
  /\ thread = "loop"
  /\ lost = {}

Is(f, state) == fetch[f].state = state
Step(f, x, who) == fetch' = [fetch EXCEPT ![f] = x] /\ thread' = who

(* Mutant: the socket stays open. *)
CloseSSL_Socket(x) == [x EXCEPT !.tls = "freed"]

(* CloseSSL, or close *)
CloseSSL(x) ==
  [x EXCEPT !.tls = IF use_ssl THEN "freed" ELSE @,
            !.sock = IF @ = "open" THEN "closed" ELSE @]

(* HandleFetchRequest fails: the Mux is told; HttpClient has the engine    *)
(* release the inner Request, HttpsClient does not.                        *)
FetchFailed(x) ==
  [x EXCEPT !.state = "ended", !.ready = FALSE, !.told = TRUE,
            !.inner = IF use_ssl THEN @ ELSE "freed"]

Loses(what) == lost' = lost \cup what
LosesInner == Loses(IF use_ssl THEN {"inner"} ELSE {})

-----------------------------------------------------------------------------
(* HTTP_FETCH and HTTP_FETCH_IPV4: HandleFetchRequest up to connect. *)

(* SSL_CTX_new or SSL_new fails; CloseSSL frees what there is. *)
NoContext(f) ==
  /\ thread = "loop" /\ Is(f, "waiting") /\ use_ssl
  /\ Step(f, FetchFailed(fetch[f]), "loop")
  /\ LosesInner

(* socket() fails; the SSL and its context are not freed. *)
NoSocket(f) ==
  /\ thread = "loop" /\ Is(f, "waiting")
  /\ Step(f, [FetchFailed(fetch[f]) EXCEPT
                !.tls = IF use_ssl THEN "held" ELSE @], "loop")
  /\ Loses(IF use_ssl THEN {"inner", "tls"} ELSE {})

Connects(f) ==
  /\ thread = "loop" /\ Is(f, "waiting")
  /\ Step(f, [fetch[f] EXCEPT !.state = "connect", !.sock = "open",
                !.ready = FALSE, !.tls = IF use_ssl THEN "held" ELSE @], f)
  /\ UNCHANGED lost

Refused(f) ==
  /\ Is(f, "connect")
  /\ Step(f, FetchFailed(CloseSSL(fetch[f])), "loop")
  /\ LosesInner

(* Retry, at EAGAIN: the same Request comes back after 200 msecs.          *)
Retry(f) ==
  /\ Is(f, "connect") /\ ~use_ssl
  /\ Step(f, [CloseSSL(fetch[f]) EXCEPT !.state = "waiting", !.ready = TRUE],
          "loop")
  /\ UNCHANGED lost

(* send fails: the socket is not closed. *)
SendFails(f) ==
  /\ Is(f, "connect") /\ ~use_ssl
  /\ Step(f, FetchFailed(fetch[f]), "loop")
  /\ Loses({"sock"})

(* The request is sent, and the connection has a Request of its own.       *)
(* HttpClient submits a read; the nop of HttpsClient completes at once.    *)
Sent(x) ==
  [x EXCEPT !.state = "header", !.http = "held", !.inner = "freed",
            !.ready = use_ssl]

RequestSent(f) ==
  /\ Is(f, "connect") /\ ~use_ssl
  /\ Step(f, Sent(fetch[f]), "loop")
  /\ UNCHANGED lost

(* SSL_connect, after connect; then it, or SSL_write, fails.               *)
Handshakes(f) ==
  /\ Is(f, "connect") /\ use_ssl
  /\ Step(f, [fetch[f] EXCEPT !.state = "handshake"], f)
  /\ UNCHANGED lost

HandshakeFails(f) ==
  /\ Is(f, "handshake")
  /\ Step(f, FetchFailed(CloseSSL(fetch[f])), "loop")
  /\ LosesInner

HandshakeDone(f) ==
  /\ Is(f, "handshake")
  /\ Step(f, Sent(fetch[f]), "loop")
  /\ UNCHANGED lost

-----------------------------------------------------------------------------
(* HTTP_READ_HEADER and HTTP_READ_CONTENT. *)

Reading(f) == fetch[f].state \in {"header", "content"}

(* The read of a plain connection completes: data, its end or an error.    *)
OriginSends(f) ==
  /\ ~use_ssl /\ Reading(f) /\ ~fetch[f].ready
  /\ fetch' = [fetch EXCEPT ![f].ready = TRUE]
  /\ UNCHANGED <<thread, lost>>

(* The handler is called; PreRequest of HttpsClient enters SSL_read.       *)
PreRequest(f) ==
  /\ thread = "loop" /\ Reading(f) /\ fetch[f].ready
  /\ Step(f, [fetch[f] EXCEPT !.ready = FALSE], f)
  /\ UNCHANGED lost

(* Data, that is appended or notified: PostRequest. *)
DataRead(f) ==
  /\ thread = f /\ Reading(f)
  /\ Step(f, [fetch[f] EXCEPT !.state = "content", !.ready = use_ssl], "loop")
  /\ UNCHANGED lost

ReleaseSocket(x) == [CloseSSL(x) EXCEPT !.state = "ended", !.http = "freed"]

(* Mutant: the handler waits for the origin to close, too. *)
ReadEnds_Wait(f) ==
  /\ thread = f /\ Reading(f)
  /\ Step(f, [ReleaseSocket(fetch[f]) EXCEPT !.told = TRUE], f)
  /\ UNCHANGED lost

(* readed <= 0, or NotifyStream has no clients: the Mux is told, or gone.  *)
ReadEnds(f) ==
  /\ thread = f /\ Reading(f)
  /\ Step(f, [ReleaseSocket(fetch[f]) EXCEPT !.told = TRUE], "loop")
  /\ UNCHANGED lost

-----------------------------------------------------------------------------
ConnectEnds(f) ==
  Refused(f) \/ Retry(f) \/ SendFails(f) \/ RequestSent(f) \/ Handshakes(f)

HandshakeEnds(f) == HandshakeFails(f) \/ HandshakeDone(f)

FetchBegins(f) == NoContext(f) \/ NoSocket(f) \/ Connects(f)

ReadCompletes(f) == DataRead(f) \/ ReadEnds(f)

Next ==
  /\ \E f \in Fetches :
       \/ FetchBegins(f) \/ ConnectEnds(f) \/ HandshakeEnds(f)
       \/ OriginSends(f) \/ PreRequest(f) \/ ReadCompletes(f)
  /\ UNCHANGED use_ssl

Spec == Init /\ [][Next]_vars

(* The loop takes every completion, in the order in which they come; a     *)
(* connect ends, if only by the kernel's timeout; a plain read has data    *)
(* when its handler is called, and an origin of HttpsClient shakes hands   *)
(* and sends in the end.  That a plain origin sends is not assumed.        *)
Fairness ==
  \A f \in Fetches :
    /\ SF_vars(FetchBegins(f) /\ UNCHANGED use_ssl)
    /\ SF_vars(PreRequest(f) /\ UNCHANGED use_ssl)
    /\ WF_vars((ConnectEnds(f) \/ HandshakeEnds(f) \/ ReadCompletes(f))
                 /\ UNCHANGED use_ssl)

FairSpec == Spec /\ Fairness

-----------------------------------------------------------------------------
(* The types; and a fetch in a blocking call holds the thread, so that no  *)
(* two are (HttpClient.cpp:42, HttpsClient.cpp:53, 78).                    *)
TypeOK ==
  /\ use_ssl \in BOOLEAN
  /\ \A f \in Fetches :
       /\ fetch[f].state \in {"waiting", "connect", "handshake", "header",
                              "content", "ended"}
       /\ {fetch[f].inner, fetch[f].http, fetch[f].tls}
            \subseteq {"none", "held", "freed"}
       /\ fetch[f].sock \in {"none", "open", "closed"}
       /\ {fetch[f].ready, fetch[f].told} \subseteq BOOLEAN
       /\ fetch[f].state \in {"connect", "handshake"} => thread = f
  /\ thread \in Fetches \cup {"loop"}
  /\ lost \subseteq {"inner", "tls", "sock"}

(* A completion that comes meets a Request that was not freed, and a       *)
(* connection that is read has not been closed (Engine.cpp:357-366,        *)
(* HttpClient.cpp:62-73, 114-117).                                         *)
NothingUsedAfterFree ==
  \A f \in Fetches :
    /\ fetch[f].state \in {"waiting", "connect", "handshake"} =>
         fetch[f].inner = "held"
    /\ Reading(f) => /\ fetch[f].http = "held" /\ fetch[f].sock = "open"
                     /\ use_ssl => fetch[f].tls = "held"

(* However a fetch ends, the clients that wait for it are told             *)
(* (HttpClient.cpp:55-86, HttpsClient.cpp:29-97, Http.cpp:95-105, 138-153).*)
ToldAtEnd == \A f \in Fetches : Is(f, "ended") => fetch[f].told

(* A fetch that has ended holds nothing any more, but for what three of    *)
(* the ways out lose: a send that fails its socket, a failure of           *)
(* HttpsClient the inner Request and one of socket() its SSL and context.  *)
EndedHoldsNothing ==
  \A f \in Fetches :
    Is(f, "ended") =>
      /\ fetch[f].sock = "open" => "sock" \in lost
      /\ fetch[f].tls = "held" => "tls" \in lost
      /\ fetch[f].inner = "held" => "inner" \in lost
      /\ fetch[f].http # "held"

(* A fetch has what it uses, and ends with nothing but an answer.          *)
HoldsWhatItUses ==
  TypeOK /\ NothingUsedAfterFree /\ ToldAtEnd /\ EndedHoldsNothing

(* Every completion in the ring is handled, whatever the other fetches'    *)
(* origins do: with TLS only if none of them is silent for ever            *)
(* (HttpClient.cpp:106-110, HttpsClient.cpp:78, 109-114, 159).             *)
CompletionsHandled ==
  \A f \in Fetches : fetch[f].ready ~> (thread = f \/ Is(f, "ended"))
=============================================================================
