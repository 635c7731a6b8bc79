------------------------------- MODULE Lookup -------------------------------
(***************************************************************************)
(* What the resolver (Dns.cpp, DnsSeeker.cpp) promises a fetch: a Request  *)
(* that is handed to it is sent on to the connect once, or is dropped for  *)
(* good, or waits.  Requests that wait for one host are settled together.  *)
(* LiveStream sees the resolver of its fetches like this (AddFetch-        *)
(* AAAARequest and DnsAnswer there).                                       *)
(***************************************************************************)

CONSTANT Requests

VARIABLE status

LookupInit == status = [r \in Requests |-> "new"]

(* The Request is handed over. *)
Ask(r) ==
  /\ status[r] = "new"
  /\ \E next \in {"connect", "waiting", "dropped"} :
       status' = [status EXCEPT ![r] = next]

(* Some Requests that wait are answered or dropped. *)
Settle(S) ==
  /\ S # {}
  /\ \A r \in S : status[r] = "waiting"
  /\ \E next \in {"connect", "dropped"} :
       status' = [r \in Requests |-> IF r \in S THEN next ELSE status[r]]

LookupNext ==
  \/ \E r \in Requests : Ask(r)
  \/ \E S \in SUBSET Requests : Settle(S)

LookupSpec == LookupInit /\ [][LookupNext]_status
=============================================================================
