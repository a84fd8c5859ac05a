----------------------------- MODULE RpcFailover ----------------------------
(***************************************************************************)
(* The RPC connection every server route and script uses                   *)
(* (vsol/sdk/rpc-failover): one JSON-RPC request is tried at each endpoint *)
(* in turn, endpoints that failed recently last, and confirmTransaction is *)
(* a loop of such requests over HTTP.                                      *)
(*                                                                         *)
(* One transaction is sent and confirmed at commitment "confirmed".  The   *)
(* cluster is external: a delivered transaction may land while the block   *)
(* height is below the last valid one, a processed one may be confirmed or *)
(* dropped with its fork, and every endpoint answers from a snapshot of    *)
(* the cluster that may lag.  Cooldowns are sets an endpoint (or a method  *)
(* at an endpoint) is in; they end when they like.                         *)
(***************************************************************************)
EXTENDS Naturals, Sequences

CONSTANTS
  endpoints,        \* the configured URLs, the primary first
  TierRestricted,   \* the methods some provider's plan does not serve
  LastValid,        \* lastValidBlockHeight of the transaction
  MaxHeight         \* bound on the cluster's block height

(* A primary is always configured (the manifest names one), and a height   *)
(* is a number.                                                            *)
ASSUME ConnectionAssumption ==
  /\ endpoints \in Seq({endpoints[n] : n \in DOMAIN endpoints}) /\ endpoints # <<>>
  /\ LastValid \in Nat

VARIABLES
  cluster,          \* what the cluster has decided
  view,             \* the snapshot each endpoint answers from
  cooling,          \* endpoints demoted for every method
  unavailable,      \* <<endpoint, method>>: demoted for one method
  request,          \* the JSON-RPC request under way
  confirmation      \* the caller: its strategy, its place in the loop, its outcome

rpcVars == <<cluster, view, cooling, unavailable, request, confirmation>>

Places == DOMAIN endpoints
Urls == {endpoints[n] : n \in Places}
Unknown == "unknown"

NoRequest == [method |-> "none", preferred |-> {}, untried |-> {}, reading |-> FALSE]
IsBusy == request # NoRequest
IsOver == confirmation.at \notin {"send", "status", "height", "recheck"}

RpcInit ==
  /\ cluster = [height |-> 0, delivered |-> FALSE, status |-> Unknown, err |-> FALSE]
  /\ view = [url \in Urls |-> [height |-> 0, status |-> Unknown, err |-> FALSE]]
  /\ cooling = {}
  /\ unavailable = {}
  /\ request = NoRequest
  /\ \E strategy \in {"blockhash", "timeout"} :
       confirmation = [at |-> "send", strategy |-> strategy, late |-> FALSE,
                       heightFrom |-> endpoints[1], statusFrom |-> endpoints[1]]

----------------------------------------------------------------------------
(* The cluster and the endpoints' view of it.                              *)

\* The confirmed block height grows.
NewBlock ==
  /\ cluster.height < MaxHeight
  /\ cluster' = [cluster EXCEPT !.height = @ + 1]
  /\ UNCHANGED <<view, cooling, unavailable, request, confirmation>>

\* A delivered transaction is processed in a block its blockhash allows.
Land(err) ==
  /\ cluster.delivered /\ cluster.status = Unknown /\ cluster.height < LastValid
  /\ cluster' = [cluster EXCEPT !.status = "processed", !.err = err]
  /\ UNCHANGED <<view, cooling, unavailable, request, confirmation>>

\* The fork it was processed in is confirmed, or dropped.
Decide(confirmed) ==
  /\ cluster.status = "processed"
  /\ cluster' = IF confirmed THEN [cluster EXCEPT !.status = "confirmed"]
                             ELSE [cluster EXCEPT !.status = Unknown, !.err = FALSE]
  /\ UNCHANGED <<view, cooling, unavailable, request, confirmation>>

CatchUp(url) ==
  /\ ~IsOver
  /\ view' = [view EXCEPT ![url] = [height |-> cluster.height, status |-> cluster.status,
                                    err |-> cluster.err]]
  /\ UNCHANGED <<cluster, cooling, unavailable, request, confirmation>>

\* Cooldowns are read when a request is ordered, so they end between requests.
CooldownEnds ==
  /\ ~IsBusy /\ ~IsOver
  /\ \/ \E url \in cooling : cooling' = cooling \ {url} /\ UNCHANGED unavailable
     \/ \E entry \in unavailable : unavailable' = unavailable \ {entry} /\ UNCHANGED cooling
  /\ UNCHANGED <<cluster, view, request, confirmation>>

----------------------------------------------------------------------------
(* One request over the endpoints (fetch.ts).                              *)

isEndpointCoolingDown(url) == url \in cooling
isMethodUnavailable(url, method) == <<url, method>> \in unavailable

\* The order of the attempts, fixed when the request begins: the preferred
\* places of the list in their order, then the others in theirs.
computeAttemptOrder(method) ==
  [method    |-> method,
   preferred |-> {n \in Places : /\ ~isEndpointCoolingDown(endpoints[n])
                                 /\ ~isMethodUnavailable(endpoints[n], method)},
   untried   |-> Places,
   reading   |-> FALSE]

First(places) == CHOOSE n \in places : \A m \in places : n <= m

\* The place whose turn it is.
Turn == LET preferred == request.untried \intersect request.preferred
        IN First(IF preferred # {} THEN preferred ELSE request.untried)

\* What an endpoint's answer is taken for: a network error, a timeout, HTTP 429
\* or 5xx, and a quota error ("transient") demote the endpoint, a method it does
\* not serve demotes it for that method; any other response goes to the caller.
Faults == {"transient", "method-unavailable"}

recordEndpointFailure(url) == cooling' = cooling \union {url} /\ UNCHANGED unavailable
recordMethodUnavailable(url, method) ==
  unavailable' = unavailable \union {<<url, method>>} /\ UNCHANGED cooling

Ask(method) == request' = computeAttemptOrder(method)

----------------------------------------------------------------------------
(* The caller (confirm.ts).                                                *)

Proceed(step) == confirmation' = [confirmation EXCEPT !.at = step]

EndOfPass_NoCeiling(c, expired) ==
  [c EXCEPT !.at = IF c.late /\ expired = "timeout" THEN expired ELSE "status",
            !.heightFrom = endpoints[1]] \* mutant: the height is the only way out

\* Past the ceiling, or the legacy timeout, at the end of a pass of the loop.
EndOfPass(c, expired) ==
  [c EXCEPT !.at = IF c.late THEN expired ELSE "status", !.heightFrom = endpoints[1]]

\* The endpoint answered the status query: a failed transaction is thrown, one
\* that reached the commitment returned; otherwise the pass goes on.
OnStatus(seen) ==
  confirmation' =
    IF seen.status # Unknown /\ seen.err THEN [confirmation EXCEPT !.at = "failed"]
    ELSE IF seen.status = "confirmed" THEN [confirmation EXCEPT !.at = "confirmed"]
    ELSE IF confirmation.strategy = "blockhash" THEN [confirmation EXCEPT !.at = "height"]
    ELSE EndOfPass(confirmation, "timeout")

OnHeight_NoSecondLook(seen, url) ==
  confirmation' =
    IF seen.height > LastValid
    THEN [confirmation EXCEPT !.at = "expired", !.heightFrom = url, !.statusFrom = url]
    ELSE EndOfPass(confirmation, "ceiling") \* mutant: expired by the height alone

\* The height is past the last valid one: ask for the status once more.
OnHeight(seen, url) ==
  confirmation' =
    IF seen.height > LastValid
    THEN [confirmation EXCEPT !.at = "recheck", !.heightFrom = url]
    ELSE EndOfPass(confirmation, "ceiling")

OnRecheck(seen, url) ==
  confirmation' =
    IF seen.status = Unknown \/ seen.err
    THEN [confirmation EXCEPT !.at = "expired", !.statusFrom = url]
    ELSE EndOfPass(confirmation, "ceiling")

\* A failed height query counts as height -1; any other failed request rejects.
OnFailure(method) ==
  confirmation' = IF method = "height" THEN EndOfPass(confirmation, "ceiling")
                                       ELSE [confirmation EXCEPT !.at = "rejected"]

Request ==
  /\ ~IsBusy /\ ~IsOver
  /\ Ask(IF confirmation.at = "recheck" THEN "status" ELSE confirmation.at)
  /\ UNCHANGED <<cluster, view, cooling, unavailable, confirmation>>

\* The headers of the endpoint's response arrive: the attempt's timer is
\* cleared, and the body is read without one.
HeadersArrive ==
  /\ IsBusy /\ ~request.reading
  /\ request' = [request EXCEPT !.reading = TRUE]
  /\ \E reached \in BOOLEAN :
       /\ reached => request.method = "send"
       /\ cluster' = [cluster EXCEPT !.delivered = @ \/ reached]
  /\ UNCHANGED <<view, cooling, unavailable, confirmation>>

\* The endpoint fails, is demoted, and the next one is tried; after the last
\* the caller gets the failure.  Before the headers it is the network, the
\* timer or an HTTP status (and a send may have been delivered all the same);
\* what the endpoint says of its quota or its plan stands in the body.
AttemptFails(fault) ==
  LET url == endpoints[Turn]
  IN /\ IsBusy
     /\ fault = "method-unavailable" => request.reading /\ request.method \in TierRestricted
     /\ IF fault = "method-unavailable"
        THEN recordMethodUnavailable(url, request.method)
        ELSE recordEndpointFailure(url)
     /\ \E reached \in BOOLEAN :
          /\ reached => request.method = "send" /\ ~request.reading
          /\ cluster' = [cluster EXCEPT !.delivered = @ \/ reached]
     /\ IF request.untried # {Turn}
        THEN /\ request' = [request EXCEPT !.untried = @ \ {Turn}, !.reading = FALSE]
             /\ UNCHANGED confirmation
        ELSE /\ request' = NoRequest
             /\ OnFailure(request.method)
     /\ UNCHANGED view

\* The body is read: the endpoint answered from its snapshot.
AttemptAnswers ==
  LET url == endpoints[Turn]
      seen == view[url]
  IN /\ IsBusy /\ request.reading
     /\ request' = NoRequest
     /\ cluster' = [cluster EXCEPT !.delivered = @ \/ request.method = "send"]
     /\ CASE confirmation.at = "send" -> Proceed("status")
          [] confirmation.at = "status" -> OnStatus(seen)
          [] confirmation.at = "height" -> OnHeight(seen, url)
          [] confirmation.at = "recheck" -> OnRecheck(seen, url)
     /\ UNCHANGED <<view, cooling, unavailable>>

\* The endpoint answers with an error about the request, or with a body that
\* is no answer: not masked by trying another endpoint.
AttemptRefused ==
  /\ IsBusy /\ request.reading
  /\ request' = NoRequest
  /\ OnFailure(request.method)
  /\ UNCHANGED <<cluster, view, cooling, unavailable>>

\* The ceiling (or the legacy timeout) passes.
Elapse ==
  /\ ~confirmation.late /\ ~IsOver /\ confirmation.at # "send"
  /\ confirmation' = [confirmation EXCEPT !.late = TRUE]
  /\ UNCHANGED <<cluster, view, cooling, unavailable, request>>

RpcNext ==
  \/ NewBlock \/ CooldownEnds \/ Request \/ HeadersArrive \/ AttemptAnswers \/ AttemptRefused
  \/ Elapse
  \/ \E err \in BOOLEAN : Land(err)
  \/ \E confirmed \in BOOLEAN : Decide(confirmed)
  \/ \E url \in Urls : CatchUp(url)
  \/ \E fault \in Faults : AttemptFails(fault)

\* What the attempt's timer covers, up to the headers: they arrive or it fails.
\* Nothing bounds the reading of a body, so no fairness is assumed of its end.
Timed == HeadersArrive \/ \E fault \in Faults : ~request.reading /\ AttemptFails(fault)
RpcFairness == WF_rpcVars(Request) /\ WF_rpcVars(Timed) /\ WF_rpcVars(Elapse)
RpcSpec == RpcInit /\ [][RpcNext]_rpcVars /\ RpcFairness

----------------------------------------------------------------------------
(* A transaction that landed is never called a failure by its block height,*)
(* and one reported confirmed landed without error (confirm.ts:180-207).   *)
(* "Expired" is about an answer of one endpoint: when the height came from *)
(* one endpoint and the status from another, the second may lag the first. *)
ReportsAreTrue ==
  /\ confirmation.at = "confirmed" => cluster.status = "confirmed" /\ ~cluster.err
  /\ confirmation.at = "expired" /\ confirmation.heightFrom = confirmation.statusFrom =>
       ~(cluster.status = "confirmed" /\ ~cluster.err)

(* What the code leaves to the endpoints: a response whose headers have    *)
(* arrived does not stay unread for ever (fetch.ts:54 clears the timer,    *)
(* and the reads of the body, at 99 and in web3.js, have none).            *)
BodiesEnd == []<>~request.reading

(* While bodies end, every confirmation ends, whatever the endpoints answer*)
(* and however often they fail or say nothing: the timer of an attempt     *)
(* (fetch.ts:43-56) and the ceiling on the loop (confirm.ts:170-175) are   *)
(* what silent endpoints, a failing height query and a transaction stuck   *)
(* at "processed" leave it.  Without BodiesEnd it is false: the ceiling is *)
(* compared with the clock between requests only (confirm.ts:208), so one  *)
(* body that never ends holds the confirmation past its ceiling for ever.  *)
ConfirmationsEnd ==
  BodiesEnd => (confirmation.at = "status" ~> IsOver)
=============================================================================
