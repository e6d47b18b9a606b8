------------------------------ MODULE RpcState ------------------------------
(***************************************************************************)
(* Which RPC node a request goes to (rpc/): nextRpc picks one by its rate  *)
(* of success, the transport retries on the same node and then once with   *)
(* another pick, and the fetch hooks keep a buffer of the latest outcomes  *)
(* per node.  Requests are concurrent and share lastUsedRpcIndex.          *)
(*                                                                         *)
(* The random pick is any pick with a positive rate.  The counters of      *)
(* RpcMetrics, which are only reported, are left out.                      *)
(***************************************************************************)
EXTENDS Integers, Sequences, FiniteSets

CONSTANTS
    Rpcs,
    Requests,
    trackSize,
    selectionWeight,    \* of each node
    retryCount,         \* on the same node
    retryCountNext      \* with another pick

ASSUME RpcAssumption ==
    /\ Rpcs # {}
    /\ trackSize \in Nat
    /\ selectionWeight \in [Rpcs -> Nat]
    /\ retryCount \in Nat /\ retryCountNext \in Nat

VARIABLES
    buffer,         \* latest outcomes of each node, TRUE for a success
    success,        \* how many of them are successes
    lastUsedRpc,    \* lastUsedRpcIndex
    call,           \* where each request is
    loops           \* polling loops of nextRpc that outlived their timeout

rpcVars == <<buffer, success, lastUsedRpc, call, loops>>

CallSteps == {"idle", "polling", "picked", "sent", "retrying", "done", "failed"}
IdleCall == [at |-> "idle", next |-> 0, retries |-> 0, rpc |-> CHOOSE u \in Rpcs : TRUE]
MaxLoops == 1  \* bound: loops that outlive their timeout at a time

RpcInit ==
    /\ buffer = [u \in Rpcs |-> <<>>]
    /\ success = [u \in Rpcs |-> 0]
    /\ lastUsedRpc \in Rpcs
    /\ call = [r \in Requests |-> IdleCall]
    /\ loops = 0

successes(b) == {i \in DOMAIN b : b[i]}
ceilDiv(a, b) == (a + b - 1) \div b
successRate(u) ==
    IF buffer[u] = <<>> THEN 5000 ELSE ceilDiv(success[u] * 10000, Len(buffer[u]))
selectionRate(u) ==
    IF successRate(u) * selectionWeight[u] > 10 THEN successRate(u) * selectionWeight[u]
                                                ELSE 10
\* probablyPicksFrom: a pick falls into the range of any node that has one.
Picks == {v \in Rpcs : selectionRate(v) > 0}
-----------------------------------------------------------------------------
\* Seeded fault: the count keeps the success that is knocked out.
BugKeepsKnockedOut(u) ==
    /\ buffer' = [buffer EXCEPT ![u] = IF Len(@) < trackSize THEN Append(@, FALSE)
                                       ELSE Tail(Append(@, FALSE))]
    /\ UNCHANGED success

\* Seeded fault: the retry with the next node does not count down.
BugRetriesForEver(r) ==
    /\ call[r].next > 0
    /\ call' = [call EXCEPT ![r].at = "polling"]
-----------------------------------------------------------------------------
\* RpcProgress.recordRequest: a failure until the answer is there; the first
\* record is knocked out when there are too many.
recordRequest(u) ==
    LET longer == Append(buffer[u], FALSE)
        full == Len(buffer[u]) >= trackSize
    IN /\ buffer' = [buffer EXCEPT ![u] = IF full THEN Tail(longer) ELSE longer]
       /\ success' = [success EXCEPT ![u] = IF full /\ longer[1] THEN @ - 1 ELSE @]

\* RpcProgress.recordSuccess: the latest failure becomes a success, whichever
\* request it is the record of.
recordSuccess(u) ==
    LET failures == DOMAIN buffer[u] \ successes(buffer[u])
        latest == CHOOSE i \in failures : \A j \in failures : j <= i
    IN IF failures = {} THEN UNCHANGED <<buffer, success>>
       ELSE /\ buffer' = [buffer EXCEPT ![u][latest] = TRUE]
            /\ success' = [success EXCEPT ![u] = @ + 1]

\* The transport's request.
startRequest(r) ==
    /\ call[r].at \in {"idle", "done", "failed"}
    /\ call' = [call EXCEPT ![r].at = "polling", ![r].next = retryCountNext]
    /\ UNCHANGED <<buffer, success, lastUsedRpc, loops>>

\* nextRpc: any node that has a range to fall into.
nextRpc(r) ==
    /\ call[r].at = "polling"
    /\ \E u \in Picks :
         /\ lastUsedRpc' = u
         /\ call' = [call EXCEPT ![r].at = "picked", ![r].rpc = u]
    /\ UNCHANGED <<buffer, success, loops>>

\* The catch of req: again with the next node, or the error is thrown.
tryNext(r) ==
    /\ call[r].next > 0
    /\ call' = [call EXCEPT ![r] = [IdleCall EXCEPT !.at = "polling", !.next = call[r].next - 1]]

\* Nothing of a request is kept when it is over.
over(r, at) == call' = [call EXCEPT ![r] = [IdleCall EXCEPT !.at = at]]
throws(r) == over(r, "failed")

giveUp(r) ==
    /\ call[r].next = 0
    /\ throws(r)

\* No pick fell into a range until the timeout; the loop goes on.
nextRpcTimesOut(r) ==
    /\ call[r].at = "polling"
    /\ loops < MaxLoops /\ loops' = loops + 1
    /\ tryNext(r) \/ giveUp(r)
    /\ UNCHANGED <<buffer, success, lastUsedRpc>>

\* Some time it picks, for nobody.
loopPicks ==
    /\ loops > 0 /\ loops' = loops - 1
    /\ lastUsedRpc' \in Picks
    /\ UNCHANGED <<buffer, success, call>>

\* After the await: the retries depend on the rate of the node last used.
resolvedRetryCount(r) ==
    IF call[r].next > 0 /\ successRate(lastUsedRpc) > 2000 THEN retryCount ELSE 0

send(r) ==
    /\ call[r].at = "picked"
    /\ call' = [call EXCEPT ![r].at = "sent", ![r].retries = resolvedRetryCount(r)]
    /\ recordRequest(call[r].rpc)
    /\ UNCHANGED <<lastUsedRpc, loops>>

\* onFetchResponse records a success for a result and for an error of the call
\* itself (shouldThrow); a failure it has already.  The client returns a
\* result, throws an error that shouldThrow, and else tries again: on the same
\* node while it has retries, whatever was recorded, or with the next one.
returns(r) ==
    /\ recordSuccess(call[r].rpc)
    /\ over(r, "done")

retrySame(r) ==
    /\ call[r].retries > 0
    /\ call' = [call EXCEPT ![r].at = "retrying", ![r].retries = @ - 1]

settled(r) ==
    /\ call[r].at = "sent"
    /\ \/ returns(r)
       \/ /\ throws(r) \/ retrySame(r) \/ tryNext(r)
          /\ recordSuccess(call[r].rpc) \/ UNCHANGED <<buffer, success>>
    /\ UNCHANGED <<lastUsedRpc, loops>>

resend(r) ==
    /\ call[r].at = "retrying"
    /\ call' = [call EXCEPT ![r].at = "sent"]
    /\ recordRequest(call[r].rpc)
    /\ UNCHANGED <<lastUsedRpc, loops>>

goOn(r) ==
    \/ nextRpc(r) \/ nextRpcTimesOut(r) \/ send(r)
    \/ settled(r) \/ resend(r)

RpcNext ==
    \/ \E r \in Requests : startRequest(r) \/ goOn(r)
    \/ loopPicks

RpcSpec == RpcInit /\ [][RpcNext]_rpcVars

\* Polling and requests have timeouts.
RpcFairSpec == RpcSpec /\ \A r \in Requests : WF_rpcVars(goOn(r))
-----------------------------------------------------------------------------
(***************************************************************************)
(* Properties                                                              *)
(***************************************************************************)

RpcType ==
    /\ buffer \in [Rpcs -> Seq(BOOLEAN)]
    /\ success \in [Rpcs -> Nat]
    /\ lastUsedRpc \in Rpcs
    /\ call \in [Requests -> [at : CallSteps, next : 0 .. retryCountNext,
                              retries : 0 .. retryCount, rpc : Rpcs]]
    /\ loops \in 0 .. MaxLoops

\* The count that the rates are made of is that of the buffer, which holds
\* the latest trackSize records, whatever was knocked out before its answer
\* came (recordRequest, recordSuccess).
SuccessMatchesBuffer ==
    \A u \in Rpcs :
        /\ success[u] = Cardinality(successes(buffer[u]))
        /\ Len(buffer[u]) <= trackSize

\* A request concludes, with an answer or an error, whatever the nodes do
\* (request of the transport: two levels of retries and their timeouts).
RequestConcludes ==
    \A r \in Requests : call[r].at = "polling" ~> call[r].at \in {"done", "failed"}

\* The inner retry is cancelled "when success rate is below 20% threshold"
\* (rpc/transport.ts:102): that of the node the request goes to.
RetriesOnlyGoodRpc ==
    [][\A r \in Requests :
         call[r].at = "picked" /\ call'[r].retries > 0 /\ call'[r].at = "sent"
           => successRate(call[r].rpc) > 2000]_rpcVars
=============================================================================
