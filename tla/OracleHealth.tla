---------------------------- MODULE OracleHealth ----------------------------
(***************************************************************************)
(* The health of one oracle endpoint (oracle/fetch.ts): after a number of  *)
(* consecutive failures requests are skipped for the time of the cool-off. *)
(* The orders of a batch ask at once, so requests that are in flight when  *)
(* a cool-off begins are still answered, and counted, in any order.        *)
(***************************************************************************)
EXTENDS Integers

CONSTANTS
    Quotes,             \* quotes that may have a request in flight
    COOLOFF_THRESHOLD,
    COOLOFF_DURATION,   \* in ticks
    ORACLE_TIMEOUT      \* in ticks: a request is answered or fails in it

ASSUME OracleAssumption ==
    /\ COOLOFF_THRESHOLD \in Nat \ {0}
    /\ COOLOFF_DURATION \in Nat \ {0}
    /\ ORACLE_TIMEOUT \in Nat

VARIABLES
    consecutiveFailures, \* counted to one beyond the threshold
    cooloffUntil,       \* ticks until then, or NoCooloff
    request,            \* age of each quote's request, or NoRequest
    skipped             \* history: quotes whose last request was skipped

oracleVars == <<consecutiveFailures, cooloffUntil, request, skipped>>

NoCooloff == -1
NoRequest == -1

OracleInit ==
    /\ consecutiveFailures = 0 /\ cooloffUntil = NoCooloff
    /\ request = [q \in Quotes |-> NoRequest]
    /\ skipped = {}

isInCooloff == cooloffUntil > 0
-----------------------------------------------------------------------------
\* Seeded fault: a success resets the counter and leaves the cool-off.
BugKeepsCooloff ==
    /\ consecutiveFailures' = 0
    /\ UNCHANGED cooloffUntil

-----------------------------------------------------------------------------
\* fetchSignedContext while isInCooloff.
skipRequest(q) ==
    /\ isInCooloff
    /\ skipped' = skipped \union {q}
    /\ UNCHANGED <<consecutiveFailures, cooloffUntil, request>>

\* fetchSignedContext otherwise: isInCooloff clears a cool-off that is over.
sendRequest(q) ==
    /\ ~isInCooloff
    /\ cooloffUntil' = NoCooloff
    /\ request' = [request EXCEPT ![q] = 0]
    /\ skipped' = skipped \ {q}
    /\ UNCHANGED consecutiveFailures

fetchSignedContext(q) ==
    /\ request[q] = NoRequest
    /\ skipRequest(q) \/ sendRequest(q)

recordOracleSuccess ==
    /\ consecutiveFailures' = 0
    /\ cooloffUntil' = NoCooloff

recordOracleFailure ==
    /\ consecutiveFailures' = IF consecutiveFailures > COOLOFF_THRESHOLD
                                THEN consecutiveFailures ELSE consecutiveFailures + 1
    /\ cooloffUntil' = IF consecutiveFailures' >= COOLOFF_THRESHOLD
                         THEN COOLOFF_DURATION ELSE cooloffUntil

\* A valid list is a success; anything else, errors and the timeout, is not.
answered(q) ==
    /\ request[q] # NoRequest
    /\ request' = [request EXCEPT ![q] = NoRequest]
    /\ recordOracleSuccess \/ recordOracleFailure
    /\ UNCHANGED skipped

oracleTick ==
    /\ \A q \in Quotes : request[q] < ORACLE_TIMEOUT
    /\ request' = [q \in Quotes |->
                     IF request[q] = NoRequest THEN NoRequest ELSE request[q] + 1]
    /\ cooloffUntil' = IF cooloffUntil > 0 THEN cooloffUntil - 1 ELSE cooloffUntil
    /\ UNCHANGED <<consecutiveFailures, skipped>>

OracleNext ==
    \/ \E q \in Quotes : fetchSignedContext(q) \/ answered(q)
    \/ oracleTick

OracleSpec == OracleInit /\ [][OracleNext]_oracleVars

\* Requests are answered and time goes on; nobody has to ask.
oracleProgress == (\E q \in Quotes : answered(q)) \/ oracleTick
OracleFairSpec == OracleSpec /\ WF_oracleVars(oracleProgress)
-----------------------------------------------------------------------------
(***************************************************************************)
(* Properties                                                              *)
(***************************************************************************)

OracleType ==
    /\ consecutiveFailures \in 0 .. COOLOFF_THRESHOLD + 1
    /\ cooloffUntil \in NoCooloff .. COOLOFF_DURATION
    /\ request \in [Quotes -> NoRequest .. ORACLE_TIMEOUT]
    /\ skipped \subseteq Quotes

\* A cool-off has its failures: an endpoint whose last answer was good is not
\* left alone (recordOracleSuccess, recordOracleFailure), late answers or not.
CooloffEarned ==
    cooloffUntil # NoCooloff => consecutiveFailures >= COOLOFF_THRESHOLD

\* "Consecutive failures before entering cooloff" (oracle/types.ts:11): a
\* cool-off begins with the third failure since the last one was over.
ThresholdPerCooloff ==
    [][~isInCooloff /\ isInCooloff' => consecutiveFailures < COOLOFF_THRESHOLD]_oracleVars
=============================================================================
