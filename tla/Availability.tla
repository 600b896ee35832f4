------------------------------ MODULE Availability ------------------------------
(***************************************************************************)
(* CheckClientAvailability of the Elrond and of the Ethereum client, and   *)
(* the status handler (status/) that keeps and persists what it reports.   *)
(*                                                                         *)
(* The two state machines of a relayer share the clients and begin every   *)
(* round with a check of both.  A check holds the client's lock, asks the  *)
(* chain for its last block and sets three metrics, each under the status  *)
(* handler's own lock.  Other parts of the process use the same handler to *)
(* count their requests, and the process may be stopped at any moment.     *)
(* The state machine that sends transfers to Ethereum asks for the last    *)
(* block then too, without the client's lock, while the other one may be   *)
(* in a check.                                                             *)
(***************************************************************************)
EXTENDS Integers

CONSTANTS
    Chain,         \* the chain of the client, "Elrond" or "Ethereum"
    Callers,       \* the state machines that share the client
    Sender,        \* the one of them that sends transfers to Ethereum
    AllowDelta,    \* MaxNoncesDelta or MaxBlocksDelta of the configuration
    MaxBlock,      \* bound: blocks of the chain
    MaxRequests,   \* bound: requests to Ethereum that are told apart
    MaxRestarts    \* bound: restarts of the process

ASSUME ConstantsAssumption ==
    /\ Chain \in {"Elrond", "Ethereum"}
    /\ "nobody" \notin Callers
    /\ Sender \in Callers
    /\ AllowDelta \in Nat \ {0}
    /\ MaxBlock \in Nat /\ MaxRequests \in Nat /\ MaxRestarts \in Nat

VARIABLES
    mut,            \* the caller that holds the client's lock, or Nobody
    check,          \* of each caller: where its check is, and its locals
    nonceQuery,     \* the query of getNonce: where it is, and the block it read
    lastNonce,      \* of the client
    retriesAvailabilityCheck,
    intMetrics,     \* of the status handler
    stringMetrics,
    stored,         \* what the storer has under the name of the handler
    block,          \* the last block of the chain
    \* history
    latest,         \* the last answer of the chain since the process started
    inARow,         \* how often in a row the same block was answered
    requests,       \* requests that were ever counted
    persisted,      \* the last Put succeeded
    intact,         \* no restart found the storer behind or not readable
    restarts

clientVars == <<mut, check, nonceQuery, lastNonce, retriesAvailabilityCheck>>
handlerVars == <<intMetrics, stringMetrics, stored, persisted>>
answerVars == <<latest, inARow>>
vars == <<mut, check, nonceQuery, lastNonce, retriesAvailabilityCheck, intMetrics, stringMetrics, stored,
          block, latest, inARow, requests, persisted, intact, restarts>>

Nobody == "nobody"
ClientStatus == {"Available", "Unavailable"}

\* The names of the metrics.  A metric that was not set is 0 or
\* Empty.
Empty == "empty"
MetricNumEthClientRequests == "num_ethereum_client_requests"
MetricLastQueriedEthereumBlockNumber == "ethereum_last_queried_block_number"
MetricLastBlockNonce == "last_block_nonce"
MetricElrondClientStatus == "elrond_client_status"
MetricLastElrondClientError == "elrond_client_last_encountered_error"

IntMetrics ==
    {MetricNumEthClientRequests, MetricLastQueriedEthereumBlockNumber, MetricLastBlockNonce}
StringMetrics == {MetricElrondClientStatus, MetricLastElrondClientError}

NoMetrics == [ints |-> [m \in IntMetrics |-> 0], strings |-> [m \in StringMetrics |-> Empty]]

Idle == [pc |-> "idle", status |-> Empty, message |-> Empty, nonce |-> 0]
NoQuery == [pc |-> "idle", block |-> 0]
NoAnswer == [asked |-> FALSE, ok |-> FALSE, block |-> -1]

\* Above the allowed delta the values of the counter are not told apart.
Count(n, limit) == IF n < limit THEN n + 1 ELSE limit

\* Nor are counts of requests above the bound.
Capped(n) == IF n < MaxRequests THEN n ELSE MaxRequests

Init ==
    /\ mut = Nobody /\ check = [c \in Callers |-> Idle] /\ nonceQuery = NoQuery
    /\ lastNonce = 0 /\ retriesAvailabilityCheck = 0
    /\ intMetrics = NoMetrics.ints /\ stringMetrics = NoMetrics.strings
    /\ stored = NoMetrics
    /\ block \in {0, 1}
    /\ latest = NoAnswer /\ inARow = 0
    /\ requests = 0 /\ persisted = TRUE /\ intact = TRUE /\ restarts = 0

--------------------------------------------------------------------------------
(***************************************************************************)
(* The status handler.  All the metrics above are persisted ones, so every *)
(* change writes all of them to the storer, which may fail, or accept the  *)
(* Put and lose it because the process ends before its batch is written.   *)
(***************************************************************************)
M_persistChanges ==
    \/ stored' = [ints |-> intMetrics, strings |-> stringMetrics] /\ persisted' = TRUE
    \/ stored' = stored /\ persisted' = FALSE
persistChanges ==
    \/ stored' = [ints |-> intMetrics', strings |-> stringMetrics'] /\ persisted' = TRUE
    \/ stored' = stored /\ persisted' = FALSE

SetIntMetric(metric, value) ==
    /\ intMetrics' = [intMetrics EXCEPT ![metric] = value]
    /\ UNCHANGED stringMetrics
    /\ persistChanges

AddIntMetric(metric, delta) ==
    /\ intMetrics' = [intMetrics EXCEPT ![metric] = Capped(@ + delta)]
    /\ UNCHANGED stringMetrics
    /\ persistChanges

SetStringMetric(metric, value) ==
    /\ stringMetrics' = [stringMetrics EXCEPT ![metric] = value]
    /\ UNCHANGED intMetrics
    /\ persistChanges

\* The constructor of the handler reads the storer, which may fail.
tryLoadPersistedData ==
    \E read \in {stored, NoMetrics} :
        /\ intMetrics' = read.ints /\ stringMetrics' = read.strings
        /\ intact' = (intact /\ persisted /\ read = stored)

--------------------------------------------------------------------------------
(***************************************************************************)
(* CheckClientAvailability.                                                *)
(***************************************************************************)
Goto(c, pc) == check' = [check EXCEPT ![c].pc = pc]

M_Lock(c) == TRUE
Lock(c) == mut = Nobody

CheckClientAvailability(c) ==
    /\ check[c].pc = "idle" /\ ~ (c = Sender /\ nonceQuery # NoQuery)
    /\ Lock(c)
    /\ mut' = c
    /\ Goto(c, IF Chain = "Ethereum" THEN "request" ELSE "query")
    /\ UNCHANGED <<nonceQuery, lastNonce, retriesAvailabilityCheck, handlerVars, block, answerVars,
                   requests, intact, restarts>>

\* BlockNumber of the Ethereum wrapper counts the request first.
CountRequest(c) ==
    /\ check[c].pc = "request"
    /\ AddIntMetric(MetricNumEthClientRequests, 1)
    /\ requests' = Capped(requests + 1)
    /\ Goto(c, "query")
    /\ UNCHANGED <<mut, nonceQuery, lastNonce, retriesAvailabilityCheck, block, answerVars, intact, restarts>>

\* An error is reported and changes nothing else.
QueryFails(c) ==
    /\ check[c].pc = "query"
    /\ check' = [check EXCEPT ![c] = [pc |-> "status", status |-> "Unavailable",
                                      message |-> "error", nonce |-> 0]]
    /\ latest' = [latest EXCEPT !.asked = TRUE, !.ok = FALSE]
    /\ UNCHANGED <<mut, nonceQuery, lastNonce, retriesAvailabilityCheck, handlerVars, block, inARow,
                   requests, intact, restarts>>

\* The retries so far are too many.
M_TooManyRetries(retries) == retries >= AllowDelta
TooManyRetries(retries) == retries > AllowDelta

\* Deferred to the end of the check.
M_incrementRetriesAvailabilityCheck(retries) == retriesAvailabilityCheck' = retries
incrementRetriesAvailabilityCheck(retries) ==
    retriesAvailabilityCheck' = Count(retries, AllowDelta + 1)

QuerySucceeds(c) ==
    /\ check[c].pc = "query"
    /\ LET retries == IF block # lastNonce THEN 0 ELSE retriesAvailabilityCheck
       IN  /\ check' = [check EXCEPT ![c] =
                 [pc      |-> IF Chain = "Ethereum" THEN "queried" ELSE "status",
                  status  |-> IF TooManyRetries(retries) THEN "Unavailable" ELSE "Available",
                  message |-> IF TooManyRetries(retries) THEN "in_a_row" ELSE Empty,
                  nonce   |-> block]]
           /\ incrementRetriesAvailabilityCheck(retries)
    /\ lastNonce' = block
    /\ latest' = [asked |-> TRUE, ok |-> TRUE, block |-> block]
    /\ inARow' = Count(IF block # latest.block THEN 0 ELSE inARow, AllowDelta + 2)
    /\ UNCHANGED <<mut, nonceQuery, handlerVars, block, requests, intact, restarts>>

\* BlockNumber of the Ethereum wrapper keeps the number of the block.
KeepQueriedBlock(c) ==
    /\ check[c].pc = "queried"
    /\ SetIntMetric(MetricLastQueriedEthereumBlockNumber, check[c].nonce)
    /\ Goto(c, "status")
    /\ UNCHANGED <<mut, nonceQuery, lastNonce, retriesAvailabilityCheck, block, answerVars, requests,
                   intact, restarts>>

\* setStatusForAvailabilityCheck, the same for both clients.
SetStatus(c) ==
    /\ check[c].pc = "status"
    /\ SetStringMetric(MetricElrondClientStatus, check[c].status)
    /\ Goto(c, "message")
    /\ UNCHANGED <<mut, nonceQuery, lastNonce, retriesAvailabilityCheck, block, answerVars, requests,
                   intact, restarts>>

SetMessage(c) ==
    /\ check[c].pc = "message"
    /\ SetStringMetric(MetricLastElrondClientError, check[c].message)
    /\ Goto(c, "nonce")
    /\ UNCHANGED <<mut, nonceQuery, lastNonce, retriesAvailabilityCheck, block, answerVars, requests,
                   intact, restarts>>

SetNonceAndUnlock(c) ==
    /\ check[c].pc = "nonce"
    /\ SetIntMetric(MetricLastBlockNonce, check[c].nonce)
    /\ mut' = Nobody
    /\ check' = [check EXCEPT ![c] = Idle]
    /\ UNCHANGED <<nonceQuery, lastNonce, retriesAvailabilityCheck, block, answerVars, requests,
                   intact, restarts>>

Check(c) ==
    \/ CheckClientAvailability(c) \/ CountRequest(c) \/ QueryFails(c) \/ QuerySucceeds(c)
    \/ KeepQueriedBlock(c) \/ SetStatus(c) \/ SetMessage(c) \/ SetNonceAndUnlock(c)

--------------------------------------------------------------------------------
(***************************************************************************)
(* Other users of the handler and of the chain.                            *)
(***************************************************************************)
\* BlockNumber called by getNonce, in the three steps that it has in a check
\* (the request is counted, the chain asked, the block kept), but without the
\* client's lock: an older block may be kept after a newer one.
CountNonceRequest ==
    /\ Chain = "Ethereum"
    /\ check[Sender].pc = "idle" /\ nonceQuery = NoQuery
    /\ AddIntMetric(MetricNumEthClientRequests, 1)
    /\ requests' = Capped(requests + 1)
    /\ nonceQuery' = [nonceQuery EXCEPT !.pc = "query"]
    /\ UNCHANGED <<mut, check, lastNonce, retriesAvailabilityCheck, block, answerVars, intact, restarts>>

AnswerNonceRequest ==
    /\ nonceQuery.pc = "query"
    /\ nonceQuery' \in {NoQuery, [pc |-> "queried", block |-> block]}
    /\ UNCHANGED <<mut, check, lastNonce, retriesAvailabilityCheck, handlerVars, block, answerVars,
                   requests, intact, restarts>>

KeepNonceBlock ==
    /\ nonceQuery.pc = "queried"
    /\ SetIntMetric(MetricLastQueriedEthereumBlockNumber, nonceQuery.block)
    /\ nonceQuery' = NoQuery
    /\ UNCHANGED <<mut, check, lastNonce, retriesAvailabilityCheck, block, answerVars, requests,
                   intact, restarts>>

getNonce == CountNonceRequest \/ AnswerNonceRequest \/ KeepNonceBlock

\* The queries that keep no block only count themselves, in any goroutine.
OtherRequest ==
    /\ Chain = "Ethereum"
    /\ AddIntMetric(MetricNumEthClientRequests, 1)
    /\ requests' = Capped(requests + 1)
    /\ UNCHANGED <<clientVars, block, answerVars, intact, restarts>>

NewBlock ==
    /\ block < MaxBlock
    /\ block' = block + 1
    /\ UNCHANGED <<clientVars, handlerVars, answerVars, requests, intact, restarts>>

\* The process ends somewhere and starts again.
Restart ==
    /\ restarts < MaxRestarts
    /\ restarts' = restarts + 1
    /\ mut' = Nobody /\ check' = [c \in Callers |-> Idle] /\ nonceQuery' = NoQuery
    /\ lastNonce' = 0 /\ retriesAvailabilityCheck' = 0
    /\ latest' = NoAnswer /\ inARow' = 0
    /\ tryLoadPersistedData
    /\ persisted' = TRUE
    /\ UNCHANGED <<stored, block, requests>>

Next ==
    \/ \E c \in Callers : Check(c)
    \/ getNonce \/ OtherRequest \/ NewBlock \/ Restart

Spec == Init /\ [][Next]_vars

--------------------------------------------------------------------------------
(***************************************************************************)
(* Properties.                                                             *)
(***************************************************************************)
\* What a check that is over is to report about the answers of the chain.
Stuck == inARow > AllowDelta + 1
TrueStatus == IF latest.ok /\ ~ Stuck THEN "Available" ELSE "Unavailable"
TrueMessage == IF ~ latest.ok THEN "error" ELSE IF Stuck THEN "in_a_row" ELSE Empty
TrueNonce == IF latest.ok THEN latest.block ELSE 0

\* Between two checks the three metrics tell the same story, and the true one:
\* the client is unavailable if its last query failed or the chain has answered
\* the same block more than AllowDelta + 1 times, failures in between not
\* counted, no matter which of the state machines asked.
StatusReflectsChain ==
    mut = Nobody /\ latest.asked =>
        /\ stringMetrics[MetricElrondClientStatus] = TrueStatus
        /\ stringMetrics[MetricLastElrondClientError] = TrueMessage
        /\ intMetrics[MetricLastBlockNonce] = TrueNonce

\* The number of requests is exact over restarts, unless one of them found that
\* the last Put had failed or could not read the storer: a Put that failed is
\* made up for by the next.  It is never too large.  The storer gathers Puts for
\* two seconds and is not closed at the end: one that was not written when the
\* process ended counts as failed.
RequestsCounted ==
    /\ intMetrics[MetricNumEthClientRequests] <= requests
    /\ intact => intMetrics[MetricNumEthClientRequests] = requests

Steps == {"idle", "request", "query", "queried", "status", "message", "nonce"}

Texts == {"Available", "Unavailable", "error", "in_a_row", Empty}

\* The types of what the proofs reason about.
TypeOK ==
    /\ mut \in Callers \cup {Nobody}
    /\ check \in [Callers -> [pc : Steps, status : ClientStatus \cup {Empty},
                              message : {Empty, "error", "in_a_row"}, nonce : Nat]]
    /\ nonceQuery \in [pc : {"idle", "query", "queried"}, block : Nat]
    /\ lastNonce \in Nat /\ retriesAvailabilityCheck \in 0..(AllowDelta + 1)
    /\ intMetrics \in [IntMetrics -> Nat]
    /\ stringMetrics \in [StringMetrics -> Texts]
    /\ stored \in [ints : [IntMetrics -> Nat], strings : [StringMetrics -> Texts]]
    /\ block \in Nat
    /\ latest \in [asked : BOOLEAN, ok : BOOLEAN, block : Nat \cup {-1}]
    /\ inARow \in 0..(AllowDelta + 2)
    /\ requests \in 0..MaxRequests /\ persisted \in BOOLEAN /\ intact \in BOOLEAN

\* StatusReflectsChain is inductive with this: only the holder of the lock is in
\* a check, the counter is what the answers make it, and a check that knows the
\* answer has its locals and the metrics that it has set from it.
ChecksInv ==
    /\ \A c \in Callers : check[c].pc # "idle" => mut = c
    /\ retriesAvailabilityCheck = IF inARow > AllowDelta THEN AllowDelta + 1 ELSE inARow
    /\ IF latest.block = -1 THEN inARow = 0 /\ lastNonce = 0 /\ ~ latest.ok
                            ELSE lastNonce = latest.block
    /\ \A c \in Callers :
          /\ check[c].pc \in {"queried", "status", "message", "nonce"} =>
                /\ latest.asked
                /\ check[c].status = TrueStatus
                /\ check[c].message = TrueMessage
                /\ check[c].nonce = TrueNonce
          /\ check[c].pc \in {"message", "nonce"} =>
                stringMetrics[MetricElrondClientStatus] = TrueStatus
          /\ check[c].pc = "nonce" =>
                stringMetrics[MetricLastElrondClientError] = TrueMessage

\* RequestsCounted is inductive with this: the storer is never ahead, and it has
\* the exact number when its last Put succeeded.
StorerInv ==
    /\ stored.ints[MetricNumEthClientRequests] <= requests
    /\ intact /\ persisted => stored.ints[MetricNumEthClientRequests] = requests

IndInv == TypeOK /\ ChecksInv /\ StorerInv /\ StatusReflectsChain /\ RequestsCounted

\* A chain that stands still is reported as unavailable at last and for good, if
\* the state machines come back to their first step again and again (steps that
\* wait for the other chain without a limit may keep both of them away from it).
StalledChainReported ==
    \A b \in 0..MaxBlock :
        []<>(mut # Nobody) /\ <>[](block = b) =>
            <>[](stringMetrics[MetricElrondClientStatus] = "Unavailable")
================================================================================
