------------------------------- MODULE Lifecycle -------------------------------
(***************************************************************************)
(* The life of a process of the repository, from its main function to its  *)
(* end.  The relayer (startRelay of cmd/bridge/main.go) creates the        *)
(* components (factory/ethElrondBridgeComponents.go), starts the web       *)
(* server (api/gin) and the components, waits for a signal and closes      *)
(* them.  The price feeder (runApp of cmd/priceFeeder/main.go) does the    *)
(* same with two parts of its own.                                         *)
(*                                                                         *)
(* Components run goroutines of their own; some are running when they have *)
(* been created, the polling handlers run when they are started, and the   *)
(* loop that repeats the join message is a goroutine that main starts last *)
(* and that stores the function that cancels it by itself.                 *)
(***************************************************************************)
EXTENDS Integers, Sequences, SequencesExt

CONSTANTS
    Configs,             \* the configurations that the operator may have written
    MaxFaults            \* bound: calls of Close that fail

ASSUME LifecycleAssumption ==
    /\ Configs \subseteq [gasStation : BOOLEAN, restApi : BOOLEAN]
    /\ MaxFaults \in Nat

VARIABLES
    program,          \* which of the two programs this is
    configs,          \* what its flags and its configuration file say
    main,             \* where the main goroutine is
    made,             \* how many components were created
    closables,        \* closableHandlers
    pollingHandlers,  \* pollingHandlers
    index,            \* of the loop over one of these
    running,          \* the components whose goroutines run
    topics,           \* the broadcaster is registered on its topics
    joined,           \* the first join message was broadcast
    join,             \* the goroutine that repeats the join message
    failed            \* the components whose Close failed

startVars == <<program, configs>>
listVars == <<made, closables, pollingHandlers>>
lifecycleVars == <<program, configs, main, made, closables, pollingHandlers, index, running,
                   topics, joined, join, failed>>

\* startRelay creates the messenger and what the components share, then
\* NewEthElrondBridgeComponents creates the components, in this order.
NetMessenger == <<"messenger">>
BridgeComponents ==
    <<"timer", "dataGetter", "elrondRoles", "elrondClient", "ethRoles", "gasStation", "antiflood",
      "batchValidator", "ethToElrond", "elrondToEth">>

\* What runApp creates.
FeederComponents == <<"priceFetchers", "txNonceHandler", "priceNotifier">>

CreationOrder == IF program = "relayer" THEN NetMessenger \o BridgeComponents ELSE FeederComponents

StateMachines == {"ethToElrond", "elrondToEth"}
Polled == {"elrondRoles", "ethRoles", "priceNotifier"} \cup StateMachines

\* What has a goroutine and is in no list of what is to be closed.
NeverClosed == {"messenger", "gasStation", "antiflood", "txNonceHandler"}

\* addClosableComponent is called for these; the price feeder closes one.
Closable == {"timer", "elrondClient"} \cup Polled

\* The messenger, the resending of Elrond transactions, the gas station and the
\* antiflood components run from their creation on.  The timer never runs:
\* nothing calls its Start.
M_RunsAtOnce == Range(CreationOrder)
RunsAtOnce ==
    {"messenger", "elrondClient", "antiflood", "txNonceHandler"}
        \cup (IF configs.gasStation THEN {"gasStation"} ELSE {})

LifecycleInit ==
    /\ program \in {"relayer", "priceFeeder"} /\ configs \in Configs
    /\ main = "starting" /\ made = 0
    /\ closables = << >> /\ pollingHandlers = << >> /\ index = 1
    /\ running = {}
    /\ topics = FALSE /\ joined = FALSE
    /\ join = "none"
    /\ failed = {}

\* The main function returns, with or without an error, and the process ends.
Exit ==
    /\ main' = "exited"
    /\ running' = {} /\ join' = "none"
    /\ UNCHANGED <<startVars, listVars, index, topics, joined, failed>>

\* A step that cannot be taken ends the process; nothing is closed then.
Fails ==
    /\ main \in {"starting", "creating", "webServer", "groups", "limiters", "httpServer",
                  "bootstrap", "register", "polling"}
    /\ Exit

\* The process is started again.
Restart ==
    /\ main = "exited"
    /\ main' = "starting" /\ made' = 0
    /\ closables' = << >> /\ pollingHandlers' = << >> /\ index' = 1
    /\ topics' = FALSE /\ joined' = FALSE
    /\ failed' = {}
    /\ UNCHANGED <<program, configs, running, join>>

--------------------------------------------------------------------------------
AppendIf(s, c, condition) == IF condition THEN Append(s, c) ELSE s

\* The flags, the log file and the configuration files are read.
loadConfig ==
    /\ main = "starting"
    /\ main' = "creating"
    /\ UNCHANGED <<startVars, listVars, index, running, topics, joined, join, failed>>

CreateComponent ==
    /\ main = "creating"
    /\ LET c == CreationOrder[made + 1]
       IN  /\ closables' = AppendIf(closables, c, c \in Closable)
           /\ pollingHandlers' = AppendIf(pollingHandlers, c, c \in Polled)
           /\ running' = running \cup ({c} \cap RunsAtOnce)
    /\ made' = made + 1
    /\ main' = IF made' < Len(CreationOrder) THEN "creating"
               ELSE IF program = "relayer" THEN "webServer" ELSE "polling"
    /\ UNCHANGED <<startVars, index, topics, joined, join, failed>>

--------------------------------------------------------------------------------
(***************************************************************************)
(* The web server of the relayer: the facade and the handler, the groups,  *)
(* the limiters, the server.                                               *)
(***************************************************************************)
StartWebServer ==
    /\ main = "webServer"
    /\ main' = "groups"
    /\ UNCHANGED <<startVars, listVars, index, running, topics, joined, join, failed>>

StartHttpServer ==
    /\ main = "groups"
    /\ main' = IF configs.restApi THEN "limiters" ELSE "bootstrap"
    /\ UNCHANGED <<startVars, listVars, index, running, topics, joined, join, failed>>

\* The goroutine is started before the second limiter is created.
createMiddlewareLimiters ==
    /\ main = "limiters"
    /\ running' = running \cup {"sourceLimiterReset"}
    /\ main' = "httpServer"
    /\ UNCHANGED <<startVars, listVars, index, topics, joined, join, failed>>

SpawnHttpServer ==
    /\ main = "httpServer"
    /\ running' = running \cup {"httpServer"}
    /\ main' = "bootstrap"
    /\ UNCHANGED <<startVars, listVars, index, topics, joined, join, failed>>

\* The server cannot listen: the error is logged, and the relayer goes on
\* without the interface.
ListenFails ==
    /\ "httpServer" \in running /\ main # "webServerClosed"
    /\ running' = running \ {"httpServer"}
    /\ UNCHANGED <<startVars, listVars, main, index, topics, joined, join, failed>>

--------------------------------------------------------------------------------
(***************************************************************************)
(* Start of the components.                                                *)
(***************************************************************************)
Bootstrap ==
    /\ main = "bootstrap"
    /\ main' = "register"
    /\ UNCHANGED <<startVars, listVars, index, running, topics, joined, join, failed>>

RegisterOnTopics ==
    /\ main = "register"
    /\ topics' = TRUE
    /\ main' = "joinTopic"
    /\ UNCHANGED <<startVars, listVars, index, running, joined, join, failed>>

BroadcastJoinTopic ==
    /\ main = "joinTopic"
    /\ joined' = TRUE
    /\ main' = "polling"
    /\ UNCHANGED <<startVars, listVars, index, running, topics, join, failed>>

startPollingHandlers ==
    /\ main = "polling"
    /\ running' = running \cup {pollingHandlers[index]}
    /\ index' = index + 1
    /\ main' = IF index < Len(pollingHandlers) THEN "polling"
               ELSE IF program = "relayer" THEN "spawn" ELSE "waiting"
    /\ UNCHANGED <<startVars, listVars, topics, joined, join, failed>>

\* The last statement of Start; main waits for a signal then.
SpawnJoinLoop ==
    /\ main = "spawn"
    /\ join' = "spawned"
    /\ main' = "waiting"
    /\ UNCHANGED <<startVars, listVars, index, running, topics, joined, failed>>

--------------------------------------------------------------------------------
(***************************************************************************)
(* startBroadcastJoinRetriesLoop stores cancelFunc, then loops.            *)
(***************************************************************************)
BeginJoinLoop ==
    /\ join = "spawned"
    /\ join' = "looping"
    /\ UNCHANGED <<startVars, listVars, main, index, running, topics, joined, failed>>

--------------------------------------------------------------------------------
(***************************************************************************)
(* A signal arrives: Close of the components, then of the web server.      *)
(***************************************************************************)
Signal ==
    /\ main = "waiting" /\ program = "relayer"
    /\ main' = "closing" /\ index' = 1
    /\ UNCHANGED <<startVars, listVars, running, topics, joined, join, failed>>

\* The price feeder closes its polling handler and nothing else.
SignalFeeder ==
    /\ main = "waiting" /\ program = "priceFeeder"
    /\ main' = "closers" /\ index' = 1
    /\ UNCHANGED <<startVars, listVars, running, topics, joined, join, failed>>

\* cancelFunc is called if it is there, which ends the loop.  No lock orders
\* this read with the loop's write, so it may miss it even if it came first.
CancelJoinLoop ==
    /\ main = "closing"
    /\ join' \in {join, IF join = "looping" THEN "none" ELSE join}
    /\ main' = "closers"
    /\ UNCHANGED <<startVars, listVars, index, running, topics, joined, failed>>

\* The loop over closableHandlers goes on after an error.
M_AfterError == Len(closables) + 1
AfterError == index + 1

CloseComponent ==
    /\ main = "closers" /\ index <= Len(closables)
    /\ \/ /\ running' = running \ {closables[index]}
          /\ index' = index + 1
          /\ UNCHANGED failed
       \/ /\ Cardinality(failed) < MaxFaults
          /\ failed' = failed \cup {closables[index]}
          /\ index' = AfterError
          /\ UNCHANGED running
    /\ UNCHANGED <<startVars, listVars, main, topics, joined, join>>

\* The price feeder ends here.
CloseReturns ==
    /\ main = "closers" /\ index > Len(closables)
    /\ main' = IF program = "relayer" THEN "closed" ELSE "webServerClosed"
    /\ UNCHANGED <<startVars, listVars, index, running, topics, joined, join, failed>>

\* The limiter is cancelled; the shutdown of the server may time out.
CloseWebServer ==
    /\ main = "closed"
    /\ \/ running' = running \ {"sourceLimiterReset", "httpServer"} /\ UNCHANGED failed
       \/ /\ Cardinality(failed) < MaxFaults
          /\ "httpServer" \in running
          /\ failed' = failed \cup {"httpServer"}
          /\ running' = running \ {"sourceLimiterReset"}
    /\ main' = "webServerClosed"
    /\ UNCHANGED <<startVars, listVars, index, topics, joined, join>>

Return == main = "webServerClosed" /\ Exit

--------------------------------------------------------------------------------
LifecycleNext ==
    \/ Fails \/ Restart
    \/ loadConfig \/ CreateComponent
    \/ StartWebServer \/ StartHttpServer \/ createMiddlewareLimiters \/ SpawnHttpServer
    \/ ListenFails
    \/ Bootstrap \/ RegisterOnTopics \/ BroadcastJoinTopic
    \/ startPollingHandlers \/ SpawnJoinLoop
    \/ BeginJoinLoop
    \/ Signal \/ SignalFeeder \/ CancelJoinLoop \/ CloseComponent \/ CloseReturns
    \/ CloseWebServer \/ Return

--------------------------------------------------------------------------------
(***************************************************************************)
(* Properties.                                                             *)
(***************************************************************************)
\* When Close has returned, nothing runs that was to be closed, but for the
\* components whose own Close failed: one failure does not spare the others.
\* (Nothing is said of what was never to be closed, nor of the loop that repeats
\* the join message, which may go on.)
ClosablesStopped ==
    main \in {"closed", "webServerClosed"} => running \cap Closable \subseteq failed

\* A state machine broadcasts signatures only when the relayer has registered
\* on the topics and has asked the others for theirs.
NoStepBeforeJoin == running \cap StateMachines # {} => topics /\ joined

\* The inductive invariant behind both.  What runs and is to be closed is in the
\* list, and while the list is closed it is still to come or has failed; what is
\* polled is in both lists, and there is something to poll when that is started.
ToClose(c, from) == \E j \in from..Len(closables) : closables[j] = c

FeederPlaces == {"starting", "creating", "polling", "waiting", "closers", "webServerClosed", "exited"}
PlacesBefore == {"webServer", "groups", "limiters", "httpServer", "bootstrap", "register"}
PlacesAfter == {"spawn", "waiting", "closing", "closers", "closed", "webServerClosed"}

ListsInv ==
    /\ program \in {"relayer", "priceFeeder"} /\ made \in Nat /\ index \in Nat
    /\ closables \in Seq(Closable) /\ pollingHandlers \in Seq(Polled)
    /\ \A i \in 1..Len(pollingHandlers) :
          /\ ToClose(pollingHandlers[i], 1)
          /\ program = "priceFeeder" => pollingHandlers[i] = "priceNotifier"
    /\ \A c \in running \cap Closable : ToClose(c, 1)
    /\ running \subseteq NeverClosed \cup Closable \cup {"sourceLimiterReset", "httpServer"}
    /\ program = "priceFeeder" =>
          running \cap {"sourceLimiterReset", "httpServer"} = {} /\ main \in FeederPlaces

PlaceInv ==
    /\ main \in {"starting", "creating", "joinTopic", "polling", "exited"} \cup PlacesBefore \cup PlacesAfter
    /\ main \in {"starting", "exited"} => running = {}
    /\ main = "starting" => made = 0
    /\ main = "creating" => made < Len(CreationOrder)
    /\ main = "creating" /\ made >= (IF program = "relayer" THEN 4 ELSE 3) => Len(pollingHandlers) >= 1
    /\ main \in PlacesBefore \cup {"joinTopic", "polling"} => Len(pollingHandlers) >= 1
    /\ main \in {"starting", "creating", "joinTopic", "closing"} \cup PlacesBefore => index = 1
    /\ main = "polling" => /\ index \in 1..Len(pollingHandlers)
                           /\ program = "relayer" => topics /\ joined
    /\ main = "joinTopic" => topics
    /\ main = "closers" => \A c \in running \cap Closable : c \in failed \/ ToClose(c, index)

LifecycleInv == ListsInv /\ PlaceInv /\ ClosablesStopped /\ NoStepBeforeJoin
================================================================================
