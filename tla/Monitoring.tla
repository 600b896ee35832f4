------------------------------- MODULE Monitoring -------------------------------
(***************************************************************************)
(* A relayer with the REST interface through which its metrics are read    *)
(* (api/, facade/, status/metricsHolder.go).  The status handlers are      *)
(* registered at the metrics holder one by one while the process starts;   *)
(* then the web server opens its routes and the state machines begin their *)
(* checks.  A goroutine of the server that answers a request copies the    *)
(* metrics of a handler piece by piece, under the handler's read lock,     *)
(* while other goroutines want to change them.                             *)
(***************************************************************************)
EXTENDS Availability, Sequences, FiniteSets

CONSTANTS
    HandlerOrder,  \* the names of the status handlers, in the order of their creation
    ClosedRoutes   \* the routes that the configuration does not open

ASSUME MonitoringAssumption ==
    /\ HandlerOrder \in Seq(STRING) /\ HandlerOrder # <<>>
    /\ ClosedRoutes \subseteq {"/status", "/status/list"}

VARIABLES
    phase,           \* of the start of the process
    statusHandlers,  \* of the metrics holder
    routes,          \* the routes of the web server
    reading          \* the numbers that a request for the metrics copied, or NotReading

monitorVars == <<phase, statusHandlers, routes, reading>>
allVars == <<vars, monitorVars>>

Endpoints == {"/status", "/status/list"}
NotReading == [m \in {"none"} |-> 0]

MonitoringInit ==
    /\ Init
    /\ phase = "creating" /\ statusHandlers = {} /\ routes = {}
    /\ reading = NotReading

--------------------------------------------------------------------------------
(***************************************************************************)
(* The start of the process.                                               *)
(***************************************************************************)
\* A handler with a name that is taken would be refused.  What follows in the
\* main goroutine comes after the last handler was added.
AddStatusHandler ==
    /\ phase = "creating"
    /\ LET next == Cardinality(statusHandlers) + 1
       IN  /\ HandlerOrder[next] \notin statusHandlers
           /\ statusHandlers' = statusHandlers \cup {HandlerOrder[next]}
           /\ phase' = IF next = Len(HandlerOrder) THEN "created" ELSE "creating"
    /\ UNCHANGED <<vars, routes, reading>>

\* A route that the configuration does not open is not registered.
RegisterRoutes ==
    /\ phase = "created"
    /\ phase' = "started"
    /\ routes' = Endpoints \ ClosedRoutes
    /\ UNCHANGED <<vars, statusHandlers, reading>>

--------------------------------------------------------------------------------
(***************************************************************************)
(* Requests.                                                               *)
(***************************************************************************)
\* The metrics of the client's handler; an unknown name is answered with an
\* error.  GetAllMetrics copies the numbers first and the texts afterwards.
statusMetrics ==
    /\ "/status" \in routes /\ reading = NotReading
    /\ "client" \in statusHandlers
    /\ reading' = intMetrics
    /\ UNCHANGED <<vars, phase, statusHandlers, routes>>

\* The answer when the texts are copied now.
GetAllMetrics == [ints |-> reading, strings |-> stringMetrics]

Respond ==
    /\ reading # NotReading
    /\ reading' = NotReading
    /\ UNCHANGED <<vars, phase, statusHandlers, routes>>

--------------------------------------------------------------------------------
\* The write lock of the handler cannot be taken while a reader is inside.
M_WriteLock == TRUE
WriteLock == reading = NotReading

\* The steps of the clients, which the state machines take when they run.
CheckStep ==
    /\ phase = "started"
    /\ \E c \in Callers : Check(c)
    /\ handlerVars' # handlerVars => WriteLock
    /\ UNCHANGED monitorVars

OtherStep ==
    /\ phase = "started"
    /\ getNonce \/ OtherRequest
    /\ handlerVars' # handlerVars => WriteLock
    /\ UNCHANGED monitorVars

ChainStep == NewBlock /\ UNCHANGED monitorVars

RestartProcess ==
    /\ Restart
    /\ phase' = "creating" /\ statusHandlers' = {} /\ routes' = {} /\ reading' = NotReading

MonitoringNext ==
    \/ AddStatusHandler \/ RegisterRoutes
    \/ statusMetrics \/ Respond
    \/ CheckStep \/ OtherStep \/ ChainStep \/ RestartProcess

\* The main goroutine starts the process, a request that has begun is answered,
\* and a check that has begun goes on, although readers come and go: a writer
\* that waits for the handler's lock keeps new readers out.  Nothing is assumed
\* of when a check is begun.
MonitoringFairness ==
    /\ WF_allVars(AddStatusHandler \/ RegisterRoutes)
    /\ WF_allVars(Respond)
    /\ SF_allVars(mut # Nobody /\ CheckStep)

MonitoringSpec == MonitoringInit /\ [][MonitoringNext]_allVars /\ MonitoringFairness

--------------------------------------------------------------------------------
(***************************************************************************)
(* Properties.                                                             *)
(***************************************************************************)
\* An answer is the state of the handler at one moment, although it is copied
\* piece by piece while checks and other queries want to set metrics: when the
\* texts are copied, the numbers beside them are still those of the handler.
AnswerIsSnapshot ==
    reading # NotReading => GetAllMetrics = [ints |-> intMetrics, strings |-> stringMetrics]
================================================================================
