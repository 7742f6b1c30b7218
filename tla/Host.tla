---------------------------------- MODULE Host ---------------------------------
(***************************************************************************)
(* The life of the network: Host::start, Host::stop and the destructor,    *)
(* called by the users; the network thread, which is the Worker of Host    *)
(* (startedWorking, doWork, doneWorking and the handlers its io service    *)
(* runs); and one capability, EthereumHost, a Worker of its own that the   *)
(* network thread starts and stops.                                        *)
(*                                                                         *)
(* Addresses, the node table and the sessions of the peers are abstracted  *)
(* to whether there are any.                                               *)
(***************************************************************************)
CONSTANTS
    Users,      \* the threads that start and stop the network
    MayFail     \* the places of the network thread that may fail

VARIABLES
    hState, hWork, hThread, hCaller, hWaiting,  \* the worker of the host
    cState, cWork, cThread, cCaller, cWaiting,  \* the worker of the capability
    at,             \* where the users and the work of the network thread are
    destroying,     \* the users that are in the destructor
    m_run,          \* the network is running
    m_timer,        \* there is a timer that calls run
    timerWaiting,   \* the users that wait on m_timerReset
    scheduled,      \* the timer is set
    m_tcp4Acceptor, \* the acceptor is open
    io,             \* the io service is ready or stopped
    m_accepting,    \* the acceptor waits for a connection
    m_nodeTable,    \* there is a node table
    m_sessions      \* there is a session of a peer

hVars == <<hState, hWork, hThread, hCaller, hWaiting>>
cVars == <<cState, cWork, cThread, cCaller, cWaiting>>
timer == <<m_run, m_timer, timerWaiting>>
network == <<scheduled, io, m_tcp4Acceptor, m_accepting, m_nodeTable, m_sessions>>
vars == <<hVars, cVars, at, destroying, timer, network>>

Net == "network thread"

ASSUME NetAssumption == Net \notin Users

(***************************************************************************)
(* What can fail, by the place where it does: tcp4Listen gives no port     *)
(* (listen); startedWorking throws, for an invalid address in the          *)
(* preferences (determinePublic), for a listening address or a socket of   *)
(* the node table (nodeTable), for saved peers that cannot be read         *)
(* (restoreNetwork) or in its call of run (run); a handler throws (io).    *)
(***************************************************************************)
Failures == {"listen", "determinePublic", "nodeTable", "restoreNetwork", "run", "io"}
ASSUME FailAssumption == MayFail \subseteq Failures

H == INSTANCE Worker WITH Callers <- Users, m_state <- hState, m_work <- hWork,
                          thread <- hThread, caller <- hCaller, waiting <- hWaiting
C == INSTANCE Worker WITH Callers <- Users \cup {Net}, m_state <- cState, m_work <- cWork,
                          thread <- cThread, caller <- cCaller, waiting <- cWaiting

Init ==
    /\ H!Init /\ C!Init
    /\ at = [a \in Users \cup {Net} |-> "idle"]
    /\ destroying = {}
    /\ m_run = FALSE /\ m_timer = FALSE /\ timerWaiting = {}
    /\ scheduled = FALSE /\ io = "ready" /\ m_tcp4Acceptor = FALSE /\ m_accepting = FALSE
    /\ m_nodeTable = FALSE /\ m_sessions = FALSE

Goes(a, from, to) == at[a] = from /\ at' = [at EXCEPT ![a] = to]
HaveNetwork == m_run /\ m_nodeTable

-----------------------------------------------------------------------------
(***************************************************************************)
(* Host::start                                                             *)
(***************************************************************************)
Start(u) ==
    /\ Goes(u, "idle", "starting")
    /\ H!StartWorking(u)
    /\ UNCHANGED <<cVars, destroying, timer, network>>

StartWaits(u) ==
    /\ at[u] = "starting" /\ H!AwaitStarted(u)
    /\ at' = [at EXCEPT ![u] = IF hCaller'[u] = "idle" THEN "awaitNetwork" ELSE @]
    /\ UNCHANGED <<cVars, destroying, timer, network>>

AwaitNetwork(u) ==
    /\ ~ H!IsWorking \/ HaveNetwork
    /\ Goes(u, "awaitNetwork", "isWorking")
    /\ UNCHANGED <<hVars, cVars, destroying, timer, network>>

StartReturns(u) ==
    /\ Goes(u, "isWorking", IF H!IsWorking THEN "idle" ELSE "doneWorking")
    /\ UNCHANGED <<hVars, cVars, destroying, timer, network>>

(***************************************************************************)
(* Host::stop, and the destructor: stop and terminate.                     *)
(***************************************************************************)
Stop(u) ==
    /\ m_run /\ Goes(u, "idle", "timer")
    /\ m_run' = FALSE
    /\ UNCHANGED <<hVars, cVars, destroying, m_timer, timerWaiting, network>>

Destroy(u) ==
    /\ Goes(u, "idle", IF m_run THEN "timer" ELSE "stopped")
    /\ m_run' = FALSE /\ destroying' = destroying \cup {u}
    /\ UNCHANGED <<hVars, cVars, m_timer, timerWaiting, network>>

AwaitTimer(u) ==
    /\ u \notin timerWaiting
    /\ IF m_timer
       THEN at[u] = "timer" /\ UNCHANGED at /\ timerWaiting' = timerWaiting \cup {u}
       ELSE Goes(u, "timer", "stop") /\ UNCHANGED timerWaiting
    /\ UNCHANGED <<hVars, cVars, destroying, m_run, m_timer, network>>

StopWorker(u) ==
    /\ Goes(u, "stop", IF H!Stoppable THEN "stopping" ELSE "stopped")
    /\ IF H!Stoppable THEN H!StopWorking(u) ELSE UNCHANGED hVars
    /\ UNCHANGED <<cVars, destroying, timer, network>>

StopWaits(u) ==
    /\ at[u] = "stopping" /\ H!AwaitStopped(u)
    /\ at' = [at EXCEPT ![u] = IF hCaller'[u] = "idle" THEN "stopped" ELSE @]
    /\ UNCHANGED <<cVars, destroying, timer, network>>

StopReturns(u) ==
    /\ IF u \in destroying /\ H!Terminable
       THEN Goes(u, "stopped", "terminate") /\ H!Terminate(u) /\ UNCHANGED destroying
       ELSE Goes(u, "stopped", "idle") /\ UNCHANGED hVars /\ destroying' = destroying \ {u}
    /\ UNCHANGED <<cVars, timer, network>>

Terminating(u) ==
    /\ at[u] = "terminate" /\ (H!TerminateNotifies(u) \/ H!TerminateJoined(u))
    /\ at' = [at EXCEPT ![u] = IF hCaller'[u] = "idle" THEN "idle" ELSE @]
    /\ destroying' = IF hCaller'[u] = "idle" THEN destroying \ {u} ELSE destroying
    /\ UNCHANGED <<cVars, timer, network>>

-----------------------------------------------------------------------------
(***************************************************************************)
(* Host::startedWorking                                                    *)
(***************************************************************************)
HostWorks ==
    /\ H!NotifyStarted /\ Goes(Net, "idle", "startedWorking")
    /\ UNCHANGED <<cVars, destroying, timer, network>>

StartTimer ==
    /\ Goes(Net, "startedWorking", "onStarting")
    /\ m_timer' = TRUE /\ m_run' = TRUE
    /\ UNCHANGED <<hVars, cVars, destroying, timerWaiting, network>>

OnStarting ==
    /\ Goes(Net, "onStarting", "capability")
    /\ C!StartWorking(Net)
    /\ UNCHANGED <<hVars, destroying, timer, network>>

CapabilityStarts ==
    /\ at[Net] = "capability" /\ C!AwaitStarted(Net)
    /\ at' = [at EXCEPT ![Net] = IF cCaller'[Net] = "idle" THEN "listen" ELSE @]
    /\ UNCHANGED <<hVars, destroying, timer, network>>

\* tcp4Listen has a port.
Listen ==
    /\ Goes(Net, "listen", "determinePublic")
    /\ m_tcp4Acceptor' = TRUE
    /\ UNCHANGED <<hVars, cVars, destroying, timer, scheduled, io, m_accepting, m_nodeTable,
                   m_sessions>>

\* It has none, as when an acceptor left open cannot be opened again: it
\* closes the acceptor, and the network starts without it.
ListenFails ==
    /\ "listen" \in MayFail \/ m_tcp4Acceptor
    /\ Goes(Net, "listen", "nodeTable")
    /\ m_tcp4Acceptor' = FALSE
    /\ UNCHANGED <<hVars, cVars, destroying, timer, scheduled, io, m_accepting, m_nodeTable,
                   m_sessions>>

RunAcceptor ==
    /\ Goes(Net, "determinePublic", "nodeTable")
    /\ m_accepting' = (m_accepting \/ m_run)
    /\ UNCHANGED <<hVars, cVars, destroying, timer, scheduled, io, m_tcp4Acceptor, m_nodeTable,
                   m_sessions>>

MakeNodeTable ==
    /\ Goes(Net, "nodeTable", "restoreNetwork")
    /\ m_nodeTable' = TRUE
    /\ UNCHANGED <<hVars, cVars, destroying, timer, scheduled, io, m_tcp4Acceptor, m_accepting,
                   m_sessions>>

\* The peers restored are not modelled.
RestoreNetwork ==
    /\ Goes(Net, "restoreNetwork", "run")
    /\ UNCHANGED <<hVars, cVars, destroying, timer, network>>

(***************************************************************************)
(* startedWorking throws.  Nothing catches it but the thread of the        *)
(* worker, which stops without workLoop and doneWorking; what the steps    *)
(* before have set up stays.                                               *)
(***************************************************************************)
StartThrows ==
    /\ \/ at[Net] \in MayFail \cap {"determinePublic", "nodeTable", "restoreNetwork"}
       \/ "run" \in MayFail /\ at[Net] = "run" /\ m_run
    /\ at' = [at EXCEPT ![Net] = "idle"] /\ H!WorkThrows
    /\ UNCHANGED <<cVars, destroying, timer, network>>

(***************************************************************************)
(* Host::run, called by startedWorking and later by the timer.             *)
(***************************************************************************)
Run(from, to) ==
    /\ IF m_run
       THEN Goes(Net, from, to) /\ scheduled' = TRUE /\ UNCHANGED <<io, m_nodeTable>>
       ELSE /\ Goes(Net, from, "resetTimer")
            /\ m_nodeTable' = FALSE /\ io' = "stopped" /\ scheduled' = FALSE
    /\ UNCHANGED <<hVars, cVars, destroying, timer, m_tcp4Acceptor, m_accepting, m_sessions>>

FirstRun == Run("run", "workLoop")
TimerRuns == scheduled /\ io = "ready" /\ Run("io", "io")

ResetTimer ==
    /\ Goes(Net, "resetTimer", "notifyTimer")
    /\ m_timer' = FALSE
    /\ UNCHANGED <<hVars, cVars, destroying, m_run, timerWaiting, network>>

NotifyTimer ==
    /\ Goes(Net, "notifyTimer", "workLoop")
    /\ timerWaiting' = {}
    /\ UNCHANGED <<hVars, cVars, destroying, m_run, m_timer, network>>

(***************************************************************************)
(* Worker::workLoop and Host::doWork: the io service runs handlers until   *)
(* one of them, run, has stopped it.                                       *)
(***************************************************************************)
WorkLoop ==
    /\ Goes(Net, "workLoop", IF H!IsWorking THEN "doWork" ELSE "doneWorking")
    /\ UNCHANGED <<hVars, cVars, destroying, timer, network>>

DoWork ==
    /\ Goes(Net, "doWork", IF m_run THEN "io" ELSE "workLoop")
    /\ UNCHANGED <<hVars, cVars, destroying, timer, network>>

\* The handler of the acceptor: it waits for the next connection unless the
\* network is being stopped.
Accept ==
    /\ at[Net] = "io" /\ io = "ready" /\ m_accepting
    /\ m_accepting' = m_run
    /\ UNCHANGED <<hVars, cVars, at, destroying, timer, scheduled, io, m_tcp4Acceptor,
                   m_nodeTable,
                   m_sessions>>

StartPeerSession ==
    /\ at[Net] = "io" /\ io = "ready"
    /\ m_sessions' = TRUE
    /\ UNCHANGED <<hVars, cVars, at, destroying, timer, scheduled, io, m_tcp4Acceptor,
                   m_accepting,
                   m_nodeTable>>

\* A handler throws, and doWork catches it.  When it is run, the timer is not
\* set again.
HandlerThrows ==
    /\ "io" \in MayFail /\ io = "ready"
    /\ Goes(Net, "io", "workLoop")
    /\ scheduled' \in {scheduled, scheduled /\ ~ m_run}
    /\ UNCHANGED <<hVars, cVars, destroying, timer, io, m_tcp4Acceptor, m_accepting, m_nodeTable,
                   m_sessions>>

(***************************************************************************)
(* Host::doneWorking, by the network thread, or by the user whose start    *)
(* has failed: the io service is reset so that it can be polled, the       *)
(* acceptor cancelled and closed and its handler polled, the capability    *)
(* stopped, the peers disconnected and cleared.  To cancel an acceptor     *)
(* that is not open throws: doneWorking ends there, and with it the work   *)
(* of the network thread, or the user's start.                             *)
(***************************************************************************)
ResetIo(a) ==
    /\ Goes(a, "doneWorking", "accepting")
    /\ io' = "ready"
    /\ UNCHANGED <<hVars, cVars, destroying, timer, scheduled, m_tcp4Acceptor, m_accepting,
                   m_nodeTable, m_sessions>>

AcceptorEnds(a) ==
    /\ m_tcp4Acceptor
    /\ ~ m_accepting \/ io = "ready"
    /\ Goes(a, "accepting", "onStopping")
    /\ m_tcp4Acceptor' = FALSE /\ m_accepting' = FALSE
    /\ UNCHANGED <<hVars, cVars, destroying, timer, scheduled, io, m_nodeTable, m_sessions>>

CancelThrows(a) ==
    /\ ~ m_tcp4Acceptor
    /\ Goes(a, "accepting", "idle")
    /\ IF a = Net THEN H!WorkThrows ELSE UNCHANGED hVars
    /\ UNCHANGED <<cVars, destroying, timer, network>>

OnStopping(a) ==
    /\ Goes(a, "onStopping", IF C!Stoppable THEN "capabilityStops" ELSE "clear")
    /\ IF C!Stoppable THEN C!StopWorking(a) ELSE UNCHANGED cVars
    /\ UNCHANGED <<hVars, destroying, timer, network>>

CapabilityStops(a) ==
    /\ at[a] = "capabilityStops" /\ C!AwaitStopped(a)
    /\ at' = [at EXCEPT ![a] = IF cCaller'[a] = "idle" THEN "clear" ELSE @]
    /\ UNCHANGED <<hVars, destroying, timer, network>>

ClearSessions(a) ==
    /\ Goes(a, "clear", IF a = Net THEN "worked" ELSE "idle")
    /\ io' = "ready" /\ m_sessions' = FALSE
    /\ UNCHANGED <<hVars, cVars, destroying, timer, scheduled, m_tcp4Acceptor, m_accepting,
                   m_nodeTable>>

HostWorked ==
    /\ H!WorkEnds /\ Goes(Net, "worked", "idle")
    /\ UNCHANGED <<cVars, destroying, timer, network>>

-----------------------------------------------------------------------------
(***************************************************************************)
(* The steps of the two workers that are not the host's own.  The work of  *)
(* the capability may throw.                                               *)
(***************************************************************************)
HostThread ==
    /\ H!ThreadCheck \/ H!ThreadStarted \/ H!ThreadStopped \/ H!NotifyStopped \/ H!Pause
    /\ UNCHANGED <<cVars, at, destroying, timer, network>>

CapabilityThread ==
    /\ \/ C!ThreadCheck \/ C!ThreadStarted \/ C!NotifyStarted
       \/ C!WorkEnds \/ C!ThreadStopped \/ C!NotifyStopped \/ C!Pause
    /\ UNCHANGED <<hVars, at, destroying, timer, network>>

CapabilityThrows ==
    /\ C!WorkThrows
    /\ UNCHANGED <<hVars, at, destroying, timer, network>>

SpuriousWakeup ==
    /\ \/ H!SpuriousWakeup /\ UNCHANGED <<cVars, timerWaiting>>
       \/ C!SpuriousWakeup /\ UNCHANGED <<hVars, timerWaiting>>
       \/ /\ \E u \in timerWaiting : timerWaiting' = timerWaiting \ {u}
          /\ UNCHANGED <<hVars, cVars>>
    /\ UNCHANGED <<at, destroying, m_run, m_timer, network>>

DoneWorking(a) ==
    \/ ResetIo(a) \/ AcceptorEnds(a) \/ CancelThrows(a)
    \/ OnStopping(a) \/ CapabilityStops(a) \/ ClearSessions(a)

UserStep(u) ==
    \/ StartWaits(u) \/ AwaitNetwork(u) \/ StartReturns(u)
    \/ AwaitTimer(u) \/ StopWorker(u) \/ StopWaits(u) \/ StopReturns(u) \/ Terminating(u)
    \/ DoneWorking(u)

NetworkThread ==
    \/ HostThread \/ HostWorks \/ StartTimer \/ OnStarting \/ CapabilityStarts \/ Listen
    \/ RunAcceptor \/ MakeNodeTable \/ RestoreNetwork
    \/ FirstRun \/ TimerRuns \/ ResetTimer \/ NotifyTimer
    \/ WorkLoop \/ DoWork \/ DoneWorking(Net) \/ HostWorked

Call(u) == Start(u) \/ Stop(u) \/ Destroy(u)

Background ==
    \/ NetworkThread \/ ListenFails \/ StartThrows \/ HandlerThrows \/ Accept \/ StartPeerSession
    \/ CapabilityThread \/ CapabilityThrows \/ SpuriousWakeup

Next == (\E u \in Users : Call(u) \/ UserStep(u)) \/ Background

Spec == Init /\ [][Next]_vars

\* The threads run and the timer expires.
Fairness ==
    /\ WF_vars(NetworkThread) /\ WF_vars(CapabilityThread)
    /\ \A u \in Users : WF_vars(UserStep(u))
FairSpec == Spec /\ Fairness

(***************************************************************************)
(* The users take turns: nobody calls while another is inside a call.      *)
(***************************************************************************)
Alone(u) == \A v \in Users \ {u} : at[v] = "idle"
SerialNext == (\E u \in Users : (Alone(u) /\ Call(u)) \/ UserStep(u)) \/ Background

SerialSpec == Init /\ [][SerialNext]_vars
FairSerialSpec == SerialSpec /\ Fairness

-----------------------------------------------------------------------------
(***************************************************************************)
(* Properties.                                                             *)
(***************************************************************************)
\* A failure that nobody cleans up after: tcp4Listen has left no acceptor,
\* which doneWorking will not be able to cancel; or startedWorking has thrown,
\* which is the one way for the thread to leave while the worker is Started,
\* when start may have seen the node table and returned.
Harmed ==
    \/ at[Net] = "nodeTable" /\ ~ m_tcp4Acceptor
    \/ hThread = "leave" /\ hState = "Started" /\ m_nodeTable

\* No acceptor waits, no node table and no session is left, and the thread of
\* the capability does no work.
Down == ~ m_accepting /\ ~ m_nodeTable /\ ~ m_sessions /\ cThread # "work"

\* When start has failed, or stop has returned and the host does not work, the
\* network is down (Host::doneWorking, whether the network thread or the user
\* ran it), whatever else has failed, unless a failure did harm.  No failure
\* has to happen, so this is the same as: until the first that does.
NetworkDown ==
    \/ []((\A u \in Users : at[u] = "idle") /\ ~ H!IsWorking => Down)
    \/ <>Harmed

\* haveNetwork "returns if network is started and interactive" (Host.h).
NetworkInteractive == HaveNetwork => H!IsWorking

\* The user whose start has failed runs doneWorking, which belongs to the
\* network thread and touches its io service and acceptor without a lock,
\* only when that thread has left its work.
InDoneWorking(a) ==
    at[a] \in {"doneWorking", "accepting", "onStopping", "capabilityStops", "clear"}
DoneWorkingAlone ==
    \A u \in Users : InDoneWorking(u) => hThread \in {"stopped", "pause"}

\* Host::start comes back, with the network or without it.
StartComesBack == \A u \in Users : at[u] = "starting" ~> at[u] = "idle"

\* "in case stop() is called at same time, stop will wait on m_timer and
\* graceful network shutdown" (Host::startedWorking): a stop comes back.
StopComesBack == \A u \in Users : at[u] = "timer" ~> at[u] = "idle"
=============================================================================
