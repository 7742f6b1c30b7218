--------------------------------- MODULE Worker --------------------------------
(***************************************************************************)
(* The thread of a Worker (Client, Host, EthereumHost, WarpHostCapability) *)
(* and the calls that start, stop and end it.                              *)
(*                                                                         *)
(* A section under x_work is one action.  A notify_all that follows the    *)
(* section is an action of its own: between the two, others take the lock. *)
(* A wait on m_state_notifier ends with a notification, or spuriously.     *)
(***************************************************************************)
CONSTANTS Callers       \* the threads that use the worker

VARIABLES
    m_state,    \* Starting, Started, Stopping, Stopped or Killing
    m_work,     \* there is a thread
    thread,     \* where the thread is
    caller,     \* where each caller is
    waiting     \* who waits on m_state_notifier

Thread == "thread"

NotifyAll == waiting' = {}
Wait(who) == waiting' = waiting \cup {who}
Awake(who) == who \notin waiting

Init ==
    /\ m_state = "Starting"
    /\ m_work = FALSE
    /\ thread = "none"
    /\ caller = [c \in Callers |-> "idle"]
    /\ waiting = {}

-----------------------------------------------------------------------------
(***************************************************************************)
(* The callers.                                                            *)
(***************************************************************************)
Calls(c, from, to) == caller[c] = from /\ caller' = [caller EXCEPT ![c] = to]

StartWorking(c) ==
    /\ Calls(c, "idle", "starting")
    /\ m_state' = IF m_work /\ m_state # "Stopped" THEN m_state ELSE "Starting"
    /\ m_work' = TRUE
    /\ thread' = IF m_work THEN thread ELSE "check"
    /\ NotifyAll

\* Mutant: the caller does not wait.
AwaitStartedNot(c) ==
    /\ Calls(c, "starting", "idle")
    /\ UNCHANGED <<m_state, m_work, thread, waiting>>

AwaitStarted(c) ==
    /\ Awake(c)
    /\ IF m_state = "Starting"
       THEN caller[c] = "starting" /\ UNCHANGED caller /\ Wait(c)
       ELSE Calls(c, "starting", "idle") /\ UNCHANGED waiting
    /\ UNCHANGED <<m_state, m_work, thread>>

IsWorking == m_state = "Started"
Stoppable == m_work /\ IsWorking
StopWorking(c) ==
    /\ Stoppable
    /\ Calls(c, "idle", "stopping")
    /\ m_state' = "Stopping"
    /\ NotifyAll
    /\ UNCHANGED <<m_work, thread>>

\* Mutant: the caller does not wait.
AwaitStoppedNot(c) ==
    /\ Calls(c, "stopping", "idle")
    /\ UNCHANGED <<m_state, m_work, thread, waiting>>

AwaitStopped(c) ==
    /\ Awake(c)
    /\ IF m_state # "Stopped"
       THEN caller[c] = "stopping" /\ UNCHANGED caller /\ Wait(c)
       ELSE Calls(c, "stopping", "idle") /\ UNCHANGED waiting
    /\ UNCHANGED <<m_state, m_work, thread>>

Terminable == m_work /\ m_state # "Killing"
Terminate(c) ==
    /\ Terminable
    /\ Calls(c, "idle", "killing")
    /\ m_state' = "Killing"
    /\ UNCHANGED <<m_work, thread, waiting>>

TerminateNotifies(c) ==
    /\ Calls(c, "killing", "join")
    /\ NotifyAll
    /\ UNCHANGED <<m_state, m_work, thread>>

TerminateJoined(c) ==
    /\ thread = "ended" /\ Calls(c, "join", "idle")
    /\ m_work' = FALSE /\ thread' = "none"
    /\ UNCHANGED <<m_state, waiting>>

-----------------------------------------------------------------------------
(***************************************************************************)
(* The thread.  Work is startedWorking, workLoop and doneWorking: it ends  *)
(* when m_state is not Started, or with an exception at any time.          *)
(***************************************************************************)
Runs(from, to) == thread = from /\ thread' = to

ThreadCheck ==
    /\ Runs("check", IF m_state = "Killing" THEN "ended" ELSE "mark")
    /\ UNCHANGED <<m_state, m_work, caller, waiting>>

ThreadStarted ==
    /\ Runs("mark", "started")
    /\ m_state' = "Started"
    /\ UNCHANGED <<m_work, caller, waiting>>

\* Mutant: nobody is told.
NotifyStartedNot ==
    /\ Runs("started", "work")
    /\ UNCHANGED <<m_state, m_work, caller, waiting>>

NotifyStarted ==
    /\ Runs("started", "work")
    /\ NotifyAll
    /\ UNCHANGED <<m_state, m_work, caller>>

WorkEnds ==
    /\ m_state # "Started" /\ Runs("work", "leave")
    /\ UNCHANGED <<m_state, m_work, caller, waiting>>

WorkThrows ==
    /\ Runs("work", "leave")
    /\ UNCHANGED <<m_state, m_work, caller, waiting>>

ThreadStopped ==
    /\ Runs("leave", "stopped")
    /\ m_state' = IF m_state \in {"Killing", "Starting"} THEN m_state ELSE "Stopped"
    /\ UNCHANGED <<m_work, caller, waiting>>

NotifyStopped ==
    /\ Runs("stopped", "pause")
    /\ NotifyAll
    /\ UNCHANGED <<m_state, m_work, caller>>

Pause ==
    /\ Awake(Thread)
    /\ IF m_state = "Stopped"
       THEN thread = "pause" /\ UNCHANGED thread /\ Wait(Thread)
       ELSE Runs("pause", "check") /\ UNCHANGED waiting
    /\ UNCHANGED <<m_state, m_work, caller>>

SpuriousWakeup ==
    /\ \E w \in waiting : waiting' = waiting \ {w}
    /\ UNCHANGED <<m_state, m_work, thread, caller>>
=============================================================================
