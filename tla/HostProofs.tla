------------------------------- MODULE HostProofs ------------------------------
(***************************************************************************)
(* Once the users are out of their calls and the host does not work, the   *)
(* network is down, until a failure does harm; and doneWorking runs in one *)
(* thread at a time, whatever fails.  Both for any set of users that take  *)
(* turns and any failures.                                                 *)
(*                                                                         *)
(* Since the users take turns there is one place a call can be at, Active. *)
(* The inductive invariant has a part about the worker of the host that    *)
(* holds whatever fails, WorkerInv, and a part that holds until a failure  *)
(* does harm, Unharmed: for each place of the network thread, where the    *)
(* call may be, what the workers' states are and what is left of the       *)
(* network.                                                                *)
(***************************************************************************)
EXTENDS Host, TLAPS

\* The place of the one user of f that is inside a call.
Inside(f, u) == f[u] # "idle"
Place(f) ==
    IF \E u \in Users : Inside(f, u) THEN f[CHOOSE u \in Users : Inside(f, u)] ELSE "idle"
OneInside(f) == \A u, v \in Users : Inside(f, u) /\ Inside(f, v) => u = v

Active == Place(at)
Turns == OneInside(at)

-----------------------------------------------------------------------------
(***************************************************************************)
(* The places of the network thread and of the users.                      *)
(***************************************************************************)
Rising == {"startedWorking", "onStarting", "capability", "listen", "determinePublic", "nodeTable"}
Turning == {"restoreNetwork", "run", "workLoop", "doWork", "io"}
Resetting == {"resetTimer", "notifyTimer"}
Clearing == {"doneWorking", "accepting", "onStopping", "capabilityStops", "clear"}
Beginning == {"starting", "awaitNetwork"}
Before == Beginning \cup {"isWorking", "idle"}
Ending == {"timer", "stop", "stopping", "stopped", "terminate"}
Places == Rising \cup Turning \cup Resetting \cup Clearing \cup {"worked"} \cup Before \cup Ending
Calling == {"idle", "starting", "stopping", "killing", "join"}

Typed ==
    /\ at \in [Users \cup {Net} -> Places]
    /\ hCaller \in [Users -> Calling]
    /\ cCaller \in [Users \cup {Net} -> Calling]

\* The worker of the host, for each place of the active user, whatever fails.
WorkerInv ==
    /\ hWork <=> (hThread # "none")
    /\ hThread = "none" =>
          hState \in {"Killing", "Starting"} /\ Active \in {"idle", "timer", "stop", "stopped"}
    /\ hThread = "ended" => hState = "Killing"
    /\ hState = "Starting" => hThread = "none" \/ Active = "starting"
    /\ hState = "Killing" => hThread = "none" \/ Active = "terminate"
    /\ hState = "Stopping" => Active = "stopping"
    /\ hState = "Stopped" => hThread \in {"stopped", "pause"}
    /\ hState \in {"Starting", "Started", "Stopping", "Stopped", "Killing"}
    /\ Active \in Clearing => hState = "Stopped"

\* Where the network thread is, for each place of the active user, until a
\* failure does harm; the same for the parts below.
ThreadInv ==
    /\ (at[Net] # "idle") <=> (hThread = "work")
    /\ hWork <=> (hThread # "none")
    /\ at[Net] \in Rising \cup Turning \cup Resetting \cup Clearing \cup {"worked", "idle"}
    /\ hThread \in {"none", "check", "mark", "started", "work", "leave", "stopped", "pause", "ended"}
    /\ hThread = "none" =>
          hState \in {"Killing", "Starting"} /\ Active \in {"idle", "stopped"} /\ ~ m_run
    /\ hThread \in {"check", "mark"} =>
          \/ Active = "starting" /\ hState = "Starting"
          \/ Active = "terminate" /\ hState = "Killing" /\ hThread = "check"
    /\ hThread = "ended" => Active = "terminate" /\ hState = "Killing"
    /\ hThread = "started" => Active \in Beginning /\ hState = "Started"
    /\ hThread = "leave" =>
          \/ Active \in Beginning /\ hState = "Started"
          \/ Active = "stopping" /\ hState = "Stopping"
    /\ hThread \in {"stopped", "pause"} =>
          \/ Active \in Before \cup Clearing \cup {"stopping", "stopped", "timer"} /\ hState = "Stopped"
          \/ Active = "starting" /\ hState = "Starting"
          \/ Active = "terminate" /\ hState = "Killing"
    /\ at[Net] \in Rising => Active \in Beginning /\ hState = "Started"
    /\ at[Net] \in {"restoreNetwork", "run", "io"} => Active \in Before \cup {"timer"} /\ hState = "Started"
    /\ at[Net] \in {"workLoop", "doWork"} =>
          \/ Active \in Before \cup {"timer", "stop"} /\ hState = "Started"
          \/ Active = "stopping" /\ hState = "Stopping"
    /\ at[Net] = "resetTimer" => Active = "timer" /\ hState = "Started"
    /\ at[Net] = "notifyTimer" =>
          \/ Active \in {"timer", "stop"} /\ hState = "Started"
          \/ Active = "stopping" /\ hState = "Stopping"
    /\ at[Net] \in Clearing \cup {"worked"} => Active = "stopping" /\ hState = "Stopping"

\* A user inside stop has cleared m_run, and leaves its wait without a timer.
TimerInv ==
    /\ m_run => m_timer
    /\ Active \in Ending => ~ m_run
    /\ hThread = "work" /\ at[Net] # "startedWorking" /\ Active \in Before => m_run
    /\ Active = "timer" /\ hThread \in {"stopped", "pause"} => m_timer
    /\ at[Net] \in {"restoreNetwork", "run", "io", "resetTimer"} => m_timer
    /\ Active \in {"stop", "stopping"} => ~ m_timer
    /\ Active = "stop" => hThread = "work"

\* startedWorking has thrown and the user's doneWorking has not passed rest.
FailedUntil(rest) ==
    \/ hThread = "leave" /\ hState = "Started"
    \/ /\ hThread \in {"stopped", "pause"} /\ hState = "Stopped"
       /\ Active \in Beginning \cup {"isWorking"} \cup rest

\* The acceptor is open from tcp4Listen to the close of doneWorking, and what
\* the network thread holds is cleared by doneWorking at the latest.
Listening ==
    \/ at[Net] \in {"determinePublic", "nodeTable", "doneWorking", "accepting"} \cup Turning \cup Resetting
    \/ FailedUntil({"doneWorking", "accepting"})

NetworkInv ==
    /\ m_tcp4Acceptor <=> Listening
    /\ m_accepting => m_tcp4Acceptor
    /\ m_nodeTable => at[Net] \in Turning /\ m_timer
    /\ at[Net] \in {"restoreNetwork", "run"} => m_nodeTable
    /\ m_sessions => at[Net] \in Turning \cup Resetting \cup Clearing

\* The capability has been started and doneWorking has not stopped it yet.
CapabilityOn ==
    \/ at[Net] \in {"capability", "listen", "determinePublic", "nodeTable", "doneWorking", "accepting",
                     "onStopping"} \cup Turning \cup Resetting
    \/ FailedUntil({"doneWorking", "accepting", "onStopping"})

CapabilityInv ==
    /\ cWork <=> (cThread # "none")
    /\ \/ cThread = "none" /\ cState = "Starting"
       \/ cThread \in {"stopped", "pause"} /\ cState = "Stopped"
       \/ /\ cThread \in {"check", "mark", "stopped", "pause"} /\ cState = "Starting"
          /\ at[Net] = "capability"
       \/ cThread \in {"started", "work", "leave"} /\ cState = "Started" /\ CapabilityOn
       \/ /\ cThread \in {"started", "work", "leave"} /\ cState = "Stopping"
          /\ at[Net] = "capabilityStops" \/ Active = "capabilityStops"

IInv == Typed /\ Turns /\ WorkerInv
Unharmed == ThreadInv /\ TimerInv /\ NetworkInv /\ CapabilityInv

\* What every step does: the second part is kept or a failure does harm.
Keeps == IInv' /\ (Unharmed => Unharmed' \/ Harmed')

-----------------------------------------------------------------------------
(***************************************************************************)
(* The place of the active user, before and after a step.                  *)
(***************************************************************************)
\* The one user inside a call is the one CHOOSE names.
LEMMA PlaceOf ==
    ASSUME NEW f, OneInside(f), NEW u \in Users, Inside(f, u)
    PROVE Place(f) = f[u]
<1> DEFINE w == CHOOSE v \in Users : Inside(f, v)
<1>1. w \in Users /\ Inside(f, w)
    OBVIOUS
<1>2. w = u
    BY <1>1 DEF OneInside
<1> QED
    BY <1>2 DEF Place

\* Nobody is inside a call.
LEMMA PlaceIdle ==
    ASSUME NEW f, \A u \in Users : ~ Inside(f, u)
    PROVE Place(f) = "idle"
BY DEF Place

\* A user that is inside a call, or calls while nobody else is, moves the active place.
LEMMA UserMoves ==
    ASSUME Typed, Turns, NEW u \in Users, NEW p \in Places,
           at[u] # "idle" \/ Alone(u), at' = [at EXCEPT ![u] = p]
    PROVE Active = at[u] /\ Active' = p /\ Turns' /\ at'[Net] = at[Net]
            /\ at' \in [Users \cup {Net} -> Places]
<1>1. u # Net /\ at' \in [Users \cup {Net} -> Places] /\ at'[u] = p /\ at'[Net] = at[Net]
    BY NetAssumption DEF Typed
<1>2. \A v \in Users : v # u => at[v] = "idle" /\ at'[v] = "idle"
    BY DEF Turns, OneInside, Inside, Alone, Typed
<1>3. Active = at[u]
    <2>1. CASE at[u] # "idle"
        BY <2>1, PlaceOf DEF Active, Turns, Inside
    <2>2. CASE at[u] = "idle"
        BY <2>2, <1>2, PlaceIdle DEF Active, Inside
    <2> QED
        BY <2>1, <2>2
<1>4. OneInside(at')
    BY <1>2 DEF OneInside, Inside
<1>5. Place(at') = p
    <2>1. CASE p # "idle"
        BY <2>1, <1>1, <1>4, PlaceOf DEF Inside
    <2>2. CASE p = "idle"
        BY <2>2, <1>1, <1>2, PlaceIdle DEF Inside
    <2> QED
        BY <2>1, <2>2
<1> QED
    BY <1>1, <1>3, <1>4, <1>5 DEF Active, Turns

\* The network thread leaves the users where they are.
LEMMA NetMoves ==
    ASSUME Typed, Turns, NEW p \in Places, at' = [at EXCEPT ![Net] = p]
    PROVE Active' = Active /\ Turns' /\ at'[Net] = p
            /\ at' \in [Users \cup {Net} -> Places]
<1>1. at' \in [Users \cup {Net} -> Places] /\ at'[Net] = p
    BY DEF Typed
<1>2. \A v \in Users : at'[v] = at[v]
    BY NetAssumption DEF Typed
<1>3. OneInside(at')
    BY <1>2 DEF Turns, OneInside, Inside
<1>4. Place(at') = Place(at)
    <2>1. CASE \E u \in Users : Inside(at, u)
        <3>1. PICK u \in Users : Inside(at, u)
            BY <2>1
        <3>2. Inside(at', u)
            BY <3>1, <1>2 DEF Inside
        <3>3. Place(at) = at[u]
            BY <3>1, PlaceOf DEF Turns
        <3>4. Place(at') = at'[u]
            BY <3>2, <1>3, PlaceOf
        <3> QED
            BY <3>3, <3>4, <1>2
    <2>2. CASE ~ \E u \in Users : Inside(at, u)
        <3>1. \A u \in Users : ~ Inside(at', u)
            BY <2>2, <1>2 DEF Inside
        <3> QED
            BY <2>2, <3>1, PlaceIdle
    <2> QED
        BY <2>1, <2>2
<1> QED
    BY <1>1, <1>3, <1>4 DEF Active, Turns

\* Nobody moves.
LEMMA NobodyMoves ==
    ASSUME Typed, Turns, at' = at
    PROVE Active' = Active /\ Turns' /\ at'[Net] = at[Net]
            /\ at' \in [Users \cup {Net} -> Places]
BY DEF Active, Turns, Typed

-----------------------------------------------------------------------------
(***************************************************************************)
(* Host::start and Host::stop.                                             *)
(***************************************************************************)

\* Host::start begins.
LEMMA StartKeeps ==
    ASSUME IInv, NEW u \in Users, Alone(u), Start(u)
    PROVE Keeps
<1>1. PICK p \in Places : p = "starting"
     BY DEF Places, Rising, Turning, Resetting, Clearing, Beginning, Before, Ending
<1>2. at' = [at EXCEPT ![u] = p] /\ (at[u] # "idle" \/ Alone(u))
     BY <1>1 DEF Start, Goes, IInv, Typed, H!StartWorking, H!Calls, H!NotifyAll
<1>3. /\ Active = at[u] /\ Active' = p /\ Turns' /\ at'[Net] = at[Net]
      /\ at' \in [Users \cup {Net} -> Places]
    BY <1>2, UserMoves DEF IInv
<1>4. Typed'
     BY <1>3 DEF IInv, Typed, Calling, Start, vars, hVars, cVars, timer, network, H!StartWorking,
        H!Calls, H!NotifyAll
<1>5. WorkerInv' /\ (Unharmed => Unharmed')
     BY <1>1, <1>2, <1>3 DEF IInv, Typed, Start, Goes, vars, hVars, cVars, timer, network, Unharmed,
        WorkerInv, ThreadInv, TimerInv, NetworkInv, CapabilityInv, CapabilityOn, FailedUntil,
        Listening, Rising, Turning, Resetting, Clearing, Beginning, Before, Ending, H!StartWorking,
        H!Calls, H!NotifyAll
<1> QED
    BY <1>3, <1>4, <1>5 DEF IInv, Keeps

\* The wait of startWorking.
LEMMA StartWaitsKeeps ==
    ASSUME IInv, NEW u \in Users, StartWaits(u)
    PROVE Keeps
<1>1. PICK p \in Places : p = IF hState = "Starting" THEN "starting" ELSE "awaitNetwork"
     BY DEF Places, Rising, Turning, Resetting, Clearing, Beginning, Before, Ending
<1>2. at' = [at EXCEPT ![u] = p] /\ (at[u] # "idle" \/ Alone(u))
     BY <1>1 DEF StartWaits, Goes, IInv, Typed, H!AwaitStarted, H!Calls, H!Wait
<1>3. /\ Active = at[u] /\ Active' = p /\ Turns' /\ at'[Net] = at[Net]
      /\ at' \in [Users \cup {Net} -> Places]
    BY <1>2, UserMoves DEF IInv
<1>4. Typed'
     BY <1>3 DEF IInv, Typed, Calling, StartWaits, vars, hVars, cVars, timer, network,
        H!AwaitStarted, H!Calls, H!Wait
<1>5. WorkerInv' /\ (Unharmed => Unharmed')
     BY <1>1, <1>2, <1>3 DEF IInv, Typed, StartWaits, Goes, vars, hVars, cVars, timer, network,
        Unharmed, WorkerInv, ThreadInv, TimerInv, NetworkInv, CapabilityInv, CapabilityOn,
        FailedUntil, Listening, Rising, Turning, Resetting, Clearing, Beginning, Before, Ending,
        H!AwaitStarted, H!Calls, H!Wait
<1> QED
    BY <1>3, <1>4, <1>5 DEF IInv, Keeps

\* The wait of start for the network.
LEMMA AwaitNetworkKeeps ==
    ASSUME IInv, NEW u \in Users, AwaitNetwork(u)
    PROVE Keeps
<1>1. PICK p \in Places : p = "isWorking"
     BY DEF Places, Rising, Turning, Resetting, Clearing, Beginning, Before, Ending
<1>2. at' = [at EXCEPT ![u] = p] /\ (at[u] # "idle" \/ Alone(u))
     BY <1>1 DEF AwaitNetwork, Goes, IInv, Typed, H!IsWorking, HaveNetwork
<1>3. /\ Active = at[u] /\ Active' = p /\ Turns' /\ at'[Net] = at[Net]
      /\ at' \in [Users \cup {Net} -> Places]
    BY <1>2, UserMoves DEF IInv
<1>4. Typed'
     BY <1>3 DEF IInv, Typed, Calling, AwaitNetwork, vars, hVars, cVars, timer, network,
        H!IsWorking, HaveNetwork
<1>5. WorkerInv' /\ (Unharmed => Unharmed')
     BY <1>1, <1>2, <1>3 DEF IInv, Typed, AwaitNetwork, Goes, vars, hVars, cVars, timer, network,
        Unharmed, WorkerInv, ThreadInv, TimerInv, NetworkInv, CapabilityInv, CapabilityOn,
        FailedUntil, Listening, Rising, Turning, Resetting, Clearing, Beginning, Before, Ending,
        H!IsWorking, HaveNetwork
<1> QED
    BY <1>3, <1>4, <1>5 DEF IInv, Keeps

\* The end of start, or the beginning of its doneWorking.
LEMMA StartReturnsKeeps ==
    ASSUME IInv, NEW u \in Users, StartReturns(u)
    PROVE Keeps
<1>1. PICK p \in Places : p = IF hState = "Started" THEN "idle" ELSE "doneWorking"
     BY DEF Places, Rising, Turning, Resetting, Clearing, Beginning, Before, Ending
<1>2. at' = [at EXCEPT ![u] = p] /\ (at[u] # "idle" \/ Alone(u))
     BY <1>1 DEF StartReturns, Goes, IInv, Typed, H!IsWorking
<1>3. /\ Active = at[u] /\ Active' = p /\ Turns' /\ at'[Net] = at[Net]
      /\ at' \in [Users \cup {Net} -> Places]
    BY <1>2, UserMoves DEF IInv
<1>4. Typed'
     BY <1>3 DEF IInv, Typed, Calling, StartReturns, vars, hVars, cVars, timer, network, H!IsWorking
<1>5. WorkerInv' /\ (Unharmed => Unharmed')
     BY <1>1, <1>2, <1>3 DEF IInv, Typed, StartReturns, Goes, vars, hVars, cVars, timer, network,
        Unharmed, WorkerInv, ThreadInv, TimerInv, NetworkInv, CapabilityInv, CapabilityOn,
        FailedUntil, Listening, Rising, Turning, Resetting, Clearing, Beginning, Before, Ending,
        H!IsWorking
<1> QED
    BY <1>3, <1>4, <1>5 DEF IInv, Keeps

\* Host::stop begins.
LEMMA StopKeeps ==
    ASSUME IInv, NEW u \in Users, Alone(u), Stop(u)
    PROVE Keeps
<1>1. PICK p \in Places : p = "timer"
     BY DEF Places, Rising, Turning, Resetting, Clearing, Beginning, Before, Ending
<1>2. at' = [at EXCEPT ![u] = p] /\ (at[u] # "idle" \/ Alone(u))
     BY <1>1 DEF Stop, Goes, IInv, Typed
<1>3. /\ Active = at[u] /\ Active' = p /\ Turns' /\ at'[Net] = at[Net]
      /\ at' \in [Users \cup {Net} -> Places]
    BY <1>2, UserMoves DEF IInv
<1>4. Typed'
     BY <1>3 DEF IInv, Typed, Calling, Stop, vars, hVars, cVars, timer, network
<1>5. WorkerInv' /\ (Unharmed => Unharmed')
     BY <1>1, <1>2, <1>3 DEF IInv, Typed, Stop, Goes, vars, hVars, cVars, timer, network, Unharmed,
        WorkerInv, ThreadInv, TimerInv, NetworkInv, CapabilityInv, CapabilityOn, FailedUntil,
        Listening, Rising, Turning, Resetting, Clearing, Beginning, Before, Ending
<1> QED
    BY <1>3, <1>4, <1>5 DEF IInv, Keeps

\* The destructor begins.
LEMMA DestroyKeeps ==
    ASSUME IInv, NEW u \in Users, Alone(u), Destroy(u)
    PROVE Keeps
<1>1. PICK p \in Places : p = IF m_run THEN "timer" ELSE "stopped"
     BY DEF Places, Rising, Turning, Resetting, Clearing, Beginning, Before, Ending
<1>2. at' = [at EXCEPT ![u] = p] /\ (at[u] # "idle" \/ Alone(u))
     BY <1>1 DEF Destroy, Goes, IInv, Typed
<1>3. /\ Active = at[u] /\ Active' = p /\ Turns' /\ at'[Net] = at[Net]
      /\ at' \in [Users \cup {Net} -> Places]
    BY <1>2, UserMoves DEF IInv
<1>4. Typed'
     BY <1>3 DEF IInv, Typed, Calling, Destroy, vars, hVars, cVars, timer, network
<1>5. WorkerInv' /\ (Unharmed => Unharmed')
     BY <1>1, <1>2, <1>3 DEF IInv, Typed, Destroy, Goes, vars, hVars, cVars, timer, network,
        Unharmed, WorkerInv, ThreadInv, TimerInv, NetworkInv, CapabilityInv, CapabilityOn,
        FailedUntil, Listening, Rising, Turning, Resetting, Clearing, Beginning, Before, Ending
<1> QED
    BY <1>3, <1>4, <1>5 DEF IInv, Keeps

\* The wait of stop for the timer.
LEMMA AwaitTimerKeeps ==
    ASSUME IInv, NEW u \in Users, AwaitTimer(u)
    PROVE Keeps
<1>1. PICK p \in Places : p = IF m_timer THEN "timer" ELSE "stop"
     BY DEF Places, Rising, Turning, Resetting, Clearing, Beginning, Before, Ending
<1>2. at' = [at EXCEPT ![u] = p] /\ (at[u] # "idle" \/ Alone(u))
     BY <1>1 DEF AwaitTimer, Goes, IInv, Typed
<1>3. /\ Active = at[u] /\ Active' = p /\ Turns' /\ at'[Net] = at[Net]
      /\ at' \in [Users \cup {Net} -> Places]
    BY <1>2, UserMoves DEF IInv
<1>4. Typed'
     BY <1>3 DEF IInv, Typed, Calling, AwaitTimer, vars, hVars, cVars, timer, network
<1>5. WorkerInv' /\ (Unharmed => Unharmed')
     BY <1>1, <1>2, <1>3 DEF IInv, Typed, AwaitTimer, Goes, vars, hVars, cVars, timer, network,
        Unharmed, WorkerInv, ThreadInv, TimerInv, NetworkInv, CapabilityInv, CapabilityOn,
        FailedUntil, Listening, Rising, Turning, Resetting, Clearing, Beginning, Before, Ending
<1> QED
    BY <1>3, <1>4, <1>5 DEF IInv, Keeps

\* stopWorking of the network thread begins.
LEMMA StopWorkerKeeps ==
    ASSUME IInv, NEW u \in Users, StopWorker(u)
    PROVE Keeps
<1>1. PICK p \in Places : p = IF H!Stoppable THEN "stopping" ELSE "stopped"
     BY DEF Places, Rising, Turning, Resetting, Clearing, Beginning, Before, Ending
<1>2. at' = [at EXCEPT ![u] = p] /\ (at[u] # "idle" \/ Alone(u))
     BY <1>1 DEF StopWorker, Goes, IInv, Typed, H!Stoppable, H!IsWorking, H!StopWorking, H!Calls,
        H!NotifyAll
<1>3. /\ Active = at[u] /\ Active' = p /\ Turns' /\ at'[Net] = at[Net]
      /\ at' \in [Users \cup {Net} -> Places]
    BY <1>2, UserMoves DEF IInv
<1>4. Typed'
     BY <1>3 DEF IInv, Typed, Calling, StopWorker, vars, hVars, cVars, timer, network, H!Stoppable,
        H!IsWorking, H!StopWorking, H!Calls, H!NotifyAll
<1>5. WorkerInv' /\ (Unharmed => Unharmed')
     BY <1>1, <1>2, <1>3 DEF IInv, Typed, StopWorker, Goes, vars, hVars, cVars, timer, network,
        Unharmed, WorkerInv, ThreadInv, TimerInv, NetworkInv, CapabilityInv, CapabilityOn,
        FailedUntil, Listening, Rising, Turning, Resetting, Clearing, Beginning, Before, Ending,
        H!Stoppable, H!IsWorking, H!StopWorking, H!Calls, H!NotifyAll
<1> QED
    BY <1>3, <1>4, <1>5 DEF IInv, Keeps

\* The wait of stopWorking.
LEMMA StopWaitsKeeps ==
    ASSUME IInv, NEW u \in Users, StopWaits(u)
    PROVE Keeps
<1>1. PICK p \in Places : p = IF hState = "Stopped" THEN "stopped" ELSE "stopping"
     BY DEF Places, Rising, Turning, Resetting, Clearing, Beginning, Before, Ending
<1>2. at' = [at EXCEPT ![u] = p] /\ (at[u] # "idle" \/ Alone(u))
     BY <1>1 DEF StopWaits, Goes, IInv, Typed, H!AwaitStopped, H!Calls, H!Wait
<1>3. /\ Active = at[u] /\ Active' = p /\ Turns' /\ at'[Net] = at[Net]
      /\ at' \in [Users \cup {Net} -> Places]
    BY <1>2, UserMoves DEF IInv
<1>4. Typed'
     BY <1>3 DEF IInv, Typed, Calling, StopWaits, vars, hVars, cVars, timer, network,
        H!AwaitStopped, H!Calls, H!Wait
<1>5. WorkerInv' /\ (Unharmed => Unharmed')
     BY <1>1, <1>2, <1>3 DEF IInv, Typed, StopWaits, Goes, vars, hVars, cVars, timer, network,
        Unharmed, WorkerInv, ThreadInv, TimerInv, NetworkInv, CapabilityInv, CapabilityOn,
        FailedUntil, Listening, Rising, Turning, Resetting, Clearing, Beginning, Before, Ending,
        H!AwaitStopped, H!Calls, H!Wait
<1> QED
    BY <1>3, <1>4, <1>5 DEF IInv, Keeps

\* The end of stop, or the beginning of terminate.
LEMMA StopReturnsKeeps ==
    ASSUME IInv, NEW u \in Users, StopReturns(u)
    PROVE Keeps
<1>1. PICK p \in Places : p = IF u \in destroying /\ H!Terminable THEN "terminate" ELSE "idle"
     BY DEF Places, Rising, Turning, Resetting, Clearing, Beginning, Before, Ending
<1>2. at' = [at EXCEPT ![u] = p] /\ (at[u] # "idle" \/ Alone(u))
     BY <1>1 DEF StopReturns, Goes, IInv, Typed, H!Terminable, H!Terminate, H!Calls
<1>3. /\ Active = at[u] /\ Active' = p /\ Turns' /\ at'[Net] = at[Net]
      /\ at' \in [Users \cup {Net} -> Places]
    BY <1>2, UserMoves DEF IInv
<1>4. Typed'
     BY <1>3 DEF IInv, Typed, Calling, StopReturns, vars, hVars, cVars, timer, network,
        H!Terminable, H!Terminate, H!Calls
<1>5. WorkerInv' /\ (Unharmed => Unharmed')
     BY <1>1, <1>2, <1>3 DEF IInv, Typed, StopReturns, Goes, vars, hVars, cVars, timer, network,
        Unharmed, WorkerInv, ThreadInv, TimerInv, NetworkInv, CapabilityInv, CapabilityOn,
        FailedUntil, Listening, Rising, Turning, Resetting, Clearing, Beginning, Before, Ending,
        H!Terminable, H!Terminate, H!Calls
<1> QED
    BY <1>3, <1>4, <1>5 DEF IInv, Keeps

\* The two steps of terminate.
LEMMA TerminatingKeeps ==
    ASSUME IInv, NEW u \in Users, Terminating(u)
    PROVE Keeps
<1>1. PICK p \in Places : p = IF hCaller'[u] = "idle" THEN "idle" ELSE "terminate"
     BY DEF Places, Rising, Turning, Resetting, Clearing, Beginning, Before, Ending
<1>2. at' = [at EXCEPT ![u] = p] /\ (at[u] # "idle" \/ Alone(u))
     BY <1>1 DEF Terminating, Goes, IInv, Typed, H!TerminateNotifies, H!TerminateJoined, H!Calls,
        H!NotifyAll
<1>3. /\ Active = at[u] /\ Active' = p /\ Turns' /\ at'[Net] = at[Net]
      /\ at' \in [Users \cup {Net} -> Places]
    BY <1>2, UserMoves DEF IInv
<1>4. Typed'
     BY <1>3 DEF IInv, Typed, Calling, Terminating, vars, hVars, cVars, timer, network,
        H!TerminateNotifies, H!TerminateJoined, H!Calls, H!NotifyAll
<1>5. WorkerInv' /\ (Unharmed => Unharmed')
     BY <1>1, <1>2, <1>3 DEF IInv, Typed, Terminating, Goes, vars, hVars, cVars, timer, network,
        Unharmed, WorkerInv, ThreadInv, TimerInv, NetworkInv, CapabilityInv, CapabilityOn,
        FailedUntil, Listening, Rising, Turning, Resetting, Clearing, Beginning, Before, Ending,
        H!TerminateNotifies, H!TerminateJoined, H!Calls, H!NotifyAll
<1> QED
    BY <1>3, <1>4, <1>5 DEF IInv, Keeps

-----------------------------------------------------------------------------
(***************************************************************************)
(* Host::startedWorking, run and doWork.                                   *)
(***************************************************************************)

\* The thread tells the callers and begins its work.
LEMMA HostWorksKeeps ==
    ASSUME IInv, HostWorks
    PROVE Keeps
<1>1. PICK p \in Places : p = "startedWorking"
     BY DEF Places, Rising, Turning, Resetting, Clearing, Beginning, Before, Ending
<1>2. at' = [at EXCEPT ![Net] = p]
     BY <1>1 DEF HostWorks, Goes, IInv, Typed, H!NotifyStarted, H!Runs, H!NotifyAll
<1>3. /\ Active' = Active /\ Turns' /\ at'[Net] = p
      /\ at' \in [Users \cup {Net} -> Places]
    BY <1>2, NetMoves DEF IInv
<1>4. Typed'
     BY <1>3 DEF IInv, Typed, Calling, HostWorks, vars, hVars, cVars, timer, network,
        H!NotifyStarted, H!Runs, H!NotifyAll
<1>5. WorkerInv' /\ (Unharmed => Unharmed')
     BY <1>1, <1>2, <1>3 DEF IInv, Typed, HostWorks, Goes, vars, hVars, cVars, timer, network,
        Unharmed, WorkerInv, ThreadInv, TimerInv, NetworkInv, CapabilityInv, CapabilityOn,
        FailedUntil, Listening, Rising, Turning, Resetting, Clearing, Beginning, Before, Ending,
        H!NotifyStarted, H!Runs, H!NotifyAll
<1> QED
    BY <1>3, <1>4, <1>5 DEF IInv, Keeps

\* The timer is made and the network runs.
LEMMA StartTimerKeeps ==
    ASSUME IInv, StartTimer
    PROVE Keeps
<1>1. PICK p \in Places : p = "onStarting"
     BY DEF Places, Rising, Turning, Resetting, Clearing, Beginning, Before, Ending
<1>2. at' = [at EXCEPT ![Net] = p]
     BY <1>1 DEF StartTimer, Goes, IInv, Typed
<1>3. /\ Active' = Active /\ Turns' /\ at'[Net] = p
      /\ at' \in [Users \cup {Net} -> Places]
    BY <1>2, NetMoves DEF IInv
<1>4. Typed'
     BY <1>3 DEF IInv, Typed, Calling, StartTimer, vars, hVars, cVars, timer, network
<1>5. WorkerInv' /\ (Unharmed => Unharmed')
     BY <1>1, <1>2, <1>3 DEF IInv, Typed, StartTimer, Goes, vars, hVars, cVars, timer, network,
        Unharmed, WorkerInv, ThreadInv, TimerInv, NetworkInv, CapabilityInv, CapabilityOn,
        FailedUntil, Listening, Rising, Turning, Resetting, Clearing, Beginning, Before, Ending
<1> QED
    BY <1>3, <1>4, <1>5 DEF IInv, Keeps

\* The capability is started.
LEMMA OnStartingKeeps ==
    ASSUME IInv, OnStarting
    PROVE Keeps
<1>1. PICK p \in Places : p = "capability"
     BY DEF Places, Rising, Turning, Resetting, Clearing, Beginning, Before, Ending
<1>2. at' = [at EXCEPT ![Net] = p]
     BY <1>1 DEF OnStarting, Goes, IInv, Typed, C!StartWorking, C!Calls, C!NotifyAll
<1>3. /\ Active' = Active /\ Turns' /\ at'[Net] = p
      /\ at' \in [Users \cup {Net} -> Places]
    BY <1>2, NetMoves DEF IInv
<1>4. Typed'
     BY <1>3 DEF IInv, Typed, Calling, OnStarting, vars, hVars, cVars, timer, network,
        C!StartWorking, C!Calls, C!NotifyAll
<1>5. WorkerInv' /\ (Unharmed => Unharmed')
     BY <1>1, <1>2, <1>3 DEF IInv, Typed, OnStarting, Goes, vars, hVars, cVars, timer, network,
        Unharmed, WorkerInv, ThreadInv, TimerInv, NetworkInv, CapabilityInv, CapabilityOn,
        FailedUntil, Listening, Rising, Turning, Resetting, Clearing, Beginning, Before, Ending,
        C!StartWorking, C!Calls, C!NotifyAll
<1> QED
    BY <1>3, <1>4, <1>5 DEF IInv, Keeps

\* The wait for the capability.
LEMMA CapabilityStartsKeeps ==
    ASSUME IInv, CapabilityStarts
    PROVE Keeps
<1>1. PICK p \in Places : p = IF cState = "Starting" THEN "capability" ELSE "listen"
     BY DEF Places, Rising, Turning, Resetting, Clearing, Beginning, Before, Ending
<1>2. at' = [at EXCEPT ![Net] = p]
     BY <1>1 DEF CapabilityStarts, Goes, IInv, Typed, C!AwaitStarted, C!Calls, C!Wait
<1>3. /\ Active' = Active /\ Turns' /\ at'[Net] = p
      /\ at' \in [Users \cup {Net} -> Places]
    BY <1>2, NetMoves DEF IInv
<1>4. Typed'
     BY <1>3 DEF IInv, Typed, Calling, CapabilityStarts, vars, hVars, cVars, timer, network,
        C!AwaitStarted, C!Calls, C!Wait
<1>5. WorkerInv' /\ (Unharmed => Unharmed')
     BY <1>1, <1>2, <1>3 DEF IInv, Typed, CapabilityStarts, Goes, vars, hVars, cVars, timer,
        network, Unharmed, WorkerInv, ThreadInv, TimerInv, NetworkInv, CapabilityInv, CapabilityOn,
        FailedUntil, Listening, Rising, Turning, Resetting, Clearing, Beginning, Before, Ending,
        C!AwaitStarted, C!Calls, C!Wait
<1> QED
    BY <1>3, <1>4, <1>5 DEF IInv, Keeps

\* The acceptor is opened.
LEMMA ListenKeeps ==
    ASSUME IInv, Listen
    PROVE Keeps
<1>1. PICK p \in Places : p = "determinePublic"
     BY DEF Places, Rising, Turning, Resetting, Clearing, Beginning, Before, Ending
<1>2. at' = [at EXCEPT ![Net] = p]
     BY <1>1 DEF Listen, Goes, IInv, Typed
<1>3. /\ Active' = Active /\ Turns' /\ at'[Net] = p
      /\ at' \in [Users \cup {Net} -> Places]
    BY <1>2, NetMoves DEF IInv
<1>4. Typed'
     BY <1>3 DEF IInv, Typed, Calling, Listen, vars, hVars, cVars, timer, network
<1>5. WorkerInv' /\ (Unharmed => Unharmed')
     BY <1>1, <1>2, <1>3 DEF IInv, Typed, Listen, Goes, vars, hVars, cVars, timer, network,
        Unharmed, WorkerInv, ThreadInv, TimerInv, NetworkInv, CapabilityInv, CapabilityOn,
        FailedUntil, Listening, Rising, Turning, Resetting, Clearing, Beginning, Before, Ending
<1> QED
    BY <1>3, <1>4, <1>5 DEF IInv, Keeps

\* There is no port.
LEMMA ListenFailsKeeps ==
    ASSUME IInv, ListenFails
    PROVE Keeps
<1>1. PICK p \in Places : p = "nodeTable"
     BY DEF Places, Rising, Turning, Resetting, Clearing, Beginning, Before, Ending
<1>2. at' = [at EXCEPT ![Net] = p]
     BY <1>1 DEF ListenFails, Goes, IInv, Typed
<1>3. /\ Active' = Active /\ Turns' /\ at'[Net] = p
      /\ at' \in [Users \cup {Net} -> Places]
    BY <1>2, NetMoves DEF IInv
<1>4. Typed'
     BY <1>3 DEF IInv, Typed, Calling, ListenFails, vars, hVars, cVars, timer, network
<1>5. WorkerInv' /\ (Unharmed => Unharmed' \/ Harmed')
     BY <1>1, <1>2, <1>3 DEF IInv, Typed, ListenFails, Goes, vars, hVars, cVars, timer, network,
        Unharmed, WorkerInv, ThreadInv, TimerInv, NetworkInv, CapabilityInv, CapabilityOn,
        FailedUntil, Listening, Rising, Turning, Resetting, Clearing, Beginning, Before, Ending,
        Harmed
<1> QED
    BY <1>3, <1>4, <1>5 DEF IInv, Keeps

\* The acceptor waits for a connection.
LEMMA RunAcceptorKeeps ==
    ASSUME IInv, RunAcceptor
    PROVE Keeps
<1>1. PICK p \in Places : p = "nodeTable"
     BY DEF Places, Rising, Turning, Resetting, Clearing, Beginning, Before, Ending
<1>2. at' = [at EXCEPT ![Net] = p]
     BY <1>1 DEF RunAcceptor, Goes, IInv, Typed
<1>3. /\ Active' = Active /\ Turns' /\ at'[Net] = p
      /\ at' \in [Users \cup {Net} -> Places]
    BY <1>2, NetMoves DEF IInv
<1>4. Typed'
     BY <1>3 DEF IInv, Typed, Calling, RunAcceptor, vars, hVars, cVars, timer, network
<1>5. WorkerInv' /\ (Unharmed => Unharmed')
     BY <1>1, <1>2, <1>3 DEF IInv, Typed, RunAcceptor, Goes, vars, hVars, cVars, timer, network,
        Unharmed, WorkerInv, ThreadInv, TimerInv, NetworkInv, CapabilityInv, CapabilityOn,
        FailedUntil, Listening, Rising, Turning, Resetting, Clearing, Beginning, Before, Ending
<1> QED
    BY <1>3, <1>4, <1>5 DEF IInv, Keeps

\* The node table is made.
LEMMA MakeNodeTableKeeps ==
    ASSUME IInv, MakeNodeTable
    PROVE Keeps
<1>1. PICK p \in Places : p = "restoreNetwork"
     BY DEF Places, Rising, Turning, Resetting, Clearing, Beginning, Before, Ending
<1>2. at' = [at EXCEPT ![Net] = p]
     BY <1>1 DEF MakeNodeTable, Goes, IInv, Typed
<1>3. /\ Active' = Active /\ Turns' /\ at'[Net] = p
      /\ at' \in [Users \cup {Net} -> Places]
    BY <1>2, NetMoves DEF IInv
<1>4. Typed'
     BY <1>3 DEF IInv, Typed, Calling, MakeNodeTable, vars, hVars, cVars, timer, network
<1>5. WorkerInv' /\ (Unharmed => Unharmed')
     BY <1>1, <1>2, <1>3 DEF IInv, Typed, MakeNodeTable, Goes, vars, hVars, cVars, timer, network,
        Unharmed, WorkerInv, ThreadInv, TimerInv, NetworkInv, CapabilityInv, CapabilityOn,
        FailedUntil, Listening, Rising, Turning, Resetting, Clearing, Beginning, Before, Ending
<1> QED
    BY <1>3, <1>4, <1>5 DEF IInv, Keeps

\* The saved peers are restored.
LEMMA RestoreNetworkKeeps ==
    ASSUME IInv, RestoreNetwork
    PROVE Keeps
<1>1. PICK p \in Places : p = "run"
     BY DEF Places, Rising, Turning, Resetting, Clearing, Beginning, Before, Ending
<1>2. at' = [at EXCEPT ![Net] = p]
     BY <1>1 DEF RestoreNetwork, Goes, IInv, Typed
<1>3. /\ Active' = Active /\ Turns' /\ at'[Net] = p
      /\ at' \in [Users \cup {Net} -> Places]
    BY <1>2, NetMoves DEF IInv
<1>4. Typed'
     BY <1>3 DEF IInv, Typed, Calling, RestoreNetwork, vars, hVars, cVars, timer, network
<1>5. WorkerInv' /\ (Unharmed => Unharmed')
     BY <1>1, <1>2, <1>3 DEF IInv, Typed, RestoreNetwork, Goes, vars, hVars, cVars, timer, network,
        Unharmed, WorkerInv, ThreadInv, TimerInv, NetworkInv, CapabilityInv, CapabilityOn,
        FailedUntil, Listening, Rising, Turning, Resetting, Clearing, Beginning, Before, Ending
<1> QED
    BY <1>3, <1>4, <1>5 DEF IInv, Keeps

\* startedWorking throws: the work ends without doneWorking.
LEMMA StartThrowsKeeps ==
    ASSUME IInv, StartThrows
    PROVE Keeps
<1>1. PICK p \in Places : p = "idle"
     BY DEF Places, Rising, Turning, Resetting, Clearing, Beginning, Before, Ending
<1>2. at' = [at EXCEPT ![Net] = p]
     BY <1>1 DEF StartThrows, Goes, IInv, Typed, H!WorkThrows, H!Runs
<1>3. /\ Active' = Active /\ Turns' /\ at'[Net] = p
      /\ at' \in [Users \cup {Net} -> Places]
    BY <1>2, NetMoves DEF IInv
<1>4. Typed'
     BY <1>3 DEF IInv, Typed, Calling, StartThrows, vars, hVars, cVars, timer, network,
        H!WorkThrows, H!Runs
<1>5. WorkerInv' /\ (Unharmed => Unharmed' \/ Harmed')
     BY <1>1, <1>2, <1>3 DEF IInv, Typed, StartThrows, Goes, vars, hVars, cVars, timer, network,
        Unharmed, WorkerInv, ThreadInv, TimerInv, NetworkInv, CapabilityInv, CapabilityOn,
        FailedUntil, Listening, Rising, Turning, Resetting, Clearing, Beginning, Before, Ending,
        Harmed, H!WorkThrows, H!Runs
<1> QED
    BY <1>3, <1>4, <1>5 DEF IInv, Keeps

\* The run of startedWorking.
LEMMA FirstRunKeeps ==
    ASSUME IInv, FirstRun
    PROVE Keeps
<1>1. PICK p \in Places : p = IF m_run THEN "workLoop" ELSE "resetTimer"
     BY DEF Places, Rising, Turning, Resetting, Clearing, Beginning, Before, Ending
<1>2. at' = [at EXCEPT ![Net] = p]
     BY <1>1 DEF FirstRun, Goes, IInv, Typed, Run
<1>3. /\ Active' = Active /\ Turns' /\ at'[Net] = p
      /\ at' \in [Users \cup {Net} -> Places]
    BY <1>2, NetMoves DEF IInv
<1>4. Typed'
     BY <1>3 DEF IInv, Typed, Calling, FirstRun, vars, hVars, cVars, timer, network, Run
<1>5. WorkerInv' /\ (Unharmed => Unharmed')
     BY <1>1, <1>2, <1>3 DEF IInv, Typed, FirstRun, Goes, vars, hVars, cVars, timer, network,
        Unharmed, WorkerInv, ThreadInv, TimerInv, NetworkInv, CapabilityInv, CapabilityOn,
        FailedUntil, Listening, Rising, Turning, Resetting, Clearing, Beginning, Before, Ending, Run
<1> QED
    BY <1>3, <1>4, <1>5 DEF IInv, Keeps

\* The run of the timer.
LEMMA TimerRunsKeeps ==
    ASSUME IInv, TimerRuns
    PROVE Keeps
<1>1. PICK p \in Places : p = IF m_run THEN "io" ELSE "resetTimer"
     BY DEF Places, Rising, Turning, Resetting, Clearing, Beginning, Before, Ending
<1>2. at' = [at EXCEPT ![Net] = p]
     BY <1>1 DEF TimerRuns, Goes, IInv, Typed, Run
<1>3. /\ Active' = Active /\ Turns' /\ at'[Net] = p
      /\ at' \in [Users \cup {Net} -> Places]
    BY <1>2, NetMoves DEF IInv
<1>4. Typed'
     BY <1>3 DEF IInv, Typed, Calling, TimerRuns, vars, hVars, cVars, timer, network, Run
<1>5. WorkerInv' /\ (Unharmed => Unharmed')
     BY <1>1, <1>2, <1>3 DEF IInv, Typed, TimerRuns, Goes, vars, hVars, cVars, timer, network,
        Unharmed, WorkerInv, ThreadInv, TimerInv, NetworkInv, CapabilityInv, CapabilityOn,
        FailedUntil, Listening, Rising, Turning, Resetting, Clearing, Beginning, Before, Ending, Run
<1> QED
    BY <1>3, <1>4, <1>5 DEF IInv, Keeps

\* The timer is gone.
LEMMA ResetTimerKeeps ==
    ASSUME IInv, ResetTimer
    PROVE Keeps
<1>1. PICK p \in Places : p = "notifyTimer"
     BY DEF Places, Rising, Turning, Resetting, Clearing, Beginning, Before, Ending
<1>2. at' = [at EXCEPT ![Net] = p]
     BY <1>1 DEF ResetTimer, Goes, IInv, Typed
<1>3. /\ Active' = Active /\ Turns' /\ at'[Net] = p
      /\ at' \in [Users \cup {Net} -> Places]
    BY <1>2, NetMoves DEF IInv
<1>4. Typed'
     BY <1>3 DEF IInv, Typed, Calling, ResetTimer, vars, hVars, cVars, timer, network
<1>5. WorkerInv' /\ (Unharmed => Unharmed')
     BY <1>1, <1>2, <1>3 DEF IInv, Typed, ResetTimer, Goes, vars, hVars, cVars, timer, network,
        Unharmed, WorkerInv, ThreadInv, TimerInv, NetworkInv, CapabilityInv, CapabilityOn,
        FailedUntil, Listening, Rising, Turning, Resetting, Clearing, Beginning, Before, Ending
<1> QED
    BY <1>3, <1>4, <1>5 DEF IInv, Keeps

\* Who waits for the timer is told.
LEMMA NotifyTimerKeeps ==
    ASSUME IInv, NotifyTimer
    PROVE Keeps
<1>1. PICK p \in Places : p = "workLoop"
     BY DEF Places, Rising, Turning, Resetting, Clearing, Beginning, Before, Ending
<1>2. at' = [at EXCEPT ![Net] = p]
     BY <1>1 DEF NotifyTimer, Goes, IInv, Typed
<1>3. /\ Active' = Active /\ Turns' /\ at'[Net] = p
      /\ at' \in [Users \cup {Net} -> Places]
    BY <1>2, NetMoves DEF IInv
<1>4. Typed'
     BY <1>3 DEF IInv, Typed, Calling, NotifyTimer, vars, hVars, cVars, timer, network
<1>5. WorkerInv' /\ (Unharmed => Unharmed')
     BY <1>1, <1>2, <1>3 DEF IInv, Typed, NotifyTimer, Goes, vars, hVars, cVars, timer, network,
        Unharmed, WorkerInv, ThreadInv, TimerInv, NetworkInv, CapabilityInv, CapabilityOn,
        FailedUntil, Listening, Rising, Turning, Resetting, Clearing, Beginning, Before, Ending
<1> QED
    BY <1>3, <1>4, <1>5 DEF IInv, Keeps

\* The loop goes on while the host works.
LEMMA WorkLoopKeeps ==
    ASSUME IInv, WorkLoop
    PROVE Keeps
<1>1. PICK p \in Places : p = IF hState = "Started" THEN "doWork" ELSE "doneWorking"
     BY DEF Places, Rising, Turning, Resetting, Clearing, Beginning, Before, Ending
<1>2. at' = [at EXCEPT ![Net] = p]
     BY <1>1 DEF WorkLoop, Goes, IInv, Typed, H!IsWorking
<1>3. /\ Active' = Active /\ Turns' /\ at'[Net] = p
      /\ at' \in [Users \cup {Net} -> Places]
    BY <1>2, NetMoves DEF IInv
<1>4. Typed'
     BY <1>3 DEF IInv, Typed, Calling, WorkLoop, vars, hVars, cVars, timer, network, H!IsWorking
<1>5. WorkerInv' /\ (Unharmed => Unharmed')
     BY <1>1, <1>2, <1>3 DEF IInv, Typed, WorkLoop, Goes, vars, hVars, cVars, timer, network,
        Unharmed, WorkerInv, ThreadInv, TimerInv, NetworkInv, CapabilityInv, CapabilityOn,
        FailedUntil, Listening, Rising, Turning, Resetting, Clearing, Beginning, Before, Ending,
        H!IsWorking
<1> QED
    BY <1>3, <1>4, <1>5 DEF IInv, Keeps

\* The io service is run.
LEMMA DoWorkKeeps ==
    ASSUME IInv, DoWork
    PROVE Keeps
<1>1. PICK p \in Places : p = IF m_run THEN "io" ELSE "workLoop"
     BY DEF Places, Rising, Turning, Resetting, Clearing, Beginning, Before, Ending
<1>2. at' = [at EXCEPT ![Net] = p]
     BY <1>1 DEF DoWork, Goes, IInv, Typed
<1>3. /\ Active' = Active /\ Turns' /\ at'[Net] = p
      /\ at' \in [Users \cup {Net} -> Places]
    BY <1>2, NetMoves DEF IInv
<1>4. Typed'
     BY <1>3 DEF IInv, Typed, Calling, DoWork, vars, hVars, cVars, timer, network
<1>5. WorkerInv' /\ (Unharmed => Unharmed')
     BY <1>1, <1>2, <1>3 DEF IInv, Typed, DoWork, Goes, vars, hVars, cVars, timer, network,
        Unharmed, WorkerInv, ThreadInv, TimerInv, NetworkInv, CapabilityInv, CapabilityOn,
        FailedUntil, Listening, Rising, Turning, Resetting, Clearing, Beginning, Before, Ending
<1> QED
    BY <1>3, <1>4, <1>5 DEF IInv, Keeps

\* A handler throws and the loop goes on.
LEMMA HandlerThrowsKeeps ==
    ASSUME IInv, HandlerThrows
    PROVE Keeps
<1>1. PICK p \in Places : p = "workLoop"
     BY DEF Places, Rising, Turning, Resetting, Clearing, Beginning, Before, Ending
<1>2. at' = [at EXCEPT ![Net] = p]
     BY <1>1 DEF HandlerThrows, Goes, IInv, Typed
<1>3. /\ Active' = Active /\ Turns' /\ at'[Net] = p
      /\ at' \in [Users \cup {Net} -> Places]
    BY <1>2, NetMoves DEF IInv
<1>4. Typed'
     BY <1>3 DEF IInv, Typed, Calling, HandlerThrows, vars, hVars, cVars, timer, network
<1>5. WorkerInv' /\ (Unharmed => Unharmed')
     BY <1>1, <1>2, <1>3 DEF IInv, Typed, HandlerThrows, Goes, vars, hVars, cVars, timer, network,
        Unharmed, WorkerInv, ThreadInv, TimerInv, NetworkInv, CapabilityInv, CapabilityOn,
        FailedUntil, Listening, Rising, Turning, Resetting, Clearing, Beginning, Before, Ending
<1> QED
    BY <1>3, <1>4, <1>5 DEF IInv, Keeps

\* The acceptor's handler.
LEMMA AcceptKeeps ==
    ASSUME IInv, Accept
    PROVE Keeps
<1>1. at' = at
     BY DEF Accept
<1>2. /\ Active' = Active /\ Turns' /\ at'[Net] = at[Net]
      /\ at' \in [Users \cup {Net} -> Places]
    BY <1>1, NobodyMoves DEF IInv
<1>3. Typed'
     BY <1>2 DEF IInv, Typed, Accept, vars, hVars, cVars, timer, network
<1>4. WorkerInv' /\ (Unharmed => Unharmed')
     BY <1>2 DEF IInv, Accept, vars, hVars, cVars, timer, network, Unharmed, WorkerInv, ThreadInv,
        TimerInv, NetworkInv, CapabilityInv, CapabilityOn, FailedUntil, Listening, Rising, Turning,
        Resetting, Clearing, Beginning, Before, Ending
<1> QED
    BY <1>2, <1>3, <1>4 DEF IInv, Keeps

\* A peer's session begins.
LEMMA StartPeerSessionKeeps ==
    ASSUME IInv, StartPeerSession
    PROVE Keeps
<1>1. at' = at
     BY DEF StartPeerSession
<1>2. /\ Active' = Active /\ Turns' /\ at'[Net] = at[Net]
      /\ at' \in [Users \cup {Net} -> Places]
    BY <1>1, NobodyMoves DEF IInv
<1>3. Typed'
     BY <1>2 DEF IInv, Typed, StartPeerSession, vars, hVars, cVars, timer, network
<1>4. WorkerInv' /\ (Unharmed => Unharmed')
     BY <1>2 DEF IInv, StartPeerSession, vars, hVars, cVars, timer, network, Unharmed, WorkerInv,
        ThreadInv, TimerInv, NetworkInv, CapabilityInv, CapabilityOn, FailedUntil, Listening,
        Rising, Turning, Resetting, Clearing, Beginning, Before, Ending
<1> QED
    BY <1>2, <1>3, <1>4 DEF IInv, Keeps

\* The work of the network thread ends.
LEMMA HostWorkedKeeps ==
    ASSUME IInv, HostWorked
    PROVE Keeps
<1>1. PICK p \in Places : p = "idle"
     BY DEF Places, Rising, Turning, Resetting, Clearing, Beginning, Before, Ending
<1>2. at' = [at EXCEPT ![Net] = p]
     BY <1>1 DEF HostWorked, Goes, IInv, Typed, H!WorkEnds, H!Runs
<1>3. /\ Active' = Active /\ Turns' /\ at'[Net] = p
      /\ at' \in [Users \cup {Net} -> Places]
    BY <1>2, NetMoves DEF IInv
<1>4. Typed'
     BY <1>3 DEF IInv, Typed, Calling, HostWorked, vars, hVars, cVars, timer, network, H!WorkEnds,
        H!Runs
<1>5. WorkerInv' /\ (Unharmed => Unharmed')
     BY <1>1, <1>2, <1>3 DEF IInv, Typed, HostWorked, Goes, vars, hVars, cVars, timer, network,
        Unharmed, WorkerInv, ThreadInv, TimerInv, NetworkInv, CapabilityInv, CapabilityOn,
        FailedUntil, Listening, Rising, Turning, Resetting, Clearing, Beginning, Before, Ending,
        H!WorkEnds, H!Runs
<1> QED
    BY <1>3, <1>4, <1>5 DEF IInv, Keeps

-----------------------------------------------------------------------------
(***************************************************************************)
(* Host::doneWorking, by a user and by the network thread.                 *)
(***************************************************************************)

\* The io service is reset, by the user whose start failed.
LEMMA UserResetIoKeeps ==
    ASSUME IInv, NEW u \in Users, ResetIo(u)
    PROVE Keeps
<1>1. PICK p \in Places : p = "accepting"
     BY DEF Places, Rising, Turning, Resetting, Clearing, Beginning, Before, Ending
<1>2. at' = [at EXCEPT ![u] = p] /\ (at[u] # "idle" \/ Alone(u))
     BY <1>1 DEF ResetIo, Goes, IInv, Typed
<1>3. /\ Active = at[u] /\ Active' = p /\ Turns' /\ at'[Net] = at[Net]
      /\ at' \in [Users \cup {Net} -> Places]
    BY <1>2, UserMoves DEF IInv
<1>4. Typed'
     BY <1>3 DEF IInv, Typed, Calling, ResetIo, vars, hVars, cVars, timer, network
<1>5. WorkerInv' /\ (Unharmed => Unharmed')
     BY <1>1, <1>2, <1>3 DEF IInv, Typed, ResetIo, Goes, vars, hVars, cVars, timer, network,
        Unharmed, WorkerInv, ThreadInv, TimerInv, NetworkInv, CapabilityInv, CapabilityOn,
        FailedUntil, Listening, Rising, Turning, Resetting, Clearing, Beginning, Before, Ending
<1> QED
    BY <1>3, <1>4, <1>5 DEF IInv, Keeps

\* The acceptor is cancelled, by the user whose start failed.
LEMMA UserAcceptorEndsKeeps ==
    ASSUME IInv, NEW u \in Users, AcceptorEnds(u)
    PROVE Keeps
<1>1. PICK p \in Places : p = "onStopping"
     BY DEF Places, Rising, Turning, Resetting, Clearing, Beginning, Before, Ending
<1>2. at' = [at EXCEPT ![u] = p] /\ (at[u] # "idle" \/ Alone(u))
     BY <1>1 DEF AcceptorEnds, Goes, IInv, Typed
<1>3. /\ Active = at[u] /\ Active' = p /\ Turns' /\ at'[Net] = at[Net]
      /\ at' \in [Users \cup {Net} -> Places]
    BY <1>2, UserMoves DEF IInv
<1>4. Typed'
     BY <1>3 DEF IInv, Typed, Calling, AcceptorEnds, vars, hVars, cVars, timer, network
<1>5. WorkerInv' /\ (Unharmed => Unharmed')
     BY <1>1, <1>2, <1>3 DEF IInv, Typed, AcceptorEnds, Goes, vars, hVars, cVars, timer, network,
        Unharmed, WorkerInv, ThreadInv, TimerInv, NetworkInv, CapabilityInv, CapabilityOn,
        FailedUntil, Listening, Rising, Turning, Resetting, Clearing, Beginning, Before, Ending
<1> QED
    BY <1>3, <1>4, <1>5 DEF IInv, Keeps

\* To cancel a closed acceptor throws, by the user whose start failed.
LEMMA UserCancelThrowsKeeps ==
    ASSUME IInv, NEW u \in Users, CancelThrows(u)
    PROVE Keeps
<1>1. PICK p \in Places : p = "idle"
     BY DEF Places, Rising, Turning, Resetting, Clearing, Beginning, Before, Ending
<1>2. at' = [at EXCEPT ![u] = p] /\ (at[u] # "idle" \/ Alone(u))
     BY <1>1, NetAssumption DEF CancelThrows, Goes, IInv, Typed, H!WorkThrows, H!Runs
<1>3. /\ Active = at[u] /\ Active' = p /\ Turns' /\ at'[Net] = at[Net]
      /\ at' \in [Users \cup {Net} -> Places]
    BY <1>2, UserMoves DEF IInv
<1>4. Typed'
     BY <1>3 DEF IInv, Typed, Calling, CancelThrows, vars, hVars, cVars, timer, network,
        H!WorkThrows, H!Runs
<1>5. WorkerInv' /\ (Unharmed => Unharmed')
     BY <1>1, <1>2, <1>3 DEF IInv, Typed, CancelThrows, Goes, vars, hVars, cVars, timer, network,
        Unharmed, WorkerInv, ThreadInv, TimerInv, NetworkInv, CapabilityInv, CapabilityOn,
        FailedUntil, Listening, Rising, Turning, Resetting, Clearing, Beginning, Before, Ending,
        H!WorkThrows, H!Runs
<1> QED
    BY <1>3, <1>4, <1>5 DEF IInv, Keeps

\* The capability is stopped, by the user whose start failed.
LEMMA UserOnStoppingKeeps ==
    ASSUME IInv, NEW u \in Users, OnStopping(u)
    PROVE Keeps
<1>1. PICK p \in Places : p = IF C!Stoppable THEN "capabilityStops" ELSE "clear"
     BY DEF Places, Rising, Turning, Resetting, Clearing, Beginning, Before, Ending
<1>2. at' = [at EXCEPT ![u] = p] /\ (at[u] # "idle" \/ Alone(u))
     BY <1>1 DEF OnStopping, Goes, IInv, Typed, C!Stoppable, C!IsWorking, C!StopWorking, C!Calls,
        C!NotifyAll
<1>3. /\ Active = at[u] /\ Active' = p /\ Turns' /\ at'[Net] = at[Net]
      /\ at' \in [Users \cup {Net} -> Places]
    BY <1>2, UserMoves DEF IInv
<1>4. Typed'
     BY <1>3 DEF IInv, Typed, Calling, OnStopping, vars, hVars, cVars, timer, network, C!Stoppable,
        C!IsWorking, C!StopWorking, C!Calls, C!NotifyAll
<1>5. WorkerInv' /\ (Unharmed => Unharmed')
     BY <1>1, <1>2, <1>3 DEF IInv, Typed, OnStopping, Goes, vars, hVars, cVars, timer, network,
        Unharmed, WorkerInv, ThreadInv, TimerInv, NetworkInv, CapabilityInv, CapabilityOn,
        FailedUntil, Listening, Rising, Turning, Resetting, Clearing, Beginning, Before, Ending,
        C!Stoppable, C!IsWorking, C!StopWorking, C!Calls, C!NotifyAll
<1> QED
    BY <1>3, <1>4, <1>5 DEF IInv, Keeps

\* The wait for the capability, by the user whose start failed.
LEMMA UserCapabilityStopsKeeps ==
    ASSUME IInv, NEW u \in Users, CapabilityStops(u)
    PROVE Keeps
<1>1. PICK p \in Places : p = IF cState = "Stopped" THEN "clear" ELSE "capabilityStops"
     BY DEF Places, Rising, Turning, Resetting, Clearing, Beginning, Before, Ending
<1>2. at' = [at EXCEPT ![u] = p] /\ (at[u] # "idle" \/ Alone(u))
     BY <1>1 DEF CapabilityStops, Goes, IInv, Typed, C!AwaitStopped, C!Calls, C!Wait
<1>3. /\ Active = at[u] /\ Active' = p /\ Turns' /\ at'[Net] = at[Net]
      /\ at' \in [Users \cup {Net} -> Places]
    BY <1>2, UserMoves DEF IInv
<1>4. Typed'
     BY <1>3 DEF IInv, Typed, Calling, CapabilityStops, vars, hVars, cVars, timer, network,
        C!AwaitStopped, C!Calls, C!Wait
<1>5. WorkerInv' /\ (Unharmed => Unharmed')
     BY <1>1, <1>2, <1>3 DEF IInv, Typed, CapabilityStops, Goes, vars, hVars, cVars, timer, network,
        Unharmed, WorkerInv, ThreadInv, TimerInv, NetworkInv, CapabilityInv, CapabilityOn,
        FailedUntil, Listening, Rising, Turning, Resetting, Clearing, Beginning, Before, Ending,
        C!AwaitStopped, C!Calls, C!Wait
<1> QED
    BY <1>3, <1>4, <1>5 DEF IInv, Keeps

\* The sessions are cleared, by the user whose start failed.
LEMMA UserClearSessionsKeeps ==
    ASSUME IInv, NEW u \in Users, ClearSessions(u)
    PROVE Keeps
<1>1. PICK p \in Places : p = "idle"
     BY DEF Places, Rising, Turning, Resetting, Clearing, Beginning, Before, Ending
<1>2. at' = [at EXCEPT ![u] = p] /\ (at[u] # "idle" \/ Alone(u))
     BY <1>1, NetAssumption DEF ClearSessions, Goes, IInv, Typed
<1>3. /\ Active = at[u] /\ Active' = p /\ Turns' /\ at'[Net] = at[Net]
      /\ at' \in [Users \cup {Net} -> Places]
    BY <1>2, UserMoves DEF IInv
<1>4. Typed'
     BY <1>3 DEF IInv, Typed, Calling, ClearSessions, vars, hVars, cVars, timer, network
<1>5. WorkerInv' /\ (Unharmed => Unharmed')
     BY <1>1, <1>2, <1>3 DEF IInv, Typed, ClearSessions, Goes, vars, hVars, cVars, timer, network,
        Unharmed, WorkerInv, ThreadInv, TimerInv, NetworkInv, CapabilityInv, CapabilityOn,
        FailedUntil, Listening, Rising, Turning, Resetting, Clearing, Beginning, Before, Ending
<1> QED
    BY <1>3, <1>4, <1>5 DEF IInv, Keeps

\* The io service is reset, by the network thread.
LEMMA NetResetIoKeeps ==
    ASSUME IInv, ResetIo(Net)
    PROVE Keeps
<1>1. PICK p \in Places : p = "accepting"
     BY DEF Places, Rising, Turning, Resetting, Clearing, Beginning, Before, Ending
<1>2. at' = [at EXCEPT ![Net] = p]
     BY <1>1 DEF ResetIo, Goes, IInv, Typed
<1>3. /\ Active' = Active /\ Turns' /\ at'[Net] = p
      /\ at' \in [Users \cup {Net} -> Places]
    BY <1>2, NetMoves DEF IInv
<1>4. Typed'
     BY <1>3 DEF IInv, Typed, Calling, ResetIo, vars, hVars, cVars, timer, network
<1>5. WorkerInv' /\ (Unharmed => Unharmed')
     BY <1>1, <1>2, <1>3 DEF IInv, Typed, ResetIo, Goes, vars, hVars, cVars, timer, network,
        Unharmed, WorkerInv, ThreadInv, TimerInv, NetworkInv, CapabilityInv, CapabilityOn,
        FailedUntil, Listening, Rising, Turning, Resetting, Clearing, Beginning, Before, Ending
<1> QED
    BY <1>3, <1>4, <1>5 DEF IInv, Keeps

\* The acceptor is cancelled, by the network thread.
LEMMA NetAcceptorEndsKeeps ==
    ASSUME IInv, AcceptorEnds(Net)
    PROVE Keeps
<1>1. PICK p \in Places : p = "onStopping"
     BY DEF Places, Rising, Turning, Resetting, Clearing, Beginning, Before, Ending
<1>2. at' = [at EXCEPT ![Net] = p]
     BY <1>1 DEF AcceptorEnds, Goes, IInv, Typed
<1>3. /\ Active' = Active /\ Turns' /\ at'[Net] = p
      /\ at' \in [Users \cup {Net} -> Places]
    BY <1>2, NetMoves DEF IInv
<1>4. Typed'
     BY <1>3 DEF IInv, Typed, Calling, AcceptorEnds, vars, hVars, cVars, timer, network
<1>5. WorkerInv' /\ (Unharmed => Unharmed')
     BY <1>1, <1>2, <1>3 DEF IInv, Typed, AcceptorEnds, Goes, vars, hVars, cVars, timer, network,
        Unharmed, WorkerInv, ThreadInv, TimerInv, NetworkInv, CapabilityInv, CapabilityOn,
        FailedUntil, Listening, Rising, Turning, Resetting, Clearing, Beginning, Before, Ending
<1> QED
    BY <1>3, <1>4, <1>5 DEF IInv, Keeps

\* To cancel a closed acceptor throws, by the network thread.
LEMMA NetCancelThrowsKeeps ==
    ASSUME IInv, CancelThrows(Net)
    PROVE Keeps
<1>1. PICK p \in Places : p = "idle"
     BY DEF Places, Rising, Turning, Resetting, Clearing, Beginning, Before, Ending
<1>2. at' = [at EXCEPT ![Net] = p]
     BY <1>1, NetAssumption DEF CancelThrows, Goes, IInv, Typed, H!WorkThrows, H!Runs
<1>3. /\ Active' = Active /\ Turns' /\ at'[Net] = p
      /\ at' \in [Users \cup {Net} -> Places]
    BY <1>2, NetMoves DEF IInv
<1>4. Typed'
     BY <1>3 DEF IInv, Typed, Calling, CancelThrows, vars, hVars, cVars, timer, network,
        H!WorkThrows, H!Runs
<1>5. WorkerInv' /\ (Unharmed => Unharmed')
     BY <1>1, <1>2, <1>3 DEF IInv, Typed, CancelThrows, Goes, vars, hVars, cVars, timer, network,
        Unharmed, WorkerInv, ThreadInv, TimerInv, NetworkInv, CapabilityInv, CapabilityOn,
        FailedUntil, Listening, Rising, Turning, Resetting, Clearing, Beginning, Before, Ending,
        H!WorkThrows, H!Runs
<1> QED
    BY <1>3, <1>4, <1>5 DEF IInv, Keeps

\* The capability is stopped, by the network thread.
LEMMA NetOnStoppingKeeps ==
    ASSUME IInv, OnStopping(Net)
    PROVE Keeps
<1>1. PICK p \in Places : p = IF C!Stoppable THEN "capabilityStops" ELSE "clear"
     BY DEF Places, Rising, Turning, Resetting, Clearing, Beginning, Before, Ending
<1>2. at' = [at EXCEPT ![Net] = p]
     BY <1>1 DEF OnStopping, Goes, IInv, Typed, C!Stoppable, C!IsWorking, C!StopWorking, C!Calls,
        C!NotifyAll
<1>3. /\ Active' = Active /\ Turns' /\ at'[Net] = p
      /\ at' \in [Users \cup {Net} -> Places]
    BY <1>2, NetMoves DEF IInv
<1>4. Typed'
     BY <1>3 DEF IInv, Typed, Calling, OnStopping, vars, hVars, cVars, timer, network, C!Stoppable,
        C!IsWorking, C!StopWorking, C!Calls, C!NotifyAll
<1>5. WorkerInv' /\ (Unharmed => Unharmed')
     BY <1>1, <1>2, <1>3 DEF IInv, Typed, OnStopping, Goes, vars, hVars, cVars, timer, network,
        Unharmed, WorkerInv, ThreadInv, TimerInv, NetworkInv, CapabilityInv, CapabilityOn,
        FailedUntil, Listening, Rising, Turning, Resetting, Clearing, Beginning, Before, Ending,
        C!Stoppable, C!IsWorking, C!StopWorking, C!Calls, C!NotifyAll
<1> QED
    BY <1>3, <1>4, <1>5 DEF IInv, Keeps

\* The wait for the capability, by the network thread.
LEMMA NetCapabilityStopsKeeps ==
    ASSUME IInv, CapabilityStops(Net)
    PROVE Keeps
<1>1. PICK p \in Places : p = IF cState = "Stopped" THEN "clear" ELSE "capabilityStops"
     BY DEF Places, Rising, Turning, Resetting, Clearing, Beginning, Before, Ending
<1>2. at' = [at EXCEPT ![Net] = p]
     BY <1>1 DEF CapabilityStops, Goes, IInv, Typed, C!AwaitStopped, C!Calls, C!Wait
<1>3. /\ Active' = Active /\ Turns' /\ at'[Net] = p
      /\ at' \in [Users \cup {Net} -> Places]
    BY <1>2, NetMoves DEF IInv
<1>4. Typed'
     BY <1>3 DEF IInv, Typed, Calling, CapabilityStops, vars, hVars, cVars, timer, network,
        C!AwaitStopped, C!Calls, C!Wait
<1>5. WorkerInv' /\ (Unharmed => Unharmed')
     BY <1>1, <1>2, <1>3 DEF IInv, Typed, CapabilityStops, Goes, vars, hVars, cVars, timer, network,
        Unharmed, WorkerInv, ThreadInv, TimerInv, NetworkInv, CapabilityInv, CapabilityOn,
        FailedUntil, Listening, Rising, Turning, Resetting, Clearing, Beginning, Before, Ending,
        C!AwaitStopped, C!Calls, C!Wait
<1> QED
    BY <1>3, <1>4, <1>5 DEF IInv, Keeps

\* The sessions are cleared, by the network thread.
LEMMA NetClearSessionsKeeps ==
    ASSUME IInv, ClearSessions(Net)
    PROVE Keeps
<1>1. PICK p \in Places : p = "worked"
     BY DEF Places, Rising, Turning, Resetting, Clearing, Beginning, Before, Ending
<1>2. at' = [at EXCEPT ![Net] = p]
     BY <1>1, NetAssumption DEF ClearSessions, Goes, IInv, Typed
<1>3. /\ Active' = Active /\ Turns' /\ at'[Net] = p
      /\ at' \in [Users \cup {Net} -> Places]
    BY <1>2, NetMoves DEF IInv
<1>4. Typed'
     BY <1>3 DEF IInv, Typed, Calling, ClearSessions, vars, hVars, cVars, timer, network
<1>5. WorkerInv' /\ (Unharmed => Unharmed')
     BY <1>1, <1>2, <1>3 DEF IInv, Typed, ClearSessions, Goes, vars, hVars, cVars, timer, network,
        Unharmed, WorkerInv, ThreadInv, TimerInv, NetworkInv, CapabilityInv, CapabilityOn,
        FailedUntil, Listening, Rising, Turning, Resetting, Clearing, Beginning, Before, Ending
<1> QED
    BY <1>3, <1>4, <1>5 DEF IInv, Keeps

-----------------------------------------------------------------------------
(***************************************************************************)
(* The threads of the two workers.                                         *)
(***************************************************************************)

\* The thread of the host outside its work.
LEMMA HostThreadKeeps ==
    ASSUME IInv, HostThread
    PROVE Keeps
<1>1. at' = at
     BY DEF HostThread
<1>2. /\ Active' = Active /\ Turns' /\ at'[Net] = at[Net]
      /\ at' \in [Users \cup {Net} -> Places]
    BY <1>1, NobodyMoves DEF IInv
<1>3. Typed'
     BY <1>2 DEF IInv, Typed, HostThread, vars, hVars, cVars, timer, network, H!ThreadCheck,
        H!ThreadStarted, H!ThreadStopped, H!NotifyStopped, H!Pause, H!Runs
<1>4. WorkerInv' /\ (Unharmed => Unharmed')
     BY <1>2 DEF IInv, HostThread, vars, hVars, cVars, timer, network, Unharmed, WorkerInv,
        ThreadInv, TimerInv, NetworkInv, CapabilityInv, CapabilityOn, FailedUntil, Listening,
        Rising, Turning, Resetting, Clearing, Beginning, Before, Ending, H!ThreadCheck,
        H!ThreadStarted, H!ThreadStopped, H!NotifyStopped, H!Pause, H!Runs
<1> QED
    BY <1>2, <1>3, <1>4 DEF IInv, Keeps

\* The thread of the capability.
LEMMA CapabilityThreadKeeps ==
    ASSUME IInv, CapabilityThread
    PROVE Keeps
<1>1. at' = at
     BY DEF CapabilityThread
<1>2. /\ Active' = Active /\ Turns' /\ at'[Net] = at[Net]
      /\ at' \in [Users \cup {Net} -> Places]
    BY <1>1, NobodyMoves DEF IInv
<1>3. Typed'
     BY <1>2 DEF IInv, Typed, CapabilityThread, vars, hVars, cVars, timer, network, C!ThreadCheck,
        C!ThreadStarted, C!NotifyStarted, C!WorkEnds, C!ThreadStopped, C!NotifyStopped, C!Pause,
        C!Runs
<1>4. WorkerInv' /\ (Unharmed => Unharmed')
     BY <1>2 DEF IInv, CapabilityThread, vars, hVars, cVars, timer, network, Unharmed, WorkerInv,
        ThreadInv, TimerInv, NetworkInv, CapabilityInv, CapabilityOn, FailedUntil, Listening,
        Rising, Turning, Resetting, Clearing, Beginning, Before, Ending, C!ThreadCheck,
        C!ThreadStarted, C!NotifyStarted, C!WorkEnds, C!ThreadStopped, C!NotifyStopped, C!Pause,
        C!Runs
<1> QED
    BY <1>2, <1>3, <1>4 DEF IInv, Keeps

\* The work of the capability throws.
LEMMA CapabilityThrowsKeeps ==
    ASSUME IInv, CapabilityThrows
    PROVE Keeps
<1>1. at' = at
     BY DEF CapabilityThrows
<1>2. /\ Active' = Active /\ Turns' /\ at'[Net] = at[Net]
      /\ at' \in [Users \cup {Net} -> Places]
    BY <1>1, NobodyMoves DEF IInv
<1>3. Typed'
     BY <1>2 DEF IInv, Typed, CapabilityThrows, vars, hVars, cVars, timer, network, C!WorkThrows,
        C!Runs
<1>4. WorkerInv' /\ (Unharmed => Unharmed')
     BY <1>2 DEF IInv, CapabilityThrows, vars, hVars, cVars, timer, network, Unharmed, WorkerInv,
        ThreadInv, TimerInv, NetworkInv, CapabilityInv, CapabilityOn, FailedUntil, Listening,
        Rising, Turning, Resetting, Clearing, Beginning, Before, Ending, C!WorkThrows, C!Runs
<1> QED
    BY <1>2, <1>3, <1>4 DEF IInv, Keeps

\* A wait ends for nothing.
LEMMA SpuriousWakeupKeeps ==
    ASSUME IInv, SpuriousWakeup
    PROVE Keeps
<1>1. at' = at
     BY DEF SpuriousWakeup
<1>2. /\ Active' = Active /\ Turns' /\ at'[Net] = at[Net]
      /\ at' \in [Users \cup {Net} -> Places]
    BY <1>1, NobodyMoves DEF IInv
<1>3. Typed'
     BY <1>2 DEF IInv, Typed, SpuriousWakeup, vars, hVars, cVars, timer, network, H!SpuriousWakeup,
        C!SpuriousWakeup
<1>4. WorkerInv' /\ (Unharmed => Unharmed')
     BY <1>2 DEF IInv, SpuriousWakeup, vars, hVars, cVars, timer, network, Unharmed, WorkerInv,
        ThreadInv, TimerInv, NetworkInv, CapabilityInv, CapabilityOn, FailedUntil, Listening,
        Rising, Turning, Resetting, Clearing, Beginning, Before, Ending, H!SpuriousWakeup,
        C!SpuriousWakeup
<1> QED
    BY <1>2, <1>3, <1>4 DEF IInv, Keeps

-----------------------------------------------------------------------------
(***************************************************************************)
(* The theorem.                                                            *)
(***************************************************************************)

\* Every step of users that take turns keeps the invariant.
LEMMA StepKeeps ==
    ASSUME IInv, [SerialNext]_vars
    PROVE Keeps
<1>1. ASSUME NEW u \in Users, Alone(u), Call(u) PROVE Keeps
    BY <1>1, StartKeeps, StopKeeps, DestroyKeeps DEF Call
<1>2. ASSUME NEW u \in Users, UserStep(u) PROVE Keeps
    <2>1. CASE DoneWorking(u)
        BY <2>1, UserResetIoKeeps, UserAcceptorEndsKeeps, UserCancelThrowsKeeps,
            UserOnStoppingKeeps, UserCapabilityStopsKeeps, UserClearSessionsKeeps DEF DoneWorking
    <2> QED
        BY <1>2, <2>1, StartWaitsKeeps, AwaitNetworkKeeps, StartReturnsKeeps, AwaitTimerKeeps,
            StopWorkerKeeps, StopWaitsKeeps, StopReturnsKeeps, TerminatingKeeps DEF UserStep
<1>3. ASSUME NetworkThread PROVE Keeps
    <2>1. CASE DoneWorking(Net)
        BY <2>1, NetResetIoKeeps, NetAcceptorEndsKeeps, NetCancelThrowsKeeps, NetOnStoppingKeeps,
            NetCapabilityStopsKeeps, NetClearSessionsKeeps DEF DoneWorking
    <2> QED
        BY <1>3, <2>1, HostThreadKeeps, HostWorksKeeps, StartTimerKeeps, OnStartingKeeps,
            CapabilityStartsKeeps, ListenKeeps, RunAcceptorKeeps, MakeNodeTableKeeps,
            RestoreNetworkKeeps, FirstRunKeeps, TimerRunsKeeps, ResetTimerKeeps, NotifyTimerKeeps,
            WorkLoopKeeps, DoWorkKeeps, HostWorkedKeeps DEF NetworkThread
<1>4. ASSUME Background PROVE Keeps
    BY <1>3, <1>4, ListenFailsKeeps, StartThrowsKeeps, HandlerThrowsKeeps, AcceptKeeps,
            StartPeerSessionKeeps, CapabilityThreadKeeps, CapabilityThrowsKeeps, SpuriousWakeupKeeps
            DEF Background
<1>5. ASSUME UNCHANGED vars PROVE Keeps
    BY <1>5 DEF Keeps, Unharmed, IInv, Typed, Turns, Active, vars, hVars, cVars, timer, network, WorkerInv,
        ThreadInv, TimerInv, NetworkInv, CapabilityInv, CapabilityOn, FailedUntil, Listening
<1> QED
    BY <1>1, <1>2, <1>4, <1>5 DEF SerialNext

\* Nothing has been started.
LEMMA InitHolds ==
    ASSUME Init
    PROVE IInv /\ Unharmed
<1>1. Typed /\ \A a \in Users \cup {Net} : at[a] = "idle"
     BY DEF Init, H!Init, C!Init, Typed, Calling, Places, Rising, Turning, Resetting, Clearing,
        Beginning, Before, Ending
<1>2. Active = "idle" /\ Turns
    BY <1>1, PlaceIdle DEF Active, Turns, OneInside, Inside
<1>3. WorkerInv /\ Unharmed
     BY <1>1, <1>2 DEF Init, H!Init, C!Init, Unharmed, WorkerInv, ThreadInv, TimerInv, NetworkInv,
        CapabilityInv, CapabilityOn, FailedUntil, Listening, Rising, Turning, Resetting, Clearing,
        Beginning, Before, Ending
<1> QED
    BY <1>1, <1>2, <1>3 DEF IInv

\* In the idle places of the invariant only a working host holds anything.
LEMMA InvDown ==
    ASSUME IInv, Unharmed, \A u \in Users : at[u] = "idle", ~ H!IsWorking
    PROVE Down
<1>1. Active = "idle"
    BY PlaceIdle DEF Active, Inside
<1>2. hState # "Started"
    BY DEF H!IsWorking
<1> QED
     BY <1>1, <1>2 DEF IInv, Down, Unharmed, WorkerInv, ThreadInv, TimerInv, NetworkInv,
        CapabilityInv, CapabilityOn, FailedUntil, Listening, Rising, Turning, Resetting, Clearing,
        Beginning, Before, Ending

\* The place of a user in doneWorking is the active one.
LEMMA InvAlone ==
    ASSUME IInv
    PROVE DoneWorkingAlone
<1> SUFFICES ASSUME NEW u \in Users, InDoneWorking(u)
             PROVE hThread \in {"stopped", "pause"}
    BY DEF DoneWorkingAlone
<1>1. Active = at[u] /\ at[u] \in Clearing
    BY PlaceOf DEF IInv, Turns, Active, Inside, InDoneWorking, Clearing
<1> QED
    BY <1>1 DEF IInv, WorkerInv

\* Users that take turns: until a failure does harm, a host that does not work
\* and is in no call has no acceptor, no node table, no session and no
\* capability at work, whoever ran doneWorking.
THEOREM NetworkComesDown == SerialSpec => NetworkDown
<1>1. Init => IInv /\ Unharmed
    BY InitHolds
<1>2. IInv /\ [SerialNext]_vars => IInv'
    BY StepKeeps DEF Keeps
<1>3. IInv /\ Unharmed /\ [SerialNext]_vars => Unharmed' \/ Harmed'
    BY StepKeeps DEF Keeps
<1>4. IInv /\ Unharmed => ((\A u \in Users : at[u] = "idle") /\ ~ H!IsWorking => Down)
    BY InvDown
<1> QED
    BY <1>1, <1>2, <1>3, <1>4, PTL DEF SerialSpec, NetworkDown

\* When the users take turns, the user whose start has failed runs doneWorking
\* only after the network thread has left its work, whatever has failed.
THEOREM DoneWorkingIsAlone == SerialSpec => []DoneWorkingAlone
<1>1. Init => IInv
    BY InitHolds
<1>2. IInv /\ [SerialNext]_vars => IInv'
    BY StepKeeps DEF Keeps
<1>3. IInv => DoneWorkingAlone
    BY InvAlone
<1> QED
    BY <1>1, <1>2, <1>3, PTL DEF SerialSpec
=============================================================================
