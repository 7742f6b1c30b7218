-------------------------------- MODULE Sealing --------------------------------
(***************************************************************************)
(* Proof-of-work sealing: the client thread (Client::rejigSealing), the    *)
(* seal engine (Ethash), the farm (GenericFarm) and one thread for each of *)
(* its miners (GenericMiner, EthashCPUMiner).                              *)
(*                                                                         *)
(* A header without its seal is a number, and a new one for every change   *)
(* of the working block; 0 is no work.  A solution is known by the header  *)
(* it was searched for, and fits no other.  m_submitLock and x_minerWork   *)
(* are held across joins and are variables; a section under another lock   *)
(* waits for nothing and is part of one action.                            *)
(***************************************************************************)
EXTENDS Naturals, FiniteSets

CONSTANTS
    Miners,
    MaxHeader       \* bound: the headers the client thread comes to seal

VARIABLES
    m_wouldSeal,    \* the user wants to seal
    m_working,      \* the working block: its header, and whether it is committed and sealed
    m_sealing,      \* the header the seal engine is to seal
    m_submitLock,   \* held by the client thread
    x_minerWork,    \* who holds the lock of the farm
    m_work,         \* the work of the farm
    m_miners,       \* the miners of the farm
    miner,          \* each miner: its work, m_shouldStop and its thread
    client,         \* where the client thread is
    imported        \* the blocks given to the block queue, with their seals

vars == <<m_wouldSeal, m_working, m_sealing, m_submitLock, x_minerWork, m_work, m_miners,
          miner, client, imported>>

block == <<m_wouldSeal, m_working, imported>>
engine == <<m_sealing, m_submitLock>>
farm == <<x_minerWork, m_work, m_miners>>

Free == "free"
Client == "client"
Nobody == "nobody"

ASSUME SealingAssumption ==
    /\ IsFiniteSet(Miners) /\ {Free, Client, Nobody} \cap Miners = {}
    /\ MaxHeader \in Nat

NewMiner == [m_work |-> 0, m_shouldStop |-> FALSE, thread |-> "none",
             w |-> 0, header |-> 0, todo |-> {}, joins |-> Nobody]

Init ==
    /\ m_wouldSeal = FALSE
    /\ m_working = [header |-> 1, committed |-> FALSE, sealed |-> FALSE]
    /\ m_sealing = 0 /\ m_submitLock = FALSE
    /\ x_minerWork = Free /\ m_work = 0 /\ m_miners = {}
    /\ miner = [m \in Miners |-> NewMiner]
    /\ client = [at |-> "idle", again |-> FALSE, header |-> 0, todo |-> {}, joins |-> Nobody]
    /\ imported = {}

-----------------------------------------------------------------------------
(***************************************************************************)
(* EthashCPUMiner::stopWorking asks the thread to stop and joins it;       *)
(* startWorking starts another one.                                        *)
(***************************************************************************)
HasThread(m) == miner[m].thread # "none"
Stopping(M, m) == [M EXCEPT ![m].m_shouldStop = TRUE]
Joined(M, m) == [M EXCEPT ![m].thread = "none"]
StartWorking(M, m) == [M EXCEPT ![m].m_shouldStop = FALSE, ![m].thread = "begin"]

(***************************************************************************)
(* The user, and what the client thread does to the working block.         *)
(***************************************************************************)
ToggleSealing ==
    /\ m_wouldSeal' = ~ m_wouldSeal
    /\ UNCHANGED <<m_working, imported, engine, farm, miner, client>>

WorkingChanges ==
    /\ client.at = "idle" /\ m_working.header < MaxHeader
    /\ m_working' = [header |-> m_working.header + 1, committed |-> FALSE, sealed |-> FALSE]
    /\ UNCHANGED <<m_wouldSeal, imported, engine, farm, miner, client>>

(***************************************************************************)
(* Client::rejigSealing commits the working block, for a remote miner too  *)
(* (remoteActive), and if the user wants to seal calls                     *)
(* Ethash::generateSeal, which holds m_submitLock while it calls setWork,  *)
(* start and setWork again.                                                *)
(***************************************************************************)
RejigSealing ==
    /\ client.at = "idle" /\ ~ m_working.sealed
    /\ m_working' = [m_working EXCEPT !.committed = TRUE]
    /\ client' = IF m_wouldSeal
                 THEN [client EXCEPT !.at = "generateSeal", !.header = m_working.header]
                 ELSE client
    /\ UNCHANGED <<m_wouldSeal, imported, engine, farm, miner>>

GenerateSeal ==
    /\ client.at = "generateSeal"
    /\ m_submitLock' = TRUE /\ m_sealing' = client.header
    /\ client' = [client EXCEPT !.at = "setWork", !.again = FALSE]
    /\ UNCHANGED <<block, farm, miner>>

SealRequested ==
    /\ client.at = "leave" /\ client' = [client EXCEPT !.at = "idle"]
    /\ m_submitLock' = FALSE
    /\ UNCHANGED <<block, m_sealing, farm, miner>>

(***************************************************************************)
(* GenericFarm::setWork: every miner is given the work, its thread stopped *)
(* and another one started (GenericMiner::setWork).                        *)
(***************************************************************************)
AfterSetWork == IF client.again THEN "leave" ELSE "start"
SetWork ==
    /\ client.at = "setWork" /\ x_minerWork = Free
    /\ IF m_work = client.header
       THEN client' = [client EXCEPT !.at = AfterSetWork] /\ UNCHANGED farm
       ELSE /\ x_minerWork' = Client /\ m_work' = client.header /\ UNCHANGED m_miners
            /\ client' = [client EXCEPT !.at = "assign", !.todo = m_miners]
    /\ UNCHANGED <<block, engine, miner>>

Assign(m) ==
    /\ client.at = "assign" /\ client.joins = Nobody /\ m \in client.todo
    /\ LET given == [miner EXCEPT ![m].m_work = m_work] IN
       IF HasThread(m)
       THEN miner' = Stopping(given, m) /\ client' = [client EXCEPT !.joins = m]
       ELSE miner' = StartWorking(given, m) /\ client' = [client EXCEPT !.todo = @ \ {m}]
    /\ UNCHANGED <<block, engine, farm>>

AssignJoined(m) ==
    /\ client.at = "assign" /\ client.joins = m /\ miner[m].thread = "ended"
    /\ miner' = StartWorking(Joined(miner, m), m)
    /\ client' = [client EXCEPT !.joins = Nobody, !.todo = @ \ {m}]
    /\ UNCHANGED <<block, engine, farm>>

Assigned ==
    /\ client.at = "assign" /\ client.todo = {}
    /\ client' = [client EXCEPT !.at = AfterSetWork] /\ x_minerWork' = Free
    /\ UNCHANGED <<block, engine, m_work, m_miners, miner>>

(***************************************************************************)
(* GenericFarm::start: the miners are created once.  They would be         *)
(* replaced when another kind of miner is asked for; "cpu" is the only one *)
(* there is.                                                               *)
(***************************************************************************)
Start ==
    /\ client.at = "start" /\ x_minerWork = Free
    /\ client' = [client EXCEPT !.at = "setWork", !.again = TRUE]
    /\ IF m_miners # {} THEN UNCHANGED <<m_miners, miner>>
       ELSE /\ m_miners' = Miners
            /\ miner' = [m \in Miners |-> [NewMiner EXCEPT !.m_work = m_work,
                                              !.thread = IF m_work # 0 THEN "begin" ELSE "none"]]
    /\ UNCHANGED <<block, engine, x_minerWork, m_work>>

(***************************************************************************)
(* Ethash::cancelGeneration is GenericFarm::stop: the destructors of the   *)
(* miners stop and join their threads.                                     *)
(***************************************************************************)
CancelGeneration ==
    /\ client.at = "idle" /\ ~ m_wouldSeal /\ x_minerWork = Free
    /\ x_minerWork' = Client
    /\ client' = [client EXCEPT !.at = "stop", !.todo = m_miners]
    /\ UNCHANGED <<block, engine, m_work, m_miners, miner>>

\* Mutant: the thread is asked to stop and not joined.
DestroyUnjoined(m) ==
    /\ client.at = "stop" /\ m \in client.todo
    /\ miner' = Stopping(miner, m) /\ client' = [client EXCEPT !.todo = @ \ {m}]
    /\ UNCHANGED <<block, engine, farm>>

Destroy(m) ==
    /\ client.at = "stop" /\ client.joins = Nobody /\ m \in client.todo
    /\ IF HasThread(m)
       THEN miner' = Stopping(miner, m) /\ client' = [client EXCEPT !.joins = m]
       ELSE UNCHANGED miner /\ client' = [client EXCEPT !.todo = @ \ {m}]
    /\ UNCHANGED <<block, engine, farm>>

DestroyJoined(m) ==
    /\ client.at = "stop" /\ client.joins = m /\ miner[m].thread = "ended"
    /\ miner' = Joined(miner, m)
    /\ client' = [client EXCEPT !.joins = Nobody, !.todo = @ \ {m}]
    /\ UNCHANGED <<block, engine, farm>>

Stopped ==
    /\ client.at = "stop" /\ client.todo = {}
    /\ client' = [client EXCEPT !.at = "idle"]
    /\ m_miners' = {} /\ m_work' = 0 /\ x_minerWork' = Free
    /\ UNCHANGED <<block, engine, miner>>

-----------------------------------------------------------------------------
(***************************************************************************)
(* EthashCPUMiner::minerBody: a thread takes a copy of its work and hashes *)
(* until it finds something or is told to stop.                            *)
(***************************************************************************)
Goes(m, from, to) ==
    /\ miner[m].thread = from
    /\ miner' = [miner EXCEPT ![m].thread = to]

MinerBegins(m) ==
    /\ miner[m].thread = "begin"
    /\ miner' = [miner EXCEPT ![m].thread = "hash", ![m].w = miner[m].m_work]
    /\ UNCHANGED <<block, engine, farm, client>>

MinerStops(m) ==
    /\ miner[m].m_shouldStop /\ Goes(m, "hash", "ended")
    /\ UNCHANGED <<block, engine, farm, client>>

MinerFinds(m) ==
    /\ ~ miner[m].m_shouldStop /\ Goes(m, "hash", "found")
    /\ UNCHANGED <<block, engine, farm, client>>

(***************************************************************************)
(* The farm's onSolutionFound, set by Ethash: under m_submitLock the seal  *)
(* is put into m_sealing, verified and the header copied; outside, the     *)
(* client seals the working block with it (Client::submitSealed).          *)
(***************************************************************************)
OnSolutionFound(m) ==
    /\ miner[m].thread = "found" /\ ~ m_submitLock
    /\ miner' = [miner EXCEPT ![m].thread = IF m_sealing = miner[m].w THEN "generated" ELSE "hash",
                              ![m].header = m_sealing]
    /\ UNCHANGED <<block, engine, farm, client>>

SealBlock(header, solution) ==
    IF m_working.committed /\ m_working.header = header
    THEN /\ m_working' = [m_working EXCEPT !.sealed = TRUE]
         /\ imported' = imported \cup {[header |-> header, seal |-> solution]}
    ELSE UNCHANGED <<m_working, imported>>

\* Mutant: the header is read when the client gets it, not under m_submitLock.
SubmitSealedLate(m) ==
    /\ SealBlock(m_sealing, miner[m].w)
    /\ Goes(m, "generated", "submitProof")
    /\ UNCHANGED <<m_wouldSeal, engine, farm, client>>

SubmitSealed(m) ==
    /\ SealBlock(miner[m].header, miner[m].w)
    /\ Goes(m, "generated", "submitProof")
    /\ UNCHANGED <<m_wouldSeal, engine, farm, client>>

(***************************************************************************)
(* GenericFarm::submitProof: if it can take the lock at once, the other    *)
(* miners are paused and there is no work until the next setWork.          *)
(***************************************************************************)
\* Mutant: try_lock is not asked.
SubmitProofUnlocked(m) ==
    /\ miner[m].thread = "submitProof"
    /\ x_minerWork' = m
    /\ miner' = [miner EXCEPT ![m].thread = "pauseOthers", ![m].todo = m_miners \ {m}]
    /\ UNCHANGED <<block, engine, m_work, m_miners, client>>

SubmitProof(m) ==
    /\ miner[m].thread = "submitProof" /\ x_minerWork = Free
    /\ x_minerWork' = m
    /\ miner' = [miner EXCEPT ![m].thread = "pauseOthers", ![m].todo = m_miners \ {m}]
    /\ UNCHANGED <<block, engine, m_work, m_miners, client>>

\* try_lock fails: the client thread has the lock, or a reader of the farm has
\* it for a moment (work, miningProgress).  The miner goes on with its work.
FarmBusy(m) ==
    /\ Goes(m, "submitProof", "hash")
    /\ UNCHANGED <<block, engine, farm, client>>

PauseOther(m, o) ==
    /\ miner[m].thread = "pauseOthers" /\ miner[m].joins = Nobody /\ o \in miner[m].todo
    /\ LET given == [miner EXCEPT ![o].m_work = 0] IN
       miner' = IF miner[o].m_work # 0 /\ HasThread(o)
                THEN Stopping([given EXCEPT ![m].joins = o], o)
                ELSE [given EXCEPT ![m].todo = @ \ {o}]
    /\ UNCHANGED <<block, engine, farm, client>>

OtherJoined(m, o) ==
    /\ miner[m].thread = "pauseOthers" /\ miner[m].joins = o /\ miner[o].thread = "ended"
    /\ miner' = Joined([miner EXCEPT ![m].joins = Nobody, ![m].todo = @ \ {o}], o)
    /\ UNCHANGED <<block, engine, farm, client>>

ProofAccepted(m) ==
    /\ miner[m].todo = {} /\ Goes(m, "pauseOthers", "resetWork")
    /\ m_work' = 0 /\ x_minerWork' = Free
    /\ UNCHANGED <<block, engine, m_miners, client>>

\* GenericMiner::submitProof, after the farm has let go of its lock.
ResetWork(m) ==
    /\ miner[m].thread = "resetWork"
    /\ miner' = [miner EXCEPT ![m].thread = "ended", ![m].m_work = 0]
    /\ UNCHANGED <<block, engine, farm, client>>

ClientStep ==
    \/ GenerateSeal \/ SealRequested \/ SetWork \/ Assigned \/ Start
    \/ CancelGeneration \/ Stopped
    \/ \E m \in Miners : Assign(m) \/ AssignJoined(m) \/ Destroy(m) \/ DestroyJoined(m)
MinerStep(m) ==
    \/ MinerBegins(m) \/ MinerStops(m) \/ OnSolutionFound(m)
    \/ SubmitSealed(m) \/ SubmitProof(m) \/ FarmBusy(m) \/ ProofAccepted(m) \/ ResetWork(m)
    \/ \E o \in Miners : PauseOther(m, o) \/ OtherJoined(m, o)

Next ==
    \/ ToggleSealing \/ WorkingChanges \/ RejigSealing \/ ClientStep
    \/ \E m \in Miners : MinerStep(m) \/ MinerFinds(m)

Spec == Init /\ [][Next]_vars

\* The threads run; nothing makes a miner find a solution.
FairSpec == Spec /\ WF_vars(ClientStep) /\ \A m \in Miners : WF_vars(MinerStep(m))

-----------------------------------------------------------------------------
(***************************************************************************)
(* Properties.                                                             *)
(***************************************************************************)
\* A block given to the block queue carries a seal that was found for its
\* own header, although m_sealing, the work of the farm and the working block
\* are replaced while miners search and submit (Ethash.cpp, onSolutionFound).
SealsFit == \A b \in imported : b.seal = b.header

\* When GenericFarm::stop returns no miner runs any more: a farm without
\* miners has no thread left that could submit a block, although stop may find
\* a miner hashing, sealing the working block or pausing the others.
QuietAfterStop == m_miners = {} => \A m \in Miners : ~ HasThread(m)

\* No thread is joined by two threads at once, and none joins itself: the
\* client thread and the miners that pause the others call std::thread::join on
\* the same objects, and only the lock of the farm keeps them apart.
JoinedOnce ==
    /\ \A m, n \in Miners : miner[m].joins = miner[n].joins /\ m # n => miner[m].joins = Nobody
    /\ \A m \in Miners : miner[m].joins \in Miners => miner[m].joins \notin {m, client.joins}

\* The farm is "@threadsafe": a request for a seal comes back, whatever the
\* miners are doing.
SealRequestReturns == client.at = "generateSeal" ~> client.at = "idle"
=============================================================================
