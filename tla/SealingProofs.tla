----------------------------- MODULE SealingProofs -----------------------------
(***************************************************************************)
(* Theorems about sealing, for any number of miners and of headers.        *)
(***************************************************************************)
EXTENDS Sealing, TLAPS

-----------------------------------------------------------------------------
(***************************************************************************)
(* The inductive invariant.                                                *)
(***************************************************************************)
ThreadAt == {"none", "begin", "hash", "found", "generated", "submitProof",
             "pauseOthers", "resetWork", "ended"}
MinerType == [m_work : Nat, m_shouldStop : BOOLEAN, thread : ThreadAt, w : Nat, header : Nat,
              todo : SUBSET Miners, joins : Miners \cup {Nobody}]
ClientType == [at : {"idle", "generateSeal", "setWork", "assign", "start", "leave", "stop"},
               again : BOOLEAN, header : Nat, todo : SUBSET Miners, joins : Miners \cup {Nobody}]

\* The type of the state.
SealingTypeOK ==
    /\ m_wouldSeal \in BOOLEAN
    /\ m_working \in [header : Nat, committed : BOOLEAN, sealed : BOOLEAN]
    /\ m_sealing \in Nat /\ m_submitLock \in BOOLEAN
    /\ x_minerWork \in Miners \cup {Free, Client}
    /\ m_work \in Nat /\ m_miners \in {{}, Miners}
    /\ miner \in [Miners -> MinerType]
    /\ client \in ClientType

\* A miner that is about to submit a block has copied the header its solution
\* was searched for, whatever m_sealing has become since.
Generated == \A m \in Miners : miner[m].thread = "generated" => miner[m].header = miner[m].w

\* The lock of the farm is held by the thread that goes through the miners.
LockHeld ==
    /\ client.at \in {"assign", "stop"} <=> x_minerWork = Client
    /\ \A m \in Miners : miner[m].thread = "pauseOthers" <=> x_minerWork = m

\* A thread that joins a miner has it still to do; the others join nobody.
Joining ==
    /\ client.joins # Nobody => client.at \in {"assign", "stop"} /\ client.joins \in client.todo
    /\ \A m \in Miners : miner[m].joins # Nobody =>
          /\ miner[m].thread = "pauseOthers"
          /\ miner[m].joins \in miner[m].todo \ {m}

\* Only miners of the farm are given work; those that stop has destroyed run no
\* more.
Farmed ==
    /\ client.at = "assign" => client.todo \subseteq m_miners
    /\ client.at = "stop" => \A m \in Miners \ client.todo : ~ HasThread(m)

IInv == Generated /\ LockHeld /\ Joining /\ Farmed /\ SealsFit /\ QuietAfterStop

-----------------------------------------------------------------------------
(***************************************************************************)
(* Types.                                                                  *)
(***************************************************************************)
\* A miner stays one when a field is given a value of its type.
LEMMA MinerFields ==
    ASSUME SealingTypeOK, NEW m \in Miners
    PROVE  /\ miner[m] \in MinerType
           /\ miner[m].m_work \in Nat /\ miner[m].w \in Nat /\ miner[m].todo \in SUBSET Miners
<1>1. miner[m] \in MinerType
  BY DEF SealingTypeOK
<1> QED BY <1>1 DEF MinerType

LEMMA OneMiner ==
    ASSUME SealingTypeOK, NEW m \in Miners, NEW r \in MinerType
    PROVE  [miner EXCEPT ![m] = r] \in [Miners -> MinerType]
BY DEF SealingTypeOK

\* The steps that change one miner change it to a miner.
LEMMA MinerStepType ==
    ASSUME SealingTypeOK, NEW m \in Miners, MinerStep(m) \/ MinerFinds(m)
    PROVE  miner' \in [Miners -> MinerType]
<1>1. /\ miner[m] \in MinerType
      /\ miner[m].m_work \in Nat /\ miner[m].w \in Nat /\ miner[m].todo \in SUBSET Miners
  BY MinerFields
<1>2. /\ m_sealing \in Nat /\ m_miners \in SUBSET Miners /\ miner \in [Miners -> MinerType]
      /\ {"hash", "ended", "found", "generated", "submitProof", "pauseOthers", "resetWork", "none"}
            \subseteq ThreadAt
  BY DEF SealingTypeOK, ThreadAt
<1>3. \A t \in ThreadAt : [miner[m] EXCEPT !.thread = t] \in MinerType
  BY <1>1 DEF MinerType
<1>4. ASSUME NEW from, NEW t \in ThreadAt, Goes(m, from, t)
      PROVE  miner' \in [Miners -> MinerType]
  <2>1. miner' = [miner EXCEPT ![m] = [miner[m] EXCEPT !.thread = t]]
    BY <1>4 DEF Goes
  <2> QED BY <1>3, <2>1, OneMiner
<1>5. CASE MinerStops(m) \/ MinerFinds(m) \/ SubmitSealed(m) \/ FarmBusy(m) \/ ProofAccepted(m)
  <2>1. \E from : Goes(m, from, "ended") \/ Goes(m, from, "found") \/ Goes(m, from, "submitProof")
                  \/ Goes(m, from, "hash") \/ Goes(m, from, "resetWork")
    BY <1>5 DEF MinerStops, MinerFinds, SubmitSealed, FarmBusy, ProofAccepted
  <2> QED BY <1>2, <1>4, <2>1
<1>6. CASE MinerBegins(m)
  <2> DEFINE r == [miner[m] EXCEPT !.thread = "hash", !.w = miner[m].m_work]
  <2>1. r \in MinerType
    BY <1>1, <1>2 DEF MinerType
  <2>2. miner' = [miner EXCEPT ![m] = r]
    BY <1>6 DEF MinerBegins
  <2> QED BY <2>1, <2>2, OneMiner
<1>7. CASE OnSolutionFound(m)
  <2> DEFINE t == IF m_sealing = miner[m].w THEN "generated" ELSE "hash"
             r == [miner[m] EXCEPT !.thread = t, !.header = m_sealing]
  <2>1. t \in ThreadAt
    BY <1>2
  <2>2. miner' = [miner EXCEPT ![m] = r]
    BY <1>7 DEF OnSolutionFound
  <2>3. r \in MinerType
    <3> HIDE DEF t
    <3> QED BY <1>1, <1>2, <2>1 DEF MinerType
  <2> QED BY <2>2, <2>3, OneMiner
<1>8. CASE SubmitProof(m)
  <2> DEFINE r == [miner[m] EXCEPT !.thread = "pauseOthers", !.todo = m_miners \ {m}]
  <2>1. r \in MinerType
    BY <1>1, <1>2 DEF MinerType
  <2>2. miner' = [miner EXCEPT ![m] = r]
    BY <1>8 DEF SubmitProof
  <2> QED BY <2>1, <2>2, OneMiner
<1>9. CASE ResetWork(m)
  <2> DEFINE r == [miner[m] EXCEPT !.thread = "ended", !.m_work = 0]
  <2>1. r \in MinerType
    BY <1>1, <1>2 DEF MinerType
  <2>2. miner' = [miner EXCEPT ![m] = r]
    BY <1>9 DEF ResetWork
  <2> QED BY <2>1, <2>2, OneMiner
<1>10. ASSUME NEW o \in Miners, PauseOther(m, o)
       PROVE  miner' \in [Miners -> MinerType]
  <2> DEFINE f == [miner EXCEPT ![o].m_work = 0]
             g == [f EXCEPT ![m].joins = o]
  <2>1. f \in [Miners -> MinerType]
    BY <1>2 DEF MinerType
  <2> HIDE DEF f
  <2>2. g \in [Miners -> MinerType]
    BY <2>1 DEF MinerType
  <2> HIDE DEF g
  <2>3. [g EXCEPT ![o].m_shouldStop = TRUE] \in [Miners -> MinerType]
    <3> DEFINE r == [g[o] EXCEPT !.m_shouldStop = TRUE]
    <3>1. g[o] \in MinerType
      BY <2>2
    <3>2. r \in MinerType
      BY <3>1 DEF MinerType
    <3>3. [g EXCEPT ![o].m_shouldStop = TRUE] = [g EXCEPT ![o] = r]
      OBVIOUS
    <3> HIDE DEF r
    <3> QED BY <2>2, <3>2, <3>3
  <2>4. [f EXCEPT ![m].todo = f[m].todo \ {o}] \in [Miners -> MinerType]
    BY <2>1 DEF MinerType
  <2>5. \/ miner' = [g EXCEPT ![o].m_shouldStop = TRUE]
        \/ miner' = [f EXCEPT ![m].todo = f[m].todo \ {o}]
    BY <1>10 DEF PauseOther, Stopping, f, g
  <2> QED BY <2>3, <2>4, <2>5
<1>11. ASSUME NEW o \in Miners, OtherJoined(m, o)
       PROVE  miner' \in [Miners -> MinerType]
  BY <1>2, <1>11 DEF OtherJoined, Joined, MinerType, Nobody
<1> QED BY <1>5, <1>6, <1>7, <1>8, <1>9, <1>10, <1>11 DEF MinerStep

\* So do the steps of the client thread.
LEMMA ClientStepType ==
    ASSUME SealingTypeOK, ClientStep
    PROVE  miner' \in [Miners -> MinerType]
<1>1. /\ miner \in [Miners -> MinerType] /\ m_work \in Nat
      /\ {"none", "begin", "ended"} \subseteq ThreadAt /\ Nobody \in Miners \cup {Nobody}
  BY DEF SealingTypeOK, ThreadAt
<1>2. CASE Start
  <2> DEFINE t == IF m_work # 0 THEN "begin" ELSE "none"
             r == [NewMiner EXCEPT !.m_work = m_work, !.thread = t]
  <2>1. t \in ThreadAt
    BY <1>1
  <2>2. UNCHANGED miner \/ miner' = [m \in Miners |-> r]
    BY <1>2 DEF Start
  <2>3. r \in MinerType
    <3> HIDE DEF t
    <3> QED BY <1>1, <2>1 DEF MinerType, NewMiner
  <2> HIDE DEF r
  <2> QED BY <1>1, <2>2, <2>3
<1>3. ASSUME NEW m \in Miners, NEW M \in [Miners -> MinerType]
      PROVE  /\ Stopping(M, m) \in [Miners -> MinerType]
             /\ Joined(M, m) \in [Miners -> MinerType]
             /\ StartWorking(M, m) \in [Miners -> MinerType]
  <2>1. M[m] \in MinerType
    OBVIOUS
  <2>2. Stopping(M, m) \in [Miners -> MinerType]
    <3> DEFINE r == [M[m] EXCEPT !.m_shouldStop = TRUE]
    <3>1. r \in MinerType
      BY <2>1 DEF MinerType
    <3>2. Stopping(M, m) = [M EXCEPT ![m] = r]
      BY DEF Stopping
    <3> HIDE DEF r
    <3> QED BY <3>1, <3>2
  <2>3. Joined(M, m) \in [Miners -> MinerType]
    <3> DEFINE r == [M[m] EXCEPT !.thread = "none"]
    <3>1. r \in MinerType
      BY <1>1, <2>1 DEF MinerType
    <3>2. Joined(M, m) = [M EXCEPT ![m] = r]
      BY DEF Joined
    <3> HIDE DEF r
    <3> QED BY <3>1, <3>2
  <2>4. StartWorking(M, m) \in [Miners -> MinerType]
    <3> DEFINE r == [M[m] EXCEPT !.m_shouldStop = FALSE, !.thread = "begin"]
    <3>1. r \in MinerType
      BY <1>1, <2>1 DEF MinerType
    <3>2. StartWorking(M, m) = [M EXCEPT ![m] = r]
      BY <2>1 DEF StartWorking, MinerType
    <3> HIDE DEF r
    <3> QED BY <3>1, <3>2
  <2> QED BY <2>2, <2>3, <2>4
<1>4. ASSUME NEW m \in Miners, Assign(m)
      PROVE  miner' \in [Miners -> MinerType]
  <2> DEFINE given == [miner EXCEPT ![m].m_work = m_work]
  <2>1. given \in [Miners -> MinerType]
    <3> DEFINE r == [miner[m] EXCEPT !.m_work = m_work]
    <3>1. r \in MinerType
      BY <1>1 DEF MinerType
    <3>2. given = [miner EXCEPT ![m] = r]
      OBVIOUS
    <3> HIDE DEF r
    <3> QED BY <1>1, <3>1, <3>2
  <2>2. miner' = Stopping(given, m) \/ miner' = StartWorking(given, m)
    BY <1>4 DEF Assign
  <2> HIDE DEF given
  <2> QED BY <1>3, <2>1, <2>2
<1>5. ASSUME NEW m \in Miners, AssignJoined(m) \/ Destroy(m) \/ DestroyJoined(m)
      PROVE  miner' \in [Miners -> MinerType]
  <2>1. \/ miner' = StartWorking(Joined(miner, m), m) \/ miner' = Stopping(miner, m)
        \/ miner' = miner \/ miner' = Joined(miner, m)
    BY <1>5 DEF AssignJoined, Destroy, DestroyJoined
  <2> QED BY <1>1, <1>3, <2>1
<1>6. CASE GenerateSeal \/ SealRequested \/ SetWork \/ Assigned \/ CancelGeneration \/ Stopped
  BY <1>1, <1>6 DEF GenerateSeal, SealRequested, SetWork, Assigned, CancelGeneration, Stopped
<1> QED BY <1>2, <1>4, <1>5, <1>6 DEF ClientStep

\* The state keeps its type, for any number of miners and of headers.
THEOREM TypeCorrect == Spec => []SealingTypeOK
<1>1. Init => SealingTypeOK
  <2> SUFFICES ASSUME Init PROVE SealingTypeOK
    OBVIOUS
  <2>1. "none" \in ThreadAt /\ Nobody \in Miners \cup {Nobody} /\ 0 \in Nat
    BY DEF ThreadAt
  <2>2. NewMiner \in MinerType
    BY <2>1 DEF NewMiner, MinerType
  <2>3. miner \in [Miners -> MinerType]
    BY <2>2 DEF Init
  <2>4. client \in ClientType
    BY <2>1 DEF Init, ClientType
  <2> QED BY <2>3, <2>4 DEF Init, SealingTypeOK
<1>2. ASSUME SealingTypeOK, [Next]_vars
      PROVE  SealingTypeOK'
  <2>1. miner' \in [Miners -> MinerType]
    <3>1. CASE ClientStep
      BY <1>2, <3>1, ClientStepType
    <3>2. CASE \E m \in Miners : MinerStep(m) \/ MinerFinds(m)
      BY <1>2, <3>2, MinerStepType
    <3>3. CASE ToggleSealing \/ WorkingChanges \/ RejigSealing \/ UNCHANGED vars
      BY <1>2, <3>3 DEF ToggleSealing, WorkingChanges, RejigSealing, vars, SealingTypeOK
    <3> QED BY <1>2, <3>1, <3>2, <3>3 DEF Next
  <2> DEFINE T == /\ m_wouldSeal \in BOOLEAN
                  /\ m_working \in [header : Nat, committed : BOOLEAN, sealed : BOOLEAN]
                  /\ m_sealing \in Nat /\ m_submitLock \in BOOLEAN
                  /\ x_minerWork \in Miners \cup {Free, Client}
                  /\ m_work \in Nat /\ m_miners \in {{}, Miners}
                  /\ client \in ClientType
  <2>2. T
    BY <1>2 DEF SealingTypeOK
  <2>3. CASE \E m \in Miners : MinerStep(m) \/ MinerFinds(m)
    <3> PICK m \in Miners : MinerStep(m) \/ MinerFinds(m)
      BY <2>3
    <3>1. UNCHANGED <<m_wouldSeal, m_sealing, m_submitLock, m_miners, client>>
      BY DEF MinerStep, MinerFinds, MinerBegins, MinerStops, OnSolutionFound, SubmitSealed,
             SubmitProof, FarmBusy, ProofAccepted, ResetWork, PauseOther, OtherJoined,
             block, engine, farm
    <3>2. UNCHANGED m_working \/ m_working' = [m_working EXCEPT !.sealed = TRUE]
      BY DEF MinerStep, MinerFinds, MinerBegins, MinerStops, OnSolutionFound, SubmitSealed,
             SubmitProof, FarmBusy, ProofAccepted, ResetWork, PauseOther, OtherJoined,
             SealBlock, block, engine, farm
    <3>3. /\ x_minerWork' \in {x_minerWork, m, Free}
          /\ m_work' \in {m_work, 0}
      BY DEF MinerStep, MinerFinds, MinerBegins, MinerStops, OnSolutionFound, SubmitSealed,
             SubmitProof, FarmBusy, ProofAccepted, ResetWork, PauseOther, OtherJoined,
             block, engine, farm
    <3>4. m_working' \in [header : Nat, committed : BOOLEAN, sealed : BOOLEAN]
      BY <2>2, <3>2
    <3>5. x_minerWork' \in Miners \cup {Free, Client} /\ m_work' \in Nat
      BY <2>2, <3>3
    <3> QED BY <2>1, <2>2, <3>1, <3>4, <3>5, Zenon DEF SealingTypeOK
  <2>4. CASE ToggleSealing \/ WorkingChanges \/ RejigSealing \/ UNCHANGED vars
    <3>1. /\ UNCHANGED <<m_sealing, m_submitLock, x_minerWork, m_work, m_miners>>
          /\ m_wouldSeal' \in BOOLEAN
      BY <2>2, <2>4 DEF ToggleSealing, WorkingChanges, RejigSealing, vars, block, engine, farm
    <3>2. m_working' \in [header : Nat, committed : BOOLEAN, sealed : BOOLEAN]
      <4>1. \/ UNCHANGED m_working \/ m_working' = [m_working EXCEPT !.committed = TRUE]
            \/ m_working' = [header |-> m_working.header + 1, committed |-> FALSE, sealed |-> FALSE]
        BY <2>4 DEF ToggleSealing, WorkingChanges, RejigSealing, vars
      <4>2. [m_working EXCEPT !.committed = TRUE]
                \in [header : Nat, committed : BOOLEAN, sealed : BOOLEAN]
        BY <2>2
      <4>3. m_working.header + 1 \in Nat
        BY <2>2
      <4>4. [header |-> m_working.header + 1, committed |-> FALSE, sealed |-> FALSE]
                \in [header : Nat, committed : BOOLEAN, sealed : BOOLEAN]
        BY <4>3
      <4> QED BY <2>2, <4>1, <4>2, <4>4, Zenon
    <3>3. client' \in ClientType
      BY <2>2, <2>4 DEF ToggleSealing, WorkingChanges, RejigSealing, vars, ClientType
    <3> QED BY <2>1, <2>2, <3>1, <3>2, <3>3, Zenon DEF SealingTypeOK
  <2>5. CASE ClientStep
    <3>1. /\ UNCHANGED <<m_wouldSeal, m_working>>
          /\ m_sealing' \in {m_sealing, client.header}
          /\ m_submitLock' \in {m_submitLock, TRUE, FALSE}
          /\ x_minerWork' \in {x_minerWork, Client, Free}
          /\ m_work' \in {m_work, client.header, 0}
          /\ m_miners' \in {m_miners, {}, Miners}
      BY <2>5 DEF ClientStep, GenerateSeal, SealRequested, SetWork, Assigned, Start,
                  CancelGeneration, Stopped, Assign, AssignJoined, Destroy, DestroyJoined,
                  block, engine, farm
    <3>2. client' \in ClientType
      <4>1. CASE GenerateSeal \/ SealRequested \/ SetWork \/ Assigned \/ Start
        BY <2>2, <4>1 DEF GenerateSeal, SealRequested, SetWork, Assigned, Start,
                          AfterSetWork, ClientType
      <4>2. CASE CancelGeneration \/ Stopped
        BY <2>2, <4>2 DEF CancelGeneration, Stopped, ClientType
      <4>3. ASSUME NEW m \in Miners, Assign(m) \/ AssignJoined(m) \/ Destroy(m) \/ DestroyJoined(m)
            PROVE  client' \in ClientType
        <5>1. \/ client' = [client EXCEPT !.joins = m]
              \/ client' = [client EXCEPT !.todo = client.todo \ {m}]
              \/ client' = [client EXCEPT !.joins = Nobody, !.todo = client.todo \ {m}]
          BY <4>3 DEF Assign, AssignJoined, Destroy, DestroyJoined
        <5> QED BY <2>2, <5>1 DEF ClientType
      <4> QED BY <2>5, <4>1, <4>2, <4>3 DEF ClientStep
    <3>3. client.header \in Nat
      BY <2>2 DEF ClientType
    <3>4. /\ m_sealing' \in Nat /\ m_submitLock' \in BOOLEAN /\ m_work' \in Nat
          /\ x_minerWork' \in Miners \cup {Free, Client}
      <4>1. m_sealing' \in Nat /\ m_work' \in Nat
        BY <2>2, <3>1, <3>3
      <4>2. m_submitLock' \in BOOLEAN
        BY <2>2, <3>1, Zenon
      <4>3. x_minerWork' \in Miners \cup {Free, Client}
        BY <2>2, <3>1
      <4> QED BY <4>1, <4>2, <4>3
    <3>5. m_miners' \in {{}, Miners}
      BY <2>2, <3>1
    <3> QED BY <2>1, <2>2, <3>1, <3>2, <3>4, <3>5, Zenon DEF SealingTypeOK
  <2> QED BY <1>2, <2>3, <2>4, <2>5 DEF Next
<1> QED BY <1>1, <1>2, PTL DEF Spec

-----------------------------------------------------------------------------
(***************************************************************************)
(* The inductive invariant is kept by every step.                          *)
(***************************************************************************)
\* The names of the lock's other holders are no miners.
LEMMA NamesApart ==
    /\ Free # Client /\ Free \notin Miners /\ Client \notin Miners /\ Nobody \notin Miners
BY SealingAssumption DEF Free, Client, Nobody

\* Steps of the client thread that touch no miner.
LEMMA ClientInvariant ==
    ASSUME SealingTypeOK, SealingTypeOK', IInv,
           ToggleSealing \/ WorkingChanges \/ RejigSealing \/ GenerateSeal \/ SealRequested
             \/ SetWork \/ Assigned \/ Start \/ CancelGeneration \/ Stopped
    PROVE  IInv'
<1> USE NamesApart DEF IInv, SealingTypeOK, ClientType
<1>1. CASE ToggleSealing
  BY <1>1 DEF ToggleSealing, block, engine, farm,
     Generated, LockHeld, Joining, Farmed, SealsFit, QuietAfterStop, HasThread
<1>2. CASE WorkingChanges
  BY <1>2 DEF WorkingChanges, block, engine, farm,
     Generated, LockHeld, Joining, Farmed, SealsFit, QuietAfterStop, HasThread
<1>3. CASE RejigSealing
  BY <1>3 DEF RejigSealing, block, engine, farm,
     Generated, LockHeld, Joining, Farmed, SealsFit, QuietAfterStop, HasThread
<1>4. CASE GenerateSeal
  BY <1>4 DEF GenerateSeal, block, engine, farm,
     Generated, LockHeld, Joining, Farmed, SealsFit, QuietAfterStop, HasThread
<1>5. CASE SealRequested
  BY <1>5 DEF SealRequested, block, engine, farm,
     Generated, LockHeld, Joining, Farmed, SealsFit, QuietAfterStop, HasThread
<1>6. CASE Assigned
  BY <1>6 DEF Assigned, AfterSetWork, block, engine, farm,
     Generated, LockHeld, Joining, Farmed, SealsFit, QuietAfterStop, HasThread
<1>7. CASE CancelGeneration
  BY <1>7 DEF CancelGeneration, block, engine, farm,
     Generated, LockHeld, Joining, Farmed, SealsFit, QuietAfterStop, HasThread
<1>8. CASE Stopped
  BY <1>8 DEF Stopped, block, engine, farm,
     Generated, LockHeld, Joining, Farmed, SealsFit, QuietAfterStop, HasThread
<1>9. CASE SetWork
  <2>1. client.joins = Nobody /\ x_minerWork = Free /\ client.at = "setWork"
    BY <1>9 DEF SetWork, Joining
  <2>2. UNCHANGED <<m_miners, miner, imported>>
    BY <1>9 DEF SetWork, block, farm
  <2>3. client'.joins = Nobody
    BY <1>9, <2>1 DEF SetWork
  <2>4. \/ client'.at \in {"leave", "start"} /\ UNCHANGED x_minerWork
        \/ client'.at = "assign" /\ client'.todo = m_miners /\ x_minerWork' = Client
    BY <1>9 DEF SetWork, AfterSetWork, farm
  <2>5. Generated' /\ SealsFit' /\ QuietAfterStop'
    BY <2>2 DEF Generated, SealsFit, QuietAfterStop, HasThread
  <2>6. LockHeld'
    BY <2>1, <2>2, <2>4 DEF LockHeld
  <2>7. Joining'
    BY <2>2, <2>3 DEF Joining
  <2>8. Farmed'
    BY <2>2, <2>4 DEF Farmed
  <2> QED BY <2>5, <2>6, <2>7, <2>8
<1>10. CASE Start
  <2>1. client.joins = Nobody /\ x_minerWork = Free /\ client.at = "start"
    BY <1>10 DEF Start, Joining
  <2>2. client'.joins = Nobody /\ client'.at = "setWork" /\ UNCHANGED <<x_minerWork, imported>>
    BY <1>10, <2>1 DEF Start, block
  <2>3. \/ UNCHANGED <<m_miners, miner>>
        \/ m_miners' = Miners /\ \A m \in Miners : /\ miner'[m].thread \in {"begin", "none"}
                                                   /\ miner'[m].joins = Nobody
    <3> DEFINE t == IF m_work # 0 THEN "begin" ELSE "none"
               r == [NewMiner EXCEPT !.m_work = m_work, !.thread = t]
    <3>1. \/ UNCHANGED <<m_miners, miner>>
          \/ m_miners' = Miners /\ miner' = [m \in Miners |-> r]
      BY <1>10 DEF Start
    <3>2. r.thread = t /\ r.joins = Nobody
      BY DEF NewMiner
    <3>3. t \in {"begin", "none"}
      OBVIOUS
    <3> HIDE DEF r, t
    <3> QED BY <3>1, <3>2, <3>3
  <2>4. Generated' /\ SealsFit'
    BY <2>2, <2>3 DEF Generated, SealsFit
  <2>5. QuietAfterStop'
    BY <2>3 DEF QuietAfterStop, HasThread
  <2>6. LockHeld'
    BY <2>1, <2>2, <2>3 DEF LockHeld
  <2>7. Joining'
    BY <2>2, <2>3 DEF Joining
  <2>8. Farmed'
    BY <2>2 DEF Farmed
  <2> QED BY <2>4, <2>5, <2>6, <2>7, <2>8
<1> QED BY <1>1, <1>2, <1>3, <1>4, <1>5, <1>6, <1>7, <1>8, <1>9, <1>10

\* Steps of the client thread at one miner.
LEMMA ClientMinerInvariant ==
    ASSUME SealingTypeOK, SealingTypeOK', IInv, NEW m \in Miners,
           Assign(m) \/ AssignJoined(m) \/ Destroy(m) \/ DestroyJoined(m)
    PROVE  IInv'
<1> USE NamesApart DEF IInv, SealingTypeOK, ClientType, MinerType
<1>1. CASE Assign(m)
  BY <1>1 DEF Assign, Stopping, StartWorking, block, engine, farm,
     Generated, LockHeld, Joining, Farmed, SealsFit, QuietAfterStop, HasThread
<1>2. CASE AssignJoined(m)
  BY <1>2 DEF AssignJoined, Joined, StartWorking, block, engine, farm,
     Generated, LockHeld, Joining, Farmed, SealsFit, QuietAfterStop, HasThread
<1>3. CASE Destroy(m)
  <2>1. Generated'
    BY <1>3 DEF Destroy, Stopping, block, engine, farm, Generated
  <2>2. LockHeld'
    BY <1>3 DEF Destroy, Stopping, block, engine, farm, LockHeld
  <2>3. Joining'
    BY <1>3 DEF Destroy, Stopping, block, engine, farm, Joining, LockHeld, QuietAfterStop, HasThread
  <2>4. Farmed'
    BY <1>3 DEF Destroy, Stopping, block, engine, farm, Farmed, Joining, LockHeld, QuietAfterStop, HasThread
  <2>5. SealsFit'
    BY <1>3 DEF Destroy, Stopping, block, engine, farm, SealsFit, Generated
  <2>6. QuietAfterStop'
    BY <1>3 DEF Destroy, Stopping, block, engine, farm, QuietAfterStop, Farmed, Joining, HasThread
  <2> QED BY <2>1, <2>2, <2>3, <2>4, <2>5, <2>6
<1>4. CASE DestroyJoined(m)
  <2>1. Generated'
    BY <1>4 DEF DestroyJoined, Joined, block, engine, farm, Generated
  <2>2. LockHeld'
    BY <1>4 DEF DestroyJoined, Joined, block, engine, farm, LockHeld
  <2>3. Joining'
    BY <1>4 DEF DestroyJoined, Joined, block, engine, farm, Joining, LockHeld, QuietAfterStop, HasThread
  <2>4. Farmed'
    BY <1>4 DEF DestroyJoined, Joined, block, engine, farm, Farmed, Joining, LockHeld, QuietAfterStop, HasThread
  <2>5. SealsFit'
    BY <1>4 DEF DestroyJoined, Joined, block, engine, farm, SealsFit, Generated
  <2>6. QuietAfterStop'
    BY <1>4 DEF DestroyJoined, Joined, block, engine, farm, QuietAfterStop, Farmed, Joining, HasThread
  <2> QED BY <2>1, <2>2, <2>3, <2>4, <2>5, <2>6
<1> QED BY <1>1, <1>2, <1>3, <1>4

\* Steps of a miner's thread.
LEMMA MinerInvariant ==
    ASSUME SealingTypeOK, SealingTypeOK', IInv, NEW m \in Miners, MinerStep(m) \/ MinerFinds(m)
    PROVE  IInv'
<1> USE NamesApart DEF IInv, SealingTypeOK, ClientType, MinerType
<1>1. CASE MinerStops(m)
  BY <1>1 DEF MinerStops, Goes, block, engine, farm,
     Generated, LockHeld, Joining, Farmed, SealsFit, QuietAfterStop, HasThread
<1>2. CASE MinerFinds(m)
  BY <1>2 DEF MinerFinds, Goes, block, engine, farm,
     Generated, LockHeld, Joining, Farmed, SealsFit, QuietAfterStop, HasThread
<1>3. CASE FarmBusy(m)
  BY <1>3 DEF FarmBusy, Goes, block, engine, farm,
     Generated, LockHeld, Joining, Farmed, SealsFit, QuietAfterStop, HasThread
<1>4. CASE ProofAccepted(m)
  BY <1>4 DEF ProofAccepted, Goes, block, engine, farm,
     Generated, LockHeld, Joining, Farmed, SealsFit, QuietAfterStop, HasThread
<1>5. CASE MinerBegins(m)
  <2>1. Generated'
    BY <1>5 DEF MinerBegins, block, engine, farm, Generated
  <2>2. LockHeld'
    BY <1>5 DEF MinerBegins, block, engine, farm, LockHeld
  <2>3. Joining'
    BY <1>5 DEF MinerBegins, block, engine, farm, Joining, LockHeld, QuietAfterStop, HasThread
  <2>4. Farmed'
    BY <1>5 DEF MinerBegins, block, engine, farm, Farmed, Joining, LockHeld, QuietAfterStop, HasThread
  <2>5. SealsFit'
    BY <1>5 DEF MinerBegins, block, engine, farm, SealsFit, Generated
  <2>6. QuietAfterStop'
    BY <1>5 DEF MinerBegins, block, engine, farm, QuietAfterStop, Farmed, Joining, HasThread
  <2> QED BY <2>1, <2>2, <2>3, <2>4, <2>5, <2>6
<1>6. CASE OnSolutionFound(m)
  <2>1. Generated'
    BY <1>6 DEF OnSolutionFound, block, engine, farm, Generated
  <2>2. LockHeld'
    BY <1>6 DEF OnSolutionFound, block, engine, farm, LockHeld
  <2>3. Joining'
    BY <1>6 DEF OnSolutionFound, block, engine, farm, Joining, LockHeld, QuietAfterStop, HasThread
  <2>4. Farmed'
    BY <1>6 DEF OnSolutionFound, block, engine, farm, Farmed, Joining, LockHeld, QuietAfterStop, HasThread
  <2>5. SealsFit'
    BY <1>6 DEF OnSolutionFound, block, engine, farm, SealsFit, Generated
  <2>6. QuietAfterStop'
    BY <1>6 DEF OnSolutionFound, block, engine, farm, QuietAfterStop, Farmed, Joining, HasThread
  <2> QED BY <2>1, <2>2, <2>3, <2>4, <2>5, <2>6
<1>7. CASE SubmitSealed(m)
  <2>1. Generated'
    BY <1>7 DEF SubmitSealed, Goes, SealBlock, block, engine, farm, Generated
  <2>2. LockHeld'
    BY <1>7 DEF SubmitSealed, Goes, SealBlock, block, engine, farm, LockHeld
  <2>3. Joining'
    BY <1>7 DEF SubmitSealed, Goes, SealBlock, block, engine, farm, Joining, LockHeld, QuietAfterStop, HasThread
  <2>4. Farmed'
    BY <1>7 DEF SubmitSealed, Goes, SealBlock, block, engine, farm, Farmed, Joining, LockHeld, QuietAfterStop, HasThread
  <2>5. SealsFit'
    BY <1>7 DEF SubmitSealed, Goes, SealBlock, block, engine, farm, SealsFit, Generated
  <2>6. QuietAfterStop'
    BY <1>7 DEF SubmitSealed, Goes, SealBlock, block, engine, farm, QuietAfterStop, Farmed, Joining, HasThread
  <2> QED BY <2>1, <2>2, <2>3, <2>4, <2>5, <2>6
<1>8. CASE SubmitProof(m)
  <2>1. Generated'
    BY <1>8 DEF SubmitProof, block, engine, farm, Generated
  <2>2. LockHeld'
    BY <1>8 DEF SubmitProof, block, engine, farm, LockHeld
  <2>3. Joining'
    BY <1>8 DEF SubmitProof, block, engine, farm, Joining, LockHeld, QuietAfterStop, HasThread
  <2>4. Farmed'
    BY <1>8 DEF SubmitProof, block, engine, farm, Farmed, Joining, LockHeld, QuietAfterStop, HasThread
  <2>5. SealsFit'
    BY <1>8 DEF SubmitProof, block, engine, farm, SealsFit, Generated
  <2>6. QuietAfterStop'
    BY <1>8 DEF SubmitProof, block, engine, farm, QuietAfterStop, Farmed, Joining, HasThread
  <2> QED BY <2>1, <2>2, <2>3, <2>4, <2>5, <2>6
<1>9. CASE ResetWork(m)
  <2>1. Generated'
    BY <1>9 DEF ResetWork, block, engine, farm, Generated
  <2>2. LockHeld'
    BY <1>9 DEF ResetWork, block, engine, farm, LockHeld
  <2>3. Joining'
    BY <1>9 DEF ResetWork, block, engine, farm, Joining, LockHeld, QuietAfterStop, HasThread
  <2>4. Farmed'
    BY <1>9 DEF ResetWork, block, engine, farm, Farmed, Joining, LockHeld, QuietAfterStop, HasThread
  <2>5. SealsFit'
    BY <1>9 DEF ResetWork, block, engine, farm, SealsFit, Generated
  <2>6. QuietAfterStop'
    BY <1>9 DEF ResetWork, block, engine, farm, QuietAfterStop, Farmed, Joining, HasThread
  <2> QED BY <2>1, <2>2, <2>3, <2>4, <2>5, <2>6
<1>10. ASSUME NEW o \in Miners, PauseOther(m, o)
      PROVE  IInv'
  <2>1. Generated'
    BY <1>10 DEF PauseOther, Stopping, block, engine, farm, Generated
  <2>2. LockHeld'
    BY <1>10 DEF PauseOther, Stopping, block, engine, farm, LockHeld
  <2>3. Joining'
    BY <1>10 DEF PauseOther, Stopping, block, engine, farm, Joining, LockHeld, QuietAfterStop, HasThread
  <2>4. Farmed'
    BY <1>10 DEF PauseOther, Stopping, block, engine, farm, Farmed, Joining, LockHeld, QuietAfterStop, HasThread
  <2>5. SealsFit'
    BY <1>10 DEF PauseOther, Stopping, block, engine, farm, SealsFit, Generated
  <2>6. QuietAfterStop'
    BY <1>10 DEF PauseOther, Stopping, block, engine, farm, QuietAfterStop, Farmed, Joining, HasThread
  <2> QED BY <2>1, <2>2, <2>3, <2>4, <2>5, <2>6
<1>11. ASSUME NEW o \in Miners, OtherJoined(m, o)
      PROVE  IInv'
  <2>1. Generated'
    BY <1>11 DEF OtherJoined, Joined, block, engine, farm, Generated
  <2>2. LockHeld'
    BY <1>11 DEF OtherJoined, Joined, block, engine, farm, LockHeld
  <2>3. Joining'
    BY <1>11 DEF OtherJoined, Joined, block, engine, farm, Joining, LockHeld, QuietAfterStop, HasThread
  <2>4. Farmed'
    BY <1>11 DEF OtherJoined, Joined, block, engine, farm, Farmed, Joining, LockHeld, QuietAfterStop, HasThread
  <2>5. SealsFit'
    BY <1>11 DEF OtherJoined, Joined, block, engine, farm, SealsFit, Generated
  <2>6. QuietAfterStop'
    BY <1>11 DEF OtherJoined, Joined, block, engine, farm, QuietAfterStop, Farmed, Joining, HasThread
  <2> QED BY <2>1, <2>2, <2>3, <2>4, <2>5, <2>6
<1> QED BY <1>1, <1>2, <1>3, <1>4, <1>5, <1>6, <1>7, <1>8, <1>9, <1>10, <1>11 DEF MinerStep

\* The inductive invariant holds in every state of sealing.
LEMMA Invariant == Spec => []IInv
<1>1. Init => IInv
  BY NamesApart DEF Init, NewMiner, IInv, Generated, LockHeld, Joining, Farmed, SealsFit,
                    QuietAfterStop, HasThread
<1>2. ASSUME SealingTypeOK, SealingTypeOK', IInv, [Next]_vars
      PROVE  IInv'
  <2>1. CASE UNCHANGED vars
    BY <1>2, <2>1 DEF vars, IInv, Generated, LockHeld, Joining, Farmed, SealsFit,
                      QuietAfterStop, HasThread
  <2> QED BY <1>2, <2>1, ClientInvariant, ClientMinerInvariant, MinerInvariant DEF Next, ClientStep
<1> QED BY <1>1, <1>2, TypeCorrect, PTL DEF Spec

\* A block given to the block queue carries a seal that was found for its own
\* header (Ethash's onSolutionFound, Client::submitSealed), for any number of
\* miners and however the work is replaced.
THEOREM SealsFitAlways == Spec => []SealsFit
<1>1. IInv => SealsFit
  BY DEF IInv
<1> QED BY <1>1, Invariant, PTL

\* GenericFarm::stop leaves no miner's thread behind.
THEOREM QuietAfterStopAlways == Spec => []QuietAfterStop
<1>1. IInv => QuietAfterStop
  BY DEF IInv
<1> QED BY <1>1, Invariant, PTL

\* No miner's thread is joined by two threads at once or by itself: the lock of
\* the farm orders GenericFarm::setWork, stop and submitProof.
THEOREM JoinedOnceAlways == Spec => []JoinedOnce
<1>1. SealingTypeOK /\ IInv => JoinedOnce
  BY NamesApart DEF SealingTypeOK, MinerType, ClientType, IInv, LockHeld, Joining, JoinedOnce
<1> QED BY <1>1, TypeCorrect, Invariant, PTL
=============================================================================
