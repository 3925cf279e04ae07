-------------------------- MODULE ParallelProofs --------------------------
(***************************************************************************)
(* Proofs about multi_threader and about the executor of a graph, which    *)
(* share no state: each part cites its own module only.                    *)
(***************************************************************************)
EXTENDS MultiThreader, GraphExecutor, TLAPS

-----------------------------------------------------------------------------
(***************************************************************************)
(* The slots of multi_threader: for any number of agents, slots and calls, *)
(* a number is in use for one thread at a time, agents that take turns     *)
(* terminate the threads that they have spawned, and every index of an     *)
(* execute is run.                                                         *)
(***************************************************************************)

Slotted == {"scan", "create", "check", "clear", "join"}
Holding == {"create", "check", "clear"}
Terminating == {"check", "clear", "join"}
AgentRec == [pc : {"free", "execute", "executed"} \cup Slotted, slot : Nat,
             mine : SUBSET (Slot \X (Agent \X Nat)), n : Nat, left : SUBSET Nat]

SlotTypeOK ==
  /\ serial \in BOOLEAN
  /\ flag \in [Slot -> {0, 1}]
  /\ pid \in [Slot -> {Nobody} \cup (Agent \X Nat)]
  /\ DOMAIN live \subseteq Agent \X Nat
  /\ \A x \in DOMAIN live : live[x] \in Slot
  /\ agent \in [Agent -> AgentRec]
  /\ \A g \in Agent : agent[g].pc \in Slotted => agent[g].slot \in Slot
  /\ number_of_threads \in 1..MaxSlots /\ maximum \in Nat

\* A thread is known by its agent and by the number of the call.
OwnThreads ==
  \A g \in Agent : \A m \in agent[g].mine :
     /\ m[2][1] = g /\ m[2][2] <= agent[g].n
     /\ agent[g].pc \in {"scan", "create"} => m[2][2] < agent[g].n

\* A flag that is set belongs to one thread number, or to one agent that is
\* between the claim of the slot and its first thread, or between the
\* check and the clearing of the flag: nobody else clears it.
FlagsHeld ==
  /\ \A g \in Agent : \A m \in agent[g].mine : flag[m[1]] = 1
  /\ \A g \in Agent : agent[g].pc \in Holding => flag[agent[g].slot] = 1
  /\ \A g, h \in Agent : agent[g].pc \in Holding => \A m \in agent[h].mine : m[1] # agent[g].slot
  /\ \A g, h \in Agent : agent[g].pc \in Holding /\ agent[h].pc \in Holding /\ g # h =>
        agent[g].slot # agent[h].slot

\* With agents that take turns, each thread that runs or has ended is in its
\* owner's list or is being terminated.
TakingTurns ==
  /\ \A g, h \in Agent : ~At(g, "free") /\ ~At(h, "free") => g = h
  /\ lost = {}
  /\ \A g \in Agent : \A m \in agent[g].mine :
        pid[m[1]] = m[2] /\ m[2] \in DOMAIN live /\ live[m[2]] = m[1]
  /\ \A x \in DOMAIN live :
        \/ \E g \in Agent : <<live[x], x>> \in agent[g].mine
        \/ \E g \in Agent : agent[g].pc \in Terminating /\ agent[g].slot = live[x] /\ pid[live[x]] = x
  /\ \A g \in Agent : agent[g].pc \in {"check", "clear"} =>
        pid[agent[g].slot] \in DOMAIN live /\ live[pid[agent[g].slot]] = agent[g].slot
  /\ \A g \in Agent : At(g, "join") => pid[agent[g].slot] \in DOMAIN live \cup ended
  /\ \A x \in ended : \E g \in Agent : At(g, "join") /\ pid[agent[g].slot] = x

\* An execute has run the indexes that are not left.
Executing ==
  \A g \in Agent :
     /\ agent[g].pc \in {"execute", "executed"} => serial /\ (maximum = 0 \/ number_of_threads <= maximum)
     /\ At(g, "execute") => indexes \cup agent[g].left = 0..(number_of_threads - 1)
     /\ At(g, "executed") => indexes = 0..(number_of_threads - 1)

SlotsInv == SlotTypeOK /\ OwnThreads /\ FlagsHeld /\ NumbersAreUnique /\ (serial => TakingTurns) /\ Executing

-----------------------------------------------------------------------------
\* No slot is taken at first.
LEMMA SlotsInit == AInit => SlotsInv
<1> SUFFICES ASSUME AInit PROVE SlotsInv
  OBVIOUS
<1>1. /\ \A g \in Agent : /\ agent[g].pc = "free" /\ agent[g].slot = 0 /\ agent[g].mine = {}
                          /\ agent[g].n = 0 /\ agent[g].left = {}
      /\ agent \in [Agent -> AgentRec]
  BY DEF AInit, Free, AgentRec
<1>2. SlotTypeOK
  BY <1>1, SlotsAvailable, ThreaderUses DEF AInit, SlotTypeOK, Slotted
<1>3. OwnThreads /\ FlagsHeld /\ NumbersAreUnique /\ Executing
  BY <1>1 DEF OwnThreads, FlagsHeld, NumbersAreUnique, Executing, Holding, At
<1>4. TakingTurns
  BY <1>1 DEF AInit, TakingTurns, Terminating, At
<1> QED BY <1>2, <1>3, <1>4 DEF SlotsInv

\* spawn_thread begins.
LEMMA SpawnKeeps ==
  ASSUME SlotsInv, NEW g \in Agent, Spawn(g)
  PROVE  SlotsInv'
<1> USE DEF SlotsInv
<1>1. /\ agent' \in [Agent -> AgentRec]
      /\ \A h \in Agent \ {g} : agent'[h] = agent[h]
      /\ agent'[g].pc = "scan" /\ agent'[g].slot = 0
      /\ agent'[g].mine = agent[g].mine /\ agent'[g].n = agent[g].n + 1
      /\ agent[g].n \in Nat /\ agent[g].pc = "free"
      /\ agent[g].mine \subseteq Slot \X (Agent \X Nat)
  BY DEF Spawn, MayCall, At, SlotTypeOK, AgentRec, Slotted
<1>2. /\ serial' = serial /\ maximum' = maximum /\ flag' = flag /\ pid' = pid /\ live' = live
      /\ ended' = ended /\ lost' = lost /\ number_of_threads' = number_of_threads /\ indexes' = indexes
  BY DEF Spawn, spawned, executing
<1>3. serial => \A h \in Agent : agent[h].pc = "free"
  BY DEF Spawn, MayCall, At
<1>4. SlotTypeOK'
  <2>1. 0 \in Slot
    BY SlotsAvailable DEF Slot
  <2> QED BY <1>1, <1>2, <2>1 DEF SlotTypeOK
<1>5. OwnThreads'
  BY <1>1, <1>2 DEF OwnThreads
<1>6. FlagsHeld' /\ NumbersAreUnique' /\ Executing'
  BY <1>1, <1>2 DEF FlagsHeld, NumbersAreUnique, Executing, Holding, At
<1>7. ASSUME serial PROVE TakingTurns'
  BY <1>1, <1>2, <1>3, <1>7 DEF TakingTurns, Terminating, At
<1> QED BY <1>2, <1>4, <1>5, <1>6, <1>7

\* The scan claims a slot whose flag is 0, which nobody holds, or goes on.
LEMMA ScanKeeps ==
  ASSUME SlotsInv, NEW g \in Agent, Scan(g)
  PROVE  SlotsInv'
<1> USE DEF SlotsInv
<1> DEFINE s == agent[g].slot
<1>1. /\ agent[g].pc = "scan" /\ s \in Slot
      /\ serial' = serial /\ maximum' = maximum /\ pid' = pid /\ live' = live
      /\ ended' = ended /\ lost' = lost /\ number_of_threads' = number_of_threads /\ indexes' = indexes
  BY DEF Scan, At, executing, SlotTypeOK, Slotted
<1>2. CASE flag[s] = 0
  <2>1. /\ flag' = [flag EXCEPT ![s] = 1]
        /\ agent' \in [Agent -> AgentRec]
        /\ \A h \in Agent \ {g} : agent'[h] = agent[h]
        /\ agent'[g].pc = "create" /\ agent'[g].slot = s
        /\ agent'[g].mine = agent[g].mine /\ agent'[g].n = agent[g].n
    <3>1. flag' = [flag EXCEPT ![s] = 1] /\ agent' = [agent EXCEPT ![g].pc = "create"]
      BY <1>2 DEF Scan, Claims
    <3>2. agent \in [Agent -> AgentRec]
      BY DEF SlotTypeOK
    <3> QED BY <3>1, <3>2 DEF AgentRec, Slotted
  <2>2. flag' \in [Slot -> {0, 1}] /\ flag'[s] = 1 /\ \A t \in Slot : flag[t] = 1 => flag'[t] = 1 /\ t # s
    BY <1>1, <1>2, <2>1 DEF SlotTypeOK
  <2>3. \A h \in Agent : agent[h].mine \subseteq Slot \X (Agent \X Nat)
    BY DEF SlotTypeOK, AgentRec
  <2>4. SlotTypeOK'
    BY <1>1, <2>1, <2>2 DEF SlotTypeOK
  <2>5. OwnThreads' /\ NumbersAreUnique' /\ Executing'
    BY <1>1, <2>1 DEF OwnThreads, NumbersAreUnique, Executing, At
  <2>6. \A h \in Agent : agent[h].pc \in Holding => agent[h].slot \in Slot
    BY DEF SlotTypeOK, Holding, Slotted
  <2>7. \A h \in Agent : \A m \in agent'[h].mine : flag'[m[1]] = 1 /\ m[1] # s
    BY <2>1, <2>2, <2>3 DEF FlagsHeld
  <2>8. \A h \in Agent \ {g} : agent'[h].pc \in Holding => flag'[agent'[h].slot] = 1 /\ agent'[h].slot # s
    BY <2>1, <2>2, <2>6 DEF FlagsHeld
  <2>9. FlagsHeld'
    BY <2>1, <2>2, <2>7, <2>8 DEF FlagsHeld
  <2>10. ASSUME serial PROVE TakingTurns'
    BY <1>1, <2>1, <2>10 DEF TakingTurns, Terminating, At
  <2> QED BY <1>1, <2>4, <2>5, <2>9, <2>10
<1>3. CASE flag[s] = 1
  <2>1. /\ flag' = flag
        /\ agent' \in [Agent -> AgentRec]
        /\ \A h \in Agent \ {g} : agent'[h] = agent[h]
        /\ agent'[g].pc = (IF s + 1 < MaxSlots THEN "scan" ELSE "free") /\ agent'[g].slot = s + 1
        /\ agent'[g].mine = agent[g].mine /\ agent'[g].n = agent[g].n
    BY <1>3 DEF Scan, SlotTypeOK, AgentRec, Slotted
  <2>2. agent'[g].pc \in {"scan", "free"} /\ (agent'[g].pc = "scan" => agent'[g].slot \in Slot)
    BY <1>1, <2>1, SlotsAvailable DEF Slot
  <2>3. SlotTypeOK'
    BY <1>1, <2>1, <2>2 DEF SlotTypeOK, Slotted
  <2>4. OwnThreads' /\ FlagsHeld' /\ NumbersAreUnique' /\ Executing'
    BY <1>1, <2>1, <2>2 DEF OwnThreads, FlagsHeld, NumbersAreUnique, Executing, Holding, At
  <2>5. ASSUME serial PROVE TakingTurns'
    BY <1>1, <2>1, <2>2, <2>5 DEF TakingTurns, Terminating, At
  <2> QED BY <1>1, <2>3, <2>4, <2>5
<1> QED BY <1>2, <1>3 DEF Scan

\* The thread is created in the slot that the scan has claimed.
LEMMA CreateKeeps ==
  ASSUME SlotsInv, NEW g \in Agent, Create(g)
  PROVE  SlotsInv'
<1> USE DEF SlotsInv
<1> DEFINE s == agent[g].slot
           x == <<g, agent[g].n>>
<1>1. /\ agent[g].pc = "create" /\ s \in Slot /\ agent[g].n \in Nat /\ x \in Agent \X Nat
      /\ serial' = serial /\ maximum' = maximum /\ flag' = flag
      /\ ended' = ended /\ lost' = lost /\ number_of_threads' = number_of_threads /\ indexes' = indexes
  BY DEF Create, At, executing, SlotTypeOK, Slotted, AgentRec
<1>2. /\ agent' \in [Agent -> AgentRec]
      /\ \A h \in Agent \ {g} : agent'[h] = agent[h]
      /\ agent'[g].pc = "free" /\ agent'[g].slot = s
      /\ agent'[g].mine = agent[g].mine \cup {<<s, x>>} /\ agent'[g].n = agent[g].n
  <2> DEFINE rec == [agent[g] EXCEPT !.pc = "free", !.mine = agent[g].mine \cup {<<s, x>>}]
  <2>1. agent' = [agent EXCEPT ![g] = rec]
    BY DEF Create
  <2>2. agent[g] \in AgentRec /\ <<s, x>> \in Slot \X (Agent \X Nat)
    BY <1>1 DEF SlotTypeOK
  <2>3. /\ rec \in AgentRec /\ rec.pc = "free" /\ rec.slot = s
        /\ rec.mine = agent[g].mine \cup {<<s, x>>} /\ rec.n = agent[g].n
    BY <2>2 DEF AgentRec, Slotted
  <2> HIDE DEF rec
  <2> QED BY <2>1, <2>3 DEF SlotTypeOK
<1>3. /\ pid' \in [Slot -> {Nobody} \cup (Agent \X Nat)]
      /\ pid'[s] = x /\ \A t \in Slot \ {s} : pid'[t] = pid[t]
      /\ DOMAIN live' = DOMAIN live \cup {x}
      /\ live'[x] = s /\ \A y \in DOMAIN live \ {x} : live'[y] = live[y]
  BY <1>1 DEF Create, SlotTypeOK
<1>4. \A h \in Agent : \A m \in agent[h].mine : m \in Slot \X (Agent \X Nat) /\ m[1] # s /\ m[2] # x
  <2>1. \A h \in Agent : agent[h].mine \subseteq Slot \X (Agent \X Nat)
    BY DEF SlotTypeOK, AgentRec
  <2>2. \A h \in Agent : \A m \in agent[h].mine : m[1] # s
    BY <1>1 DEF FlagsHeld, Holding
  <2>3. \A h \in Agent : \A m \in agent[h].mine : m[2] # x
    BY <1>1 DEF OwnThreads
  <2> QED BY <2>1, <2>2, <2>3
<1>5. SlotTypeOK'
  BY <1>1, <1>2, <1>3 DEF SlotTypeOK, Slotted
<1>6. OwnThreads' /\ NumbersAreUnique' /\ Executing'
  BY <1>1, <1>2, <1>4 DEF OwnThreads, NumbersAreUnique, Executing, At
<1>7. FlagsHeld'
  BY <1>1, <1>2, <1>4 DEF FlagsHeld, Holding
<1>8. ASSUME serial PROVE TakingTurns'
  <2>1. \A h \in Agent : agent'[h].pc = "free"
    BY <1>1, <1>2, <1>8 DEF TakingTurns, At
  <2>2. ended = {} /\ lost = {}
    BY <1>1, <1>8 DEF TakingTurns, At
  <2>3. \A y \in DOMAIN live : y # x /\ \E h \in Agent : <<live[y], y>> \in agent[h].mine
    BY <1>1, <1>4, <1>8 DEF TakingTurns, Terminating, At
  <2>4. \A h \in Agent : \A m \in agent[h].mine :
          pid'[m[1]] = m[2] /\ m[2] \in DOMAIN live' /\ live'[m[2]] = m[1]
    BY <1>3, <1>4, <1>8 DEF TakingTurns
  <2>5. \A h \in Agent : \A m \in agent'[h].mine :
          pid'[m[1]] = m[2] /\ m[2] \in DOMAIN live' /\ live'[m[2]] = m[1]
    BY <1>2, <1>3, <2>4
  <2>6. \A y \in DOMAIN live' : \E h \in Agent : <<live'[y], y>> \in agent'[h].mine
    BY <1>2, <1>3, <2>3
  <2> QED BY <1>1, <2>1, <2>2, <2>5, <2>6 DEF TakingTurns, Terminating, At
<1> QED BY <1>1, <1>5, <1>6, <1>7, <1>8

\* A spawned function returns when its flag is 0: the agent that terminates
\* it is about to join it.
LEMMA SpawnedReturnsKeeps ==
  ASSUME SlotsInv, NEW x \in DOMAIN live, SpawnedReturns(x)
  PROVE  SlotsInv'
<1> USE DEF SlotsInv
<1>1. /\ flag[live[x]] = 0 /\ ended' = ended \cup {x}
      /\ DOMAIN live' = DOMAIN live \ {x} /\ \A y \in DOMAIN live \ {x} : live'[y] = live[y]
      /\ serial' = serial /\ maximum' = maximum /\ flag' = flag /\ pid' = pid /\ agent' = agent
      /\ lost' = lost /\ number_of_threads' = number_of_threads /\ indexes' = indexes
  BY DEF SpawnedReturns, executing
<1>2. SlotTypeOK'
  BY <1>1 DEF SlotTypeOK
<1>3. OwnThreads' /\ FlagsHeld' /\ NumbersAreUnique' /\ Executing'
  BY <1>1 DEF OwnThreads, FlagsHeld, NumbersAreUnique, Executing, At
<1>4. ASSUME serial PROVE TakingTurns'
  <2>1. \A g \in Agent : \A m \in agent[g].mine : m[2] # x
    BY <1>1, <1>4 DEF TakingTurns, FlagsHeld
  <2>2. \A g \in Agent : agent[g].pc \in {"check", "clear"} => pid[agent[g].slot] # x
    BY <1>1, <1>4 DEF TakingTurns, FlagsHeld, Holding
  <2>3. \E g \in Agent : agent[g].pc \in Terminating /\ agent[g].slot = live[x] /\ pid[live[x]] = x
    BY <1>4, <2>1 DEF TakingTurns
  <2>4. \E g \in Agent : At(g, "join") /\ pid[agent[g].slot] = x
    BY <2>2, <2>3 DEF At, Terminating
  <2> QED BY <1>1, <1>4, <2>1, <2>2, <2>4 DEF TakingTurns, At
<1> QED BY <1>1, <1>2, <1>3, <1>4

\* terminate_thread begins: the number leaves its owner's list.
LEMMA TerminateKeeps ==
  ASSUME SlotsInv, NEW g \in Agent, NEW m \in agent[g].mine, Terminate(g, m)
  PROVE  SlotsInv'
<1> USE DEF SlotsInv
<1>1. /\ agent[g].pc = "free" /\ (serial => \A h \in Agent : agent[h].pc = "free")
      /\ serial' = serial /\ maximum' = maximum /\ flag' = flag /\ pid' = pid /\ live' = live
      /\ ended' = ended /\ lost' = lost /\ number_of_threads' = number_of_threads /\ indexes' = indexes
  BY DEF Terminate, MayCall, At, spawned, executing
<1>2. agent[g] \in AgentRec /\ m[1] \in Slot /\ m[1] \in Nat
  <2>1. agent[g] \in AgentRec /\ m \in Slot \X (Agent \X Nat)
    BY DEF SlotTypeOK, AgentRec
  <2> QED BY <2>1, SlotsAvailable DEF Slot
<1>3. /\ agent' \in [Agent -> AgentRec]
      /\ \A h \in Agent \ {g} : agent'[h] = agent[h]
      /\ agent'[g].pc = "check" /\ agent'[g].slot = m[1]
      /\ agent'[g].mine = agent[g].mine \ {m} /\ agent'[g].n = agent[g].n
  <2> DEFINE rec == [agent[g] EXCEPT !.pc = "check", !.slot = m[1], !.mine = agent[g].mine \ {m}]
  <2>1. agent' = [agent EXCEPT ![g] = rec]
    BY DEF Terminate
  <2>2. /\ rec \in AgentRec /\ rec.pc = "check" /\ rec.slot = m[1]
        /\ rec.mine = agent[g].mine \ {m} /\ rec.n = agent[g].n
    BY <1>2 DEF AgentRec, Slotted
  <2> HIDE DEF rec
  <2> QED BY <2>1, <2>2 DEF SlotTypeOK
<1>4. SlotTypeOK'
  BY <1>1, <1>2, <1>3 DEF SlotTypeOK
<1>5. OwnThreads' /\ NumbersAreUnique' /\ Executing'
  BY <1>1, <1>3 DEF OwnThreads, NumbersAreUnique, Executing, At
<1>6. FlagsHeld'
  <2>1. \A h \in Agent : \A k \in agent'[h].mine : k \in agent[h].mine /\ k # m /\ flag'[k[1]] = 1
    BY <1>1, <1>3 DEF FlagsHeld, OwnThreads
  <2>2. \A h \in Agent : \A k \in agent'[h].mine : k[1] # m[1]
    BY <2>1 DEF NumbersAreUnique
  <2>3. \A h \in Agent \ {g} : agent[h].pc \in Holding => agent[h].slot # m[1]
    BY DEF FlagsHeld
  <2>4. flag'[m[1]] = 1
    BY <1>1 DEF FlagsHeld
  <2> QED BY <1>1, <1>3, <2>1, <2>2, <2>3, <2>4 DEF FlagsHeld
<1>7. ASSUME serial PROVE TakingTurns'
  <2>1. pid[m[1]] = m[2] /\ m[2] \in DOMAIN live /\ live[m[2]] = m[1]
    BY <1>7 DEF TakingTurns
  <2>2. \A h \in Agent : agent[h].mine \subseteq Slot \X (Agent \X Nat)
    BY DEF SlotTypeOK, AgentRec
  <2>3. ASSUME NEW y \in DOMAIN live
        PROVE  \/ \E h \in Agent : <<live[y], y>> \in agent'[h].mine
               \/ agent'[g].slot = live[y] /\ pid[live[y]] = y
    <3>1. PICK h \in Agent : <<live[y], y>> \in agent[h].mine
      BY <1>1, <1>7, <2>3 DEF TakingTurns, Terminating
    <3>2. CASE <<live[y], y>> = m
      BY <1>3, <2>1, <3>2
    <3>3. CASE <<live[y], y>> # m
      BY <1>3, <3>1, <3>3
    <3> QED BY <3>2, <3>3
  <2>4. \A h \in Agent : h # g => agent'[h].pc = "free"
    BY <1>1, <1>3, <1>7
  <2>5. ended = {} /\ lost = {}
    BY <1>1, <1>7 DEF TakingTurns, At
  <2> QED BY <1>1, <1>3, <1>7, <2>1, <2>3, <2>4, <2>5 DEF TakingTurns, Terminating, At
<1> QED BY <1>1, <1>4, <1>5, <1>6, <1>7

\* The flag of a slot that is being terminated is set: nobody else clears it.
LEMMA TerminateCheckKeeps ==
  ASSUME SlotsInv, NEW g \in Agent, TerminateCheck(g)
  PROVE  SlotsInv'
<1> USE DEF SlotsInv
<1>1. /\ agent[g].pc = "check"
      /\ serial' = serial /\ maximum' = maximum /\ flag' = flag /\ pid' = pid /\ live' = live
      /\ ended' = ended /\ lost' = lost /\ number_of_threads' = number_of_threads /\ indexes' = indexes
  BY DEF TerminateCheck, At, spawned, executing
<1>2. flag[agent[g].slot] = 1
  BY <1>1 DEF FlagsHeld, Holding
<1>3. /\ agent' \in [Agent -> AgentRec]
      /\ \A h \in Agent \ {g} : agent'[h] = agent[h]
      /\ agent'[g].pc = "clear" /\ agent'[g].slot = agent[g].slot
      /\ agent'[g].mine = agent[g].mine /\ agent'[g].n = agent[g].n
  <2>1. agent' = [agent EXCEPT ![g].pc = "clear"]
    BY <1>2 DEF TerminateCheck
  <2> QED BY <2>1 DEF SlotTypeOK, AgentRec, Slotted
<1>4. SlotTypeOK'
  BY <1>1, <1>3 DEF SlotTypeOK, Slotted
<1>5. OwnThreads' /\ FlagsHeld' /\ NumbersAreUnique' /\ Executing'
  BY <1>1, <1>3 DEF OwnThreads, FlagsHeld, NumbersAreUnique, Executing, Holding, At
<1>6. ASSUME serial PROVE TakingTurns'
  BY <1>1, <1>3, <1>6 DEF TakingTurns, Terminating, At
<1> QED BY <1>1, <1>4, <1>5, <1>6

\* The agent clears the flag, which only it holds.
LEMMA TerminateClearKeeps ==
  ASSUME SlotsInv, NEW g \in Agent, TerminateClear(g)
  PROVE  SlotsInv'
<1> USE DEF SlotsInv
<1> DEFINE s == agent[g].slot
<1>1. /\ agent[g].pc = "clear" /\ s \in Slot
      /\ serial' = serial /\ maximum' = maximum /\ pid' = pid /\ live' = live
      /\ ended' = ended /\ lost' = lost /\ number_of_threads' = number_of_threads /\ indexes' = indexes
  BY DEF TerminateClear, At, executing, SlotTypeOK, Slotted
<1>2. flag' \in [Slot -> {0, 1}] /\ flag'[s] = 0 /\ \A t \in Slot \ {s} : flag'[t] = flag[t]
  BY <1>1 DEF TerminateClear, Cleared, SlotTypeOK
<1>3. /\ agent' \in [Agent -> AgentRec]
      /\ \A h \in Agent \ {g} : agent'[h] = agent[h]
      /\ agent'[g].pc = "join" /\ agent'[g].slot = s
      /\ agent'[g].mine = agent[g].mine /\ agent'[g].n = agent[g].n
  BY DEF TerminateClear, SlotTypeOK, AgentRec, Slotted
<1>4. \A h \in Agent : agent[h].mine \subseteq Slot \X (Agent \X Nat)
  BY DEF SlotTypeOK, AgentRec
<1>5. \A h \in Agent : agent[h].pc \in Holding => agent[h].slot \in Slot
  BY DEF SlotTypeOK, Holding, Slotted
<1>6. SlotTypeOK'
  BY <1>1, <1>2, <1>3 DEF SlotTypeOK
<1>7. OwnThreads' /\ NumbersAreUnique' /\ Executing'
  BY <1>1, <1>3 DEF OwnThreads, NumbersAreUnique, Executing, At
<1>8. FlagsHeld'
  <2>1. \A h \in Agent : \A m \in agent'[h].mine : m \in agent[h].mine /\ m[1] \in Slot /\ m[1] # s /\ flag'[m[1]] = 1
    BY <1>1, <1>2, <1>3, <1>4 DEF FlagsHeld, Holding
  <2>2. \A h \in Agent \ {g} : agent[h].pc \in Holding => agent[h].slot # s /\ flag'[agent[h].slot] = 1
    BY <1>1, <1>2, <1>5 DEF FlagsHeld, Holding
  <2>3. agent'[g].pc \notin Holding
    BY <1>3 DEF Holding
  <2> QED BY <1>3, <2>1, <2>2, <2>3 DEF FlagsHeld
<1>9. ASSUME serial PROVE TakingTurns'
  BY <1>1, <1>3, <1>9 DEF TakingTurns, Terminating, At
<1> QED BY <1>1, <1>6, <1>7, <1>8, <1>9

\* The join takes the thread that the slot has; with agents that take turns
\* it is the one that was terminated.
LEMMA JoinSpawnedKeeps ==
  ASSUME SlotsInv, NEW g \in Agent, JoinSpawned(g)
  PROVE  SlotsInv'
<1> USE DEF SlotsInv
<1> DEFINE x == pid[agent[g].slot]
<1>1. /\ agent[g].pc = "join" /\ x \notin DOMAIN live
      /\ lost' = (IF x \in ended THEN lost ELSE lost \cup {x}) /\ ended' = ended \ {x}
      /\ serial' = serial /\ maximum' = maximum /\ flag' = flag /\ pid' = pid /\ live' = live
      /\ number_of_threads' = number_of_threads /\ indexes' = indexes
  BY DEF JoinSpawned, Joinable, At, executing
<1>2. /\ agent' \in [Agent -> AgentRec]
      /\ \A h \in Agent \ {g} : agent'[h] = agent[h]
      /\ agent'[g].pc = "free" /\ agent'[g].slot = agent[g].slot
      /\ agent'[g].mine = agent[g].mine /\ agent'[g].n = agent[g].n
  BY DEF JoinSpawned, SlotTypeOK, AgentRec, Slotted
<1>3. SlotTypeOK'
  BY <1>1, <1>2 DEF SlotTypeOK, Slotted
<1>4. OwnThreads' /\ FlagsHeld' /\ NumbersAreUnique' /\ Executing'
  BY <1>1, <1>2 DEF OwnThreads, FlagsHeld, NumbersAreUnique, Executing, Holding, At
<1>5. ASSUME serial PROVE TakingTurns'
  <2>1. \A h \in Agent \ {g} : agent[h].pc = "free"
    BY <1>1, <1>5 DEF TakingTurns, At
  <2>2. x \in ended /\ ended' = {} /\ lost' = {}
    BY <1>1, <1>5, <2>1 DEF TakingTurns, At
  <2>3. \A y \in DOMAIN live : \E h \in Agent : <<live[y], y>> \in agent'[h].mine
    BY <1>1, <1>2, <1>5, <2>1 DEF TakingTurns, Terminating
  <2>4. \A h \in Agent : agent'[h].pc = "free"
    BY <1>2, <2>1
  <2> QED BY <1>1, <1>2, <1>5, <2>2, <2>3, <2>4 DEF TakingTurns, Terminating, At
<1> QED BY <1>1, <1>3, <1>4, <1>5

\* The number of threads that an execute takes is at least one, and within
\* the maximum.
LEMMA LimitedIsRight ==
  ASSUME SlotTypeOK
  PROVE  limited \in 1..MaxSlots /\ (maximum = 0 \/ limited <= maximum)
BY SlotsAvailable DEF SlotTypeOK, limited

\* The limits change while nobody executes.
LEMMA LimitsKeep ==
  ASSUME SlotsInv, NEW g \in Agent,
         \/ \E n \in {0, 1, MaxSlots + 1} : SetNumberOfThreads(g, n)
         \/ \E n \in GlobalMaxima : SetMaximum(g, n)
         \/ MultipleMethodExecute(g, FALSE)
  PROVE  SlotsInv'
<1> USE DEF SlotsInv
<1>1. /\ serial /\ \A h \in Agent : agent[h].pc = "free"
      /\ serial' = serial /\ agent' = agent /\ flag' = flag /\ pid' = pid /\ live' = live
      /\ ended' = ended /\ lost' = lost /\ indexes' = indexes
  BY DEF SetNumberOfThreads, SetMaximum, MultipleMethodExecute, MayCall, At, spawned, executing
<1>2. number_of_threads' \in 1..MaxSlots /\ maximum' \in Nat
  <2>1. ASSUME NEW n \in {0, 1, MaxSlots + 1}, SetNumberOfThreads(g, n)
        PROVE  number_of_threads' \in 1..MaxSlots /\ maximum' \in Nat
    <3>1. n \in Nat
      BY SlotsAvailable
    <3>2. \A a, b \in Nat : Max({a, b}) \in Nat /\ Max({a, b}) >= b
      BY DEF Max
    <3>3. \A a, b \in Nat : Min({a, b}) \in {a, b} /\ Min({a, b}) <= b
      BY DEF Min
    <3>4. Max({n, 1}) \in Nat /\ Max({n, 1}) >= 1
      BY <3>1, <3>2
    <3>5. ASSUME NEW a \in Nat, a >= 1
          PROVE  Min({a, MaxSlots}) \in 1..MaxSlots
      BY <3>3, <3>5, SlotsAvailable
    <3>6. Min({Max({n, 1}), MaxSlots}) \in 1..MaxSlots
      BY <3>4, <3>5
    <3> QED BY <2>1, <3>6 DEF SetNumberOfThreads, SlotTypeOK
  <2>2. ASSUME NEW n \in GlobalMaxima, SetMaximum(g, n)
        PROVE  number_of_threads' \in 1..MaxSlots /\ maximum' \in Nat
    BY <2>2, ThreaderUses DEF SetMaximum, SlotTypeOK, executing
  <2>3. ASSUME MultipleMethodExecute(g, FALSE)
        PROVE  number_of_threads' \in 1..MaxSlots /\ maximum' \in Nat
    BY <2>3, LimitedIsRight DEF MultipleMethodExecute, SlotTypeOK
  <2> QED BY <2>1, <2>2, <2>3
<1>3. SlotTypeOK'
  BY <1>1, <1>2 DEF SlotTypeOK
<1>4. OwnThreads' /\ FlagsHeld' /\ NumbersAreUnique' /\ Executing'
  BY <1>1 DEF OwnThreads, FlagsHeld, NumbersAreUnique, Executing, At
<1>5. TakingTurns'
  BY <1>1 DEF TakingTurns, At
<1> QED BY <1>3, <1>4, <1>5

\* single_method_execute: the threads and their parent have an index each.
LEMMA ExecuteKeeps ==
  ASSUME SlotsInv, NEW g \in Agent, SingleMethodExecute(g)
  PROVE  SlotsInv'
<1> USE DEF SlotsInv
<1>1. /\ serial /\ indexes = {} /\ number_of_threads' = limited
      /\ \A h \in Agent : agent[h].pc = "free"
      /\ serial' = serial /\ maximum' = maximum /\ flag' = flag /\ pid' = pid /\ live' = live
      /\ ended' = ended /\ lost' = lost /\ indexes' = indexes
  BY DEF SingleMethodExecute, MayCall, At, spawned
<1>2. limited \in 1..MaxSlots /\ (maximum = 0 \/ limited <= maximum)
  BY LimitedIsRight
<1>3. /\ agent' \in [Agent -> AgentRec]
      /\ \A h \in Agent \ {g} : agent'[h] = agent[h]
      /\ agent'[g].pc = "execute" /\ agent'[g].left = 0..(limited - 1)
      /\ agent'[g].mine = agent[g].mine /\ agent'[g].n = agent[g].n
  <2> DEFINE all == 0..(limited - 1)
  <2>1. all \in SUBSET Nat
    BY <1>2, SlotsAvailable
  <2>2. agent' = [agent EXCEPT ![g].pc = "execute", ![g].left = all]
    BY DEF SingleMethodExecute
  <2> HIDE DEF all
  <2>3. /\ agent' \in [Agent -> AgentRec]
        /\ \A h \in Agent \ {g} : agent'[h] = agent[h]
        /\ agent'[g].pc = "execute" /\ agent'[g].left = all
        /\ agent'[g].mine = agent[g].mine /\ agent'[g].n = agent[g].n
    <3>1. agent \in [Agent -> AgentRec]
      BY DEF SlotTypeOK
    <3>2. /\ \A h \in Agent \ {g} : agent'[h] = agent[h]
          /\ agent'[g].pc = "execute" /\ agent'[g].left = all
          /\ agent'[g].mine = agent[g].mine /\ agent'[g].n = agent[g].n
      BY <2>2, <3>1 DEF AgentRec
    <3>3. agent' \in [Agent -> AgentRec]
      <4>1. PICK r : r = [agent[g] EXCEPT !.pc = "execute", !.left = all]
        OBVIOUS
      <4>2. agent' = [agent EXCEPT ![g] = r]
        BY <2>2, <3>1, <4>1
      <4>3. r \in AgentRec
        BY <2>1, <3>1, <4>1 DEF AgentRec
      <4> QED BY <3>1, <4>2, <4>3
    <3> QED BY <3>2, <3>3
  <2> QED BY <2>3 DEF all
<1>4. SlotTypeOK'
  BY <1>1, <1>2, <1>3 DEF SlotTypeOK, Slotted
<1>5. OwnThreads' /\ FlagsHeld' /\ NumbersAreUnique'
  BY <1>1, <1>3 DEF OwnThreads, FlagsHeld, NumbersAreUnique, Holding
<1>6. Executing'
  BY <1>1, <1>2, <1>3 DEF Executing, At
<1>7. TakingTurns'
  BY <1>1, <1>3 DEF TakingTurns, Terminating, At
<1> QED BY <1>4, <1>5, <1>6, <1>7

\* The method runs with one of the indexes that are left.
LEMMA MethodRunsKeeps ==
  ASSUME SlotsInv, NEW g \in Agent, NEW i \in agent[g].left, MethodRuns(g, i)
  PROVE  SlotsInv'
<1> USE DEF SlotsInv
<1>1. /\ agent[g].pc = "execute" /\ indexes' = indexes \cup {i}
      /\ serial' = serial /\ maximum' = maximum /\ flag' = flag /\ pid' = pid /\ live' = live
      /\ ended' = ended /\ lost' = lost /\ number_of_threads' = number_of_threads
  BY DEF MethodRuns, At, spawned
<1>2. /\ agent' \in [Agent -> AgentRec]
      /\ \A h \in Agent \ {g} : agent'[h] = agent[h]
      /\ agent'[g].pc = "execute" /\ agent'[g].left = agent[g].left \ {i}
      /\ agent'[g].mine = agent[g].mine /\ agent'[g].n = agent[g].n
  BY <1>1 DEF MethodRuns, SlotTypeOK, AgentRec
<1>3. serial /\ \A h \in Agent \ {g} : agent[h].pc = "free"
  BY <1>1 DEF Executing, TakingTurns, At
<1>4. SlotTypeOK'
  BY <1>1, <1>2 DEF SlotTypeOK, Slotted
<1>5. OwnThreads' /\ FlagsHeld' /\ NumbersAreUnique'
  BY <1>1, <1>2 DEF OwnThreads, FlagsHeld, NumbersAreUnique, Holding
<1>6. Executing'
  BY <1>1, <1>2, <1>3 DEF Executing, At
<1>7. TakingTurns'
  BY <1>1, <1>2, <1>3 DEF TakingTurns, Terminating, At
<1> QED BY <1>4, <1>5, <1>6, <1>7

\* The execute returns when no index is left, and the agent goes on.
LEMMA ExecuteEnds ==
  ASSUME SlotsInv, NEW g \in Agent, ExecuteReturns(g) \/ AfterExecute(g)
  PROVE  SlotsInv'
<1> USE DEF SlotsInv
<1>1. /\ agent[g].pc \in {"execute", "executed"}
      /\ agent'[g].pc \in {"executed", "free"}
      /\ agent'[g].pc = "executed" => agent[g].pc = "execute" /\ agent[g].left = {} /\ indexes' = indexes
      /\ serial' = serial /\ maximum' = maximum /\ flag' = flag /\ pid' = pid /\ live' = live
      /\ ended' = ended /\ lost' = lost /\ number_of_threads' = number_of_threads
  BY DEF ExecuteReturns, AfterExecute, At, spawned, executing, SlotTypeOK, AgentRec
<1>2. /\ agent' \in [Agent -> AgentRec]
      /\ \A h \in Agent \ {g} : agent'[h] = agent[h]
      /\ agent'[g].mine = agent[g].mine /\ agent'[g].n = agent[g].n
  BY DEF ExecuteReturns, AfterExecute, SlotTypeOK, AgentRec
<1>3. serial /\ \A h \in Agent \ {g} : agent[h].pc = "free"
  BY <1>1 DEF Executing, TakingTurns, At
<1>4. SlotTypeOK'
  BY <1>1, <1>2 DEF SlotTypeOK, Slotted
<1>5. OwnThreads' /\ FlagsHeld' /\ NumbersAreUnique'
  BY <1>1, <1>2 DEF OwnThreads, FlagsHeld, NumbersAreUnique, Holding
<1>6. Executing'
  BY <1>1, <1>2, <1>3 DEF Executing, At
<1>7. TakingTurns'
  BY <1>1, <1>2, <1>3 DEF TakingTurns, Terminating, At
<1> QED BY <1>4, <1>5, <1>6, <1>7

\* Every step keeps the invariant.
LEMMA SlotsStep == SlotsInv /\ [ANext]_avars => SlotsInv'
<1> SUFFICES ASSUME SlotsInv, [ANext]_avars PROVE SlotsInv'
  OBVIOUS
<1>1. CASE UNCHANGED avars
  BY <1>1 DEF avars, SlotsInv, SlotTypeOK, OwnThreads, FlagsHeld, NumbersAreUnique, TakingTurns,
     Executing, At
<1>2. ASSUME NEW g \in Agent, Spawn(g) \/ (\E m \in agent[g].mine : Terminate(g, m))
      PROVE  SlotsInv'
  BY <1>2, SpawnKeeps, TerminateKeeps
<1>3. ASSUME NEW g \in Agent,
             \/ SingleMethodExecute(g) \/ \E complete \in BOOLEAN : MultipleMethodExecute(g, complete)
             \/ \E n \in {0, 1, MaxSlots + 1} : SetNumberOfThreads(g, n)
             \/ \E n \in GlobalMaxima : SetMaximum(g, n)
      PROVE  SlotsInv'
  <2>1. MultipleMethodExecute(g, TRUE) => SingleMethodExecute(g)
    BY DEF MultipleMethodExecute
  <2> QED BY <1>3, <2>1, ExecuteKeeps, LimitsKeep
<1>4. ASSUME NEW g \in Agent, AgentStep(g)
      PROVE  SlotsInv'
  BY <1>4, ScanKeeps, CreateKeeps, TerminateCheckKeeps, TerminateClearKeeps, JoinSpawnedKeeps,
     MethodRunsKeeps, ExecuteEnds DEF AgentStep
<1>5. ASSUME NEW x \in DOMAIN live, SpawnedReturns(x)
      PROVE  SlotsInv'
  BY <1>5, SpawnedReturnsKeeps
<1> QED BY <1>1, <1>2, <1>3, <1>4, <1>5 DEF ANext

\* Whatever agents do, spawn_thread gives no number twice; when they take
\* turns every thread is its owner's until it is joined; and an execute has
\* run each of its indexes, at least one, when it returns.
THEOREM SlotsAreSound == ASpec => []SlotsSound
<1>1. SlotsInv => EveryThreadIsOwned
  BY DEF SlotsInv, TakingTurns, EveryThreadIsOwned, Terminating, At
<1>2. SlotsInv => EveryIndexRuns
  <2> SUFFICES ASSUME SlotsInv, NEW g \in Agent, At(g, "executed")
               PROVE  /\ indexes = 0..(number_of_threads - 1) /\ 0 \in indexes
                      /\ maximum = 0 \/ number_of_threads <= maximum
    BY DEF EveryIndexRuns
  <2>1. indexes = 0..(number_of_threads - 1) /\ (maximum = 0 \/ number_of_threads <= maximum)
    BY DEF SlotsInv, Executing, At
  <2> QED BY <2>1, SlotsAvailable DEF SlotsInv, SlotTypeOK
<1>3. SlotsInv => SlotsSound
  BY <1>1, <1>2 DEF SlotsInv, SlotsSound
<1> QED BY <1>3, SlotsInit, SlotsStep, PTL DEF ASpec

-----------------------------------------------------------------------------
(***************************************************************************)
(* graph_executor::run implements GraphEvaluation: for any graph that      *)
(* build() accepts, any number of threads and any works that throw.        *)
(***************************************************************************)

Stages == {"none", "held", "queued", "check", "work", "throw", "record", "write", "finish", "ready"}
Untouched == {"none", "held", "queued", "check", "work"}
Ended == {"finish", "ready"}

\* build() has looked at every edge, and nothing is added after it.
EdgesNameNodes ==
  phase \in {"sort", "built", "push", "wait", "returned"} =>
     \A i \in DOMAIN edges_ : edges_[i][1] \in Ids /\ edges_[i][2] \in Ids

RunTypeOK ==
  /\ stage \in [Ids -> Stages]
  /\ node_failed \in [Ids -> BOOLEAN]
  /\ ran \in [Ids -> {0, 1}]
  /\ failure_recorded \in BOOLEAN

\* A task that runs has all of its dependencies behind it, so that what it
\* reads of them does not change any more.
Behind(n) ==
  /\ stage[n] \notin {"none", "held"} => \A d \in upstream(n) : stage[d] = "ready"
  /\ stage[n] \in {"work", "throw", "record", "write"} => \A d \in upstream(n) : ~node_failed[d]

\* What is known of a node at each stage of its task
Progressed(n) ==
  /\ stage[n] \in Untouched => ran[n] = 0 /\ ~node_failed[n]
  /\ stage[n] \in {"throw", "record", "write"} => ran[n] = 1 /\ n \in Throws
  /\ stage[n] = "throw" => ~node_failed[n]
  /\ stage[n] \in {"record", "write"} => node_failed[n]
  /\ stage[n] = "write" => failure_recorded
  /\ stage[n] \in Ended =>
       \/ ran[n] = 0 /\ node_failed[n] /\ \E d \in upstream(n) : node_failed[d]
       \/ /\ ran[n] = 1 /\ \A d \in upstream(n) : ~node_failed[d]
          /\ node_failed[n] <=> n \in Throws
          /\ node_failed[n] => failure_recorded

\* A recorded failure is being written, or names a node whose work has thrown.
FailureKnown ==
  failure_recorded =>
     \/ \E n \in Ids : stage[n] = "write"
     \/ failed_node_id \in Ids /\ stage[failed_node_id] \in Ended
        /\ ran[failed_node_id] = 1 /\ node_failed[failed_node_id]

RunInv ==
  /\ EdgesNameNodes
  /\ Started => RunTypeOK /\ FailureKnown /\ \A n \in Ids : Behind(n) /\ Progressed(n)

-----------------------------------------------------------------------------
\* The graph does not change while nothing is declared or traced.
LEMMA Frozen ==
  ASSUME UNCHANGED <<use, nodes_, edges_>>
  PROVE  /\ Ids' = Ids /\ Throws' = Throws
         /\ \A n : upstream(n)' = upstream(n)
BY DEF Ids, Throws, upstream

\* The dependencies of a node of a built graph are nodes.
LEMMA UpstreamIds ==
  ASSUME RunInv, Started, NEW n \in Ids
  PROVE  upstream(n) \subseteq Ids
BY DEF RunInv, Started, EdgesNameNodes, upstream

\* The builder's steps are over before run() begins.
LEMMA BuilderSteps ==
  ASSUME GBNext
  PROVE  /\ ~Started /\ ~Started'
         /\ EdgesNameNodes => EdgesNameNodes'
<1>1. CASE DependsOn \/ ResolveRoot \/ ResolveDependency \/ Discover \/ ResolverReturns
  BY <1>1 DEF DependsOn, ResolveRoot, ResolveDependency, Discover, ResolverReturns, Started, EdgesNameNodes
<1>2. CASE Build
  BY <1>2 DEF Build, Traced, tracing, Started, EdgesNameNodes, Ids
<1>3. CASE Sort
  BY <1>3 DEF Sort, tracing, Started, EdgesNameNodes, Ids
<1>4. CASE BuildReturns
  BY <1>4 DEF BuildReturns, tracing, Started, EdgesNameNodes, Ids
<1> QED BY <1>1, <1>2, <1>3, <1>4 DEF GBNext

\* A builder has not built anything at first.
LEMMA RunInit == GInit => RunInv
BY DEF GInit, GBInit, RunInv, EdgesNameNodes, Started

\* run() begins with untouched nodes.
LEMMA RunKeeps ==
  ASSUME RunInv, Run
  PROVE  RunInv'
<1>1. UNCHANGED <<use, nodes_, edges_>>
  BY DEF Run, tracing
<1>2. Ids' = Ids /\ \A n : upstream(n)' = upstream(n)
  BY <1>1, Frozen
<1>3. EdgesNameNodes'
  BY <1>1, <1>2 DEF RunInv, Run, EdgesNameNodes
<1>4. RunTypeOK'
  BY <1>2 DEF Run, OfNodes, RunTypeOK, Stages
<1>5. ASSUME NEW n \in Ids' PROVE Behind(n)' /\ Progressed(n)'
  BY <1>2, <1>5 DEF Run, OfNodes, Behind, Progressed, Untouched, Ended
<1>6. FailureKnown'
  BY DEF Run, FailureKnown
<1> QED BY <1>3, <1>4, <1>5, <1>6 DEF RunInv

\* Pushing a node: queued if its dependencies are ready, held otherwise.
LEMMA PushKeeps ==
  ASSUME RunInv, Push
  PROVE  RunInv'
<1>1. /\ UNCHANGED <<use, nodes_, edges_>> /\ Started /\ Started'
      /\ UNCHANGED <<node_failed, ran, failure_recorded, failed_node_id>>
  BY DEF Push, tracing, Started
<1>2. Ids' = Ids /\ Throws' = Throws /\ \A n : upstream(n)' = upstream(n)
  BY <1>1, Frozen
<1>3. RunTypeOK /\ FailureKnown /\ \A n \in Ids : Behind(n) /\ Progressed(n)
  BY <1>1 DEF RunInv
<1>4. EdgesNameNodes'
  BY <1>1, <1>2 DEF RunInv, Push, EdgesNameNodes
<1>5. CASE UNCHANGED stage
  BY <1>1, <1>2, <1>3, <1>4, <1>5 DEF RunInv, RunTypeOK, FailureKnown, Behind, Progressed
<1>6. ASSUME NEW p, stage[p] = "none",
             stage' = [stage EXCEPT ![p] = IF Ready(stage, p) THEN "queued" ELSE "held"]
      PROVE  RunInv'
  <2>1. CASE p \notin Ids
    <3>1. stage' = stage
      BY <1>3, <1>6, <2>1 DEF RunTypeOK
    <3> QED BY <1>5, <3>1
  <2>2. CASE p \in Ids
    <3>1. /\ stage' \in [Ids -> Stages]
          /\ stage'[p] \in {"queued", "held"} /\ (stage'[p] = "queued" => Ready(stage, p))
          /\ \A m \in Ids \ {p} : stage'[m] = stage[m]
      BY <1>3, <1>6, <2>2 DEF RunTypeOK, Stages
    <3>2. RunTypeOK'
      BY <1>1, <1>2, <1>3, <3>1 DEF RunTypeOK
    <3>3. FailureKnown'
      BY <1>1, <1>2, <1>3, <1>6, <3>1 DEF FailureKnown, Ended
    <3>4. ASSUME NEW n \in Ids PROVE Behind(n)' /\ Progressed(n)'
      <4>1. upstream(n) \subseteq Ids
        BY <1>1, UpstreamIds
      <4>2. Behind(n)'
        BY <1>1, <1>2, <1>3, <1>6, <3>1, <4>1 DEF Behind, Ready
      <4>3. Progressed(n)'
        BY <1>1, <1>2, <1>3, <1>6, <3>1, <4>1 DEF Progressed, Untouched, Ended
      <4> QED BY <4>2, <4>3
    <3> QED BY <1>2, <1>4, <3>2, <3>3, <3>4 DEF RunInv
  <2> QED BY <2>1, <2>2
<1> QED BY <1>5, <1>6 DEF Push

Active == Stages \ {"none", "held", "ready"}

\* The step of a task that is not its last: other nodes see nothing of it,
\* as those that depend on it have not begun.
LEMMA OthersKeep ==
  ASSUME RunInv, Started, UNCHANGED gbvars, NEW n \in Ids, NEW to \in Active,
         stage[n] \in Active, stage' = [stage EXCEPT ![n] = to],
         node_failed' \in [Ids -> BOOLEAN], ran' \in [Ids -> {0, 1}],
         \A m \in Ids \ {n} : node_failed'[m] = node_failed[m] /\ ran'[m] = ran[m],
         failure_recorded => failure_recorded'
  PROVE  /\ stage' \in [Ids -> Stages] /\ stage'[n] = to
         /\ \A m \in Ids \ {n} : stage'[m] = stage[m] /\ Behind(m)' /\ Progressed(m)'
         /\ \A d \in upstream(n) : stage[d] = "ready" /\ stage'[d] = "ready" /\ node_failed'[d] = node_failed[d]
<1>1. Ids' = Ids /\ Throws' = Throws /\ \A m : upstream(m)' = upstream(m)
  BY Frozen DEF gbvars
<1>2. RunTypeOK /\ \A m \in Ids : Behind(m) /\ Progressed(m)
  BY DEF RunInv
<1>3. /\ stage' \in [Ids -> Stages] /\ stage'[n] = to
      /\ \A m \in Ids \ {n} : stage'[m] = stage[m]
  BY <1>2 DEF RunTypeOK, Active
<1>4. \A m \in Ids : upstream(m) \subseteq Ids
  BY UpstreamIds
<1>5. \A d \in upstream(n) : stage[d] = "ready" /\ stage'[d] = "ready" /\ node_failed'[d] = node_failed[d]
  BY <1>2, <1>3, <1>4 DEF Behind, Active
<1>6. ASSUME NEW m \in Ids \ {n} PROVE Behind(m)' /\ Progressed(m)'
  <2>1. CASE stage[m] \in {"none", "held"}
    BY <1>1, <1>2, <1>3, <2>1 DEF Behind, Progressed, Untouched, Ended
  <2>2. CASE stage[m] \notin {"none", "held"}
    <3>1. \A d \in upstream(m) : stage'[d] = "ready" /\ node_failed'[d] = node_failed[d]
      BY <1>2, <1>3, <1>4, <2>2 DEF Behind, Active
    <3>2. stage'[m] = stage[m] /\ node_failed'[m] = node_failed[m] /\ ran'[m] = ran[m]
      BY <1>3
    <3>3. Behind(m)'
      BY <1>1, <1>2, <3>1, <3>2 DEF Behind
    <3>4. Progressed(m)'
      <4>1. Progressed(m)
        BY <1>2
      <4> QED BY <1>1, <3>1, <3>2, <4>1 DEF Progressed
    <3> QED BY <3>3, <3>4
  <2> QED BY <2>1, <2>2
<1> QED BY <1>3, <1>5, <1>6

\* A task is taken from the queue.
LEMMA TakeTaskKeeps ==
  ASSUME RunInv, Started, UNCHANGED gbvars, NEW n \in Ids, TakeTask(n)
  PROVE  RunInv'
<1>1. /\ stage[n] = "queued" /\ stage' = [stage EXCEPT ![n] = "check"]
      /\ UNCHANGED <<node_failed, ran, failure_recorded, failed_node_id>>
  BY DEF TakeTask, Move
<1>2. /\ Ids' = Ids /\ Throws' = Throws /\ \A m : upstream(m)' = upstream(m)
      /\ EdgesNameNodes'
  BY Frozen DEF gbvars, RunInv, EdgesNameNodes
<1>3. RunTypeOK /\ FailureKnown /\ Behind(n) /\ Progressed(n)
  BY DEF RunInv
<1>4. /\ stage' \in [Ids -> Stages] /\ stage'[n] = "check"
      /\ \A m \in Ids \ {n} : stage'[m] = stage[m] /\ Behind(m)' /\ Progressed(m)'
      /\ \A d \in upstream(n) : stage[d] = "ready" /\ stage'[d] = "ready" /\ node_failed'[d] = node_failed[d]
  BY <1>1, <1>3, OthersKeep DEF RunTypeOK, Active, Stages
<1>5. RunTypeOK' /\ FailureKnown'
  BY <1>1, <1>2, <1>3, <1>4 DEF RunTypeOK, FailureKnown, Ended
<1>6. Behind(n)' /\ Progressed(n)'
  BY <1>1, <1>2, <1>3, <1>4 DEF Behind, Progressed, Untouched, Ended
<1> QED BY <1>2, <1>4, <1>5, <1>6 DEF RunInv

\* The check of the dependencies' failures, which do not change any more.
LEMMA CheckUpstreamKeeps ==
  ASSUME RunInv, Started, UNCHANGED gbvars, NEW n \in Ids, CheckUpstream(n)
  PROVE  RunInv'
<1>1. /\ Ids' = Ids /\ Throws' = Throws /\ \A m : upstream(m)' = upstream(m)
      /\ EdgesNameNodes'
  BY Frozen DEF gbvars, RunInv, EdgesNameNodes
<1>2. RunTypeOK /\ FailureKnown /\ Behind(n) /\ Progressed(n)
  BY DEF RunInv
<1>3. stage[n] = "check" /\ UNCHANGED <<failure_recorded, failed_node_id, ran>>
  BY DEF CheckUpstream, Move
<1>4. CASE \E d \in upstream(n) : node_failed[d]
  <2>1. stage' = [stage EXCEPT ![n] = "finish"] /\ node_failed' = [node_failed EXCEPT ![n] = TRUE]
    BY <1>4 DEF CheckUpstream, Move, Skipped
  <2>2. /\ stage' \in [Ids -> Stages] /\ stage'[n] = "finish"
        /\ \A m \in Ids \ {n} : stage'[m] = stage[m] /\ Behind(m)' /\ Progressed(m)'
        /\ \A d \in upstream(n) : stage[d] = "ready" /\ stage'[d] = "ready" /\ node_failed'[d] = node_failed[d]
    BY <1>2, <1>3, <2>1, OthersKeep DEF RunTypeOK, Active, Stages
  <2>3. node_failed' \in [Ids -> BOOLEAN] /\ node_failed'[n] /\ \A m \in Ids \ {n} : node_failed'[m] = node_failed[m]
    BY <1>2, <2>1 DEF RunTypeOK
  <2>4. RunTypeOK' /\ FailureKnown'
    BY <1>1, <1>2, <1>3, <2>2, <2>3 DEF RunTypeOK, FailureKnown, Ended
  <2>5. Behind(n)' /\ Progressed(n)'
    BY <1>1, <1>2, <1>3, <1>4, <2>2, <2>3 DEF Behind, Progressed, Untouched, Ended
  <2> QED BY <1>1, <2>2, <2>4, <2>5 DEF RunInv
<1>5. CASE \A d \in upstream(n) : ~node_failed[d]
  <2>1. stage' = [stage EXCEPT ![n] = "work"] /\ node_failed' = node_failed
    BY <1>5 DEF CheckUpstream, Move
  <2>2. /\ stage' \in [Ids -> Stages] /\ stage'[n] = "work"
        /\ \A m \in Ids \ {n} : stage'[m] = stage[m] /\ Behind(m)' /\ Progressed(m)'
        /\ \A d \in upstream(n) : stage[d] = "ready" /\ stage'[d] = "ready" /\ node_failed'[d] = node_failed[d]
    BY <1>2, <1>3, <2>1, OthersKeep DEF RunTypeOK, Active, Stages
  <2>3. RunTypeOK' /\ FailureKnown'
    BY <1>1, <1>2, <1>3, <2>1, <2>2 DEF RunTypeOK, FailureKnown, Ended
  <2>4. Behind(n)' /\ Progressed(n)'
    BY <1>1, <1>2, <1>3, <1>5, <2>1, <2>2 DEF Behind, Progressed, Untouched, Ended
  <2> QED BY <1>1, <2>2, <2>3, <2>4 DEF RunInv
<1> QED BY <1>4, <1>5

\* The work of a node is called once, and throws or gives a result.
LEMMA WorkKeeps ==
  ASSUME RunInv, Started, UNCHANGED gbvars, NEW n \in Ids, Work(n)
  PROVE  RunInv'
<1>1. /\ Ids' = Ids /\ Throws' = Throws /\ \A m : upstream(m)' = upstream(m)
      /\ EdgesNameNodes'
  BY Frozen DEF gbvars, RunInv, EdgesNameNodes
<1>2. RunTypeOK /\ FailureKnown /\ Behind(n) /\ Progressed(n)
  BY DEF RunInv
<1>3. /\ stage[n] = "work" /\ UNCHANGED <<node_failed, failure_recorded, failed_node_id>>
      /\ stage' = [stage EXCEPT ![n] = IF n \in Throws THEN "throw" ELSE "finish"]
      /\ ran' = [ran EXCEPT ![n] = @ + 1]
  BY DEF Work, Move, Throws
<1>4. ran[n] = 0 /\ ~node_failed[n] /\ \A d \in upstream(n) : ~node_failed[d]
  BY <1>2, <1>3 DEF Behind, Progressed, Untouched
<1>5. ran' \in [Ids -> {0, 1}] /\ ran'[n] = 1 /\ \A m \in Ids \ {n} : ran'[m] = ran[m]
  BY <1>2, <1>3, <1>4 DEF RunTypeOK
<1> DEFINE to == IF n \in Throws THEN "throw" ELSE "finish"
<1>6. to \in Active /\ (to = "throw" <=> n \in Throws) /\ to \in {"throw", "finish"}
  BY DEF Active, Stages
<1> HIDE DEF to
<1>7. /\ stage' \in [Ids -> Stages] /\ stage'[n] = to
      /\ \A m \in Ids \ {n} : stage'[m] = stage[m] /\ Behind(m)' /\ Progressed(m)'
      /\ \A d \in upstream(n) : stage[d] = "ready" /\ stage'[d] = "ready" /\ node_failed'[d] = node_failed[d]
  <2>1. stage[n] \in Active /\ stage' = [stage EXCEPT ![n] = to]
    BY <1>3 DEF Active, Stages, to
  <2>2. node_failed' \in [Ids -> BOOLEAN]
    BY <1>2, <1>3 DEF RunTypeOK
  <2> QED BY <1>3, <1>5, <1>6, <2>1, <2>2, OthersKeep
<1>8. RunTypeOK' /\ FailureKnown'
  BY <1>1, <1>2, <1>3, <1>5, <1>7 DEF RunTypeOK, FailureKnown, Ended
<1>9. Behind(n)' /\ Progressed(n)'
  BY <1>1, <1>3, <1>4, <1>5, <1>6, <1>7 DEF Behind, Progressed, Untouched, Ended
<1> QED BY <1>1, <1>7, <1>8, <1>9 DEF RunInv

\* The handler of the exception marks the node.
LEMMA CatchFailureKeeps ==
  ASSUME RunInv, Started, UNCHANGED gbvars, NEW n \in Ids, CatchFailure(n)
  PROVE  RunInv'
<1>1. /\ Ids' = Ids /\ Throws' = Throws /\ \A m : upstream(m)' = upstream(m)
      /\ EdgesNameNodes'
  BY Frozen DEF gbvars, RunInv, EdgesNameNodes
<1>2. RunTypeOK /\ FailureKnown /\ Behind(n) /\ Progressed(n)
  BY DEF RunInv
<1>3. /\ stage[n] = "throw" /\ stage' = [stage EXCEPT ![n] = "record"]
      /\ UNCHANGED <<failure_recorded, failed_node_id, ran>>
      /\ node_failed' = [node_failed EXCEPT ![n] = TRUE]
  BY DEF CatchFailure, Move
<1>4. node_failed' \in [Ids -> BOOLEAN] /\ node_failed'[n] /\ \A m \in Ids \ {n} : node_failed'[m] = node_failed[m]
  BY <1>2, <1>3 DEF RunTypeOK
<1>5. /\ stage' \in [Ids -> Stages] /\ stage'[n] = "record"
      /\ \A m \in Ids \ {n} : stage'[m] = stage[m] /\ Behind(m)' /\ Progressed(m)'
      /\ \A d \in upstream(n) : stage[d] = "ready" /\ stage'[d] = "ready" /\ node_failed'[d] = node_failed[d]
  BY <1>2, <1>3, <1>4, OthersKeep DEF RunTypeOK, Active, Stages
<1>6. RunTypeOK' /\ FailureKnown'
  BY <1>1, <1>2, <1>3, <1>4, <1>5 DEF RunTypeOK, FailureKnown, Ended
<1>7. Behind(n)' /\ Progressed(n)'
  BY <1>1, <1>2, <1>3, <1>4, <1>5 DEF Behind, Progressed, Untouched, Ended
<1> QED BY <1>1, <1>5, <1>6, <1>7 DEF RunInv

\* record_failure: the first failure writes its id, a later one does not.
LEMMA RecordFailureKeeps ==
  ASSUME RunInv, Started, UNCHANGED gbvars, NEW n \in Ids, RecordFailure(n)
  PROVE  RunInv'
<1>1. /\ Ids' = Ids /\ Throws' = Throws /\ \A m : upstream(m)' = upstream(m)
      /\ EdgesNameNodes'
  BY Frozen DEF gbvars, RunInv, EdgesNameNodes
<1>2. RunTypeOK /\ FailureKnown /\ Behind(n) /\ Progressed(n)
  BY DEF RunInv
<1> DEFINE to == IF failure_recorded THEN "finish" ELSE "write"
<1>3. /\ stage[n] = "record" /\ stage' = [stage EXCEPT ![n] = to]
      /\ UNCHANGED <<node_failed, failed_node_id, ran>> /\ failure_recorded' = TRUE
  BY DEF RecordFailure, Move
<1>4. to \in Active /\ to \in {"finish", "write"} /\ (to = "finish" <=> failure_recorded)
  BY DEF Active, Stages
<1> HIDE DEF to
<1>5. /\ stage' \in [Ids -> Stages] /\ stage'[n] = to
      /\ \A m \in Ids \ {n} : stage'[m] = stage[m] /\ Behind(m)' /\ Progressed(m)'
      /\ \A d \in upstream(n) : stage[d] = "ready" /\ stage'[d] = "ready" /\ node_failed'[d] = node_failed[d]
  <2>1. stage[n] \in Active
    BY <1>3 DEF Active, Stages
  <2> QED BY <1>2, <1>3, <1>4, <2>1, OthersKeep DEF RunTypeOK
<1>6. RunTypeOK'
  BY <1>1, <1>2, <1>3, <1>5 DEF RunTypeOK
<1>7. FailureKnown'
  BY <1>1, <1>2, <1>3, <1>4, <1>5 DEF FailureKnown, Ended
<1>8. Behind(n)' /\ Progressed(n)'
  BY <1>1, <1>2, <1>3, <1>4, <1>5 DEF Behind, Progressed, Untouched, Ended
<1> QED BY <1>1, <1>5, <1>6, <1>7, <1>8 DEF RunInv

\* The id of the failed node is written.
LEMMA WriteFailureKeeps ==
  ASSUME RunInv, Started, UNCHANGED gbvars, NEW n \in Ids, WriteFailure(n)
  PROVE  RunInv'
<1>1. /\ Ids' = Ids /\ Throws' = Throws /\ \A m : upstream(m)' = upstream(m)
      /\ EdgesNameNodes'
  BY Frozen DEF gbvars, RunInv, EdgesNameNodes
<1>2. RunTypeOK /\ FailureKnown /\ Behind(n) /\ Progressed(n)
  BY DEF RunInv
<1>3. /\ stage[n] = "write" /\ stage' = [stage EXCEPT ![n] = "finish"]
      /\ UNCHANGED <<node_failed, failure_recorded, ran>> /\ failed_node_id' = n
  BY DEF WriteFailure, Move
<1>4. /\ stage' \in [Ids -> Stages] /\ stage'[n] = "finish"
      /\ \A m \in Ids \ {n} : stage'[m] = stage[m] /\ Behind(m)' /\ Progressed(m)'
      /\ \A d \in upstream(n) : stage[d] = "ready" /\ stage'[d] = "ready" /\ node_failed'[d] = node_failed[d]
  BY <1>2, <1>3, OthersKeep DEF RunTypeOK, Active, Stages
<1>5. ran[n] = 1 /\ node_failed[n] /\ n \in Throws /\ failure_recorded /\ \A d \in upstream(n) : ~node_failed[d]
  BY <1>2, <1>3 DEF Behind, Progressed
<1>6. RunTypeOK' /\ FailureKnown'
  BY <1>1, <1>2, <1>3, <1>4, <1>5 DEF RunTypeOK, FailureKnown, Ended
<1>7. Behind(n)' /\ Progressed(n)'
  BY <1>1, <1>3, <1>4, <1>5 DEF Behind, Progressed, Untouched, Ended
<1> QED BY <1>1, <1>4, <1>6, <1>7 DEF RunInv

\* The future of a node becomes ready, and held tasks are queued.
LEMMA FinishKeeps ==
  ASSUME RunInv, Started, UNCHANGED gbvars, NEW n \in Ids, Finish(n)
  PROVE  RunInv'
<1>1. /\ Ids' = Ids /\ Throws' = Throws /\ \A m : upstream(m)' = upstream(m)
      /\ EdgesNameNodes'
  BY Frozen DEF gbvars, RunInv, EdgesNameNodes
<1>2. RunTypeOK /\ FailureKnown /\ \A m \in Ids : Behind(m) /\ Progressed(m) /\ upstream(m) \subseteq Ids
  BY UpstreamIds DEF RunInv
<1> DEFINE finished == [stage EXCEPT ![n] = "ready"]
<1>3. /\ stage[n] = "finish"
      /\ stage' = [m \in Ids |-> IF Launched(finished, m) THEN "queued" ELSE finished[m]]
      /\ UNCHANGED <<node_failed, failure_recorded, failed_node_id, ran>>
  BY DEF Finish
<1>4. /\ finished[n] = "ready" /\ finished \in [Ids -> Stages]
      /\ \A m \in Ids \ {n} : finished[m] = stage[m]
  BY <1>2 DEF RunTypeOK, Stages
<1> HIDE DEF finished
<1>5. \A m \in Ids : \/ finished[m] = "held" /\ Ready(finished, m) /\ stage'[m] = "queued"
                     \/ stage'[m] = finished[m]
  BY <1>3 DEF Launched
<1>6. \A m \in Ids : stage[m] = "ready" \/ finished[m] = "ready" => stage'[m] = "ready"
  BY <1>4, <1>5
<1>7. stage' \in [Ids -> Stages]
  BY <1>3, <1>4 DEF Stages
<1>8. RunTypeOK' /\ FailureKnown'
  <2>1. RunTypeOK'
    BY <1>1, <1>2, <1>3, <1>7 DEF RunTypeOK
  <2>2. \A m \in Ids : /\ stage[m] \in Ended => stage'[m] \in Ended
                       /\ stage[m] = "write" => stage'[m] = "write"
    BY <1>3, <1>4, <1>5 DEF Ended
  <2> QED BY <1>1, <1>2, <1>3, <2>1, <2>2 DEF FailureKnown
<1>9. ASSUME NEW m \in Ids PROVE Behind(m)' /\ Progressed(m)'
  <2>1. CASE m = n
    <3>1. stage'[n] = "ready" /\ stage[n] = "finish"
      BY <1>3, <1>4, <1>6
    <3> QED BY <1>1, <1>2, <1>3, <1>6, <2>1, <3>1 DEF Behind, Progressed, Untouched, Ended
  <2>2. CASE m # n /\ stage'[m] = stage[m]
    <3>1. Behind(m)'
      BY <1>1, <1>2, <1>3, <1>6, <2>2 DEF Behind
    <3>2. Progressed(m)'
      BY <1>1, <1>2, <1>3, <2>2 DEF Progressed
    <3> QED BY <3>1, <3>2
  <2>3. CASE m # n /\ stage[m] = "held" /\ Ready(finished, m) /\ stage'[m] = "queued"
    <3>1. Behind(m)'
      BY <1>1, <1>2, <1>6, <2>3 DEF Behind, Ready
    <3>2. Progressed(m)'
      BY <1>1, <1>2, <1>3, <2>3 DEF Progressed, Untouched, Ended
    <3> QED BY <3>1, <3>2
  <2> QED BY <1>4, <1>5, <2>1, <2>2, <2>3
<1> QED BY <1>1, <1>8, <1>9 DEF RunInv

\* Every step keeps the invariant.
LEMMA RunStep == RunInv /\ [GNext]_gvars => RunInv'
<1> SUFFICES ASSUME RunInv, [GNext]_gvars PROVE RunInv'
  OBVIOUS
<1>1. CASE UNCHANGED gvars
  BY <1>1 DEF gvars, gbvars, gevars, RunInv, EdgesNameNodes, Started, RunTypeOK, FailureKnown,
     Behind, Progressed, upstream, Throws, Ids
<1>2. CASE GStep
  BY <1>2, BuilderSteps DEF GStep, RunInv
<1>3. CASE RunReturns
  <2>1. UNCHANGED <<use, nodes_, edges_, stage, node_failed, failure_recorded, failed_node_id, ran>>
    BY <1>3 DEF RunReturns, tracing
  <2>2. Started /\ (EdgesNameNodes => EdgesNameNodes')
    BY <1>3, <2>1 DEF RunReturns, Started, EdgesNameNodes, Ids
  <2> QED BY <2>1, <2>2 DEF RunInv, RunTypeOK, FailureKnown, Behind, Progressed, upstream, Throws, Ids
<1>4. ASSUME NEW n \in DOMAIN stage, TaskStep(n) PROVE RunInv'
  <2>1. Started /\ UNCHANGED gbvars
    BY <1>4 DEF TaskStep, Started
  <2>2. n \in Ids
    BY <1>4, <2>1 DEF RunInv, RunTypeOK
  <2> QED BY <1>4, <2>1, <2>2, TakeTaskKeeps, CheckUpstreamKeeps, WorkKeeps, CatchFailureKeeps,
          RecordFailureKeeps, WriteFailureKeeps, FinishKeeps DEF TaskStep
<1> QED BY <1>1, <1>2, <1>3, <1>4, RunKeeps, PushKeeps DEF GNext

-----------------------------------------------------------------------------
(***************************************************************************)
(* The refinement: the last step of a task is the evaluation of its node,  *)
(* the other steps of tasks are invisible.                                 *)
(***************************************************************************)
abefore == IF Started THEN [n \in Ids |-> upstream(n)] ELSE Empty
athrown == IF Started THEN Throws ELSE {}
aoutcome == IF Started THEN [n \in Ids |-> Outcome(n)] ELSE Empty
aunchanged == UNCHANGED <<abefore, athrown, aoutcome, RunReport>>

\* A step that leaves the graph, the phase and all outcomes alone is invisible.
LEMMA Invisible ==
  ASSUME Started, Started', UNCHANGED <<use, nodes_, edges_>>, RunReport' = RunReport,
         \A n \in Ids : Outcome(n)' = Outcome(n)
  PROVE  aunchanged
<1>1. Ids' = Ids /\ Throws' = Throws /\ \A n : upstream(n)' = upstream(n)
  BY Frozen
<1> QED BY <1>1 DEF aunchanged, abefore, athrown, aoutcome

\* Steps before run() are invisible.
LEMMA IdleSteps ==
  ASSUME ~Started, ~Started'
  PROVE  aunchanged
BY DEF aunchanged, abefore, athrown, aoutcome, Started, RunReport

\* A push is invisible: the node was pending and still is.
LEMMA PushInvisible ==
  ASSUME RunInv, Push
  PROVE  aunchanged
<1>1. /\ Started /\ Started' /\ RunReport' = RunReport
      /\ UNCHANGED <<use, nodes_, edges_, node_failed, ran>>
  BY DEF Push, tracing, Started, RunReport
<1>2. stage \in [Ids -> Stages]
  BY <1>1 DEF RunInv, RunTypeOK
<1>3. \A n \in Ids : stage'[n] = "ready" <=> stage[n] = "ready"
  <2>1. ASSUME NEW p, stage[p] = "none",
               stage' = [stage EXCEPT ![p] = IF Ready(stage, p) THEN "queued" ELSE "held"],
               NEW n \in Ids
        PROVE  stage'[n] = "ready" <=> stage[n] = "ready"
    BY <1>2, <2>1
  <2> QED BY <2>1 DEF Push
<1>4. \A n \in Ids : Outcome(n)' = Outcome(n)
  BY <1>1, <1>3 DEF Outcome
<1> QED BY <1>1, <1>4, Invisible

\* So are the steps of a task before its last: its node is pending, and they
\* do not touch any other.
LEMMA TaskInvisible ==
  ASSUME RunInv, Started, UNCHANGED <<gbvars, results>>, NEW n \in Ids,
         \/ TakeTask(n) \/ CheckUpstream(n) \/ Work(n) \/ CatchFailure(n)
         \/ RecordFailure(n) \/ WriteFailure(n),
         phase \in {"push", "wait"}
  PROVE  aunchanged
<1>1. RunTypeOK
  BY DEF RunInv
<1>2. /\ Started' /\ RunReport' = RunReport /\ UNCHANGED <<use, nodes_, edges_>>
  BY DEF gbvars, Started, RunReport
<1>3. /\ stage[n] # "ready"
      /\ \E to \in Active : stage' = [stage EXCEPT ![n] = to]
  BY DEF TakeTask, CheckUpstream, Work, CatchFailure, RecordFailure, WriteFailure, Move, Active, Stages
<1>4. stage'[n] # "ready" /\ \A m \in Ids \ {n} : stage'[m] = stage[m]
  BY <1>1, <1>3 DEF RunTypeOK, Active
<1>5. \A m \in Ids \ {n} : node_failed'[m] = node_failed[m] /\ ran'[m] = ran[m]
  BY <1>1 DEF TakeTask, CheckUpstream, Skipped, Work, CatchFailure, RecordFailure, WriteFailure, RunTypeOK
<1>6. \A m \in Ids : Outcome(m)' = Outcome(m)
  BY <1>3, <1>4, <1>5 DEF Outcome
<1> QED BY <1>2, <1>6, Invisible

\* run() submits the graph.
LEMMA RunSubmits ==
  ASSUME RunInv, Run
  PROVE  Evaluation!Submit
<1>1. ~Started /\ Started' /\ UNCHANGED <<use, nodes_, edges_>>
  BY DEF Run, Started, tracing
<1>2. Ids' = Ids /\ Throws' = Throws /\ Throws \subseteq Ids
  BY <1>1, Frozen DEF Throws
<1>3. RunReport = <<"idle">> /\ RunReport' = <<"running">>
  BY DEF Run, RunReport
<1>4. \A n \in Ids : Outcome(n)' = "pending"
  BY <1>2 DEF Run, OfNodes, Outcome
<1> QED BY <1>1, <1>2, <1>3, <1>4 DEF Evaluation!Submit

\* The end of a task evaluates its node, from the outcomes of its dependencies.
LEMMA FinishEvaluates ==
  ASSUME RunInv, phase \in {"push", "wait"}, UNCHANGED gbvars, NEW n \in Ids, Finish(n)
  PROVE  Evaluation!Evaluate(n)
<1>1. /\ Started /\ Started' /\ UNCHANGED <<use, nodes_, edges_, node_failed, ran>>
      /\ RunReport = <<"running">> /\ RunReport' = <<"running">>
  BY DEF gbvars, Started, RunReport, Finish
<1>2. /\ Ids' = Ids /\ Throws' = Throws /\ \A m : upstream(m)' = upstream(m)
      /\ upstream(n) \subseteq Ids
  BY <1>1, Frozen, UpstreamIds
<1>3. RunTypeOK /\ Behind(n) /\ Progressed(n) /\ \A d \in upstream(n) : Progressed(d)
  BY <1>1, <1>2 DEF RunInv
<1>4. stage[n] = "finish" /\ \A d \in upstream(n) : stage[d] = "ready"
  BY <1>3 DEF Finish, Behind
<1>5. /\ Outcome(n) = "pending"
      /\ \A d \in upstream(n) : Outcome(d) # "pending" /\ (Outcome(d) \in {"failed", "skipped"} <=> node_failed[d])
  BY <1>4 DEF Outcome
<1>6. stage'[n] = "ready" /\ \A m \in Ids \ {n} : stage'[m] = "ready" <=> stage[m] = "ready"
  BY <1>3 DEF Finish, Launched, RunTypeOK
<1>7. \A m \in Ids \ {n} : Outcome(m)' = Outcome(m)
  BY <1>1, <1>6 DEF Outcome
<1>8. Outcome(n)' = (IF \E d \in upstream(n) : Outcome(d) \in {"failed", "skipped"} THEN "skipped"
                     ELSE IF n \in Throws THEN "failed" ELSE "done")
  BY <1>1, <1>3, <1>4, <1>5, <1>6 DEF Outcome, Progressed, Ended
<1>9. /\ aoutcome = [m \in Ids |-> Outcome(m)] /\ aoutcome' = [m \in Ids |-> Outcome(m)']
      /\ abefore = [m \in Ids |-> upstream(m)] /\ abefore' = abefore
      /\ athrown = Throws /\ athrown' = Throws
  BY <1>1, <1>2 DEF aoutcome, abefore, athrown
<1>10. aoutcome' = [aoutcome EXCEPT ![n] = IF \E d \in upstream(n) : Outcome(d) \in {"failed", "skipped"} THEN "skipped"
                                          ELSE IF n \in Throws THEN "failed" ELSE "done"]
  BY <1>7, <1>8, <1>9
<1>11. abefore[n] = upstream(n) /\ aoutcome[n] = "pending" /\ \A d \in upstream(n) : aoutcome[d] = Outcome(d)
  BY <1>2, <1>5, <1>9
<1> QED
  BY <1>1, <1>5, <1>9, <1>10, <1>11 DEF Evaluation!Evaluate, Evaluation!Settled, Evaluation!Bad,
     aoutcome, abefore, athrown

\* run() returns when nothing is pending, with a failed node if there is one.
LEMMA ReturnReports ==
  ASSUME RunInv, RunReturns
  PROVE  Evaluation!Report
<1>1. /\ Started /\ Started' /\ \A n \in Ids : stage[n] = "ready"
      /\ UNCHANGED <<use, nodes_, edges_, stage, node_failed, failure_recorded, failed_node_id, ran>>
      /\ RunReport = <<"running">>
      /\ RunReport' = IF failure_recorded THEN <<"failed", failed_node_id>> ELSE <<"ok">>
  BY DEF RunReturns, Started, tracing, RunReport
<1>2. /\ Ids' = Ids /\ Throws' = Throws /\ \A n : upstream(n)' = upstream(n)
  BY <1>1, Frozen
<1>3. RunTypeOK /\ FailureKnown /\ \A n \in Ids : Progressed(n)
  BY <1>1 DEF RunInv
<1>4. \A n \in Ids : Outcome(n)' = Outcome(n) /\ Outcome(n) # "pending"
  BY <1>1 DEF Outcome
<1>5. /\ aoutcome = [n \in Ids |-> Outcome(n)] /\ aoutcome' = aoutcome
      /\ abefore = [n \in Ids |-> upstream(n)] /\ abefore' = abefore
      /\ athrown' = athrown
  BY <1>1, <1>2, <1>4 DEF aoutcome, abefore, athrown
<1>6. CASE failure_recorded
  <2>1. failed_node_id \in Ids /\ Outcome(failed_node_id) = "failed"
    BY <1>1, <1>3, <1>6 DEF FailureKnown, Outcome
  <2>2. \E n \in DOMAIN abefore : aoutcome[n] = "failed" /\ RunReport' = <<"failed", n>>
    BY <1>1, <1>5, <1>6, <2>1
  <2> QED BY <1>1, <1>4, <1>5, <2>2 DEF Evaluation!Report, Evaluation!Settled, aoutcome, abefore, athrown
<1>7. CASE ~failure_recorded
  <2>1. \A n \in Ids : Outcome(n) # "failed"
    BY <1>1, <1>3, <1>7 DEF Progressed, Ended, Outcome
  <2>2. \A n \in DOMAIN abefore : aoutcome[n] # "failed"
    BY <1>5, <2>1
  <2> QED BY <1>1, <1>4, <1>5, <1>7, <2>2 DEF Evaluation!Report, Evaluation!Settled, aoutcome, abefore, athrown
<1> QED BY <1>6, <1>7

\* Whatever threads take the tasks and whatever works throw, run() evaluates
\* each node once, after its dependencies, skips exactly the nodes behind a
\* failed one, and reports a node that has failed if there is one.
THEOREM RunEvaluates == RunSpec => Evaluates
<1>1. GInit => Evaluation!EvalInit
  BY DEF GInit, GBInit, Evaluation!EvalInit, RunReport
<1>2. RunInv /\ [GNext]_gvars => [Evaluation!EvalNext]_<<abefore, athrown, aoutcome, RunReport>>
  <2> SUFFICES ASSUME RunInv, [GNext]_gvars PROVE aunchanged \/ Evaluation!EvalNext
    BY DEF aunchanged
  <2>1. CASE UNCHANGED gvars
    BY <2>1 DEF gvars, gbvars, gevars, aunchanged, abefore, athrown, aoutcome, Started, Ids, upstream,
       Throws, Outcome, RunReport
  <2>2. CASE GStep
    BY <2>2, BuilderSteps, IdleSteps DEF GStep
  <2>3. CASE Run
    BY <2>3, RunSubmits DEF Evaluation!EvalNext
  <2>4. CASE Push
    BY <2>4, PushInvisible
  <2>5. CASE RunReturns
    BY <2>5, ReturnReports DEF Evaluation!EvalNext
  <2>6. ASSUME NEW n \in DOMAIN stage, TaskStep(n)
        PROVE  aunchanged \/ Evaluation!EvalNext
    <3>1. Started /\ phase \in {"push", "wait"} /\ UNCHANGED <<gbvars, results>>
      BY <2>6 DEF TaskStep, Started
    <3>2. n \in Ids
      BY <2>6, <3>1 DEF RunInv, RunTypeOK
    <3>3. CASE Finish(n)
      <4>1. Evaluation!Evaluate(n)
        BY <3>1, <3>2, <3>3, FinishEvaluates
      <4>2. n \in DOMAIN abefore
        BY <3>1, <3>2 DEF abefore
      <4> QED BY <4>1, <4>2 DEF Evaluation!EvalNext, abefore
    <3> QED BY <2>6, <3>1, <3>2, <3>3, TaskInvisible DEF TaskStep
  <2> QED BY <2>1, <2>2, <2>3, <2>4, <2>5, <2>6 DEF GNext
<1> QED BY <1>1, <1>2, RunInit, RunStep, PTL
        DEF RunSpec, Evaluates, Evaluation!EvalSpec, abefore, athrown, aoutcome

\* What holds when the work of a node is called
CalledOnce ==
  \A n \in DOMAIN stage : TaskStep(n) /\ Work(n) =>
     ran[n] = 0 /\ \A d \in upstream(n) : stage[d] = "ready" /\ ~node_failed[d]

\* The work of a node is called once, when every dependency has its result
\* and none has failed.
THEOREM WorksOnce == RunSpec => [][CalledOnce]_gvars
<1>1. RunInv => CalledOnce
  <2> SUFFICES ASSUME RunInv, NEW n \in DOMAIN stage, TaskStep(n), Work(n)
               PROVE  ran[n] = 0 /\ \A d \in upstream(n) : stage[d] = "ready" /\ ~node_failed[d]
    BY DEF CalledOnce
  <2>1. Started /\ stage[n] = "work"
    BY DEF TaskStep, Started, Work, Move
  <2>2. Behind(n) /\ Progressed(n)
    BY <2>1 DEF RunInv, RunTypeOK
  <2> QED BY <2>1, <2>2 DEF Behind, Progressed, Untouched
<1> QED BY <1>1, RunInit, RunStep, PTL DEF RunSpec
=============================================================================
