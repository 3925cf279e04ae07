--------------------------- MODULE MultiThreader ---------------------------
(***************************************************************************)
(* multi_threader: threads that are spawned into numbered slots and        *)
(* terminated by their number, and the fork and join of                    *)
(* single_method_execute and multiple_method_execute. A slot's flag,       *)
(* process id and user data are separate; only the flag has a lock.        *)
(* Spawned functions run until their flag is 0.                            *)
(***************************************************************************)
EXTENDS Integers, FiniteSetsExt, SequencesExt

CONSTANTS Agent,          \* threads of the application
          MaxSlots,       \* PARALLEL_MAX_THREADS
          SpawnCalls,     \* bound: calls of spawn_thread of one agent
          GlobalMaxima,   \* values of the global maximum number of threads; 0 is no limit
          Serials         \* whether the agents take turns

ASSUME SlotsAvailable == MaxSlots \in Nat \ {0}

\* get_number_of_threads ignores a negative maximum, an execute would not:
\* a maximum is a count, or 0.
ASSUME ThreaderUses == GlobalMaxima \subseteq Nat /\ Serials \subseteq BOOLEAN

Slot == 0..(MaxSlots - 1)
Nobody == <<>>

VARIABLES serial,         \* rigid: a member of Serials
          flag,           \* spawned_thread_active_flag_
          pid,            \* spawned_thread_process_id_: the thread, or Nobody
          live,           \* threads that run, and the slot they have been given
          ended,          \* threads that have returned and not been joined
          lost,           \* history: joins of a thread that is already joined
          agent,          \* where each agent is
          number_of_threads, maximum,  \* number_of_threads_ and the global maximum
          indexes         \* thread_ids that the methods of an execute are run with

avars == <<serial, flag, pid, live, ended, lost, agent, number_of_threads, maximum, indexes>>

Free == [pc |-> "free", slot |-> 0, mine |-> {}, n |-> 0, left |-> {}]

AInit == /\ serial \in Serials
         /\ flag = [s \in Slot |-> 0]
         /\ pid = [s \in Slot |-> Nobody]
         /\ live = [x \in {} |-> 0] /\ ended = {} /\ lost = {}
         /\ agent = [g \in Agent |-> Free]
         /\ number_of_threads = MaxSlots
         /\ maximum \in GlobalMaxima
         /\ indexes = {}

At(g, pc) == agent[g].pc = pc
MayCall(g) == At(g, "free") /\ (serial => \A h \in Agent : At(h, "free"))
spawned == <<flag, pid, live, ended, lost>>
executing == <<number_of_threads, indexes>>

(***************************************************************************)
(* spawn_thread                                                            *)
(***************************************************************************)
Spawn(g) ==
  /\ MayCall(g) /\ agent[g].n < SpawnCalls
  /\ agent' = [agent EXCEPT ![g].pc = "scan", ![g].slot = 0, ![g].n = @ + 1]
  /\ UNCHANGED <<serial, maximum, spawned, executing>>

\* The check and the claim are one step, under the lock of the slot.
Claims_checked(s) == flag
Claims(s) == [flag EXCEPT ![s] = 1]

Scan(g) ==
  LET s == agent[g].slot IN
  /\ At(g, "scan")
  /\ \/ /\ flag[s] = 0
        /\ flag' = Claims(s)
        /\ agent' = [agent EXCEPT ![g].pc = "create"]
     \/ /\ flag[s] = 1
        /\ agent' = [agent EXCEPT ![g].pc = IF s + 1 < MaxSlots THEN "scan" ELSE "free", ![g].slot = s + 1]
        /\ UNCHANGED flag
  /\ UNCHANGED <<serial, maximum, pid, live, ended, lost, executing>>

\* pthread_create, and spawn_thread returns the number of the slot.
Create(g) ==
  LET s == agent[g].slot
      x == <<g, agent[g].n>>
  IN  /\ At(g, "create")
      /\ pid' = [pid EXCEPT ![s] = x]
      /\ live' = [y \in DOMAIN live \cup {x} |-> IF y = x THEN s ELSE live[y]]
      /\ agent' = [agent EXCEPT ![g].pc = "free", ![g].mine = @ \cup {<<s, x>>}]
      /\ UNCHANGED <<serial, maximum, flag, ended, lost, executing>>

\* A spawned function sees that its flag is 0 and returns.
SpawnedReturns(x) ==
  /\ flag[live[x]] = 0
  /\ live' = [y \in DOMAIN live \ {x} |-> live[y]]
  /\ ended' = ended \cup {x}
  /\ UNCHANGED <<serial, maximum, flag, pid, lost, agent, executing>>

(***************************************************************************)
(* terminate_thread: the flag is read (the second reading, under the lock, *)
(* decides), cleared, and the thread of the slot joined, each by itself.   *)
(***************************************************************************)
Terminate(g, m) ==
  /\ MayCall(g)
  /\ agent' = [agent EXCEPT ![g].pc = "check", ![g].slot = m[1], ![g].mine = @ \ {m}]
  /\ UNCHANGED <<serial, maximum, spawned, executing>>

TerminateCheck(g) ==
  /\ At(g, "check")
  /\ agent' = [agent EXCEPT ![g].pc = IF flag[agent[g].slot] = 0 THEN "free" ELSE "clear"]
  /\ UNCHANGED <<serial, maximum, spawned, executing>>

Cleared(s) == [flag EXCEPT ![s] = 0]

TerminateClear(g) ==
  /\ At(g, "clear")
  /\ flag' = Cleared(agent[g].slot)
  /\ agent' = [agent EXCEPT ![g].pc = "join"]
  /\ UNCHANGED <<serial, maximum, pid, live, ended, lost, executing>>

\* pthread_join of the process id that the slot has now
Joinable(x) == x \notin DOMAIN live

JoinSpawned(g) ==
  LET x == pid[agent[g].slot] IN
  /\ At(g, "join")
  /\ Joinable(x)
  /\ lost' = IF x \in ended THEN lost ELSE lost \cup {x}
  /\ ended' = ended \ {x}
  /\ agent' = [agent EXCEPT ![g].pc = "free"]
  /\ UNCHANGED <<serial, maximum, flag, pid, live, executing>>

(***************************************************************************)
(* set_number_of_threads, and single_method_execute: the threads that it   *)
(* creates, and their parent, each run the method.                         *)
(***************************************************************************)
SetNumberOfThreads(g, n) ==
  /\ MayCall(g) /\ serial
  /\ number_of_threads' = Min({Max({n, 1}), MaxSlots})
  /\ UNCHANGED <<serial, maximum, spawned, agent, indexes>>

SetMaximum(g, n) ==
  /\ MayCall(g) /\ serial
  /\ maximum' = n
  /\ UNCHANGED <<serial, spawned, agent, executing>>

limited == IF maximum # 0 /\ number_of_threads > maximum THEN maximum ELSE number_of_threads

SingleMethodExecute(g) ==
  /\ MayCall(g) /\ serial /\ indexes = {}
  /\ number_of_threads' = limited
  /\ agent' = [agent EXCEPT ![g].pc = "execute", ![g].left = 0..(limited - 1)]
  /\ UNCHANGED <<serial, maximum, spawned, indexes>>

\* The limit is in force even if a method is missing and nothing is run.
MultipleMethodExecute(g, complete) ==
  IF complete THEN SingleMethodExecute(g)
  ELSE /\ MayCall(g) /\ serial
       /\ number_of_threads' = limited
       /\ UNCHANGED <<serial, maximum, spawned, agent, indexes>>

MethodRuns(g, i) ==
  /\ At(g, "execute")
  /\ agent' = [agent EXCEPT ![g].left = @ \ {i}]
  /\ indexes' = indexes \cup {i}
  /\ UNCHANGED <<serial, maximum, spawned, number_of_threads>>

ExecuteReturns(g) ==
  /\ At(g, "execute") /\ agent[g].left = {}
  /\ agent' = [agent EXCEPT ![g].pc = "executed"]
  /\ UNCHANGED <<serial, maximum, spawned, executing>>

AfterExecute(g) ==
  /\ At(g, "executed")
  /\ agent' = [agent EXCEPT ![g].pc = "free"]
  /\ indexes' = {}
  /\ UNCHANGED <<serial, maximum, spawned, number_of_threads>>

AgentStep(g) ==
  \/ Scan(g) \/ Create(g) \/ TerminateCheck(g) \/ TerminateClear(g) \/ JoinSpawned(g)
  \/ (\E i \in agent[g].left : MethodRuns(g, i)) \/ ExecuteReturns(g) \/ AfterExecute(g)

ANext == \/ \E g \in Agent :
              \/ Spawn(g) \/ (\E m \in agent[g].mine : Terminate(g, m))
              \/ SingleMethodExecute(g) \/ (\E complete \in BOOLEAN : MultipleMethodExecute(g, complete))
              \/ \E n \in {0, 1, MaxSlots + 1} : SetNumberOfThreads(g, n)
              \/ \E n \in GlobalMaxima : SetMaximum(g, n)
              \/ AgentStep(g)
         \/ \E x \in DOMAIN live : SpawnedReturns(x)

ASpec == AInit /\ [][ANext]_avars

(***************************************************************************)
(* Properties                                                              *)
(***************************************************************************)

\* spawn_thread never gives the same number to two threads that nobody has
\* begun to terminate, whoever else spawns or terminates.
NumbersAreUnique ==
  \A g, h \in Agent : \A m \in agent[g].mine, k \in agent[h].mine : m # k => m[1] # k[1]

\* For agents that take turns, terminate_thread ends and joins exactly the
\* thread that spawn_thread has put into the slot: with no call under way
\* every thread is still its owner's to terminate, and none is left over.
EveryThreadIsOwned ==
  (serial /\ \A g \in Agent : At(g, "free")) =>
     /\ lost = {} /\ ended = {}
     /\ \A x \in DOMAIN live : \E g \in Agent : <<live[x], x>> \in agent[g].mine
     /\ \A g \in Agent : \A m \in agent[g].mine : pid[m[1]] = m[2] /\ m[2] \in DOMAIN live

\* The method is run once for each of the number of threads that is in
\* force, which the limits have not changed to zero.
EveryIndexRuns ==
  \A g \in Agent : At(g, "executed") =>
     indexes = 0..(number_of_threads - 1) /\ 0 \in indexes /\ (maximum = 0 \/ number_of_threads <= maximum)

\* Calls return, also terminate_thread, if the spawned functions look at
\* their flags and no other agent takes the slot.
AgentsReturn == \A g \in Agent : (~At(g, "free") /\ serial) ~> At(g, "free")

\* Slots, threads and the indexes of methods correspond one to one.
SlotsSound == NumbersAreUnique /\ EveryThreadIsOwned /\ EveryIndexRuns
=============================================================================
