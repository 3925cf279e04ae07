--------------------------- MODULE RecordFunction ---------------------------
(***************************************************************************)
(* record_function: observers are registered globally or for one thread,   *)
(* and every RecordFunction of a thread runs those that are in force. The  *)
(* lists to run are cached for each thread and scope; a version number     *)
(* says when the global list has changed, and a countdown when a sampled   *)
(* observer is due. What an observer does, and the inputs, outputs and ids *)
(* that it asks for, are left out. The random numbers are any numbers. The *)
(* manager of a thread is made before its first use: what it finds at that *)
(* time is what its first RecordFunction would find out itself.            *)
(***************************************************************************)
EXTENDS Integers, FiniteSetsExt, SequencesExt

CONSTANTS RFThread,
          RecordScope,
          RFUses,        \* threads, observers and changes of a program
          MaxTries,      \* the largest number that sampleTries draws
          IntMax         \* std::numeric_limits<int>::max()

\* sampleTries is at least 1, and an int.
ASSUME TriesAssumption == MaxTries \in 1..IntMax

VARIABLES rfuse,         \* rigid: a member of RFUses
          version,       \* version_
          global,        \* global_callbacks_
          manager,       \* the LocalCallbackManager of each thread
          guard,         \* the RecordFunction of each thread
          changes        \* changes of the observers so far; also the last handle

rvars == <<rfuse, version, global, manager, guard, changes>>

\* An observer has a set of scopes and is sampled, or not.
Registered(o) == [handle |-> changes + 1, obs |-> o, on |-> TRUE]
Find(list, h) == {i \in DOMAIN list : list[i].handle = h}

\* known, due, must and may are histories: what the cache had, what a count of
\* the calls makes due, and what was in force all of the time or some of it.
NoGuard == [phase |-> "none", scope |-> CHOOSE s \in RecordScope : TRUE, run |-> <<>>, known |-> {},
            due |-> {}, must |-> {}, may |-> {}, begun |-> <<>>, ended |-> <<>>]

(***************************************************************************)
(* CacheEntry. due, a history, counts the calls until a sampled observer   *)
(* is to run one by one.                                                   *)
(***************************************************************************)
\* rebuildActiveCallbacks
Waits(e) == {e.cbs[i].tries : i \in DOMAIN e.cbs} \cap (1..IntMax)
Countdown(e) ==
  IF \E i \in DOMAIN e.cbs : e.cbs[i].tries = 0 THEN 1 ELSE Min(Waits(e) \cup {IntMax})
Rebuilt(e) ==
  [e EXCEPT !.active = SelectSeq(e.cbs, LAMBDA x : x.tries <= 0),
            !.countdown = Countdown(e), !.steps = Countdown(e)]

Drawn(cbs, at, tries) ==
  [i \in DOMAIN cbs |-> IF i \in at THEN [cbs[i] EXCEPT !.tries = tries[i], !.due = tries[i]] ELSE cbs[i]]

\* update
Updates(list) ==
  LET cbs == [i \in DOMAIN list |-> [handle |-> list[i].handle, tries |-> -1, due |-> -1]]
      sampled == {i \in DOMAIN list : list[i].obs.sampled}
  IN  {Rebuilt([cbs |-> Drawn(cbs, sampled, tries), active |-> <<>>, countdown |-> 0, steps |-> 0]) :
         tries \in [sampled -> 1..MaxTries]}

\* getActiveCallbacks
Counted(cbs, steps) == [i \in DOMAIN cbs |-> IF cbs[i].tries > 0 THEN [cbs[i] EXCEPT !.tries = @ - steps] ELSE cbs[i]]
Gets(e) ==
  LET f == [e EXCEPT !.countdown = @ - 1,
                     !.cbs = [i \in DOMAIN @ |-> [@[i] EXCEPT !.due = IF @ > 0 THEN @ - 1 ELSE @]]]
      r == Rebuilt([f EXCEPT !.cbs = Counted(@, f.steps)])
      at == {i \in DOMAIN r.cbs : r.cbs[i].tries = 0}
  IN  IF f.countdown > 0 THEN {f}
      ELSE {[r EXCEPT !.cbs = Drawn(@, at, tries)] : tries \in [at -> 1..MaxTries]}

(***************************************************************************)
(* LocalCallbackManager                                                    *)
(***************************************************************************)
\* rebuild_scope
InForce(m, list, s) ==
  IF m.enabled THEN SelectSeq(list \o m.callbacks, LAMBDA x : x.on /\ s \in x.obs.scopes) ELSE <<>>

\* The caches that rebuilding some of the scopes can give
Scopes(m, list, some) ==
  LET options(s) == IF s \in some THEN Updates(InForce(m, list, s)) ELSE {m.entry[s]}
  IN  {[m EXCEPT !.entry = e] :
         e \in {f \in [RecordScope -> UNION {options(s) : s \in RecordScope}] :
                  \A s \in RecordScope : f[s] \in options(s)}}
rebuild_all(m) == Scopes([m EXCEPT !.version = version], global, RecordScope)

rebuild_callback_scopes(m, obs) ==
  IF m.version = version THEN Scopes(m, global, obs.scopes) ELSE rebuild_all(m)

Unused == [callbacks |-> <<>>, enabled |-> TRUE, version |-> 0, entry |-> [s \in RecordScope |-> <<>>]]

RInit ==
  /\ rfuse \in RFUses
  /\ version = 1 /\ global = <<>> /\ changes = 0
  /\ manager \in [RFThread -> rebuild_all(Unused)]
  /\ guard = [t \in RFThread |-> NoGuard]

Changing == changes < rfuse.changes /\ changes' = changes + 1

(***************************************************************************)
(* Changes of the global list. A RecordFunction that is looking up its     *)
(* observers meanwhile may see them or not.                                *)
(***************************************************************************)
Handles(list) == {list[i].handle : i \in DOMAIN list}
SetGlobal(list) ==
  /\ global' = list
  /\ guard' = [t \in RFThread |->
       LET now == Handles(InForce(manager[t], list, guard[t].scope)) IN
       IF guard[t].phase # "lookup" THEN guard[t]
       ELSE [guard[t] EXCEPT !.must = @ \cap now, !.may = @ \cup now]]
  /\ UNCHANGED manager

AddGlobal(o) == Changing /\ version' = version + 1 /\ SetGlobal(Append(global, Registered(o)))
ClearGlobal == Changing /\ version' = version + 1 /\ SetGlobal(<<>>)

Enabled(list, h, on) == [i \in DOMAIN list |-> IF list[i].handle = h THEN [list[i] EXCEPT !.on = on] ELSE list[i]]
Without(list, h) == SelectSeq(list, LAMBDA x : x.handle # h)
Bumped_on_removal(list) == IF Len(list) < Len(global) THEN version + 1 ELSE version
Bumped(list) == IF list # global THEN version + 1 ELSE version

(***************************************************************************)
(* Changes of a thread's own list. The others go to the global list if the *)
(* thread has no such handle.                                              *)
(***************************************************************************)
Idle(t) == guard[t].phase # "lookup"
SetLocal(t, list, obs) ==
  /\ \E m \in rebuild_callback_scopes([manager[t] EXCEPT !.callbacks = list], obs) :
       manager' = [manager EXCEPT ![t] = m]
  /\ UNCHANGED <<version, global, guard>>

AddLocal(t, o) == Changing /\ Idle(t) /\ SetLocal(t, Append(manager[t].callbacks, Registered(o)), o)

SetEnabled(t, h, on) ==
  LET mine == manager[t].callbacks IN
  /\ Changing /\ Idle(t)
  /\ \/ \E i \in Find(mine, h) : mine[i].on # on /\ SetLocal(t, Enabled(mine, h, on), mine[i].obs)
     \/ /\ Find(mine, h) = {}
        /\ SetGlobal(Enabled(global, h, on)) /\ version' = Bumped(global')

RemoveCallback(t, h) ==
  LET mine == manager[t].callbacks IN
  /\ Changing /\ Idle(t)
  /\ \/ \E i \in Find(mine, h) : SetLocal(t, Without(mine, h), mine[i].obs)
     \/ /\ Find(mine, h) = {}
        /\ SetGlobal(Without(global, h)) /\ version' = Bumped(global')

\* setTLS: clearThreadLocalCallbacks, enableRecordFunction, and the state
\* of another thread that is propagated
SetTLS(t, callbacks, enabled) ==
  /\ Changing /\ Idle(t)
  /\ \E m \in rebuild_all([manager[t] EXCEPT !.callbacks = callbacks, !.enabled = enabled]) :
       manager' = [manager EXCEPT ![t] = m]
  /\ UNCHANGED <<version, global, guard>>

(***************************************************************************)
(* A RecordFunction                                                        *)
(***************************************************************************)
\* The active observers, from the cache of manager m
Take(t, g, m) ==
  \E e \in Gets(m.entry[g.scope]) :
    LET cbs == Range(m.entry[g.scope].cbs) IN
    /\ manager' = [manager EXCEPT ![t] = [m EXCEPT !.entry[g.scope] = e]]
    /\ guard' = [guard EXCEPT ![t] =
         [g EXCEPT !.phase = "made", !.run = [i \in DOMAIN e.active |-> e.active[i].handle],
                   !.known = {x.handle : x \in cbs},
                   !.due = {x.handle : x \in {y \in cbs : y.due \in {-1, 1}}}]]

\* The constructor looks at the version, ...
Construct(t, s) ==
  LET now == Handles(InForce(manager[t], global, s))
      g == [NoGuard EXCEPT !.phase = "lookup", !.scope = s, !.must = now, !.may = now]
  IN  /\ guard[t].phase \in {"none", "over"}
      /\ \/ manager[t].version = version /\ Take(t, g, manager[t])
         \/ manager[t].version # version /\ guard' = [guard EXCEPT ![t] = g] /\ UNCHANGED manager
      /\ UNCHANGED <<version, global, changes>>

\* ... and if it has changed takes a snapshot, which may be newer still.
Lookup(t) ==
  /\ guard[t].phase = "lookup"
  /\ \E m \in rebuild_all(manager[t]) : Take(t, guard[t], m)
  /\ UNCHANGED <<version, global, changes>>

\* before(): an observer that throws is as good as any other.
Before(t) ==
  /\ guard[t].phase = "made"
  /\ guard' = [guard EXCEPT ![t] = [NoGuard EXCEPT !.phase = "begun", !.run = guard[t].run, !.begun = guard[t].run]]
  /\ UNCHANGED <<version, global, manager, changes>>

\* end(), by hand or, at last, by the destructor
Cleared(run) == <<>>
End(t, phase) ==
  /\ guard[t].phase = "begun" \/ (guard[t].phase = "made" /\ phase = "over")
  /\ guard' = [guard EXCEPT ![t] =
       [NoGuard EXCEPT !.phase = phase, !.run = Cleared(guard[t].run), !.begun = guard[t].begun,
                       !.ended = guard[t].ended \o (IF guard[t].phase = "begun" THEN guard[t].run ELSE <<>>)]]
  /\ UNCHANGED <<version, global, manager, changes>>

RNext ==
  /\ \/ \E o \in rfuse.observers : AddGlobal(o) \/ \E t \in rfuse.threads : AddLocal(t, o)
     \/ ClearGlobal
     \/ \E t \in rfuse.threads, h \in 1..changes :
          RemoveCallback(t, h) \/ SetEnabled(t, h, TRUE) \/ SetEnabled(t, h, FALSE)
     \/ \E t \in rfuse.threads :
          \/ SetTLS(t, <<>>, manager[t].enabled)
          \/ SetTLS(t, manager[t].callbacks, ~manager[t].enabled)
          \/ \E u \in rfuse.threads \ {t} : SetTLS(t, manager[u].callbacks, manager[u].enabled)
     \/ \E t \in rfuse.threads :
          \/ \E s \in RecordScope : Construct(t, s)
          \/ Lookup(t) \/ Before(t) \/ End(t, "begun") \/ End(t, "over")
  /\ UNCHANGED rfuse

(***************************************************************************)
(* Properties                                                              *)
(***************************************************************************)

\* A RecordFunction finds every observer that was in force from the beginning
\* of its lookup to the end, and none that was in force at no time of it: the
\* caches are never stale, whatever changed, for the whole process, for the
\* thread or in one scope only.
ObserversKnown ==
  \A t \in RFThread : guard[t].phase = "made" =>
     guard[t].must \subseteq guard[t].known /\ guard[t].known \subseteq guard[t].may

\* A sampled observer runs at exactly the calls at which a coin for every
\* call would have it run, although its counter is only updated when some
\* observer is due; the others run always.
ObserversDue ==
  \A t \in RFThread : guard[t].phase = "made" => Range(guard[t].run) = guard[t].due

\* "start and end callbacks always run as a pair" (record_function.h): also if
\* an observer was removed in between, and if end() is called before the
\* destructor calls it.
ObserversPaired ==
  \A t \in RFThread : guard[t].phase = "over" => guard[t].ended = guard[t].begun

\* The observers in force run, when they are due, start and end
\* (rebuildActiveCallbacksIfNeeded, getActiveCallbacksImpl, end).
ObserversSound == ObserversKnown /\ ObserversDue /\ ObserversPaired
=============================================================================
