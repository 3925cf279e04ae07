------------------------------ MODULE MCMemory ------------------------------
(***************************************************************************)
(* The two GPU caching allocators on small devices, intrusive pointers,    *)
(* hash tables, and the logger. A behaviour exercises one of them.         *)
(***************************************************************************)
EXTENDS CudaCachingAllocator, MetalCachingAllocator, IntrusivePtr, FlatHash, Logger

CONSTANTS s0, s1, s2, t1, t2, x1, x2, x3, x4, x5, y1, y2, ha, hb, l1, l2

VARIABLE part         \* rigid: the component

MCStream == {s0, s1, s2}
MCThread == {t1, t2}

\* Streams that share memory, so that frees are deferred.
Deferring == [threads |-> {t1}, sizes |-> {1}, homes |-> {s0}, hints |-> {s0, s1, s2},
              caps |-> {100}, limits |-> {100}, callbacks |-> {FALSE}, calls |-> 4]

\* Two threads that need the driver at the same time, near the limit.
Racing == [threads |-> {t1, t2}, sizes |-> {1, 3}, homes |-> {s0}, hints |-> {s0},
           caps |-> {100}, limits |-> {10}, callbacks |-> {FALSE}, calls |-> 4]

\* One thread on two streams that changes every setting.
Tuning == [threads |-> {t1}, sizes |-> {1, 3}, homes |-> {s0, s1}, hints |-> {s0},
           caps |-> {3, 100}, limits |-> {10, 100}, callbacks |-> BOOLEAN, calls |-> 3]

MCClients == {Deferring, Racing, Tuning}

\* Two homes at the end of the array, whose chains push each other on; keys
\* that collide in every table, so that a table grows while it is filled; and
\* two tables.
Hashes(a, b, c, d, e) == (x1 :> a) @@ (x2 :> b) @@ (x3 :> c) @@ (x4 :> d) @@ (x5 :> e)
MCHashUses ==
  {[hash |-> Hashes(24, 25, 28, 29, 30), keys |-> HashKey, vals |-> {y1}, tables |-> {ha},
    sizes |-> {0, 5}, loads |-> {50, 100}],
   [hash |-> Hashes(0, 0, 0, 0, 0), keys |-> HashKey \ {x5}, vals |-> {y1}, tables |-> {ha},
    sizes |-> {0, 5}, loads |-> {50, 100}],
   [hash |-> Hashes(31, 30, 0, 0, 0), keys |-> {x1, x2}, vals |-> {y1, y2}, tables |-> {ha, hb},
    sizes |-> {0}, loads |-> {50, 100}]}

\* Two threads that write to two files, or to a callback that comes and goes;
\* messages that are fatal, with the cut-off below and above; and one thread
\* with scopes of both kinds.
Logs(ts, ops, levels, n, opens) ==
  [threads |-> ts, ops |-> ops, levels |-> levels, calls |-> n, opens |-> opens]
MCLogUses ==
  {Logs({l1, l2}, {"log", "file", "end_file"}, {INFO}, 4, {TRUE}),
   Logs({l1, l2}, {"log", "add", "remove", "console"}, {INFO}, 4, {TRUE}),
   Logs({l1, l2}, {"log", "file", "add", "cutoff"}, {FATAL, INFO}, 3, BOOLEAN),
   Logs({l1}, {"start", "end", "mismatch"}, {INFO, 9}, 5, {TRUE}),
   Logs({l1}, {"enter", "silent", "exit", "quiet", "cutoff"}, {INFO, 9}, 5, {TRUE})}

Tables == CHOOSE u \in MCHashUses : u.tables = HashTable

Briefest == CHOOSE u \in MCLogUses : u.calls = 3

MCInit == /\ part \in {"cuda", "metal", "pointer", "hash", "logger"}
          /\ (part # "cuda" => client = Deferring) /\ (part # "hash" => huse = Tables)
          /\ (part # "logger" => luse = Briefest)
          /\ Init /\ MInit /\ IInit /\ HInit /\ LInit

MCNext == /\ \/ part = "cuda" /\ Next /\ UNCHANGED <<mvars, ivars, hvars, lvars>>
             \/ part = "metal" /\ MNext /\ UNCHANGED <<vars, ivars, hvars, lvars>>
             \/ part = "pointer" /\ INext /\ UNCHANGED <<vars, mvars, hvars, lvars>>
             \/ part = "hash" /\ HNext /\ UNCHANGED <<vars, mvars, ivars, lvars>>
             \/ part = "logger" /\ LNext /\ UNCHANGED <<vars, mvars, ivars, hvars>>
          /\ UNCHANGED part

MCSpec == MCInit /\ [][MCNext]_<<part, vars, mvars, ivars, hvars, lvars>>
=============================================================================
