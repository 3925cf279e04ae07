------------------------------ MODULE FlatHash ------------------------------
(***************************************************************************)
(* flat_hash_map: sherwood_v3_table, open addressing with robin-hood       *)
(* probing. An entry stores how far it is from the slot of its hash; a     *)
(* probe ends at the first entry that is closer to its own slot. The array *)
(* does not wrap around: it has max_lookups more slots and an end item     *)
(* that stops every loop. A hash is what the fibonacci policy makes of it  *)
(* before the shift, of HashBits bits; the table grows up to as many.      *)
(***************************************************************************)
EXTENDS Integers, FiniteSetsExt, SequencesExt

CONSTANTS HashTable,     \* two tables, for copies and moves
          HashKey, HashVal,
          NoKey,         \* no key and no value
          HashBits,      \* 64
          min_lookups,   \* 4
          HashUses       \* the hashes, keys, values, tables and calls of a program

\* The table of 0 slots has an index of one bit, and its last entry is the end.
ASSUME LookupsAssumption == min_lookups >= 3 /\ HashBits >= 2

VARIABLES huse,          \* rigid: a member of HashUses
          table,         \* the tables
          ideal,         \* history: the map that each table stands for
          ret            \* history: what the last call returned, and should have

hvars == <<huse, table, ideal, ret>>

Empty == [dist |-> -1, key |-> NoKey, val |-> NoKey]
EndItem == [dist |-> 0, key |-> NoKey, val |-> NoKey]

\* A load factor is the percentage.
empty_default_table(load) ==
  [last |-> 0, max_lookups |-> min_lookups - 1, shift |-> HashBits - 1, load |-> load, num |-> 0,
   entry |-> [i \in 0..(min_lookups - 1) |-> IF i = min_lookups - 1 THEN EndItem ELSE Empty]]

end(t) == t.last + t.max_lookups
bucket_count(t) == IF t.last = 0 THEN 0 ELSE t.last + 1
index_for_hash(t, k) == huse.hash[k] \div 2^t.shift
Elements(t, from) == {i \in from..(end(t) - 1) : t.entry[i].dist >= 0}
Keys(t, from) == {t.entry[i].key : i \in Elements(t, from)}

(***************************************************************************)
(* find and emplace                                                        *)
(***************************************************************************)
\* The distance at which a probe gives up
Probe(t, k) ==
  LET home == index_for_hash(t, k) IN
  Min({d \in 0..t.max_lookups : home + d \in DOMAIN t.entry /\ t.entry[home + d].dist < d})

find(t, k) ==
  LET home == index_for_hash(t, k)
      hit == {d \in 0..(Probe(t, k) - 1) : t.entry[home + d].key = k}
  IN  IF hit = {} THEN end(t) ELSE home + Min(hit)

Put(t, i, e) == [t EXCEPT !.entry[i] = e]
Placed(t, i, e, at) == [t |-> [Put(t, i, e) EXCEPT !.num = @ + 1], at |-> at, new |-> TRUE]

RECURSIVE emplace(_, _, _), displace(_, _, _, _), rehash(_, _)

grow(t) == rehash(t, Max({4, 2 * bucket_count(t)}))

\* The new item, which is the first of a chain, leaves its place to the last.
restart_with_last(t, first, item) == emplace(grow(t), item.key, item.val)
restart(t, first, item) ==
  LET new == t.entry[first] IN emplace(grow(Put(t, first, [item EXCEPT !.dist = new.dist])), new.key, new.val)

\* An item out of its place goes to the next entry that is empty or closer to
\* its own slot, up to the limit.
displace(t, first, i, item) ==
  LET e == t.entry[i] IN
      IF e.dist < 0 THEN Placed(t, i, item, first)
      ELSE IF e.dist < item.dist
        THEN displace(Put(t, i, item), first, i + 1, [e EXCEPT !.dist = @ + 1])
      ELSE IF item.dist + 1 = t.max_lookups
        THEN restart(t, first, item)
      ELSE displace(t, first, i + 1, [item EXCEPT !.dist = @ + 1])

Full(t) == 100 * (t.num + 1) > (t.last + 1) * t.load

emplace_new_key(t, d, k, v) ==
  LET i == index_for_hash(t, k) + d
      e == t.entry[i]
      item == [dist |-> d, key |-> k, val |-> v]
  IN  IF t.last = 0 \/ d = t.max_lookups \/ Full(t) THEN emplace(grow(t), k, v)
      ELSE IF e.dist < 0 THEN Placed(t, i, item, i)
      ELSE displace(Put(t, i, item), i, i + 1, [e EXCEPT !.dist = @ + 1])

emplace(t, k, v) ==
  IF find(t, k) # end(t) THEN [t |-> t, at |-> find(t, k), new |-> FALSE]
  ELSE emplace_new_key(t, Probe(t, k), k, v)

\* insert(begin, end), from the entries of an array
inserted(t, from) ==
  FoldLeft(LAMBDA u, i : IF from.entry[i].dist < 0 THEN u ELSE emplace(u, from.entry[i].key, from.entry[i].val).t,
           t, [i \in 1..end(from) |-> i - 1])

(***************************************************************************)
(* rehash                                                                  *)
(***************************************************************************)
Ceil(n, percent) == (100 * n + percent - 1) \div percent
log2(n) == Max({b \in 0..HashBits : 2^b <= n})
next_size_over(n) == Min({2^b : b \in 1..HashBits} \cap {m \in 1..2^HashBits : m >= n})
compute_max_lookups(size) == Max({min_lookups, log2(size)})

Fresh(size, load) ==
  LET e == size + compute_max_lookups(size) - 1 IN
  [last |-> size - 1, max_lookups |-> compute_max_lookups(size), shift |-> HashBits - log2(size),
   load |-> load, num |-> 0, entry |-> [i \in 0..e |-> IF i = e THEN EndItem ELSE Empty]]

rehash(t, n) ==
  LET want == Max({n, Ceil(t.num, t.load)}) IN
  IF want = 0 THEN [empty_default_table(t.load) EXCEPT !.num = t.num]
  ELSE IF next_size_over(want) = bucket_count(t) THEN t
  ELSE inserted(Fresh(next_size_over(want), t.load), t)

num_buckets_for_reserve(t, n) == Ceil(n, Min({50, t.load}))
reserve(t, n) == LET m == num_buckets_for_reserve(t, n) IN IF m > bucket_count(t) THEN rehash(t, m) ELSE t
rehash_for_other_container(t, other) ==
  rehash(t, Min({num_buckets_for_reserve(t, other.num), bucket_count(other)}))

clear(t) ==
  [t EXCEPT !.num = 0, !.entry = [i \in DOMAIN @ |-> IF i = end(t) THEN @[i] ELSE Empty]]

\* operator=
copied(t, other) ==
  LET u == [clear(t) EXCEPT !.load = other.load] IN inserted(rehash_for_other_container(u, other), other)

(***************************************************************************)
(* erase: the entries behind move up, as far as their own slots.           *)
(***************************************************************************)
is_at_desired_position(e) == e.dist <= 0

Stop(t, i) == Min({j \in i..end(t) : is_at_desired_position(t.entry[j])})

erased_at(t, i) ==
  LET stop == Stop(t, i + 1) IN
  [t EXCEPT !.num = @ - 1,
            !.entry = [j \in DOMAIN @ |->
               IF j \in i..(stop - 2) THEN [@[j + 1] EXCEPT !.dist = @ - 1]
               ELSE IF j = stop - 1 THEN Empty ELSE @[j]]]

\* erase(b, e)
Moves(t, b, e, j) == Min({e - b} \cup {t.entry[i].dist : i \in e..j})
erased_range(t, b, e) ==
  LET stop == IF e = end(t) THEN e ELSE Stop(t, e)
      from(x) == {j \in e..(stop - 1) : j - Moves(t, b, e, j) = x}
      moved(x) == LET j == CHOOSE j \in from(x) : TRUE IN [t.entry[j] EXCEPT !.dist = @ - Moves(t, b, e, j)]
  IN  [t EXCEPT !.num = @ - Cardinality({i \in b..(e - 1) : t.entry[i].dist >= 0}),
                !.entry = [x \in DOMAIN @ |-> IF from(x) # {} THEN moved(x)
                                              ELSE IF x \in b..(stop - 1) THEN Empty ELSE @[x]]]
range_result(t, b, e) == IF e = end(t) THEN e ELSE e - Min({t.entry[e].dist, e - b})

\* The result of erase, as an iterator
Iterator(t, i) == Min({j \in i..end(t) : t.entry[j].dist >= 0})

(***************************************************************************)
(* Calls                                                                   *)
(***************************************************************************)
NoReturn == [want |-> {}, got |-> {}]
NoMap == [k \in HashKey |-> NoKey]

HInit ==
  /\ huse \in HashUses
  /\ table = [a \in HashTable |-> empty_default_table(50)]
  /\ ideal = [a \in HashTable |-> NoMap]
  /\ ret = NoReturn

Become(a, t, m, r) ==
  /\ table' = [table EXCEPT ![a] = t] /\ ideal' = [ideal EXCEPT ![a] = m] /\ ret' = r

Known(a, k) == ideal[a][k] # NoKey
Roomy(a) == bucket_count(table[a]) <= 2^(HashBits - 1)

\* emplace, insert and operator[]
Emplace(a, k, v) ==
  LET r == emplace(table[a], k, v) IN
  /\ Known(a, k) \/ Roomy(a)
  /\ Become(a, r.t, [ideal[a] EXCEPT ![k] = IF Known(a, k) THEN @ ELSE v],
            [want |-> {<<k, ~Known(a, k)>>}, got |-> {<<r.t.entry[r.at].key, r.new>>}])

insert_or_assign(a, k, v) ==
  LET r == emplace(table[a], k, v) IN
  /\ Known(a, k) \/ Roomy(a)
  /\ Become(a, IF r.new THEN r.t ELSE [r.t EXCEPT !.entry[r.at].val = v], [ideal[a] EXCEPT ![k] = v], NoReturn)

\* What erase returns is the rest of the iteration.
EraseKey(a, k) ==
  LET t == table[a]
      i == find(t, k)
  IN  IF i = end(t)
      THEN Become(a, t, ideal[a], [want |-> {Known(a, k)}, got |-> {FALSE}])
      ELSE LET u == erased_at(t, i) IN
           Become(a, u, [ideal[a] EXCEPT ![k] = NoKey],
                  [want |-> Keys(t, i + 1), got |-> Keys(u, Iterator(u, i))])

EraseRange(a, b, e) ==
  LET t == table[a]
      u == erased_range(t, b, e)
      gone == Keys(t, b) \ Keys(t, e)
  IN  Become(a, u, [k \in HashKey |-> IF k \in gone THEN NoKey ELSE ideal[a][k]],
             [want |-> Keys(t, e), got |-> Keys(u, range_result(t, b, e))])

Clear(a) == Become(a, clear(table[a]), NoMap, NoReturn)
Rehash(a, n) == Become(a, rehash(table[a], n), ideal[a], NoReturn)
Reserve(a, n) == Become(a, reserve(table[a], n), ideal[a], NoReturn)
shrink_to_fit(a) == Become(a, rehash_for_other_container(table[a], table[a]), ideal[a], NoReturn)
max_load_factor(a, load) == Become(a, [table[a] EXCEPT !.load = load], ideal[a], NoReturn)

CopyTable(a, b) == a # b /\ Become(a, copied(table[a], table[b]), ideal[b], NoReturn)

\* Tables move by swapping their pointers; the old one is reset before.
MoveTable(a, b) ==
  /\ a # b
  /\ table' = [table EXCEPT ![a] = table[b], ![b] = empty_default_table(table[a].load)]
  /\ ideal' = [ideal EXCEPT ![a] = ideal[b], ![b] = NoMap]
  /\ ret' = NoReturn

swap(a, b) ==
  /\ table' = [table EXCEPT ![a] = table[b], ![b] = table[a]]
  /\ ideal' = [ideal EXCEPT ![a] = ideal[b], ![b] = ideal[a]]
  /\ ret' = NoReturn

HNext ==
  /\ \E a \in huse.tables :
       \/ \E k \in huse.keys, v \in huse.vals : Emplace(a, k, v) \/ insert_or_assign(a, k, v)
       \/ \E k \in huse.keys : EraseKey(a, k)
       \/ \E b \in Elements(table[a], 0), e \in Elements(table[a], 0) \cup {end(table[a])} :
            b < e /\ EraseRange(a, b, e)
       \/ \E n \in huse.sizes : Rehash(a, n) \/ Reserve(a, n)
       \/ \E load \in huse.loads : max_load_factor(a, load)
       \/ Clear(a) \/ shrink_to_fit(a)
       \/ \E b \in huse.tables : CopyTable(a, b) \/ MoveTable(a, b) \/ swap(a, b)
  /\ UNCHANGED huse

(***************************************************************************)
(* Properties                                                              *)
(***************************************************************************)

\* find and the iteration agree with the map that the calls make, after any
\* chain of displacements, growth inside of growth, and entries moved up.
FindsAll ==
  \A a \in HashTable, k \in HashKey :
     LET t == table[a]
         i == find(t, k)
     IN  /\ (IF i = end(t) THEN NoKey ELSE t.entry[i].val) = ideal[a][k]
         /\ Cardinality({j \in Elements(t, 0) : t.entry[j].key = k}) = IF ideal[a][k] = NoKey THEN 0 ELSE 1

\* No loop runs past the end: the end item is where it was, no entry is
\* max_lookups away from its slot, and the count agrees.
TableShape ==
  \A a \in HashTable :
     LET t == table[a] IN
     /\ t.entry[end(t)] = EndItem /\ t.num = Cardinality(Elements(t, 0))
     /\ \A i \in Elements(t, 0) :
          t.entry[i].dist = i - index_for_hash(t, t.entry[i].key) /\ t.entry[i].dist < t.max_lookups

\* emplace returns an iterator to its key although the chain may have moved
\* it, and erase one from which a loop visits what it has not seen.
ReturnsRight == ret.want = ret.got

\* flat_hash_map is a map, and may be changed while it is iterated
\* (emplace_new_key, erase, rehash).
TableIsMap == FindsAll /\ TableShape /\ ReturnsRight
=============================================================================
