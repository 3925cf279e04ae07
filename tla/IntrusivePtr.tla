---------------------------- MODULE IntrusivePtr ----------------------------
(***************************************************************************)
(* intrusive_ptr and weak_intrusive_ptr to one object. A pointer is a      *)
(* variable of one of the two types, or an owning raw pointer between      *)
(* release() and reclaim(); it is used by one thread at a time, and        *)
(* different pointers by different threads, so that each access to         *)
(* combined_refcount_ is a step of its own. The count is a pair, of strong *)
(* references and of weak ones plus one while there are strong ones; it is *)
(* not made to overflow. unsafe_adapt_non_heap_allocated and the borrowed  *)
(* pointers of MaybeOwned are left out.                                    *)
(***************************************************************************)
EXTENDS Integers, FiniteSets

CONSTANT Pointer

ASSUME PointerAssumption == IsFiniteSet(Pointer)

VARIABLES holds,     \* what each pointer is doing with the object
          strong, weak,   \* combined_refcount_
          seen,      \* the count that lock() of a weak pointer has read
          object,    \* "unborn", "alive" or "freed"
          releases   \* history: calls of release_resources() of this object

ivars == <<holds, strong, weak, seen, object, releases>>

\* "unique" and "shared" are strong pointers inside of reset_, "locking" a
\* weak one inside of lock(); the others have lost their reference.
Doings == {"none", "strong", "unique", "shared", "release", "unweak", "delete", "weak", "locking"}
StrongRefs == {p \in Pointer : holds[p] \in {"strong", "unique", "shared"}}
WeakRefs == {p \in Pointer : holds[p] \in {"weak", "locking"}}
Ending == {p \in Pointer : holds[p] \in {"release", "unweak"}}
Deleting == {p \in Pointer : holds[p] = "delete"}

IInit == /\ holds = [p \in Pointer |-> "none"]
         /\ strong = 0 /\ weak = 0
         /\ seen = [p \in Pointer |-> <<0, 0>>]
         /\ object = "unborn"
         /\ releases = 0

Becomes(p, h) == holds' = [holds EXCEPT ![p] = h]

\* make_intrusive: the counts are stored, not incremented. When the object is
\* gone the pointers serve for another one.
MakeIntrusive(p) ==
  /\ object # "alive" /\ object' = "alive"
  /\ Becomes(p, "strong")
  /\ strong' = 1 /\ weak' = 1
  /\ releases' = 0
  /\ UNCHANGED seen

(***************************************************************************)
(* Copies and moves. q is null: an assignment is a copy or a move into a   *)
(* new pointer, a swap, and the reset of the old value.                    *)
(***************************************************************************)
\* retain_
Retained(s) == s + 1

CopyStrong(p, q) ==
  /\ holds[p] = "strong" /\ holds[q] = "none"
  /\ Becomes(q, "strong")
  /\ strong' = Retained(strong)
  /\ UNCHANGED <<weak, seen, object, releases>>

\* A weak pointer made of a strong one or of another weak one
CopyWeak(p, q) ==
  /\ holds[p] \in {"strong", "weak", "locking"} /\ holds[q] = "none"
  /\ Becomes(q, "weak")
  /\ weak' = weak + 1
  /\ UNCHANGED <<strong, seen, object, releases>>

\* The move constructors, swap with a null pointer, and release() and reclaim()
Move(p, q) ==
  /\ holds[p] \in {"strong", "weak"} /\ holds[q] = "none"
  /\ holds' = [holds EXCEPT ![p] = "none", ![q] = holds[p]]
  /\ UNCHANGED <<strong, weak, seen, object, releases>>

(***************************************************************************)
(* reset_ of intrusive_ptr                                                 *)
(***************************************************************************)
ResetLoad(p) ==
  /\ holds[p] = "strong"
  /\ Becomes(p, IF strong = 1 /\ weak = 1 THEN "unique" ELSE "shared")
  /\ UNCHANGED <<strong, weak, seen, object, releases>>

\* The count was kUniqueRef: nobody else can have a reference.
ResetUnique(p) ==
  /\ holds[p] = "unique"
  /\ strong' = 0 /\ weak' = 0
  /\ Becomes(p, "delete")
  /\ UNCHANGED <<seen, object, releases>>

\* After the decrement: whether to delete, to release the resources first,
\* or neither
AfterDecrement(s, w) == IF s > 0 THEN "none" ELSE IF w = 1 THEN "delete" ELSE "release"

ResetDecrement(p) ==
  /\ holds[p] = "shared"
  /\ strong' = strong - 1
  /\ Becomes(p, AfterDecrement(strong - 1, weak))
  /\ UNCHANGED <<weak, seen, object, releases>>

ReleaseResources(p) ==
  /\ holds[p] = "release"
  /\ releases' = releases + 1
  /\ Becomes(p, "unweak")
  /\ UNCHANGED <<strong, weak, seen, object>>

\* The strong pointers' own weak reference, and reset_ of weak_intrusive_ptr
AfterWeak(w) == IF w = 0 THEN "delete" ELSE "none"

WeakDecrement(p) ==
  /\ holds[p] \in {"unweak", "weak"}
  /\ weak' = weak - 1
  /\ Becomes(p, AfterWeak(weak - 1))
  /\ UNCHANGED <<strong, seen, object, releases>>

Delete(p) ==
  /\ holds[p] = "delete"
  /\ object' = "freed"
  /\ Becomes(p, "none")
  /\ UNCHANGED <<strong, weak, seen, releases>>

(***************************************************************************)
(* lock: a compare-and-swap loop on the count                              *)
(***************************************************************************)
LockLoad(p) ==
  /\ holds[p] = "weak"
  /\ seen' = [seen EXCEPT ![p] = <<strong, weak>>]
  /\ Becomes(p, "locking")
  /\ UNCHANGED <<strong, weak, object, releases>>

LockFails(p) ==
  /\ holds[p] = "locking" /\ seen[p][1] = 0
  /\ Becomes(p, "weak")
  /\ UNCHANGED <<strong, weak, seen, object, releases>>

\* q is the pointer that lock() returns.
Unchanged_assumed(p) == TRUE
Unchanged(p) == seen[p] = <<strong, weak>>

LockSwaps(p, q) ==
  /\ holds[p] = "locking" /\ seen[p][1] # 0 /\ holds[q] = "none"
  /\ Unchanged(p)
  /\ holds' = [holds EXCEPT ![p] = "weak", ![q] = "strong"]
  /\ strong' = strong + 1
  /\ UNCHANGED <<weak, seen, object, releases>>

\* compare_exchange_weak may also fail without a cause.
LockRetries(p) ==
  /\ holds[p] = "locking" /\ seen[p][1] # 0
  /\ seen' = [seen EXCEPT ![p] = <<strong, weak>>]
  /\ UNCHANGED <<holds, strong, weak, object, releases>>

INext ==
  \/ \E p \in Pointer :
       \/ MakeIntrusive(p)
       \/ ResetLoad(p) \/ ResetUnique(p) \/ ResetDecrement(p) \/ ReleaseResources(p)
       \/ WeakDecrement(p) \/ Delete(p)
       \/ LockLoad(p) \/ LockFails(p) \/ LockRetries(p)
  \/ \E p, q \in Pointer : CopyStrong(p, q) \/ CopyWeak(p, q) \/ Move(p, q) \/ LockSwaps(p, q)

ISpec == IInit /\ [][INext]_ivars

(***************************************************************************)
(* Properties                                                              *)
(***************************************************************************)

PointerTypeOK ==
  /\ holds \in [Pointer -> Doings]
  /\ strong \in Nat /\ weak \in Nat
  /\ seen \in [Pointer -> Nat \X Nat]
  /\ object \in {"unborn", "alive", "freed"}
  /\ releases \in Nat

\* "refcount == number of strong references to the object, weakcount ==
\* number of weak references, plus one more if refcount > 0", with the
\* exceptions that the code makes while the last one goes: the one more is
\* kept until the resources are released, and the counts of an object that
\* is about to be deleted, or was, are not used.
CountsMatch ==
  /\ strong = Cardinality(StrongRefs)
  /\ Deleting = {} /\ object = "alive" => weak = Cardinality(WeakRefs) + (IF StrongRefs \cup Ending # {} THEN 1 ELSE 0)
  /\ StrongRefs \cup Ending # {} => weak > 0

\* The object outlives every pointer to it, strong or weak, also one that is
\* inside of reset_ or lock(), and the pointer that deletes it is the last.
NoUseAfterFree ==
  /\ \A p \in Pointer : holds[p] # "none" => object = "alive"
  /\ \A p \in Deleting, q \in Pointer : q # p => holds[q] = "none"

\* The object is not leaked: when the last pointer is gone it was deleted.
NoLeak == (\A p \in Pointer : holds[p] = "none") => object # "alive"

\* release_resources() is called at most once, and never while a strong
\* pointer exists or before one that lock() gives out later ("Once refcount
\* == 0, it can never again be > 0").
ReleasedOnce == releases <= 1 /\ (releases = 1 => StrongRefs = {})

\* The object lives exactly as long as somebody refers to it, and its
\* resources as long as somebody does so strongly.
PointersSound == PointerTypeOK /\ CountsMatch /\ NoUseAfterFree /\ NoLeak /\ ReleasedOnce
=============================================================================
