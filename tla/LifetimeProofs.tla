-------------------------- MODULE LifetimeProofs --------------------------
(***************************************************************************)
(* Proofs about lifetimes: the object behind intrusive_ptr, and the blocks *)
(* and the consumer of the queues of a profiling session.                  *)
(***************************************************************************)
EXTENDS IntrusivePtr, TraceSession, FiniteSetTheorems, TLAPS

-----------------------------------------------------------------------------
(***************************************************************************)
(* The reference counts of intrusive_ptr are right, and the object is      *)
(* deleted exactly once, for any number of pointers.                       *)
(***************************************************************************)

\* At most one pointer takes the object down, and only when no strong
\* pointer is left.
OneTakesDown ==
  /\ \A p, q \in Ending \cup Deleting : p = q
  /\ Ending # {} => StrongRefs = {}

\* A pointer that has read kUniqueRef is the only one.
UniqueIsAlone ==
  \A p, q \in Pointer : holds[p] = "unique" /\ q # p => holds[q] = "none"

\* The resources have not been released when a pointer is about to.
NotYetReleased == \A p \in Pointer : holds[p] = "release" => releases = 0

\* PointersSound is not inductive: the rest says why reset_ may store the
\* counts without looking, and why no two pointers release or delete.
CountsInv == PointersSound /\ OneTakesDown /\ UniqueIsAlone /\ NotYetReleased

-----------------------------------------------------------------------------
\* Counting pointers: one more, one fewer, none and the only one.
LEMMA Counting ==
  ASSUME NEW S \in SUBSET Pointer
  PROVE  /\ Cardinality(S) \in Nat
         /\ Cardinality(S) = 0 <=> S = {}
         /\ \A x \in Pointer \ S : Cardinality(S \cup {x}) = Cardinality(S) + 1
         /\ \A x \in S : Cardinality(S \ {x}) = Cardinality(S) - 1
         /\ \A x \in S : Cardinality(S) = 1 => S = {x}
<1>1. IsFiniteSet(S)
  BY FS_Subset, PointerAssumption
<1>2. Cardinality(S) \in Nat /\ (Cardinality(S) = 0 <=> S = {})
  BY <1>1, FS_CardinalityType, FS_EmptySet
<1>3. \A x \in Pointer \ S : Cardinality(S \cup {x}) = Cardinality(S) + 1
  BY <1>1, FS_AddElement
<1>4. \A x \in S : Cardinality(S \ {x}) = Cardinality(S) - 1
  BY <1>1, FS_RemoveElement
<1>5. ASSUME NEW x \in S, Cardinality(S) = 1
      PROVE  S = {x}
  <2>1. Cardinality(S \ {x}) = 0
    BY <1>4, <1>5
  <2>2. S \ {x} = {}
    BY <1>1, <2>1, FS_RemoveElement, FS_EmptySet
  <2> QED BY <2>2
<1> QED BY <1>2, <1>3, <1>4, <1>5

\* The sets that the properties count, as sets of pointers.
LEMMA RefSets ==
  /\ StrongRefs \in SUBSET Pointer /\ WeakRefs \in SUBSET Pointer
  /\ Ending \in SUBSET Pointer /\ Deleting \in SUBSET Pointer
BY DEF StrongRefs, WeakRefs, Ending, Deleting

\* Without pointers the counts are zero.
LEMMA CountsInit == IInit => CountsInv
<1> SUFFICES ASSUME IInit PROVE CountsInv
  OBVIOUS
<1>1. StrongRefs = {} /\ WeakRefs = {} /\ Ending = {} /\ Deleting = {}
  BY DEF IInit, StrongRefs, WeakRefs, Ending, Deleting
<1>2. Cardinality(StrongRefs) = 0
  BY <1>1, FS_EmptySet
<1> QED
  BY <1>1, <1>2 DEF IInit, CountsInv, PointersSound, PointerTypeOK, Doings, CountsMatch,
     NoUseAfterFree, NoLeak, ReleasedOnce, OneTakesDown, UniqueIsAlone, NotYetReleased

\* An object is made while no pointer refers to an earlier one.
LEMMA MakeKeeps ==
  ASSUME CountsInv, NEW p \in Pointer, MakeIntrusive(p)
  PROVE  CountsInv'
<1> USE DEF CountsInv, PointersSound
<1>1. \A q \in Pointer : holds[q] = "none"
  BY DEF MakeIntrusive, NoUseAfterFree
<1>2. StrongRefs' = {p} /\ WeakRefs' = {} /\ Ending' = {} /\ Deleting' = {}
  BY <1>1 DEF MakeIntrusive, Becomes, PointerTypeOK, StrongRefs, WeakRefs, Ending, Deleting
<1>3. Cardinality(StrongRefs') = 1 /\ Cardinality(WeakRefs') = 0
  BY <1>2, FS_Singleton, FS_EmptySet
<1>4. PointerTypeOK'
  BY DEF MakeIntrusive, Becomes, PointerTypeOK, Doings
<1>5. CountsMatch'
  BY <1>2, <1>3 DEF MakeIntrusive, CountsMatch
<1>6. NoUseAfterFree' /\ NoLeak' /\ ReleasedOnce'
  BY <1>1, <1>2 DEF MakeIntrusive, Becomes, PointerTypeOK, NoUseAfterFree, NoLeak, ReleasedOnce
<1>7. OneTakesDown' /\ UniqueIsAlone' /\ NotYetReleased'
  BY <1>1, <1>2 DEF MakeIntrusive, Becomes, PointerTypeOK, OneTakesDown, UniqueIsAlone, NotYetReleased
<1> QED BY <1>4, <1>5, <1>6, <1>7

\* While a strong pointer exists nobody takes the object down, and the
\* counts are those of the pointers.
LEMMA WhileStrong ==
  ASSUME CountsInv, StrongRefs # {}
  PROVE  /\ object = "alive" /\ Deleting = {} /\ Ending = {} /\ releases = 0
         /\ strong = Cardinality(StrongRefs) /\ weak = Cardinality(WeakRefs) + 1
<1> USE DEF CountsInv, PointersSound
<1>1. object = "alive" /\ Deleting = {}
  BY DEF NoUseAfterFree, StrongRefs, Deleting
<1>2. Ending = {} /\ releases = 0
  BY DEF OneTakesDown, ReleasedOnce, PointerTypeOK
<1> QED BY <1>1, <1>2 DEF CountsMatch

\* While a weak pointer exists nobody deletes the object.
LEMMA WhileWeak ==
  ASSUME CountsInv, WeakRefs # {}
  PROVE  /\ object = "alive" /\ Deleting = {}
         /\ weak = Cardinality(WeakRefs) + (IF StrongRefs \cup Ending # {} THEN 1 ELSE 0)
<1>1. object = "alive" /\ Deleting = {}
  BY DEF CountsInv, PointersSound, NoUseAfterFree, WeakRefs, Deleting
<1> QED BY <1>1 DEF CountsInv, PointersSound, CountsMatch

\* Copying a strong pointer: one more strong reference.
LEMMA CopyStrongKeeps ==
  ASSUME CountsInv, NEW p \in Pointer, NEW q \in Pointer, CopyStrong(p, q)
  PROVE  CountsInv'
<1> USE DEF CountsInv, PointersSound
<1>1. p \in StrongRefs /\ q \notin StrongRefs /\ p # q
  BY DEF CopyStrong, StrongRefs
<1>2. /\ object = "alive" /\ Deleting = {} /\ Ending = {} /\ releases = 0
      /\ strong = Cardinality(StrongRefs) /\ weak = Cardinality(WeakRefs) + 1
  BY <1>1, WhileStrong
<1>3. StrongRefs' = StrongRefs \cup {q} /\ WeakRefs' = WeakRefs /\ Ending' = {} /\ Deleting' = {}
  BY <1>2 DEF CopyStrong, Becomes, PointerTypeOK, StrongRefs, WeakRefs, Ending, Deleting
<1>4. /\ Cardinality(StrongRefs') = Cardinality(StrongRefs) + 1
      /\ Cardinality(WeakRefs) \in Nat
  BY <1>1, <1>3, RefSets, Counting
<1>5. PointerTypeOK'
  BY DEF CopyStrong, Becomes, Retained, PointerTypeOK, Doings
<1>6. CountsMatch'
  BY <1>2, <1>3, <1>4 DEF CopyStrong, Retained, CountsMatch
<1>7. NoUseAfterFree' /\ NoLeak' /\ ReleasedOnce'
  BY <1>2, <1>3 DEF CopyStrong, Becomes, PointerTypeOK, NoUseAfterFree, NoLeak, ReleasedOnce
<1>8. OneTakesDown' /\ NotYetReleased'
  BY <1>2, <1>3 DEF CopyStrong, OneTakesDown, NotYetReleased
<1>9. UniqueIsAlone'
  BY DEF CopyStrong, Becomes, PointerTypeOK, UniqueIsAlone
<1> QED BY <1>5, <1>6, <1>7, <1>8, <1>9

\* A new weak pointer, of a strong or of a weak one: one more weak reference.
LEMMA CopyWeakKeeps ==
  ASSUME CountsInv, NEW p \in Pointer, NEW q \in Pointer, CopyWeak(p, q)
  PROVE  CountsInv'
<1> USE DEF CountsInv, PointersSound
<1>1. p \in StrongRefs \cup WeakRefs /\ q \notin WeakRefs /\ p # q
  BY DEF CopyWeak, StrongRefs, WeakRefs
<1>2. /\ object = "alive" /\ Deleting = {}
      /\ weak = Cardinality(WeakRefs) + (IF StrongRefs \cup Ending # {} THEN 1 ELSE 0)
  BY <1>1, WhileStrong, WhileWeak
<1>3. /\ StrongRefs' = StrongRefs /\ WeakRefs' = WeakRefs \cup {q}
      /\ Ending' = Ending /\ Deleting' = {}
  BY <1>2 DEF CopyWeak, Becomes, PointerTypeOK, StrongRefs, WeakRefs, Ending, Deleting
<1>4. /\ Cardinality(WeakRefs') = Cardinality(WeakRefs) + 1
      /\ Cardinality(WeakRefs) \in Nat
  BY <1>1, <1>3, RefSets, Counting
<1>5. PointerTypeOK'
  BY DEF CopyWeak, Becomes, PointerTypeOK, Doings
<1>6. CountsMatch'
  BY <1>2, <1>3, <1>4 DEF CopyWeak, CountsMatch
<1>7. NoUseAfterFree' /\ NoLeak' /\ ReleasedOnce'
  BY <1>2, <1>3 DEF CopyWeak, Becomes, PointerTypeOK, NoUseAfterFree, NoLeak, ReleasedOnce
<1>8. OneTakesDown'
  BY <1>2, <1>3 DEF OneTakesDown
<1>9. NotYetReleased' /\ UniqueIsAlone'
  BY DEF CopyWeak, Becomes, PointerTypeOK, NotYetReleased, UniqueIsAlone
<1> QED BY <1>5, <1>6, <1>7, <1>8, <1>9

\* A move gives the reference to another pointer.
LEMMA MoveKeeps ==
  ASSUME CountsInv, NEW p \in Pointer, NEW q \in Pointer, Move(p, q)
  PROVE  CountsInv'
<1> USE DEF CountsInv, PointersSound
<1>1. p # q /\ q \notin StrongRefs \cup WeakRefs
  BY DEF Move, StrongRefs, WeakRefs
<1>2. Ending' = Ending /\ Deleting' = Deleting
  BY DEF Move, PointerTypeOK, Ending, Deleting
<1>3. /\ Cardinality(StrongRefs') = Cardinality(StrongRefs)
      /\ Cardinality(WeakRefs') = Cardinality(WeakRefs)
      /\ StrongRefs' = {} <=> StrongRefs = {}
  <2>1. CASE holds[p] = "strong"
    <3>1. StrongRefs' = (StrongRefs \ {p}) \cup {q} /\ WeakRefs' = WeakRefs /\ p \in StrongRefs
      BY <1>1, <2>1 DEF Move, PointerTypeOK, StrongRefs, WeakRefs
    <3>2. Cardinality(StrongRefs') = Cardinality(StrongRefs \ {p}) + 1
      BY <1>1, <3>1, RefSets, Counting
    <3> QED BY <3>1, <3>2, RefSets, Counting
  <2>2. CASE holds[p] = "weak"
    <3>1. WeakRefs' = (WeakRefs \ {p}) \cup {q} /\ StrongRefs' = StrongRefs /\ p \in WeakRefs
      BY <1>1, <2>2 DEF Move, PointerTypeOK, StrongRefs, WeakRefs
    <3>2. Cardinality(WeakRefs') = Cardinality(WeakRefs \ {p}) + 1
      BY <1>1, <3>1, RefSets, Counting
    <3> QED BY <3>1, <3>2, RefSets, Counting
  <2> QED BY <2>1, <2>2 DEF Move
<1>4. PointerTypeOK'
  BY DEF Move, PointerTypeOK, Doings
<1>5. CountsMatch'
  BY <1>2, <1>3 DEF Move, CountsMatch
<1>6. NoUseAfterFree' /\ NoLeak'
  BY <1>1, <1>2 DEF Move, PointerTypeOK, NoUseAfterFree, NoLeak, Deleting
<1>7. ReleasedOnce' /\ OneTakesDown'
  BY <1>2, <1>3 DEF Move, ReleasedOnce, OneTakesDown
<1>8. UniqueIsAlone' /\ NotYetReleased'
  BY <1>1 DEF Move, PointerTypeOK, UniqueIsAlone, NotYetReleased
<1> QED BY <1>4, <1>5, <1>6, <1>7, <1>8

\* The first access of reset_: the count it reads tells whether the pointer
\* is the only one.
LEMMA ResetLoadKeeps ==
  ASSUME CountsInv, NEW p \in Pointer, ResetLoad(p)
  PROVE  CountsInv'
<1> USE DEF CountsInv, PointersSound
<1>1. p \in StrongRefs
  BY DEF ResetLoad, StrongRefs
<1>2. /\ object = "alive" /\ Deleting = {} /\ Ending = {} /\ releases = 0
      /\ strong = Cardinality(StrongRefs) /\ weak = Cardinality(WeakRefs) + 1
  BY <1>1, WhileStrong
<1>3. /\ StrongRefs' = StrongRefs /\ WeakRefs' = WeakRefs
      /\ Ending' = {} /\ Deleting' = {}
  BY <1>2 DEF ResetLoad, Becomes, PointerTypeOK, StrongRefs, WeakRefs, Ending, Deleting
<1>4. strong = 1 /\ weak = 1 => StrongRefs = {p} /\ WeakRefs = {}
  <2>1. Cardinality(StrongRefs) = 1 => StrongRefs = {p}
    BY <1>1, RefSets, Counting
  <2>2. Cardinality(WeakRefs) \in Nat /\ (Cardinality(WeakRefs) = 0 => WeakRefs = {})
    BY RefSets, Counting
  <2> QED BY <1>2, <2>1, <2>2
<1>5. UniqueIsAlone'
  <2> SUFFICES ASSUME NEW u \in Pointer, NEW q \in Pointer, holds'[u] = "unique", q # u
               PROVE  holds'[q] = "none"
    BY DEF UniqueIsAlone
  <2>1. CASE u = p
    <3>1. StrongRefs = {p} /\ WeakRefs = {}
      BY <1>4, <2>1 DEF ResetLoad, Becomes, PointerTypeOK
    <3>2. holds[q] = "none"
      BY <1>2, <2>1, <3>1 DEF PointerTypeOK, Doings, StrongRefs, WeakRefs, Ending, Deleting
    <3> QED BY <2>1, <3>2 DEF ResetLoad, Becomes, PointerTypeOK
  <2>2. CASE u # p
    <3>1. holds[u] = "unique" /\ holds[p] = "strong"
      BY <2>2 DEF ResetLoad, Becomes, PointerTypeOK
    <3> QED BY <2>2, <3>1 DEF UniqueIsAlone
  <2> QED BY <2>1, <2>2
<1>6. PointerTypeOK'
  BY DEF ResetLoad, Becomes, PointerTypeOK, Doings
<1>7. CountsMatch' /\ ReleasedOnce' /\ OneTakesDown'
  BY <1>2, <1>3 DEF ResetLoad, CountsMatch, ReleasedOnce, OneTakesDown
<1>8. NoUseAfterFree' /\ NoLeak' /\ NotYetReleased'
  BY <1>2, <1>3 DEF ResetLoad, Becomes, PointerTypeOK, NoUseAfterFree, NoLeak, NotYetReleased
<1> QED BY <1>5, <1>6, <1>7, <1>8

\* The only pointer stores zeros: no other access to the counts follows.
LEMMA ResetUniqueKeeps ==
  ASSUME CountsInv, NEW p \in Pointer, ResetUnique(p)
  PROVE  CountsInv'
<1> USE DEF CountsInv, PointersSound
<1>1. \A q \in Pointer : q # p => holds[q] = "none"
  BY DEF ResetUnique, UniqueIsAlone
<1>2. /\ p \in StrongRefs /\ releases = 0 /\ object = "alive"
  <2>1. p \in StrongRefs
    BY DEF ResetUnique, StrongRefs
  <2> QED BY <2>1, WhileStrong
<1>3. StrongRefs' = {} /\ WeakRefs' = {} /\ Ending' = {} /\ Deleting' = {p}
  BY <1>1 DEF ResetUnique, Becomes, PointerTypeOK, StrongRefs, WeakRefs, Ending, Deleting
<1>4. Cardinality(StrongRefs') = 0
  BY <1>3, FS_EmptySet
<1>5. PointerTypeOK'
  BY DEF ResetUnique, Becomes, PointerTypeOK, Doings
<1>6. CountsMatch' /\ ReleasedOnce' /\ OneTakesDown'
  BY <1>2, <1>3, <1>4 DEF ResetUnique, CountsMatch, ReleasedOnce, OneTakesDown
<1>7. NoUseAfterFree' /\ NoLeak' /\ UniqueIsAlone' /\ NotYetReleased'
  BY <1>1, <1>2, <1>3 DEF ResetUnique, Becomes, PointerTypeOK, NoUseAfterFree, NoLeak,
     UniqueIsAlone, NotYetReleased
<1> QED BY <1>5, <1>6, <1>7

\* The decrement of reset_: the last strong pointer deletes the object if no
\* weak one is left, or releases its resources.
LEMMA ResetDecrementKeeps ==
  ASSUME CountsInv, NEW p \in Pointer, ResetDecrement(p)
  PROVE  CountsInv'
<1> USE DEF CountsInv, PointersSound
<1>1. p \in StrongRefs
  BY DEF ResetDecrement, StrongRefs
<1>2. /\ object = "alive" /\ Deleting = {} /\ Ending = {} /\ releases = 0
      /\ strong = Cardinality(StrongRefs) /\ weak = Cardinality(WeakRefs) + 1
  BY <1>1, WhileStrong
<1>3. StrongRefs' = StrongRefs \ {p} /\ WeakRefs' = WeakRefs
  BY DEF ResetDecrement, AfterDecrement, Becomes, PointerTypeOK, StrongRefs, WeakRefs
<1>4. /\ Cardinality(StrongRefs') = Cardinality(StrongRefs) - 1
      /\ Cardinality(StrongRefs') \in Nat
      /\ Cardinality(StrongRefs') = 0 <=> StrongRefs' = {}
      /\ Cardinality(WeakRefs) \in Nat
      /\ Cardinality(WeakRefs) = 0 => WeakRefs = {}
  BY <1>1, <1>3, RefSets, Counting
<1>5. PointerTypeOK'
  BY <1>2, <1>4 DEF ResetDecrement, AfterDecrement, Becomes, PointerTypeOK, Doings
<1>6. UniqueIsAlone'
  BY DEF ResetDecrement, AfterDecrement, Becomes, PointerTypeOK, UniqueIsAlone
<1>7. /\ object' = object /\ releases' = releases /\ weak' = weak /\ strong' = strong - 1
      /\ holds' = [holds EXCEPT ![p] = AfterDecrement(strong', weak)]
  BY DEF ResetDecrement, Becomes
<1>8. strong' = Cardinality(StrongRefs') /\ strong' \in Nat
  BY <1>2, <1>4, <1>7
<1>9. weak = 1 => WeakRefs = {}
  BY <1>2, <1>4
<1>10. CASE strong' > 0
  <2>1. AfterDecrement(strong', weak) = "none"
    BY <1>10 DEF AfterDecrement
  <2>2. Ending' = {} /\ Deleting' = {} /\ StrongRefs' # {}
    BY <1>2, <1>4, <1>7, <1>10, <2>1 DEF PointerTypeOK, Ending, Deleting
  <2>3. CountsMatch' /\ ReleasedOnce' /\ OneTakesDown'
    BY <1>2, <1>3, <1>4, <1>7, <2>2 DEF CountsMatch, ReleasedOnce, OneTakesDown
  <2>4. NoUseAfterFree' /\ NoLeak' /\ NotYetReleased'
    BY <1>2, <1>7, <2>2 DEF NoUseAfterFree, NoLeak, NotYetReleased, StrongRefs
  <2> QED BY <1>5, <1>6, <2>3, <2>4
<1>11. CASE strong' = 0 /\ weak = 1
  <2>1. AfterDecrement(strong', weak) = "delete"
    BY <1>11 DEF AfterDecrement
  <2>2. StrongRefs' = {} /\ WeakRefs' = {}
    BY <1>3, <1>4, <1>11, <1>8, <1>9
  <2>3. Ending' = {} /\ Deleting' = {p}
    BY <1>2, <1>7, <2>1 DEF PointerTypeOK, Ending, Deleting
  <2>4. holds' \in [Pointer -> Doings] /\ \A q \in Pointer : q # p => holds'[q] = "none"
    BY <1>5, <2>2, <2>3 DEF PointerTypeOK, Doings, StrongRefs, WeakRefs, Ending, Deleting
  <2>5. CountsMatch' /\ ReleasedOnce' /\ OneTakesDown'
    BY <1>2, <1>4, <1>7, <2>2, <2>3 DEF CountsMatch, ReleasedOnce, OneTakesDown
  <2>6. NoUseAfterFree' /\ NoLeak' /\ NotYetReleased'
    BY <1>2, <1>7, <2>3, <2>4 DEF NoUseAfterFree, NoLeak, NotYetReleased, Deleting
  <2> QED BY <1>5, <1>6, <2>5, <2>6
<1>12. CASE strong' = 0 /\ weak # 1
  <2>1. AfterDecrement(strong', weak) = "release"
    BY <1>12 DEF AfterDecrement
  <2>2. StrongRefs' = {}
    BY <1>2, <1>4, <1>7, <1>12
  <2>3. Ending' = {p} /\ Deleting' = {} /\ holds'[p] = "release"
    BY <1>2, <1>7, <2>1 DEF PointerTypeOK, Ending, Deleting
  <2>4. CountsMatch' /\ ReleasedOnce' /\ OneTakesDown'
    BY <1>2, <1>3, <1>4, <1>7, <2>2, <2>3 DEF CountsMatch, ReleasedOnce, OneTakesDown
  <2>5. NoUseAfterFree' /\ NoLeak' /\ NotYetReleased'
    BY <1>2, <1>7, <2>3 DEF NoUseAfterFree, NoLeak, NotYetReleased
  <2> QED BY <1>5, <1>6, <2>4, <2>5
<1> QED BY <1>10, <1>11, <1>12, <1>8

\* release_resources(), by the one pointer that takes the object down.
LEMMA ReleaseKeeps ==
  ASSUME CountsInv, NEW p \in Pointer, ReleaseResources(p)
  PROVE  CountsInv'
<1> USE DEF CountsInv, PointersSound
<1>1. /\ StrongRefs' = StrongRefs /\ WeakRefs' = WeakRefs
      /\ Ending' = Ending /\ Deleting' = Deleting /\ p \in Ending
  BY DEF ReleaseResources, Becomes, PointerTypeOK, StrongRefs, WeakRefs, Ending, Deleting
<1>2. releases' = 1 /\ StrongRefs = {}
  BY <1>1 DEF ReleaseResources, NotYetReleased, OneTakesDown
<1>3. PointerTypeOK'
  BY DEF ReleaseResources, Becomes, PointerTypeOK, Doings
<1>4. CountsMatch' /\ ReleasedOnce' /\ OneTakesDown'
  BY <1>1, <1>2 DEF ReleaseResources, CountsMatch, ReleasedOnce, OneTakesDown
<1>5. NoUseAfterFree' /\ NoLeak' /\ UniqueIsAlone'
  BY <1>1 DEF ReleaseResources, Becomes, PointerTypeOK, NoUseAfterFree, NoLeak, UniqueIsAlone, Deleting
<1>6. NotYetReleased'
  BY <1>1, <1>2 DEF ReleaseResources, Becomes, PointerTypeOK, NotYetReleased, OneTakesDown, Ending
<1> QED BY <1>3, <1>4, <1>5, <1>6

\* A weak reference goes, or the strong pointers' own: the last one deletes.
LEMMA WeakDecrementKeeps ==
  ASSUME CountsInv, NEW p \in Pointer, WeakDecrement(p)
  PROVE  CountsInv'
<1> USE DEF CountsInv, PointersSound
<1>1. p \in WeakRefs \cup Ending /\ p \notin StrongRefs
  BY DEF WeakDecrement, StrongRefs, WeakRefs, Ending
<1>2. /\ object = "alive" /\ Deleting = {}
      /\ weak = Cardinality(WeakRefs) + (IF StrongRefs \cup Ending # {} THEN 1 ELSE 0)
  BY <1>1 DEF NoUseAfterFree, CountsMatch, WeakRefs, Ending, Deleting
<1>3. /\ object' = object /\ releases' = releases /\ strong' = strong /\ weak' = weak - 1
      /\ holds' = [holds EXCEPT ![p] = AfterWeak(weak')]
      /\ AfterWeak(weak') \in {"none", "delete"}
  BY DEF WeakDecrement, Becomes, AfterWeak
<1>4. StrongRefs' = StrongRefs /\ WeakRefs' = WeakRefs \ {p} /\ Ending' = Ending \ {p}
  BY <1>1, <1>3 DEF PointerTypeOK, StrongRefs, WeakRefs, Ending
<1>5. weak' = Cardinality(WeakRefs') + (IF StrongRefs' \cup Ending' # {} THEN 1 ELSE 0)
  <2>1. CASE p \in WeakRefs
    <3>1. Cardinality(WeakRefs') = Cardinality(WeakRefs) - 1
      BY <1>4, <2>1, RefSets, Counting
    <3>2. p \notin Ending
      BY <2>1 DEF WeakRefs, Ending
    <3>3. Cardinality(WeakRefs) \in Nat
      BY RefSets, Counting
    <3> QED BY <1>2, <1>3, <1>4, <3>1, <3>2, <3>3
  <2>2. CASE p \in Ending
    <3>1. WeakRefs' = WeakRefs
      BY <1>4, <2>2 DEF WeakRefs, Ending
    <3>2. StrongRefs = {} /\ Ending \ {p} = {}
      BY <2>2 DEF OneTakesDown
    <3>3. Cardinality(WeakRefs) \in Nat
      BY RefSets, Counting
    <3>4. StrongRefs' \cup Ending' = {} /\ StrongRefs \cup Ending # {}
      BY <1>4, <2>2, <3>2
    <3>5. weak = Cardinality(WeakRefs) + 1
      BY <1>2, <3>4
    <3> QED BY <1>3, <3>1, <3>3, <3>4, <3>5
  <2> QED BY <1>1, <2>1, <2>2
<1>6. /\ weak' \in Nat
      /\ StrongRefs' \cup Ending' # {} => weak' > 0
      /\ weak' = 0 => WeakRefs' = {} /\ StrongRefs' = {} /\ Ending' = {}
  <2>1. Cardinality(WeakRefs') \in Nat /\ (Cardinality(WeakRefs') = 0 => WeakRefs' = {})
    BY <1>4, RefSets, Counting
  <2> QED BY <1>5, <2>1
<1>7. PointerTypeOK'
  <2>1. holds' \in [Pointer -> Doings]
    BY <1>3 DEF PointerTypeOK, Doings
  <2> QED BY <1>6, <2>1 DEF WeakDecrement, PointerTypeOK
<1>8. CountsMatch' /\ ReleasedOnce'
  BY <1>3, <1>4, <1>5, <1>6 DEF CountsMatch, ReleasedOnce
<1>9. NotYetReleased'
  BY <1>3 DEF PointerTypeOK, NotYetReleased
<1>10. UniqueIsAlone'
  BY <1>3 DEF WeakDecrement, PointerTypeOK, UniqueIsAlone
<1>11. CASE weak' = 0
  <2>1. AfterWeak(weak') = "delete"
    BY <1>11 DEF AfterWeak
  <2>2. Deleting' = {p}
    BY <1>2, <1>3, <2>1 DEF PointerTypeOK, Deleting
  <2>3. \A q \in Pointer : q # p => holds'[q] = "none"
    BY <1>6, <1>7, <1>11, <2>2 DEF PointerTypeOK, Doings, StrongRefs, WeakRefs, Ending, Deleting
  <2>4. NoUseAfterFree' /\ NoLeak' /\ OneTakesDown'
    BY <1>2, <1>3, <1>6, <1>11, <2>2, <2>3 DEF NoUseAfterFree, NoLeak, OneTakesDown, Deleting
  <2> QED BY <1>7, <1>8, <1>9, <1>10, <2>4
<1>12. CASE weak' # 0
  <2>1. AfterWeak(weak') = "none"
    BY <1>12 DEF AfterWeak
  <2>2. Deleting' = {}
    BY <1>2, <1>3, <2>1 DEF PointerTypeOK, Deleting
  <2>3. NoUseAfterFree' /\ OneTakesDown'
    BY <1>2, <1>3, <1>4, <2>2 DEF NoUseAfterFree, OneTakesDown
  <2>4. NoLeak'
    <3>1. WeakRefs' # {} \/ StrongRefs' \cup Ending' # {}
      <4> SUFFICES ASSUME WeakRefs' = {}, StrongRefs' \cup Ending' = {}
                   PROVE  FALSE
        OBVIOUS
      <4>1. Cardinality(WeakRefs') = 0
        BY FS_EmptySet
      <4> QED BY <1>5, <1>12, <4>1
    <3> QED BY <3>1 DEF NoLeak, WeakRefs, StrongRefs, Ending
  <2> QED BY <1>7, <1>8, <1>9, <1>10, <2>3, <2>4
<1> QED BY <1>11, <1>12

\* The delete leaves no pointer behind.
LEMMA DeleteKeeps ==
  ASSUME CountsInv, NEW p \in Pointer, Delete(p)
  PROVE  CountsInv'
<1> USE DEF CountsInv, PointersSound
<1>1. \A q \in Pointer : q # p => holds[q] = "none"
  BY DEF Delete, NoUseAfterFree, Deleting
<1>2. /\ StrongRefs' = {} /\ WeakRefs' = {} /\ Ending' = {} /\ Deleting' = {}
      /\ StrongRefs = {} /\ \A q \in Pointer : holds'[q] = "none"
  BY <1>1 DEF Delete, Becomes, PointerTypeOK, StrongRefs, WeakRefs, Ending, Deleting
<1>3. PointerTypeOK'
  BY DEF Delete, Becomes, PointerTypeOK, Doings
<1>4. CountsMatch' /\ ReleasedOnce' /\ OneTakesDown'
  BY <1>2 DEF Delete, CountsMatch, ReleasedOnce, OneTakesDown
<1>5. NoUseAfterFree' /\ NoLeak' /\ UniqueIsAlone' /\ NotYetReleased'
  BY <1>2 DEF Delete, NoUseAfterFree, NoLeak, UniqueIsAlone, NotYetReleased
<1> QED BY <1>3, <1>4, <1>5

\* lock() of a weak pointer up to its swap: the count is read, and read again.
LEMMA LockReadKeeps ==
  ASSUME CountsInv, NEW p \in Pointer, LockLoad(p) \/ LockFails(p) \/ LockRetries(p)
  PROVE  CountsInv'
<1> USE DEF CountsInv, PointersSound
<1>1. /\ UNCHANGED <<strong, weak, object, releases>>
      /\ seen' \in [Pointer -> Nat \X Nat]
      /\ p \in WeakRefs
      /\ \E h \in {"weak", "locking"} : holds' = [holds EXCEPT ![p] = h]
  BY DEF LockLoad, LockFails, LockRetries, Becomes, PointerTypeOK, WeakRefs
<1>2. PICK h \in {"weak", "locking"} : holds' = [holds EXCEPT ![p] = h]
  BY <1>1
<1>3. /\ StrongRefs' = StrongRefs /\ WeakRefs' = WeakRefs
      /\ Ending' = Ending /\ Deleting' = Deleting
  BY <1>1, <1>2 DEF PointerTypeOK, StrongRefs, WeakRefs, Ending, Deleting
<1>4. PointerTypeOK'
  BY <1>1, <1>2 DEF PointerTypeOK, Doings
<1>5. CountsMatch' /\ ReleasedOnce' /\ OneTakesDown'
  BY <1>1, <1>3 DEF CountsMatch, ReleasedOnce, OneTakesDown
<1>6. holds[p] # "none" /\ \A q \in Pointer : q # p => holds'[q] = holds[q]
  BY <1>1, <1>2 DEF PointerTypeOK, WeakRefs
<1>7. NoUseAfterFree' /\ NoLeak' /\ UniqueIsAlone' /\ NotYetReleased'
  BY <1>1, <1>2, <1>3, <1>6 DEF PointerTypeOK, NoUseAfterFree, NoLeak, UniqueIsAlone,
     NotYetReleased, Deleting
<1> QED BY <1>4, <1>5, <1>7

\* The swap of lock(): the count that was read is still there, so a strong
\* pointer still is, and the object was not given up.
LEMMA LockSwapsKeeps ==
  ASSUME CountsInv, NEW p \in Pointer, NEW q \in Pointer, LockSwaps(p, q)
  PROVE  CountsInv'
<1> USE DEF CountsInv, PointersSound
<1>1. strong # 0 /\ p # q
  BY DEF LockSwaps, Unchanged
<1>2. StrongRefs # {}
  BY <1>1, FS_EmptySet DEF CountsMatch
<1>3. /\ object = "alive" /\ Deleting = {} /\ Ending = {} /\ releases = 0
      /\ strong = Cardinality(StrongRefs) /\ weak = Cardinality(WeakRefs) + 1
  BY <1>2, WhileStrong
<1>4. /\ StrongRefs' = StrongRefs \cup {q} /\ WeakRefs' = WeakRefs
      /\ Ending' = {} /\ Deleting' = {} /\ q \notin StrongRefs
  BY <1>1, <1>3 DEF LockSwaps, PointerTypeOK, StrongRefs, WeakRefs, Ending, Deleting
<1>5. Cardinality(StrongRefs') = Cardinality(StrongRefs) + 1
  BY <1>4, RefSets, Counting
<1>6. PointerTypeOK'
  BY DEF LockSwaps, PointerTypeOK, Doings
<1>7. CountsMatch' /\ ReleasedOnce' /\ OneTakesDown'
  BY <1>3, <1>4, <1>5, RefSets, Counting DEF LockSwaps, CountsMatch, ReleasedOnce, OneTakesDown
<1>8. NoUseAfterFree' /\ NoLeak'
  BY <1>3, <1>4 DEF LockSwaps, PointerTypeOK, NoUseAfterFree, NoLeak
<1>9. UniqueIsAlone' /\ NotYetReleased'
  BY <1>1, <1>3 DEF LockSwaps, PointerTypeOK, UniqueIsAlone, NotYetReleased
<1> QED BY <1>6, <1>7, <1>8, <1>9

\* Every step of every pointer keeps the invariant.
LEMMA CountsStep == CountsInv /\ [INext]_ivars => CountsInv'
<1> SUFFICES ASSUME CountsInv, [INext]_ivars PROVE CountsInv'
  OBVIOUS
<1>1. CASE UNCHANGED ivars
  BY <1>1 DEF ivars, CountsInv, PointersSound, PointerTypeOK, CountsMatch, NoUseAfterFree, NoLeak,
     ReleasedOnce, OneTakesDown, UniqueIsAlone, NotYetReleased, StrongRefs, WeakRefs, Ending, Deleting
<1>2. ASSUME NEW p \in Pointer,
             \/ MakeIntrusive(p) \/ ResetLoad(p) \/ ResetUnique(p) \/ ResetDecrement(p)
             \/ ReleaseResources(p) \/ WeakDecrement(p) \/ Delete(p)
             \/ LockLoad(p) \/ LockFails(p) \/ LockRetries(p)
      PROVE  CountsInv'
  BY <1>2, MakeKeeps, ResetLoadKeeps, ResetUniqueKeeps, ResetDecrementKeeps, ReleaseKeeps,
     WeakDecrementKeeps, DeleteKeeps, LockReadKeeps
<1>3. ASSUME NEW p \in Pointer, NEW q \in Pointer,
             CopyStrong(p, q) \/ CopyWeak(p, q) \/ Move(p, q) \/ LockSwaps(p, q)
      PROVE  CountsInv'
  BY <1>3, CopyStrongKeeps, CopyWeakKeeps, MoveKeeps, LockSwapsKeeps
<1> QED BY <1>1, <1>2, <1>3 DEF INext

\* However many threads copy, move, reset and lock pointers to one object,
\* its counts match the pointers, nobody uses it after it was deleted, it is
\* deleted when the last pointer goes, and release_resources() runs at most
\* once and after the last strong pointer.
THEOREM PointersAreSound == ISpec => []PointersSound
<1>1. CountsInv => PointersSound
  BY DEF CountsInv
<1> QED BY <1>1, CountsInit, CountsStep, PTL DEF ISpec

\* "Once refcount == 0, it can never again be > 0": no copy and no lock()
\* revives an object whose last strong pointer is gone.
THEOREM NeverRevived == ISpec => [][object = "alive" /\ strong = 0 => strong' = 0]_ivars
<1>1. ASSUME CountsInv, [INext]_ivars, object = "alive", strong = 0
      PROVE  strong' = 0
  <2>1. StrongRefs = {}
    BY <1>1, RefSets, Counting DEF CountsInv, PointersSound, CountsMatch
  <2>2. ASSUME NEW p \in Pointer PROVE holds[p] \notin {"strong", "unique", "shared"}
    BY <2>1 DEF StrongRefs
  <2>3. ASSUME NEW p \in Pointer,
               \/ MakeIntrusive(p) \/ ResetLoad(p) \/ ResetUnique(p) \/ ResetDecrement(p)
               \/ ReleaseResources(p) \/ WeakDecrement(p) \/ Delete(p)
               \/ LockLoad(p) \/ LockFails(p) \/ LockRetries(p)
        PROVE  strong' = 0
    BY <1>1, <2>2, <2>3 DEF MakeIntrusive, ResetLoad, ResetUnique, ResetDecrement,
       ReleaseResources, WeakDecrement, Delete, LockLoad, LockFails, LockRetries
  <2>4. ASSUME NEW p \in Pointer, NEW q \in Pointer,
               CopyStrong(p, q) \/ CopyWeak(p, q) \/ Move(p, q) \/ LockSwaps(p, q)
        PROVE  strong' = 0
    BY <1>1, <2>2, <2>4 DEF CopyStrong, CopyWeak, Move, LockSwaps, Unchanged
  <2> QED BY <1>1, <2>3, <2>4 DEF INext, ivars
<1> QED BY <1>1, CountsInit, CountsStep, PTL DEF ISpec

-----------------------------------------------------------------------------
(***************************************************************************)
(* The per-thread queues are never read where nothing was written and      *)
(* never lose a block that is in use, they have one consumer, and a session*)
(* leaves nothing behind for the next one, for every number of sessions and*)
(* threads, every program and block size.                                  *)
(***************************************************************************)

(***************************************************************************)
(* The inductive invariant                                                 *)
(***************************************************************************)

\* What a queue is when its producer is between two pushes, and when it has
\* written a slot and not yet published it: the end block is the one that
\* the next write goes to.
QueueFields(q) ==
  /\ q = [slot |-> q.slot, start |-> q.start, end |-> q.end, first |-> q.first, last |-> q.last]
  /\ q.start \in Nat /\ q.end \in Nat /\ q.first \in Nat /\ q.last \in Nat

Drainable(q) ==
  /\ q.start <= q.end
  /\ \A i \in q.start..(q.end - 1) : i \in DOMAIN q.slot
  /\ q.first * kNumSlots <= q.start /\ q.start < (q.first + 1) * kNumSlots

Published(q) == /\ QueueFields(q) /\ Drainable(q)
                /\ q.last * kNumSlots <= q.end /\ q.end < (q.last + 1) * kNumSlots

Written(q) == /\ QueueFields(q) /\ Drainable(q)
              /\ q.end \in DOMAIN q.slot
              /\ q.last * kNumSlots <= q.end + 1 /\ q.end + 1 < (q.last + 1) * kNumSlots

QueueInv == \A p \in Producer : IF producer[p].pc = "publishing" THEN Written(queue[p]) ELSE Published(queue[p])

ProducerFields(r) ==
  r = [pc |-> r.pc, kind |-> r.kind, id |-> r.id, time |-> r.time, run |-> r.run, n |-> r.n]

Stages == {"idle", "stamp", "cas", "register", "clear", "pool", "gpu", "running", "off", "unregister",
           "consume", "poolstop", "collect", "release"}

SessionFields(s) ==
  /\ s = [pc |-> s.pc, todo |-> s.todo, cur |-> s.cur, end |-> s.end, begun |-> s.begun, ends |-> s.ends,
          out |-> s.out, ts |-> s.ts, host |-> s.host, pool |-> s.pool, failing |-> s.failing, n |-> s.n]
  /\ s.pc \in Stages
  /\ s.todo \subseteq Producer /\ s.cur \in Producer \cup {None} /\ s.end \in Nat
  /\ s.pc \notin {"clear", "consume"} => s.cur = None
  /\ s.failing => s.pc \in {"off", "unregister", "consume", "poolstop", "release"}
  /\ s.host \in BOOLEAN /\ s.failing \in BOOLEAN

RegistryOK ==
  /\ registry = [live |-> registry.live, dead |-> registry.dead, recording |-> registry.recording]
  /\ registry.live \subseteq Producer /\ registry.dead \subseteq Producer /\ registry.recording \in BOOLEAN

TraceTypeOK ==
  /\ program \in Programs
  /\ level \in {0, 1} /\ collector \in BOOLEAN
  /\ RegistryOK
  /\ queue = [p \in Producer |-> queue[p]]
  /\ producer = [p \in Producer |-> producer[p]] /\ \A p \in Producer : ProducerFields(producer[p])
  /\ session = [c \in Session |-> session[c]] /\ \A c \in Session : SessionFields(session[c])
  /\ lock \in Session \cup {None} /\ current \in Session \cup {None}

\* The lock is held from Acquire to Release, so that where the one busy
\* session stands tells the state of the recorder.
LockHeld == \A c \in Session : session[c].pc # "idle" <=> lock = c

holder == IF lock = None THEN Closed ELSE session[lock]

RecorderAt(s) ==
  IF program.preactive
  THEN /\ level = 1 /\ s.pc \in {"idle", "stamp", "cas", "pool", "gpu", "release"}
       /\ s.pc \in {"pool", "gpu"} => ~s.host
  ELSE /\ level = 1 <=> s.pc \in {"register", "clear", "pool", "gpu", "running", "off"}
       /\ registry.recording <=> s.pc \in {"clear", "pool", "gpu", "running", "off", "unregister"}
       /\ ~registry.recording => registry.dead = {}
       /\ level = 1 => s.host
       /\ collector => s.pc \in {"gpu", "running", "off", "unregister", "consume", "poolstop"}

CurrentAt(s) ==
  current # None => /\ lock = current /\ ~s.failing
                    /\ s.pc \in {"running", "off", "unregister", "consume", "poolstop", "collect"}

\* clear() reads end_ once: the queue still reaches that far when it pops.
ClearBounded ==
  \A c \in Session : (session[c].pc = "clear" /\ session[c].cur # None) =>
                        /\ queue[session[c].cur].start <= session[c].end
                        /\ session[c].end <= queue[session[c].cur].end

TraceInv == TraceTypeOK /\ QueueInv /\ LockHeld /\ RecorderAt(holder) /\ CurrentAt(holder) /\ ClearBounded

(***************************************************************************)
(* Queues                                                                  *)
(***************************************************************************)

\* Blocks follow each other without a gap.
LEMMA BlockAfter ==
  ASSUME NEW a \in Nat
  PROVE  a * kNumSlots \in Nat /\ (a + 1) * kNumSlots = a * kNumSlots + kNumSlots
BY SlotsAssumption

LEMMA BlockOrder ==
  ASSUME NEW a \in Nat, NEW b \in Nat, a * kNumSlots < (b + 1) * kNumSlots
  PROVE  a <= b
<1>. SUFFICES ASSUME b + 1 <= a PROVE FALSE
  OBVIOUS
<1>1. PICK d \in Nat : a = (b + 1) + d
  <2>. WITNESS a - (b + 1) \in Nat
  <2>. QED OBVIOUS
<1>2. a * kNumSlots = (b + 1) * kNumSlots + d * kNumSlots
  BY <1>1, SlotsAssumption
<1>3. d * kNumSlots \in Nat /\ (b + 1) * kNumSlots \in Nat
  BY BlockAfter
<1>. QED BY <1>2, <1>3

LEMMA NewIsPublished == Published(NewQueue) /\ NewQueue.start = 0 /\ NewQueue.end = 0
BY SlotsAssumption DEF NewQueue, Published, QueueFields, Drainable

LEMMA WriteIsWritten ==
  ASSUME NEW q, NEW e, Published(q)
  PROVE  Written(write(q, e)) /\ write(q, e).start = q.start /\ write(q, e).end = q.end
<1>. DEFINE w == write(q, e)
<1>1. QueueFields(q) /\ Drainable(q) /\ q.last * kNumSlots <= q.end /\ q.end < (q.last + 1) * kNumSlots
  BY DEF Published
<1>2. /\ w.start = q.start /\ w.end = q.end /\ w.first = q.first
      /\ w.last = IF q.end + 1 - q.last * kNumSlots = kNumSlots THEN q.last + 1 ELSE q.last
      /\ DOMAIN w.slot = DOMAIN q.slot \cup {q.end}
      /\ w = [slot |-> w.slot, start |-> w.start, end |-> w.end, first |-> w.first, last |-> w.last]
  <2>. DEFINE filled == [i \in DOMAIN q.slot \cup {q.end} |-> IF i = q.end THEN e ELSE q.slot[i]]
              next == IF q.end + 1 - q.last * kNumSlots = kNumSlots THEN q.last + 1 ELSE q.last
  <2>0. DOMAIN filled = DOMAIN q.slot \cup {q.end}
    OBVIOUS
  <2>1. w = [q EXCEPT !.slot = filled, !.last = next]
    BY DEF write
  <2>. HIDE DEF filled, next, w
  <2>2. w = [slot |-> filled, start |-> q.start, end |-> q.end, first |-> q.first, last |-> next]
    BY <1>1, <2>1 DEF QueueFields
  <2>3. /\ w.start = q.start /\ w.end = q.end /\ w.first = q.first /\ w.last = next /\ w.slot = filled
        /\ w = [slot |-> w.slot, start |-> w.start, end |-> w.end, first |-> w.first, last |-> w.last]
    BY <2>2
  <2>. QED BY <2>0, <2>3 DEF next
<1>. HIDE DEF w
<1>3. QueueFields(w)
  BY <1>1, <1>2 DEF QueueFields
<1>4. Drainable(w)
  BY <1>1, <1>2 DEF Drainable, QueueFields
<1>5. w.last * kNumSlots <= w.end + 1 /\ w.end + 1 < (w.last + 1) * kNumSlots
  <2>. DEFINE b == q.last * kNumSlots
  <2>1. q.last \in Nat /\ q.end \in Nat /\ b \in Nat /\ (q.last + 1) * kNumSlots = b + kNumSlots
        /\ (q.last + 2) * kNumSlots = b + kNumSlots + kNumSlots
    BY <1>1, SlotsAssumption DEF QueueFields
  <2>. HIDE DEF b
  <2>2. CASE q.end + 1 - b = kNumSlots
    <3>1. w.last = q.last + 1 /\ w.last + 1 = q.last + 2
      BY <2>1, <2>2, <1>2 DEF b
    <3>. QED BY <3>1, <2>1, <2>2, <1>2, SlotsAssumption
  <2>3. CASE q.end + 1 - b # kNumSlots
    <3>1. w.last = q.last
      BY <2>3, <1>2 DEF b
    <3>2. b <= q.end /\ q.end < b + kNumSlots
      BY <2>1, <1>1 DEF b
    <3>3. b <= q.end + 1 /\ q.end + 1 < b + kNumSlots
      <4>1. b \in Nat /\ q.end \in Nat /\ kNumSlots \in Nat
        BY <2>1, SlotsAssumption
      <4>. QED BY <3>2, <2>3, <4>1
    <3>. QED BY <3>1, <3>3, <2>1, <1>2 DEF b
  <2>. QED BY <2>2, <2>3
<1>. QED BY <1>2, <1>3, <1>4, <1>5 DEF Written, w

LEMMA SetEndIsPublished ==
  ASSUME NEW q, Written(q)
  PROVE  Published(set_end(q)) /\ set_end(q).start = q.start /\ set_end(q).end = q.end + 1
<1>. DEFINE w == set_end(q)
<1>1. /\ QueueFields(q) /\ Drainable(q) /\ q.end \in DOMAIN q.slot
      /\ q.last * kNumSlots <= q.end + 1 /\ q.end + 1 < (q.last + 1) * kNumSlots
  BY DEF Written
<1>2. /\ w.start = q.start /\ w.end = q.end + 1 /\ w.first = q.first /\ w.last = q.last /\ w.slot = q.slot
      /\ w = [slot |-> w.slot, start |-> w.start, end |-> w.end, first |-> w.first, last |-> w.last]
  BY <1>1 DEF set_end, QueueFields
<1>. HIDE DEF w
<1>3. QueueFields(w)
  BY <1>1, <1>2 DEF QueueFields
<1>4. Drainable(w)
  <2>1. \A i \in q.start..q.end : i \in DOMAIN q.slot
    BY <1>1 DEF Drainable, QueueFields
  <2>. QED BY <2>1, <1>1, <1>2 DEF Drainable, QueueFields
<1>. QED BY <1>1, <1>2, <1>3, <1>4 DEF Published, w

\* A pop keeps both forms: it does not touch what the producer uses.
LEMMA PopKeeps ==
  ASSUME NEW q, QueueFields(q), Drainable(q), q.start < q.end
  PROVE  /\ Published(q) => Published(pop_impl(q))
         /\ Written(q) => Written(pop_impl(q))
         /\ pop_impl(q).start = q.start + 1 /\ pop_impl(q).end = q.end
<1>. DEFINE w == pop_impl(q)
<1>1. /\ w.start = q.start + 1 /\ w.end = q.end /\ w.last = q.last
      /\ w.first = IF q.start + 1 - q.first * kNumSlots = kNumSlots THEN q.first + 1 ELSE q.first
      /\ DOMAIN w.slot = DOMAIN q.slot \ {q.start}
      /\ w = [slot |-> w.slot, start |-> w.start, end |-> w.end, first |-> w.first, last |-> w.last]
  <2>. DEFINE rest == [i \in DOMAIN q.slot \ {q.start} |-> q.slot[i]]
              next == IF q.start + 1 - q.first * kNumSlots = kNumSlots THEN q.first + 1 ELSE q.first
              from == q.start + 1
  <2>0. DOMAIN rest = DOMAIN q.slot \ {q.start}
    OBVIOUS
  <2>1. w = [q EXCEPT !.slot = rest, !.start = from, !.first = next]
    BY DEF pop_impl
  <2>. HIDE DEF rest, next, from, w
  <2>2. w = [slot |-> rest, start |-> from, end |-> q.end, first |-> next, last |-> q.last]
    BY <2>1 DEF QueueFields
  <2>3. /\ w.start = from /\ w.end = q.end /\ w.first = next /\ w.last = q.last /\ w.slot = rest
        /\ w = [slot |-> w.slot, start |-> w.start, end |-> w.end, first |-> w.first, last |-> w.last]
    BY <2>2
  <2>. QED BY <2>0, <2>3 DEF next, from
<1>. HIDE DEF w
<1>2. QueueFields(w)
  BY <1>1 DEF QueueFields
<1>3. w.first * kNumSlots <= w.start /\ w.start < (w.first + 1) * kNumSlots
  <2>. DEFINE b == q.first * kNumSlots
  <2>1. q.first \in Nat /\ q.start \in Nat /\ b \in Nat /\ (q.first + 1) * kNumSlots = b + kNumSlots
        /\ (q.first + 2) * kNumSlots = b + kNumSlots + kNumSlots
    BY SlotsAssumption DEF QueueFields
  <2>2. b <= q.start /\ q.start < b + kNumSlots
    BY <2>1 DEF Drainable, b
  <2>. HIDE DEF b
  <2>3. CASE q.start + 1 - b = kNumSlots
    <3>1. w.first = q.first + 1 /\ w.first + 1 = q.first + 2
      BY <2>1, <2>3, <1>1 DEF b
    <3>. QED BY <3>1, <2>1, <2>3, <1>1, SlotsAssumption
  <2>4. CASE q.start + 1 - b # kNumSlots
    <3>1. w.first = q.first
      BY <2>4, <1>1 DEF b
    <3>2. b <= q.start + 1 /\ q.start + 1 < b + kNumSlots
      BY <2>2, <2>4, <2>1, SlotsAssumption
    <3>. QED BY <3>1, <3>2, <2>1, <1>1 DEF b
  <2>. QED BY <2>3, <2>4
<1>4. Drainable(w)
  <2>1. w.start <= w.end /\ \A i \in w.start..(w.end - 1) : i \in q.start..(q.end - 1) /\ i # q.start
    BY <1>1 DEF QueueFields
  <2>. QED BY <2>1, <1>1, <1>3 DEF Drainable
<1>5. ASSUME Written(q) PROVE w.end \in DOMAIN w.slot
  BY <1>1, <1>5 DEF Written, QueueFields
<1>. QED BY <1>1, <1>2, <1>4, <1>5 DEF Published, Written, w

LEMMA InvariantIntact ==
  ASSUME NEW q, Published(q) \/ Written(q)
  PROVE  QueueIntactIn(q)
<1>1. QueueFields(q) /\ Drainable(q)
  BY DEF Published, Written
<1>2. q.end < (q.last + 1) * kNumSlots
  <2>1. CASE Published(q)
    BY <2>1 DEF Published
  <2>2. CASE Written(q)
    <3>1. (q.last + 1) * kNumSlots \in Nat
      BY <1>1, BlockAfter DEF QueueFields
    <3>. QED BY <3>1, <2>2 DEF Written, QueueFields
  <2>. QED BY <2>1, <2>2
<1>3. /\ q.first * kNumSlots \in Nat /\ (q.last + 1) * kNumSlots \in Nat
      /\ (q.first + 1) * kNumSlots \in Nat
  BY <1>1, BlockAfter DEF QueueFields
<1>4. q.first * kNumSlots < (q.last + 1) * kNumSlots
  BY <1>1, <1>2, <1>3 DEF QueueFields, Drainable
<1>5. q.first <= q.last
  BY <1>1, <1>4, BlockOrder DEF QueueFields
<1>. QED BY <1>1, <1>3, <1>5 DEF QueueIntactIn, QueueFields, Drainable

(***************************************************************************)
(* Traced threads                                                          *)
(***************************************************************************)
LEMMA NamesApart == None \notin Producer /\ None \notin Session
BY TraceAssumption DEF None

LEMMA TraceInit == TInit => TraceInv
<1>. SUFFICES ASSUME TInit PROVE TraceInv
  OBVIOUS
<1>1. \A c \in Session : session[c] = Closed
  BY DEF TInit
<1>2. SessionFields(Closed) /\ Closed.pc = "idle"
  BY DEF Closed, SessionFields, Stages
<1>3. \A p \in Producer : producer[p] = Inactive /\ queue[p] = NewQueue
  BY DEF TInit
<1>4. ProducerFields(Inactive) /\ Inactive.pc = "idle"
  BY DEF Inactive, ProducerFields
<1>5. program \in Programs /\ program.preactive \in BOOLEAN
  BY TraceAssumption DEF TInit
<1>6. /\ registry.live = {} /\ registry.dead = {} /\ registry.recording = program.preactive
      /\ registry = [live |-> registry.live, dead |-> registry.dead, recording |-> registry.recording]
      /\ level = IF program.preactive THEN 1 ELSE 0
      /\ lock = None /\ current = None /\ collector = FALSE
  BY DEF TInit
<1>7. TraceTypeOK
  BY <1>1, <1>2, <1>3, <1>4, <1>5, <1>6 DEF TInit, TraceTypeOK, RegistryOK
<1>8. QueueInv
  BY <1>3, <1>4, NewIsPublished DEF QueueInv
<1>9. LockHeld
  BY <1>1, <1>2, <1>6, NamesApart DEF LockHeld
<1>10. RecorderAt(holder)
  BY <1>5, <1>6 DEF RecorderAt, holder, Closed
<1>11. CurrentAt(holder) /\ ClearBounded
  BY <1>1, <1>2, <1>6 DEF CurrentAt, ClearBounded
<1>. QED BY <1>7, <1>8, <1>9, <1>10, <1>11 DEF TraceInv

\* A step of a traced thread leaves the sessions where they are. What it owes
\* them: it does not move the consumer's index, its own index only grows, and
\* a recorder is kept behind only while a session records.
LEMMA ThreadStepKeeps ==
  ASSUME TraceInv, UNCHANGED <<program, sessionVars>>, TraceTypeOK', QueueInv',
         registry'.recording = registry.recording,
         ~registry'.recording => registry'.dead = registry.dead,
         \A p \in Producer : queue'[p].start = queue[p].start /\ queue'[p].end >= queue[p].end
  PROVE  TraceInv'
<1>1. /\ level' = level /\ lock' = lock /\ current' = current /\ collector' = collector
      /\ session' = session /\ program' = program
  BY DEF sessionVars
<1>2. LockHeld' /\ CurrentAt(holder)'
  BY <1>1 DEF TraceInv, LockHeld, CurrentAt, holder
<1>3. RecorderAt(holder)'
  BY <1>1 DEF TraceInv, RecorderAt, holder
<1>4. ClearBounded'
  <2>. SUFFICES ASSUME NEW c \in Session, session[c].pc = "clear", session[c].cur # None
                PROVE  /\ queue'[session[c].cur].start <= session[c].end
                       /\ session[c].end <= queue'[session[c].cur].end
    BY <1>1 DEF ClearBounded
  <2>. DEFINE p == session[c].cur
  <2>1. p \in Producer /\ session[c].end \in Nat
    BY DEF TraceInv, TraceTypeOK, RegistryOK, SessionFields
  <2>2. queue[p].start <= session[c].end /\ session[c].end <= queue[p].end
    BY DEF TraceInv, ClearBounded
  <2>3. QueueFields(queue[p]) /\ QueueFields(queue'[p])
    BY <2>1 DEF TraceInv, QueueInv, Published, Written
  <2>. QED BY <2>1, <2>2, <2>3 DEF QueueFields
<1>. QED BY <1>2, <1>3, <1>4 DEF TraceInv

LEMMA IndexesAreNumbers ==
  QueueInv => \A p \in Producer : QueueFields(queue[p]) /\ queue[p].start \in Nat /\ queue[p].end \in Nat
BY DEF QueueInv, Published, Written, QueueFields

\* The steps that only change what the thread itself is doing.
LEMMA OwnStepKeeps ==
  ASSUME TraceInv, UNCHANGED <<program, sessionVars, queue>>, NEW p \in Producer,
         NEW r, producer' = [producer EXCEPT ![p] = r], ProducerFields(r),
         r.pc # "publishing", producer[p].pc # "publishing",
         registry' = registry
  PROVE  TraceInv'
<1>1. TraceTypeOK /\ QueueInv
  BY DEF TraceInv
<1>2. /\ level' = level /\ lock' = lock /\ current' = current /\ collector' = collector
      /\ session' = session /\ program' = program /\ queue' = queue
  BY DEF sessionVars
<1>3. /\ \A o \in Producer : producer'[o] = IF o = p THEN r ELSE producer[o]
      /\ producer' = [o \in Producer |-> producer'[o]]
  BY <1>1 DEF TraceTypeOK, RegistryOK
<1>4. TraceTypeOK'
  BY <1>1, <1>2, <1>3 DEF TraceTypeOK, RegistryOK
<1>5. QueueInv'
  BY <1>1, <1>2, <1>3 DEF QueueInv
<1>6. \A o \in Producer : queue'[o].start = queue[o].start /\ queue'[o].end >= queue[o].end
  BY <1>1, <1>2, IndexesAreNumbers
<1>. QED BY <1>2, <1>4, <1>5, <1>6, ThreadStepKeeps

LEMMA ProducerKeeps ==
  ASSUME TraceInv, NEW p \in Producer, ProducerStep(p), UNCHANGED program
  PROVE  TraceInv'
<1>1. TraceTypeOK /\ QueueInv /\ ProducerFields(producer[p])
  BY DEF TraceInv, TraceTypeOK, RegistryOK
<1>2. ProducerFields(Inactive) /\ Inactive.pc = "idle"
  BY DEF Inactive, ProducerFields
<1>3. ASSUME NEW kind \in program.kinds, Begin(p, kind) PROVE TraceInv'
  <2>. DEFINE id == <<p, producer[p].n>>
              n == producer[p].n + 1
              r == [Inactive EXCEPT !.pc = "checked", !.kind = kind, !.n = n, !.id = id]
  <2>1. /\ producer' = [producer EXCEPT ![p] = r] /\ producer[p].pc = "idle"
        /\ UNCHANGED <<program, sessionVars, queue>> /\ registry' = registry
    BY <1>3 DEF Begin
  <2>. HIDE DEF id, n
  <2>2. r = [Inactive EXCEPT !.pc = "checked", !.kind = kind, !.n = n, !.id = id]
    OBVIOUS
  <2>. HIDE DEF r
  <2>3. ProducerFields(r) /\ r.pc = "checked"
    BY <1>2, <2>2 DEF ProducerFields
  <2>. QED BY <2>1, <2>3, OwnStepKeeps
<1>4. ASSUME NEW id \in activities, ActivityEnd(p, id) PROVE TraceInv'
  <2>1. /\ producer[p].pc = "idle"
        /\ UNCHANGED <<program, sessionVars, queue>> /\ registry' = registry
    BY <1>4 DEF ActivityEnd
  <2>2. CASE level > 0
    <3>. DEFINE at == IF Running # {} THEN clock ELSE 0
                r == [producer[p] EXCEPT !.pc = "recording", !.kind = "end", !.id = id, !.run = at]
    <3>1. producer' = [producer EXCEPT ![p] = r]
      BY <1>4, <2>2 DEF ActivityEnd
    <3>. HIDE DEF at
    <3>2. r = [producer[p] EXCEPT !.pc = "recording", !.kind = "end", !.id = id, !.run = at]
      OBVIOUS
    <3>. HIDE DEF r
    <3>3. ProducerFields(r) /\ r.pc = "recording"
      BY <1>1, <3>2 DEF ProducerFields
    <3>. QED BY <2>1, <3>1, <3>3, OwnStepKeeps
  <2>3. CASE ~(level > 0)
    <3>1. producer' = [producer EXCEPT ![p] = producer[p]]
      BY <1>1, <1>4, <2>3 DEF ActivityEnd, TraceTypeOK, RegistryOK
    <3>. QED BY <1>1, <2>1, <3>1, OwnStepKeeps
  <2>. QED BY <2>2, <2>3
<1>5. CASE Stamp(p)
  <2>. DEFINE at == IF Running # {} THEN clock ELSE 0
              pc == IF producer[p].kind = "complete" THEN "open" ELSE "recording"
              r == [producer[p] EXCEPT !.pc = pc, !.time = clock, !.run = at]
  <2>1. /\ producer[p].pc = "checked" /\ UNCHANGED <<program, sessionVars, queue>> /\ registry' = registry
        /\ producer' = [producer EXCEPT ![p].pc = pc, ![p].time = clock, ![p].run = at]
        /\ pc # "publishing"
    BY <1>5 DEF Stamp
  <2>. HIDE DEF at, pc
  <2>2. producer' = [producer EXCEPT ![p] = r]
    BY <1>1, <2>1 DEF TraceTypeOK, RegistryOK
  <2>3. r = [producer[p] EXCEPT !.pc = pc, !.time = clock, !.run = at]
    OBVIOUS
  <2>. HIDE DEF r
  <2>4. ProducerFields(r) /\ r.pc # "publishing"
    BY <1>1, <2>1, <2>3 DEF ProducerFields
  <2>. QED BY <2>1, <2>2, <2>4, OwnStepKeeps
<1>6. CASE Close(p)
  <2>. DEFINE r == [producer[p] EXCEPT !.pc = IF level > 0 THEN "recording" ELSE "idle"]
  <2>1. /\ producer[p].pc = "open" /\ UNCHANGED <<program, sessionVars, queue>> /\ registry' = registry
        /\ producer' = [producer EXCEPT ![p] = r]
    BY <1>1, <1>6 DEF Close, TraceTypeOK, RegistryOK
  <2>2. ProducerFields(r) /\ r.pc # "publishing"
    BY <1>1 DEF ProducerFields
  <2>. HIDE DEF r
  <2>. QED BY <2>1, <2>2, OwnStepKeeps
<1>7. CASE Register(p)
  <2>1. /\ UNCHANGED <<program, sessionVars, queue, producer>> /\ registry'.live = registry.live \cup {p}
        /\ registry'.dead = registry.dead /\ registry'.recording = registry.recording
        /\ registry' = [live |-> registry'.live, dead |-> registry'.dead, recording |-> registry'.recording]
    BY <1>1, <1>7 DEF Register, TraceTypeOK, RegistryOK
  <2>2. TraceTypeOK'
    BY <1>1, <2>1 DEF TraceTypeOK, RegistryOK, sessionVars
  <2>3. QueueInv'
    BY <1>1, <2>1 DEF QueueInv
  <2>4. \A o \in Producer : queue'[o].start = queue[o].start /\ queue'[o].end >= queue[o].end
    BY <1>1, <2>1, IndexesAreNumbers
  <2>. QED BY <2>1, <2>2, <2>3, <2>4, ThreadStepKeeps
<1>8. CASE Push(p)
  <2>. DEFINE e == [id |-> producer[p].id, kind |-> producer[p].kind, time |-> producer[p].time]
              r == [producer[p] EXCEPT !.pc = "publishing"]
              w == write(queue[p], e)
  <2>1. /\ producer[p].pc = "recording" /\ UNCHANGED <<program, sessionVars, registry>>
        /\ producer' = [producer EXCEPT ![p] = r] /\ queue' = [queue EXCEPT ![p] = w]
    BY <1>1, <1>8 DEF Push, TraceTypeOK, RegistryOK
  <2>2. ProducerFields(r) /\ r.pc = "publishing"
    BY <1>1 DEF ProducerFields
  <2>3. Published(queue[p])
    BY <1>1, <2>1 DEF QueueInv
  <2>4. Written(w) /\ w.start = queue[p].start /\ w.end = queue[p].end
    BY <2>3, WriteIsWritten
  <2>. HIDE DEF e, r, w
  <2>5. /\ \A o \in Producer : /\ producer'[o] = IF o = p THEN r ELSE producer[o]
                               /\ queue'[o] = IF o = p THEN w ELSE queue[o]
        /\ producer' = [o \in Producer |-> producer'[o]] /\ queue' = [o \in Producer |-> queue'[o]]
    BY <1>1, <2>1 DEF TraceTypeOK, RegistryOK
  <2>6. TraceTypeOK'
    BY <1>1, <2>1, <2>2, <2>5 DEF TraceTypeOK, RegistryOK, sessionVars
  <2>7. QueueInv'
    BY <1>1, <2>2, <2>4, <2>5 DEF QueueInv
  <2>8. \A o \in Producer : queue'[o].start = queue[o].start /\ queue'[o].end >= queue[o].end
    BY <1>1, <2>4, <2>5, IndexesAreNumbers
  <2>. QED BY <2>1, <2>6, <2>7, <2>8, ThreadStepKeeps
<1>9. CASE PushEnd(p)
  <2>. DEFINE r == [Inactive EXCEPT !.n = producer[p].n]
              w == set_end(queue[p])
  <2>1. /\ producer[p].pc = "publishing" /\ UNCHANGED <<program, sessionVars, registry>>
        /\ producer' = [producer EXCEPT ![p] = r] /\ queue' = [queue EXCEPT ![p] = w]
    BY <1>1, <1>9 DEF PushEnd, TraceTypeOK, RegistryOK
  <2>2. ProducerFields(r) /\ r.pc = "idle"
    BY <1>2 DEF ProducerFields, Inactive
  <2>3. Written(queue[p])
    BY <1>1, <2>1 DEF QueueInv
  <2>4. Published(w) /\ w.start = queue[p].start /\ w.end = queue[p].end + 1
    BY <2>3, SetEndIsPublished
  <2>. HIDE DEF r, w
  <2>5. /\ \A o \in Producer : /\ producer'[o] = IF o = p THEN r ELSE producer[o]
                               /\ queue'[o] = IF o = p THEN w ELSE queue[o]
        /\ producer' = [o \in Producer |-> producer'[o]] /\ queue' = [o \in Producer |-> queue'[o]]
    BY <1>1, <2>1 DEF TraceTypeOK, RegistryOK
  <2>6. TraceTypeOK'
    BY <1>1, <2>1, <2>2, <2>5 DEF TraceTypeOK, RegistryOK, sessionVars
  <2>7. QueueInv'
    BY <1>1, <2>2, <2>4, <2>5 DEF QueueInv
  <2>8. \A o \in Producer : queue'[o].start = queue[o].start /\ queue'[o].end >= queue[o].end
    BY <1>1, <2>4, <2>5, IndexesAreNumbers
  <2>. QED BY <2>1, <2>6, <2>7, <2>8, ThreadStepKeeps
<1>10. CASE Exit(p)
  <2>. DEFINE r == [Inactive EXCEPT !.pc = "exited"]
  <2>1. /\ producer[p].pc = "idle" /\ UNCHANGED <<program, sessionVars, queue>>
        /\ producer' = [producer EXCEPT ![p] = r] /\ registry' = Unregister(p)
    BY <1>10 DEF Exit
  <2>2. ProducerFields(r) /\ r.pc = "exited"
    BY DEF ProducerFields, Inactive
  <2>. HIDE DEF r
  <2>3. /\ registry'.live = registry.live \ {p}
        /\ registry'.dead = (IF registry.recording THEN registry.dead \cup {p} ELSE registry.dead)
        /\ registry'.recording = registry.recording
        /\ registry' = [live |-> registry'.live, dead |-> registry'.dead, recording |-> registry'.recording]
    BY <1>1, <2>1 DEF Unregister, TraceTypeOK, RegistryOK
  <2>4. /\ \A o \in Producer : producer'[o] = IF o = p THEN r ELSE producer[o]
        /\ producer' = [o \in Producer |-> producer'[o]]
    BY <1>1, <2>1 DEF TraceTypeOK, RegistryOK
  <2>5. TraceTypeOK'
    BY <1>1, <2>1, <2>2, <2>3, <2>4 DEF TraceTypeOK, RegistryOK, sessionVars
  <2>6. QueueInv'
    BY <1>1, <2>1, <2>2, <2>4 DEF QueueInv
  <2>7. \A o \in Producer : queue'[o].start = queue[o].start /\ queue'[o].end >= queue[o].end
    BY <1>1, <2>1, IndexesAreNumbers
  <2>. QED BY <2>1, <2>3, <2>5, <2>6, <2>7, ThreadStepKeeps
<1>. QED BY <1>3, <1>4, <1>5, <1>6, <1>7, <1>8, <1>9, <1>10 DEF ProducerStep

(***************************************************************************)
(* Sessions                                                                *)
(***************************************************************************)
LEMMA BusyHolds ==
  ASSUME TraceInv, NEW c \in Session, session[c].pc # "idle"
  PROVE  lock = c /\ RecorderAt(session[c]) /\ CurrentAt(session[c])
<1>1. lock = c
  BY DEF TraceInv, LockHeld
<1>2. holder = session[c]
  BY <1>1, NamesApart DEF holder
<1>. QED BY <1>1, <1>2 DEF TraceInv

\* A step of the one busy session c, which it leaves as r. It is enough to
\* know that the recorder and the current session agree with r, and that the
\* queues are as they should be.
LEMMA SessionStepKeeps ==
  ASSUME TraceInv, NEW c \in Session, NEW r, SessionFields(r),
         session' = [session EXCEPT ![c] = r],
         lock \in {None, c}, lock' = IF r.pc = "idle" THEN None ELSE c,
         r.pc = "idle" => ~r.host /\ ~r.failing,
         UNCHANGED <<program, producer>>,
         RegistryOK', level' \in {0, 1}, collector' \in BOOLEAN, current' \in Session \cup {None},
         queue' = [p \in Producer |-> queue'[p]], QueueInv',
         RecorderAt(r)', CurrentAt(r)',
         (r.pc = "clear" /\ r.cur # None) => queue'[r.cur].start <= r.end /\ r.end <= queue'[r.cur].end
  PROVE  TraceInv'
<1>1. TraceTypeOK /\ LockHeld
  BY DEF TraceInv
<1>2. /\ \A d \in Session : session'[d] = IF d = c THEN r ELSE session[d]
      /\ session' = [d \in Session |-> session'[d]]
  BY <1>1 DEF TraceTypeOK
<1>3. TraceTypeOK'
  BY <1>1, <1>2 DEF TraceTypeOK
<1>4. \A d \in Session \ {c} : session[d].pc = "idle"
  BY <1>1, NamesApart DEF LockHeld
<1>5. LockHeld'
  BY <1>2, <1>4, NamesApart DEF LockHeld
<1>6. RecorderAt(holder)' /\ CurrentAt(holder)'
  <2>1. CASE r.pc = "idle"
    <3>1. holder' = Closed
      BY <2>1 DEF holder
    <3>2. Closed.pc = "idle" /\ Closed.host = FALSE /\ Closed.failing = FALSE
      BY DEF Closed
    <3>3. RecorderAt(Closed)'
      BY <2>1, <3>2 DEF RecorderAt
    <3>4. CurrentAt(Closed)'
      BY <2>1, <3>2 DEF CurrentAt
    <3>. QED BY <3>1, <3>3, <3>4 DEF RecorderAt, CurrentAt
  <2>2. CASE r.pc # "idle"
    <3>1. holder' = r
      BY <1>2, <2>2, NamesApart DEF holder
    <3>. QED BY <3>1 DEF RecorderAt, CurrentAt
  <2>. QED BY <2>1, <2>2
<1>7. ClearBounded'
  BY <1>2, <1>4 DEF ClearBounded
<1>. QED BY <1>3, <1>5, <1>6, <1>7 DEF TraceInv

\* The steps that leave the queues alone.
LEMMA QuietStepKeeps ==
  ASSUME TraceInv, NEW c \in Session, NEW r, SessionFields(r),
         session' = [session EXCEPT ![c] = r],
         lock \in {None, c}, lock' = IF r.pc = "idle" THEN None ELSE c,
         r.pc = "idle" => ~r.host /\ ~r.failing,
         UNCHANGED <<program, producer, queue>>,
         RegistryOK', level' \in {0, 1}, collector' \in BOOLEAN, current' \in Session \cup {None},
         RecorderAt(r)', CurrentAt(r)', r.pc # "clear" \/ r.cur = None
  PROVE  TraceInv'
<1>1. queue' = [p \in Producer |-> queue'[p]] /\ QueueInv'
  BY DEF TraceInv, TraceTypeOK, QueueInv
<1>. QED BY <1>1, SessionStepKeeps

LEMMA StartKeeps ==
  ASSUME TraceInv, NEW c \in Session, Start(c), UNCHANGED program
  PROVE  TraceInv'
<1>1. PICK n : n = session[c].n + 1
  OBVIOUS
<1>2. PICK r : r = [Closed EXCEPT !.pc = "stamp", !.n = n]
  OBVIOUS
<1>3. /\ session' = [session EXCEPT ![c] = r] /\ lock = None /\ lock' = c
      /\ UNCHANGED <<level, registry, queue, producer, current, collector>>
  BY <1>1, <1>2 DEF Start, Acquire, producerVars
<1>4. /\ SessionFields(Closed) /\ Closed.pc = "idle"
      /\ Closed.host = FALSE /\ Closed.failing = FALSE /\ Closed.cur = None
  BY DEF Closed, SessionFields, Stages
<1>5. SessionFields(r) /\ r.pc = "stamp" /\ r.host = FALSE /\ r.failing = FALSE
  BY <1>2, <1>4 DEF SessionFields, Stages
<1>6. RecorderAt(r)'
  <2>1. RecorderAt(Closed)
    BY <1>3 DEF TraceInv, holder
  <2>. QED BY <1>3, <1>4, <1>5, <2>1 DEF RecorderAt
<1>7. current' = None
  BY <1>3, NamesApart DEF TraceInv, TraceTypeOK, CurrentAt
<1>8. CurrentAt(r)'
  BY <1>7 DEF CurrentAt
<1>9. RegistryOK' /\ level' \in {0, 1} /\ collector' \in BOOLEAN
  BY <1>3 DEF TraceInv, TraceTypeOK, RegistryOK
<1>. QED BY <1>3, <1>5, <1>6, <1>7, <1>8, <1>9, QuietStepKeeps

LEMMA PopStepKeeps ==
  ASSUME QueueInv, queue = [p \in Producer |-> queue[p]], NEW p \in Producer, queue[p].start < queue[p].end,
         queue' = [queue EXCEPT ![p] = pop_impl(@)], UNCHANGED producer
  PROVE  /\ QueueInv' /\ queue' = [o \in Producer |-> queue'[o]]
         /\ queue'[p].start = queue[p].start + 1 /\ queue'[p].end = queue[p].end
<1>1. /\ \A o \in Producer : queue'[o] = IF o = p THEN pop_impl(queue[p]) ELSE queue[o]
      /\ queue' = [o \in Producer |-> queue'[o]]
  OBVIOUS
<1>2. QueueFields(queue[p]) /\ Drainable(queue[p])
  BY DEF QueueInv, Published, Written
<1>3. /\ Published(queue[p]) => Published(pop_impl(queue[p]))
      /\ Written(queue[p]) => Written(pop_impl(queue[p]))
      /\ pop_impl(queue[p]).start = queue[p].start + 1 /\ pop_impl(queue[p]).end = queue[p].end
  BY <1>2, PopKeeps
<1>. QED BY <1>1, <1>3 DEF QueueInv

\* Sorting an event changes only what has been collected so far.
LEMMA SortedKeeps ==
  ASSUME NEW s, NEW e, SessionFields(s)
  PROVE  /\ SessionFields(Sorted(s, e)) /\ Sorted(s, e).pc = s.pc
         /\ Sorted(s, e).host = s.host /\ Sorted(s, e).failing = s.failing
<1>. DEFINE Same(t) == SessionFields(t) /\ t.pc = s.pc /\ t.host = s.host /\ t.failing = s.failing
<1>1. ASSUME NEW v, NEW t, t = [s EXCEPT !.begun = v] PROVE Same(t)
  BY <1>1 DEF SessionFields
<1>2. ASSUME NEW v, NEW t, t = [s EXCEPT !.ends = v] PROVE Same(t)
  BY <1>2 DEF SessionFields
<1>3. ASSUME NEW v, NEW t, t = [s EXCEPT !.out = v] PROVE Same(t)
  BY <1>3 DEF SessionFields
<1>4. ASSUME NEW v, NEW w, NEW t, t = [s EXCEPT !.out = v, !.begun = w] PROVE Same(t)
  BY <1>4 DEF SessionFields
<1>. HIDE DEF Same
<1>5. CASE e.kind = "start"
  <2>1. Sorted(s, e) = [s EXCEPT !.begun = [i \in DOMAIN @ \cup {e.id} |-> IF i = e.id THEN e.time ELSE @[i]]]
    BY <1>5 DEF Sorted
  <2>. QED BY <1>1, <2>1 DEF Same
<1>6. CASE e.kind = "end" /\ e.id \in DOMAIN s.begun
  <2>1. Sorted(s, e) = [s EXCEPT !.out = @ \cup {[id |-> e.id, time |-> s.begun[e.id]]},
                                 !.begun = [i \in DOMAIN @ \ {e.id} |-> @[i]]]
    BY <1>6 DEF Sorted, Merged
  <2>2. PICK v : v = s.out \cup {[id |-> e.id, time |-> s.begun[e.id]]}
    OBVIOUS
  <2>3. PICK w : w = [i \in DOMAIN s.begun \ {e.id} |-> s.begun[i]]
    OBVIOUS
  <2>4. Sorted(s, e) = [s EXCEPT !.out = v, !.begun = w]
    BY <2>1, <2>2, <2>3
  <2>5. Same(Sorted(s, e))
    BY <1>4, <2>4
  <2>. QED BY <2>5 DEF Same
<1>7. CASE e.kind = "end" /\ e.id \notin DOMAIN s.begun
  <2>1. Sorted(s, e) = [s EXCEPT !.ends = @ \cup {e.id}]
    BY <1>7 DEF Sorted
  <2>. QED BY <1>2, <2>1 DEF Same
<1>8. CASE e.kind # "start" /\ e.kind # "end"
  <2>1. Sorted(s, e) = [s EXCEPT !.out = @ \cup {[id |-> e.id, time |-> e.time]}]
    BY <1>8 DEF Sorted
  <2>. QED BY <1>3, <2>1 DEF Same
<1>. QED BY <1>5, <1>6, <1>7, <1>8

LEMMA SessionKeeps ==
  ASSUME TraceInv, NEW c \in Session, Stop(c) \/ SessionStep(c), UNCHANGED program
  PROVE  TraceInv'
<1>1. TraceTypeOK /\ RegistryOK /\ QueueInv /\ SessionFields(session[c]) /\ session = [d \in Session |-> session[d]]
  BY DEF TraceInv, TraceTypeOK
<1>2. session[c].pc # "idle"
  BY DEF Stop, SessionStep, HostStamp, RecorderStart, StartRecording, Clear, PoolStart, GpuStart, RecorderStop,
         StopRecording, Consume, PoolStop, Collect, Release
<1>3. lock = c /\ RecorderAt(session[c]) /\ CurrentAt(session[c])
  BY <1>2, BusyHolds
<1>4. level \in {0, 1} /\ collector \in BOOLEAN /\ current \in Session \cup {None}
  BY <1>1 DEF TraceTypeOK
<1>5. CASE Stop(c)
  <2>1. PICK r : r = [session[c] EXCEPT !.pc = "off"]
    OBVIOUS
  <2>2. /\ session' = [session EXCEPT ![c] = r]
        /\ UNCHANGED <<level, registry, queue, producer, lock, current, collector>>
    BY <1>1, <1>5, <2>1 DEF Stop, Goto, producerVars
  <2>3. SessionFields(r) /\ r.pc = "off" /\ r.host = session[c].host /\ r.failing = session[c].failing
    BY <1>1, <1>5, <2>1 DEF SessionFields, Stages, Stop, Goto, producerVars
  <2>4. RecorderAt(r)'
    BY <1>1, <1>3, <1>4, <1>5, <2>2, <2>3 DEF RecorderAt, Stop, Goto, producerVars
  <2>5. CurrentAt(r)'
    BY <1>3, <1>4, <1>5, <2>2, <2>3 DEF CurrentAt, Stop, Goto, producerVars
  <2>6. RegistryOK' /\ level' \in {0, 1} /\ collector' \in BOOLEAN /\ current' \in Session \cup {None}
    BY <1>1, <1>4, <2>2 DEF RegistryOK
  <2>. QED BY <1>3, <2>2, <2>3, <2>4, <2>5, <2>6, QuietStepKeeps
<1>6. CASE HostStamp(c)
  <2>1. PICK r : r = [session[c] EXCEPT !.ts = clock', !.pc = "cas"]
    OBVIOUS
  <2>2. /\ session' = [session EXCEPT ![c] = r]
        /\ UNCHANGED <<level, registry, queue, producer, lock, current, collector>>
    BY <1>1, <1>6, <2>1 DEF HostStamp, producerVars
  <2>3. SessionFields(r) /\ r.pc = "cas" /\ r.host = session[c].host /\ r.failing = session[c].failing
    BY <1>1, <1>6, <2>1 DEF SessionFields, Stages, HostStamp, producerVars
  <2>4. RecorderAt(r)'
    BY <1>1, <1>3, <1>4, <1>6, <2>2, <2>3 DEF RecorderAt, HostStamp, producerVars
  <2>5. CurrentAt(r)'
    BY <1>3, <1>4, <1>6, <2>2, <2>3 DEF CurrentAt, HostStamp, producerVars
  <2>6. RegistryOK' /\ level' \in {0, 1} /\ collector' \in BOOLEAN /\ current' \in Session \cup {None}
    BY <1>1, <1>4, <2>2 DEF RegistryOK
  <2>. QED BY <1>3, <2>2, <2>3, <2>4, <2>5, <2>6, QuietStepKeeps
<1>7. CASE RecorderStart(c)
  <2>1. PICK r : r = [session[c] EXCEPT !.host = (level = 0), !.pc = IF level = 0 THEN "register" ELSE "pool"]
    OBVIOUS
  <2>2. /\ session' = [session EXCEPT ![c] = r]
        /\ UNCHANGED <<registry, queue, producer, lock, current, collector>>
        /\ level' = 1
    BY <1>1, <1>7, <2>1 DEF RecorderStart, producerVars
  <2>3. /\ SessionFields(r) /\ r.pc = (IF level = 0 THEN "register" ELSE "pool")
        /\ r.host = (level = 0) /\ r.failing = session[c].failing
    BY <1>1, <1>7, <2>1 DEF SessionFields, Stages, RecorderStart, producerVars
  <2>4. RecorderAt(r)'
    <3>1. CASE program.preactive
      <4>1. level = 1
        BY <1>3, <3>1 DEF RecorderAt
      <4>0. level # 0
        BY <4>1
      <4>2. r.pc = "pool"
        BY <2>3, <4>0
      <4>3. ~r.host
        BY <2>3, <4>0, Zenon
      <4>. QED BY <3>1, <2>2, <4>2, <4>3 DEF RecorderAt
    <3>2. CASE ~program.preactive
      <4>1. session[c].pc = "cas"
        BY <1>7 DEF RecorderStart
      <4>2. level = 0
        BY <1>3, <1>4, <3>2, <4>1 DEF RecorderAt
      <4>3. r.pc = "register" /\ r.host = TRUE
        BY <2>3, <4>2
      <4>. QED BY <1>3, <3>2, <2>2, <4>1, <4>3 DEF RecorderAt
    <3>. QED BY <3>1, <3>2
  <2>5. CurrentAt(r)'
    BY <1>3, <1>4, <1>7, <2>2, <2>3 DEF CurrentAt, RecorderStart, producerVars
  <2>6. RegistryOK' /\ level' \in {0, 1} /\ collector' \in BOOLEAN /\ current' \in Session \cup {None}
    BY <1>1, <1>4, <2>2 DEF RegistryOK
  <2>. QED BY <1>3, <2>2, <2>3, <2>4, <2>5, <2>6, QuietStepKeeps
<1>8. CASE StartRecording(c)
  <2>0. PICK all \in SUBSET Producer : all = registry.live \cup registry.dead
    BY <1>1 DEF RegistryOK
  <2>1. PICK r : r = [session[c] EXCEPT !.todo = all, !.pc = "clear"]
    OBVIOUS
  <2>2. /\ session' = [session EXCEPT ![c] = r]
        /\ UNCHANGED <<level, queue, producer, lock, current, collector>>
        /\ registry' = [registry EXCEPT !.recording = TRUE]
    BY <1>1, <1>8, <2>0, <2>1 DEF StartRecording, producerVars
  <2>3. SessionFields(r) /\ r.pc = "clear" /\ r.cur = None /\ r.host = session[c].host /\ r.failing = session[c].failing
    BY <1>1, <1>8, <2>1 DEF SessionFields, Stages, StartRecording, producerVars
  <2>7. /\ registry'.live = registry.live /\ registry'.dead = registry.dead /\ registry'.recording = TRUE
        /\ registry' = [live |-> registry'.live, dead |-> registry'.dead, recording |-> registry'.recording]
    BY <1>1, <2>2 DEF RegistryOK
  <2>4. RecorderAt(r)'
    BY <1>1, <1>3, <1>4, <1>8, <2>2, <2>3, <2>7 DEF RecorderAt, StartRecording, producerVars
  <2>5. CurrentAt(r)'
    BY <1>3, <1>4, <1>8, <2>2, <2>3 DEF CurrentAt, StartRecording, producerVars
  <2>6. RegistryOK' /\ level' \in {0, 1} /\ collector' \in BOOLEAN /\ current' \in Session \cup {None}
    BY <1>1, <1>4, <2>2, <2>7 DEF RegistryOK
  <2>. QED BY <1>3, <2>2, <2>3, <2>4, <2>5, <2>6, QuietStepKeeps
<1>9. CASE PoolStart(c)
  <2>1. PICK r : r = [session[c] EXCEPT !.pool = ~collector, !.pc = "gpu"]
    OBVIOUS
  <2>2. /\ session' = [session EXCEPT ![c] = r]
        /\ UNCHANGED <<level, registry, queue, producer, lock, current>>
        /\ collector' = TRUE
    BY <1>1, <1>9, <2>1 DEF PoolStart, producerVars
  <2>3. SessionFields(r) /\ r.pc = "gpu" /\ r.host = session[c].host /\ r.failing = session[c].failing
    BY <1>1, <1>9, <2>1 DEF SessionFields, Stages, PoolStart, producerVars
  <2>4. RecorderAt(r)'
    BY <1>1, <1>3, <1>4, <1>9, <2>2, <2>3 DEF RecorderAt, PoolStart, producerVars
  <2>5. CurrentAt(r)'
    BY <1>3, <1>4, <1>9, <2>2, <2>3 DEF CurrentAt, PoolStart, producerVars
  <2>6. RegistryOK' /\ level' \in {0, 1} /\ collector' \in BOOLEAN /\ current' \in Session \cup {None}
    BY <1>1, <1>4, <2>2 DEF RegistryOK
  <2>. QED BY <1>3, <2>2, <2>3, <2>4, <2>5, <2>6, QuietStepKeeps
<1>10. CASE RecorderStop(c)
  <2>1. PICK r : r = [session[c] EXCEPT !.pc = "unregister"]
    OBVIOUS
  <2>2. /\ session' = [session EXCEPT ![c] = r]
        /\ UNCHANGED <<registry, queue, producer, lock, current, collector>>
        /\ level' = 0
    BY <1>1, <1>10, <2>1 DEF RecorderStop, Goto, producerVars
  <2>3. SessionFields(r) /\ r.pc = "unregister" /\ r.host = session[c].host /\ r.failing = session[c].failing
    BY <1>1, <1>10, <2>1 DEF SessionFields, Stages, RecorderStop, Goto, producerVars
  <2>4. RecorderAt(r)'
    BY <1>1, <1>3, <1>4, <1>10, <2>2, <2>3 DEF RecorderAt, RecorderStop, Goto, producerVars
  <2>5. CurrentAt(r)'
    BY <1>3, <1>4, <1>10, <2>2, <2>3 DEF CurrentAt, RecorderStop, Goto, producerVars
  <2>6. RegistryOK' /\ level' \in {0, 1} /\ collector' \in BOOLEAN /\ current' \in Session \cup {None}
    BY <1>1, <1>4, <2>2 DEF RegistryOK
  <2>. QED BY <1>3, <2>2, <2>3, <2>4, <2>5, <2>6, QuietStepKeeps
<1>11. CASE StopRecording(c)
  <2>0. PICK all \in SUBSET Producer : all = registry.live \cup registry.dead
    BY <1>1 DEF RegistryOK
  <2>1. PICK r : r = [session[c] EXCEPT !.todo = all, !.pc = "consume"]
    OBVIOUS
  <2>2. /\ session' = [session EXCEPT ![c] = r]
        /\ UNCHANGED <<level, queue, producer, lock, current, collector>>
        /\ registry' = [registry EXCEPT !.dead = {}, !.recording = FALSE]
    BY <1>1, <1>11, <2>0, <2>1 DEF StopRecording, producerVars
  <2>3. SessionFields(r) /\ r.pc = "consume" /\ r.host = session[c].host /\ r.failing = session[c].failing
    BY <1>1, <1>11, <2>1 DEF SessionFields, Stages, StopRecording, producerVars
  <2>7. /\ registry'.live = registry.live /\ registry'.dead = {} /\ registry'.recording = FALSE
        /\ registry' = [live |-> registry'.live, dead |-> registry'.dead, recording |-> registry'.recording]
    BY <1>1, <2>2 DEF RegistryOK
  <2>4. RecorderAt(r)'
    BY <1>1, <1>3, <1>4, <1>11, <2>2, <2>3, <2>7 DEF RecorderAt, StopRecording, producerVars
  <2>5. CurrentAt(r)'
    BY <1>3, <1>4, <1>11, <2>2, <2>3 DEF CurrentAt, StopRecording, producerVars
  <2>6. RegistryOK' /\ level' \in {0, 1} /\ collector' \in BOOLEAN /\ current' \in Session \cup {None}
    BY <1>1, <1>4, <2>2, <2>7 DEF RegistryOK
  <2>. QED BY <1>3, <2>2, <2>3, <2>4, <2>5, <2>6, QuietStepKeeps
<1>12. CASE PoolStop(c)
  <2>1. PICK r : r = [session[c] EXCEPT !.pc = IF session[c].failing THEN "release" ELSE "collect"]
    OBVIOUS
  <2>2. /\ session' = [session EXCEPT ![c] = r]
        /\ UNCHANGED <<level, registry, queue, producer, lock, current>>
        /\ collector' = FALSE
    BY <1>1, <1>12, <2>1 DEF PoolStop, Goto, producerVars
  <2>3. SessionFields(r) /\ r.pc = (IF session[c].failing THEN "release" ELSE "collect") /\ r.host = session[c].host /\ r.failing = session[c].failing
    BY <1>1, <1>12, <2>1 DEF SessionFields, Stages, PoolStop, Goto, producerVars
  <2>4. RecorderAt(r)'
    BY <1>1, <1>3, <1>4, <1>12, <2>2, <2>3 DEF RecorderAt, PoolStop, Goto, producerVars
  <2>5. CurrentAt(r)'
    BY <1>3, <1>4, <1>12, <2>2, <2>3 DEF CurrentAt, PoolStop, Goto, producerVars
  <2>6. RegistryOK' /\ level' \in {0, 1} /\ collector' \in BOOLEAN /\ current' \in Session \cup {None}
    BY <1>1, <1>4, <2>2 DEF RegistryOK
  <2>. QED BY <1>3, <2>2, <2>3, <2>4, <2>5, <2>6, QuietStepKeeps
<1>13. CASE Collect(c)
  <2>1. PICK r : r = [session[c] EXCEPT !.pc = "release"]
    OBVIOUS
  <2>2. /\ session' = [session EXCEPT ![c] = r]
        /\ UNCHANGED <<level, registry, queue, producer, lock, collector>>
        /\ current' = uncurrent(c)
    BY <1>1, <1>13, <2>1 DEF Collect, Goto, producerVars
  <2>3. SessionFields(r) /\ r.pc = "release" /\ r.host = session[c].host /\ r.failing = session[c].failing
    BY <1>1, <1>13, <2>1 DEF SessionFields, Stages, Collect, Goto, producerVars
  <2>4. RecorderAt(r)'
    BY <1>1, <1>3, <1>4, <1>13, <2>2, <2>3 DEF RecorderAt, Collect, Goto, producerVars
  <2>5. CurrentAt(r)'
    BY <1>3, <1>4, <1>13, <2>2, <2>3 DEF CurrentAt, Collect, uncurrent
  <2>6. RegistryOK' /\ level' \in {0, 1} /\ collector' \in BOOLEAN /\ current' \in Session \cup {None}
    BY <1>1, <1>4, <2>2 DEF RegistryOK, uncurrent
  <2>. QED BY <1>3, <2>2, <2>3, <2>4, <2>5, <2>6, QuietStepKeeps
<1>14. CASE Release(c)
  <2>1. PICK r : r = [Closed EXCEPT !.n = session[c].n]
    OBVIOUS
  <2>2. /\ session' = [session EXCEPT ![c] = r]
        /\ UNCHANGED <<level, registry, queue, producer, current, collector>>
        /\ lock' = None
    BY <1>1, <1>14, <2>1 DEF Release, producerVars
  <2>3. SessionFields(r) /\ r.pc = "idle" /\ r.host = FALSE /\ r.failing = FALSE
    <3>1. SessionFields(Closed) /\ Closed.pc = "idle" /\ Closed.host = FALSE /\ Closed.failing = FALSE
      BY DEF Closed, SessionFields, Stages
    <3>. QED BY <3>1, <2>1 DEF SessionFields
  <2>4. RecorderAt(r)'
    BY <1>1, <1>3, <1>4, <1>14, <2>2, <2>3 DEF RecorderAt, Release, producerVars
  <2>5. CurrentAt(r)'
    BY <1>3, <1>4, <1>14, <2>2, <2>3 DEF CurrentAt, Release, producerVars
  <2>6. RegistryOK' /\ level' \in {0, 1} /\ collector' \in BOOLEAN /\ current' \in Session \cup {None}
    BY <1>1, <1>4, <2>2 DEF RegistryOK
  <2>. QED BY <1>3, <2>2, <2>3, <2>4, <2>5, <2>6, QuietStepKeeps

<1>15. CASE GpuStart(c)
  <2>1. session[c].pc = "gpu" /\ UNCHANGED <<level, registry, queue, producer, lock, collector>>
    BY <1>15 DEF GpuStart, producerVars
  <2>2. ~session[c].failing /\ current = None
    BY <1>1, <1>3, <2>1 DEF SessionFields, CurrentAt
  <2>3. RegistryOK' /\ level' \in {0, 1} /\ collector' \in BOOLEAN
    BY <1>1, <1>4, <2>1 DEF RegistryOK
  <2>4. CASE session[c].host /\ session' = [session EXCEPT ![c].pc = "running"] /\ current' = c
    <3>1. PICK r : r = [session[c] EXCEPT !.pc = "running"]
      OBVIOUS
    <3>2. session' = [session EXCEPT ![c] = r]
      BY <1>1, <2>4, <3>1
    <3>3. SessionFields(r) /\ r.pc = "running" /\ r.host = session[c].host /\ r.failing = session[c].failing
      BY <1>1, <2>1, <2>2, <3>1 DEF SessionFields, Stages
    <3>4. RecorderAt(r)'
      BY <1>1, <1>3, <1>4, <2>1, <2>4, <3>3 DEF RecorderAt
    <3>5. CurrentAt(r)'
      BY <1>3, <2>1, <2>2, <2>4, <3>3 DEF CurrentAt
    <3>. QED BY <1>3, <2>1, <2>3, <2>4, <3>2, <3>3, <3>4, <3>5, QuietStepKeeps
  <2>5. CASE session' = [session EXCEPT ![c].failing = TRUE, ![c].pc = Failed(c)] /\ current' = current
    <3>1. PICK r : r = [session[c] EXCEPT !.failing = TRUE, !.pc = Failed(c)]
      OBVIOUS
    <3>2. session' = [session EXCEPT ![c] = r]
      BY <1>1, <2>5, <3>1
    <3>3. SessionFields(r) /\ r.pc = (IF session[c].host THEN "off" ELSE "release") /\ r.host = session[c].host
      BY <1>1, <2>1, <2>2, <3>1 DEF SessionFields, Stages, Failed
    <3>4. RecorderAt(r)'
      BY <1>1, <1>3, <1>4, <2>1, <3>3 DEF RecorderAt
    <3>5. CurrentAt(r)'
      BY <2>2, <2>5 DEF CurrentAt
    <3>. QED BY <1>3, <1>4, <2>1, <2>3, <2>5, <3>2, <3>3, <3>4, <3>5, QuietStepKeeps
  <2>. QED BY <1>15, <2>4, <2>5 DEF GpuStart, Goto
<1>16. CASE Clear(c)
  <2>1. session[c].pc = "clear" /\ UNCHANGED <<level, registry, producer, lock, current, collector>>
    BY <1>16 DEF Clear, producerVars
  <2>2. RegistryOK' /\ level' \in {0, 1} /\ collector' \in BOOLEAN /\ current' \in Session \cup {None}
    BY <1>1, <1>4, <2>1 DEF RegistryOK
  <2>3. ASSUME NEW p \in session[c].todo, queue' = queue,
               session' = [session EXCEPT ![c].cur = p, ![c].todo = @ \ {p}, ![c].end = queue[p].end]
        PROVE  TraceInv'
    <3>1. PICK rest \in SUBSET Producer : rest = session[c].todo \ {p}
      BY <1>1 DEF SessionFields
    <3>2. PICK r : r = [session[c] EXCEPT !.cur = p, !.todo = rest, !.end = queue[p].end]
      OBVIOUS
    <3>3. session' = [session EXCEPT ![c] = r]
      BY <1>1, <2>3, <3>1, <3>2
    <3>4. p \in Producer /\ queue[p].start <= queue[p].end /\ queue[p].end \in Nat
      BY <1>1 DEF SessionFields, QueueInv, Published, Written, QueueFields, Drainable
    <3>5. SessionFields(r) /\ r.pc = "clear" /\ r.cur = p /\ r.end = queue[p].end
          /\ r.host = session[c].host /\ r.failing = session[c].failing
      BY <1>1, <2>1, <3>2, <3>4 DEF SessionFields
    <3>6. RecorderAt(r)' /\ CurrentAt(r)'
      BY <1>3, <2>1, <3>5 DEF RecorderAt, CurrentAt
    <3>7. queue' = [o \in Producer |-> queue'[o]] /\ QueueInv'
      BY <1>1, <2>1, <2>3 DEF TraceTypeOK, QueueInv
    <3>8. queue'[r.cur].start <= r.end /\ r.end <= queue'[r.cur].end
      BY <2>3, <3>4, <3>5
    <3>. QED BY <1>3, <2>1, <2>2, <3>3, <3>5, <3>6, <3>7, <3>8, SessionStepKeeps
  <2>4. CASE /\ session[c].cur # None /\ ~cleared(queue[session[c].cur], session[c].end)
             /\ queue' = [queue EXCEPT ![session[c].cur] = pop_impl(@)] /\ UNCHANGED session
    <3>1. PICK r : r = session[c]
      OBVIOUS
    <3>2. PICK p \in Producer : p = r.cur
      BY <1>1, <2>4, <3>1 DEF SessionFields
    <3>3. session' = [session EXCEPT ![c] = r]
      BY <1>1, <2>4, <3>1
    <3>4. SessionFields(r) /\ r.pc = "clear" /\ r.host = session[c].host /\ r.failing = session[c].failing
      BY <1>1, <2>1, <3>1
    <3>5. queue[p].start # r.end /\ queue[p].start <= r.end /\ r.end <= queue[p].end
      BY <2>1, <2>4, <3>1, <3>2 DEF TraceInv, ClearBounded, cleared
    <3>6. queue[p].start \in Nat /\ queue[p].end \in Nat /\ r.end \in Nat
      BY <1>1, <3>4, IndexesAreNumbers DEF SessionFields
    <3>7. queue' = [queue EXCEPT ![p] = pop_impl(@)] /\ queue = [o \in Producer |-> queue[o]]
          /\ queue[p].start < queue[p].end
      BY <1>1, <2>4, <3>1, <3>2, <3>5, <3>6 DEF TraceTypeOK
    <3>8. /\ QueueInv' /\ queue' = [o \in Producer |-> queue'[o]]
          /\ queue'[p].start = queue[p].start + 1 /\ queue'[p].end = queue[p].end
      BY <1>1, <2>1, <3>7, PopStepKeeps
    <3>9. queue'[r.cur].start <= r.end /\ r.end <= queue'[r.cur].end
      BY <3>2, <3>5, <3>6, <3>8
    <3>10. RecorderAt(r)' /\ CurrentAt(r)'
      BY <1>3, <2>1, <3>1 DEF RecorderAt, CurrentAt
    <3>. QED BY <1>3, <2>1, <2>2, <3>3, <3>4, <3>8, <3>9, <3>10, SessionStepKeeps
  <2>5. CASE session' = [session EXCEPT ![c].cur = None, ![c].end = 0] /\ UNCHANGED queue
    <3>1. PICK r : r = [session[c] EXCEPT !.cur = None, !.end = 0]
      OBVIOUS
    <3>2. session' = [session EXCEPT ![c] = r]
      BY <1>1, <2>5, <3>1
    <3>3. SessionFields(r) /\ r.pc = "clear" /\ r.cur = None
          /\ r.host = session[c].host /\ r.failing = session[c].failing
      BY <1>1, <2>1, <3>1 DEF SessionFields
    <3>4. RecorderAt(r)' /\ CurrentAt(r)'
      BY <1>3, <2>1, <3>3 DEF RecorderAt, CurrentAt
    <3>. QED BY <1>3, <2>1, <2>2, <2>5, <3>2, <3>3, <3>4, QuietStepKeeps
  <2>6. CASE session[c].cur = None /\ session' = [session EXCEPT ![c].pc = "pool"] /\ UNCHANGED queue
    <3>1. PICK r : r = [session[c] EXCEPT !.pc = "pool"]
      OBVIOUS
    <3>2. session' = [session EXCEPT ![c] = r]
      BY <1>1, <2>6, <3>1
    <3>3. SessionFields(r) /\ r.pc = "pool" /\ r.host = session[c].host /\ r.failing = session[c].failing
      BY <1>1, <2>1, <2>6, <3>1 DEF SessionFields, Stages
    <3>4. RecorderAt(r)' /\ CurrentAt(r)'
      BY <1>1, <1>3, <1>4, <2>1, <3>3 DEF RecorderAt, CurrentAt
    <3>. QED BY <1>3, <2>1, <2>2, <2>6, <3>2, <3>3, <3>4, QuietStepKeeps
  <2>. QED BY <1>16, <2>3, <2>4, <2>5, <2>6 DEF Clear, Goto
<1>17. CASE Consume(c)
  <2>1. session[c].pc = "consume" /\ UNCHANGED <<level, registry, producer, lock, current, collector>>
    BY <1>17 DEF Consume, producerVars
  <2>2. RegistryOK' /\ level' \in {0, 1} /\ collector' \in BOOLEAN /\ current' \in Session \cup {None}
    BY <1>1, <1>4, <2>1 DEF RegistryOK
  <2>3. ASSUME NEW p \in session[c].todo, queue' = queue,
               session' = [session EXCEPT ![c].cur = p, ![c].todo = @ \ {p}]
        PROVE  TraceInv'
    <3>1. PICK rest \in SUBSET Producer : rest = session[c].todo \ {p}
      BY <1>1 DEF SessionFields
    <3>2. PICK r : r = [session[c] EXCEPT !.cur = p, !.todo = rest]
      OBVIOUS
    <3>3. session' = [session EXCEPT ![c] = r]
      BY <1>1, <2>3, <3>1, <3>2
    <3>4. SessionFields(r) /\ r.pc = "consume" /\ r.host = session[c].host /\ r.failing = session[c].failing
      BY <1>1, <2>1, <3>2 DEF SessionFields
    <3>5. RecorderAt(r)' /\ CurrentAt(r)'
      BY <1>3, <2>1, <3>4 DEF RecorderAt, CurrentAt
    <3>. QED BY <1>3, <2>1, <2>2, <2>3, <3>3, <3>4, <3>5, QuietStepKeeps
  <2>4. CASE /\ session[c].cur # None /\ ~empty(queue[session[c].cur])
             /\ queue' = [queue EXCEPT ![session[c].cur] = pop_impl(@)]
             /\ session' = [session EXCEPT ![c] = Sorted(session[c],
                              queue[session[c].cur].slot[queue[session[c].cur].start])]
    <3>1. PICK p \in Producer : p = session[c].cur
      BY <1>1, <2>4 DEF SessionFields
    <3>2. PICK r : r = Sorted(session[c], queue[p].slot[queue[p].start])
      OBVIOUS
    <3>3. session' = [session EXCEPT ![c] = r]
      BY <2>4, <3>1, <3>2
    <3>4. SessionFields(r) /\ r.pc = "consume" /\ r.host = session[c].host /\ r.failing = session[c].failing
      BY <1>1, <2>1, <3>2, SortedKeeps
    <3>5. queue[p].start # queue[p].end /\ queue[p].start <= queue[p].end
      BY <1>1, <2>4, <3>1 DEF empty, QueueInv, Published, Written, Drainable
    <3>6. queue[p].start \in Nat /\ queue[p].end \in Nat
      BY <1>1, IndexesAreNumbers
    <3>7. queue' = [queue EXCEPT ![p] = pop_impl(@)]
      BY <2>4, <3>1
    <3>10. queue = [o \in Producer |-> queue[o]] /\ queue[p].start < queue[p].end
      BY <1>1, <3>5, <3>6 DEF TraceTypeOK
    <3>8. QueueInv' /\ queue' = [o \in Producer |-> queue'[o]]
      BY <1>1, <2>1, <3>7, <3>10, PopStepKeeps
    <3>9. RecorderAt(r)' /\ CurrentAt(r)'
      BY <1>3, <2>1, <3>4 DEF RecorderAt, CurrentAt
    <3>. QED BY <1>3, <2>1, <2>2, <3>3, <3>4, <3>8, <3>9, SessionStepKeeps
  <2>5. CASE session' = [session EXCEPT ![c].cur = None] /\ UNCHANGED queue
    <3>1. PICK r : r = [session[c] EXCEPT !.cur = None]
      OBVIOUS
    <3>2. session' = [session EXCEPT ![c] = r]
      BY <1>1, <2>5, <3>1
    <3>3. SessionFields(r) /\ r.pc = "consume" /\ r.host = session[c].host /\ r.failing = session[c].failing
      BY <1>1, <2>1, <3>1 DEF SessionFields
    <3>4. RecorderAt(r)' /\ CurrentAt(r)'
      BY <1>3, <2>1, <3>3 DEF RecorderAt, CurrentAt
    <3>. QED BY <1>3, <2>1, <2>2, <2>5, <3>2, <3>3, <3>4, QuietStepKeeps
  <2>6. CASE /\ session[c].cur = None /\ UNCHANGED queue
             /\ session' = [session EXCEPT ![c].pc = "poolstop", ![c].out = CrossThread(session[c])]
    <3>1. PICK r : r = [session[c] EXCEPT !.pc = "poolstop", !.out = CrossThread(session[c])]
      OBVIOUS
    <3>2. session' = [session EXCEPT ![c] = r]
      BY <1>1, <2>6, <3>1
    <3>3. SessionFields(r) /\ r.pc = "poolstop" /\ r.host = session[c].host /\ r.failing = session[c].failing
      BY <1>1, <2>1, <2>6, <3>1 DEF SessionFields, Stages
    <3>4. RecorderAt(r)' /\ CurrentAt(r)'
      BY <1>1, <1>3, <1>4, <2>1, <3>3 DEF RecorderAt, CurrentAt
    <3>. QED BY <1>3, <2>1, <2>2, <2>6, <3>2, <3>3, <3>4, QuietStepKeeps
  <2>. QED BY <1>17, <2>3, <2>4, <2>5, <2>6 DEF Consume
<1>. QED BY <1>5, <1>6, <1>7, <1>8, <1>9, <1>10, <1>11, <1>12, <1>13, <1>14, <1>15, <1>16, <1>17 DEF SessionStep

LEMMA TraceNext == TraceInv /\ [TNext]_tvars => TraceInv'
<1>. SUFFICES ASSUME TraceInv, [TNext]_tvars PROVE TraceInv'
  OBVIOUS
<1>1. CASE UNCHANGED tvars
  <2>1. UNCHANGED <<program, level, registry, queue, producer, lock, current, collector, session>>
    BY <1>1 DEF tvars
  <2>. QED BY <2>1 DEF TraceInv, TraceTypeOK, RegistryOK, QueueInv, LockHeld, RecorderAt, CurrentAt, holder,
                       ClearBounded
<1>2. CASE TNext
  <2>1. ASSUME NEW c \in Session, Start(c) \/ Stop(c) \/ SessionStep(c), UNCHANGED program PROVE TraceInv'
    BY <2>1, StartKeeps, SessionKeeps
  <2>2. ASSUME NEW p \in program.producers, ProducerStep(p), UNCHANGED program PROVE TraceInv'
    <3>1. p \in Producer
      BY TraceAssumption DEF TraceInv, TraceTypeOK
    <3>. QED BY <2>2, <3>1, ProducerKeeps
  <2>. QED BY <1>2, <2>1, <2>2 DEF TNext
<1>. QED BY <1>1, <1>2

THEOREM TraceIsInvariant == TSpec => []TraceInv
<1>1. TSpec => TInit /\ [][TNext]_tvars
  BY PTL DEF TSpec
<1>. QED BY <1>1, TraceInit, TraceNext, PTL

LEMMA InvariantApart == TraceInv => SessionsApart
<1>. SUFFICES ASSUME TraceInv PROVE SessionsApart
  OBVIOUS
<1>1. CurrentHoldsLock
  BY DEF TraceInv, CurrentAt, CurrentHoldsLock
<1>2. ASSUME lock = None, ~program.preactive
      PROVE  level = 0 /\ ~registry.recording /\ registry.dead = {} /\ ~collector /\ current = None
  <2>1. RecorderAt(Closed) /\ Closed.pc = "idle"
    BY <1>2 DEF TraceInv, holder, Closed
  <2>2. current = None
    BY <1>2, NamesApart DEF TraceInv, CurrentAt, TraceTypeOK
  <2>3. level \in {0, 1}
    BY DEF TraceInv, TraceTypeOK
  <2>. QED BY <1>2, <2>1, <2>2, <2>3 DEF RecorderAt
<1>. QED BY <1>1, <1>2 DEF SessionsApart, IdleMeansOff

LEMMA InvariantSafe == TraceInv => QueuesSafe
<1>. SUFFICES ASSUME TraceInv PROVE QueuesSafe
  OBVIOUS
<1>1. QueuesIntact
  <2>1. ASSUME NEW p \in Producer PROVE Published(queue[p]) \/ Written(queue[p])
    BY DEF TraceInv, QueueInv
  <2>. QED BY <2>1, InvariantIntact DEF QueuesIntact
<1>2. OneConsumer
  <2>. DEFINE S == {c \in Session : session[c].pc \in {"clear", "consume"}}
  <2>1. S \subseteq {lock}
    BY DEF TraceInv, LockHeld
  <2>2. IsFiniteSet({lock}) /\ Cardinality({lock}) = 1
    BY FS_Singleton
  <2>3. Cardinality(S) <= Cardinality({lock})
    BY <2>1, <2>2, FS_Subset
  <2>. QED BY <2>2, <2>3 DEF OneConsumer
<1>. QED BY <1>1, <1>2 DEF QueuesSafe

\* QueuesSafe for every number of sessions and traced threads: while record()
\* races with the clear() and the consume() of sessions, the single consumer
\* that the ProfilerLock admits finds an element in every slot below end_ and
\* never deletes the block that the producer writes next.
THEOREM QueuesAreSafe == TSpec => []QueuesSafe
BY TraceIsInvariant, InvariantSafe, PTL

\* SessionsApart for every number of sessions: whenever the ProfilerLock is
\* free, also after a start that has failed halfway, the recorder is off, no
\* dead recorder is kept and no session is current; and the current session
\* holds the lock.
THEOREM SessionsStayApart == TSpec => []SessionsApart
BY TraceIsInvariant, InvariantApart, PTL

(***************************************************************************)
(* What a stop() has to drain                                              *)
(***************************************************************************)

\* The thread will record an event of its own, whatever happens to the level.
\* With the recorder off it has not recorded one before, and no other begins.
Committed(p) == producer[p].pc \in {"checked", "recording", "publishing"} /\ producer[p].kind # "pool"

LateInv == /\ late = [p \in Producer |-> late[p]] /\ \A p \in Producer : late[p] \in {0, 1}
           /\ \A p \in Producer : level = 0 /\ Committed(p) => late[p] = 0

LEMMA LateInit == TInit => LateInv
BY DEF TInit, LateInv, Committed, Inactive

\* A step of p while the recorder is off: p commits itself to nothing, and what
\* it publishes is its only late event.
LEMMA LateProducer ==
  ASSUME TraceInv, LateInv, NEW p \in Producer, ProducerStep(p), UNCHANGED program
  PROVE  LateInv'
<1>1. /\ level' = level /\ level \in {0, 1}
      /\ producer = [q \in Producer |-> producer[q]] /\ ProducerFields(producer[p])
  BY DEF ProducerStep, Begin, ActivityEnd, Stamp, Close, Register, Push, PushEnd, Exit, sessionVars,
         TraceInv, TraceTypeOK
<1>2. \A q \in Producer \ {p} : producer'[q] = producer[q]
  BY <1>1 DEF ProducerStep, Begin, ActivityEnd, Stamp, Close, Register, Push, PushEnd, Exit
<1>3. ASSUME late' = late, level = 0 /\ Committed(p)' => Committed(p) PROVE LateInv'
  <2>1. \A q \in Producer : level' = 0 /\ Committed(q)' => late'[q] = 0
    BY <1>1, <1>2, <1>3 DEF LateInv, Committed
  <2>. QED BY <1>3, <2>1 DEF LateInv
<1>4. CASE PushEnd(p)
  <2>1. producer'[p].pc = "idle"
    BY <1>1, <1>4 DEF PushEnd, Inactive
  <2>2. CASE level = 0 /\ producer[p].kind # "pool"
    <3>1. late' = [late EXCEPT ![p] = @ + 1] /\ late[p] = 0
      BY <1>4, <2>2 DEF PushEnd, LateInv, Committed
    <3>2. late'[p] = 1 /\ \A q \in Producer \ {p} : late'[q] = late[q]
      BY <3>1 DEF LateInv
    <3>3. late' = [q \in Producer |-> late'[q]]
      BY <3>1 DEF LateInv
    <3>. QED BY <1>1, <1>2, <2>1, <3>2, <3>3 DEF LateInv, Committed
  <2>3. CASE ~(level = 0 /\ producer[p].kind # "pool")
    <3>1. late' = late
      BY <1>4, <2>3 DEF PushEnd
    <3>. QED BY <1>3, <2>1, <3>1 DEF Committed
  <2>. QED BY <2>2, <2>3
<1>5. CASE \E kind \in program.kinds : Begin(p, kind)
  <2>1. PICK kind : Begin(p, kind)
    BY <1>5
  <2>2. level = 0 => kind = "pool"
    BY <2>1 DEF Begin
  <2>3. late' = late
    BY <2>1 DEF Begin
  <2>. DEFINE n == producer[p].n + 1
              id == <<p, producer[p].n>>
  <2>4. producer' = [producer EXCEPT ![p] = [Inactive EXCEPT !.pc = "checked", !.kind = kind, !.n = n, !.id = id]]
    BY <2>1 DEF Begin
  <2>. HIDE DEF n, id
  <2>5. producer'[p].kind = kind
    BY <1>1, <2>4 DEF Inactive
  <2>. QED BY <1>3, <2>2, <2>3, <2>5 DEF Committed
<1>6. CASE \E id \in activities : ActivityEnd(p, id)
  <2>1. late' = late /\ (level = 0 => producer' = producer)
    BY <1>6 DEF ActivityEnd
  <2>. QED BY <1>3, <2>1 DEF Committed
<1>7. CASE Close(p)
  <2>1. late' = late /\ (level = 0 => producer'[p].pc = "idle")
    BY <1>1, <1>7 DEF Close, ProducerFields
  <2>. QED BY <1>3, <2>1 DEF Committed
<1>8. CASE Stamp(p) \/ Register(p) \/ Push(p) \/ Exit(p)
  <2>1. late' = late
    BY <1>8 DEF Stamp, Register, Push, Exit
  <2>2. Committed(p)' => Committed(p)
    <3>1. CASE Stamp(p)
      <4>. DEFINE at == IF Running # {} THEN clock ELSE 0
                  pc == IF producer[p].kind = "complete" THEN "open" ELSE "recording"
      <4>1. producer' = [producer EXCEPT ![p] = [@ EXCEPT !.pc = pc, !.time = clock, !.run = at]]
        BY <3>1 DEF Stamp
      <4>. HIDE DEF at, pc
      <4>2. producer'[p].kind = producer[p].kind
        BY <1>1, <4>1 DEF ProducerFields
      <4>. QED BY <3>1, <4>2 DEF Stamp, Committed
    <3>2. CASE Register(p)
      BY <3>2 DEF Register, Committed
    <3>3. CASE Push(p)
      <4>1. producer'[p].kind = producer[p].kind
        BY <1>1, <3>3 DEF Push, ProducerFields
      <4>. QED BY <3>3, <4>1 DEF Push, Committed
    <3>4. CASE Exit(p)
      BY <1>1, <3>4 DEF Exit, Committed, Inactive
    <3>. QED BY <1>8, <3>1, <3>2, <3>3, <3>4
  <2>. QED BY <1>3, <2>1, <2>2
<1>. QED BY <1>4, <1>5, <1>6, <1>7, <1>8 DEF ProducerStep

LEMMA LateSession ==
  ASSUME LateInv, NEW c \in Session, Start(c) \/ Stop(c) \/ SessionStep(c)
  PROVE  LateInv'
<1>1. CASE RecorderStop(c)
  BY <1>1 DEF RecorderStop, LateInv
<1>2. CASE RecorderStart(c)
  BY <1>2 DEF RecorderStart, producerVars, LateInv, Committed
<1>3. CASE Start(c) \/ Stop(c) \/ HostStamp(c) \/ StartRecording(c) \/ Clear(c) \/ PoolStart(c) \/ GpuStart(c)
           \/ StopRecording(c) \/ Consume(c) \/ PoolStop(c) \/ Collect(c) \/ Release(c)
  <2>1. UNCHANGED <<level, producer, late>>
    BY <1>3 DEF Start, Stop, HostStamp, StartRecording, Clear, PoolStart, GpuStart, StopRecording, Consume,
                PoolStop, Collect, Release, producerVars
  <2>. QED BY <2>1 DEF LateInv, Committed
<1>. QED BY <1>1, <1>2, <1>3 DEF SessionStep

LEMMA LateNext == TraceInv /\ LateInv /\ [TNext]_tvars => LateInv'
<1>. SUFFICES ASSUME TraceInv, LateInv, [TNext]_tvars PROVE LateInv'
  OBVIOUS
<1>1. CASE UNCHANGED tvars
  BY <1>1 DEF tvars, LateInv, Committed
<1>2. CASE TNext
  <2>1. ASSUME NEW p \in program.producers, ProducerStep(p), UNCHANGED program PROVE LateInv'
    <3>1. p \in Producer
      BY TraceAssumption DEF TraceInv, TraceTypeOK
    <3>. QED BY <2>1, <3>1, LateProducer
  <2>. QED BY <1>2, <2>1, LateSession DEF TNext
<1>. QED BY <1>1, <1>2

\* LateEvents for every number of sessions and threads and every program: once
\* the recorder has been stopped, by stop() or by a start() that failed, no
\* thread records more than one event of tracemes and activities until it is
\* stopped again, however many it goes on to make while its queue is drained.
THEOREM DrainIsBounded == TSpec => []LateEvents
<1>1. TSpec => TInit /\ [][TNext]_tvars
  BY PTL DEF TSpec
<1>2. LateInv => LateEvents
  BY DEF LateInv, LateEvents
<1>. QED BY <1>1, <1>2, LateInit, LateNext, TraceIsInvariant, PTL
=============================================================================
