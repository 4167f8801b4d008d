------------------------ MODULE RuntimeBridge_proofs ------------------------
(***************************************************************************)
(* Proofs about RuntimeBridge for every number of threads, packs, handles, *)
(* every pack size and every quota; and, in the last part, about           *)
(* BridgeCall for every memory, every limit and every pointer.             *)
(***************************************************************************)
EXTENDS RuntimeBridge, BridgeCall, FiniteSetTheorems, TLAPS

\* No step of a call takes a variable out of its type.
LEMMA TypeStep ==
  ASSUME TypeOK, Ownership, [Next]_vars
  PROVE  TypeOK'
<1> USE ConstantsAssumption DEF PC, Owning, Creating, Reserving, Holding, Goto, quota,
    TypeOK, Ownership
<1>1. ASSUME NEW t \in Threads, NEW p \in Packs, ReserveLoadEntries(t, p)
      PROVE  TypeOK'
  BY <1>1 DEF ReserveLoadEntries
<1>2. ASSUME NEW t \in Threads, NEW h \in delivered, Lookup(t, h)
      PROVE  TypeOK'
  BY <1>2 DEF Lookup, TakeReference
<1>3. ASSUME NEW t \in Threads, NEW h \in delivered, Destroy(t, h)
      PROVE  TypeOK'
  BY <1>3 DEF Destroy, TakeReference
<1>4. ASSUME NEW t \in Threads, ReserveRefused(t)
      PROVE  TypeOK'
  <2>1. /\ building' = FALSE
        /\ lock' = NoThread
        /\ seen' = [seen EXCEPT ![t] = 0]
        /\ pc' = [pc EXCEPT ![t] = "idle"]
        /\ pack' = [pack EXCEPT ![t] = NoPack]
        /\ UNCHANGED <<entries, quota, newHandle, delivered>>
    BY <1>4 DEF ReserveRefused, Return
  <2>2. pc' \in [Threads -> PC]
    BY <2>1
  <2>3. seen' \in [Threads -> Int]
    BY <2>1
  <2> QED
    BY <2>1, <2>2, <2>3
<1>5. ASSUME NEW t \in Threads, ReserveAddEntry(t)
      PROVE  TypeOK'
  BY <1>5 DEF ReserveAddEntry, Fits
<1>6. ASSUME NEW t \in Threads, ReserveAddBytes(t)
      PROVE  TypeOK'
  BY <1>6 DEF ReserveAddBytes
<1>7. ASSUME NEW t \in Threads, Build(t)
      PROVE  TypeOK'
  BY <1>7 DEF Build
<1>8. ASSUME NEW t \in Threads, NEW h \in Handles, Publish(t, h)
      PROVE  TypeOK'
  BY <1>8 DEF Publish
<1>9. ASSUME NEW t \in Threads, PublishFails(t)
      PROVE  TypeOK'
  BY <1>9 DEF PublishFails
<1>10. ASSUME NEW t \in Threads, Commit(t)
      PROVE  TypeOK'
  BY <1>10 DEF Commit
<1>11. ASSUME NEW t \in Threads, Unreserve(t)
      PROVE  TypeOK'
  BY <1>11 DEF Unreserve
<1>12. ASSUME NEW t \in Threads, ReleaseEntry(t)
      PROVE  TypeOK'
  BY <1>12 DEF ReleaseEntry
<1>13. ASSUME NEW t \in Threads, ReleaseBytes(t)
      PROVE  TypeOK'
  BY <1>13 DEF ReleaseBytes
<1>14. ASSUME NEW t \in Threads, Use(t)
      PROVE  TypeOK'
  BY <1>14 DEF Use
<1>15. ASSUME NEW t \in Threads, DropReference(t)
      PROVE  TypeOK'
  BY <1>15 DEF DropReference, LastReference, Return
<1>16. CASE UNCHANGED vars
  BY <1>16 DEF vars
<1> QED
  BY <1>1, <1>2, <1>3, <1>4, <1>5, <1>6, <1>7, <1>8, <1>9, <1>10, <1>11, <1>12, <1>13,
     <1>14, <1>15, <1>16 DEF Next, Begin, Continue

\* A thread owns a pack exactly at the places that hold one.
LEMMA OwnershipStep ==
  ASSUME TypeOK, Ownership, [Next]_vars
  PROVE  Ownership'
<1> USE ConstantsAssumption DEF PC, Owning, Creating, Reserving, Holding, Goto, quota,
    TypeOK, Ownership
<1>1. ASSUME NEW t \in Threads, NEW p \in Packs, ReserveLoadEntries(t, p)
      PROVE  Ownership'
  BY <1>1 DEF ReserveLoadEntries
<1>2. ASSUME NEW t \in Threads, NEW h \in delivered, Lookup(t, h)
      PROVE  Ownership'
  BY <1>2 DEF Lookup, TakeReference
<1>3. ASSUME NEW t \in Threads, NEW h \in delivered, Destroy(t, h)
      PROVE  Ownership'
  BY <1>3 DEF Destroy, TakeReference
<1>4. ASSUME NEW t \in Threads, ReserveRefused(t)
      PROVE  Ownership'
  BY <1>4 DEF ReserveRefused, Fits, Return
<1>5. ASSUME NEW t \in Threads, ReserveAddEntry(t)
      PROVE  Ownership'
  BY <1>5 DEF ReserveAddEntry, Fits
<1>6. ASSUME NEW t \in Threads, ReserveAddBytes(t)
      PROVE  Ownership'
  BY <1>6 DEF ReserveAddBytes
<1>7. ASSUME NEW t \in Threads, Build(t)
      PROVE  Ownership'
  BY <1>7 DEF Build
<1>8. ASSUME NEW t \in Threads, NEW h \in Handles, Publish(t, h)
      PROVE  Ownership'
  BY <1>8 DEF Publish
<1>9. ASSUME NEW t \in Threads, PublishFails(t)
      PROVE  Ownership'
  BY <1>9 DEF PublishFails
<1>10. ASSUME NEW t \in Threads, Commit(t)
      PROVE  Ownership'
  BY <1>10 DEF Commit
<1>11. ASSUME NEW t \in Threads, Unreserve(t)
      PROVE  Ownership'
  BY <1>11 DEF Unreserve
<1>12. ASSUME NEW t \in Threads, ReleaseEntry(t)
      PROVE  Ownership'
  BY <1>12 DEF ReleaseEntry
<1>13. ASSUME NEW t \in Threads, ReleaseBytes(t)
      PROVE  Ownership'
  BY <1>13 DEF ReleaseBytes
<1>14. ASSUME NEW t \in Threads, Use(t)
      PROVE  Ownership'
  BY <1>14 DEF Use
<1>15. ASSUME NEW t \in Threads, DropReference(t)
      PROVE  Ownership'
  BY <1>15 DEF DropReference, LastReference, Return
<1>16. CASE UNCHANGED vars
  BY <1>16 DEF vars
<1> QED
  BY <1>1, <1>2, <1>3, <1>4, <1>5, <1>6, <1>7, <1>8, <1>9, <1>10, <1>11, <1>12, <1>13,
     <1>14, <1>15, <1>16 DEF Next, Begin, Continue

\* The flag and the mutex each admit one thread.
LEMMA ExclusionStep ==
  ASSUME TypeOK, Ownership, Exclusion, [Next]_vars
  PROVE  Exclusion'
<1> USE ConstantsAssumption DEF PC, Owning, Creating, Reserving, Holding, Goto, quota,
    TypeOK, Exclusion, OneBuilder
<1>1. ASSUME NEW t \in Threads, NEW p \in Packs, ReserveLoadEntries(t, p)
      PROVE  Exclusion'
  BY <1>1 DEF ReserveLoadEntries
<1>2. ASSUME NEW t \in Threads, NEW h \in delivered, Lookup(t, h)
      PROVE  Exclusion'
  BY <1>2 DEF Lookup, TakeReference
<1>3. ASSUME NEW t \in Threads, NEW h \in delivered, Destroy(t, h)
      PROVE  Exclusion'
  BY <1>3 DEF Destroy, TakeReference
<1>4. ASSUME NEW t \in Threads, ReserveRefused(t)
      PROVE  Exclusion'
  BY <1>4 DEF ReserveRefused, Fits, Return
<1>5. ASSUME NEW t \in Threads, ReserveAddEntry(t)
      PROVE  Exclusion'
  BY <1>5 DEF ReserveAddEntry, Fits
<1>6. ASSUME NEW t \in Threads, ReserveAddBytes(t)
      PROVE  Exclusion'
  BY <1>6 DEF ReserveAddBytes
<1>7. ASSUME NEW t \in Threads, Build(t)
      PROVE  Exclusion'
  BY <1>7 DEF Build
<1>8. ASSUME NEW t \in Threads, NEW h \in Handles, Publish(t, h)
      PROVE  Exclusion'
  BY <1>8 DEF Publish
<1>9. ASSUME NEW t \in Threads, PublishFails(t)
      PROVE  Exclusion'
  BY <1>9 DEF PublishFails
<1>10. ASSUME NEW t \in Threads, Commit(t)
      PROVE  Exclusion'
  BY <1>10 DEF Commit
<1>11. ASSUME NEW t \in Threads, Unreserve(t)
      PROVE  Exclusion'
  BY <1>11 DEF Unreserve
<1>12. ASSUME NEW t \in Threads, ReleaseEntry(t)
      PROVE  Exclusion'
  BY <1>12 DEF ReleaseEntry
<1>13. ASSUME NEW t \in Threads, ReleaseBytes(t)
      PROVE  Exclusion'
  BY <1>13 DEF ReleaseBytes
<1>14. ASSUME NEW t \in Threads, Use(t)
      PROVE  Exclusion'
  BY <1>14 DEF Use
<1>15. ASSUME NEW t \in Threads, DropReference(t)
      PROVE  Exclusion'
  BY <1>15 DEF DropReference, LastReference, Return
<1>16. CASE UNCHANGED vars
  BY <1>16 DEF vars
<1> QED
  BY <1>1, <1>2, <1>3, <1>4, <1>5, <1>6, <1>7, <1>8, <1>9, <1>10, <1>11, <1>12, <1>13,
     <1>14, <1>15, <1>16 DEF Next, Begin, Continue

\* No interleaving of a reservation with releases exceeds a quota.
LEMMA QuotaStep ==
  ASSUME TypeOK, Ownership, Exclusion, QuotaReserved, [Next]_vars
  PROVE  QuotaReserved'
<1> USE ConstantsAssumption DEF PC, Owning, Creating, Reserving, Holding, Goto, quota,
    TypeOK, Ownership, Exclusion, QuotaReserved, QuotaRespected
<1>1. ASSUME NEW t \in Threads, NEW p \in Packs, ReserveLoadEntries(t, p)
      PROVE  QuotaReserved'
  BY <1>1 DEF ReserveLoadEntries
<1>2. ASSUME NEW t \in Threads, NEW h \in delivered, Lookup(t, h)
      PROVE  QuotaReserved'
  BY <1>2 DEF Lookup, TakeReference
<1>3. ASSUME NEW t \in Threads, NEW h \in delivered, Destroy(t, h)
      PROVE  QuotaReserved'
  BY <1>3 DEF Destroy, TakeReference
<1>4. ASSUME NEW t \in Threads, ReserveRefused(t)
      PROVE  QuotaReserved'
  BY <1>4 DEF ReserveRefused, Fits, Return
<1>5. ASSUME NEW t \in Threads, ReserveAddEntry(t)
      PROVE  QuotaReserved'
  BY <1>5 DEF ReserveAddEntry, Fits
<1>6. ASSUME NEW t \in Threads, ReserveAddBytes(t)
      PROVE  QuotaReserved'
  BY <1>6 DEF ReserveAddBytes
<1>7. ASSUME NEW t \in Threads, Build(t)
      PROVE  QuotaReserved'
  BY <1>7 DEF Build
<1>8. ASSUME NEW t \in Threads, NEW h \in Handles, Publish(t, h)
      PROVE  QuotaReserved'
  BY <1>8 DEF Publish
<1>9. ASSUME NEW t \in Threads, PublishFails(t)
      PROVE  QuotaReserved'
  BY <1>9 DEF PublishFails
<1>10. ASSUME NEW t \in Threads, Commit(t)
      PROVE  QuotaReserved'
  BY <1>10 DEF Commit
<1>11. ASSUME NEW t \in Threads, Unreserve(t)
      PROVE  QuotaReserved'
  BY <1>11 DEF Unreserve
<1>12. ASSUME NEW t \in Threads, ReleaseEntry(t)
      PROVE  QuotaReserved'
  BY <1>12 DEF ReleaseEntry
<1>13. ASSUME NEW t \in Threads, ReleaseBytes(t)
      PROVE  QuotaReserved'
  BY <1>13 DEF ReleaseBytes
<1>14. ASSUME NEW t \in Threads, Use(t)
      PROVE  QuotaReserved'
  BY <1>14 DEF Use
<1>15. ASSUME NEW t \in Threads, DropReference(t)
      PROVE  QuotaReserved'
  BY <1>15 DEF DropReference, LastReference, Return
<1>16. CASE UNCHANGED vars
  BY <1>16 DEF vars
<1> QED
  BY <1>1, <1>2, <1>3, <1>4, <1>5, <1>6, <1>7, <1>8, <1>9, <1>10, <1>11, <1>12, <1>13,
     <1>14, <1>15, <1>16 DEF Next, Begin, Continue

\* A pack changes hands only between the registry and owners of a reference.
LEMMA ReferencesStep ==
  ASSUME TypeOK, Ownership, Exclusion, References, [Next]_vars
  PROVE  References'
<1> USE ConstantsAssumption DEF PC, Owning, Creating, Reserving, Holding, Goto, quota,
    TypeOK, Ownership, References, LeaseAt
<1>1. ASSUME NEW t \in Threads, NEW p \in Packs, ReserveLoadEntries(t, p)
      PROVE  References'
  <2>1. \A u \in Threads : pack[u] # p
    BY <1>1 DEF ReserveLoadEntries, Exclusion, OneBuilder
  <2> QED
    BY <1>1, <2>1 DEF ReserveLoadEntries
<1>2. ASSUME NEW t \in Threads, NEW h \in delivered, Lookup(t, h)
      PROVE  References'
  BY <1>2 DEF Lookup, TakeReference
<1>3. ASSUME NEW t \in Threads, NEW h \in delivered, Destroy(t, h)
      PROVE  References'
  BY <1>3 DEF Destroy, TakeReference
<1>4. ASSUME NEW t \in Threads, ReserveRefused(t)
      PROVE  References'
  BY <1>4 DEF ReserveRefused, Fits, Return
<1>5. ASSUME NEW t \in Threads, ReserveAddEntry(t)
      PROVE  References'
  BY <1>5 DEF ReserveAddEntry, Fits
<1>6. ASSUME NEW t \in Threads, ReserveAddBytes(t)
      PROVE  References'
  BY <1>6 DEF ReserveAddBytes
<1>7. ASSUME NEW t \in Threads, Build(t)
      PROVE  References'
  BY <1>7 DEF Build
<1>8. ASSUME NEW t \in Threads, NEW h \in Handles, Publish(t, h)
      PROVE  References'
  BY <1>8 DEF Publish
<1>9. ASSUME NEW t \in Threads, PublishFails(t)
      PROVE  References'
  BY <1>9 DEF PublishFails
<1>10. ASSUME NEW t \in Threads, Commit(t)
      PROVE  References'
  BY <1>10 DEF Commit
<1>11. ASSUME NEW t \in Threads, Unreserve(t)
      PROVE  References'
  BY <1>11 DEF Unreserve
<1>12. ASSUME NEW t \in Threads, ReleaseEntry(t)
      PROVE  References'
  BY <1>12 DEF ReleaseEntry
<1>13. ASSUME NEW t \in Threads, ReleaseBytes(t)
      PROVE  References'
  BY <1>13 DEF ReleaseBytes
<1>14. ASSUME NEW t \in Threads, Use(t)
      PROVE  References'
  BY <1>14 DEF Use
<1>15. ASSUME NEW t \in Threads, DropReference(t)
      PROVE  References'
  BY <1>15 DEF DropReference, LastReference, Return
<1>16. CASE UNCHANGED vars
  BY <1>16 DEF vars
<1> QED
  BY <1>1, <1>2, <1>3, <1>4, <1>5, <1>6, <1>7, <1>8, <1>9, <1>10, <1>11, <1>12, <1>13,
     <1>14, <1>15, <1>16 DEF Next, Begin, Continue

\* All of it holds before the first call and is kept by every step.
LEMMA InductiveInvariant == Spec => []Inductive
<1>1. Init => Inductive
  <2> SUFFICES ASSUME Init PROVE Inductive
    OBVIOUS
  <2> USE ConstantsAssumption DEF Init, PC, Owning, Creating, Reserving, Holding
  <2>1. TypeOK
    <3>1. /\ pc \in [Threads -> PC]
          /\ seen \in [Threads -> Int]
      OBVIOUS
    <3>2. /\ entries \in [Handles -> Packs \cup {NoPack}]
          /\ pack \in [Threads -> Packs \cup {NoPack}]
          /\ newHandle \in [Threads -> Handles \cup {NoHandle}]
      OBVIOUS
    <3>3. /\ lock \in Threads \cup {NoThread}
          /\ liveEntries \in Int /\ packedBytes \in Int
          /\ lease \in [Packs -> {"unused", "adding", "held", "releasing"}]
          /\ delivered \subseteq Handles
      OBVIOUS
    <3>4. building \in BOOLEAN
      OBVIOUS
    <3> QED
      BY <3>1, <3>2, <3>3, <3>4, Zenon DEF TypeOK
  <2>2. Ownership
    BY DEF Ownership
  <2>3. Exclusion
    BY DEF Exclusion, OneBuilder
  <2>4. QuotaReserved
    BY DEF QuotaReserved, QuotaRespected
  <2>5. References
    BY DEF References
  <2> QED
    BY <2>1, <2>2, <2>3, <2>4, <2>5 DEF Inductive
<1>2. Inductive /\ [Next]_vars => Inductive'
  BY TypeStep, OwnershipStep, ExclusionStep, QuotaStep, ReferencesStep DEF Inductive
<1> QED
  BY <1>1, <1>2, PTL DEF Spec

-----------------------------------------------------------------------------
\* Every variable keeps its type: the fields of Registry and Admission, and
\* what each call in progress owns.
THEOREM Typing == Spec => []TypeOK
<1>1. Inductive => TypeOK
  BY DEF Inductive
<1> QED
  BY <1>1, InductiveInvariant, PTL

\* reserve() reads and adds to its two counters in four steps while releases
\* subtract from them without the mutex; no quota is ever exceeded.
THEOREM Quota == Spec => []QuotaRespected
<1>1. Inductive => QuotaRespected
  BY DEF Inductive, QuotaReserved
<1> QED
  BY <1>1, InductiveInvariant, PTL

\* At most one create is between reserve_create and the end of its
\* reservation, and the building flag says so exactly.
THEOREM SingleBuilder == Spec => []OneBuilder
<1>1. Inductive => OneBuilder
  BY DEF Inductive, Exclusion
<1> QED
  BY <1>1, InductiveInvariant, PTL

\* Whoever can reach an entry, through the registry or through an Arc of its
\* own, finds its lease not yet released, for any order of destroys and runs.
THEOREM ReferenceSafety == Spec => []NoUseAfterFree
<1>1. Inductive => NoUseAfterFree
  BY DEF Inductive, References, LeaseAt, NoUseAfterFree, Ownership, Owning,
         Holding, PC, Creating, Reserving
<1> QED
  BY <1>1, InductiveInvariant, PTL

-----------------------------------------------------------------------------
(* The two counters.  A sum over a set of packs is a recursive computation *)
(* of the library's; what it returns is proved by taking a smallest set    *)
(* for which a claim about it fails: inclusion is well founded on the      *)
(* finite sets, so that no induction over data is needed.                  *)

\* The sum that the invariant takes over the packs, and how the library computes it.
Size(S) == MapThenSumSet(LAMBDA p : PackBytes[p], S)
First(s) == CHOOSE x \in s : TRUE
IsSum(g, S) ==
  g = [s \in SUBSET S |-> IF s = {} THEN 0 ELSE PackBytes[First(s)] + g[s \ {First(s)}]]

\* What the library returns is such a computation, read at the whole set.
LEMMA SizeIsSum ==
  ASSUME NEW S, NEW g, IsSum(g, S)
  PROVE  \E h : IsSum(h, S) /\ Size(S) = h[S]
BY DEF IsSum, Size, MapThenSumSet, MapThenFoldSet, First

\* Of the subsets of a finite set that fail a claim, one has no smaller one.
LEMMA Smallest ==
  ASSUME NEW S, IsFiniteSet(S), NEW Bad \in SUBSET (SUBSET S), Bad # {}
  PROVE  \E U \in Bad : \A V \in Bad : V \subseteq U => V = U
<1>1. Bad \subseteq FiniteSubsetsOf(S)
  BY FS_Subset DEF FiniteSubsetsOf
<1>2. \E U \in Bad : \A V \in Bad : ~(<<V, U>> \in StrictSubsetOrdering(S))
  BY <1>1, FS_StrictSubsetOrderingWellFounded, WFMin
<1>. QED BY <1>2 DEF StrictSubsetOrdering

LEMMA FirstIsIn ==
  ASSUME NEW s, s # {}
  PROVE  First(s) \in s
BY DEF First

\* A computation, unfolded once.
LEMMA SumAt ==
  ASSUME NEW S, NEW g, IsSum(g, S), NEW s \in SUBSET S
  PROVE  g[s] = IF s = {} THEN 0 ELSE PackBytes[First(s)] + g[s \ {First(s)}]
<1>. DEFINE F(x) == IF x = {} THEN 0 ELSE PackBytes[First(x)] + g[x \ {First(x)}]
<1>1. g = [x \in SUBSET S |-> F(x)]
  BY DEF IsSum
<1>. HIDE DEF F
<1>2. g[s] = F(s)
  BY <1>1
<1>. QED BY <1>2 DEF F

\* Two computations of sums agree where both have one.
LEMMA SumsAgree ==
  ASSUME NEW S, IsFiniteSet(S), NEW T, S \subseteq T, NEW g, IsSum(g, S), NEW h, IsSum(h, T)
  PROVE  \A s \in SUBSET S : g[s] = h[s]
<1>. DEFINE Bad == {s \in SUBSET S : g[s] # h[s]}
<1>. SUFFICES ASSUME Bad # {} PROVE FALSE
  OBVIOUS
<1>1. PICK s \in Bad : \A r \in Bad : r \subseteq s => r = s
  <2>1. Bad \in SUBSET (SUBSET S)
    OBVIOUS
  <2>. HIDE DEF Bad
  <2>. QED BY <2>1, Smallest
<1>2. CASE s = {}
  BY <1>1, <1>2, SumAt
<1>3. CASE s # {}
  <2>1. First(s) \in s
    BY <1>3, FirstIsIn
  <2>2. s \ {First(s)} \in SUBSET S /\ s \ {First(s)} # s /\ s \ {First(s)} \subseteq s
    BY <2>1
  <2>3. g[s \ {First(s)}] = h[s \ {First(s)}]
    BY <1>1, <2>2
  <2>. QED BY <1>1, <1>3, <2>3, SumAt
<1>. QED BY <1>2, <1>3

\* Every finite set has a computation of its sum.
LEMMA SumExists ==
  ASSUME NEW S, IsFiniteSet(S)
  PROVE  \E g : IsSum(g, S)
<1>. DEFINE Bad == {s \in SUBSET S : ~ \E g : IsSum(g, s)}
<1>. SUFFICES ASSUME Bad # {} PROVE FALSE
  OBVIOUS
<1>1. PICK T \in Bad : \A r \in Bad : r \subseteq T => r = T
  <2>1. Bad \in SUBSET (SUBSET S)
    OBVIOUS
  <2>. HIDE DEF Bad
  <2>. QED BY <2>1, Smallest
<1>2. IsFiniteSet(T)
  BY FS_Subset
<1>. DEFINE of(s) == CHOOSE g : IsSum(g, s)
<1>3. \A s \in SUBSET T : s # T => IsSum(of(s), s)
  <2>1. ASSUME NEW s \in SUBSET T, s # T PROVE \E g : IsSum(g, s)
    BY <1>1, <2>1
  <2>. QED BY <2>1, Zenon
<1>. DEFINE total(s) == IF s = {} THEN 0
                        ELSE PackBytes[First(s)] + of(s \ {First(s)})[s \ {First(s)}]
            sum == [s \in SUBSET T |-> total(s)]
<1>. HIDE DEF of
<1>4. \A s \in SUBSET T : s # T => total(s) = of(s)[s]
  <2>1. SUFFICES ASSUME NEW s \in SUBSET T, s # T, s # {} PROVE total(s) = of(s)[s]
    <3>1. {} # T => total({}) = of({})[{}]
      BY <1>3, SumAt
    <3>. QED BY <3>1
  <2>2. First(s) \in s /\ IsFiniteSet(s)
    BY <1>2, <2>1, FirstIsIn, FS_Subset
  <2>. DEFINE r == s \ {First(s)}
  <2>3. r \in SUBSET T /\ r # T /\ r \subseteq s /\ IsFiniteSet(r)
    BY <2>2, FS_Subset
  <2>4. of(r)[r] = of(s)[r]
    BY <1>3, <2>1, <2>3, SumsAgree
  <2>5. of(s)[s] = PackBytes[First(s)] + of(s)[r]
    BY <1>3, <2>1, SumAt
  <2>. QED BY <2>1, <2>4, <2>5
<1>5. sum = [s \in SUBSET T |-> IF s = {} THEN 0
                                ELSE PackBytes[First(s)] + sum[s \ {First(s)}]]
  <2>1. ASSUME NEW s \in SUBSET T, s # {}
        PROVE  total(s) = PackBytes[First(s)] + sum[s \ {First(s)}]
    <3>1. First(s) \in s
      BY <2>1, FirstIsIn
    <3>2. s \ {First(s)} \in SUBSET T /\ s \ {First(s)} # T
      BY <3>1
    <3>3. sum[s \ {First(s)}] = of(s \ {First(s)})[s \ {First(s)}]
      BY <1>4, <3>2
    <3>. QED BY <2>1, <3>3
  <2>. QED BY <2>1
<1>6. IsSum(sum, T)
  BY <1>5 DEF IsSum
<1>. QED BY <1>1, <1>6

\* The sum itself, unfolded once.
LEMMA SizeAt ==
  ASSUME NEW S, IsFiniteSet(S)
  PROVE  Size(S) = IF S = {} THEN 0 ELSE PackBytes[First(S)] + Size(S \ {First(S)})
<1>1. PICK g : IsSum(g, S) /\ Size(S) = g[S]
  BY SumExists, SizeIsSum
<1>2. CASE S = {}
  BY <1>1, <1>2, SumAt
<1>3. CASE S # {}
  <2>. DEFINE r == S \ {First(S)}
  <2>1. IsFiniteSet(r) /\ r \subseteq S
    BY FS_Subset
  <2>2. PICK h : IsSum(h, r) /\ Size(r) = h[r]
    BY <2>1, SumExists, SizeIsSum
  <2>3. h[r] = g[r]
    BY <1>1, <2>1, <2>2, SumsAgree
  <2>4. g[S] = PackBytes[First(S)] + g[r]
    BY <1>1, <1>3, SumAt
  <2>. QED BY <1>1, <1>3, <2>2, <2>3, <2>4
<1>. QED BY <1>2, <1>3

\* It is a number, and never less for more packs.
LEMMA SizeType ==
  ASSUME NEW S \in SUBSET Packs, IsFiniteSet(S)
  PROVE  Size(S) \in Nat
<1>. DEFINE Bad == {s \in SUBSET S : Size(s) \notin Nat}
<1>. SUFFICES ASSUME Bad # {} PROVE FALSE
  OBVIOUS
<1>1. PICK s \in Bad : \A r \in Bad : r \subseteq s => r = s
  <2>1. Bad \in SUBSET (SUBSET S)
    OBVIOUS
  <2>. HIDE DEF Bad
  <2>. QED BY <2>1, Smallest
<1>2. IsFiniteSet(s)
  BY FS_Subset
<1>3. CASE s # {}
  <2>1. First(s) \in s
    BY <1>3, FirstIsIn
  <2>2. Size(s \ {First(s)}) \in Nat
    BY <1>1, <2>1
  <2>3. PackBytes[First(s)] \in Nat
    BY <2>1, ConstantsAssumption
  <2>. QED BY <1>1, <1>2, <1>3, <2>2, <2>3, SizeAt
<1>4. CASE s = {}
  <2>1. Size(s) = 0
    BY <1>2, <1>4, SizeAt
  <2>. QED BY <1>1, <2>1
<1>. QED BY <1>3, <1>4

\* In whatever order the library takes the elements, one more adds its own bytes.
LEMMA SizeAdd ==
  ASSUME NEW S \in SUBSET Packs, IsFiniteSet(S), NEW p \in S
  PROVE  Size(S) = Size(S \ {p}) + PackBytes[p]
<1>. DEFINE Bad == {s \in SUBSET S : \E q \in s : Size(s) # Size(s \ {q}) + PackBytes[q]}
<1>. SUFFICES ASSUME Bad # {} PROVE FALSE
  OBVIOUS
<1>1. PICK s \in Bad : \A r \in Bad : r \subseteq s => r = s
  <2>1. Bad \in SUBSET (SUBSET S)
    OBVIOUS
  <2>. HIDE DEF Bad
  <2>. QED BY <2>1, Smallest
<1>2. PICK q \in s : Size(s) # Size(s \ {q}) + PackBytes[q]
  BY <1>1
<1>. DEFINE f == First(s)
<1>3. f \in s /\ IsFiniteSet(s)
  BY <1>2, FirstIsIn, FS_Subset
<1>4. Size(s) = PackBytes[f] + Size(s \ {f})
  BY <1>2, <1>3, SizeAt
<1>. DEFINE both == (s \ {f}) \ {q}
<1>. HIDE DEF f
<1>5. /\ IsFiniteSet(s \ {f}) /\ Size(s \ {f}) \in Nat
      /\ IsFiniteSet(s \ {q}) /\ Size(s \ {q}) \in Nat
      /\ IsFiniteSet(both) /\ Size(both) \in Nat
      /\ PackBytes[f] \in Nat /\ PackBytes[q] \in Nat
  <2>1. \A r \in SUBSET s : IsFiniteSet(r) /\ Size(r) \in Nat
    BY <1>3, FS_Subset, SizeType
  <2>. QED BY <1>3, <2>1, ConstantsAssumption
<1>6. CASE q = f
  BY <1>2, <1>4, <1>5, <1>6
<1>7. CASE q # f
  <2>1. s \ {f} \notin Bad /\ s \ {q} \notin Bad
    BY <1>1, <1>3
  <2>2. Size(s \ {f}) = Size(both) + PackBytes[q]
    BY <1>7, <2>1
  <2>3. (s \ {q}) \ {f} = both
    OBVIOUS
  <2>4. Size(s \ {q}) = Size(both) + PackBytes[f]
    BY <1>3, <1>7, <2>1, <2>3
  <2>. QED BY <1>2, <1>4, <1>5, <2>2, <2>4
<1>. QED BY <1>6, <1>7

LEMMA SizeMonotone ==
  ASSUME NEW S \in SUBSET Packs, IsFiniteSet(S), NEW T \in SUBSET S
  PROVE  Size(T) <= Size(S)
<1>. DEFINE Bad == {s \in SUBSET S : T \subseteq s /\ ~(Size(T) <= Size(s))}
<1>. SUFFICES ASSUME Bad # {} PROVE FALSE
  OBVIOUS
<1>1. PICK s \in Bad : \A r \in Bad : r \subseteq s => r = s
  <2>1. Bad \in SUBSET (SUBSET S)
    OBVIOUS
  <2>. HIDE DEF Bad
  <2>. QED BY <2>1, Smallest
<1>2. \A r \in SUBSET S : IsFiniteSet(r) /\ Size(r) \in Nat
  BY FS_Subset, SizeType
<1>3. s # T
  BY <1>1, <1>2
<1>4. PICK q \in s : q \notin T
  BY <1>1, <1>3
<1>5. Size(T) <= Size(s \ {q})
  BY <1>1, <1>4
<1>6. Size(s) = Size(s \ {q}) + PackBytes[q] /\ PackBytes[q] \in Nat
  BY <1>2, <1>4, SizeAdd, ConstantsAssumption
<1>. QED BY <1>1, <1>2, <1>5, <1>6

\* The packs that each counter stands for.
Counted == {p \in Packs : lease[p] \in {"adding", "held"}}
Charged == {p \in Packs : lease[p] \in {"held", "releasing"}}

\* What AccountingExact says, with the finiteness that the counting needs.
Accounts ==
  /\ IsFiniteSet(Counted) /\ liveEntries = Cardinality(Counted)
  /\ IsFiniteSet(Charged) /\ packedBytes = Size(Charged)

\* The four steps that touch a counter each change the lease that it counts.
LEMMA AccountsStep ==
  ASSUME Inductive, Accounts, [Next]_vars
  PROVE  Accounts'
<1>. USE DEF Inductive
<1>0. CASE UNCHANGED <<lease, liveEntries, packedBytes>>
  <2>1. Counted' = Counted /\ Charged' = Charged
    BY <1>0 DEF Counted, Charged
  <2>. QED BY <1>0, <2>1 DEF Accounts
<1>1. ASSUME NEW t \in Threads, ReserveAddEntry(t) PROVE Accounts'
  <2>. DEFINE p == pack[t]
  <2>1. p \in Packs /\ lease[p] = "unused" /\ lease' = [lease EXCEPT ![p] = "adding"]
    BY <1>1 DEF ReserveAddEntry, References, LeaseAt, Ownership, Holding, PC, Owning, Creating,
                Reserving
  <2>2. liveEntries' = liveEntries + 1 /\ packedBytes' = packedBytes
    BY <1>1 DEF ReserveAddEntry
  <2>3. Counted' = Counted \cup {p} /\ p \notin Counted /\ Charged' = Charged
    BY <2>1 DEF Counted, Charged, TypeOK
  <2>. QED BY <2>2, <2>3, FS_AddElement DEF Accounts
<1>2. ASSUME NEW t \in Threads, ReserveAddBytes(t) PROVE Accounts'
  <2>. DEFINE p == pack[t]
  <2>1. p \in Packs /\ lease[p] = "adding" /\ lease' = [lease EXCEPT ![p] = "held"]
    BY <1>2 DEF ReserveAddBytes, References, LeaseAt, Ownership, Holding, PC, Owning, Creating,
                Reserving
  <2>2. liveEntries' = liveEntries /\ packedBytes' = packedBytes + PackBytes[p]
    BY <1>2 DEF ReserveAddBytes
  <2>3. Charged' = Charged \cup {p} /\ p \notin Charged /\ Counted' = Counted
    BY <2>1 DEF Counted, Charged, TypeOK
  <2>4. IsFiniteSet(Charged) /\ Charged \in SUBSET Packs
    BY DEF Accounts, Charged
  <2>. HIDE DEF p
  <2>5. /\ IsFiniteSet(Charged') /\ Charged' \in SUBSET Packs
        /\ Charged' \ {p} = Charged /\ p \in Charged'
    BY ONLY <2>1, <2>3, <2>4, FS_AddElement
  <2>6. Size(Charged') = Size(Charged) + PackBytes[p]
    BY <2>5, SizeAdd
  <2>7. packedBytes = Size(Charged) /\ IsFiniteSet(Counted) /\ liveEntries = Cardinality(Counted)
    BY DEF Accounts
  <2>. QED BY ONLY <2>2, <2>3, <2>5, <2>6, <2>7 DEF Accounts
<1>3. ASSUME NEW t \in Threads, ReleaseEntry(t) PROVE Accounts'
  <2>. DEFINE p == pack[t]
  <2>1. p \in Packs /\ lease[p] = "held" /\ lease' = [lease EXCEPT ![p] = "releasing"]
    BY <1>3 DEF ReleaseEntry, References, LeaseAt, Ownership, Holding, PC, Owning, Creating,
                Reserving
  <2>2. liveEntries' = liveEntries - 1 /\ packedBytes' = packedBytes
    BY <1>3 DEF ReleaseEntry
  <2>3. Counted' = Counted \ {p} /\ p \in Counted /\ Charged' = Charged
    BY <2>1 DEF Counted, Charged, TypeOK
  <2>. QED BY <2>2, <2>3, FS_RemoveElement DEF Accounts
<1>4. ASSUME NEW t \in Threads, ReleaseBytes(t) PROVE Accounts'
  <2>. DEFINE p == pack[t]
  <2>1. p \in Packs /\ lease[p] = "releasing" /\ lease' = [lease EXCEPT ![p] = "unused"]
    BY <1>4 DEF ReleaseBytes, References, LeaseAt, Ownership, Holding, PC, Owning, Creating,
                Reserving
  <2>2. liveEntries' = liveEntries /\ packedBytes' = packedBytes - PackBytes[p]
    BY <1>4 DEF ReleaseBytes
  <2>3. Charged' = Charged \ {p} /\ p \in Charged /\ Counted' = Counted
    BY <2>1 DEF Counted, Charged, TypeOK
  <2>4. IsFiniteSet(Charged) /\ Charged \in SUBSET Packs
    BY DEF Accounts, Charged
  <2>5. Size(Charged) = Size(Charged') + PackBytes[p]
    BY <2>3, <2>4, SizeAdd
  <2>6. IsFiniteSet(Charged') /\ Charged' \in SUBSET Packs
    BY <2>3, <2>4, FS_RemoveElement
  <2>7. Size(Charged') \in Nat /\ PackBytes[p] \in Nat
    BY <2>1, <2>6, SizeType, ConstantsAssumption
  <2>. QED BY <2>2, <2>3, <2>5, <2>6, <2>7 DEF Accounts
<1>5. ASSUME NEW t \in Threads, Begin(t) \/ Continue(t),
             ~ReserveAddEntry(t), ~ReserveAddBytes(t), ~ReleaseEntry(t), ~ReleaseBytes(t)
      PROVE  UNCHANGED <<lease, liveEntries, packedBytes>>
  BY <1>5 DEF Begin, Continue, quota, ReserveLoadEntries, Lookup, Destroy, ReserveRefused, Build,
              Publish, PublishFails, Commit, Unreserve, Use, DropReference
<1>6. CASE UNCHANGED vars
  BY <1>0, <1>6 DEF vars, quota
<1>. QED BY <1>0, <1>1, <1>2, <1>3, <1>4, <1>5, <1>6 DEF Next

LEMMA AccountsInit ==
  ASSUME Init
  PROVE  Accounts
<1>1. Counted = {} /\ Charged = {}
  BY DEF Init, Counted, Charged
<1>2. Size({}) = 0
  BY SizeAt, FS_EmptySet
<1>. QED BY <1>1, <1>2, FS_EmptySet DEF Init, Accounts

-----------------------------------------------------------------------------

\* Whatever is admitted can be reached, from the registry or from a call in progress.
Reached ==
  \A p \in Packs : lease[p] # "unused" =>
    Linked(p) \/ \E t \in Threads : pack[t] = p /\ pc[t] \in Holding \ {"loadBytes"}

LEMMA ReachedStep ==
  ASSUME Inductive, Reached, [Next]_vars
  PROVE  Reached'
<1>. USE DEF Inductive, Reached, Linked, Goto, PC, Owning, Creating, Reserving, Holding,
              quota, TypeOK
<1>1. ASSUME NEW t \in Threads, NEW p \in Packs, ReserveLoadEntries(t, p) PROVE Reached'
  BY <1>1 DEF ReserveLoadEntries, Ownership
<1>2. ASSUME NEW t \in Threads, NEW h \in delivered, Lookup(t, h) PROVE Reached'
  BY <1>2 DEF Lookup, TakeReference, Ownership
<1>3. ASSUME NEW t \in Threads, NEW h \in delivered, Destroy(t, h) PROVE Reached'
  BY <1>3 DEF Destroy, TakeReference, Ownership
<1>4. ASSUME NEW t \in Threads, ReserveRefused(t) PROVE Reached'
  BY <1>4 DEF ReserveRefused, Return
<1>5. ASSUME NEW t \in Threads, ReserveAddEntry(t) PROVE Reached'
  BY <1>5 DEF ReserveAddEntry
<1>6. ASSUME NEW t \in Threads, ReserveAddBytes(t) PROVE Reached'
  BY <1>6 DEF ReserveAddBytes
<1>7. ASSUME NEW t \in Threads, Build(t) PROVE Reached'
  BY <1>7 DEF Build
<1>8. ASSUME NEW t \in Threads, NEW h \in Handles, Publish(t, h) PROVE Reached'
  BY <1>8, ConstantsAssumption DEF Publish
<1>9. ASSUME NEW t \in Threads, PublishFails(t) PROVE Reached'
  BY <1>9 DEF PublishFails
<1>10. ASSUME NEW t \in Threads, Commit(t) PROVE Reached'
  BY <1>10 DEF Commit
<1>11. ASSUME NEW t \in Threads, Unreserve(t) PROVE Reached'
  BY <1>11, ConstantsAssumption DEF Unreserve, Ownership
<1>12. ASSUME NEW t \in Threads, ReleaseEntry(t) PROVE Reached'
  BY <1>12 DEF ReleaseEntry
<1>13. ASSUME NEW t \in Threads, ReleaseBytes(t) PROVE Reached'
  BY <1>13 DEF ReleaseBytes
<1>14. ASSUME NEW t \in Threads, Use(t) PROVE Reached'
  BY <1>14 DEF Use
<1>15. ASSUME NEW t \in Threads, DropReference(t) PROVE Reached'
  BY <1>15 DEF DropReference, LastReference, Return
<1>16. CASE UNCHANGED vars
  BY <1>16 DEF vars
<1> QED
  BY <1>1, <1>2, <1>3, <1>4, <1>5, <1>6, <1>7, <1>8, <1>9, <1>10, <1>11, <1>12, <1>13,
     <1>14, <1>15, <1>16 DEF Next, Begin, Continue

LEMMA AccountsAndReached == Spec => [](Accounts /\ Reached)
<1>1. Init => Accounts /\ Reached
  BY AccountsInit DEF Init, Reached
<1>2. Inductive /\ Accounts /\ Reached /\ [Next]_vars => Accounts' /\ Reached'
  BY AccountsStep, ReachedStep
<1>. QED BY <1>1, <1>2, InductiveInvariant, PTL DEF Spec

\* Neither counter ever drifts from the leases it counts, in whatever order creates and
\* releases add to it and subtract from it: nothing wraps below zero and no capacity is
\* lost, for any number of packs of any size.
THEOREM Accounting == Spec => []AccountingExact
<1>1. Accounts => AccountingExact
  BY DEF Accounts, AccountingExact, Counted, Charged, Size
<1>. QED BY <1>1, AccountsAndReached, PTL

\* No admitted pack is lost: the registry has it, or a call in progress that will
\* publish it, use it or give its quota back.
THEOREM NothingLeaks == Spec => []Reached
<1>. QED BY AccountsAndReached, PTL

-----------------------------------------------------------------------------
(* The bridge implements the table of handles, step by step.               *)

\* The pack that the caller's reference denotes, which the table calls using.
Using == [t \in Threads |-> IF pc[t] \in Owning THEN pack[t] ELSE NoPack]

\* A place of a call that owns no reference is not seen from outside.
LEMMA UsingSame ==
  ASSUME \A t \in Threads : (pc[t] \in Owning \/ pc'[t] \in Owning) =>
           pc[t] \in Owning /\ pc'[t] \in Owning /\ pack'[t] = pack[t]
  PROVE  Using' = Using
<1>. QED BY DEF Using

\* A lease that moves within what is counted changes no count.
LEMMA CountedSame ==
  ASSUME TypeOK, NEW p \in Packs, NEW state, lease' = [lease EXCEPT ![p] = state],
         lease[p] \in {"adding", "held"} <=> state \in {"adding", "held"}
  PROVE  Counted' = Counted
<1>. QED BY DEF Counted, TypeOK

\* The table's sum is the bridge's.
LEMMA BytesAreSize ==
  ASSUME NEW S
  PROVE  HT!BytesOf(S) = Size(S)
BY DEF HT!BytesOf, HT!MapThenSumSet, HT!MapThenFoldSet, Size, MapThenSumSet, MapThenFoldSet

\* So is its count.
LEMMA CountIsCardinality ==
  ASSUME NEW S
  PROVE  HT!Cardinality(S) = Cardinality(S)
BY DEF HT!Cardinality, Cardinality

\* The first of the two additions is where a create is admitted: although releases ran
\* between the loads and it, both quotas hold with the new pack.
LEMMA AdmitStep ==
  ASSUME Inductive, Accounts, Reached, NEW t \in Threads, ReserveAddEntry(t),
         NEW p \in Packs, p = pack[t]
  PROVE  HT!Admit(p)
<1>. USE DEF Inductive
<1>1. /\ lease[p] = "unused" /\ lease' = [lease EXCEPT ![p] = "adding"]
      /\ pc[t] = "loadBytes"
  BY DEF ReserveAddEntry, References, LeaseAt, Ownership, Holding, PC, Owning, Creating, Reserving
<1>2. p \notin Counted /\ Counted' = Counted \cup {p}
  BY <1>1 DEF Counted, TypeOK
<1>3. Cardinality(Counted) < MaxLiveEntries
  <2>1. liveEntries <= seen[t] /\ seen[t] < MaxLiveEntries
    BY <1>1 DEF ReserveAddEntry, Fits, QuotaReserved
  <2>. QED BY <2>1, ConstantsAssumption DEF Accounts, TypeOK
\* Nobody else is adding, so that what counts is in both counters already.
<1>4. Counted \subseteq Charged
  <2>1. SUFFICES ASSUME NEW q \in Packs, lease[q] = "adding" PROVE FALSE
    BY DEF Counted, Charged
  <2>2. ~Linked(q)
    BY <2>1, ConstantsAssumption DEF Linked, References
  <2>3. PICK u \in Threads : pack[u] = q /\ pc[u] \in Holding
    BY <2>1, <2>2 DEF Reached
  <2>4. pc[u] = "addBytes"
    BY <2>1, <2>3 DEF References, LeaseAt
  <2>. QED BY <1>1, <2>4 DEF Exclusion, OneBuilder, Creating, Reserving
<1>5. Size(Counted) + PackBytes[p] <= MaxAggregateBytes
  <2>1. packedBytes + PackBytes[p] <= MaxAggregateBytes /\ packedBytes = Size(Charged)
    BY DEF ReserveAddEntry, Fits, Accounts
  <2>2. Charged \in SUBSET Packs /\ IsFiniteSet(Charged) /\ IsFiniteSet(Counted)
    BY DEF Accounts, Charged
  <2>3. Size(Counted) <= Size(Charged)
    BY <1>4, <2>2, SizeMonotone
  <2>4. Size(Counted) \in Nat /\ Size(Charged) \in Nat /\ PackBytes[p] \in Nat
    BY <1>1, <1>4, <2>2, SizeType, ConstantsAssumption
  <2>. QED BY <2>1, <2>3, <2>4, ConstantsAssumption
<1>6. UNCHANGED entries /\ Using' = Using
  <2>1. pc' = [pc EXCEPT ![t] = "addBytes"] /\ UNCHANGED <<entries, pack>>
    BY DEF ReserveAddEntry, Goto
  <2>. QED BY <1>1, <2>1, UsingSame DEF Owning, TypeOK
<1>7. HT!Cardinality(Counted) < MaxLiveEntries
  BY <1>3, CountIsCardinality
<1>8. HT!BytesOf(Counted) + PackBytes[p] <= MaxAggregateBytes
  BY <1>5, BytesAreSize
<1>. QED BY <1>2, <1>6, <1>7, <1>8 DEF HT!Admit, Counted, Using

\* Each step of a call is a step of the table, or one that no caller can tell.
LEMMA TableStep ==
  ASSUME Inductive, Accounts, Reached, [Next]_vars
  PROVE  [HT!Next]_(HT!tableVars)
<1>. USE DEF Inductive
\* Steps inside a call: nothing that a caller can tell has changed.
<1>0. ASSUME UNCHANGED <<entries, Using, Counted>>
      PROVE  [HT!Next]_(HT!tableVars)
  BY <1>0 DEF HT!tableVars, Using, Counted
<1>1. ASSUME NEW t \in Threads, NEW p \in Packs, ReserveLoadEntries(t, p)
      PROVE  [HT!Next]_(HT!tableVars)
  <2>1. Using' = Using
    BY <1>1, UsingSame DEF ReserveLoadEntries, Goto, TypeOK, Owning
  <2>. QED BY <1>0, <1>1, <2>1 DEF ReserveLoadEntries, quota, Counted
<1>2. ASSUME NEW t \in Threads, NEW h \in delivered, Lookup(t, h)
      PROVE  [HT!Next]_(HT!tableVars)
  <2>1. h \in Handles /\ pc[t] = "idle" /\ entries[h] # NoPack /\ UNCHANGED <<entries, lease>>
    BY <1>2 DEF Lookup, TakeReference, TypeOK, quota
  <2>2. pc' = [pc EXCEPT ![t] = "use"] /\ pack' = [pack EXCEPT ![t] = entries[h]]
    BY <1>2 DEF Lookup, TakeReference, Goto
  <2>3. Using[t] = NoPack /\ Using' = [Using EXCEPT ![t] = entries[h]]
    BY <2>1, <2>2 DEF Using, Owning, TypeOK
  <2>4. HT!Acquire(t, h)
    BY <2>1, <2>3 DEF HT!Acquire, Using
  <2>. QED BY <2>1, <2>4 DEF HT!Next
<1>3. ASSUME NEW t \in Threads, NEW h \in delivered, Destroy(t, h)
      PROVE  [HT!Next]_(HT!tableVars)
  <2>1. /\ h \in Handles /\ pc[t] = "idle" /\ entries[h] # NoPack /\ UNCHANGED lease
        /\ entries' = [entries EXCEPT ![h] = NoPack]
    BY <1>3 DEF Destroy, TakeReference, TypeOK, quota
  <2>2. pc' = [pc EXCEPT ![t] = "drop"] /\ pack' = [pack EXCEPT ![t] = entries[h]]
    BY <1>3 DEF Destroy, TakeReference, Goto
  <2>3. Using[t] = NoPack /\ Using' = [Using EXCEPT ![t] = entries[h]]
    BY <2>1, <2>2 DEF Using, Owning, TypeOK
  <2>4. HT!Remove(t, h)
    BY <2>1, <2>3 DEF HT!Remove, Using
  <2>. QED BY <2>1, <2>4 DEF HT!Next
<1>4. ASSUME NEW t \in Threads, ReserveRefused(t)
      PROVE  [HT!Next]_(HT!tableVars)
  <2>1. Using' = Using
    BY <1>4, UsingSame DEF ReserveRefused, Return, Goto, TypeOK, Owning
  <2>. QED BY <1>0, <1>4, <2>1 DEF ReserveRefused, quota, Counted
<1>5. ASSUME NEW t \in Threads, ReserveAddEntry(t)
      PROVE  [HT!Next]_(HT!tableVars)
  <2>1. PICK p \in Packs : p = pack[t]
    BY <1>5 DEF ReserveAddEntry, Ownership, Holding, PC, Owning, Creating, Reserving
  <2>2. HT!Admit(p)
    BY <1>5, <2>1, AdmitStep
  <2>. QED BY ONLY <2>2, p \in Packs DEF HT!Next
<1>6. ASSUME NEW t \in Threads, ReserveAddBytes(t)
      PROVE  [HT!Next]_(HT!tableVars)
  <2>1. Using' = Using
    BY <1>6, UsingSame DEF ReserveAddBytes, Goto, TypeOK, Owning
  <2>2. Counted' = Counted
    <3>1. pack[t] \in Packs /\ lease[pack[t]] = "adding"
      BY <1>6 DEF ReserveAddBytes, References, LeaseAt, Ownership, Holding, PC, Owning, Creating,
                  Reserving
    <3>. QED BY <1>6, <3>1, CountedSame DEF ReserveAddBytes
  <2>. QED BY <1>0, <1>6, <2>1, <2>2 DEF ReserveAddBytes
<1>7. ASSUME NEW t \in Threads, Build(t)
      PROVE  [HT!Next]_(HT!tableVars)
  <2>1. Using' = Using
    BY <1>7, UsingSame DEF Build, Goto, TypeOK, Owning
  <2>. QED BY <1>0, <1>7, <2>1 DEF Build, quota, Counted
<1>8. ASSUME NEW t \in Threads, NEW h \in Handles, Publish(t, h)
      PROVE  [HT!Next]_(HT!tableVars)
  <2>. DEFINE p == pack[t]
  <2>1. /\ pc[t] = "publish" /\ p \in Packs /\ lease[p] = "held"
        /\ entries[h] = NoPack /\ entries' = [entries EXCEPT ![h] = p] /\ UNCHANGED lease
    BY <1>8 DEF Publish, quota, References, LeaseAt, Ownership, Holding, PC, Owning, Creating,
                Reserving
  <2>2. \A g \in Handles : entries[g] # p
    BY <2>1, ConstantsAssumption DEF References, Owning
  <2>3. Using' = Using
    BY <1>8, UsingSame DEF Publish, Goto, TypeOK, Owning
  <2>4. HT!Publish(p, h)
    BY <2>1, <2>2, <2>3 DEF HT!Publish, Using
  <2>. QED BY <2>1, <2>4 DEF HT!Next
<1>9. ASSUME NEW t \in Threads, PublishFails(t)
      PROVE  [HT!Next]_(HT!tableVars)
  <2>1. Using' = Using
    BY <1>9, UsingSame DEF PublishFails, Goto, TypeOK, Owning
  <2>. QED BY <1>0, <1>9, <2>1 DEF PublishFails, quota, Counted
<1>10. ASSUME NEW t \in Threads, Commit(t)
      PROVE  [HT!Next]_(HT!tableVars)
  <2>1. Using' = Using
    BY <1>10, UsingSame DEF Commit, Goto, TypeOK, Owning
  <2>. QED BY <1>0, <1>10, <2>1 DEF Commit, quota, Counted
<1>11. ASSUME NEW t \in Threads, Unreserve(t)
      PROVE  [HT!Next]_(HT!tableVars)
  <2>1. Using' = Using
    BY <1>11, UsingSame DEF Unreserve, Goto, TypeOK, Owning
  <2>. QED BY <1>0, <1>11, <2>1 DEF Unreserve, quota, Counted
<1>12. ASSUME NEW t \in Threads, ReleaseEntry(t)
      PROVE  [HT!Next]_(HT!tableVars)
  <2>1. /\ pc[t] \in {"returnEntry", "dropEntry"} /\ pack[t] \in Packs /\ lease[pack[t]] = "held"
        /\ lease' = [lease EXCEPT ![pack[t]] = "releasing"] /\ UNCHANGED entries
    BY <1>12 DEF ReleaseEntry, References, LeaseAt, Ownership, Holding, PC, Owning, Creating,
                 Reserving
  <2>2. PICK p \in Packs : p = pack[t]
    BY <2>1
  <2>3. p \in Counted /\ Counted' = Counted \ {p}
    BY <2>1, <2>2 DEF Counted, TypeOK
  <2>4. \A h \in Handles : entries[h] # p
    BY <2>1, <2>2, ConstantsAssumption DEF References, Owning
  <2>5. \A u \in Threads : Using[u] # p
    BY <2>1, <2>2, ConstantsAssumption DEF Using, References, Owning
  <2>6. Using' = Using
    BY <1>12, UsingSame DEF ReleaseEntry, Goto, TypeOK, Owning
  <2>7. HT!Reclaim(p)
    BY <2>1, <2>3, <2>4, <2>5, <2>6 DEF HT!Reclaim, Using, Counted
  <2>. QED BY ONLY <2>7, p \in Packs DEF HT!Next
<1>13. ASSUME NEW t \in Threads, ReleaseBytes(t)
      PROVE  [HT!Next]_(HT!tableVars)
  <2>1. Using' = Using
    BY <1>13, UsingSame DEF ReleaseBytes, Goto, TypeOK, Owning
  <2>2. Counted' = Counted
    <3>1. pack[t] \in Packs /\ lease[pack[t]] = "releasing"
      BY <1>13 DEF ReleaseBytes, References, LeaseAt, Ownership, Holding, PC, Owning, Creating,
                   Reserving
    <3>. QED BY <1>13, <3>1, CountedSame DEF ReleaseBytes
  <2>. QED BY <1>0, <1>13, <2>1, <2>2 DEF ReleaseBytes
<1>14. ASSUME NEW t \in Threads, Use(t)
      PROVE  [HT!Next]_(HT!tableVars)
  <2>1. Using' = Using
    BY <1>14, UsingSame DEF Use, Goto, TypeOK, Owning
  <2>. QED BY <1>0, <1>14, <2>1 DEF Use, quota, Counted
<1>15. ASSUME NEW t \in Threads, DropReference(t)
      PROVE  [HT!Next]_(HT!tableVars)
  <2>1. pc[t] = "drop" /\ pack[t] \in Packs /\ UNCHANGED <<entries, lease>>
    BY <1>15 DEF DropReference, quota, Ownership, Holding, PC, Owning, Creating, Reserving
  <2>2. /\ \E next \in {"returnEntry", "idle"} : pc' = [pc EXCEPT ![t] = next]
        /\ \A u \in Threads \ {t} : pack'[u] = pack[u]
    BY <1>15 DEF DropReference, Return, Goto, TypeOK
  <2>3. Using[t] # NoPack /\ Using' = [Using EXCEPT ![t] = NoPack]
    BY <2>1, <2>2, ConstantsAssumption DEF Using, Owning, TypeOK
  <2>4. HT!Release(t)
    BY <2>1, <2>3 DEF HT!Release, Using
  <2>. QED BY <2>4 DEF HT!Next
<1>16. CASE UNCHANGED vars
  <2>1. UNCHANGED <<pc, pack, entries, lease>>
    BY <1>16 DEF vars, quota
  <2>. QED BY <1>0, <2>1 DEF Using, Counted
<1>. QED
  BY ONLY [Next]_vars, <1>1, <1>2, <1>3, <1>4, <1>5, <1>6, <1>7, <1>8, <1>9, <1>10, <1>11, <1>12,
          <1>13, <1>14, <1>15, <1>16 DEF Next, Begin, Continue

\* Every behaviour of the mutex, the reference counts and the two counters is one of the
\* table of handles: each lookup, removal, admission and reclaim takes effect at one
\* instant inside its call.
THEOREM BridgeIsATable == Spec => Implements
<1>1. Init => HT!Init
  BY DEF Init, HT!Init, Owning
<1>2. Inductive /\ Accounts /\ Reached /\ [Next]_vars => [HT!Next]_(HT!tableVars)
  BY TableStep
<1>. QED BY <1>1, <1>2, InductiveInvariant, AccountsAndReached, PTL DEF Spec, Implements, HT!Spec

-----------------------------------------------------------------------------
(* BridgeCall: one call of the C ABI, for every size of memory and every   *)
(* limit.  A sound range lies in memory, the first failing check is one of *)
(* those made, and each call is judged by itself.                          *)

\* What pointer_range may find wrong.
RangeFailures == {"null_argument", "limit_violation", "zero_length", "invalid_argument"}

\* A range that passes is not empty and lies between null and the last address.
LEMMA SoundRange ==
  ASSUME NEW p \in 0 .. Top, NEW m \in Nat,
         NEW type \in {Byte, Word, Float, Descriptor}, NEW max \in Nat
  PROVE  LET status == RangeStatus(p, m, type, max) IN
         /\ status \in RangeFailures \cup {"ok"}
         /\ status = "ok" =>
              /\ m > 0 /\ p > 0 /\ p + m * type.size <= Top /\ m * type.size \in 1 .. max
              /\ Cells(p, m, type) \subseteq 1 .. Top - 1
<1>1. type.size \in {1, 2, 4}
  BY DEF Byte, Word, Float, Descriptor
<1>2. PICK bytes : bytes = m * type.size
  OBVIOUS
<1>3. bytes \in Nat /\ (bytes > 0 => m > 0)
  BY <1>1, <1>2
<1>. Top \in Nat
  BY SizesAssumption
<1>4. \/ p = 0
      \/ p # 0 /\ (bytes > Top \/ bytes = 0 \/ bytes \in 1 .. Top)
  BY <1>3
<1>5. RangeStatus(p, m, type, max) \in RangeFailures \cup {"ok"}
  BY <1>2, <1>3, <1>4 DEF RangeStatus, RangeFailures
<1>6. ASSUME RangeStatus(p, m, type, max) = "ok"
      PROVE  p > 0 /\ bytes \in 1 .. max /\ p + bytes <= Top
  BY <1>2, <1>3, <1>4, <1>6 DEF RangeStatus
<1>. QED BY <1>2, <1>3, <1>5, <1>6 DEF Cells

\* Ranges that do not overlap share no cell.
LEMMA ApartIsDisjoint ==
  ASSUME NEW p \in Nat, NEW m \in Nat, NEW ptype \in {Byte, Word, Float},
         NEW q \in Nat, NEW n \in Nat, NEW qtype \in {Byte, Word, Float},
         ~Overlap(p, m, ptype, q, n, qtype)
  PROVE  Cells(p, m, ptype) \cap Cells(q, n, qtype) = {}
<1>1. ptype.size \in {1, 2} /\ qtype.size \in {1, 2}
  BY DEF Byte, Word, Float
<1>2. PICK a, b : a = m * ptype.size /\ b = n * qtype.size
  OBVIOUS
<1>3. a \in Nat /\ b \in Nat
  BY <1>1, <1>2
<1>. QED BY <1>2, <1>3 DEF Overlap, Cells

\* A set of the first numbers has a least one.
LEMMA LeastNumber ==
  ASSUME NEW n \in Nat, NEW A \in SUBSET (1 .. n), A # {}
  PROVE  \E i \in A : \A j \in A : i <= j
<1> DEFINE Bad == {1 .. i : i \in A}
<1>1. Bad # {}
  <2>1. PICK i \in A : TRUE
    OBVIOUS
  <2>2. 1 .. i \in Bad
    OBVIOUS
  <2>. QED BY <2>2
<1>2. \A V \in Bad : V \in SUBSET (1 .. n)
  OBVIOUS
<1>3. PICK U \in Bad : \A V \in Bad : V \subseteq U => V = U
  <2> HIDE DEF Bad
  <2>1. PICK S : S = 1 .. n
    OBVIOUS
  <2>2. IsFiniteSet(S)
    BY <2>1, FS_Interval
  <2>3. Bad \in SUBSET (SUBSET S)
    BY <1>2, <2>1
  <2>. QED BY <1>1, <2>2, <2>3, Smallest
<1>4. PICK i \in A : U = 1 .. i
  BY <1>3
<1>5. \A j \in A : 1 .. j \subseteq 1 .. i => 1 .. j = 1 .. i
  BY <1>3, <1>4
<1>6. \A j \in A : j < i => 1 .. j \subseteq 1 .. i /\ i \in 1 .. i /\ i \notin 1 .. j
  OBVIOUS
<1>. QED BY <1>5, <1>6

\* The first failure of a sequence of checks is one of them, and there is none
\* only if every check has passed.
LEMMA FirstFailureIsOne ==
  ASSUME NEW checks, NEW n \in Nat, DOMAIN checks = 1 .. n
  PROVE  LET first == FirstFailure(checks) IN
         /\ first = "ok" => \A i \in 1 .. n : checks[i] = "ok"
         /\ first # "ok" => \E i \in 1 .. n : first = checks[i]
<1> DEFINE failing == {i \in 1 .. n : checks[i] # "ok"}
<1>1. CASE failing = {}
  BY <1>1 DEF FirstFailure
<1>2. CASE failing # {}
  <2>1. \E i \in failing : \A j \in failing : i <= j
    BY <1>2, LeastNumber
  <2>2. (CHOOSE i \in failing : \A j \in failing : i <= j) \in failing
    BY <2>1
  <2>. QED BY <1>2, <2>2 DEF FirstFailure
<1>. QED BY <1>1, <1>2

LEMMA FirstOf2 ==
  ASSUME NEW a, NEW b
  PROVE  LET first == FirstFailure(<<a, b>>) IN
         /\ first \in {"ok", a, b}
         /\ first = "ok" => a = "ok" /\ b = "ok"
<1>1. PICK checks : checks = <<a, b>>
  OBVIOUS
<1>2. /\ DOMAIN checks = 1 .. 2
      /\ checks[1] = a /\ checks[2] = b
  BY <1>1
<1>3. \A i \in 1 .. 2 : checks[i] \in {a, b}
  BY <1>2
<1>4. /\ FirstFailure(checks) = "ok" => \A i \in 1 .. 2 : checks[i] = "ok"
      /\ FirstFailure(checks) # "ok" =>
           \E i \in 1 .. 2 : FirstFailure(checks) = checks[i]
  BY <1>2, FirstFailureIsOne
<1>. QED BY <1>1, <1>2, <1>3, <1>4

LEMMA FirstOf3 ==
  ASSUME NEW a, NEW b, NEW c
  PROVE  LET first == FirstFailure(<<a, b, c>>) IN
         /\ first \in {"ok", a, b, c}
         /\ first = "ok" => a = "ok" /\ b = "ok" /\ c = "ok"
<1>1. PICK checks : checks = <<a, b, c>>
  OBVIOUS
<1>2. /\ DOMAIN checks = 1 .. 3
      /\ checks[1] = a /\ checks[2] = b /\ checks[3] = c
  BY <1>1
<1>3. \A i \in 1 .. 3 : checks[i] \in {a, b, c}
  BY <1>2
<1>4. /\ FirstFailure(checks) = "ok" => \A i \in 1 .. 3 : checks[i] = "ok"
      /\ FirstFailure(checks) # "ok" =>
           \E i \in 1 .. 3 : FirstFailure(checks) = checks[i]
  BY <1>2, FirstFailureIsOne
<1>. QED BY <1>1, <1>2, <1>3, <1>4

LEMMA FirstOf5 ==
  ASSUME NEW a, NEW b, NEW c, NEW d, NEW e
  PROVE  LET first == FirstFailure(<<a, b, c, d, e>>) IN
         /\ first \in {"ok", a, b, c, d, e}
         /\ first = "ok" => a = "ok" /\ b = "ok" /\ c = "ok" /\ d = "ok" /\ e = "ok"
<1>1. PICK checks : checks = <<a, b, c, d, e>>
  OBVIOUS
<1>2. /\ DOMAIN checks = 1 .. 5
      /\ checks[1] = a /\ checks[2] = b /\ checks[3] = c /\ checks[4] = d /\ checks[5] = e
  BY <1>1
<1>3. \A i \in 1 .. 5 : checks[i] \in {a, b, c, d, e}
  BY <1>2
<1>4. /\ FirstFailure(checks) = "ok" => \A i \in 1 .. 5 : checks[i] = "ok"
      /\ FirstFailure(checks) # "ok" =>
           \E i \in 1 .. 5 : FirstFailure(checks) = checks[i]
  BY <1>2, FirstFailureIsOne
<1>. QED BY <1>1, <1>2, <1>3, <1>4

\* What any check may find wrong.
CheckFailures == RangeFailures \cup {"overlap", "invalid_handle"}

\* Where a run stands: until the kernel is called its output holds anything, after
\* that only sentinels and what the kernel has written.
Stages == {"prepared", "invoking", "ok", "panicked"} \cup RawFailures

RunningInv ==
  call.kind = "running" =>
    /\ call.stage \in Stages /\ call.pointer \in Nat
    /\ call.output = Cells(call.pointer, N, Float)
    /\ Cardinality(call.output) = N * Float.size
    /\ call.writes = [c \in call.output |-> call.writes[c]]
    /\ call.stage # "prepared" => \A c \in call.output : call.writes[c] \in {"nan", "inf", "result"}

\* What holds of the last call, and the diagnostic fits its buffer.
CallInv ==
  /\ errorLength \in 0 .. MaxErrorBytes - 1
  /\ RunningInv
  /\ WritesStayInside /\ RunAllOrNothing /\ AnswersWhole

\* Nothing is written to no cells, whatever it would be.
LEMMA NoCells ==
  ASSUME NEW a, NEW b
  PROVE  Fill({}, a) = Fill({}, b)
BY DEF Fill

LEMMA FillDomain ==
  ASSUME NEW cells, NEW a
  PROVE  DOMAIN Fill(cells, a) = cells
BY DEF Fill

\* A call returns with what it has written, and its diagnostic fits.
LEMMA ReturnsInside ==
  ASSUME CallInv,
         NEW kind, NEW status, NEW output, NEW input, NEW writes,
         Returns(kind, status, output, input, writes),
         DOMAIN writes \subseteq output, output \cup input \subseteq 1 .. Top - 1,
         output \cap input = {}, kind # "running"
  PROVE  /\ call'.kind = kind /\ call'.status = status /\ RunningInv'
         /\ call'.output = output /\ call'.writes = writes
         /\ errorLength' \in 0 .. MaxErrorBytes - 1
         /\ WritesStayInside'
<1>1. errorLength' \in 0 .. MaxErrorBytes - 1
  BY SizesAssumption DEF Returns, Diagnosed
<1>. QED BY <1>1 DEF Returns, WritesStayInside, RunningInv

\* A call that a check refuses writes nothing.
LEMMA Refused ==
  ASSUME CallInv, NEW kind, kind # "running", NEW status \in CheckFailures,
         Returns(kind, status, {}, {}, Untouched)
  PROVE  CallInv'
<1>1. DOMAIN Untouched = {}
  BY FillDomain DEF Untouched
<1>2. /\ call'.kind = kind /\ call'.status = status /\ RunningInv'
      /\ call'.output = {} /\ call'.writes = Untouched
      /\ errorLength' \in 0 .. MaxErrorBytes - 1
      /\ WritesStayInside'
  BY <1>1, ReturnsInside
<1>3. RunAllOrNothing'
  BY <1>2 DEF RunAllOrNothing, CheckFailures, RangeFailures, ExecutionFailures
<1>4. AnswersWhole'
  BY <1>2, NoCells DEF AnswersWhole, CheckFailures, RangeFailures, Untouched
<1>. QED BY <1>2, <1>3, <1>4 DEF CallInv

\* The status of an overlap check.
LEMMA OverlapChecked ==
  ASSUME NEW overlaps \in BOOLEAN
  PROVE  /\ OverlapStatus(overlaps) \in {"ok", "overlap"}
         /\ OverlapStatus(overlaps) = "ok" => ~overlaps
BY DEF OverlapStatus

LEMMA CreateJudged ==
  ASSUME CallInv,
         NEW p \in 0 .. Top, NEW q \in 0 .. Top, NEW out \in 0 .. Top,
         NEW m \in 0 .. MaxCount, NEW n \in 0 .. MaxCount,
         Create(p, m, q, n, out)
  PROVE  CallInv'
<1> DEFINE manifest == RangeStatus(p, m, Byte, MaxManifestBytes)
           payload == RangeStatus(q, n, Byte, MaxPayloadBytes)
           handle == RangeStatus(out, 1, Word, Word.size)
           ranges == FirstFailure(<<manifest, payload, handle>>)
           overlaps == \/ Overlap(p, m, Byte, q, n, Byte)
                       \/ Overlap(p, m, Byte, out, 1, Word)
                       \/ Overlap(q, n, Byte, out, 1, Word)
           overlap == OverlapStatus(overlaps)
           status == FirstFailure(<<ranges, overlap>>)
           input == Cells(p, m, Byte) \cup Cells(q, n, Byte)
           output == Cells(out, 1, Word)
<1>1. Top \in Nat /\ m \in Nat /\ n \in Nat /\ MaxManifestBytes \in Nat /\ MaxPayloadBytes \in Nat
      /\ Word.size = 2
  BY SizesAssumption DEF Word
<1>2. /\ manifest \in RangeFailures \cup {"ok"} /\ payload \in RangeFailures \cup {"ok"}
      /\ handle \in RangeFailures \cup {"ok"}
  BY <1>1, SoundRange
<1>3. /\ ranges \in RangeFailures \cup {"ok"}
      /\ ranges = "ok" => manifest = "ok" /\ payload = "ok" /\ handle = "ok"
  <2> HIDE DEF manifest, payload, handle
  <2>. QED BY <1>2, FirstOf3
<1>4. overlap \in {"ok", "overlap"} /\ (overlap = "ok" => ~overlaps)
  BY DEF OverlapStatus
<1>5. /\ status \in CheckFailures \cup {"ok"}
      /\ status = "ok" => ranges = "ok" /\ overlap = "ok"
  <2> HIDE DEF ranges, overlap
  <2>. QED BY <1>3, <1>4, FirstOf2 DEF CheckFailures
<1>6. CASE status # "ok"
  <2>1. Returns("create", status, {}, {}, Untouched)
    BY <1>6 DEF Create
  <2>. QED BY <1>5, <1>6, <2>1, Refused
<1>7. CASE status = "ok"
  <2>1. PICK result, value :
             /\ Returns("create", result, output, input, Fill(output, value))
             /\ value = IF result = "ok" THEN "result" ELSE "zero"
    BY <1>7 DEF Create
  <2>2. output \cup input \subseteq 1 .. Top - 1
    BY <1>1, <1>3, <1>5, <1>7, SoundRange
  <2>3. output \cap input = {}
    <3>1. /\ ~Overlap(p, m, Byte, out, 1, Word)
          /\ ~Overlap(q, n, Byte, out, 1, Word)
      BY <1>4, <1>5, <1>7
    <3>. QED BY <1>1, <3>1, ApartIsDisjoint
  <2>4. /\ call'.kind = "create" /\ call'.status = result /\ RunningInv'
        /\ call'.output = output /\ call'.writes = Fill(output, value)
        /\ errorLength' \in 0 .. MaxErrorBytes - 1
        /\ WritesStayInside'
    BY <2>1, <2>2, <2>3, FillDomain, ReturnsInside
  <2>. QED BY <2>1, <2>4 DEF CallInv, RunAllOrNothing, AnswersWhole
<1>. QED BY <1>6, <1>7

LEMMA RunJudged ==
  ASSUME CallInv, NEW h,
         NEW x \in 0 .. Top, NEW y \in 0 .. Top,
         NEW xlen \in 0 .. MaxCount, NEW ylen \in 0 .. MaxCount,
         Run(h, x, xlen, y, ylen)
  PROVE  CallInv'
<1> DEFINE handle == IF h \in live THEN "ok" ELSE "invalid_handle"
           vector == RangeStatus(x, xlen, Float, MaxVectorBytes)
           result == RangeStatus(y, ylen, Float, MaxVectorBytes)
           overlaps == Overlap(x, xlen, Float, y, ylen, Float)
           overlap == OverlapStatus(overlaps)
           lengths == IF xlen = K /\ ylen = N THEN "ok" ELSE "invalid_argument"
           refused == FirstFailure(<<handle, vector, result, overlap, lengths>>)
           input == Cells(x, xlen, Float)
           output == Cells(y, ylen, Float)
<1>1. Top \in Nat /\ xlen \in Nat /\ ylen \in Nat /\ N \in Nat /\ MaxVectorBytes \in Nat
  BY SizesAssumption
<1>2. vector \in RangeFailures \cup {"ok"} /\ result \in RangeFailures \cup {"ok"}
  BY <1>1, SoundRange
<1>3. overlap \in {"ok", "overlap"} /\ (overlap = "ok" => ~overlaps)
  BY DEF OverlapStatus
<1>4. /\ refused \in CheckFailures \cup {"ok"}
      /\ refused = "ok" => vector = "ok" /\ result = "ok" /\ overlap = "ok" /\ lengths = "ok"
  <2>1. handle \in CheckFailures \cup {"ok"} /\ lengths \in CheckFailures \cup {"ok"}
    BY DEF CheckFailures, RangeFailures
  <2> HIDE DEF handle, vector, result, overlap, lengths
  <2>. QED BY <1>2, <1>3, <2>1, FirstOf5 DEF CheckFailures
<1>5. CASE refused # "ok"
  <2>1. Returns("run", refused, {}, {}, Untouched)
    BY <1>5 DEF Run
  <2>. QED BY <1>4, <1>5, <2>1, Refused
<1>6. CASE refused = "ok"
  <2>1. /\ call' = [kind |-> "running", stage |-> "prepared", pointer |-> y,
                    output |-> output, input |-> input, writes |-> Fill(output, "caller")]
        /\ UNCHANGED errorLength
    BY <1>6 DEF Run, Lend
  <2>2. output \cup input \subseteq 1 .. Top - 1 /\ ylen > 0
    BY <1>1, <1>4, <1>6, SoundRange
  <2>3. output \cap input = {}
    <3>1. ~Overlap(x, xlen, Float, y, ylen, Float)
      BY <1>3, <1>4, <1>6
    <3>. QED BY <1>1, <3>1, ApartIsDisjoint
  <2>4. output = Cells(y, N, Float) /\ y \in Nat
    BY <1>1, <1>4, <1>6
  <2>5. Cardinality(output) = N * Float.size
    <3>1. output = y .. (y + N * 2 - 1) /\ N > 0 /\ Float.size = 2
      BY <1>4, <1>6, <2>2 DEF Cells, Float
    <3>2. Cardinality(y .. (y + N * 2 - 1)) = N * 2
      BY <1>1, <3>1, FS_Interval
    <3>. QED BY <3>1, <3>2
  <2> HIDE DEF output, input
  <2>6. RunningInv'
    BY <2>1, <2>4, <2>5 DEF RunningInv, Stages, Fill
  <2>7. WritesStayInside'
    BY <2>1, <2>2, <2>3, FillDomain DEF WritesStayInside
  <2>. QED BY <2>1, <2>6, <2>7 DEF CallInv, RunAllOrNothing, AnswersWhole
<1>. QED BY <1>5, <1>6

\* The steps of a run up to the answer of the kernel leave only sentinels and what
\* the kernel has written.
LEMMA KernelJudged ==
  ASSUME CallInv, ScrubOutput \/ Kernel
  PROVE  CallInv'
<1> DEFINE output == call.output
<1>0. call.kind = "running"
  BY DEF ScrubOutput, Kernel, Running
<1>1. /\ output = Cells(call.pointer, N, Float) /\ call.pointer \in Nat
      /\ Cardinality(output) = N * Float.size
      /\ output \cup call.input \subseteq 1 .. Top - 1 /\ output \cap call.input = {}
      /\ call.stage # "prepared" => \A c \in output : call.writes[c] \in {"nan", "inf", "result"}
  <2>1. call # Ready
    BY <1>0 DEF Ready
  <2>. QED BY <1>0, <2>1 DEF CallInv, RunningInv, WritesStayInside
<1>2. errorLength' \in 0 .. MaxErrorBytes - 1
  BY DEF ScrubOutput, Kernel, CallInv, Proceed, Lend
<1>3. ASSUME NEW writes, NEW stage \in Stages \ {"prepared"},
             Proceed(stage, writes),
             writes = [c \in output |-> writes[c]],
             \A c \in output : writes[c] \in {"nan", "inf", "result"}
      PROVE  CallInv'
  <2>1. /\ call'.kind = "running" /\ call'.stage = stage /\ call'.pointer = call.pointer
        /\ call'.output = output /\ call'.input = call.input /\ call'.writes = writes
    BY <1>3 DEF Proceed, Lend
  <2> HIDE DEF output
  <2>2. RunningInv'
    BY <1>1, <1>3, <2>1 DEF RunningInv
  <2>3. WritesStayInside'
    BY <1>1, <1>3, <2>1 DEF WritesStayInside
  <2>. QED BY <1>2, <2>1, <2>2, <2>3 DEF CallInv, RunAllOrNothing, AnswersWhole
<1>4. CASE ScrubOutput
  <2>1. PICK writes : writes = Fill(output, "nan")
    OBVIOUS
  <2>2. Proceed("invoking", writes) /\ "invoking" \in Stages \ {"prepared"}
    BY <1>4, <2>1 DEF ScrubOutput, Stages
  <2>3. writes = [c \in output |-> writes[c]] /\ \A c \in output : writes[c] = "nan"
    BY <2>1 DEF Fill
  <2> HIDE DEF output
  <2>. QED BY <1>3, <2>2, <2>3
<1>5. CASE Kernel
  <2>1. PICK float \in [0 .. N - 1 -> {"kept", "result", "inf", "nan"}],
             raw \in {"ok", "panicked"} \cup RawFailures : Proceed(raw, Stored(float))
    BY <1>5 DEF Kernel
  <2>2. \A c \in output : (c - call.pointer) \div Float.size \in 0 .. N - 1
    <3>1. Float.size = 2 /\ N \in Nat
      BY SizesAssumption DEF Float
    <3>2. output = call.pointer .. call.pointer + N * 2 - 1
      BY <1>1, <3>1 DEF Cells
    <3>3. ASSUME NEW q \in Nat, NEW c \in q .. q + N * 2 - 1
          PROVE  (c - q) \div 2 \in 0 .. N - 1
      BY ONLY <3>1, <3>3
    <3>. QED BY ONLY <1>1, <3>1, <3>2, <3>3
  <2>3. \A c \in output : call.writes[c] \in {"nan", "inf", "result"}
    BY <1>1, <1>5 DEF Kernel, Running
  <2>4. raw \in Stages \ {"prepared"}
    BY DEF Stages, RawFailures
  <2>5. PICK writes : writes = Stored(float)
    OBVIOUS
  <2>6. /\ writes = [c \in output |-> writes[c]]
        /\ \A c \in output : writes[c] \in {"nan", "inf", "result"}
    BY <2>1, <2>2, <2>3, <2>5 DEF Stored
  <2>7. Proceed(raw, writes)
    BY <2>1, <2>5
  <2> HIDE DEF output
  <2>. QED BY <1>3, <2>4, <2>6, <2>7
<1>. QED BY <1>4, <1>5

\* A run that ends has sentinels all over its output, or the kernel's values: the
\* finite scan finds a sentinel that the kernel has left.
LEMMA FinishJudged ==
  ASSUME CallInv, FiniteScan \/ KernelFails \/ ContainPanic
  PROVE  CallInv'
<1> DEFINE output == call.output
<1>1. /\ call.kind = "running" /\ Cardinality(output) = N * Float.size
      /\ call.writes = [c \in output |-> call.writes[c]]
      /\ \A c \in output : call.writes[c] \in {"nan", "inf", "result"}
      /\ output \cup call.input \subseteq 1 .. Top - 1 /\ output \cap call.input = {}
  BY DEF FiniteScan, KernelFails, ContainPanic, Running, RawFailures,
         CallInv, RunningInv, WritesStayInside, Ready
<1>2. PICK status, value :
           /\ Returns("run", status, output, call.input, Fill(output, value))
           /\ \/ status = "ok" /\ value = "result"
              \/ status \in ExecutionFailures /\ value = "nan"
  <2>1. CASE Finish("ok") /\ \A c \in output : call.writes[c] \in Finite
    <3>1. \A c \in output : call.writes[c] = "result"
      BY <1>1, <2>1 DEF Finite
    <3>2. call.writes = Fill(output, "result")
      BY <1>1, <3>1 DEF Fill
    <3>. QED BY <2>1, <3>2 DEF Finish
  <2>2. ASSUME NEW status \in ExecutionFailures, FinishScrubbed(status)
        PROVE  Returns("run", status, output, call.input, Fill(output, "nan"))
    BY <2>2 DEF FinishScrubbed
  <2>3. CASE FiniteScan
    BY <2>1, <2>2, <2>3 DEF FiniteScan, ExecutionFailures
  <2>4. CASE KernelFails
    <3>1. MapRuntimeError(call.stage) \in ExecutionFailures
      BY <2>4 DEF KernelFails, MapRuntimeError, RawFailures, ExecutionFailures
    <3>. QED BY <2>2, <2>4, <3>1 DEF KernelFails
  <2>5. CASE ContainPanic
    BY <2>2, <2>5 DEF ContainPanic, ExecutionFailures
  <2>. QED BY <2>3, <2>4, <2>5
<1> HIDE DEF output
<1>3. /\ call'.kind = "run" /\ call'.status = status /\ RunningInv'
      /\ call'.output = output /\ call'.writes = Fill(output, value)
      /\ errorLength' \in 0 .. MaxErrorBytes - 1
      /\ WritesStayInside'
  BY <1>1, <1>2, FillDomain, ReturnsInside DEF output
<1>4. RunAllOrNothing'
  <2>1. CASE status = "ok"
    <3>1. value = "result"
      BY <1>2, <2>1 DEF ExecutionFailures
    <3>2. Cardinality(call'.output) = N * Float.size
      BY <1>1, <1>3
    <3>. QED BY <1>3, <2>1, <3>1, <3>2 DEF RunAllOrNothing, ExecutionFailures
  <2>2. CASE status \in ExecutionFailures
    BY <1>2, <1>3, <2>2 DEF RunAllOrNothing, ExecutionFailures
  <2>. QED BY <1>2, <2>1, <2>2
<1>. QED BY <1>3, <1>4 DEF CallInv, AnswersWhole

LEMMA GetDescriptorJudged ==
  ASSUME CallInv, NEW h, NEW out \in 0 .. Top,
         GetDescriptor(h, out)
  PROVE  CallInv'
<1> DEFINE range == RangeStatus(out, 1, Descriptor, Descriptor.size)
           output == IF range = "ok" THEN Cells(out, 1, Descriptor) ELSE {}
<1>1. range \in RangeFailures \cup {"ok"} /\ output \subseteq 1 .. Top - 1
  <2>1. Top \in Nat /\ Descriptor.size = 4
    BY SizesAssumption DEF Descriptor
  <2>. QED BY <2>1, SoundRange
<1>2. PICK status, value :
           /\ Returns("descriptor", status, output, {}, Fill(output, value))
           /\ value = IF status = "ok" THEN "result" ELSE "zero"
  BY <1>1 DEF GetDescriptor
<1>3. /\ call'.kind = "descriptor" /\ call'.status = status /\ RunningInv'
      /\ call'.output = output /\ call'.writes = Fill(output, value)
      /\ errorLength' \in 0 .. MaxErrorBytes - 1
      /\ WritesStayInside'
  BY <1>1, <1>2, FillDomain, ReturnsInside
<1>. QED BY <1>2, <1>3 DEF CallInv, RunAllOrNothing, AnswersWhole

LEMMA DestroyJudged ==
  ASSUME CallInv, NEW h, DestroyHandle(h)
  PROVE  CallInv'
<1>1. PICK status : /\ Returns("destroy", status, {}, {}, Untouched)
                    /\ status \in {"ok", "invalid_handle"}
  BY DEF DestroyHandle
<1>2. DOMAIN Untouched = {}
  BY FillDomain DEF Untouched
<1>3. /\ call'.kind = "destroy" /\ RunningInv'
      /\ errorLength' \in 0 .. MaxErrorBytes - 1
      /\ WritesStayInside'
  BY <1>1, <1>2, ReturnsInside
<1>. QED BY <1>3 DEF CallInv, RunAllOrNothing, AnswersWhole

LEMMA LastErrorJudged ==
  ASSUME CallInv,
         NEW buffer \in 0 .. Top, NEW capacity \in 0 .. MaxCount, NEW required \in 0 .. Top,
         LastError(buffer, capacity, required)
  PROVE  CallInv'
<1> DEFINE sizeOnly == buffer = 0 /\ capacity = 0
           place == RangeStatus(required, 1, Word, Word.size)
           room == IF sizeOnly THEN "ok"
                   ELSE RangeStatus(buffer, capacity, Byte, MaxErrorBytes)
           overlaps == /\ ~sizeOnly
                       /\ Overlap(buffer, capacity, Byte, required, 1, Word)
           overlap == OverlapStatus(overlaps)
           refused == FirstFailure(<<place, room, overlap>>)
           size == Cells(required, 1, Word)
           copied == IF errorLength < capacity THEN errorLength ELSE capacity - 1
           text == IF sizeOnly THEN {} ELSE buffer .. (buffer + copied)
           all == IF sizeOnly THEN {} ELSE Cells(buffer, capacity, Byte)
<1>1. /\ Top \in Nat /\ capacity \in Nat /\ MaxErrorBytes \in Nat \ {0, 1}
      /\ Word.size = 2 /\ Byte.size = 1 /\ errorLength \in 0 .. MaxErrorBytes - 1
  BY SizesAssumption DEF Word, Byte, CallInv
<1>2. place \in RangeFailures \cup {"ok"} /\ room \in RangeFailures \cup {"ok"}
  BY <1>1, SoundRange
<1>3. overlap \in {"ok", "overlap"} /\ (overlap = "ok" => ~overlaps)
  BY DEF OverlapStatus
<1>4. /\ refused \in CheckFailures \cup {"ok"}
      /\ refused = "ok" => place = "ok" /\ room = "ok" /\ overlap = "ok"
  <2> HIDE DEF place, room, overlap
  <2>. QED BY <1>2, <1>3, FirstOf3 DEF CheckFailures
<1>5. CASE refused # "ok"
  <2>1. Returns("last_error", refused, {}, {}, Untouched)
    BY <1>5 DEF LastError
  <2>. QED BY <1>4, <1>5, <2>1, Refused
<1>6. CASE refused = "ok"
  <2>1. /\ call' = [kind |-> "last_error",
                    status |-> IF sizeOnly \/ copied = errorLength THEN "ok" ELSE "truncated",
                    output |-> size \cup all,
                    input |-> {},
                    writes |-> [c \in size \cup text |->
                                  IF c \in size THEN "size"
                                  ELSE IF c = buffer + copied THEN "nul" ELSE "text"],
                    required |-> errorLength + 1,
                    capacity |-> capacity]
        /\ UNCHANGED errorLength
    BY <1>6 DEF LastError
  <2>2. size \subseteq 1 .. Top - 1 /\ all \subseteq 1 .. Top - 1
    BY <1>1, <1>4, <1>6, SoundRange
  <2>3. ~sizeOnly => capacity \in 1 .. MaxErrorBytes /\ size \cap all = {} /\ text \subseteq all
    <3>1. ASSUME ~sizeOnly PROVE capacity \in 1 .. MaxErrorBytes
      BY <1>1, <1>4, <1>6, <3>1, SoundRange
    <3>2. ASSUME ~sizeOnly PROVE size \cap all = {}
      <4>1. ~Overlap(buffer, capacity, Byte, required, 1, Word)
        BY <1>3, <1>4, <1>6, <3>2
      <4>. QED BY <1>1, <3>2, <4>1, ApartIsDisjoint
    <3>3. ASSUME ~sizeOnly PROVE text \subseteq all
      BY <1>1, <3>1, <3>3 DEF Cells
    <3>. QED BY <3>1, <3>2, <3>3
  <2>4. WritesStayInside'
    <3>1. text \subseteq all
      BY <2>3
    <3> HIDE DEF size, all, text
    <3>. QED BY <2>1, <2>2, <3>1 DEF WritesStayInside
  <2>5. AnswersWhole'
    <3>1. errorLength + 1 <= MaxErrorBytes
      BY <1>1
    <3>2. call'.status = "truncated" => capacity < errorLength + 1
      BY <1>1, <2>1, <2>3
    <3>3. ASSUME capacity > 0
          PROVE  {c \in DOMAIN call'.writes : call'.writes[c] = "nul"} = {buffer + copied}
      <4>1. ~sizeOnly /\ buffer + copied \in text /\ buffer + copied \notin size
        BY <1>1, <2>3, <3>3
      <4> HIDE DEF size, text, copied
      <4>. QED BY <2>1, <4>1
    <3>4. Cardinality({buffer + copied}) = 1
      BY FS_Singleton
    <3>5. capacity > 0 => Cardinality({c \in DOMAIN call'.writes : call'.writes[c] = "nul"}) = 1
      BY <3>3, <3>4
    <3>6. /\ call'.kind = "last_error" /\ call'.capacity = capacity
          /\ call'.required = errorLength + 1
      BY <2>1
    <3>7. call'.kind \notin {"descriptor", "create"}
      BY <3>6
    <3> HIDE DEF sizeOnly, size, copied, text, all
    <3>. QED BY <3>1, <3>2, <3>5, <3>6, <3>7 DEF AnswersWhole
  <2>6. RunAllOrNothing' /\ RunningInv'
    BY <2>1 DEF RunAllOrNothing, RunningInv
  <2>. QED BY <1>1, <2>1, <2>4, <2>5, <2>6 DEF CallInv
<1>. QED BY <1>5, <1>6

\* Every call is judged by itself, so that what holds of one holds of all.
LEMMA CallInvariant == CallSpec => []CallInv
<1>1. CallInit => CallInv
  BY SizesAssumption
     DEF CallInit, Ready, CallInv, RunningInv, WritesStayInside, RunAllOrNothing, AnswersWhole
<1>2. CallInv /\ [CallNext]_callVars => CallInv'
  <2> SUFFICES ASSUME CallInv, [CallNext]_callVars
               PROVE  CallInv'
    OBVIOUS
  <2>1. CASE NextCall
    BY <2>1 DEF NextCall, Ready, CallInv, RunningInv, WritesStayInside,
                RunAllOrNothing, AnswersWhole
  <2>2. CASE UNCHANGED callVars
    BY <2>2 DEF callVars, CallInv, RunningInv, WritesStayInside, RunAllOrNothing,
                AnswersWhole
  <2>. QED BY <2>1, <2>2, CreateJudged, RunJudged, KernelJudged, FinishJudged,
              GetDescriptorJudged, DestroyJudged, LastErrorJudged DEF CallNext, Pointers, Counts
<1>. QED BY <1>1, <1>2, PTL DEF CallSpec

\* No call writes outside the output it has validated, wraps past the end of the
\* address space or touches what it reads, for every pointer and length.
THEOREM WritesAlwaysInside == CallSpec => []WritesStayInside
<1>1. CallInv => WritesStayInside
  BY DEF CallInv
<1>. QED BY <1>1, CallInvariant, PTL

\* A run that is refused leaves the output alone, one that fails leaves only
\* sentinels, and of one that succeeds the kernel has written every float, whatever
\* part of the output it wrote and whatever status it returned.
THEOREM RunsAreAllOrNothing == CallSpec => []RunAllOrNothing
<1>1. CallInv => RunAllOrNothing
  BY DEF CallInv
<1>. QED BY <1>1, CallInvariant, PTL

\* A failed create or query zeroes a sound output, and a diagnostic always fits,
\* is truncated only in too small a buffer and ends in one NUL.
THEOREM AnswersAreWhole == CallSpec => []AnswersWhole
<1>1. CallInv => AnswersWhole
  BY DEF CallInv
<1>. QED BY <1>1, CallInvariant, PTL

=============================================================================
