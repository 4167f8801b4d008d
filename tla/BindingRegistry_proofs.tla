------------------------ MODULE BindingRegistry_proofs ------------------------
(***************************************************************************)
(* Proofs about BindingRegistry for any finite number of threads, any set  *)
(* of bindings and any number of calls.                                    *)
(*                                                                         *)
(* OwnershipAgrees is not inductive: it does not know that the thread that *)
(* closes an entry is the one that holds the registry's lock, that an ID   *)
(* just drawn is in nobody's hands, or that a running thread has the       *)
(* binding's lock.  CloseConverges rests on one more fact, which spans     *)
(* several steps: the ID a close() took from its binding is the binding's  *)
(* owner for as long as the binding is open.                               *)
(***************************************************************************)
EXTENDS BindingRegistry, FiniteSetTheorems, TLAPS

\* Where a call holds the registry's lock, needs its binding, needs its ID.
InRegistry == {"claim", "insert", "getCheck", "closeEntry", "clearing"}
OnBinding == {"register", "claim", "insert", "run", "running", "closeBinding", "recheck"}
OnID == {"claim", "insert", "get", "close", "getCheck", "closeEntry"}
Places == InRegistry \cup OnBinding \cup OnID \cup {"idle", "clear"}

TypeOK ==
  /\ registryLock \in Threads \cup {None}
  /\ nextId \in Nat \ {0}
  /\ entries \in [IDs -> Bindings \cup {None}]
  /\ bindingLock \in [Bindings -> Threads \cup {None}]
  /\ closed \in [Bindings -> BOOLEAN]
  /\ owner \in [Bindings -> IDs \cup {0}]
  /\ native \in [Bindings -> {"live", "gone"}]
  /\ pc \in [Threads -> Places]
  /\ target \in [Threads -> Bindings \cup {None}]
  /\ id \in [Threads -> IDs \cup {0}]
  /\ todo \in [Threads -> SUBSET IDs]
  /\ result \in [Threads -> {"none", "ok", "failed", "invalid"}]
  /\ calls \in [Threads -> 0 .. MaxCalls]

\* What a call has at each place.
FrameOK ==
  \A t \in Threads :
    /\ pc[t] \in OnBinding => target[t] \in Bindings
    /\ pc[t] \in OnID => id[t] \in IDs
    /\ pc[t] \in {"get", "getCheck", "clear", "clearing"} => target[t] = None

\* The registry's lock belongs to the thread inside it.  A run has its binding's.
LocksOK ==
  /\ \A t \in Threads : pc[t] \in InRegistry <=> registryLock = t
  /\ \A t \in Threads : pc[t] = "running" => bindingLock[target[t]] = t

\* An entry that was looked up is still there, and so is each that clear() has to come to.
EntriesHeld ==
  \A t \in Threads :
    /\ pc[t] \in {"getCheck", "closeEntry"} => entries[id[t]] # None
    /\ pc[t] = "clearing" => \A i \in todo[t] : entries[i] # None

\* An ID that was drawn is new until the registration has claimed and inserted it.
FreshIDs ==
  /\ \A b \in Bindings : owner[b] < nextId
  /\ \A n \in IDs : entries[n] # None => n < nextId
  /\ \A t \in Threads :
       pc[t] \in {"claim", "insert"} => id[t] < nextId /\ entries[id[t]] = None
  /\ \A t \in Threads, b \in Bindings : pc[t] = "claim" => owner[b] # id[t]
  /\ \A t \in Threads : pc[t] = "insert" => ~closed[target[t]] /\ owner[target[t]] = id[t]

\* A binding that has an ID nobody can look up is in the hands of its registration.
OwnersEntered ==
  \A b \in Bindings, n \in IDs :
    owner[b] = n =>
      entries[n] = b \/ \E t \in Threads : pc[t] = "insert" /\ id[t] = n /\ target[t] = b

\* close() has the ID its binding is known by, as long as the binding is open.
CloseHasOwner ==
  \A t \in Threads : target[t] # None =>
    /\ pc[t] \in {"close", "closeEntry"} => closed[target[t]] \/ owner[target[t]] = id[t]
    /\ pc[t] = "recheck" => closed[target[t]]

\* Every draw is a call of its own, so that no more IDs are drawn than calls begun.
Begun == {c \in Threads \X (1 .. MaxCalls) : c[2] <= calls[c[1]]}
Registering == {t \in Threads : pc[t] = "register"}
DrawsBounded == nextId + Cardinality(Registering) <= Cardinality(Begun) + 1

SafetyInv ==
  /\ FrameOK /\ LocksOK /\ EntriesHeld /\ FreshIDs
  /\ OwnersEntered /\ CloseHasOwner /\ OwnershipAgrees

IInv == TypeOK /\ DrawsBounded /\ SafetyInv

-----------------------------------------------------------------------------
LEMMA IDsAreNumbers == IDs \subseteq Nat \ {0} /\ 0 \notin IDs
  BY DEF IDs

\* Destroying a handle closes the binding and only then leaves no handle behind.
LEMMA DestroyCloses ==
  ASSUME TypeOK, NEW b \in Bindings, NEW answer, Destroy(b, answer)
  PROVE  /\ native' \in [Bindings -> {"live", "gone"}]
         /\ closed' \in [Bindings -> BOOLEAN]
         /\ closed'[b] <=> answer # "failed"
         /\ closed'[b] => native'[b] = "gone"
         /\ answer \in {"ok", "failed", "absent"}
         /\ \A c \in Bindings \ {b} : closed'[c] = closed[c] /\ native'[c] = native[c]
<1>1. closed' = [closed EXCEPT ![b] = answer # "failed"]
  BY DEF Destroy
<1>2. closed' \in [Bindings -> BOOLEAN]
  BY <1>1, Zenon DEF TypeOK
<1>3. closed'[b] = (answer # "failed")
  BY <1>1, Zenon DEF TypeOK
<1>4. \A c \in Bindings \ {b} : closed'[c] = closed[c]
  BY <1>1, Zenon DEF TypeOK
<1>5. /\ native' \in [Bindings -> {"live", "gone"}]
      /\ \A c \in Bindings \ {b} : native'[c] = native[c]
      /\ answer # "failed" => native'[b] = "gone"
      /\ answer \in {"ok", "failed", "absent"}
  BY DEF Destroy, TypeOK
<1>. QED BY <1>2, <1>3, <1>4, <1>5

\* An entry names an open binding that names it, so that closing an entry always
\* destroys, and gives up both names or neither.
LEMMA CloseLockedCloses ==
  ASSUME TypeOK, OwnershipAgrees, NEW t \in Threads, NEW i \in IDs, entries[i] # None,
         NEW answer, CloseLocked(t, i, answer)
  PROVE  LET b == entries[i] IN
         /\ b \in Bindings /\ owner[b] = i /\ ~closed[b]
         /\ bindingLock[b] \in {None, t}
         /\ answer \in {"ok", "failed", "absent"}
         /\ native' \in [Bindings -> {"live", "gone"}]
         /\ closed' \in [Bindings -> BOOLEAN]
         /\ closed'[b] <=> answer # "failed"
         /\ closed'[b] => native'[b] = "gone"
         /\ \A c \in Bindings \ {b} : closed'[c] = closed[c] /\ native'[c] = native[c]
         /\ owner' = IF answer = "failed" THEN owner ELSE [owner EXCEPT ![b] = 0]
         /\ entries' = IF answer = "failed" THEN entries ELSE [entries EXCEPT ![i] = None]
         /\ UNCHANGED <<nextId, bindingLock>>
<1>. DEFINE b == entries[i]
<1>1. b \in Bindings /\ owner[b] = i /\ ~closed[b]
  BY DEF TypeOK, OwnershipAgrees
<1>2. Destroy(b, answer)
  BY <1>1 DEF CloseLocked
<1>. HIDE DEF b
<1>3. /\ owner' = IF answer = "failed" THEN owner ELSE [owner EXCEPT ![b] = 0]
      /\ entries' = IF answer = "failed" THEN entries ELSE [entries EXCEPT ![i] = None]
      /\ UNCHANGED <<nextId, bindingLock>>
      /\ bindingLock[b] \in {None, t}
  BY DEF CloseLocked, Free, b
<1>. QED BY <1>1, <1>2, <1>3, DestroyCloses DEF b

-----------------------------------------------------------------------------
\* No step of a call takes a variable out of its type, as long as the IDs last.
LEMMA TypeStep ==
  ASSUME TypeOK, SafetyInv, [Next]_vars,
         \A t \in Threads : pc[t] = "register" => nextId \in IDs
  PROVE  TypeOK'
<1> USE CallsAssumption, IDsAreNumbers
    DEF registry, bindings, frame, TypeOK, Places, InRegistry, OnBinding, OnID, Goto, Stay, Return
<1>1. ASSUME NEW t \in Threads, BeginCall(t)
      PROVE  TypeOK'
  BY <1>1 DEF BeginCall, Begin
<1>2. ASSUME NEW t \in Threads, RunBegins(t)
      PROVE  TypeOK'
  <2>1. CASE closed[target[t]]
    BY <1>2, <2>1 DEF RunBegins
  <2>2. CASE ~closed[target[t]]
    BY <1>2, <2>2 DEF RunBegins
  <2> QED BY <2>1, <2>2
<1>3. ASSUME NEW t \in Threads, RunEnds(t)
      PROVE  TypeOK'
  <2>1. PICK answer \in RunAnswers(target[t]) : Return(t, answer)
    BY <1>3 DEF RunEnds
  <2>2. answer \in {"ok", "failed", "invalid"}
    BY DEF RunAnswers
  <2> QED BY <1>3, <2>1, <2>2 DEF RunEnds
<1>4. ASSUME NEW t \in Threads, CloseUnowned(t)
      PROVE  TypeOK'
  <2>1. CASE closed[target[t]]
    BY <1>4, <2>1 DEF CloseUnowned
  <2>2. CASE ~closed[target[t]]
    <3>1. target[t] \in Bindings
      BY <1>4 DEF CloseUnowned, SafetyInv, FrameOK
    <3>2. native' \in [Bindings -> {"live", "gone"}] /\ closed' \in [Bindings -> BOOLEAN]
      BY <1>4, <2>2, <3>1, DestroyCloses DEF CloseUnowned
    <3> QED BY <1>4, <2>2, <3>2 DEF CloseUnowned
  <2> QED BY <2>1, <2>2
<1>5. ASSUME NEW t \in Threads, CloseOwned(t)
      PROVE  TypeOK'
  <2>1. target[t] \in Bindings
    BY <1>5 DEF CloseOwned, SafetyInv, FrameOK
  <2> QED BY <1>5, <2>1 DEF CloseOwned
<1>6. ASSUME NEW t \in Threads, RegisterDraws(t)
      PROVE  TypeOK'
  BY <1>6 DEF RegisterDraws
<1>7. ASSUME NEW t \in Threads, RegisterClaims(t)
      PROVE  TypeOK'
  <2>1. CASE closed[target[t]] \/ owner[target[t]] # 0
    BY <1>7, <2>1 DEF RegisterClaims
  <2>2. CASE ~(closed[target[t]] \/ owner[target[t]] # 0)
    BY <1>7, <2>2 DEF RegisterClaims
  <2> QED BY <2>1, <2>2
<1>8. ASSUME NEW t \in Threads, RegisterInserts(t)
      PROVE  TypeOK'
  BY <1>8 DEF RegisterInserts
<1>9. ASSUME NEW t \in Threads, LookUp(t)
      PROVE  TypeOK'
  BY <1>9 DEF LookUp
<1>10. ASSUME NEW t \in Threads, LookUpFails(t)
       PROVE  TypeOK'
  <2>1. CASE target[t] = None
    BY <1>10, <2>1 DEF LookUpFails
  <2>2. CASE target[t] # None
    BY <1>10, <2>2 DEF LookUpFails
  <2> QED BY <2>1, <2>2
<1>11. ASSUME NEW t \in Threads, Recheck(t)
       PROVE  TypeOK'
  BY <1>11 DEF Recheck
<1>12. ASSUME NEW t \in Threads, GetChecks(t)
       PROVE  TypeOK'
  BY <1>12 DEF GetChecks
<1>13. ASSUME NEW t \in Threads, CloseEntry(t)
       PROVE  TypeOK'
  <2>1. PICK answer \in {"ok", "failed", "absent"} :
          CloseLocked(t, id[t], answer) /\ Return(t, IF answer = "failed" THEN "failed" ELSE "ok")
    BY <1>13 DEF CloseEntry
  <2>2. PICK i \in IDs : i = id[t] /\ entries[i] # None
    BY <1>13 DEF CloseEntry, SafetyInv, FrameOK, EntriesHeld
  <2>3. /\ native' \in [Bindings -> {"live", "gone"}] /\ closed' \in [Bindings -> BOOLEAN]
        /\ owner' \in [Bindings -> IDs \cup {0}] /\ entries' \in [IDs -> Bindings \cup {None}]
        /\ UNCHANGED <<nextId, bindingLock>>
    BY <2>1, <2>2, CloseLockedCloses DEF SafetyInv
  <2>4. /\ pc' \in [Threads -> Places]
        /\ result' \in [Threads -> {"none", "ok", "failed", "invalid"}]
        /\ target' \in [Threads -> Bindings \cup {None}] /\ id' \in [Threads -> IDs \cup {0}]
    BY <2>1
  <2> QED BY <1>13, <2>3, <2>4 DEF CloseEntry
<1>14. ASSUME NEW t \in Threads, ClearBegins(t)
       PROVE  TypeOK'
  BY <1>14 DEF ClearBegins
<1>15. ASSUME NEW t \in Threads, ClearEnds(t)
       PROVE  TypeOK'
  BY <1>15 DEF ClearEnds
<1>16. ASSUME NEW t \in Threads, NEW i \in IDs, ClearNext(t, i)
       PROVE  TypeOK'
  <2>1. PICK answer \in {"ok", "failed", "absent"} :
          CloseLocked(t, i, answer) /\ id' = [id EXCEPT ![t] = IF answer = "failed" THEN i ELSE @]
    BY <1>16 DEF ClearNext
  <2>2. entries[i] # None
    BY <1>16 DEF ClearNext, SafetyInv, EntriesHeld
  <2>3. /\ native' \in [Bindings -> {"live", "gone"}] /\ closed' \in [Bindings -> BOOLEAN]
        /\ owner' \in [Bindings -> IDs \cup {0}] /\ entries' \in [IDs -> Bindings \cup {None}]
        /\ UNCHANGED <<nextId, bindingLock>>
    BY <2>1, <2>2, CloseLockedCloses DEF SafetyInv
  <2> QED BY <1>16, <2>1, <2>3 DEF ClearNext
<1>17. ASSUME NEW b \in Bindings, DestroyRaw(b)
       PROVE  TypeOK'
  BY <1>17 DEF DestroyRaw
<1>18. CASE UNCHANGED vars
  BY <1>18 DEF vars
<1> QED
  BY <1>1, <1>2, <1>3, <1>4, <1>5, <1>6, <1>7, <1>8, <1>9, <1>10, <1>11, <1>12, <1>13, <1>14,
     <1>15, <1>16, <1>17, <1>18 DEF Next, Continue

\* While nobody is inside the registry, every owner is entered.
LEMMA OwnersEnteredWhenFree ==
  ASSUME TypeOK, SafetyInv, registryLock = None, NEW b \in Bindings, owner[b] \in IDs
  PROVE  entries[owner[b]] = b
<1>1. \A t \in Threads : pc[t] # "insert"
  BY CallsAssumption DEF SafetyInv, LocksOK, InRegistry
<1>. QED BY <1>1 DEF SafetyInv, OwnersEntered

LEMMA OwnersAreNumbers ==
  ASSUME TypeOK, SafetyInv, NEW b \in Bindings
  PROVE  owner[b] \in Nat /\ owner[b] < nextId
<1>1. owner[b] \in IDs \cup {0}
  BY DEF TypeOK
<1>2. owner[b] < nextId
  BY DEF SafetyInv, FreshIDs
<1>3. IDs \cup {0} \subseteq Nat
  BY IDsAreNumbers
<1>. QED BY <1>1, <1>2, <1>3, Zenon

\* A call begins with what its place needs, and holds nothing yet.
LEMMA BeginCallSafe ==
  ASSUME TypeOK, SafetyInv, NEW t \in Threads, BeginCall(t)
  PROVE  SafetyInv'
<1>1. PICK place \in {"register", "run", "closeBinding", "get", "close", "clear"},
           b \in Bindings \cup {None}, i \in IDs \cup {0} :
        /\ Begin(t, place, b, i)
        /\ place \in {"register", "run", "closeBinding"} => b \in Bindings
        /\ place \in {"get", "close", "clear"} => b = None
        /\ place \in {"get", "close"} => i \in IDs
  BY DEF BeginCall
<1>. USE <1>1, CallsAssumption, IDsAreNumbers
    DEF Begin, Goto,
        registry, bindings, frame, InRegistry, OnBinding, OnID, TypeOK, SafetyInv, FrameOK,
        LocksOK, EntriesHeld, FreshIDs, OwnersEntered, CloseHasOwner, OwnershipAgrees
<1>2. FrameOK' OBVIOUS
<1>3. LocksOK'
  <2>1. ASSUME NEW u \in Threads PROVE (pc[u] \in InRegistry)' <=> registryLock' = u
    <3>1. CASE u = t BY <3>1
    <3>2. CASE u # t BY <3>2
    <3>. QED BY <3>1, <3>2
  <2>2. ASSUME NEW u \in Threads, pc'[u] = "running" PROVE bindingLock'[target'[u]] = u
    BY <2>2
  <2>. QED BY <2>1, <2>2
<1>4. EntriesHeld' OBVIOUS
<1>5. FreshIDs'
  <2>1. \A u \in Threads : pc'[u] \in {"claim", "insert"} =>
          pc[u] = pc'[u] /\ id'[u] = id[u] /\ target'[u] = target[u]
    OBVIOUS
  <2>. QED BY <2>1
<1>6. OwnersEntered' OBVIOUS
<1>7. CloseHasOwner' OBVIOUS
<1>8. OwnershipAgrees' OBVIOUS
<1>. QED BY <1>2, <1>3, <1>4, <1>5, <1>6, <1>7, <1>8

\* A run has the lock of an open binding, which nobody can close from then on.
LEMMA RunBeginsSafe ==
  ASSUME TypeOK, SafetyInv, NEW t \in Threads, RunBegins(t)
  PROVE  SafetyInv'
<1>. USE CallsAssumption, IDsAreNumbers
    DEF RunBegins, Goto, Stay, Return, Free,
        registry, bindings, frame, InRegistry, OnBinding, OnID, TypeOK, SafetyInv, FrameOK,
        LocksOK, EntriesHeld, FreshIDs, OwnersEntered, CloseHasOwner, OwnershipAgrees
<1>1. FrameOK' OBVIOUS
<1>2. LocksOK' OBVIOUS
<1>3. EntriesHeld' OBVIOUS
<1>4. FreshIDs' OBVIOUS
<1>5. OwnersEntered' OBVIOUS
<1>6. CloseHasOwner' OBVIOUS
<1>7. OwnershipAgrees'
  <2>1. CASE closed[target[t]] BY <2>1
  <2>2. CASE ~closed[target[t]] BY <2>2
  <2>. QED BY <2>1, <2>2
<1>. QED BY <1>1, <1>2, <1>3, <1>4, <1>5, <1>6, <1>7

LEMMA RunEndsSafe ==
  ASSUME TypeOK, SafetyInv, NEW t \in Threads, RunEnds(t)
  PROVE  SafetyInv'
<1>. USE CallsAssumption, IDsAreNumbers
    DEF RunEnds, Return,
        registry, bindings, frame, InRegistry, OnBinding, OnID, TypeOK, SafetyInv, FrameOK,
        LocksOK, EntriesHeld, FreshIDs, OwnersEntered, CloseHasOwner, OwnershipAgrees
<1>1. FrameOK' OBVIOUS
<1>2. LocksOK' OBVIOUS
<1>3. EntriesHeld' OBVIOUS
<1>4. FreshIDs' OBVIOUS
<1>5. OwnersEntered' OBVIOUS
<1>6. CloseHasOwner' OBVIOUS
<1>7. OwnershipAgrees' OBVIOUS
<1>. QED BY <1>1, <1>2, <1>3, <1>4, <1>5, <1>6, <1>7

\* The ID that close() takes along is the owner of its binding.
LEMMA CloseOwnedSafe ==
  ASSUME TypeOK, SafetyInv, NEW t \in Threads, CloseOwned(t)
  PROVE  SafetyInv'
<1>. USE CallsAssumption, IDsAreNumbers
    DEF CloseOwned, Goto, Free,
        registry, bindings, frame, InRegistry, OnBinding, OnID, TypeOK, SafetyInv, FrameOK,
        LocksOK, EntriesHeld, FreshIDs, OwnersEntered, CloseHasOwner, OwnershipAgrees
<1>1. FrameOK' OBVIOUS
<1>2. LocksOK' OBVIOUS
<1>3. EntriesHeld' OBVIOUS
<1>4. FreshIDs' OBVIOUS
<1>5. OwnersEntered' OBVIOUS
<1>6. CloseHasOwner' OBVIOUS
<1>7. OwnershipAgrees' OBVIOUS
<1>. QED BY <1>1, <1>2, <1>3, <1>4, <1>5, <1>6, <1>7

\* An ID that is drawn is nobody's, whatever was drawn and given up before.
LEMMA RegisterDrawsSafe ==
  ASSUME TypeOK, SafetyInv, NEW t \in Threads, RegisterDraws(t), nextId \in IDs
  PROVE  SafetyInv'
<1>. USE CallsAssumption, IDsAreNumbers
    DEF RegisterDraws, Goto,
        registry, bindings, frame, InRegistry, OnBinding, OnID, TypeOK, SafetyInv, FrameOK,
        LocksOK, EntriesHeld, FreshIDs, OwnersEntered, CloseHasOwner, OwnershipAgrees
<1>1. FrameOK' OBVIOUS
<1>2. LocksOK' OBVIOUS
<1>3. EntriesHeld' OBVIOUS
<1>4. FreshIDs'
  <2>1. \A u \in Threads : pc[u] \notin {"claim", "insert"}
    OBVIOUS
  <2>2. /\ \A b \in Bindings : owner'[b] < nextId'
        /\ \A n \in IDs : entries'[n] # None => n < nextId'
    <3>1. nextId' = nextId + 1 /\ nextId \in Nat
      OBVIOUS
    <3>2. ASSUME NEW b \in Bindings PROVE owner'[b] < nextId'
      <4>1. owner'[b] = owner[b]
        OBVIOUS
      <4>2. owner[b] \in Nat /\ owner[b] < nextId
        BY OwnersAreNumbers
      <4>. QED BY ONLY <3>1, <4>1, <4>2
    <3>3. ASSUME NEW n \in IDs, entries'[n] # None PROVE n < nextId'
      <4>1. n < nextId /\ n \in Nat
        BY <3>3
      <4>. QED BY ONLY <3>1, <4>1
    <3>. QED BY <3>2, <3>3
  <2>3. /\ \A u \in Threads : pc'[u] \in {"claim", "insert"} => u = t /\ pc'[u] = "claim"
        /\ id'[t] = nextId /\ entries'[nextId] = None /\ nextId < nextId'
        /\ \A b \in Bindings : owner'[b] # nextId
    BY <2>1
  <2>. QED BY <2>2, <2>3
<1>5. OwnersEntered' OBVIOUS
<1>6. CloseHasOwner' OBVIOUS
<1>7. OwnershipAgrees' OBVIOUS
<1>. QED BY <1>1, <1>2, <1>3, <1>4, <1>5, <1>6, <1>7

\* The binding names its ID first; the registry names it one step later.
LEMMA RegisterClaimsSafe ==
  ASSUME TypeOK, SafetyInv, NEW t \in Threads, RegisterClaims(t)
  PROVE  SafetyInv'
<1>. USE CallsAssumption, IDsAreNumbers
    DEF RegisterClaims, Goto, Stay, Return, Free,
        registry, bindings, frame, InRegistry, OnBinding, OnID, TypeOK, SafetyInv, FrameOK,
        LocksOK, EntriesHeld, FreshIDs, OwnersEntered, CloseHasOwner, OwnershipAgrees
<1>1. FrameOK' OBVIOUS
<1>2. LocksOK' OBVIOUS
<1>3. EntriesHeld' OBVIOUS
<1>4. FreshIDs'
  <2>1. CASE closed[target[t]] \/ owner[target[t]] # 0 BY <2>1
  <2>2. CASE ~(closed[target[t]] \/ owner[target[t]] # 0)
    <3>1. /\ owner' = [owner EXCEPT ![target[t]] = id[t]]
          /\ id' = id /\ target' = target /\ entries' = entries /\ nextId' = nextId
          /\ \A u \in Threads : pc'[u] \in {"claim", "insert"} => u = t /\ pc'[u] = "insert"
      BY <2>2
    <3>2. /\ target[t] \in Bindings /\ ~closed'[target[t]]
          /\ id[t] < nextId /\ entries[id[t]] = None
      BY <2>2
    <3>3. \A b \in Bindings : owner[b] < nextId
      OBVIOUS
    <3>. QED BY <3>1, <3>2, <3>3
  <2>. QED BY <2>1, <2>2
<1>5. OwnersEntered'
  <2>1. CASE closed[target[t]] \/ owner[target[t]] # 0 BY <2>1
  <2>2. CASE ~(closed[target[t]] \/ owner[target[t]] # 0)
    <3>1. /\ pc'[t] = "insert" /\ id'[t] = id[t] /\ target'[t] = target[t]
          /\ owner'[target[t]] = id[t] /\ entries' = entries
          /\ \A u \in Threads : pc[u] # "insert"
      BY <2>2
    <3>2. \A b \in Bindings : b # target[t] => owner'[b] = owner[b]
      BY <2>2
    <3>. QED BY <3>1, <3>2
  <2>. QED BY <2>1, <2>2
<1>6. CloseHasOwner' OBVIOUS
<1>7. OwnershipAgrees' OBVIOUS
<1>. QED BY <1>1, <1>2, <1>3, <1>4, <1>5, <1>6, <1>7

LEMMA RegisterInsertsSafe ==
  ASSUME TypeOK, SafetyInv, NEW t \in Threads, RegisterInserts(t)
  PROVE  SafetyInv'
<1>. USE CallsAssumption, IDsAreNumbers
    DEF RegisterInserts, Return,
        registry, bindings, frame, InRegistry, OnBinding, OnID, TypeOK, SafetyInv, FrameOK,
        LocksOK, EntriesHeld, FreshIDs, OwnersEntered, CloseHasOwner, OwnershipAgrees
<1>1. FrameOK' OBVIOUS
<1>2. LocksOK' OBVIOUS
<1>3. EntriesHeld' OBVIOUS
<1>4. FreshIDs' OBVIOUS
<1>5. OwnersEntered' OBVIOUS
<1>6. CloseHasOwner' OBVIOUS
<1>7. OwnershipAgrees' OBVIOUS
<1>. QED BY <1>1, <1>2, <1>3, <1>4, <1>5, <1>6, <1>7

\* The lock is taken with the entry there, and keeps it there.
LEMMA LookUpSafe ==
  ASSUME TypeOK, SafetyInv, NEW t \in Threads, LookUp(t)
  PROVE  SafetyInv'
<1>. USE CallsAssumption, IDsAreNumbers
    DEF LookUp, Goto, Stay,
        registry, bindings, frame, InRegistry, OnBinding, OnID, TypeOK, SafetyInv, FrameOK,
        LocksOK, EntriesHeld, FreshIDs, OwnersEntered, CloseHasOwner, OwnershipAgrees
<1>1. FrameOK' OBVIOUS
<1>2. LocksOK' OBVIOUS
<1>3. EntriesHeld' OBVIOUS
<1>4. FreshIDs' OBVIOUS
<1>5. OwnersEntered' OBVIOUS
<1>6. CloseHasOwner' OBVIOUS
<1>7. OwnershipAgrees' OBVIOUS
<1>. QED BY <1>1, <1>2, <1>3, <1>4, <1>5, <1>6, <1>7

LEMMA LookUpFailsSafe ==
  ASSUME TypeOK, SafetyInv, NEW t \in Threads, LookUpFails(t)
  PROVE  SafetyInv'
<1>. USE CallsAssumption, IDsAreNumbers
    DEF LookUpFails, Goto, Stay, Return,
        registry, bindings, frame, InRegistry, OnBinding, OnID, TypeOK, SafetyInv, FrameOK,
        LocksOK, EntriesHeld, FreshIDs, OwnersEntered, CloseHasOwner, OwnershipAgrees
<1>1. FrameOK' OBVIOUS
<1>2. LocksOK' OBVIOUS
<1>3. EntriesHeld' OBVIOUS
<1>4. FreshIDs' OBVIOUS
<1>5. OwnersEntered' OBVIOUS
<1>6. CloseHasOwner'
  <2>1. CASE target[t] = None BY <2>1
  <2>2. CASE target[t] # None
    <3>1. pc[t] = "close" /\ target[t] \in Bindings /\ id[t] \in IDs
      BY <2>2
    <3>2. registryLock = None /\ entries[id[t]] = None /\ target[t] # None
      BY <2>2
    <3>3. owner[target[t]] # id[t]
      BY ONLY <3>1, <3>2, OwnersEnteredWhenFree, TypeOK, SafetyInv
    <3>4. closed[target[t]]
      BY <3>1, <3>3
    <3>. QED BY <2>2, <3>4
  <2>. QED BY <2>1, <2>2
<1>7. OwnershipAgrees' OBVIOUS
<1>. QED BY <1>1, <1>2, <1>3, <1>4, <1>5, <1>6, <1>7

LEMMA RecheckSafe ==
  ASSUME TypeOK, SafetyInv, NEW t \in Threads, Recheck(t)
  PROVE  SafetyInv'
<1>. USE CallsAssumption, IDsAreNumbers
    DEF Recheck, Return, Free,
        registry, bindings, frame, InRegistry, OnBinding, OnID, TypeOK, SafetyInv, FrameOK,
        LocksOK, EntriesHeld, FreshIDs, OwnersEntered, CloseHasOwner, OwnershipAgrees
<1>1. FrameOK' OBVIOUS
<1>2. LocksOK' OBVIOUS
<1>3. EntriesHeld' OBVIOUS
<1>4. FreshIDs' OBVIOUS
<1>5. OwnersEntered' OBVIOUS
<1>6. CloseHasOwner' OBVIOUS
<1>7. OwnershipAgrees' OBVIOUS
<1>. QED BY <1>1, <1>2, <1>3, <1>4, <1>5, <1>6, <1>7

LEMMA GetChecksSafe ==
  ASSUME TypeOK, SafetyInv, NEW t \in Threads, GetChecks(t)
  PROVE  SafetyInv'
<1>. USE CallsAssumption, IDsAreNumbers
    DEF GetChecks, Return, Free,
        registry, bindings, frame, InRegistry, OnBinding, OnID, TypeOK, SafetyInv, FrameOK,
        LocksOK, EntriesHeld, FreshIDs, OwnersEntered, CloseHasOwner, OwnershipAgrees
<1>1. FrameOK' OBVIOUS
<1>2. LocksOK' OBVIOUS
<1>3. EntriesHeld' OBVIOUS
<1>4. FreshIDs' OBVIOUS
<1>5. OwnersEntered' OBVIOUS
<1>6. CloseHasOwner' OBVIOUS
<1>7. OwnershipAgrees' OBVIOUS
<1>. QED BY <1>1, <1>2, <1>3, <1>4, <1>5, <1>6, <1>7

LEMMA ClearBeginsSafe ==
  ASSUME TypeOK, SafetyInv, NEW t \in Threads, ClearBegins(t)
  PROVE  SafetyInv'
<1>. USE CallsAssumption, IDsAreNumbers
    DEF ClearBegins, Goto,
        registry, bindings, frame, InRegistry, OnBinding, OnID, TypeOK, SafetyInv, FrameOK,
        LocksOK, EntriesHeld, FreshIDs, OwnersEntered, CloseHasOwner, OwnershipAgrees
<1>1. FrameOK' OBVIOUS
<1>2. LocksOK' OBVIOUS
<1>3. EntriesHeld' OBVIOUS
<1>4. FreshIDs' OBVIOUS
<1>5. OwnersEntered' OBVIOUS
<1>6. CloseHasOwner' OBVIOUS
<1>7. OwnershipAgrees' OBVIOUS
<1>. QED BY <1>1, <1>2, <1>3, <1>4, <1>5, <1>6, <1>7

LEMMA ClearEndsSafe ==
  ASSUME TypeOK, SafetyInv, NEW t \in Threads, ClearEnds(t)
  PROVE  SafetyInv'
<1>. USE CallsAssumption, IDsAreNumbers
    DEF ClearEnds, Return,
        registry, bindings, frame, InRegistry, OnBinding, OnID, TypeOK, SafetyInv, FrameOK,
        LocksOK, EntriesHeld, FreshIDs, OwnersEntered, CloseHasOwner, OwnershipAgrees
<1>1. FrameOK' OBVIOUS
<1>2. LocksOK' OBVIOUS
<1>3. EntriesHeld' OBVIOUS
<1>4. FreshIDs' OBVIOUS
<1>5. OwnersEntered' OBVIOUS
<1>6. CloseHasOwner' OBVIOUS
<1>7. OwnershipAgrees' OBVIOUS
<1>. QED BY <1>1, <1>2, <1>3, <1>4, <1>5, <1>6, <1>7

\* close() of a binding destroys the handle or leaves everything to a retry.
LEMMA CloseUnownedSafe ==
  ASSUME TypeOK, SafetyInv, NEW t \in Threads, CloseUnowned(t)
  PROVE  SafetyInv'
<1>. DEFINE b == target[t]
<1>1. b \in Bindings /\ pc[t] = "closeBinding" /\ bindingLock[b] \in {None, t}
  BY DEF CloseUnowned, Free, SafetyInv, FrameOK, OnBinding
<1>2. /\ UNCHANGED <<registry, bindingLock, owner, todo, calls>>
      /\ pc' = [pc EXCEPT ![t] = "idle"]
      /\ target' = [target EXCEPT ![t] = None]
      /\ id' = [id EXCEPT ![t] = 0]
  BY DEF CloseUnowned, Return
<1>3. /\ \A c \in Bindings : closed[c] => closed'[c]
      /\ \A c \in Bindings : closed'[c] => native'[c] = "gone"
      /\ \A c \in Bindings \ {b} : closed'[c] = closed[c]
      /\ closed'[b] = closed[b] \/ owner[b] = 0
  <2>1. CASE closed[b]
    <3>1. UNCHANGED <<native, closed>>
      BY <2>1 DEF CloseUnowned
    <3>2. \A c \in Bindings : closed[c] => native[c] = "gone"
      BY DEF SafetyInv, OwnershipAgrees
    <3>. QED BY <2>1, <3>1, <3>2
  <2>2. CASE ~closed[b]
    <3>1. PICK answer : Destroy(b, answer)
      BY <2>2 DEF CloseUnowned
    <3>2. owner[b] = 0
      BY <2>2 DEF CloseUnowned
    <3>. QED BY <1>1, <2>2, <3>1, <3>2, DestroyCloses DEF SafetyInv, OwnershipAgrees
  <2>. QED BY <2>1, <2>2
<1>. HIDE DEF b
<1>. USE CallsAssumption, IDsAreNumbers, <1>1, <1>2
     DEF registry, InRegistry, OnBinding, OnID, TypeOK, SafetyInv, b
<1>4. FrameOK' BY DEF FrameOK
<1>5. LocksOK' BY DEF LocksOK
<1>6. EntriesHeld' BY DEF EntriesHeld
<1>7. FreshIDs'
  <2>1. \A u \in Threads : pc'[u] = "insert" => ~closed'[target'[u]]
    <3>. SUFFICES ASSUME NEW u \in Threads, pc'[u] = "insert" PROVE ~closed'[target'[u]]
      OBVIOUS
    <3>1. /\ pc[u] = "insert" /\ target'[u] = target[u] /\ target[u] \in Bindings
          /\ ~closed[target[u]] /\ owner[target[u]] # 0
      BY DEF FreshIDs, FrameOK
    <3>. QED BY <1>3, <3>1
  <2>. QED BY <2>1 DEF FreshIDs
<1>8. OwnersEntered' BY DEF OwnersEntered
<1>9. CloseHasOwner' BY <1>3 DEF CloseHasOwner
<1>10. OwnershipAgrees'
  <2>1. \A u \in Threads : pc'[u] = "running" => ~closed'[target'[u]]
    <3>. SUFFICES ASSUME NEW u \in Threads, pc'[u] = "running" PROVE ~closed'[target'[u]]
      OBVIOUS
    <3>1. /\ pc[u] = "running" /\ u # t /\ target'[u] = target[u] /\ target[u] \in Bindings
          /\ bindingLock[target[u]] = u /\ ~closed[target[u]]
      BY DEF LocksOK, FrameOK, OwnershipAgrees
    <3>2. target[u] # b
      BY <3>1
    <3>. QED BY <1>3, <3>1, <3>2
  <2>2. ASSUME NEW c \in Bindings, NEW n \in IDs, entries'[n] = c
        PROVE  owner'[c] = n /\ ~closed'[c]
    <3>1. owner[c] = n /\ ~closed[c] /\ n # 0
      BY <2>2 DEF OwnershipAgrees
    <3>. QED BY <1>3, <3>1
  <2>3. \A c \in Bindings, n \in IDs : owner'[c] = n =>
          entries'[n] = c \/ \E u \in Threads : pc'[u] = "insert" /\ id'[u] = n
    BY <1>8 DEF OwnersEntered
  <2>. QED BY <1>3, <2>1, <2>2, <2>3 DEF OwnershipAgrees
<1>. QED BY <1>4, <1>5, <1>6, <1>7, <1>8, <1>9, <1>10

\* Closing an entry keeps both records in step, and leaves alone every binding that
\* another thread runs.
LEMMA CloseLockedAgrees ==
  ASSUME TypeOK, SafetyInv, NEW t \in Threads, registryLock = t, pc[t] # "insert",
         NEW i \in IDs, entries[i] # None, NEW answer, CloseLocked(t, i, answer)
  PROVE  /\ \A c \in Bindings : closed'[c] => native'[c] = "gone"
         /\ \A c \in Bindings : closed'[c] \/ (owner'[c] = owner[c] /\ ~closed[c])
         /\ \A c \in Bindings : owner'[c] \in {owner[c], 0}
         /\ \A c \in Bindings : closed'[c] => closed[c] \/ bindingLock[c] \in {None, t}
         /\ \A n \in IDs : entries'[n] \in {entries[n], None}
         /\ \A n \in IDs \ {i} : entries'[n] = entries[n]
         /\ \A c \in Bindings, n \in IDs : entries'[n] = c <=> owner'[c] = n
         /\ \A c \in Bindings, n \in IDs : entries'[n] = c => ~closed'[c]
         /\ UNCHANGED <<nextId, bindingLock>>
<1>. DEFINE b == entries[i]
<1>1. /\ b \in Bindings /\ owner[b] = i /\ ~closed[b] /\ bindingLock[b] \in {None, t}
      /\ closed'[b] <=> answer # "failed"
      /\ closed'[b] => native'[b] = "gone"
      /\ \A c \in Bindings \ {b} : closed'[c] = closed[c] /\ native'[c] = native[c]
      /\ owner' = IF answer = "failed" THEN owner ELSE [owner EXCEPT ![b] = 0]
      /\ entries' = IF answer = "failed" THEN entries ELSE [entries EXCEPT ![i] = None]
      /\ UNCHANGED <<nextId, bindingLock>>
  BY CloseLockedCloses DEF SafetyInv
<1>2. \A c \in Bindings, n \in IDs : entries[n] = c <=> owner[c] = n
  <2>1. \A u \in Threads : pc[u] # "insert"
    BY CallsAssumption DEF SafetyInv, LocksOK, InRegistry
  <2>. QED BY <2>1 DEF SafetyInv, OwnershipAgrees
<1>3. \A c \in Bindings, n \in IDs : entries[n] = c => ~closed[c]
  BY DEF SafetyInv, OwnershipAgrees
<1>4. b # None /\ b = entries[i]
  BY <1>1, CallsAssumption
<1>. HIDE DEF b
<1>5. CASE answer = "failed"
  BY <1>1, <1>2, <1>3, <1>4, <1>5 DEF TypeOK, SafetyInv, OwnershipAgrees
<1>6. CASE answer # "failed"
  <2>1. owner' = [owner EXCEPT ![b] = 0] /\ entries' = [entries EXCEPT ![i] = None]
    BY <1>1, <1>6
  <2>. QED
    BY <1>1, <1>2, <1>3, <1>4, <1>6, <2>1, CallsAssumption, IDsAreNumbers
    DEF TypeOK, SafetyInv, OwnershipAgrees
<1>. QED BY <1>5, <1>6

\* The entry that was looked up is closed, or stays for a retry.
LEMMA CloseEntrySafe ==
  ASSUME TypeOK, SafetyInv, NEW t \in Threads, CloseEntry(t)
  PROVE  SafetyInv'
<1>1. PICK answer : CloseLocked(t, id[t], answer)
  BY DEF CloseEntry
<1>2. /\ pc[t] = "closeEntry" /\ registryLock = t /\ registryLock' = None
      /\ pc' = [pc EXCEPT ![t] = "idle"]
      /\ target' = [target EXCEPT ![t] = None]
      /\ id' = [id EXCEPT ![t] = 0]
      /\ UNCHANGED <<todo, calls>>
  BY DEF CloseEntry, Return, SafetyInv, LocksOK, InRegistry
<1>3. PICK i \in IDs : i = id[t] /\ entries[i] # None
  BY <1>2 DEF SafetyInv, FrameOK, EntriesHeld, OnID
<1>4. /\ \A c \in Bindings : closed'[c] => native'[c] = "gone"
      /\ \A c \in Bindings : closed'[c] \/ (owner'[c] = owner[c] /\ ~closed[c])
      /\ \A c \in Bindings : owner'[c] \in {owner[c], 0}
      /\ \A c \in Bindings : closed'[c] => closed[c] \/ bindingLock[c] \in {None, t}
      /\ \A n \in IDs : entries'[n] \in {entries[n], None}
      /\ \A c \in Bindings, n \in IDs : entries'[n] = c <=> owner'[c] = n
      /\ \A c \in Bindings, n \in IDs : entries'[n] = c => ~closed'[c]
      /\ UNCHANGED <<nextId, bindingLock>>
  BY <1>1, <1>2, <1>3, CloseLockedAgrees
<1>5. \A u \in Threads : u # t => pc[u] \notin InRegistry
  BY <1>2 DEF SafetyInv, LocksOK
<1>. USE CallsAssumption, IDsAreNumbers, <1>2, <1>4, <1>5
     DEF InRegistry, OnBinding, OnID, TypeOK, SafetyInv
<1>6. FrameOK' BY DEF FrameOK
<1>7. LocksOK' BY DEF LocksOK
<1>8. EntriesHeld' BY DEF EntriesHeld
<1>9. FreshIDs'
  <2>1. \A c \in Bindings : owner'[c] < nextId'
    BY OwnersAreNumbers DEF FreshIDs
  <2>. QED BY <2>1 DEF FreshIDs
<1>10. OwnersEntered' BY DEF OwnersEntered
<1>11. CloseHasOwner' BY DEF CloseHasOwner
<1>12. OwnershipAgrees' BY DEF OwnershipAgrees, LocksOK, FrameOK
<1>. QED BY <1>6, <1>7, <1>8, <1>9, <1>10, <1>11, <1>12

\* clear() comes to each entry once, and to those it has not come to they are all there.
LEMMA ClearNextSafe ==
  ASSUME TypeOK, SafetyInv, NEW t \in Threads, NEW i \in IDs, ClearNext(t, i)
  PROVE  SafetyInv'
<1>1. PICK answer : /\ CloseLocked(t, i, answer)
                    /\ id' = [id EXCEPT ![t] = IF answer = "failed" THEN i ELSE @]
  BY DEF ClearNext
<1>2. /\ pc[t] = "clearing" /\ registryLock = t /\ i \in todo[t] /\ entries[i] # None
      /\ todo' = [todo EXCEPT ![t] = @ \ {i}]
      /\ UNCHANGED <<registryLock, pc, result, target, calls>>
  BY DEF ClearNext, SafetyInv, LocksOK, EntriesHeld, InRegistry
<1>3. /\ \A c \in Bindings : closed'[c] => native'[c] = "gone"
      /\ \A c \in Bindings : closed'[c] \/ (owner'[c] = owner[c] /\ ~closed[c])
      /\ \A c \in Bindings : owner'[c] \in {owner[c], 0}
      /\ \A c \in Bindings : closed'[c] => closed[c] \/ bindingLock[c] \in {None, t}
      /\ \A n \in IDs : entries'[n] \in {entries[n], None}
      /\ \A n \in IDs \ {i} : entries'[n] = entries[n]
      /\ \A c \in Bindings, n \in IDs : entries'[n] = c <=> owner'[c] = n
      /\ \A c \in Bindings, n \in IDs : entries'[n] = c => ~closed'[c]
      /\ UNCHANGED <<nextId, bindingLock>>
  BY <1>1, <1>2, CloseLockedAgrees
<1>4. \A u \in Threads : u # t => pc[u] \notin InRegistry /\ id'[u] = id[u] /\ todo'[u] = todo[u]
  BY <1>1, <1>2 DEF SafetyInv, LocksOK, TypeOK
<1>. USE CallsAssumption, IDsAreNumbers, <1>2, <1>3, <1>4
     DEF InRegistry, OnBinding, OnID, TypeOK, SafetyInv
<1>5. FrameOK' BY DEF FrameOK
<1>6. LocksOK' BY DEF LocksOK
<1>7. EntriesHeld' BY DEF EntriesHeld
<1>8. FreshIDs'
  <2>1. \A c \in Bindings : owner'[c] < nextId'
    BY OwnersAreNumbers DEF FreshIDs
  <2>. QED BY <2>1 DEF FreshIDs
<1>9. OwnersEntered' BY DEF OwnersEntered
<1>10. CloseHasOwner' BY DEF CloseHasOwner, FrameOK
<1>11. OwnershipAgrees' BY DEF OwnershipAgrees, LocksOK, FrameOK
<1>. QED BY <1>5, <1>6, <1>7, <1>8, <1>9, <1>10, <1>11

\* A handle that is destroyed behind the binding's back closes nothing by itself.
LEMMA DestroyRawSafe ==
  ASSUME TypeOK, SafetyInv, NEW b \in Bindings, DestroyRaw(b)
  PROVE  SafetyInv'
<1>. USE DEF DestroyRaw, registry, frame, TypeOK, SafetyInv
<1>1. FrameOK' BY DEF FrameOK
<1>2. LocksOK' BY DEF LocksOK
<1>3. EntriesHeld' BY DEF EntriesHeld
<1>4. FreshIDs' BY DEF FreshIDs
<1>5. OwnersEntered' BY DEF OwnersEntered
<1>6. CloseHasOwner' BY DEF CloseHasOwner
<1>7. OwnershipAgrees' BY DEF OwnershipAgrees
<1>. QED BY <1>1, <1>2, <1>3, <1>4, <1>5, <1>6, <1>7

LEMMA SafetyStep ==
  ASSUME TypeOK, SafetyInv, [Next]_vars,
         \A t \in Threads : pc[t] = "register" => nextId \in IDs
  PROVE  SafetyInv'
<1>1. CASE UNCHANGED vars
  BY <1>1
  DEF vars, registry, bindings, frame, SafetyInv, FrameOK, LocksOK, EntriesHeld, FreshIDs,
      OwnersEntered, CloseHasOwner, OwnershipAgrees
<1>2. ASSUME NEW t \in Threads, RegisterDraws(t) PROVE SafetyInv'
  BY <1>2, RegisterDrawsSafe DEF RegisterDraws
<1>3. ASSUME NEW b \in Bindings, DestroyRaw(b) PROVE SafetyInv'
  BY <1>3, DestroyRawSafe
<1>4. ASSUME NEW t \in Threads, BeginCall(t) \/ Continue(t) PROVE SafetyInv'
  BY <1>2, <1>4, BeginCallSafe, RunBeginsSafe, RunEndsSafe, CloseUnownedSafe, CloseOwnedSafe,
     RegisterClaimsSafe, RegisterInsertsSafe, LookUpSafe, LookUpFailsSafe, RecheckSafe,
     GetChecksSafe, CloseEntrySafe, ClearBeginsSafe, ClearEndsSafe, ClearNextSafe
  DEF Continue
<1>. QED BY <1>1, <1>3, <1>4 DEF Next

-----------------------------------------------------------------------------
\* There are as many IDs as calls, so that the registry never runs out of them.
LEMMA BegunIsBounded ==
  ASSUME TypeOK
  PROVE  /\ IsFiniteSet(Begun) /\ IsFiniteSet(Registering)
         /\ Cardinality(Begun) \in Nat /\ Cardinality(Registering) \in Nat
         /\ Cardinality(Begun) <= Cardinality(Threads) * MaxCalls
<1>1. IsFiniteSet(1 .. MaxCalls) /\ Cardinality(1 .. MaxCalls) = MaxCalls
  BY CallsAssumption, FS_Interval
<1>2. /\ IsFiniteSet(Threads \X (1 .. MaxCalls))
      /\ Cardinality(Threads \X (1 .. MaxCalls)) = Cardinality(Threads) * MaxCalls
  BY <1>1, CallsAssumption, FS_Product
<1>3. Begun \in SUBSET (Threads \X (1 .. MaxCalls)) /\ Registering \in SUBSET Threads
  BY DEF Begun, Registering
<1>4. IsFiniteSet(Begun) /\ Cardinality(Begun) <= Cardinality(Threads \X (1 .. MaxCalls))
  BY <1>2, <1>3, FS_Subset
<1>5. IsFiniteSet(Registering)
  BY <1>3, CallsAssumption, FS_Subset
<1>. QED BY <1>2, <1>4, <1>5, FS_CardinalityType

LEMMA DrawsInside ==
  ASSUME TypeOK, DrawsBounded, NEW t \in Threads, pc[t] = "register"
  PROVE  nextId \in IDs
<1>1. Cardinality(Registering) # 0
  BY BegunIsBounded, FS_EmptySet DEF Registering
<1>2. nextId <= Cardinality(Begun) /\ nextId \in Nat \ {0}
  BY <1>1, BegunIsBounded DEF DrawsBounded, TypeOK
<1>3. Cardinality(Threads) * MaxCalls = MaxCalls * Cardinality(Threads)
  BY CallsAssumption, FS_CardinalityType
<1>4. MaxCalls * Cardinality(Threads) \in Nat
  BY CallsAssumption, FS_CardinalityType
<1>. QED BY <1>2, <1>3, <1>4, BegunIsBounded DEF IDs

\* A call that begins is one more; a registration draws once and registers no more.
LEMMA DrawsStep ==
  ASSUME TypeOK, DrawsBounded, [Next]_vars
  PROVE  DrawsBounded'
<1>. USE BegunIsBounded
<1>1. ASSUME NEW t \in Threads, BeginCall(t) PROVE DrawsBounded'
  <2>1. PICK place \in {"register", "run", "closeBinding", "get", "close", "clear"} :
          /\ calls[t] < MaxCalls /\ calls' = [calls EXCEPT ![t] = @ + 1]
          /\ pc[t] = "idle" /\ pc' = [pc EXCEPT ![t] = place]
          /\ UNCHANGED nextId
    BY <1>1 DEF BeginCall, Begin, Goto, registry
  <2>. DEFINE call == <<t, calls[t] + 1>>
  <2>2. Begun' = Begun \cup {call}
    <3>1. \A u \in Threads : calls'[u] = IF u = t THEN calls[t] + 1 ELSE calls[u]
      BY <2>1 DEF TypeOK
    <3>2. \A u \in Threads : calls[u] \in 0 .. MaxCalls
      BY DEF TypeOK
    <3>3. calls[t] + 1 \in 1 .. MaxCalls
      BY <2>1, <3>2, CallsAssumption
    <3>4. \A u \in Threads, k \in 1 .. MaxCalls :
            k <= calls'[u] <=> k <= calls[u] \/ <<u, k>> = call
      BY <3>1, <3>2, CallsAssumption
    <3>. QED BY <3>3, <3>4 DEF Begun
  <2>3. call \notin Begun
    BY DEF Begun, TypeOK
  <2>4. Cardinality(Begun') = Cardinality(Begun) + 1
    BY <2>2, <2>3, FS_AddElement
  <2>5. Registering' \in {Registering, Registering \cup {t}}
    BY <2>1 DEF Registering, TypeOK
  <2>6. Cardinality(Registering') <= Cardinality(Registering) + 1
    <3>1. CASE Registering' = Registering
      BY <3>1
    <3>2. CASE Registering' = Registering \cup {t}
      <4>1. IsFiniteSet(Registering) /\ Cardinality(Registering) \in Nat
        OBVIOUS
      <4>2. Cardinality(Registering \cup {t})
              \in {Cardinality(Registering), Cardinality(Registering) + 1}
        BY ONLY <4>1, FS_AddElement
      <4>. QED BY ONLY <3>2, <4>1, <4>2
    <3>. QED BY <2>5, <3>1, <3>2
  <2>7. Cardinality(Registering') \in Nat
    BY <2>5, FS_AddElement, FS_CardinalityType
  <2>. HIDE DEF call
  <2>. QED BY <2>1, <2>4, <2>6, <2>7 DEF DrawsBounded, TypeOK
<1>2. ASSUME NEW t \in Threads, RegisterDraws(t) PROVE DrawsBounded'
  <2>1. Registering' = Registering \ {t} /\ t \in Registering
    BY <1>2 DEF RegisterDraws, Goto, Registering, TypeOK
  <2>2. Cardinality(Registering') = Cardinality(Registering) - 1
    BY <2>1, FS_RemoveElement
  <2>3. nextId' = nextId + 1 /\ Begun' = Begun
    BY <1>2 DEF RegisterDraws, Begun
  <2>. QED BY <2>2, <2>3 DEF DrawsBounded, TypeOK
<1>3. ASSUME UNCHANGED <<nextId, calls>>,
             \A u \in Threads : pc'[u] = "register" <=> pc[u] = "register"
      PROVE  DrawsBounded'
  BY <1>3 DEF DrawsBounded, Begun, Registering
<1>4. ASSUME NEW t \in Threads, Continue(t), ~RegisterDraws(t) PROVE DrawsBounded'
  <2>1. UNCHANGED <<nextId, calls>>
    BY <1>4
    DEF Continue, RunBegins, RunEnds, CloseUnowned, CloseOwned, RegisterClaims, RegisterInserts,
        LookUp, LookUpFails, Recheck, GetChecks, CloseEntry, ClearBegins, ClearEnds, ClearNext,
        CloseLocked, registry
  <2>2. /\ pc[t] # "register"
        /\ pc' = pc \/ \E place \in Places \ {"register"} : pc' = [pc EXCEPT ![t] = place]
    BY <1>4
    DEF Continue, RunBegins, RunEnds, CloseUnowned, CloseOwned, RegisterClaims, RegisterInserts,
        LookUp, LookUpFails, Recheck, GetChecks, CloseEntry, ClearBegins, ClearEnds, ClearNext,
        Goto, Return, Places, InRegistry, OnID, OnBinding
  <2>3. \A u \in Threads : pc'[u] = "register" <=> pc[u] = "register"
    BY <2>2 DEF TypeOK
  <2>. QED BY <1>3, <2>1, <2>3
<1>5. ASSUME NEW b \in Bindings, DestroyRaw(b) PROVE DrawsBounded'
  BY <1>3, <1>5 DEF DestroyRaw, registry
<1>6. CASE UNCHANGED vars
  BY <1>3, <1>6 DEF vars, registry
<1>. QED BY <1>1, <1>2, <1>4, <1>5, <1>6 DEF Next

-----------------------------------------------------------------------------
LEMMA IInvInit == Init => IInv
<1>. SUFFICES ASSUME Init PROVE IInv
  OBVIOUS
<1>. USE CallsAssumption, IDsAreNumbers DEF Init
<1>1. TypeOK
  BY DEF TypeOK, Places
<1>2. DrawsBounded
  <2>1. Registering = {}
    BY DEF Registering
  <2>. QED BY <1>1, <2>1, BegunIsBounded, FS_EmptySet DEF DrawsBounded
<1>3. SafetyInv
  BY DEF SafetyInv, FrameOK, LocksOK, EntriesHeld, FreshIDs, OwnersEntered, CloseHasOwner,
         OwnershipAgrees, OnBinding, OnID, InRegistry
<1>. QED BY <1>1, <1>2, <1>3 DEF IInv

LEMMA IInvNext == IInv /\ [Next]_vars => IInv'
<1>. SUFFICES ASSUME IInv, [Next]_vars PROVE IInv'
  OBVIOUS
<1>1. \A t \in Threads : pc[t] = "register" => nextId \in IDs
  BY DrawsInside DEF IInv
<1>. QED BY <1>1, TypeStep, DrawsStep, SafetyStep DEF IInv

LEMMA IInvAlways == Spec => []IInv
<1>. QED BY IInvInit, IInvNext, PTL DEF Spec

\* Every variable keeps its type, however many IDs the registrations draw.
THEOREM TypeCorrect == Spec => []TypeOK
<1>. QED BY IInvAlways, PTL DEF IInv

\* Binding and registry name each other and an open binding only, a binding is closed
\* only when its native handle is gone and never under a run: for any number of
\* threads and bindings, with every failure of the native destroy.
THEOREM OwnershipAlwaysAgrees == Spec => []OwnershipAgrees
<1>. QED BY IInvAlways, PTL DEF IInv, SafetyInv

\* close() on a binding never reports an unknown ID and reports success of a closed
\* binding only, whatever other threads close, clear or destroy meanwhile.
THEOREM CloseAlwaysConverges == Spec => CloseConverges
<1>. DEFINE Converges ==
       \A t \in Threads :
         (target[t] # None /\ pc[t] \in {"closeBinding", "recheck", "closeEntry"}
            /\ pc'[t] = "idle") =>
           result'[t] = "failed" \/ (result'[t] = "ok" /\ closed'[target[t]])
<1>1. ASSUME IInv, Next PROVE Converges
  <2>. SUFFICES ASSUME NEW t \in Threads, target[t] # None,
                       pc[t] \in {"closeBinding", "recheck", "closeEntry"}, pc'[t] = "idle"
                PROVE  result'[t] = "failed" \/ (result'[t] = "ok" /\ closed'[target[t]])
    OBVIOUS
  <2>1. TypeOK /\ SafetyInv
    BY <1>1 DEF IInv
  <2>2. CloseUnowned(t) \/ Recheck(t) \/ CloseEntry(t)
    <3>1. ASSUME NEW u \in Threads, BeginCall(u) \/ Continue(u) PROVE Continue(t)
      <4>1. pc' = pc \/ \E place \in Places : pc' = [pc EXCEPT ![u] = place]
        BY <3>1
        DEF BeginCall, Begin, Continue, RunBegins, RunEnds, CloseUnowned, CloseOwned, RegisterDraws,
            RegisterClaims, RegisterInserts, LookUp, LookUpFails, Recheck, GetChecks, CloseEntry,
            ClearBegins, ClearEnds, ClearNext, Goto, Return, Places, InRegistry, OnID, OnBinding
      <4>2. u = t
        BY <2>1, <4>1 DEF TypeOK
      <4>3. ~BeginCall(t)
        BY DEF BeginCall, Begin
      <4>. QED BY <3>1, <4>2, <4>3
    <3>2. Continue(t)
      BY <1>1, <3>1 DEF Next, DestroyRaw, vars
    <3>3. ~CloseOwned(t) /\ ~LookUp(t) /\ ~LookUpFails(t)
      BY <2>1 DEF CloseOwned, LookUp, LookUpFails, Goto, TypeOK
    <3>. QED
      BY <3>2, <3>3
      DEF Continue, RunBegins, RunEnds, RegisterDraws, RegisterClaims, RegisterInserts, GetChecks,
          ClearBegins, ClearEnds, ClearNext
  <2>3. target[t] \in Bindings
    BY <2>1 DEF TypeOK
  <2>4. CASE CloseUnowned(t)
    <3>1. CASE closed[target[t]]
      BY <2>1, <2>4, <3>1 DEF CloseUnowned, Return, TypeOK
    <3>2. CASE ~closed[target[t]]
      <4>1. PICK answer : /\ Destroy(target[t], answer)
                          /\ Return(t, IF answer = "failed" THEN "failed" ELSE "ok")
        BY <2>4, <3>2 DEF CloseUnowned
      <4>2. closed'[target[t]] <=> answer # "failed"
        BY <2>1, <2>3, <4>1, DestroyCloses
      <4>. QED BY <2>1, <4>1, <4>2 DEF Return, TypeOK
    <3>. QED BY <3>1, <3>2
  <2>5. CASE Recheck(t)
    BY <2>1, <2>5 DEF Recheck, Return, TypeOK, SafetyInv, CloseHasOwner, bindings
  <2>6. CASE CloseEntry(t)
    <3>1. PICK answer : /\ CloseLocked(t, id[t], answer)
                        /\ Return(t, IF answer = "failed" THEN "failed" ELSE "ok")
      BY <2>6 DEF CloseEntry
    <3>2. PICK i \in IDs : i = id[t] /\ entries[i] # None /\ registryLock = t /\ pc[t] # "insert"
      BY <2>1, <2>6
      DEF CloseEntry, SafetyInv, FrameOK, EntriesHeld, LocksOK, OnID, InRegistry
    <3>3. /\ \A c \in Bindings : closed'[c] \/ (owner'[c] = owner[c] /\ ~closed[c])
          /\ \A c \in Bindings, n \in IDs : entries'[n] = c <=> owner'[c] = n
      BY <2>1, <3>1, <3>2, CloseLockedAgrees
    <3>4. closed[target[t]] \/ owner[target[t]] = i
      BY <2>1, <2>6, <3>2 DEF CloseEntry, SafetyInv, CloseHasOwner
    <3>5. answer # "failed" => closed'[target[t]]
      <4>. SUFFICES ASSUME answer # "failed", ~closed'[target[t]] PROVE FALSE
        OBVIOUS
      <4>1. owner'[target[t]] = i
        BY <2>3, <3>3, <3>4
      <4>2. entries'[i] = None
        BY <2>1, <3>1, <3>2, CloseLockedCloses DEF SafetyInv, TypeOK
      <4>. QED BY <2>3, <3>3, <4>1, <4>2, CallsAssumption
    <3>. QED BY <2>1, <3>1, <3>5 DEF Return, TypeOK
  <2>. QED BY <2>2, <2>4, <2>5, <2>6
<1>2. ASSUME IInv, UNCHANGED vars PROVE Converges
  BY <1>2 DEF vars
<1>3. IInv /\ [Next]_vars => [Converges]_vars
  BY <1>1, <1>2
<1>. QED BY <1>3, IInvAlways, PTL DEF Spec, CloseConverges

\* A binding that was closed is never open or listed again, whichever calls have read its
\* owner or its ID before.
THEOREM ClosedForGood ==
  Spec => [][\A b \in Bindings :
               closed[b] => closed'[b] /\ \A n \in IDs : entries'[n] # b]_vars
<1>. DEFINE StayClosed == \A b \in Bindings :
              closed[b] => closed'[b] /\ \A n \in IDs : entries'[n] # b
<1>1. ASSUME IInv, IInv', Next PROVE StayClosed
  <2>. SUFFICES ASSUME NEW b \in Bindings, closed[b]
                PROVE  closed'[b] /\ \A n \in IDs : entries'[n] # b
    OBVIOUS
  <2>1. ASSUME NEW c, NEW answer, ~closed[c], Destroy(c, answer)
        PROVE  closed'[b]
    BY <1>1, <2>1 DEF Destroy, IInv, TypeOK
  <2>2. ASSUME NEW t, NEW i, NEW answer, CloseLocked(t, i, answer)
        PROVE  closed'[b]
    BY <2>1, <2>2 DEF CloseLocked
  <2>3. ASSUME NEW t \in Threads, CloseUnowned(t)
        PROVE  closed'[b]
    BY <2>1, <2>3 DEF CloseUnowned
  <2>4. ASSUME NEW t \in Threads, CloseEntry(t) \/ \E i \in IDs : ClearNext(t, i)
        PROVE  closed'[b]
    BY <2>2, <2>4 DEF CloseEntry, ClearNext
  <2>5. ASSUME UNCHANGED closed
        PROVE  closed'[b]
    BY <2>5
  <2>6. closed'[b]
    BY <1>1, <2>3, <2>4, <2>5
    DEF Next, BeginCall, Begin, Continue, RunBegins, RunEnds, CloseOwned, RegisterDraws,
        RegisterClaims, RegisterInserts, LookUp, LookUpFails, Recheck, GetChecks, ClearBegins,
        ClearEnds, DestroyRaw, bindings, vars
  <2>. QED BY <1>1, <2>6 DEF IInv, SafetyInv, OwnershipAgrees
<1>2. ASSUME UNCHANGED vars, IInv PROVE [StayClosed]_vars
  BY <1>2
<1>3. IInv /\ IInv' /\ [Next]_vars => [StayClosed]_vars
  BY <1>1, <1>2
<1>. QED BY <1>3, IInvAlways, PTL DEF Spec
=============================================================================
