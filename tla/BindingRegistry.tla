--------------------------- MODULE BindingRegistry ---------------------------
(***************************************************************************)
(* RuntimeBinding and BindingRegistry of python/decodeforge/torch_bridge.py *)
(* Each binding owns one native handle behind a lock that a run holds for  *)
(* the whole native call; the registry hands out IDs behind a lock of its  *)
(* own.  A registered binding is closed only through its registry, which   *)
(* takes its lock first and the binding's second, while close() on the     *)
(* binding reads its owner under the binding's lock and lets go of it      *)
(* before it turns to the registry.                                        *)
(***************************************************************************)
EXTENDS Naturals, FiniteSets

CONSTANTS
  Threads, Bindings,
  None,
  MaxCalls      \* bound: the calls each thread makes

ASSUME CallsAssumption ==
  MaxCalls \in Nat /\ IsFiniteSet(Threads) /\ None \notin Threads \cup Bindings

\* Every ID that registrations within the bound can draw.
IDs == 1 .. MaxCalls * Cardinality(Threads)

VARIABLES
  registryLock,  \* BindingRegistry._lock: its holder or None
  nextId,        \* BindingRegistry._next_id
  entries,       \* BindingRegistry._entries: [IDs -> Bindings \cup {None}]
  bindingLock,   \* RuntimeBinding._lock: its holder or None, per binding
  closed,        \* RuntimeBinding._closed
  owner,         \* RuntimeBinding._registry_owner: the ID, or 0
  native,        \* "live" until the bridge has removed the handle
  pc,            \* where each thread's call is
  target,        \* the binding of the call, or None
  id,            \* the ID of the call, or 0
  todo,          \* the IDs clear() has not come to yet
  result,        \* how each thread's latest call ended
  calls          \* how many calls each thread has made

registry == <<registryLock, nextId, entries>>
bindings == <<bindingLock, closed, owner, native>>
frame == <<target, id, todo>>
vars == <<registry, bindings, pc, frame, result, calls>>

Init ==
  /\ registryLock = None
  /\ nextId = 1
  /\ entries = [i \in IDs |-> None]
  /\ bindingLock = [b \in Bindings |-> None]
  /\ closed = [b \in Bindings |-> FALSE]
  /\ owner = [b \in Bindings |-> 0]
  /\ native = [b \in Bindings |-> "live"]
  /\ pc = [t \in Threads |-> "idle"]
  /\ target = [t \in Threads |-> None]
  /\ id = [t \in Threads |-> 0]
  /\ todo = [t \in Threads |-> {}]
  /\ result = [t \in Threads |-> "none"]
  /\ calls = [t \in Threads |-> 0]

Goto(t, place) == pc' = [pc EXCEPT ![t] = place] /\ UNCHANGED result
Stay == UNCHANGED <<target, id>>

Return(t, outcome) ==
  /\ pc' = [pc EXCEPT ![t] = "idle"]
  /\ result' = [result EXCEPT ![t] = outcome]
  /\ target' = [target EXCEPT ![t] = None]
  /\ id' = [id EXCEPT ![t] = 0]

\* Both locks are reentrant, the binding's also for the registry's holder.
Free(t, b) == bindingLock[b] \in {None, t}

\* A call begins on a binding, on an ID, or on neither.
Begin(t, place, b, i) ==
  /\ pc[t] = "idle"
  /\ calls[t] < MaxCalls
  /\ calls' = [calls EXCEPT ![t] = @ + 1]
  /\ target' = [target EXCEPT ![t] = b]
  /\ id' = [id EXCEPT ![t] = i]
  /\ Goto(t, place)
  /\ UNCHANGED <<registry, bindings, todo>>

BeginCall(t) ==
  \/ \E b \in Bindings, place \in {"register", "run", "closeBinding"} : Begin(t, place, b, 0)
  \/ \E i \in IDs, place \in {"get", "close"} : Begin(t, place, None, i)
  \/ Begin(t, "clear", None, 0)

-----------------------------------------------------------------------------
(* RuntimeBinding                                                          *)

\* _destroy_locked: what the bridge answers, and whether the binding is then
\* closed.  A handle that is already absent converges to closed; any other
\* failure leaves the handle live and the binding open.
Destroy(b, answer) ==
  /\ answer \in (IF native[b] = "live" THEN {"ok", "failed"} ELSE {"absent"})
  /\ native' = [native EXCEPT ![b] = IF answer = "ok" THEN "gone" ELSE @]
  /\ closed' = [closed EXCEPT ![b] = answer # "failed"]

\* The lock is kept for the whole native call.
RunBegins(t) ==
  LET b == target[t] IN
  /\ pc[t] = "run"
  /\ Free(t, b)
  /\ IF closed[b]
       THEN Return(t, "invalid") /\ UNCHANGED bindings
       ELSE /\ bindingLock' = [bindingLock EXCEPT ![b] = t]
            /\ Goto(t, "running") /\ Stay
            /\ UNCHANGED <<closed, owner, native>>
  /\ UNCHANGED <<registry, todo, calls>>

\* What RuntimeLibrary.run says: ranges and input may be refused, and a handle that
\* is gone always is.
RunAnswers(b) == IF native[b] = "live" THEN {"ok", "failed"} ELSE {"invalid"}

RunEnds(t) ==
  /\ pc[t] = "running"
  /\ bindingLock' = [bindingLock EXCEPT ![target[t]] = None]
  /\ \E answer \in RunAnswers(target[t]) : Return(t, answer)
  /\ UNCHANGED <<registry, closed, owner, native, todo, calls>>

\* close() of a binding nobody registered, or closed already.
CloseUnowned(t) ==
  LET b == target[t] IN
  /\ pc[t] = "closeBinding"
  /\ Free(t, b)
  /\ closed[b] \/ owner[b] = 0
  /\ IF closed[b]
       THEN Return(t, "ok") /\ UNCHANGED <<native, closed>>
       ELSE \E answer \in {"ok", "failed", "absent"} :
              /\ Destroy(b, answer)
              /\ Return(t, IF answer = "failed" THEN "failed" ELSE "ok")
  /\ UNCHANGED <<registry, bindingLock, owner, todo, calls>>

\* Mutant: the binding's lock is kept on the way to the registry.
CloseOwnedKeepsLock(t) ==
  LET b == target[t] IN
  /\ pc[t] = "closeBinding"
  /\ Free(t, b)
  /\ ~closed[b] /\ owner[b] # 0
  /\ bindingLock' = [bindingLock EXCEPT ![b] = t]
  /\ id' = [id EXCEPT ![t] = owner[b]]
  /\ Goto(t, "close")
  /\ UNCHANGED <<registry, closed, owner, native, target, todo, calls>>

\* close() of a registered binding goes on without the binding's lock.
CloseOwned(t) ==
  LET b == target[t] IN
  /\ pc[t] = "closeBinding"
  /\ Free(t, b)
  /\ ~closed[b] /\ owner[b] # 0
  /\ id' = [id EXCEPT ![t] = owner[b]]
  /\ Goto(t, "close")
  /\ UNCHANGED <<registry, bindings, target, todo, calls>>

\* The handle is destroyed behind the binding's back, through the library.
DestroyRaw(b) ==
  /\ native[b] = "live"
  /\ native' = [native EXCEPT ![b] = "gone"]
  /\ UNCHANGED <<registry, bindingLock, closed, owner, pc, frame, result, calls>>

-----------------------------------------------------------------------------
(* BindingRegistry                                                         *)

\* register: an ID is drawn even if the claim that follows is refused.
RegisterDraws(t) ==
  /\ pc[t] = "register"
  /\ registryLock = None
  /\ registryLock' = t
  /\ id' = [id EXCEPT ![t] = nextId]
  /\ nextId' = nextId + 1
  /\ Goto(t, "claim")
  /\ UNCHANGED <<entries, bindings, target, todo, calls>>

\* _claim_registry, under both locks.
RegisterClaims(t) ==
  LET b == target[t] IN
  /\ pc[t] = "claim"
  /\ Free(t, b)
  /\ IF closed[b] \/ owner[b] # 0
       THEN Return(t, "invalid") /\ registryLock' = None /\ UNCHANGED owner
       ELSE /\ owner' = [owner EXCEPT ![b] = id[t]]
            /\ Goto(t, "insert") /\ Stay
            /\ UNCHANGED registryLock
  /\ UNCHANGED <<nextId, entries, bindingLock, closed, native, todo, calls>>

RegisterInserts(t) ==
  /\ pc[t] = "insert"
  /\ entries' = [entries EXCEPT ![id[t]] = target[t]]
  /\ registryLock' = None
  /\ Return(t, "ok")
  /\ UNCHANGED <<nextId, bindings, todo, calls>>

\* get and close look the ID up under the registry's lock.
LookUp(t) ==
  /\ pc[t] \in {"get", "close"}
  /\ registryLock = None
  /\ entries[id[t]] # None
  /\ registryLock' = t
  /\ Goto(t, IF pc[t] = "get" THEN "getCheck" ELSE "closeEntry") /\ Stay
  /\ UNCHANGED <<nextId, entries, bindings, todo, calls>>

\* An ID that is not there: close() on a binding asks once more whether someone
\* else has closed it since.
LookUpFails(t) ==
  /\ pc[t] \in {"get", "close"}
  /\ registryLock = None
  /\ entries[id[t]] = None
  /\ IF target[t] = None
       THEN Return(t, IF pc[t] = "get" THEN "none" ELSE "invalid")
       ELSE Goto(t, "recheck") /\ Stay
  /\ UNCHANGED <<registry, bindings, todo, calls>>

\* Mutant: an unknown ID is an error even if the binding is closed by now.
RecheckRaises(t) ==
  /\ pc[t] = "recheck"
  /\ Free(t, target[t])
  /\ Return(t, "invalid")
  /\ UNCHANGED <<registry, bindings, todo, calls>>

Recheck(t) ==
  /\ pc[t] = "recheck"
  /\ Free(t, target[t])
  /\ Return(t, IF closed[target[t]] THEN "ok" ELSE "invalid")
  /\ UNCHANGED <<registry, bindings, todo, calls>>

\* get waits for the binding's lock to learn whether it is closed.
GetChecks(t) ==
  LET b == entries[id[t]] IN
  /\ pc[t] = "getCheck"
  /\ Free(t, b)
  /\ entries' = IF closed[b] THEN [entries EXCEPT ![id[t]] = None] ELSE entries
  /\ registryLock' = None
  /\ Return(t, IF closed[b] THEN "none" ELSE "ok")
  /\ UNCHANGED <<nextId, bindings, todo, calls>>

\* Mutant: the ID is popped before the destroy is known to have worked.
CloseLockedPopsFirst(t, i, answer) ==
  LET b == entries[i] IN
  /\ Free(t, b)
  /\ IF closed[b] THEN answer = "ok" /\ UNCHANGED <<native, closed>> ELSE Destroy(b, answer)
  /\ owner' = IF answer = "failed" THEN owner ELSE [owner EXCEPT ![b] = 0]
  /\ entries' = [entries EXCEPT ![i] = None]
  /\ UNCHANGED <<nextId, bindingLock>>

\* _close_locked with _close_from_registry: only a binding that is closed
\* afterwards loses its owner and its ID.
CloseLocked(t, i, answer) ==
  LET b == entries[i] IN
  /\ Free(t, b)
  /\ IF closed[b] THEN answer = "ok" /\ UNCHANGED <<native, closed>> ELSE Destroy(b, answer)
  /\ IF answer = "failed"
       THEN UNCHANGED <<owner, entries>>
       ELSE /\ owner' = [owner EXCEPT ![b] = 0]
            /\ entries' = [entries EXCEPT ![i] = None]
  /\ UNCHANGED <<nextId, bindingLock>>

CloseEntry(t) ==
  /\ pc[t] = "closeEntry"
  /\ \E answer \in {"ok", "failed", "absent"} :
       /\ CloseLocked(t, id[t], answer)
       /\ Return(t, IF answer = "failed" THEN "failed" ELSE "ok")
  /\ registryLock' = None
  /\ UNCHANGED <<todo, calls>>

ClearBegins(t) ==
  /\ pc[t] = "clear"
  /\ registryLock = None
  /\ registryLock' = t
  /\ todo' = [todo EXCEPT ![t] = {i \in IDs : entries[i] # None}]
  /\ Goto(t, "clearing")
  /\ UNCHANGED <<nextId, entries, bindings, target, id, calls>>

\* A failure is collected and the next ID is closed all the same; id keeps
\* whether there was one.
ClearNext(t, i) ==
  /\ pc[t] = "clearing"
  /\ i \in todo[t]
  /\ \A j \in todo[t] : i <= j
  /\ todo' = [todo EXCEPT ![t] = @ \ {i}]
  /\ \E answer \in {"ok", "failed", "absent"} :
       /\ CloseLocked(t, i, answer)
       /\ id' = [id EXCEPT ![t] = IF answer = "failed" THEN i ELSE @]
  /\ UNCHANGED <<registryLock, pc, result, target, calls>>

ClearEnds(t) ==
  /\ pc[t] = "clearing"
  /\ todo[t] = {}
  /\ registryLock' = None
  /\ Return(t, IF id[t] = 0 THEN "ok" ELSE "failed")
  /\ UNCHANGED <<nextId, entries, bindings, todo, calls>>

-----------------------------------------------------------------------------
Continue(t) ==
  \/ RunBegins(t) \/ RunEnds(t)
  \/ CloseUnowned(t) \/ CloseOwned(t)
  \/ RegisterDraws(t) \/ RegisterClaims(t) \/ RegisterInserts(t)
  \/ LookUp(t) \/ LookUpFails(t) \/ Recheck(t) \/ GetChecks(t) \/ CloseEntry(t)
  \/ ClearBegins(t) \/ ClearEnds(t)
  \/ \E i \in IDs : ClearNext(t, i)

Finished == \A t \in Threads : pc[t] = "idle" /\ calls[t] = MaxCalls

Next ==
  \/ \E t \in Threads : BeginCall(t) \/ Continue(t)
  \/ \E b \in Bindings : DestroyRaw(b)
  \/ Finished /\ UNCHANGED vars

Spec == Init /\ [][Next]_vars

\* A call in progress goes on when it can: native calls return, and a lock is
\* granted once its other users are done with it.
FairSpec == Spec /\ \A t \in Threads : WF_vars(Continue(t))

-----------------------------------------------------------------------------
\* The two records of one ownership never drift apart: a binding is closed only
\* when its native handle is gone, so that a failed destroy leaves it to a retry,
\* and never under a run that is inside the native call; binding and registry
\* name each other and an open binding only, except while a registration that
\* holds the registry's lock is between the two.
OwnershipAgrees ==
  /\ \A b \in Bindings : closed[b] => native[b] = "gone"
  /\ \A t \in Threads : pc[t] = "running" => ~closed[target[t]]
  /\ \A b \in Bindings, n \in IDs :
       /\ entries[n] = b => owner[b] = n /\ ~closed[b]
       /\ owner[b] = n => entries[n] = b \/ \E t \in Threads : pc[t] = "insert" /\ id[t] = n

\* "A definitively absent native handle converges to closed": close() on the
\* binding itself never reports that its ID is unknown, however many other
\* threads close it by ID, clear the registry or destroy the handle meanwhile;
\* and it reports success only of a closed binding.
CloseConverges ==
  [][\A t \in Threads :
       target[t] # None /\ pc[t] \in {"closeBinding", "recheck", "closeEntry"} /\ pc'[t] = "idle" =>
         result'[t] = "failed" \/ (result'[t] = "ok" /\ closed'[target[t]])]_vars

\* No two threads wait for each other's locks: every call ends.
CallsReturn == \A t \in Threads : pc[t] # "idle" ~> pc[t] = "idle"
=============================================================================
