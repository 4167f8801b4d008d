--------------------------- MODULE RuntimeBridge ---------------------------
(***************************************************************************)
(* The process-local C ABI of compiler/decodeforge-bridge/src/lib.rs: a    *)
(* registry of executables behind one mutex, a single-builder flag, two    *)
(* atomic quota counters that are released without the mutex, and          *)
(* reference-counted entries that outlive their removal from the registry. *)
(*                                                                         *)
(* A step is a critical section, an atomic operation outside one, or a     *)
(* return.  Reserving quota is the one critical section that is split,     *)
(* because releases touch its counters without the mutex.  Calls that are  *)
(* refused before they change anything (bad arguments, an unknown handle,  *)
(* a build already admitted) leave this state alone; BridgeCall models     *)
(* what they and all other calls report.                                   *)
(***************************************************************************)
EXTENDS Integers, FiniteSets, FiniteSetsExt

CONSTANTS
  Threads,            \* foreign threads that call the bridge
  Packs,              \* packed weights, one Entry at a time for each
  Handles,            \* the nonzero 64-bit handle values
  NoThread, NoPack, NoHandle,
  PackBytes,          \* byte length of each pack's payload
  MaxLiveEntries,     \* MAX_LIVE_ENTRIES
  MaxAggregateBytes   \* MAX_AGGREGATE_PACKED_WEIGHT_BYTES

ASSUME ConstantsAssumption ==
  /\ MaxLiveEntries \in Nat
  /\ MaxAggregateBytes \in Nat
  /\ PackBytes \in [Packs -> Nat]
  /\ NoThread \notin Threads
  /\ NoPack \notin Packs
  /\ NoHandle \notin Handles

VARIABLES
  lock,         \* the thread inside the split critical section, or NoThread
  building,     \* Registry.building
  entries,      \* Registry.entries
  liveEntries,  \* Admission.live_entries
  packedBytes,  \* Admission.packed_bytes
  lease,        \* the life of each pack's AdmissionLease
  pc,           \* where each thread's call is
  pack,         \* the pack a thread's call owns or is creating
  seen,         \* live_entries as reserve() loaded it, 0 once it is dead
  newHandle,    \* the handle a create has published and not yet delivered
  delivered     \* the handles that creates have returned to callers

quota == <<liveEntries, packedBytes, lease>>
vars == <<lock, building, entries, quota, pc, pack, seen, newHandle, delivered>>

\* The places at which a call owns a reference (an Arc) to its entry.
Owning == {"use", "drop"}

\* The places between taking the building flag and giving it back.
Reserving == {"loadBytes", "addBytes"}
Creating == Reserving \cup {"build", "publish", "commit", "unreserve",
                            "dropEntry", "dropBytes", "unreserveLast"}
PC == {"idle", "returnEntry", "returnBytes"} \cup Owning \cup Creating

Init ==
  /\ lock = NoThread
  /\ building = FALSE
  /\ entries = [h \in Handles |-> NoPack]
  /\ liveEntries = 0
  /\ packedBytes = 0
  /\ lease = [p \in Packs |-> "unused"]
  /\ pc = [t \in Threads |-> "idle"]
  /\ pack = [t \in Threads |-> NoPack]
  /\ seen = [t \in Threads |-> 0]
  /\ newHandle = [t \in Threads |-> NoHandle]
  /\ delivered = {}

-----------------------------------------------------------------------------
(* df_runtime_create_neon_v1                                               *)

Goto(t, next) == pc' = [pc EXCEPT ![t] = next]

Return(t) ==
  /\ Goto(t, "idle")
  /\ pack' = [pack EXCEPT ![t] = NoPack]

ReserveLoadEntries(t, p) ==
  /\ pc[t] = "idle"
  /\ lock = NoThread
  /\ ~building
  /\ lease[p] = "unused"
  /\ lock' = t
  /\ building' = TRUE
  /\ pack' = [pack EXCEPT ![t] = p]
  /\ seen' = [seen EXCEPT ![t] = liveEntries]
  /\ Goto(t, "loadBytes")
  /\ UNCHANGED <<entries, quota, newHandle, delivered>>

\* Mutant: one entry too many is admitted.
FitsOffByOne(t) ==
  /\ seen[t] <= MaxLiveEntries
  /\ packedBytes + PackBytes[pack[t]] <= MaxAggregateBytes

Fits(t) ==
  /\ seen[t] < MaxLiveEntries
  /\ packedBytes + PackBytes[pack[t]] <= MaxAggregateBytes

ReserveRefused(t) ==
  /\ pc[t] = "loadBytes"
  /\ ~Fits(t)
  /\ building' = FALSE
  /\ lock' = NoThread
  /\ seen' = [seen EXCEPT ![t] = 0]
  /\ Return(t)
  /\ UNCHANGED <<entries, quota, newHandle, delivered>>

\* Loading packed_bytes and the first fetch_add: a release between the two
\* commutes with the fetch_add.
ReserveAddEntry(t) ==
  /\ pc[t] = "loadBytes"
  /\ Fits(t)
  /\ liveEntries' = liveEntries + 1
  /\ lease' = [lease EXCEPT ![pack[t]] = "adding"]
  /\ seen' = [seen EXCEPT ![t] = 0]
  /\ Goto(t, "addBytes")
  /\ UNCHANGED <<lock, building, entries, packedBytes, pack, newHandle, delivered>>

ReserveAddBytes(t) ==
  /\ pc[t] = "addBytes"
  /\ packedBytes' = packedBytes + PackBytes[pack[t]]
  /\ lease' = [lease EXCEPT ![pack[t]] = "held"]
  /\ lock' = NoThread
  /\ Goto(t, "build")
  /\ UNCHANGED <<building, entries, liveEntries, pack, seen, newHandle, delivered>>

\* Copying, verifying, lowering, emitting, building and loading all happen
\* outside the mutex; on failure the reservation is dropped, which gives back
\* the building flag first and the quota after it.
Build(t) ==
  /\ pc[t] = "build"
  /\ Goto(t, "publish") \/ Goto(t, "unreserve")
  /\ UNCHANGED <<lock, building, entries, quota, pack, seen, newHandle, delivered>>

\* random_handle never returns zero or a key that is present; a handle value
\* that was destroyed may be drawn again.
Publish(t, h) ==
  /\ pc[t] = "publish"
  /\ lock = NoThread
  /\ entries[h] = NoPack
  /\ entries' = [entries EXCEPT ![h] = pack[t]]
  /\ newHandle' = [newHandle EXCEPT ![t] = h]
  /\ pack' = [pack EXCEPT ![t] = NoPack]
  /\ Goto(t, "commit")
  /\ UNCHANGED <<lock, building, quota, seen, delivered>>

\* No table storage or no fresh handle: the entry, which owns the lease by
\* now, is dropped before the reservation that owns the building flag.
PublishFails(t) ==
  /\ pc[t] = "publish"
  /\ lock = NoThread
  /\ Goto(t, "dropEntry")
  /\ UNCHANGED <<lock, building, entries, quota, pack, seen, newHandle, delivered>>

Commit(t) ==
  /\ pc[t] = "commit"
  /\ lock = NoThread
  /\ building' = FALSE
  /\ delivered' = delivered \cup {newHandle[t]}
  /\ newHandle' = [newHandle EXCEPT ![t] = NoHandle]
  /\ Goto(t, "idle")
  /\ UNCHANGED <<lock, entries, quota, pack, seen>>

\* Drop of a CreateReservation that is still active.
Unreserve(t) ==
  /\ pc[t] \in {"unreserve", "unreserveLast"}
  /\ lock = NoThread
  /\ building' = FALSE
  /\ Goto(t, IF pc[t] = "unreserve" THEN "returnEntry" ELSE "idle")
  /\ UNCHANGED <<lock, entries, quota, pack, seen, newHandle, delivered>>

-----------------------------------------------------------------------------
(* Drop of an AdmissionLease: two atomic subtractions, no mutex.           *)

\* Mutant: the entry counter is left to the caller of the release.
ReleaseEntryUncounted(t) ==
  /\ pc[t] \in {"returnEntry", "dropEntry"}
  /\ liveEntries' = IF pc[t] = "returnEntry" THEN liveEntries - 1 ELSE liveEntries
  /\ lease' = [lease EXCEPT ![pack[t]] = "releasing"]
  /\ Goto(t, IF pc[t] = "returnEntry" THEN "returnBytes" ELSE "dropBytes")
  /\ UNCHANGED <<lock, building, entries, packedBytes, pack, seen, newHandle, delivered>>

ReleaseEntry(t) ==
  /\ pc[t] \in {"returnEntry", "dropEntry"}
  /\ liveEntries' = liveEntries - 1
  /\ lease' = [lease EXCEPT ![pack[t]] = "releasing"]
  /\ Goto(t, IF pc[t] = "returnEntry" THEN "returnBytes" ELSE "dropBytes")
  /\ UNCHANGED <<lock, building, entries, packedBytes, pack, seen, newHandle, delivered>>

ReleaseBytes(t) ==
  /\ pc[t] \in {"returnBytes", "dropBytes"}
  /\ packedBytes' = packedBytes - PackBytes[pack[t]]
  /\ lease' = [lease EXCEPT ![pack[t]] = "unused"]
  /\ pack' = [pack EXCEPT ![t] = NoPack]
  /\ Goto(t, IF pc[t] = "returnBytes" THEN "idle" ELSE "unreserveLast")
  /\ UNCHANGED <<lock, building, entries, liveEntries, seen, newHandle, delivered>>

-----------------------------------------------------------------------------
(* df_runtime_run_v1, df_runtime_get_descriptor_v1, df_runtime_destroy_v1. *)
(* A caller presents handles it was given, destroyed since or not.         *)

\* Cloning the Arc under the mutex.
TakeReference(t, h, next) ==
  /\ pc[t] = "idle"
  /\ lock = NoThread
  /\ entries[h] # NoPack
  /\ pack' = [pack EXCEPT ![t] = entries[h]]
  /\ Goto(t, next)

\* A run or a descriptor query.
Lookup(t, h) ==
  /\ TakeReference(t, h, "use")
  /\ UNCHANGED <<lock, building, entries, quota, seen, newHandle, delivered>>

\* Validating, executing or copying identities, in whatever way it ends.
Use(t) ==
  /\ pc[t] = "use"
  /\ Goto(t, "drop")
  /\ UNCHANGED <<lock, building, entries, quota, pack, seen, newHandle, delivered>>

\* The registry's own reference moves to the destroying thread, which drops it
\* after unlocking.
Destroy(t, h) ==
  /\ TakeReference(t, h, "drop")
  /\ entries' = [entries EXCEPT ![h] = NoPack]
  /\ UNCHANGED <<lock, building, quota, seen, newHandle, delivered>>

\* Mutant: the count overlooks the registry.
LastReferenceIgnoresRegistry(t) ==
  \A u \in Threads \ {t} : pc[u] \in Owning => pack[u] # pack[t]

\* Drop of an Arc: the last owner runs Entry's destructor.
LastReference(t) ==
  /\ \A h \in Handles : entries[h] # pack[t]
  /\ \A u \in Threads \ {t} : pc[u] \in Owning => pack[u] # pack[t]

DropReferenceLeaks(t) ==
  /\ pc[t] = "drop"
  /\ Return(t)
  /\ UNCHANGED <<lock, building, entries, quota, seen, newHandle, delivered>>

DropReference(t) ==
  /\ pc[t] = "drop"
  /\ IF LastReference(t)
       THEN Goto(t, "returnEntry") /\ UNCHANGED pack
       ELSE Return(t)
  /\ UNCHANGED <<lock, building, entries, quota, seen, newHandle, delivered>>

-----------------------------------------------------------------------------
Begin(t) ==
  \/ \E p \in Packs : ReserveLoadEntries(t, p)
  \/ \E h \in delivered : Lookup(t, h) \/ Destroy(t, h)

\* What a call that has begun does next.
Continue(t) ==
  \/ ReserveRefused(t) \/ ReserveAddEntry(t) \/ ReserveAddBytes(t)
  \/ Build(t)
  \/ \E h \in Handles : Publish(t, h)
  \/ PublishFails(t)
  \/ Commit(t)
  \/ Unreserve(t)
  \/ ReleaseEntry(t) \/ ReleaseBytes(t)
  \/ Use(t)
  \/ DropReference(t)

Next == \E t \in Threads : Begin(t) \/ Continue(t)

Spec == Init /\ [][Next]_vars

\* A thread inside a call keeps running: builds and kernels terminate.
FairSpec == Spec /\ \A t \in Threads : WF_vars(Continue(t))

-----------------------------------------------------------------------------
Linked(p) == \E h \in Handles : entries[h] = p

\* Every variable stays in the set the code declares it with.
TypeOK ==
  /\ lock \in Threads \cup {NoThread}
  /\ building \in BOOLEAN
  /\ entries \in [Handles -> Packs \cup {NoPack}]
  /\ liveEntries \in Int
  /\ packedBytes \in Int
  /\ lease \in [Packs -> {"unused", "adding", "held", "releasing"}]
  /\ pc \in [Threads -> PC]
  /\ pack \in [Threads -> Packs \cup {NoPack}]
  /\ seen \in [Threads -> Int]
  /\ newHandle \in [Threads -> Handles \cup {NoHandle}]
  /\ delivered \subseteq Handles

\* reserve() checks two counters that releases change without the mutex, and
\* adds to them one at a time: neither limit is ever exceeded all the same.
QuotaRespected ==
  /\ liveEntries <= MaxLiveEntries
  /\ packedBytes <= MaxAggregateBytes

\* The counters never drift from the leases they count, so no interleaving of
\* releases and a create wraps a usize below zero or loses capacity.
AccountingExact ==
  /\ liveEntries = Cardinality({p \in Packs : lease[p] \in {"adding", "held"}})
  /\ packedBytes = MapThenSumSet(LAMBDA p : PackBytes[p],
                      {p \in Packs : lease[p] \in {"held", "releasing"}})

\* "At most one create/build is admitted at a time": the flag is up exactly
\* while one thread is between reserve_create and the end of its reservation,
\* on success, on a failed build and on a failed publication alike.
OneBuilder ==
  /\ building <=> \E t \in Threads : pc[t] \in Creating
  /\ \A t, u \in Threads : pc[t] \in Creating /\ pc[u] \in Creating => t = u

\* A pack that the registry or a call in progress can reach has not begun to be
\* released, whichever of several destroys and runs drops it last.
NoUseAfterFree ==
  /\ \A h \in Handles : entries[h] # NoPack => lease[entries[h]] = "held"
  /\ \A t \in Threads : pc[t] \in Owning => lease[pack[t]] = "held"

\* A pack that was admitted and is not, or no longer, in the registry is either
\* published or gives its quota back, however many runs still held it when it
\* was destroyed.
QuotaReturns ==
  \A p \in Packs :
    lease[p] = "held" /\ ~Linked(p) ~> lease[p] = "unused" \/ Linked(p)

\* The strengthening that makes the invariants above inductive.  A thread's
\* place tells what it owns,
Holding == PC \ {"idle", "commit", "unreserveLast"}

Ownership ==
  \A t \in Threads :
    /\ pack[t] \in Packs <=> pc[t] \in Holding
    /\ newHandle[t] \in Handles <=> pc[t] = "commit"

\* the split critical section is one,
Exclusion ==
  /\ OneBuilder
  /\ \A t \in Threads : pc[t] \in Reserving <=> lock = t

\* what reserve() loaded can only have become smaller,
QuotaReserved ==
  /\ QuotaRespected
  /\ \A t \in Threads : pc[t] = "loadBytes" => liveEntries <= seen[t]
  /\ \A t \in Threads : pc[t] = "addBytes" =>
       packedBytes + PackBytes[pack[t]] <= MaxAggregateBytes

\* and a pack is shared only by the registry and owners of a reference.
LeaseAt(place) ==
  CASE place = "loadBytes" -> "unused"
    [] place = "addBytes" -> "adding"
    [] place \in {"returnBytes", "dropBytes"} -> "releasing"
    [] OTHER -> "held"

References ==
  /\ \A t \in Threads : pc[t] \in Holding => lease[pack[t]] = LeaseAt(pc[t])
  /\ \A t, u \in Threads :
       t # u /\ pack[t] \in Packs /\ pack[t] = pack[u] => pc[t] \in Owning
  /\ \A h \in Handles : entries[h] # NoPack =>
       /\ lease[entries[h]] = "held"
       /\ \A t \in Threads : pack[t] = entries[h] => pc[t] \in Owning

\* All of it together, an invariant of every step of every caller.
Inductive == TypeOK /\ Ownership /\ Exclusion /\ QuotaReserved /\ References

\* The bridge implements the table of handles it promises: lookups, removals
\* and quota charges each take effect at one instant inside their call.
HT == INSTANCE HandleTable WITH
        table <- entries,
        using <- [t \in Threads |-> IF pc[t] \in Owning THEN pack[t] ELSE NoPack],
        charged <- {p \in Packs : lease[p] \in {"adding", "held"}}

Implements == HT!Spec
=============================================================================
