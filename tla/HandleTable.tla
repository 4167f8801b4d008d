---------------------------- MODULE HandleTable ----------------------------
(***************************************************************************)
(* What the process-local bridge promises its callers, with every call     *)
(* collapsed to the instant at which it takes effect: a table of handles,  *)
(* a set of admitted packs that is charged against the two quotas, and the *)
(* pack each thread is using.  RuntimeBridge (locks, reference counts and  *)
(* two separately updated atomic counters) is shown to implement this.     *)
(***************************************************************************)
EXTENDS Naturals, FiniteSets, FiniteSetsExt

CONSTANTS
  Threads,            \* foreign threads that call the bridge
  Packs,              \* one packed weight (one Entry) per admitted create
  Handles,            \* the nonzero 64-bit handle values
  NoPack,             \* "no entry"
  PackBytes,          \* byte length of each pack's payload
  MaxLiveEntries,     \* MAX_LIVE_ENTRIES
  MaxAggregateBytes   \* MAX_AGGREGATE_PACKED_WEIGHT_BYTES

VARIABLES
  table,    \* Handles -> Packs \cup {NoPack}
  using,    \* Threads -> Packs \cup {NoPack}: the entry a call in progress owns
  charged   \* the packs that count against the quotas

tableVars == <<table, using, charged>>

BytesOf(S) == MapThenSumSet(LAMBDA p : PackBytes[p], S)

Init ==
  /\ table = [h \in Handles |-> NoPack]
  /\ using = [t \in Threads |-> NoPack]
  /\ charged = {}

\* A create is admitted only if both quotas still hold with it.
Admit(p) ==
  /\ p \notin charged
  /\ Cardinality(charged) < MaxLiveEntries
  /\ BytesOf(charged) + PackBytes[p] <= MaxAggregateBytes
  /\ charged' = charged \cup {p}
  /\ UNCHANGED <<table, using>>

\* A finished create publishes its pack under a handle that is not in use.
Publish(p, h) ==
  /\ p \in charged
  /\ table[h] = NoPack
  /\ \A g \in Handles : table[g] # p
  /\ table' = [table EXCEPT ![h] = p]
  /\ UNCHANGED <<using, charged>>

\* A run or a query takes shared ownership of the entry its handle denotes.
Acquire(t, h) ==
  /\ using[t] = NoPack
  /\ table[h] # NoPack
  /\ using' = [using EXCEPT ![t] = table[h]]
  /\ UNCHANGED <<table, charged>>

\* A destroy unlinks the handle; the entry leaves with the destroying thread.
Remove(t, h) ==
  /\ using[t] = NoPack
  /\ table[h] # NoPack
  /\ using' = [using EXCEPT ![t] = table[h]]
  /\ table' = [table EXCEPT ![h] = NoPack]
  /\ UNCHANGED charged

Release(t) ==
  /\ using[t] # NoPack
  /\ using' = [using EXCEPT ![t] = NoPack]
  /\ UNCHANGED <<table, charged>>

\* Quota comes back only when nothing can reach the pack any more.
Reclaim(p) ==
  /\ p \in charged
  /\ \A h \in Handles : table[h] # p
  /\ \A t \in Threads : using[t] # p
  /\ charged' = charged \ {p}
  /\ UNCHANGED <<table, using>>

Next ==
  \/ \E p \in Packs : Admit(p) \/ Reclaim(p)
  \/ \E p \in Packs, h \in Handles : Publish(p, h)
  \/ \E t \in Threads, h \in Handles : Acquire(t, h) \/ Remove(t, h)
  \/ \E t \in Threads : Release(t)

Spec == Init /\ [][Next]_tableVars
=============================================================================
