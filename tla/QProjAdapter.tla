---------------------------- MODULE QProjAdapter ----------------------------
(***************************************************************************)
(* QProjAdapter of python/decodeforge/qproj_adapter.py: one native binding  *)
(* and its same-Q8 fallback behind a condition variable.  forward() calls   *)
(* are counted in and out; set_execution_mode() and close() wait for the    *)
(* count to reach zero; a dispatch lock serialises the work itself, which   *)
(* NativeQ8Linear (torch_bridge.py) guards.  Every action under the         *)
(* lifecycle lock is one step; Condition.wait puts a thread to sleep until  *)
(* a notify_all, after which it looks at its condition again.               *)
(***************************************************************************)
EXTENDS Naturals, FiniteSets

CONSTANTS
  Threads,
  None,
  MaxCalls,     \* bound: how many calls each thread makes
  Interrupts    \* whether a KeyboardInterrupt may end a wait

ASSUME AdapterAssumption ==
  /\ MaxCalls \in [Threads -> Nat]
  /\ Interrupts \in BOOLEAN
  /\ None \notin Threads

Modes == {"hybrid_native", "same_q8_reference"}

VARIABLES
  mode,           \* _execution_mode
  closing, closed, closeFailed, transitioning,
  inFlight,       \* _in_flight
  forwardThreads, \* _forward_threads
  asleep,         \* threads inside Condition.wait
  bindingId,      \* "held" while _binding_id is not None
  binding,        \* what the registry has: "live" or "gone"
  dispatch,       \* _dispatch_lock: its holder or None
  lastReason,     \* NativeQ8Linear._last_guard_reason
  lastGuardReason,\* QProjAdapter._last_guard_reason
  counters,       \* the counters of QProjAdapter
  ran,            \* history: how often each path was really entered
  pc,             \* where each thread's call is
  nested,         \* whether that call was made from inside the native callback
  wants,          \* the mode a set_execution_mode call asks for
  callMode,       \* the mode a forward was admitted with
  calls           \* how many calls each thread has made

lifecycle == <<mode, closing, closed, closeFailed, transitioning, inFlight, forwardThreads>>
owned == <<bindingId, binding>>
work == <<dispatch, lastReason, lastGuardReason, counters, ran>>
frame == <<nested, wants, callMode, calls>>
vars == <<lifecycle, asleep, owned, work, pc, frame>>

CounterNames == {"forward", "nativeAttempt", "nativeSuccess", "nativeError", "fallbackAttempt",
                 "fallbackSuccess", "fallbackError", "predispatchError", "rejectedClosed"}

Init ==
  /\ mode = "hybrid_native"
  /\ closing = FALSE /\ closed = FALSE /\ closeFailed = FALSE /\ transitioning = FALSE
  /\ inFlight = 0 /\ forwardThreads = {} /\ asleep = {}
  /\ bindingId = "held" /\ binding = "live"
  /\ dispatch = None
  /\ lastReason = "none" /\ lastGuardReason = "none"
  /\ counters = [c \in CounterNames |-> 0]
  /\ ran = [native |-> 0, fallback |-> 0]
  /\ pc = [t \in Threads |-> "idle"]
  /\ nested = [t \in Threads |-> FALSE]
  /\ wants = [t \in Threads |-> "hybrid_native"]
  /\ callMode = [t \in Threads |-> "hybrid_native"]
  /\ calls = [t \in Threads |-> 0]

-----------------------------------------------------------------------------
At(t, place) == pc[t] = place /\ t \notin asleep
Goto(t, place) == pc' = [pc EXCEPT ![t] = place] /\ UNCHANGED frame

\* Condition.wait gives the lock up; notify_all wakes every sleeper.
Wait(t) == asleep' = asleep \cup {t} /\ UNCHANGED <<lifecycle, owned, work, pc, frame>>
NotifyAll == asleep' = {}

\* A call that was made from inside a native callback returns into it.
Return(t) ==
  /\ pc' = [pc EXCEPT ![t] = IF nested[t] THEN "native" ELSE "idle"]
  /\ nested' = [nested EXCEPT ![t] = FALSE]
  /\ wants' = [wants EXCEPT ![t] = "hybrid_native"]
  /\ UNCHANGED calls

Unavailable == closing \/ closed \/ closeFailed

Count(names) == counters' = [c \in CounterNames |-> counters[c] + IF c \in names THEN 1 ELSE 0]

\* A thread makes a call, possibly from inside the callback of its own forward.
BeginCall(t, place, m) ==
  /\ At(t, "idle") \/ (At(t, "native") /\ ~nested[t])
  /\ calls[t] < MaxCalls[t]
  /\ calls' = [calls EXCEPT ![t] = @ + 1]
  /\ nested' = [nested EXCEPT ![t] = pc[t] = "native"]
  /\ wants' = [wants EXCEPT ![t] = m]
  /\ pc' = [pc EXCEPT ![t] = place]
  /\ UNCHANGED <<lifecycle, asleep, owned, work, callMode>>

\* Each method refuses a caller that is inside a forward of its own: waiting
\* would be for itself.
RejectRecursion(t) ==
  /\ \E place \in {"forward", "setMode", "close"} : At(t, place)
  /\ t \in forwardThreads
  /\ Return(t)
  /\ UNCHANGED <<lifecycle, asleep, owned, work, callMode>>

-----------------------------------------------------------------------------
(* forward                                                                 *)

\* _begin_forward
BeginForward(t) ==
  /\ At(t, "forward") /\ t \notin forwardThreads
  /\ ~transitioning /\ ~Unavailable
  /\ inFlight' = inFlight + 1
  /\ forwardThreads' = forwardThreads \cup {t}
  /\ callMode' = [callMode EXCEPT ![t] = mode]
  /\ pc' = [pc EXCEPT ![t] = "dispatch"]
  /\ UNCHANGED <<mode, closing, closed, closeFailed, transitioning, asleep, owned, work, nested, wants, calls>>

BeginForwardWaits(t) == At(t, "forward") /\ t \notin forwardThreads /\ transitioning /\ Wait(t)

BeginForwardRejected(t) ==
  /\ At(t, "forward") /\ t \notin forwardThreads
  /\ ~transitioning /\ Unavailable
  /\ Count({"rejectedClosed"})
  /\ Return(t)
  /\ UNCHANGED <<lifecycle, asleep, owned, dispatch, lastReason, lastGuardReason, ran, callMode>>

Enter(t, path) ==
  /\ ran' = [ran EXCEPT ![path] = @ + 1]
  /\ Goto(t, path)

\* Mutant: forwards dispatch side by side.
DispatchShared(t) ==
  /\ At(t, "dispatch")
  /\ IF callMode[t] = "same_q8_reference" THEN Enter(t, "fallback") ELSE Goto(t, "guard") /\ UNCHANGED ran
  /\ UNCHANGED <<lifecycle, asleep, owned, dispatch, counters, lastReason, lastGuardReason>>

\* Under the dispatch lock the fallback's storage is checked first; whether the
\* caller has tampered with it is not tracked.
Dispatch(t) ==
  /\ At(t, "dispatch") /\ dispatch = None
  /\ dispatch' = t
  /\ IF callMode[t] = "same_q8_reference" THEN Enter(t, "fallback") ELSE Goto(t, "guard") /\ UNCHANGED ran
  /\ UNCHANGED <<lifecycle, asleep, owned, counters, lastReason, lastGuardReason>>

DispatchTampered(t) ==
  /\ At(t, "dispatch") /\ dispatch = None
  /\ Count({"forward", "predispatchError"})
  /\ Goto(t, "leave")
  /\ UNCHANGED <<lifecycle, asleep, owned, dispatch, lastReason, lastGuardReason, ran>>

\* What forward() counts once the work is over: it tells the path from the
\* reason the callable keeps of its latest guard.
Record(t, reason, success) ==
  /\ lastGuardReason' = reason
  /\ Count({"forward"} \cup
           IF reason = "none"
             THEN {"nativeAttempt", IF success THEN "nativeSuccess" ELSE "nativeError"}
             ELSE {"fallbackAttempt", IF success THEN "fallbackSuccess" ELSE "fallbackError"})
  /\ dispatch' = None
  /\ Goto(t, "leave")
  /\ UNCHANGED <<lifecycle, asleep, owned>>

\* _tensor_guard_reason: the tensor is admitted or not, and none is without a binding.
GuardReason(reason) == reason \in {"none", "miss"} /\ (binding = "gone" => reason = "miss")

\* NativeQ8Linear.__call__: the guard passes, or it misses.
Guard(t, reason) ==
  /\ At(t, "guard")
  /\ GuardReason(reason)
  /\ lastReason' = reason
  /\ Enter(t, IF reason = "none" THEN "native" ELSE "fallback")
  /\ UNCHANGED <<lifecycle, asleep, owned, dispatch, counters, lastGuardReason>>

\* The inspection itself raises, before any dispatch.
GuardRaises(t) ==
  /\ At(t, "guard")
  /\ lastReason' = "guard_error"
  /\ Record(t, "guard_error", FALSE)
  /\ UNCHANGED ran

\* _native_q8_linear asks for the binding again; what it calls may fail in any case.
NativeAnswers(success) == success => binding = "live"

\* The work ends with a tensor, or with an exception or anything else.
Finish(t, success) ==
  /\ (At(t, "native") /\ NativeAnswers(success)) \/ At(t, "fallback")
  /\ Record(t, IF callMode[t] = "same_q8_reference" THEN "same_q8_reference" ELSE lastReason, success)
  /\ UNCHANGED <<lastReason, ran>>

\* Mutant: the last forward out tells nobody.
EndForwardSilently(t) ==
  /\ At(t, "leave")
  /\ forwardThreads' = forwardThreads \ {t}
  /\ inFlight' = inFlight - 1
  /\ Return(t)
  /\ callMode' = [callMode EXCEPT ![t] = "hybrid_native"]
  /\ UNCHANGED <<mode, closing, closed, closeFailed, transitioning, asleep, owned, work>>

\* _end_forward: only the last one out wakes the waiters.
EndForward(t) ==
  /\ At(t, "leave")
  /\ forwardThreads' = forwardThreads \ {t}
  /\ inFlight' = inFlight - 1
  /\ IF inFlight = 1 THEN NotifyAll ELSE UNCHANGED asleep
  /\ Return(t)
  /\ callMode' = [callMode EXCEPT ![t] = "hybrid_native"]
  /\ UNCHANGED <<mode, closing, closed, closeFailed, transitioning, owned, work>>

-----------------------------------------------------------------------------
(* set_execution_mode                                                      *)

SetModeWaits(t) == At(t, "setMode") /\ t \notin forwardThreads /\ transitioning /\ Wait(t)

\* Refused while the adapter is going away; nothing to do for the same mode.
SetModeReturns(t) ==
  /\ At(t, "setMode") /\ t \notin forwardThreads /\ ~transitioning
  /\ Unavailable \/ wants[t] = mode
  /\ Return(t)
  /\ UNCHANGED <<lifecycle, asleep, owned, work, callMode>>

SetModeBegins(t) ==
  /\ At(t, "setMode") /\ t \notin forwardThreads /\ ~transitioning
  /\ ~Unavailable /\ wants[t] # mode
  /\ transitioning' = TRUE
  /\ Goto(t, "drainMode")
  /\ UNCHANGED <<mode, closing, closed, closeFailed, inFlight, forwardThreads, asleep, owned, work>>

SetModeDrains(t) == At(t, "drainMode") /\ inFlight # 0 /\ Wait(t)

SetModeEnds(t) ==
  /\ At(t, "drainMode") /\ inFlight = 0
  /\ mode' = wants[t]
  /\ transitioning' = FALSE
  /\ NotifyAll
  /\ Return(t)
  /\ UNCHANGED <<closing, closed, closeFailed, inFlight, forwardThreads, owned, work, callMode>>

-----------------------------------------------------------------------------
(* close                                                                   *)

CloseWaits(t) == At(t, "close") /\ t \notin forwardThreads /\ (closing \/ transitioning) /\ Wait(t)

CloseAgain(t) ==
  /\ At(t, "close") /\ t \notin forwardThreads /\ ~closing /\ ~transitioning
  /\ closed
  /\ Return(t)
  /\ UNCHANGED <<lifecycle, asleep, owned, work, callMode>>

\* Mutant: a transition in progress is not waited for.
CloseBeginsAnyway(t) ==
  /\ At(t, "close") /\ t \notin forwardThreads /\ ~closing
  /\ ~closed
  /\ closing' = TRUE
  /\ Goto(t, "drain")
  /\ UNCHANGED <<mode, closed, closeFailed, transitioning, inFlight, forwardThreads, asleep, owned, work>>

CloseBegins(t) ==
  /\ At(t, "close") /\ t \notin forwardThreads /\ ~closing /\ ~transitioning
  /\ ~closed
  /\ closing' = TRUE
  /\ Goto(t, "drain")
  /\ UNCHANGED <<mode, closed, closeFailed, transitioning, inFlight, forwardThreads, asleep, owned, work>>

CloseDrains(t) == At(t, "drain") /\ inFlight # 0 /\ Wait(t)

\* close_binding runs after the lifecycle lock was given up.
CloseDestroys(t, success) ==
  /\ At(t, "drain") /\ inFlight = 0
  /\ binding' = IF success THEN "gone" ELSE binding
  /\ Goto(t, IF success THEN "closed" ELSE "closeFailed")
  /\ UNCHANGED <<lifecycle, asleep, bindingId, work>>

CloseFails(t) ==
  /\ At(t, "closeFailed")
  /\ closing' = FALSE /\ closeFailed' = TRUE
  /\ NotifyAll
  /\ Return(t)
  /\ UNCHANGED <<mode, closed, transitioning, inFlight, forwardThreads, owned, work, callMode>>

CloseEnds(t) ==
  /\ At(t, "closed")
  /\ bindingId' = "none"
  /\ closed' = TRUE /\ closing' = FALSE /\ closeFailed' = FALSE
  /\ NotifyAll
  /\ Return(t)
  /\ UNCHANGED <<mode, transitioning, inFlight, forwardThreads, binding, work, callMode>>

\* A KeyboardInterrupt ends a wait.  set_execution_mode has a finally for it;
\* close has none, and _closing stays set.
Interrupt(t) ==
  /\ Interrupts /\ t \in asleep
  /\ IF pc[t] = "drainMode"
       THEN transitioning' = FALSE /\ NotifyAll
       ELSE UNCHANGED transitioning /\ asleep' = asleep \ {t}
  /\ Return(t)
  /\ UNCHANGED <<mode, closing, closed, closeFailed, inFlight, forwardThreads, owned, work, callMode>>

-----------------------------------------------------------------------------
Forward(t) ==
  \/ BeginForward(t) \/ BeginForwardWaits(t) \/ BeginForwardRejected(t)
  \/ Dispatch(t) \/ DispatchTampered(t)
  \/ \E reason \in {"none", "miss"} : Guard(t, reason)
  \/ GuardRaises(t)
  \/ \E success \in BOOLEAN : Finish(t, success)
  \/ EndForward(t)

SetMode(t) ==
  SetModeWaits(t) \/ SetModeReturns(t) \/ SetModeBegins(t) \/ SetModeDrains(t) \/ SetModeEnds(t)

Close(t) ==
  \/ CloseWaits(t) \/ CloseAgain(t) \/ CloseBegins(t) \/ CloseDrains(t)
  \/ \E success \in BOOLEAN : CloseDestroys(t, success)
  \/ CloseFails(t) \/ CloseEnds(t)

Continue(t) == RejectRecursion(t) \/ Forward(t) \/ SetMode(t) \/ Close(t)

Finished == \A t \in Threads : pc[t] = "idle" /\ calls[t] = MaxCalls[t]

Next ==
  \/ \E t \in Threads :
       \/ \E place \in {"forward", "close"} : BeginCall(t, place, "hybrid_native")
       \/ \E m \in Modes : BeginCall(t, "setMode", m)
       \/ Continue(t)
       \/ Interrupt(t)
  \/ Finished /\ UNCHANGED vars

Spec == Init /\ [][Next]_vars

\* A thread that can go on does: native calls end, and the locks are granted.
FairSpec == Spec /\ \A t \in Threads : WF_vars(Continue(t))

-----------------------------------------------------------------------------
Places == {"idle", "forward", "dispatch", "guard", "native", "fallback", "leave", "setMode",
           "drainMode", "close", "drain", "closed", "closeFailed"}
Reasons == {"none", "miss", "guard_error", "same_q8_reference"}

\* Every variable keeps its type; in particular the count of forwards, which
\* two methods wait on, never drops below zero.
TypeOK ==
  /\ mode \in Modes
  /\ closing \in BOOLEAN /\ closed \in BOOLEAN
  /\ closeFailed \in BOOLEAN /\ transitioning \in BOOLEAN
  /\ inFlight \in Nat
  /\ forwardThreads \subseteq Threads /\ asleep \subseteq Threads
  /\ bindingId \in {"held", "none"} /\ binding \in {"live", "gone"}
  /\ dispatch \in Threads \cup {None}
  /\ lastReason \in Reasons /\ lastGuardReason \in Reasons
  /\ counters \in [CounterNames -> Nat]
  /\ ran \in [{"native", "fallback"} -> Nat]
  /\ pc \in [Threads -> Places]
  /\ nested \in [Threads -> BOOLEAN]
  /\ wants \in [Threads -> Modes] /\ callMode \in [Threads -> Modes]
  /\ calls \in [Threads -> Nat]

\* "close ... waits for every admitted forward call": while a forward is inside,
\* from its admission to its exit, its binding is there.
CloseWaitsForForwards == forwardThreads # {} => binding = "live" /\ ~closed

\* "Wait for admitted calls, change mode": all forwards inside run under one
\* mode, and it is the one execution_mode reports.
OneModeInside == \A t \in forwardThreads : callMode[t] = mode

\* close "retains ownership when destruction fails": a live binding is never
\* forgotten, and an adapter that reports closed has given its binding back.
OwnershipRetained == (bindingId = "none" <=> closed) /\ (closed => binding = "gone")

\* Once no forward is inside, the counters tell what happened: the forwards
\* partition by path, and as many were counted as native attempts as entered
\* the native call.  The path is told from state that the next guard overwrites.
CountersHonest ==
  forwardThreads = {} =>
    /\ counters.nativeAttempt = ran.native
    /\ counters.nativeAttempt = counters.nativeSuccess + counters.nativeError
    /\ counters.fallbackAttempt >= ran.fallback
    /\ counters.forward =
         counters.nativeAttempt + counters.fallbackAttempt + counters.predispatchError

\* Once a close has begun no forward is admitted, neither after it has failed
\* nor while it is tried again nor after it has succeeded.
NeverReopened ==
  [][Unavailable => Unavailable' /\ forwardThreads' \subseteq forwardThreads]_vars

-----------------------------------------------------------------------------
(* Why it holds: the parts of an inductive invariant.                      *)

\* The count, the set of threads and the places of the calls say the same; only
\* calls that wait under the lifecycle lock sleep, and none that is inside.
InsidePlaces == {"dispatch", "guard", "native", "fallback", "leave"}

CountExact == IsFiniteSet(forwardThreads) /\ inFlight = Cardinality(forwardThreads)

InsideAgrees ==
  \A t \in Threads :
    /\ t \in forwardThreads <=> pc[t] \in InsidePlaces \/ nested[t]
    /\ nested[t] => pc[t] \in {"forward", "setMode", "close"}
    /\ t \in asleep => pc[t] \in {"forward", "setMode", "drainMode", "close", "drain"}

\* One transition at a time, and only while no close has begun.
OneTransition ==
  /\ \A t \in Threads : pc[t] = "drainMode" => transitioning
  /\ \A t, u \in Threads : pc[t] = "drainMode" /\ pc[u] = "drainMode" => t = u
  /\ transitioning => ~Unavailable

\* One close at a time, and none after one has succeeded.
ClosePlaces == {"drain", "closed", "closeFailed"}

OneClose ==
  /\ \A t \in Threads : pc[t] \in ClosePlaces => closing
  /\ \A t, u \in Threads : pc[t] \in ClosePlaces /\ pc[u] \in ClosePlaces => t = u
  /\ closing => ~closed

\* The binding goes in one close only, after the last forward has left.
Drained ==
  /\ \A t \in Threads : pc[t] \in {"drain", "closeFailed"} => binding = "live"
  /\ \A t \in Threads : pc[t] = "closed" => binding = "gone"
  /\ binding = "gone" => forwardThreads = {} /\ (closed \/ \E t \in Threads : pc[t] = "closed")

Inductive ==
  /\ TypeOK /\ CountExact /\ InsideAgrees /\ OneTransition /\ OneClose
  /\ Drained /\ OwnershipRetained /\ OneModeInside

\* The adapter is an admission gate for its forwards.
Gate == INSTANCE AdmissionGate WITH
  FirstMode <- "hybrid_native",
  inside <- forwardThreads,
  gate <- IF closed THEN "closed" ELSE IF Unavailable THEN "shut" ELSE "open",
  owned <- binding = "live"

Implements == Gate!Spec

\* The one way to be stuck: an interrupted close has left closing behind, and no
\* close is left that would clear it.
Wedged == closing /\ \A t \in Threads : pc[t] \notin ClosePlaces

\* Nobody waits for ever: no wake-up is lost, no thread waits for itself, and
\* transitions and closes do not wait for each other, however waits are
\* interrupted, unless the adapter is wedged by an interrupted close.
CallsReturn == \A t \in Threads : pc[t] # "idle" ~> (pc[t] = "idle" \/ Wedged)

\* "close is idempotent": a close returns, whatever became of an earlier one.
CloseReturns == \A t \in Threads : pc[t] = "close" ~> pc[t] = "idle"
=============================================================================
