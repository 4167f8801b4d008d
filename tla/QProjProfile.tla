---------------------------- MODULE QProjProfile ----------------------------
(***************************************************************************)
(* profile_qproj_internals of python/decodeforge/qproj_profile.py: for the  *)
(* time of a context the hooks of one profile stand in place of an          *)
(* adapter's guard, fallbacks and native operator and of its entry in the   *)
(* binding registry, and then everything is put back.  Several profiles may *)
(* be asked for at once, over the same adapters, while other threads run    *)
(* and close them.                                                          *)
(*                                                                          *)
(* Adapters and registry are those of QProjAdapter and BindingRegistry seen *)
(* from outside; the spans of one thread are well nested by Python's        *)
(* context managers, so that a trace is told apart only by whose it is.     *)
(***************************************************************************)
EXTENDS Integers, Sequences, SequencesExt

CONSTANTS
  Profilers,     \* threads that profile
  Foreign,       \* threads that only run the adapters
  Adapters,
  Paths,         \* the adapters behind each profile's module_paths, in their order
  None,
  MaxForwards,   \* bound: forwards per thread
  MaxCloses      \* bound: closes of adapters

ASSUME ProfileAssumption ==
  /\ Profilers \cap Foreign = {} /\ {None, "production"} \cap Profilers = {} /\ None # "production"
  \* "one adapter cannot be profiled through two paths"
  /\ \A p \in Profilers : Paths[p] \in Seq(Adapters) /\ Paths[p] # <<>> /\ IsInjective(Paths[p])
  /\ MaxForwards \in Nat /\ MaxCloses \in Nat

Threads == Profilers \cup Foreign

\* What a profile replaces per adapter, in this order.
Places == <<"entry", "guard", "fallback", "callable_fallback", "native">>

VARIABLES
  found,      \* what is in each place: "production", a profile's hook, or None
  open,       \* the adapter: "open", "closing", "shut" (a close failed) or "closed"
  inside,     \* the forwards in each adapter
  active,     \* _ACTIVE
  pc, i, j,   \* where each profile is, at which target and at which place
  binding,    \* what each profile took for the target's binding
  undo,       \* each profile's undo list
  errors,     \* the observer's or the cleanup's errors are not empty
  outcome,    \* "none", "ok" or "raised"
  forward,    \* what each thread runs: adapter, step and what it has fetched
  forwards, closes,
  traced,     \* history: the threads whose spans each trace holds
  missed,     \* history: a span of a profile's own forward is not in its trace
  torn        \* history: adapters where an interrupt came before the undo list knew

profile == <<pc, i, j, binding, undo, outcome>>
adapters == <<open, inside, closes>>
running == <<forward, forwards, traced, missed>>
vars == <<found, active, errors, torn, profile, adapters, running>>

Idle == [adapter |-> None, step |-> "none", fetched |-> None]

Init ==
  /\ found = [a \in Adapters |-> [k \in Range(Places) |-> "production"]]
  /\ open = [a \in Adapters |-> "open"] /\ inside = [a \in Adapters |-> 0]
  /\ active = {}
  /\ pc = [p \in Profilers |-> "targets"] /\ i = [p \in Profilers |-> 1]
  /\ j = [p \in Profilers |-> 1]
  /\ binding = [p \in Profilers |-> [a \in Adapters |-> None]]
  /\ undo = [p \in Profilers |-> <<>>]
  /\ errors = [p \in Profilers |-> FALSE]
  /\ outcome = [p \in Profilers |-> "none"]
  /\ forward = [t \in Threads |-> Idle] /\ forwards = [t \in Threads |-> 0] /\ closes = 0
  /\ traced = [p \in Profilers |-> {}] /\ missed = [p \in Profilers |-> FALSE]
  /\ torn = {}

Target(p) == Paths[p][i[p]]
AtLast(p) == i[p] = Len(Paths[p])
Goto(p, where) == pc' = [pc EXCEPT ![p] = where]
World == UNCHANGED <<adapters, running, torn>>

-----------------------------------------------------------------------------
(* _targets                                                                *)

\* Before the context there is nothing to put back.
Refuse(p) ==
  /\ pc' = [pc EXCEPT ![p] = "ended"] /\ outcome' = [outcome EXCEPT ![p] = "raised"]
  /\ i' = [i EXCEPT ![p] = 1]
  /\ binding' = [binding EXCEPT ![p] = [a \in Adapters |-> None]]
  /\ UNCHANGED <<found, active, errors, j, undo>> /\ World

\* The first look at _ACTIVE, and at the fallbacks.
LookAtTarget(p) ==
  /\ pc[p] = "targets"
  /\ IF Target(p) \in active
          \/ \E k \in {"fallback", "callable_fallback"} : found[Target(p)][k] # "production"
     THEN Refuse(p)
     ELSE /\ Goto(p, "counters")
          /\ UNCHANGED <<found, active, errors, i, j, binding, undo, outcome>> /\ World

RequireIdle(p) ==
  /\ pc[p] = "counters"
  /\ IF open[Target(p)] = "closed" \/ inside[Target(p)] > 0
     THEN Refuse(p)
     ELSE /\ Goto(p, "binding")
          /\ UNCHANGED <<found, active, errors, i, j, binding, undo, outcome>> /\ World

\* get_binding
TakeBinding(p) ==
  /\ pc[p] = "binding"
  /\ IF found[Target(p)]["entry"] = None
     THEN Refuse(p)
     ELSE /\ binding' = [binding EXCEPT ![p][Target(p)] = found[Target(p)]["entry"]]
          /\ IF AtLast(p) THEN Goto(p, "activate") /\ i' = [i EXCEPT ![p] = 1]
                          ELSE Goto(p, "targets") /\ i' = [i EXCEPT ![p] = @ + 1]
          /\ UNCHANGED <<found, active, errors, j, undo, outcome>> /\ World

-----------------------------------------------------------------------------
(* The context                                                             *)

Enter(p) ==
  /\ active' = active \cup Range(Paths[p])
  /\ Goto(p, "install")
  /\ UNCHANGED <<found, errors, i, j, binding, undo, outcome>> /\ World

\* Mutant: the targets are taken as they were found before.
ActivateUnseen(p) == pc[p] = "activate" /\ Enter(p)

\* The second look at _ACTIVE, under the lock that marks the targets.
Activate(p) ==
  /\ pc[p] = "activate"
  /\ IF Range(Paths[p]) \cap active # {} THEN Refuse(p) ELSE Enter(p)

Leave(p) ==
  /\ Goto(p, "undo") /\ outcome' = [outcome EXCEPT ![p] = "raised"]
  /\ i' = [i EXCEPT ![p] = 1] /\ j' = [j EXCEPT ![p] = 1]

Put(p, k) ==
  found' = [found EXCEPT ![Target(p)][k] = p]

NextPlace(p) ==
  /\ IF j[p] < Len(Places) THEN j' = [j EXCEPT ![p] = @ + 1] /\ UNCHANGED <<pc, i>>
     ELSE /\ j' = [j EXCEPT ![p] = 1]
          /\ IF AtLast(p) THEN Goto(p, "body") /\ i' = [i EXCEPT ![p] = 1]
                          ELSE i' = [i EXCEPT ![p] = @ + 1] /\ UNCHANGED pc
  /\ UNCHANGED outcome

\* Mutant: whatever the registry has is replaced.
EntryIsTaken(p) == TRUE

\* The entry must still be what _targets found.
EntryIs(p) == found[Target(p)]["entry"] = binding[p][Target(p)]

\* _install_target; what is to come back is noted with each place.
InstallPlace(p) ==
  /\ pc[p] = "install"
  /\ LET k == Places[j[p]]
         before == IF k = "entry" THEN binding[p][Target(p)] ELSE found[Target(p)][k]
     IN IF k = "entry" /\ ~EntryIs(p) THEN Leave(p) /\ UNCHANGED <<found, undo>>
        ELSE /\ Put(p, k)
             /\ undo' = [undo EXCEPT ![p] = Append(@, <<Target(p), k, before>>)]
             /\ NextPlace(p)
  /\ binding' = [binding EXCEPT ![p][Target(p)] = None]
  /\ UNCHANGED <<active, errors>> /\ World

\* The body ends; what it raised goes on to the caller.
EndBody(p) ==
  /\ pc[p] = "body" /\ forward[p] = Idle
  /\ \/ Goto(p, "undo") /\ UNCHANGED <<i, j, outcome>>
     \/ Leave(p)
  /\ UNCHANGED <<found, active, errors, binding, undo>> /\ World

\* KeyboardInterrupt: if between a replacement and its note, the hook stays.
Interrupt(p) ==
  /\ \/ pc[p] = "install" /\ Put(p, Places[j[p]]) /\ torn' = torn \cup {Target(p)}
     \/ pc[p] = "install" /\ UNCHANGED <<found, torn>>
  /\ Leave(p)
  /\ binding' = [binding EXCEPT ![p] = [a \in Adapters |-> None]]
  /\ UNCHANGED <<active, errors, undo, adapters, running>>

\* restore and restore_binding.  The first two attributes are deleted, which fails
\* when they are gone; the entry may be gone only with the binding.
Restores(p, a, k, before) ==
  CASE k = "entry" /\ found[a][k] = p ->
         found' = [found EXCEPT ![a][k] = IF open[a] = "closed" THEN None ELSE before] /\ UNCHANGED errors
    [] k = "entry" /\ found[a][k] # p ->
         errors' = [errors EXCEPT ![p] = @ \/ found[a][k] # None \/ open[a] # "closed"] /\ UNCHANGED found
    [] k \in {"guard", "fallback"} /\ found[a][k] = "production" ->
         errors' = [errors EXCEPT ![p] = TRUE] /\ UNCHANGED found
    [] OTHER -> found' = [found EXCEPT ![a][k] = before] /\ UNCHANGED errors

\* The last replacement is undone first.
UndoPlace(p) ==
  /\ pc[p] = "undo" /\ undo[p] # <<>>
  /\ LET entry == Last(undo[p]) IN Restores(p, entry[1], entry[2], entry[3])
  /\ undo' = [undo EXCEPT ![p] = Front(@)]
  /\ UNCHANGED <<active, pc, i, j, binding, outcome>> /\ World

Deactivate(p) ==
  /\ pc[p] = "undo" /\ undo[p] = <<>>
  /\ active' = active \ Range(Paths[p])
  /\ Goto(p, "exit")
  /\ UNCHANGED <<found, errors, i, j, binding, undo, outcome>> /\ World

\* Deferred errors are raised, or noted on the one that goes up already.
Exit(p) ==
  /\ pc[p] = "exit"
  /\ Goto(p, "ended")
  /\ outcome' = [outcome EXCEPT ![p] = IF @ = "none" /\ ~errors[p] THEN "ok" ELSE "raised"]
  /\ UNCHANGED <<found, active, errors, i, j, binding, undo>> /\ World

-----------------------------------------------------------------------------
(* Forwards and closes                                                     *)

Outer == UNCHANGED <<found, active, profile, torn>>

\* A profiling thread runs the model in its body only.
BeginForward(t) ==
  /\ forward[t] = Idle /\ forwards[t] < MaxForwards
  /\ t \in Profilers => pc[t] = "body"
  /\ \E a \in Adapters :
       /\ open[a] = "open"
       /\ t \in Profilers => a \in Range(Paths[t])
       /\ forward' = [forward EXCEPT ![t] = [adapter |-> a, step |-> "guard", fetched |-> None]]
       /\ inside' = [inside EXCEPT ![a] = @ + 1]
  /\ forwards' = [forwards EXCEPT ![t] = @ + 1]
  /\ UNCHANGED <<open, closes, errors, traced, missed>> /\ Outer

\* Mutant: a span is recorded on whatever thread it comes.
RecordAnyThread(p, t) ==
  \/ /\ traced' = [traced EXCEPT ![p] = IF errors[p] THEN @ ELSE @ \cup {t}]
     /\ UNCHANGED errors
  \/ errors' = [errors EXCEPT ![p] = TRUE] /\ UNCHANGED traced

\* _Observer.span and the collector's begin: a foreign thread is an error, after an
\* error nothing is recorded, and the span itself may fail.
Record(p, t) ==
  IF t # p \/ errors[p]
  THEN errors' = [errors EXCEPT ![p] = TRUE] /\ UNCHANGED traced
  ELSE \/ traced' = [traced EXCEPT ![p] = @ \cup {t}] /\ UNCHANGED errors
       \/ errors' = [errors EXCEPT ![p] = TRUE] /\ UNCHANGED traced

\* The attribute, or the entry, is read before what it holds is called.
Fetch(t) ==
  /\ forward[t].step # "none" /\ forward[t].fetched = None
  /\ LET a == forward[t].adapter IN
     /\ found[a][forward[t].step] # None
     /\ forward' = [forward EXCEPT ![t].fetched = found[a][forward[t].step]]
  /\ UNCHANGED <<adapters, forwards, errors, traced, missed>> /\ Outer

Finish(t) ==
  /\ forward' = [forward EXCEPT ![t] = Idle]
  /\ inside' = [inside EXCEPT ![forward[t].adapter] = @ - 1]

Proceed(t, step) ==
  forward' = [forward EXCEPT ![t].step = step, ![t].fetched = None] /\ UNCHANGED inside

\* The storage guard comes first; then the native operator runs the binding that it
\* finds in the registry, or the fallback does the work.  Each may raise.
Work(t) ==
  /\ forward[t].fetched # None
  /\ LET hook == forward[t].fetched
     IN IF hook \in Profilers THEN Record(hook, t) ELSE UNCHANGED <<errors, traced>>
  /\ IF t \in Profilers
     THEN missed' = [missed EXCEPT ![t] = @ \/ forward[t].fetched # t \/ errors'[t]]
     ELSE UNCHANGED missed
  /\ \/ forward[t].step = "guard" /\ \E next \in {"native", "callable_fallback"} : Proceed(t, next)
     \/ forward[t].step = "native" /\ Proceed(t, "entry")
     \/ Finish(t)
  /\ UNCHANGED <<open, closes, forwards>> /\ Outer

\* QProjAdapter.close waits for the forwards, then the registry closes what it has
\* under the ID: a proxy hands that on to the binding that it stands for.
BeginClose(a) ==
  /\ open[a] \in {"open", "shut"} /\ closes < MaxCloses /\ closes' = closes + 1
  /\ open' = [open EXCEPT ![a] = "closing"]
  /\ UNCHANGED <<inside, running, errors>> /\ Outer

EndClose(a, success) ==
  /\ open[a] = "closing" /\ inside[a] = 0
  /\ IF success THEN /\ open' = [open EXCEPT ![a] = "closed"]
                     /\ found' = [found EXCEPT ![a]["entry"] = None]
                ELSE open' = [open EXCEPT ![a] = "shut"] /\ UNCHANGED found
  /\ UNCHANGED <<inside, closes, running, errors, active, profile, torn>>

Next ==
  \/ \E p \in Profilers :
       \/ LookAtTarget(p) \/ RequireIdle(p) \/ TakeBinding(p) \/ Activate(p)
       \/ InstallPlace(p) \/ EndBody(p) \/ Interrupt(p)
       \/ UndoPlace(p) \/ Deactivate(p) \/ Exit(p)
  \/ \E t \in Threads : BeginForward(t) \/ Fetch(t) \/ Work(t)
  \/ \E a \in Adapters : BeginClose(a) \/ \E success \in BOOLEAN : EndClose(a, success)

Spec == Init /\ [][Next]_vars

-----------------------------------------------------------------------------
\* Once no profile holds an adapter it is as it was before all of them, whatever
\* order they came and failed in: no hook is left in it, its open binding is in the
\* registry again, and a binding that was closed meanwhile is not.
PutBack ==
  \A a \in Adapters \ (active \cup torn) :
    /\ \A k \in Range(Places) \ {"entry"} : found[a][k] = "production"
    /\ found[a]["entry"] = IF open[a] = "closed" THEN None ELSE "production"

\* All hooks in an adapter are of one profile, which is inside its context: profiles
\* never stand on each other, also when both have found the adapter free.
OneProfile ==
  \A a \in Adapters \ torn : \A k, l \in Range(Places) :
    found[a][k] \in Profilers =>
      /\ pc[found[a][k]] \in {"install", "body", "undo"}
      /\ found[a][l] \in {"production", None, found[a][k]}

\* A profile that returns without an error has recorded every span of its own
\* forwards and no span of another thread's.
TraceIsWhole ==
  \A p \in Profilers :
    /\ traced[p] \subseteq {p}
    /\ outcome[p] = "ok" => ~missed[p]
=============================================================================
