--------------------------- MODULE AdmissionGate ---------------------------
(***************************************************************************)
(* What a QProjAdapter promises its callers: forwards run side by side,    *)
(* each under the mode it was admitted with, and the two operations that   *)
(* would pull the ground from under them, changing the mode and giving the *)
(* native binding back, happen only while no forward is inside.  Once a    *)
(* close has begun nobody is admitted again, however it ends.              *)
(***************************************************************************)
CONSTANTS Threads, Modes, FirstMode

VARIABLES
  mode,    \* the mode the next forward is admitted with
  inside,  \* the threads with a forward inside
  gate,    \* "open", "shut" once a close has begun, "closed" after it succeeded
  owned    \* whether the native binding is still there

gateVars == <<mode, inside, gate, owned>>

Init == mode = FirstMode /\ inside = {} /\ gate = "open" /\ owned = TRUE

Enter(t) ==
  /\ gate = "open" /\ t \notin inside
  /\ inside' = inside \cup {t}
  /\ UNCHANGED <<mode, gate, owned>>

Leave(t) ==
  /\ t \in inside
  /\ inside' = inside \ {t}
  /\ UNCHANGED <<mode, gate, owned>>

ChangeMode ==
  /\ gate = "open" /\ inside = {}
  /\ mode' \in Modes \ {mode}
  /\ UNCHANGED <<inside, gate, owned>>

Shut == gate = "open" /\ gate' = "shut" /\ UNCHANGED <<mode, inside, owned>>

\* A close that fails may be tried again, so this is no part of Shut.
GiveBack ==
  /\ gate = "shut" /\ inside = {} /\ owned
  /\ owned' = FALSE
  /\ UNCHANGED <<mode, inside, gate>>

Close ==
  /\ gate = "shut" /\ ~owned
  /\ gate' = "closed"
  /\ UNCHANGED <<mode, inside, owned>>

Next ==
  \/ \E t \in Threads : Enter(t) \/ Leave(t)
  \/ ChangeMode \/ Shut \/ GiveBack \/ Close

Spec == Init /\ [][Next]_gateVars
=============================================================================
