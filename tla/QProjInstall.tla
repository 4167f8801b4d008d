---------------------------- MODULE QProjInstall ----------------------------
(***************************************************************************)
(* install_tinyllama_qproj and QProjModelInstallation of                    *)
(* python/decodeforge/qproj_model.py: the prepared assets are loaded        *)
(* (PreparedAssets), one adapter is created per layer, the layer's q_proj   *)
(* is replaced by a wrapper around it, and the installation then owns all   *)
(* of them.  It may switch their mode, and it is closed layer               *)
(* by layer; adapters are those of QProjAdapter seen from outside.  Each    *)
(* step on one layer may fail, and none is taken back by itself.  Other     *)
(* code may meanwhile wrap or replace a module, or close an adapter.        *)
(***************************************************************************)
EXTENDS PreparedAssets

CONSTANTS
  MaxCalls,    \* bound: calls on the installation
  MaxOutside   \* bound: steps of other programs and other code

ASSUME InstallAssumption == MaxCalls \in Nat /\ MaxOutside \in Nat

Modes == {"hybrid_native", "same_q8_reference"}

VARIABLES
  slot,      \* what getattr(parent, child_name) is, per layer
  beneath,   \* what other code found there when it put its own module in
  adapter,   \* "none", "live", "failed" (a close of it failed) or "closed"
  mode,      \* the adapter's execution_mode
  restored,  \* _InstalledRecord.restored
  stuck,     \* history: layers whose original could not be put back
  orphan,    \* whether a failed factory call still holds its binding
  guard,     \* the model's train, _apply and load_state_dict
  guardsRestored,
  pc, i,     \* the loop in progress and the layer it has come to
  previous, asked,  \* the modes of the switch in progress, or of the last one
  told,      \* history: how the last switch ended: "switched", "rolledBack" or "late"
  interrupted,      \* history: whether a KeyboardInterrupt has ended a switch
  calls

model == <<slot, beneath, stuck>>
guards == <<guard, guardsRestored>>
switch == <<previous, asked, told, interrupted>>
installVars == <<model, adapter, mode, restored, orphan, guards, pc, i, switch, calls>>
vars == <<installVars, assetVars, outside>>

Init ==
  /\ AssetsInit
  /\ slot = [l \in Layers |-> "original"]
  /\ beneath = [l \in Layers |-> "original"]
  /\ adapter = [l \in Layers |-> "none"]
  /\ mode = [l \in Layers |-> "hybrid_native"]
  /\ restored = [l \in Layers |-> FALSE]
  /\ stuck = {}
  /\ orphan = FALSE
  /\ guard = "original" /\ guardsRestored = FALSE
  /\ pc = "preflight" /\ i = 1
  /\ previous = "hybrid_native" /\ asked = "hybrid_native"
  /\ told = "switched" /\ interrupted = FALSE
  /\ calls = 0

Goto(place, layer) == pc' = place /\ i' = layer

\* The loop goes on with the next layer, or to the next loop.
Advance(next) == IF i = N THEN Goto(next, 1) ELSE Goto(pc, i + 1)

\* What close() does to an adapter that is not closed yet.
CloseAdapter(l, success) ==
  adapter' = [adapter EXCEPT ![l] = CASE @ \in {"none", "closed"} -> @
                                      [] success -> "closed"
                                      [] OTHER -> "failed"]

-----------------------------------------------------------------------------
(* install_tinyllama_qproj                                                 *)

\* The model is checked, as far as it can be without changing it, once the
\* assets are there.
Preflight ==
  /\ pc = "preflight"
  /\ \/ loader = "loaded" /\ Goto("creating", 1)
     \/ loader \in {"loaded", "refused"} /\ Goto("rejected", 1)
  /\ UNCHANGED <<model, adapter, mode, restored, orphan, guards, switch, calls, outside>>

Create ==
  /\ pc = "creating"
  /\ adapter' = [adapter EXCEPT ![i] = "live"]
  /\ Advance("installing")
  /\ UNCHANGED <<model, mode, restored, orphan, guards, switch, calls, outside>>

\* The factory raises, and its exception may own a binding whose cleanup failed;
\* that cleanup is tried once more.
CreateFails ==
  /\ pc = "creating"
  /\ orphan' \in BOOLEAN
  /\ Goto("discarding", 1)
  /\ UNCHANGED <<model, adapter, mode, restored, guards, switch, calls, outside>>

\* The adapter came, but is not the one this layer's asset describes.
CreateInvalid ==
  /\ pc = "creating"
  /\ adapter' = [adapter EXCEPT ![i] = "live"]
  /\ Goto("discarding", 1)
  /\ UNCHANGED <<model, mode, restored, orphan, guards, switch, calls, outside>>

Put ==
  /\ pc = "installing"
  /\ slot[i] = "original"
  /\ slot' = [slot EXCEPT ![i] = "wrapper"]
  /\ Advance("guarding")
  /\ UNCHANGED <<beneath, stuck, adapter, mode, restored, orphan, guards, switch, calls, outside>>

\* setattr raises; the wrappers before it are taken out, the last one first.
PutFails ==
  /\ pc = "installing"
  /\ IF i = 1 THEN Goto("discarding", 1) ELSE Goto("undoing", i - 1)
  /\ UNCHANGED <<model, adapter, mode, restored, orphan, guards, switch, calls, outside>>

GuardModel ==
  /\ pc = "guarding"
  /\ guard' = "installed"
  /\ Goto("ready", 1)
  /\ UNCHANGED <<model, adapter, mode, restored, orphan, guardsRestored, switch, calls, outside>>

\* The model refuses the guards, or its state_dict changed beyond the q_proj.
GuardModelFails ==
  /\ pc = "guarding"
  /\ Goto("undoing", N)
  /\ UNCHANGED <<model, adapter, mode, restored, orphan, guards, switch, calls, outside>>

\* Mutant: a module that cannot be put back ends the rollback.
UndoStopsAtFailure(success) ==
  /\ pc = "undoing"
  /\ slot' = IF success THEN [slot EXCEPT ![i] = "original"] ELSE slot
  /\ restored' = [restored EXCEPT ![i] = success]
  /\ stuck' = IF success THEN stuck ELSE stuck \cup {i}
  /\ IF i = 1 \/ ~success THEN Goto("discarding", 1) ELSE Goto("undoing", i - 1)
  /\ UNCHANGED <<beneath, adapter, mode, orphan, guards, switch, calls, outside>>

Undo(success) ==
  /\ pc = "undoing"
  /\ slot' = IF success THEN [slot EXCEPT ![i] = "original"] ELSE slot
  /\ restored' = [restored EXCEPT ![i] = success]
  /\ stuck' = IF success THEN stuck ELSE stuck \cup {i}
  /\ IF i = 1 THEN Goto("discarding", 1) ELSE Goto("undoing", i - 1)
  /\ UNCHANGED <<beneath, adapter, mode, orphan, guards, switch, calls, outside>>

\* _close_created
Discard(success) ==
  /\ pc = "discarding"
  /\ CloseAdapter(i, success)
  /\ Advance("rejected")
  /\ UNCHANGED <<model, mode, restored, orphan, guards, switch, calls, outside>>

-----------------------------------------------------------------------------
(* QProjModelInstallation.set_execution_mode                               *)

Call(place) ==
  /\ pc = "ready"
  /\ calls < MaxCalls
  /\ calls' = calls + 1
  /\ Goto(place, 1)

\* Refused unless all adapters are live, share a mode other than the new one and
\* are in no call.
BeginSwitch(m) ==
  /\ \A l \in Layers : adapter[l] # "closed" /\ mode[l] = mode[1]
  /\ m # mode[1]
  /\ Call("switching")
  /\ previous' = mode[1] /\ asked' = m
  /\ UNCHANGED <<model, adapter, mode, restored, orphan, guards, told, interrupted, outside>>

Switch ==
  /\ pc = "switching"
  /\ adapter[i] = "live"
  /\ mode' = [mode EXCEPT ![i] = asked]
  /\ Advance("looking")
  /\ UNCHANGED <<model, adapter, restored, orphan, guards, switch, calls, outside>>

\* The adapters' calls are counted once more.  One that another thread makes now
\* fails the switch, although every adapter has been switched and stays so.
LastLook(inFlight) ==
  /\ pc = "looking"
  /\ told' = IF inFlight THEN "late" ELSE "switched"
  /\ Goto("ready", 1)
  /\ UNCHANGED <<model, adapter, mode, restored, orphan, guards, previous, asked, interrupted,
                 calls, outside>>

\* The error is raised again when all that had been switched has been tried.
RollBackTo(layer) ==
  IF layer = 0 THEN Goto("ready", 1) /\ told' = "rolledBack"
               ELSE Goto("rollingBack", layer) /\ UNCHANGED told

\* An adapter that is closed, or could not be, refuses.
SwitchFails ==
  /\ pc = "switching"
  /\ adapter[i] # "live"
  /\ RollBackTo(i - 1)
  /\ UNCHANGED <<model, adapter, mode, restored, orphan, guards, previous, asked, interrupted,
                 calls, outside>>

\* Mutant: an adapter that refuses to go back ends the rollback.
RollBackStops ==
  /\ pc = "rollingBack"
  /\ mode' = IF adapter[i] = "live" THEN [mode EXCEPT ![i] = previous] ELSE mode
  /\ RollBackTo(IF adapter[i] = "live" THEN i - 1 ELSE 0)
  /\ UNCHANGED <<model, adapter, restored, orphan, guards, previous, asked, interrupted,
                 calls, outside>>

RollBack ==
  /\ pc = "rollingBack"
  /\ mode' = IF adapter[i] = "live" THEN [mode EXCEPT ![i] = previous] ELSE mode
  /\ RollBackTo(i - 1)
  /\ UNCHANGED <<model, adapter, restored, orphan, guards, previous, asked, interrupted,
                 calls, outside>>

\* A KeyboardInterrupt is not an Exception: nothing is rolled back.
InterruptSwitch ==
  /\ pc \in {"switching", "looking", "rollingBack"}
  /\ interrupted' = TRUE
  /\ Goto("ready", 1)
  /\ UNCHANGED <<model, adapter, mode, restored, orphan, guards, previous, asked, told, calls, outside>>

-----------------------------------------------------------------------------
(* QProjModelInstallation.close                                            *)

BeginClose ==
  /\ Call("restoring")
  /\ UNCHANGED <<model, adapter, mode, restored, orphan, guards, switch, outside>>

\* Mutant: a record counts as restored whatever is in its slot.
RestoreForeignToo(success) ==
  /\ pc = "restoring"
  /\ IF restored[i] \/ (slot[i] = "wrapper" /\ ~success)
       THEN UNCHANGED <<slot, restored>>
       ELSE /\ slot' = [slot EXCEPT ![i] = IF @ = "foreign" THEN @ ELSE "original"]
            /\ restored' = [restored EXCEPT ![i] = TRUE]
  /\ Advance("closing")
  /\ UNCHANGED <<beneath, stuck, adapter, mode, orphan, guards, switch, calls, outside>>

\* A module that other code has put in is left alone, and so is its record.
Restore(success) ==
  /\ pc = "restoring"
  /\ IF restored[i] \/ slot[i] = "foreign" \/ (slot[i] = "wrapper" /\ ~success)
       THEN UNCHANGED <<slot, restored>>
       ELSE /\ slot' = [slot EXCEPT ![i] = "original"]
            /\ restored' = [restored EXCEPT ![i] = TRUE]
  /\ Advance("closing")
  /\ UNCHANGED <<beneath, stuck, adapter, mode, orphan, guards, switch, calls, outside>>

\* The adapters are all tried, whether or not their modules were restored.
CloseLayer(success) ==
  /\ pc = "closing"
  /\ CloseAdapter(i, success)
  /\ Advance("unguarding")
  /\ UNCHANGED <<model, mode, restored, orphan, guards, switch, calls, outside>>

AllGone == \A l \in Layers : restored[l] /\ adapter[l] = "closed"

\* _restore_model_guards leaves guards alone that other code has changed.
Unguard ==
  /\ pc = "unguarding"
  /\ IF ~guardsRestored /\ AllGone /\ guard # "foreign"
       THEN guard' = "original" /\ guardsRestored' = TRUE
       ELSE UNCHANGED guards
  /\ Goto("ready", 1)
  /\ UNCHANGED <<model, adapter, mode, restored, orphan, switch, calls, outside>>

-----------------------------------------------------------------------------
(* Other code, once the installation is there.                             *)

Installed ==
  pc \in {"ready", "switching", "looking", "rollingBack", "restoring", "closing", "unguarding"}

OutsideStep == Installed /\ outside < MaxOutside /\ outside' = outside + 1

\* It puts a module of its own in, and takes it out again.
Replace(l) ==
  /\ OutsideStep
  /\ IF slot[l] = "foreign"
       THEN slot' = [slot EXCEPT ![l] = beneath[l]] /\ UNCHANGED beneath
       ELSE /\ beneath' = [beneath EXCEPT ![l] = slot[l]]
            /\ slot' = [slot EXCEPT ![l] = "foreign"]
  /\ UNCHANGED <<stuck, adapter, mode, restored, orphan, guards, pc, i, switch, calls>>

ReplaceGuard ==
  /\ OutsideStep
  /\ guard' = IF guard = "foreign" THEN (IF guardsRestored THEN "original" ELSE "installed") ELSE "foreign"
  /\ UNCHANGED <<model, adapter, mode, restored, orphan, guardsRestored, pc, i, switch, calls>>

CloseBehind(l, success) ==
  /\ OutsideStep
  /\ CloseAdapter(l, success)
  /\ UNCHANGED <<model, mode, restored, orphan, guards, pc, i, switch, calls>>

-----------------------------------------------------------------------------
Install ==
  \/ Preflight \/ Create \/ CreateFails \/ CreateInvalid
  \/ Put \/ PutFails \/ GuardModel \/ GuardModelFails
  \/ \E success \in BOOLEAN : Undo(success) \/ Discard(success)

Use ==
  \/ \E m \in Modes : BeginSwitch(m)
  \/ \E inFlight \in BOOLEAN : LastLook(inFlight)
  \/ Switch \/ SwitchFails \/ RollBack \/ InterruptSwitch

Close ==
  \/ BeginClose
  \/ \E success \in BOOLEAN : Restore(success) \/ CloseLayer(success)
  \/ Unguard

Others ==
  \/ \E l \in Layers : Replace(l) \/ \E success \in BOOLEAN : CloseBehind(l, success)
  \/ ReplaceGuard

Next ==
  \/ (Install \/ Use \/ Close \/ Others) /\ UNCHANGED assetVars
  \/ AssetsNext /\ UNCHANGED installVars

Spec == Init /\ [][Next]_vars

-----------------------------------------------------------------------------
\* "Partial installation rolls back": when an installation is given up, a wrapper
\* is left only where the model refused to take the original back, and no adapter
\* is left that was not at least tried to close, whichever step failed.
RejectedIsClean ==
  pc = "rejected" =>
    \A l \in Layers : adapter[l] # "live" /\ (slot[l] = "wrapper" => l \in stuck)

\* Between calls all adapters that still take calls are in the mode that the last
\* switch has told of: the new one, or the previous one if it failed; but the new
\* one if all that failed is the last look.
ModesAgree ==
  pc = "ready" =>
    \A l \in Layers :
      adapter[l] = "live" => mode[l] = IF told = "rolledBack" THEN previous ELSE asked

\* "The transition is transactional on failure", unless an interrupt ended a switch:
\* also if one adapter refused in the middle of a switch and another one in the
\* middle of its rollback.
ModesAgreeUnlessInterrupted == ~interrupted => ModesAgree

\* A record that counts as restored never has its wrapper in the model again,
\* whatever other code puts in and takes out; and the model may be trained, moved
\* or loaded again only when nothing of the installation is left in it.
RestoredForGood ==
  Installed =>
    /\ \A l \in Layers :
         restored[l] => slot[l] # "wrapper" /\ ~(slot[l] = "foreign" /\ beneath[l] = "wrapper")
    /\ guardsRestored => AllGone
=============================================================================
