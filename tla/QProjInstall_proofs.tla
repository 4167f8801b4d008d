------------------------- MODULE QProjInstall_proofs -------------------------
(***************************************************************************)
(* Proofs about QProjInstall and PreparedAssets for every number of layers, *)
(* of calls and of steps of other programs and other code.                  *)
(*                                                                          *)
(* Each property gets what its loops have achieved up to the layer they have *)
(* come to: GivenUp for the rollback of an installation, Switched for a mode *)
(* switch and its rollback, Staged for the preparation and Read for the      *)
(* load.  RestoredForGood needs only that an installation starts with none   *)
(* restored.                                                                 *)
(***************************************************************************)
EXTENDS QProjInstall, TLAPS

Starting == pc \in {"preflight", "creating", "installing", "guarding"}

Shapes ==
  /\ i \in Layers
  /\ DOMAIN slot = Layers /\ DOMAIN beneath = Layers /\ DOMAIN adapter = Layers
  /\ DOMAIN mode = Layers /\ DOMAIN restored = Layers

\* How far the installation has come, and what is left when it is given up.
GivenUp ==
  /\ pc = "preflight" => i = 1 /\ \A l \in Layers : adapter[l] # "live"
  /\ pc \in {"preflight", "creating"} => \A l \in Layers : slot[l] # "wrapper"
  /\ pc = "installing" => \A l \in Layers : slot[l] = "wrapper" => l < i
  /\ pc = "undoing" => \A l \in Layers : slot[l] = "wrapper" => l <= i \/ l \in stuck
  /\ pc = "discarding" =>
       \A l \in Layers : (slot[l] = "wrapper" => l \in stuck) /\ (adapter[l] = "live" => l >= i)
  /\ RejectedIsClean

\* What has been switched, and what has been switched back.
Switched ==
  /\ Starting => told = "switched" /\ \A l \in Layers : mode[l] = asked
  /\ ~interrupted /\ pc = "switching" =>
       \A l \in Layers : mode[l] = IF l < i THEN asked ELSE previous
  /\ ~interrupted /\ pc = "looking" => \A l \in Layers : mode[l] = asked
  /\ ~interrupted /\ pc = "rollingBack" =>
       \A l \in Layers : l > i /\ adapter[l] = "live" => mode[l] = previous
  /\ ~interrupted /\ pc \notin {"switching", "looking", "rollingBack"} =>
       \A l \in Layers :
         adapter[l] = "live" => mode[l] = IF told = "rolledBack" THEN previous ELSE asked

\* Nothing counts as restored before there is an installation.
Restored ==
  /\ Starting => ~guardsRestored /\ \A l \in Layers : ~restored[l]
  /\ RestoredForGood

InstallInv == Shapes /\ GivenUp /\ Switched /\ Restored

LEMMA InstallInvInit == Init => InstallInv
<1>. SUFFICES ASSUME Init PROVE InstallInv
  OBVIOUS
<1>1. Shapes
  BY AssetsAssumption DEF Init, Shapes, Layers
<1>2. GivenUp /\ Restored
  BY DEF Init, GivenUp, Restored, RejectedIsClean, RestoredForGood, Installed
<1>3. Switched
  BY DEF Init, Switched
<1>. QED BY <1>1, <1>2, <1>3 DEF InstallInv

\* The loops stay within the layers.
LEMMA ShapesStep ==
  ASSUME Shapes, Install \/ Use \/ Close \/ Others
  PROVE  Shapes'
<1>. USE AssetsAssumption
     DEF Shapes,
         Layers, Starting, Goto, Advance, Installed, model, guards, switch
<1>1. CASE Preflight BY <1>1 DEF Preflight
<1>2. CASE Create BY <1>2 DEF Create
<1>3. CASE CreateFails BY <1>3 DEF CreateFails
<1>4. CASE CreateInvalid BY <1>4 DEF CreateInvalid
<1>5. CASE Put BY <1>5 DEF Put
<1>6. CASE PutFails BY <1>6 DEF PutFails
<1>7. CASE GuardModel BY <1>7 DEF GuardModel
<1>8. CASE GuardModelFails BY <1>8 DEF GuardModelFails
<1>9. CASE \E success \in BOOLEAN : Undo(success)
  BY <1>9 DEF Undo
<1>10. CASE \E success \in BOOLEAN : Discard(success)
  BY <1>10 DEF Discard, CloseAdapter
<1>11. CASE \E m \in Modes : BeginSwitch(m)
  BY <1>11 DEF BeginSwitch, Call
<1>12. CASE Switch BY <1>12 DEF Switch
<1>23. CASE \E inFlight \in BOOLEAN : LastLook(inFlight)
  BY <1>23 DEF LastLook
<1>13. CASE SwitchFails BY <1>13 DEF SwitchFails, RollBackTo
<1>14. CASE RollBack BY <1>14 DEF RollBack, RollBackTo
<1>15. CASE InterruptSwitch BY <1>15 DEF InterruptSwitch
<1>16. CASE BeginClose BY <1>16 DEF BeginClose, Call
<1>17. CASE \E success \in BOOLEAN : Restore(success)
  BY <1>17 DEF Restore
<1>18. CASE \E success \in BOOLEAN : CloseLayer(success)
  BY <1>18 DEF CloseLayer, CloseAdapter
<1>19. CASE Unguard BY <1>19 DEF Unguard, AllGone
<1>20. CASE \E l \in Layers : Replace(l)
  BY <1>20 DEF Replace, OutsideStep
<1>21. CASE \E l \in Layers, success \in BOOLEAN : CloseBehind(l, success)
  BY <1>21 DEF CloseBehind, OutsideStep, CloseAdapter
<1>22. CASE ReplaceGuard BY <1>22 DEF ReplaceGuard, OutsideStep
<1>. HIDE DEF Shapes
<1>. QED BY <1>1, <1>2, <1>3, <1>4, <1>5, <1>6, <1>7, <1>8, <1>9, <1>10, <1>11, <1>12, <1>13,
            <1>14, <1>15, <1>16, <1>17, <1>18, <1>19, <1>20, <1>21, <1>22, <1>23
         DEF Install, Use, Close, Others

\* A failure at any layer leads to the same end.
LEMMA GivenUpStep ==
  ASSUME Shapes, GivenUp, Install \/ Use \/ Close \/ Others
  PROVE  GivenUp'
<1>. USE AssetsAssumption
     DEF Shapes, GivenUp, RejectedIsClean,
         Layers, Starting, Goto, Advance, Installed, model, guards, switch
<1>1. CASE Preflight BY <1>1 DEF Preflight
<1>2. CASE Create BY <1>2 DEF Create
<1>3. CASE CreateFails BY <1>3 DEF CreateFails
<1>4. CASE CreateInvalid BY <1>4 DEF CreateInvalid
<1>5. CASE Put BY <1>5 DEF Put
<1>6. CASE PutFails BY <1>6 DEF PutFails
<1>7. CASE GuardModel BY <1>7 DEF GuardModel
<1>8. CASE GuardModelFails BY <1>8 DEF GuardModelFails
<1>9. CASE \E success \in BOOLEAN : Undo(success)
  BY <1>9 DEF Undo
<1>10. CASE \E success \in BOOLEAN : Discard(success)
  BY <1>10 DEF Discard, CloseAdapter
<1>11. CASE \E m \in Modes : BeginSwitch(m)
  BY <1>11 DEF BeginSwitch, Call
<1>12. CASE Switch BY <1>12 DEF Switch
<1>23. CASE \E inFlight \in BOOLEAN : LastLook(inFlight)
  BY <1>23 DEF LastLook
<1>13. CASE SwitchFails BY <1>13 DEF SwitchFails, RollBackTo
<1>14. CASE RollBack BY <1>14 DEF RollBack, RollBackTo
<1>15. CASE InterruptSwitch BY <1>15 DEF InterruptSwitch
<1>16. CASE BeginClose BY <1>16 DEF BeginClose, Call
<1>17. CASE \E success \in BOOLEAN : Restore(success)
  BY <1>17 DEF Restore
<1>18. CASE \E success \in BOOLEAN : CloseLayer(success)
  BY <1>18 DEF CloseLayer, CloseAdapter
<1>19. CASE Unguard BY <1>19 DEF Unguard, AllGone
<1>20. CASE \E l \in Layers : Replace(l)
  BY <1>20 DEF Replace, OutsideStep
<1>21. CASE \E l \in Layers, success \in BOOLEAN : CloseBehind(l, success)
  BY <1>21 DEF CloseBehind, OutsideStep, CloseAdapter
<1>22. CASE ReplaceGuard BY <1>22 DEF ReplaceGuard, OutsideStep
<1>. HIDE DEF GivenUp
<1>. QED BY <1>1, <1>2, <1>3, <1>4, <1>5, <1>6, <1>7, <1>8, <1>9, <1>10, <1>11, <1>12, <1>13,
            <1>14, <1>15, <1>16, <1>17, <1>18, <1>19, <1>20, <1>21, <1>22, <1>23
         DEF Install, Use, Close, Others

\* A switch that fails at one layer ends as it began.
LEMMA SwitchedStep ==
  ASSUME Shapes, Switched, Install \/ Use \/ Close \/ Others
  PROVE  Switched'
<1>. USE AssetsAssumption
     DEF Shapes, Switched,
         Layers, Starting, Goto, Advance, Installed, model, guards, switch
<1>1. CASE Preflight BY <1>1 DEF Preflight
<1>2. CASE Create BY <1>2 DEF Create
<1>3. CASE CreateFails BY <1>3 DEF CreateFails
<1>4. CASE CreateInvalid BY <1>4 DEF CreateInvalid
<1>5. CASE Put BY <1>5 DEF Put
<1>6. CASE PutFails BY <1>6 DEF PutFails
<1>7. CASE GuardModel BY <1>7 DEF GuardModel
<1>8. CASE GuardModelFails BY <1>8 DEF GuardModelFails
<1>9. CASE \E success \in BOOLEAN : Undo(success)
  BY <1>9 DEF Undo
<1>10. CASE \E success \in BOOLEAN : Discard(success)
  BY <1>10 DEF Discard, CloseAdapter
<1>11. CASE \E m \in Modes : BeginSwitch(m)
  BY <1>11 DEF BeginSwitch, Call
<1>12. CASE Switch BY <1>12 DEF Switch
<1>23. CASE \E inFlight \in BOOLEAN : LastLook(inFlight)
  BY <1>23 DEF LastLook
<1>13. CASE SwitchFails BY <1>13 DEF SwitchFails, RollBackTo
<1>14. CASE RollBack BY <1>14 DEF RollBack, RollBackTo
<1>15. CASE InterruptSwitch BY <1>15 DEF InterruptSwitch
<1>16. CASE BeginClose BY <1>16 DEF BeginClose, Call
<1>17. CASE \E success \in BOOLEAN : Restore(success)
  BY <1>17 DEF Restore
<1>18. CASE \E success \in BOOLEAN : CloseLayer(success)
  BY <1>18 DEF CloseLayer, CloseAdapter
<1>19. CASE Unguard BY <1>19 DEF Unguard, AllGone
<1>20. CASE \E l \in Layers : Replace(l)
  BY <1>20 DEF Replace, OutsideStep
<1>21. CASE \E l \in Layers, success \in BOOLEAN : CloseBehind(l, success)
  BY <1>21 DEF CloseBehind, OutsideStep, CloseAdapter
<1>22. CASE ReplaceGuard BY <1>22 DEF ReplaceGuard, OutsideStep
<1>. HIDE DEF Switched
<1>. QED BY <1>1, <1>2, <1>3, <1>4, <1>5, <1>6, <1>7, <1>8, <1>9, <1>10, <1>11, <1>12, <1>13,
            <1>14, <1>15, <1>16, <1>17, <1>18, <1>19, <1>20, <1>21, <1>22, <1>23
         DEF Install, Use, Close, Others

\* What counts as restored stays so.
LEMMA RestoredStep ==
  ASSUME Shapes, Restored, Install \/ Use \/ Close \/ Others
  PROVE  Restored'
<1>. USE AssetsAssumption
     DEF Shapes, Restored, RestoredForGood, AllGone,
         Layers, Starting, Goto, Advance, Installed, model, guards, switch
<1>1. CASE Preflight BY <1>1 DEF Preflight
<1>2. CASE Create BY <1>2 DEF Create
<1>3. CASE CreateFails BY <1>3 DEF CreateFails
<1>4. CASE CreateInvalid BY <1>4 DEF CreateInvalid
<1>5. CASE Put BY <1>5 DEF Put
<1>6. CASE PutFails BY <1>6 DEF PutFails
<1>7. CASE GuardModel BY <1>7 DEF GuardModel
<1>8. CASE GuardModelFails BY <1>8 DEF GuardModelFails
<1>9. CASE \E success \in BOOLEAN : Undo(success)
  BY <1>9 DEF Undo
<1>10. CASE \E success \in BOOLEAN : Discard(success)
  BY <1>10 DEF Discard, CloseAdapter
<1>11. CASE \E m \in Modes : BeginSwitch(m)
  BY <1>11 DEF BeginSwitch, Call
<1>12. CASE Switch BY <1>12 DEF Switch
<1>23. CASE \E inFlight \in BOOLEAN : LastLook(inFlight)
  BY <1>23 DEF LastLook
<1>13. CASE SwitchFails BY <1>13 DEF SwitchFails, RollBackTo
<1>14. CASE RollBack BY <1>14 DEF RollBack, RollBackTo
<1>15. CASE InterruptSwitch BY <1>15 DEF InterruptSwitch
<1>16. CASE BeginClose BY <1>16 DEF BeginClose, Call
<1>17. CASE \E success \in BOOLEAN : Restore(success)
  BY <1>17 DEF Restore
<1>18. CASE \E success \in BOOLEAN : CloseLayer(success)
  BY <1>18 DEF CloseLayer, CloseAdapter
<1>19. CASE Unguard BY <1>19 DEF Unguard, AllGone
<1>20. CASE \E l \in Layers : Replace(l)
  BY <1>20 DEF Replace, OutsideStep
<1>21. CASE \E l \in Layers, success \in BOOLEAN : CloseBehind(l, success)
  BY <1>21 DEF CloseBehind, OutsideStep, CloseAdapter
<1>22. CASE ReplaceGuard BY <1>22 DEF ReplaceGuard, OutsideStep
<1>. HIDE DEF Restored
<1>. QED BY <1>1, <1>2, <1>3, <1>4, <1>5, <1>6, <1>7, <1>8, <1>9, <1>10, <1>11, <1>12, <1>13,
            <1>14, <1>15, <1>16, <1>17, <1>18, <1>19, <1>20, <1>21, <1>22, <1>23
         DEF Install, Use, Close, Others

LEMMA InstallInvNext == InstallInv /\ [Next]_vars => InstallInv'
<1>1. InstallInv /\ UNCHANGED installVars => InstallInv'
  BY DEF installVars, model, guards, switch, InstallInv, Shapes, GivenUp, RejectedIsClean, Switched,
         Restored, RestoredForGood, Starting, Installed, AllGone
<1>2. InstallInv /\ (Install \/ Use \/ Close \/ Others) => InstallInv'
  BY ShapesStep, GivenUpStep, SwitchedStep, RestoredStep DEF InstallInv
<1>. QED BY <1>1, <1>2 DEF Next, vars

\* An installation that is given up has put back what it could and tried to close
\* every adapter, whichever of its steps failed.
THEOREM RejectionsAreClean == Spec => []RejectedIsClean
<1>. QED BY InstallInvInit, InstallInvNext, PTL DEF Spec, InstallInv, GivenUp

\* Between calls the live adapters are in the mode that the last switch has told of,
\* unless an interrupt ended one.
THEOREM ModesAgreeBetweenCalls == Spec => []ModesAgreeUnlessInterrupted
<1>1. InstallInv => ModesAgreeUnlessInterrupted
  BY DEF InstallInv, Switched, ModesAgreeUnlessInterrupted, ModesAgree
<1>. QED BY <1>1, InstallInvInit, InstallInvNext, PTL DEF Spec

\* A wrapper never comes back to a restored layer, and the guards go last.
THEOREM RestoredStaysRestored == Spec => []RestoredForGood
<1>. QED BY InstallInvInit, InstallInvNext, PTL DEF Spec, InstallInv, Restored

-----------------------------------------------------------------------------
(* The assets                                                              *)

\* Preparer and loader use it one after the other.
Position ==
  /\ at \in Layers \X (1 .. 4)
  /\ loader # "waiting" => preparer \in {"ok", "failed", "unsure"}

\* Files written so far are pinned and their directories synchronized, unless
\* somebody interfered.
Staged ==
  /\ DOMAIN staged = Files
  /\ preparer = "write" =>
       /\ unsynced \subseteq {0, N + 1} \cup {l \in Layers : l >= at[1]}
       /\ \A l \in Layers : l < at[1] => \A m \in Members : staged[<<l, m>>] = "pinned"
       /\ \A k \in 1 .. 4 : k < at[2] => staged[<<at[1], WriteOrder[k]>>] = "pinned"
  /\ preparer = "verify" =>
       /\ unsynced \subseteq {0, N + 1} \cup {l \in Layers : l > at[1]}
       /\ \A l \in Layers : l <= at[1] => \A m \in Members : staged[<<l, m>>] = "pinned"
  /\ preparer \in {"syncLayers", "inventory"} =>
       /\ unsynced \subseteq {0} \cup (IF preparer = "syncLayers" THEN {N + 1} ELSE {})
       /\ \A l \in Layers : \A m \in Members : staged[<<l, m>>] = "pinned"
  /\ preparer = "commit" => unsynced = {} /\ staged = TreeOf("pinned")
  /\ preparer \in {"syncParent", "unsure", "ok"} => unsynced = {} /\ output = TreeOf("pinned")
  /\ output \in {NoTree, TreeOf("other"), TreeOf("pinned")}

\* The layers up to the one that is read are all of the version of the inventory.
Read ==
  /\ loader = "inventory" => at[1] = 1
  /\ DOMAIN got = Members /\ got = [m \in Members |-> got[m]] /\ DOMAIN assets = Layers
  /\ loader \in {"read", "check"} =>
       \A l \in Layers : l < at[1] => assets[l] = [m \in Members |-> listed]
  /\ loader \in {"finish", "loaded"} => \A l \in Layers : assets[l] = [m \in Members |-> listed]
  /\ loader = "loaded" => listed = "pinned"

AssetsInv == Position /\ outside \in Nat /\ (outside = 0 => Staged) /\ Read

LEMMA AssetsInvInit == Init => AssetsInv
<1>. SUFFICES ASSUME AssetsInit PROVE AssetsInv
  BY DEF Init
<1>1. Position /\ outside \in Nat
  BY AssetsAssumption DEF AssetsInit, Position, Layers
<1>2. Staged
  BY DEF AssetsInit, Staged, NoTree, TreeOf
<1>3. Read
  BY DEF AssetsInit, Read
<1>. QED BY <1>1, <1>2, <1>3 DEF AssetsInv

\* Preparer and loader stay within the layers and the files of one.
LEMMA PositionStep ==
  ASSUME Position, outside \in Nat, AssetsNext
  PROVE  (Position /\ outside \in Nat)'
<1>. USE AssetsAssumption DEF Position, Layers,
         To, preparation, load
<1>1. CASE PrepareFails BY <1>1 DEF PrepareFails, Prepare
<1>2. CASE CheckTarget BY <1>2 DEF CheckTarget, Prepare
<1>3. CASE Snapshot BY <1>3 DEF Snapshot, Prepare, Directories
<1>4. CASE WriteFile BY <1>4 DEF WriteFile, Prepare
<1>5. CASE VerifyLayer BY <1>5 DEF VerifyLayer, Prepare
<1>6. CASE SyncLayers BY <1>6 DEF SyncLayers, Prepare
<1>7. CASE WriteInventory BY <1>7 DEF WriteInventory, Prepare
<1>8. CASE Commit BY <1>8 DEF Commit, Prepare
<1>9. CASE SyncParent BY <1>9 DEF SyncParent, Prepare
<1>10. CASE Open BY <1>10 DEF Open, Load
<1>11. CASE LoadFails BY <1>11 DEF LoadFails, Load
<1>12. CASE ReadInventory BY <1>12 DEF ReadInventory, Load
<1>13. CASE ReadMember BY <1>13 DEF ReadMember, Load
<1>14. CASE CheckLayer BY <1>14 DEF CheckLayer, Load, Bound
<1>15. CASE FinishLoad BY <1>15 DEF FinishLoad, Load, RequirePinned
<1>16. CASE TouchAssets BY <1>16 DEF TouchAssets, TouchFile, TouchSource, TouchTree
<1>. HIDE DEF Position
<1>. QED BY <1>1, <1>2, <1>3, <1>4, <1>5, <1>6, <1>7, <1>8, <1>9, <1>10, <1>11, <1>12, <1>13,
            <1>14, <1>15, <1>16
         DEF AssetsNext

\* Undisturbed, each step of the preparation leaves what it should.
LEMMA StagedStep ==
  ASSUME Position, outside = 0, outside' = 0, Staged, AssetsNext
  PROVE  Staged'
<1>. USE AssetsAssumption DEF Position, Layers, Staged, Files, Inventory, WriteOrder, Members,
         NoTree, TreeOf, To, preparation, load
<1>1. CASE PrepareFails BY <1>1 DEF PrepareFails, Prepare
<1>2. CASE CheckTarget BY <1>2 DEF CheckTarget, Prepare
<1>3. CASE Snapshot BY <1>3 DEF Snapshot, Prepare, Directories
<1>4. CASE WriteFile
  <2>. DEFINE here == <<at[1], WriteOrder[at[2]]>>
  <2>. HIDE DEF Staged, Position
  <2>1. at[1] \in Layers /\ at[2] \in 1 .. 4 /\ here \in Files
    BY DEF Position
  <2>2. \A f \in Files : staged'[f] = IF f = here THEN "pinned" ELSE staged[f]
    BY <1>4, <2>1 DEF WriteFile, Staged
  <2>3. \A l \in Layers : l < at[1] => \A m \in Members : staged'[<<l, m>>] = "pinned"
    <3>1. \A l \in Layers : l < at[1] => \A m \in Members : staged[<<l, m>>] = "pinned"
      BY <1>4 DEF WriteFile, Prepare, Staged
    <3>2. \A l \in Layers : \A m \in Members : <<l, m>> \in Files
      OBVIOUS
    <3>. HIDE DEF WriteOrder, Files, Members
    <3>. QED BY <2>2, <3>1, <3>2
  <2>4. \A k \in 1 .. 4 : k <= at[2] => staged'[<<at[1], WriteOrder[k]>>] = "pinned"
    <3>. SUFFICES ASSUME NEW k \in 1 .. 4, k <= at[2]
                  PROVE  staged'[<<at[1], WriteOrder[k]>>] = "pinned"
      OBVIOUS
    <3>1. <<at[1], WriteOrder[k]>> \in Files
      BY <2>1
    <3>2. k < at[2] => staged[<<at[1], WriteOrder[k]>>] = "pinned"
      BY <1>4 DEF WriteFile, Prepare, Staged
    <3>. HIDE DEF WriteOrder, Files
    <3>. QED BY <2>1, <2>2, <3>1, <3>2
  <2>5. CASE at[2] < 4
    <3>1. at'[1] = at[1] /\ at'[2] = at[2] + 1 /\ preparer' = "write" /\ unsynced' = unsynced
          /\ output' = output
      BY <1>4, <2>5 DEF WriteFile, Prepare
    <3>2. DOMAIN staged' = Files
      BY <1>4 DEF WriteFile, Staged
    <3>. HIDE DEF WriteOrder, Files
    <3>. QED BY <1>4, <2>1, <2>3, <2>4, <3>1, <3>2 DEF WriteFile, Prepare, Staged
  <2>6. CASE at[2] = 4
    <3>1. \A m \in Members : staged'[<<at[1], m>>] = "pinned"
      <4>1. \A m \in Members : \E k \in 1 .. 4 : m = WriteOrder[k]
        BY DEF Members
      <4>. QED BY <2>4, <2>6, <4>1
    <3>2. at' = at /\ preparer' = "verify" /\ unsynced' = unsynced \ {at[1]} /\ output' = output
      BY <1>4, <2>6 DEF WriteFile, To
    <3>3. DOMAIN staged' = Files
      BY <1>4 DEF WriteFile, Staged
    <3>4. unsynced \subseteq {0, N + 1} \cup {l \in Layers : l >= at[1]}
      BY <1>4 DEF WriteFile, Prepare, Staged
    <3>5. unsynced' \subseteq {0, N + 1} \cup {l \in Layers : l > at'[1]}
      <4>1. ASSUME NEW l \in Layers, l >= at[1], l # at[1] PROVE l > at'[1]
        BY <2>1, <3>2, <4>1
      <4>. HIDE DEF Layers
      <4>. QED BY <3>2, <3>4, <4>1
    <3>6. ASSUME NEW l \in Layers, l <= at'[1], NEW m \in Members PROVE staged'[<<l, m>>] = "pinned"
      <4>1. l < at[1] \/ l = at[1]
        BY <2>1, <3>2, <3>6
      <4>. HIDE DEF WriteOrder, Files, Members
      <4>. QED BY <2>3, <3>1, <4>1
    <3>7. output' \in {NoTree, TreeOf("other"), TreeOf("pinned")}
      BY <3>2 DEF Staged
    <3>. HIDE DEF WriteOrder, Files, NoTree, TreeOf, Layers, Members
    <3>. QED BY <3>2, <3>3, <3>5, <3>6, <3>7 DEF Staged
  <2>. QED BY <2>1, <2>5, <2>6
<1>5. CASE VerifyLayer
  <2>. HIDE DEF Staged, Position
  <2>1. at[1] \in Layers /\ preparer = "verify"
    BY <1>5 DEF VerifyLayer, Prepare, Position
  <2>2. CASE at[1] < N
    <3>1. at'[1] = at[1] + 1 /\ at'[2] = 1 /\ preparer' = "write"
          /\ UNCHANGED <<staged, unsynced, output>>
      BY <1>5, <2>2 DEF VerifyLayer, To
    <3>. HIDE DEF WriteOrder, Files
    <3>. QED BY <2>1, <3>1 DEF Staged
  <2>3. CASE at[1] = N
    <3>1. preparer' = "syncLayers" /\ UNCHANGED <<staged, unsynced, output>>
      BY <1>5, <2>3 DEF VerifyLayer, To
    <3>. HIDE DEF WriteOrder, Files
    <3>. QED BY <2>1, <2>3, <3>1 DEF Staged
  <2>. QED BY <2>1, <2>2, <2>3
<1>6. CASE SyncLayers BY <1>6 DEF SyncLayers, Prepare
<1>7. CASE WriteInventory
  <2>. HIDE DEF Staged, Position
  <2>1. preparer = "inventory" /\ preparer' = "commit" /\ unsynced' = unsynced \ {0}
        /\ output' = output
    BY <1>7 DEF WriteInventory, Prepare
  <2>2. unsynced \subseteq {0}
    BY <2>1 DEF Staged
  <2>3. staged' = [f \in Files |-> IF f = Inventory THEN "pinned" ELSE staged[f]]
    BY <1>7 DEF WriteInventory, Staged
  <2>4. ASSUME NEW f \in Files, f # Inventory PROVE staged[f] = "pinned"
    <3>1. PICK l \in Layers, m \in Members : f = <<l, m>>
      BY <2>4
    <3>2. \A k \in Layers : \A n \in Members : staged[<<k, n>>] = "pinned"
      BY <2>1 DEF Staged
    <3>. HIDE DEF Layers, Members
    <3>. QED BY <3>1, <3>2
  <2>5. staged' = TreeOf("pinned")
    BY <2>3, <2>4
  <2>6. unsynced' = {}
    BY <2>1, <2>2
  <2>. HIDE DEF Files, NoTree
  <2>. QED BY <2>1, <2>5, <2>6 DEF Staged
<1>8. CASE Commit BY <1>8 DEF Commit, Prepare
<1>9. CASE SyncParent BY <1>9 DEF SyncParent, Prepare
<1>10. CASE Open BY <1>10 DEF Open, Load
<1>11. CASE LoadFails BY <1>11 DEF LoadFails, Load
<1>12. CASE ReadInventory BY <1>12 DEF ReadInventory, Load
<1>13. CASE ReadMember BY <1>13 DEF ReadMember, Load
<1>14. CASE CheckLayer BY <1>14 DEF CheckLayer, Load, Bound
<1>15. CASE FinishLoad BY <1>15 DEF FinishLoad, Load, RequirePinned
<1>16. CASE TouchAssets BY <1>16 DEF TouchAssets, TouchFile, TouchSource, TouchTree
<1>. HIDE DEF Staged
<1>. QED BY <1>1, <1>2, <1>3, <1>4, <1>5, <1>6, <1>7, <1>8, <1>9, <1>10, <1>11, <1>12, <1>13,
            <1>14, <1>15, <1>16
         DEF AssetsNext

\* Other programs do not change what was read.
LEMMA ReadStep ==
  ASSUME Position, Read, AssetsNext
  PROVE  Read'
<1>. USE AssetsAssumption DEF Position, Layers, Read, Members,
         To, preparation, load
<1>1. CASE PrepareFails BY <1>1 DEF PrepareFails, Prepare
<1>2. CASE CheckTarget BY <1>2 DEF CheckTarget, Prepare
<1>3. CASE Snapshot BY <1>3 DEF Snapshot, Prepare, Directories
<1>4. CASE WriteFile BY <1>4 DEF WriteFile, Prepare
<1>5. CASE VerifyLayer BY <1>5 DEF VerifyLayer, Prepare
<1>6. CASE SyncLayers BY <1>6 DEF SyncLayers, Prepare
<1>7. CASE WriteInventory BY <1>7 DEF WriteInventory, Prepare
<1>8. CASE Commit BY <1>8 DEF Commit, Prepare
<1>9. CASE SyncParent BY <1>9 DEF SyncParent, Prepare
<1>10. CASE Open BY <1>10 DEF Open, Load
<1>11. CASE LoadFails BY <1>11 DEF LoadFails, Load
<1>12. CASE ReadInventory BY <1>12 DEF ReadInventory, Load
<1>13. CASE ReadMember
  <2>. HIDE DEF Read, Position
  <2>1. at[1] \in Layers /\ at'[1] = at[1] /\ ReadOrder[at[2]] \in Members
    BY <1>13 DEF ReadMember, Position, ReadOrder
  <2>2. got' = [m \in Members |-> IF m = ReadOrder[at[2]] THEN output[<<at[1], m>>] ELSE got[m]]
    BY <1>13, <2>1 DEF ReadMember, Read
  <2>3. got' = [m \in Members |-> got'[m]] /\ DOMAIN got' = Members
    BY <2>2
  <2>4. loader = "read" /\ loader' \in {"read", "check"} /\ UNCHANGED <<listed, assets>>
    BY <1>13 DEF ReadMember, Load
  <2>. QED BY <2>1, <2>3, <2>4 DEF Read
<1>14. CASE CheckLayer
  <2>. HIDE DEF Read, Position
  <2>1. got = [m \in Members |-> listed]
    BY <1>14 DEF CheckLayer, Bound, Read
  <2>2. at[1] \in Layers /\ loader = "check" /\ UNCHANGED <<listed, got>>
    BY <1>14 DEF CheckLayer, Load, Position
  <2>3. \A l \in Layers : l <= at[1] => assets'[l] = [m \in Members |-> listed]
    BY <1>14, <2>1, <2>2 DEF CheckLayer, Read
  <2>4. DOMAIN assets' = Layers
    BY <1>14 DEF CheckLayer, Read
  <2>5. CASE at[1] < N
    <3>1. loader' = "read" /\ at'[1] = at[1] + 1
      BY <1>14, <2>5 DEF CheckLayer
    <3>. QED BY <2>2, <2>3, <2>4, <3>1 DEF Read
  <2>6. CASE at[1] = N
    <3>1. loader' = "finish"
      BY <1>14, <2>6 DEF CheckLayer
    <3>. QED BY <2>2, <2>3, <2>4, <2>6, <3>1 DEF Read
  <2>. QED BY <2>2, <2>5, <2>6
<1>15. CASE FinishLoad BY <1>15 DEF FinishLoad, Load, RequirePinned
<1>16. CASE TouchAssets BY <1>16 DEF TouchAssets, TouchFile, TouchSource, TouchTree
<1>. HIDE DEF Read
<1>. QED BY <1>1, <1>2, <1>3, <1>4, <1>5, <1>6, <1>7, <1>8, <1>9, <1>10, <1>11, <1>12, <1>13,
            <1>14, <1>15, <1>16
         DEF AssetsNext

LEMMA AssetsInvNext == AssetsInv /\ [Next]_vars => AssetsInv'
<1>. SUFFICES ASSUME AssetsInv, [Next]_vars PROVE AssetsInv'
  OBVIOUS
<1>1. outside' \in Nat /\ outside' >= outside
  BY DEF AssetsInv, Next, vars, AssetsNext, PrepareFails, CheckTarget, Snapshot, WriteFile, VerifyLayer,
         SyncLayers, WriteInventory, Commit, SyncParent, Prepare, Open, LoadFails, ReadInventory,
         ReadMember, CheckLayer, FinishLoad, Load, TouchAssets, Install, Use, Close, Others, Preflight,
         Create, CreateFails, CreateInvalid, Put, PutFails, GuardModel, GuardModelFails, Undo, Discard,
         BeginSwitch, Switch, LastLook, SwitchFails, RollBack, InterruptSwitch, BeginClose, Restore, CloseLayer,
         Unguard, Replace, CloseBehind, ReplaceGuard, OutsideStep
<1>2. CASE AssetsNext
  BY <1>1, <1>2, PositionStep, StagedStep, ReadStep DEF AssetsInv
<1>3. CASE UNCHANGED assetVars
  BY <1>1, <1>3 DEF assetVars, preparation, load, AssetsInv, Position, Staged, Read
<1>. QED BY <1>2, <1>3 DEF Next, vars

\* The output is never a part of a preparation and outlives a crash when it was
\* reported, undisturbed; a load hands out the pinned weights or nothing, disturbed
\* or not.
THEOREM AssetsStayPinned == Spec => []AssetsArePinned
<1>1. AssetsInv => AssetsArePinned
  <2>. SUFFICES ASSUME AssetsInv PROVE AssetsArePinned
    OBVIOUS
  <2>1. ASSUME outside = 0, preparer \in {"syncParent", "unsure", "ok"}
        PROVE  /\ AfterCrash \subseteq {NoTree, TreeOf("pinned")}
               /\ (preparer = "ok" => AfterCrash = {TreeOf("pinned")})
    <3>1. unsynced = {} /\ output = TreeOf("pinned")
      BY <2>1 DEF AssetsInv, Staged
    <3>2. [f \in Files |-> IF f[1] \in unsynced \/ (f # Inventory /\ N + 1 \in unsynced)
                              THEN "none" ELSE output[f]] = TreeOf("pinned")
      BY <3>1 DEF TreeOf
    <3>. QED BY <2>1, <3>2 DEF AfterCrash
  <2>2. ASSUME preparer \notin {"syncParent", "unsure", "ok"} PROVE AfterCrash = {output}
    BY <2>2 DEF AfterCrash
  <2>3. outside = 0 => output \in {NoTree, TreeOf("other"), TreeOf("pinned")}
    BY DEF AssetsInv, Staged
  <2>4. loader = "loaded" => \A l \in Layers : assets[l] = [m \in Members |-> "pinned"]
    BY DEF AssetsInv, Read
  <2>. QED BY <2>1, <2>2, <2>3, <2>4 DEF AssetsArePinned
<1>. QED BY <1>1, AssetsInvInit, AssetsInvNext, PTL DEF Spec
=============================================================================
