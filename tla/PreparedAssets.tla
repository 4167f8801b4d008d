--------------------------- MODULE PreparedAssets ---------------------------
(***************************************************************************)
(* The way of the weights from the checkpoint to the model, through the     *)
(* file system.  prepare_q_proj_inventory_v1 (model_assets/mod.rs) copies    *)
(* the checkpoint, writes four files per layer and an inventory into a       *)
(* private directory and renames it; _load_prepared_inventory               *)
(* (qproj_model.py) reads the inventory and then the layers, file by file.   *)
(* Every file names others by their digests, so that a file is told apart    *)
(* here by the checkpoint it was made from.  Every step may fail, and other  *)
(* programs change files; what a crash would leave is AfterCrash.            *)
(***************************************************************************)
EXTENDS Naturals, Sequences

CONSTANTS
  N,           \* TINYLLAMA_QPROJ_LAYERS
  MaxTouches   \* bound: steps of other programs up to the end of the load

ASSUME AssetsAssumption == N \in Nat \ {0} /\ MaxTouches \in Nat

Layers == 1 .. N
Versions == {"pinned", "other"}
WriteOrder == <<"payload", "packManifest", "fallback", "manifest">>
ReadOrder == <<"manifest", "packManifest", "payload", "fallback">>
Members == {"payload", "packManifest", "fallback", "manifest"}

\* A tree gives each file, by its directory and name, the version it is of; the
\* root is directory 0, and the directory of the layers is number N + 1.
Inventory == <<0, "inventory">>
Files == (Layers \X Members) \cup {Inventory}
Directories == 0 .. N + 1
TreeOf(version) == [f \in Files |-> version]
NoTree == TreeOf("none")

VARIABLES
  source,     \* what the path of the checkpoint leads to
  staged,     \* the private directory
  unsynced,   \* directories whose entries a crash may lose
  output,     \* what is under the output name
  preparer,   \* where the preparation is
  at,         \* the layer and the file that preparer or loader has come to
  loader,     \* where the load is
  listed,     \* the version of the inventory that was read
  got,        \* the files read of the current layer
  assets,     \* the verified assets
  outside

preparation == <<source, staged, unsynced, output, preparer>>
load == <<loader, listed, got, assets>>
assetVars == <<preparation, load, at>>

AssetsInit ==
  /\ source \in Versions
  /\ staged = NoTree /\ unsynced = {}
  /\ output \in {NoTree, TreeOf("other")}
  /\ preparer = "check" /\ at = <<1, 1>>
  /\ loader = "waiting" /\ listed = "none"
  /\ got = [m \in Members |-> "none"] /\ assets = [l \in Layers |-> got]
  /\ outside = 0

-----------------------------------------------------------------------------
(* prepare_q_proj_inventory_v1                                             *)

Prepare(place) == preparer = place /\ UNCHANGED <<load, outside>>
To(place) == preparer' = place

\* An error drops the TempDir, and the staged tree with it.
PrepareFails ==
  /\ \E place \in {"check", "snapshot", "write", "verify", "syncLayers", "inventory", "commit"} :
       Prepare(place)
  /\ staged' = NoTree /\ unsynced' = {}
  /\ To("failed")
  /\ UNCHANGED <<source, output, at>>

CheckTarget ==
  /\ Prepare("check") /\ output = NoTree
  /\ To("snapshot")
  /\ UNCHANGED <<source, staged, unsynced, output, at>>

\* The copy must have the digest of the pinned checkpoint, whatever happened to
\* the file while it was copied; the rest works from the copy.
Snapshot ==
  /\ Prepare("snapshot") /\ source = "pinned"
  /\ To("write") /\ at' = <<1, 1>>
  /\ unsynced' = Directories
  /\ UNCHANGED <<source, staged, output>>

\* Each file is synchronized when it is written, each directory after its files.
WriteFile ==
  /\ Prepare("write")
  /\ staged' = [staged EXCEPT ![<<at[1], WriteOrder[at[2]]>>] = "pinned"]
  /\ IF at[2] < 4
       THEN at' = <<at[1], at[2] + 1>> /\ UNCHANGED <<preparer, unsynced>>
       ELSE To("verify") /\ unsynced' = unsynced \ {at[1]} /\ UNCHANGED at
  /\ UNCHANGED <<source, output>>

\* The staged layer is read again and compared with what was written.
VerifyLayer ==
  /\ Prepare("verify")
  /\ \A m \in Members : staged[<<at[1], m>>] = "pinned"
  /\ IF at[1] < N THEN To("write") /\ at' = <<at[1] + 1, 1>> ELSE To("syncLayers") /\ UNCHANGED at
  /\ UNCHANGED <<source, staged, unsynced, output>>

SyncLayers ==
  /\ Prepare("syncLayers")
  /\ unsynced' = unsynced \ {N + 1}
  /\ To("inventory")
  /\ UNCHANGED <<source, staged, output, at>>

WriteInventory ==
  /\ Prepare("inventory")
  /\ staged' = [staged EXCEPT ![Inventory] = "pinned"]
  /\ unsynced' = unsynced \ {0}
  /\ To("commit")
  /\ UNCHANGED <<source, output, at>>

\* RENAME_NOREPLACE: a tree that has come under the name meanwhile stays.
Commit ==
  /\ Prepare("commit") /\ output = NoTree
  /\ output' = staged /\ staged' = NoTree
  /\ To("syncParent")
  /\ UNCHANGED <<source, unsynced, at>>

\* Nothing is taken back when this fails: the caller is told of an error, and the
\* tree is there, or not after a crash.
SyncParent ==
  /\ Prepare("syncParent")
  /\ To("ok") \/ To("unsure")
  /\ UNCHANGED <<source, staged, unsynced, output, at>>

\* A crash is no action: this is what it may leave under the name at this moment.
\* Directories that were not synchronized lose their entries, and the rename may
\* be lost as a whole.
AfterCrash ==
  LET remains == [f \in Files |-> IF f[1] \in unsynced \/ (f # Inventory /\ N + 1 \in unsynced)
                                    THEN "none" ELSE output[f]]
  IN  CASE preparer \in {"syncParent", "unsure"} -> {NoTree, remains}
        [] preparer = "ok" -> {remains}
        [] OTHER -> {output}

-----------------------------------------------------------------------------
(* _load_prepared_inventory: the directories are opened once, and nothing   *)
(* that is renamed afterwards matters to it.                                *)

Load(place) == loader = place /\ UNCHANGED <<preparation, outside>>

Open ==
  /\ Load("waiting") /\ output # NoTree
  /\ preparer \in {"ok", "failed", "unsure"}
  /\ loader' = "inventory" /\ at' = <<1, 1>>
  /\ UNCHANGED <<listed, got, assets>>

\* A file is missing, changes while it is read, or is none of the kind.
LoadFails ==
  /\ \E place \in {"inventory", "read", "check", "finish"} : Load(place)
  /\ loader' = "refused"
  /\ UNCHANGED <<listed, got, assets, at>>

ReadInventory ==
  /\ Load("inventory")
  /\ output[Inventory] # "none"
  /\ listed' = output[Inventory]
  /\ loader' = "read"
  /\ UNCHANGED <<got, assets, at>>

\* _read_snapshot: one file as it is at one moment.
ReadMember ==
  LET member == ReadOrder[at[2]] IN
  /\ Load("read")
  /\ output[<<at[1], member>>] # "none"
  /\ got' = [got EXCEPT ![member] = output[<<at[1], member>>]]
  /\ IF at[2] < 4 THEN at' = <<at[1], at[2] + 1>> /\ UNCHANGED loader
                  ELSE loader' = "check" /\ UNCHANGED at
  /\ UNCHANGED <<listed, assets>>

\* The inventory names the manifest, the manifest the other files, and these
\* each other: the pack its logical weights, the fallback their dequantization.
Bound == \A m \in Members : got[m] = listed

CheckLayer ==
  /\ Load("check") /\ Bound
  /\ assets' = [assets EXCEPT ![at[1]] = got]
  /\ IF at[1] < N THEN loader' = "read" /\ at' = <<at[1] + 1, 1>> ELSE loader' = "finish" /\ UNCHANGED at
  /\ UNCHANGED <<listed, got>>

\* Mutant: any inventory that is consistent in itself is taken.
RequirePinnedNot == TRUE

\* _require_pinned_aggregate: the digest over all entries is a constant.
RequirePinned == listed = "pinned"

FinishLoad ==
  /\ Load("finish") /\ RequirePinned
  /\ loader' = "loaded"
  /\ UNCHANGED <<listed, got, assets, at>>

-----------------------------------------------------------------------------
(* Other programs                                                          *)

\* They change a file in place, where there is one, or the checkpoint.
TouchFile ==
  /\ \E f \in Files, version \in Versions :
       \/ output[f] # "none" /\ output' = [output EXCEPT ![f] = version] /\ UNCHANGED staged
       \/ staged[f] # "none" /\ staged' = [staged EXCEPT ![f] = version] /\ UNCHANGED output
  /\ UNCHANGED source

TouchSource == source' \in Versions \ {source} /\ UNCHANGED <<staged, output>>

\* A tree of another preparation comes or goes as a whole.
TouchTree ==
  /\ loader = "waiting"
  /\ output' \in {NoTree, TreeOf("other")} \ {output}
  /\ UNCHANGED <<source, staged>>

TouchAssets ==
  /\ loader \notin {"loaded", "refused"}
  /\ outside < MaxTouches /\ outside' = outside + 1
  /\ TouchFile \/ TouchSource \/ TouchTree
  /\ UNCHANGED <<unsynced, preparer, load, at>>

AssetsNext ==
  \/ PrepareFails \/ CheckTarget \/ Snapshot \/ WriteFile \/ VerifyLayer \/ SyncLayers
  \/ WriteInventory \/ Commit \/ SyncParent
  \/ Open \/ LoadFails \/ ReadInventory \/ ReadMember \/ CheckLayer \/ FinishLoad
  \/ TouchAssets

-----------------------------------------------------------------------------
\* Undisturbed, the output is never a part of a preparation, and one that was
\* reported stays, whatever fails and whenever the machine crashes; and whatever
\* other programs do, what a load hands to the adapters are the pinned weights in
\* every file of every layer, though it reads them one after the other.
AssetsArePinned ==
  /\ outside = 0 =>
       /\ AfterCrash \cup {output} \subseteq {NoTree, TreeOf("other"), TreeOf("pinned")}
       /\ preparer = "ok" => AfterCrash = {TreeOf("pinned")}
  /\ loader = "loaded" => \A l \in Layers : assets[l] = [m \in Members |-> "pinned"]
=============================================================================
