------------------------- MODULE PreparationReceipt -------------------------
(***************************************************************************)
(* capture_preparation_receipt of python/decodeforge/g3_preparation.py: run *)
(* the preparation tool on the model of a clean checkout and publish a      *)
(* receipt of it, or leave no receipt.  The checkout is looked at three     *)
(* times, each time by three git queries, before, after, and once the       *)
(* receipt is published.  Meanwhile other programs change the checkout,     *)
(* replace the tool and write under the names of receipts.                  *)
(*                                                                          *)
(* The captures run one after the other, each with an output and a receipt  *)
(* name of its own; a receipt is named by the capture that wrote it.        *)
(***************************************************************************)
EXTENDS Integers, FiniteSets

CONSTANTS
  Commits,
  Tools,        \* the contents that the tool's file may have
  MaxCaptures,  \* bound: captures
  MaxOutside    \* bound: steps of other programs

ASSUME ReceiptAssumption ==
  /\ Commits # {} /\ Tools # {}
  /\ MaxCaptures \in Nat \ {0} /\ MaxOutside \in Nat

Captures == 1 .. MaxCaptures
Absent == 0                   \* nothing is under the name
Foreign == MaxCaptures + 1    \* something that is no receipt
CONSTANT Unknown              \* what was not read yet
ASSUME UnknownAssumption == Unknown \notin Commits \cup Tools

VARIABLES
  head, dirty, flagged,  \* the checkout; a flag in the index hides dirt from git status
  tool,                  \* the content of the tool's file
  file, own,             \* what is under each receipt's name; it is the file that was published
  receipt,               \* the documents
  capture, place, look,  \* the capture that runs, where it is, and its look at the checkout
  seen, revision, identity,
  outcome,               \* of each capture: "none", "ok", "failed", "interrupted"
  outside,               \* how many steps other programs have made
  stuck,                 \* history: the captures whose receipt could not be removed
  ran,                   \* history: the tools that this capture ran
  moves, stood           \* history: changes of the checkout in it; the commits that stood clean

checkout == <<head, dirty, flagged>>
names == <<file, own>>
reading == <<capture, place, look, seen, revision, identity>>
history == <<ran, moves, stood>>
receiptVars == <<checkout, tool, names, receipt, reading, outcome, outside, stuck, history>>

CleanAt == IF dirty \/ flagged THEN {} ELSE {head}

ReceiptInit ==
  /\ head \in Commits /\ dirty \in BOOLEAN /\ flagged \in BOOLEAN
  /\ tool \in Tools
  /\ file = [p \in Captures |-> Absent] /\ own = [p \in Captures |-> FALSE]
  /\ receipt = [p \in Captures |-> [revision |-> Unknown, identity |-> Unknown]]
  /\ capture = 0 /\ place = "idle" /\ look = 1
  /\ seen = Unknown /\ revision = Unknown /\ identity = Unknown
  /\ outcome = [p \in Captures |-> "none"] /\ outside = 0
  /\ stuck = {} /\ ran = {} /\ moves = 0 /\ stood = {}

-----------------------------------------------------------------------------
(* How a capture goes on and ends                                          *)

\* The output must be new and both names outside the checkout.
Begin ==
  /\ place = "idle" /\ capture < MaxCaptures
  /\ capture' = capture + 1
  /\ \/ /\ file[capture'] = Absent
        /\ place' = "head" /\ stood' = CleanAt /\ UNCHANGED outcome
     \/ /\ outcome' = [outcome EXCEPT ![capture'] = "failed"]
        /\ UNCHANGED <<place, stood>>
  /\ UNCHANGED <<checkout, tool, names, receipt, look, seen, revision, identity, outside, stuck,
                 ran, moves>>

Goto(where) ==
  place' = where /\ UNCHANGED <<capture, look, seen, revision, identity, outcome, moves, stood>>

\* What the capture knew is gone with it.
End(how) ==
  /\ place' = "idle" /\ outcome' = [outcome EXCEPT ![capture] = how]
  /\ look' = 1 /\ seen' = Unknown /\ revision' = Unknown /\ identity' = Unknown
  /\ moves' = 0 /\ stood' = {}
  /\ UNCHANGED capture

\* Once the receipt is published, whatever raises first takes it back.
Raise == IF look = 3 THEN Goto("rollback") ELSE End("failed")

World == UNCHANGED <<checkout, tool, outside>>
Kept == UNCHANGED <<outcome, moves, stood>>

-----------------------------------------------------------------------------
(* _checkout_state: three git queries                                      *)

LookFails == place \in {"head", "status", "flags"} /\ Raise /\ UNCHANGED <<names, receipt, stuck, ran>> /\ World

ReadHead ==
  /\ place = "head" /\ seen' = head /\ place' = "status"
  /\ UNCHANGED <<capture, look, revision, identity, names, receipt, stuck, ran>> /\ Kept /\ World

ReadStatus ==
  /\ place = "status"
  /\ IF dirty /\ ~flagged THEN Raise ELSE Goto("flags")
  /\ UNCHANGED <<names, receipt, stuck, ran>> /\ World

\* Mutant: the later looks are not compared with the first.
ReadFlagsForgetting ==
  /\ place = "flags"
  /\ IF flagged THEN Raise
     ELSE /\ revision' = IF look = 1 THEN seen ELSE revision
          /\ place' = CASE look = 1 -> "tool" [] look = 2 -> "link" [] look = 3 -> "load"
          /\ UNCHANGED <<capture, look, seen, identity>> /\ Kept
  /\ UNCHANGED <<names, receipt, stuck, ran>> /\ World

\* The third answer completes the look, and what follows depends on which it is.
ReadFlags ==
  /\ place = "flags"
  /\ IF flagged \/ (look > 1 /\ seen # revision) THEN Raise
     ELSE /\ revision' = seen
          /\ place' = CASE look = 1 -> "tool" [] look = 2 -> "link" [] look = 3 -> "load"
          /\ UNCHANGED <<capture, look, seen, identity>> /\ Kept
  /\ UNCHANGED <<names, receipt, stuck, ran>> /\ World

LookAgain(n) ==
  /\ look' = n /\ place' = "head"
  /\ UNCHANGED <<capture, seen, revision, identity>> /\ Kept

-----------------------------------------------------------------------------
(* The preparation                                                         *)

\* _read_leaf of the tool; the snapshot is written from the bytes that were hashed.
ReadTool ==
  /\ place = "tool"
  /\ \/ /\ identity' = tool /\ place' = "prepare"
        /\ UNCHANGED <<capture, look, seen, revision>> /\ Kept
     \/ Raise
  /\ UNCHANGED <<names, receipt, stuck, ran>> /\ World

\* _run_tool on the snapshot
RunTool(before) == ran' = before \cup {identity}

\* The tool prepares within the two readings of the clock, then verifies.
Prepare ==
  /\ place = "prepare" /\ RunTool({})
  /\ Goto("verify") \/ Raise
  /\ UNCHANGED <<names, receipt, stuck>> /\ World

Verify ==
  /\ place = "verify" /\ RunTool(ran)
  /\ Goto("inventory") \/ Raise
  /\ UNCHANGED <<names, receipt, stuck>> /\ World

\* The inventory must be the canonical one.
Inventory ==
  /\ place = "inventory"
  /\ LookAgain(2) \/ Raise
  /\ UNCHANGED <<names, receipt, stuck, ran>> /\ World

-----------------------------------------------------------------------------
(* Publication                                                             *)

\* Taking away whatever is under the name may fail.
Remove ==
  \/ /\ file' = [file EXCEPT ![capture] = Absent] /\ own' = [own EXCEPT ![capture] = FALSE]
     /\ UNCHANGED stuck
  \/ UNCHANGED names /\ stuck' = stuck \cup {capture}

\* The temporary file is complete and synced when it gets the name.
Link ==
  /\ place = "link"
  /\ \/ /\ file[capture] = Absent
        /\ file' = [file EXCEPT ![capture] = capture] /\ own' = [own EXCEPT ![capture] = TRUE]
        /\ receipt' = [receipt EXCEPT ![capture] =
             [revision |-> revision, identity |-> identity]]
        /\ Goto("compare")
     \/ End("failed") /\ UNCHANGED <<names, receipt>>
  /\ UNCHANGED <<stuck, ran>> /\ World

\* The name must hold the file that was written.
Compare ==
  /\ place = "compare"
  /\ \/ own[capture] /\ Goto("sync") /\ UNCHANGED <<names, stuck>>
     \/ Remove /\ End("failed")
  /\ UNCHANGED <<receipt, ran>> /\ World

Sync ==
  /\ place = "sync"
  /\ \/ LookAgain(3) /\ UNCHANGED <<names, stuck>>
     \/ Remove /\ End("failed")
  /\ UNCHANGED <<receipt, ran>> /\ World

\* verify_preparation_receipt: the document is valid and the tool still the same.
Verifies(p) == file[p] \in Captures /\ tool = receipt[file[p]].identity

Load ==
  /\ place = "load"
  /\ IF Verifies(capture) THEN End("ok") \/ Raise ELSE Raise
  /\ UNCHANGED <<names, receipt, stuck, ran>> /\ World

\* Mutant: the receipt stays when the checkout has changed.
RollbackNothing ==
  /\ place = "rollback" /\ End("failed")
  /\ UNCHANGED <<names, receipt, stuck, ran>> /\ World

\* _remove_published: only the published file is taken back.
Rollback ==
  /\ place = "rollback" /\ End("failed")
  /\ IF own[capture] THEN Remove ELSE UNCHANGED names /\ stuck' = stuck \cup {capture}
  /\ UNCHANGED <<receipt, ran>> /\ World

\* KeyboardInterrupt
Interrupt ==
  /\ place # "idle"
  /\ IF look = 3 /\ place # "rollback" THEN Goto("rollback") ELSE End("interrupted")
  /\ UNCHANGED <<names, receipt, stuck, ran>> /\ World

CaptureStep ==
  \/ Begin \/ LookFails \/ ReadHead \/ ReadStatus \/ ReadFlags \/ ReadTool \/ Prepare \/ Verify
  \/ Inventory \/ Link \/ Compare \/ Sync \/ Load \/ Rollback \/ Interrupt

-----------------------------------------------------------------------------
(* Other programs                                                          *)

\* Commit, reset, edit, hide: the checkout becomes any other.
MoveCheckout ==
  /\ head' \in Commits /\ dirty' \in BOOLEAN /\ flagged' \in BOOLEAN
  /\ checkout' # checkout
  /\ moves' = IF place = "idle" THEN moves ELSE moves + 1
  /\ stood' = IF place = "idle" THEN stood ELSE stood \cup CleanAt'
  /\ UNCHANGED <<tool, names>>

ReplaceTool == tool' \in Tools \ {tool} /\ UNCHANGED <<checkout, names, moves, stood>>

\* A name is cleared or taken, perhaps with a copy of a receipt.
ReplaceReceipt ==
  /\ \E p \in Captures, d \in {Absent, Foreign} \cup 1 .. capture :
       /\ d \in Captures => receipt[d].revision # Unknown
       /\ file' = [file EXCEPT ![p] = d] /\ own' = [own EXCEPT ![p] = FALSE]
  /\ UNCHANGED <<checkout, tool, moves, stood>>

Outside ==
  /\ outside < MaxOutside /\ outside' = outside + 1
  /\ MoveCheckout \/ ReplaceTool \/ ReplaceReceipt
  /\ UNCHANGED <<receipt, reading, outcome, stuck, ran>>

ReceiptNext == CaptureStep \/ Outside
ReceiptSpec == ReceiptInit /\ [][ReceiptNext]_receiptVars

-----------------------------------------------------------------------------
\* A capture that failed has left no receipt of its own, unless removing it failed
\* too: each step after the link has its own way of taking the receipt back.
FailureLeavesNothing ==
  \A p \in Captures : outcome[p] = "failed" /\ own[p] => p \in stuck

Succeeds(p) == outcome[p] # "ok" /\ outcome'[p] = "ok"

\* A receipt is true: it names the executable that prepared and verified, whatever
\* was put under the tool's path meanwhile, and a revision that stood clean in the
\* checkout at one moment of the capture at least, unless the checkout was changed
\* four times in it: no query sees that, and every look can be deceived by a
\* change in its middle.
ReceiptIsTrue ==
  [][\A p \in Captures :
       Succeeds(p) => /\ ran = {receipt[p].identity}
                      /\ moves <= 3 => receipt[p].revision \in stood]_receiptVars
=============================================================================
