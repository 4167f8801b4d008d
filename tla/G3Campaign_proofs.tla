-------------------------- MODULE G3Campaign_proofs --------------------------
(***************************************************************************)
(* Proofs about G3Campaign and the PreparationReceipt it is built from, for *)
(* every set of commits, tools and process IDs and any number of captures,  *)
(* sessions and steps of other programs.                                    *)
(***************************************************************************)
EXTENDS G3Campaign, TLAPS

-----------------------------------------------------------------------------
(* A capture alone.  That a receipt is true has two halves.  The tools that *)
(* ran are tracked by RanIt and Documented.  For the revision, Looks says   *)
(* how often, at least, the checkout was changed for the present state to   *)
(* be reached while the revision never stood clean: a look is deceived only *)
(* if the checkout changes between two of its queries, and a checkout that  *)
(* deceived one look by one change must be changed twice to deceive the     *)
(* last.                                                                    *)

Published == look = 3 \/ place \in {"compare", "sync"}

\* Which look each place belongs to.
Placed ==
  /\ place \in {"idle", "tool", "prepare", "verify", "inventory"} => look = 1
  /\ place \in {"link", "compare", "sync"} => look = 2
  /\ place \in {"load", "rollback"} => look = 3

\* A capture has no outcome before its end and no receipt before its link.
Pending ==
  /\ \A p \in Captures : own[p] \/ outcome[p] # "none" => p <= capture
  /\ place # "idle" => capture \in Captures /\ outcome[capture] = "none"
  /\ place # "idle" /\ ~Published => ~own[capture]

\* The receipt under publication says what the capture knows.
Documented == Published => receipt[capture] = [revision |-> revision, identity |-> identity]

\* From the first run on, only the executable that was read has run.
RanIt == look > 1 \/ place \in {"verify", "inventory"} => ran = {identity}

\* Three cases: the checkout is at another commit than r, it is at r with a flag in
\* the index, or it is at r without.
ByCheckout(r, other, hidden, plain) ==
  IF head # r THEN other ELSE IF flagged THEN hidden ELSE plain

Looks ==
  /\ place # "idle" => CleanAt \subseteq stood
  /\ look = 1 /\ place = "status" /\ seen \notin stood => moves >= ByCheckout(seen, 1, 0, 0)
  /\ look = 1 /\ place = "flags" /\ seen \notin stood => moves >= ByCheckout(seen, 1, 0, 1)
  /\ revision \notin stood =>
       /\ place \in {"tool", "prepare", "verify", "inventory"} \/ (look = 2 /\ place = "head") =>
            moves >= ByCheckout(revision, 1, 2, 1)
       /\ look = 2 /\ place = "status" /\ seen = revision => moves >= ByCheckout(seen, 2, 2, 1)
       /\ look = 2 /\ place = "flags" /\ seen = revision => moves >= ByCheckout(seen, 2, 2, 3)
       /\ place \in {"link", "compare", "sync"} \/ (look = 3 /\ place = "head") =>
            moves >= ByCheckout(revision, 2, 3, 3)
       /\ look = 3 /\ place = "status" /\ seen = revision => moves >= ByCheckout(seen, 4, 3, 3)
       /\ look = 3 /\ place = "flags" /\ seen = revision => moves >= ByCheckout(seen, 4, 3, 4)
       /\ place = "load" => moves >= 4

\* As much of the types as the proofs need.
Shapes ==
  /\ capture \in 0 .. MaxCaptures /\ moves \in Nat /\ look \in 1 .. 3
  /\ DOMAIN own = Captures /\ DOMAIN outcome = Captures /\ DOMAIN receipt = Captures

ReceiptInv ==
  Shapes /\ Placed /\ Pending /\ FailureLeavesNothing /\ Documented /\ RanIt /\ Looks

LEMMA ReceiptInvInit == ReceiptInit => ReceiptInv
<1>. SUFFICES ASSUME ReceiptInit PROVE ReceiptInv
  OBVIOUS
<1>1. Shapes
  BY ReceiptAssumption DEF ReceiptInit, Shapes, Captures
<1>2. Placed /\ Pending /\ FailureLeavesNothing /\ Documented /\ RanIt /\ Looks
  BY DEF ReceiptInit, Placed, Pending, Published, FailureLeavesNothing, Documented, RanIt, Looks
<1>. QED BY <1>1, <1>2 DEF ReceiptInv

\* Where the capture is.
LEMMA PlaceStep ==
  ASSUME Shapes /\ Placed, CaptureStep \/ Outside
  PROVE  (Shapes /\ Placed)'
<1>. USE ReceiptAssumption
     DEF Shapes, Placed, Captures,
         checkout, names, World, Kept, Goto, End, Raise
<1>1. CASE Begin      BY <1>1 DEF Begin, CleanAt
<1>2. CASE LookFails  BY <1>2 DEF LookFails
<1>3. CASE ReadHead   BY <1>3 DEF ReadHead
<1>4. CASE ReadStatus BY <1>4 DEF ReadStatus
<1>5. CASE ReadFlags  BY <1>5 DEF ReadFlags
<1>6. CASE ReadTool   BY <1>6 DEF ReadTool
<1>7. CASE Prepare    BY <1>7 DEF Prepare, RunTool
<1>8. CASE Verify     BY <1>8 DEF Verify, RunTool
<1>9. CASE Inventory  BY <1>9 DEF Inventory, LookAgain
<1>10. CASE Link      BY <1>10 DEF Link
<1>11. CASE Compare   BY <1>11 DEF Compare, Remove
<1>12. CASE Sync      BY <1>12 DEF Sync, Remove, LookAgain
<1>13. CASE Load      BY <1>13 DEF Load
<1>14. CASE Rollback  BY <1>14 DEF Rollback, Remove
<1>15. CASE Interrupt BY <1>15 DEF Interrupt
<1>16. CASE Outside
  BY <1>16 DEF Outside, MoveCheckout, ReplaceTool, ReplaceReceipt, reading, history, CleanAt
<1>. HIDE DEF Shapes, Placed
<1>. QED BY <1>1, <1>2, <1>3, <1>4, <1>5, <1>6, <1>7, <1>8, <1>9, <1>10, <1>11, <1>12, <1>13,
            <1>14, <1>15, <1>16
         DEF CaptureStep

\* What is under the names, and how captures end.
LEMMA FailureStep ==
  ASSUME Shapes /\ Placed /\ Pending /\ FailureLeavesNothing, CaptureStep \/ Outside
  PROVE  (Pending /\ FailureLeavesNothing)'
<1>. USE ReceiptAssumption
     DEF Shapes, Placed, Captures, Pending, Published, FailureLeavesNothing,
         checkout, names, World, Kept, Goto, End, Raise
<1>1. CASE Begin      BY <1>1 DEF Begin, CleanAt
<1>2. CASE LookFails  BY <1>2 DEF LookFails
<1>3. CASE ReadHead   BY <1>3 DEF ReadHead
<1>4. CASE ReadStatus BY <1>4 DEF ReadStatus
<1>5. CASE ReadFlags  BY <1>5 DEF ReadFlags
<1>6. CASE ReadTool   BY <1>6 DEF ReadTool
<1>7. CASE Prepare    BY <1>7 DEF Prepare, RunTool
<1>8. CASE Verify     BY <1>8 DEF Verify, RunTool
<1>9. CASE Inventory  BY <1>9 DEF Inventory, LookAgain
<1>10. CASE Link      BY <1>10 DEF Link
<1>11. CASE Compare   BY <1>11 DEF Compare, Remove
<1>12. CASE Sync      BY <1>12 DEF Sync, Remove, LookAgain
<1>13. CASE Load      BY <1>13 DEF Load
<1>14. CASE Rollback  BY <1>14 DEF Rollback, Remove
<1>15. CASE Interrupt BY <1>15 DEF Interrupt
<1>16. CASE Outside
  BY <1>16 DEF Outside, MoveCheckout, ReplaceTool, ReplaceReceipt, reading, history, CleanAt
<1>. HIDE DEF Pending, FailureLeavesNothing
<1>. QED BY <1>1, <1>2, <1>3, <1>4, <1>5, <1>6, <1>7, <1>8, <1>9, <1>10, <1>11, <1>12, <1>13,
            <1>14, <1>15, <1>16
         DEF CaptureStep

\* What the document says, and what ran.
LEMMA DocumentStep ==
  ASSUME Shapes /\ Placed /\ Pending /\ Documented /\ RanIt, CaptureStep \/ Outside
  PROVE  (Documented /\ RanIt)'
<1>. USE ReceiptAssumption
     DEF Shapes, Placed, Captures, Pending, Published, Documented, RanIt,
         checkout, names, World, Kept, Goto, End, Raise
<1>1. CASE Begin      BY <1>1 DEF Begin, CleanAt
<1>2. CASE LookFails  BY <1>2 DEF LookFails
<1>3. CASE ReadHead   BY <1>3 DEF ReadHead
<1>4. CASE ReadStatus BY <1>4 DEF ReadStatus
<1>5. CASE ReadFlags  BY <1>5 DEF ReadFlags
<1>6. CASE ReadTool   BY <1>6 DEF ReadTool
<1>7. CASE Prepare    BY <1>7 DEF Prepare, RunTool
<1>8. CASE Verify     BY <1>8 DEF Verify, RunTool
<1>9. CASE Inventory  BY <1>9 DEF Inventory, LookAgain
<1>10. CASE Link      BY <1>10 DEF Link
<1>11. CASE Compare   BY <1>11 DEF Compare, Remove
<1>12. CASE Sync      BY <1>12 DEF Sync, Remove, LookAgain
<1>13. CASE Load      BY <1>13 DEF Load
<1>14. CASE Rollback  BY <1>14 DEF Rollback, Remove
<1>15. CASE Interrupt BY <1>15 DEF Interrupt
<1>16. CASE Outside
  BY <1>16 DEF Outside, MoveCheckout, ReplaceTool, ReplaceReceipt, reading, history, CleanAt
<1>. HIDE DEF Documented, RanIt
<1>. QED BY <1>1, <1>2, <1>3, <1>4, <1>5, <1>6, <1>7, <1>8, <1>9, <1>10, <1>11, <1>12, <1>13,
            <1>14, <1>15, <1>16
         DEF CaptureStep

\* What the looks stand for: other programs raise the bound by one at most, each answer
\* rules the cheapest case out.
LEMMA LookStep ==
  ASSUME Shapes /\ Placed /\ Looks, CaptureStep \/ Outside
  PROVE  (Looks)'
<1>. USE ReceiptAssumption
     DEF Shapes, Placed, Looks, ByCheckout, CleanAt,
         checkout, names, World, Kept, Goto, End, Raise
<1>1. CASE Begin      BY <1>1 DEF Begin, CleanAt
<1>2. CASE LookFails  BY <1>2 DEF LookFails
<1>3. CASE ReadHead   BY <1>3 DEF ReadHead
<1>4. CASE ReadStatus BY <1>4 DEF ReadStatus
<1>5. CASE ReadFlags  BY <1>5 DEF ReadFlags
<1>6. CASE ReadTool   BY <1>6 DEF ReadTool
<1>7. CASE Prepare    BY <1>7 DEF Prepare, RunTool
<1>8. CASE Verify     BY <1>8 DEF Verify, RunTool
<1>9. CASE Inventory  BY <1>9 DEF Inventory, LookAgain
<1>10. CASE Link      BY <1>10 DEF Link
<1>11. CASE Compare   BY <1>11 DEF Compare, Remove
<1>12. CASE Sync      BY <1>12 DEF Sync, Remove, LookAgain
<1>13. CASE Load      BY <1>13 DEF Load
<1>14. CASE Rollback  BY <1>14 DEF Rollback, Remove
<1>15. CASE Interrupt BY <1>15 DEF Interrupt
<1>16. CASE Outside
  BY <1>16 DEF Outside, MoveCheckout, ReplaceTool, ReplaceReceipt, reading, history, CleanAt
<1>. HIDE DEF Looks
<1>. QED BY <1>1, <1>2, <1>3, <1>4, <1>5, <1>6, <1>7, <1>8, <1>9, <1>10, <1>11, <1>12, <1>13,
            <1>14, <1>15, <1>16
         DEF CaptureStep

LEMMA ReceiptInvNext == ReceiptInv /\ [ReceiptNext]_receiptVars => ReceiptInv'
<1>1. ReceiptInv /\ UNCHANGED receiptVars => ReceiptInv'
  BY DEF receiptVars, checkout, names, reading, history, ReceiptInv, Shapes, Placed, Pending, Published,
         FailureLeavesNothing, Documented, RanIt, Looks, ByCheckout, CleanAt
<1>2. ReceiptInv /\ ReceiptNext => ReceiptInv'
  BY PlaceStep, FailureStep, DocumentStep, LookStep DEF ReceiptInv, ReceiptNext
<1>. QED BY <1>1, <1>2

\* The capture that succeeds is the one that loads its receipt.
LEMMA SuccessIsTrue ==
  ASSUME ReceiptInv, ReceiptNext, NEW p \in Captures, Succeeds(p)
  PROVE  /\ ran = {receipt[p].identity}
         /\ moves <= 3 => receipt[p].revision \in stood
<1>1. place = "load" /\ p = capture
  BY DEF Succeeds, ReceiptInv, Shapes, Pending, Captures, ReceiptNext, CaptureStep, Begin, LookFails,
         ReadHead, ReadStatus, ReadFlags, ReadTool, Prepare, Verify, Inventory, LookAgain, Link, Compare,
         Sync, Load, Rollback, Interrupt, Outside, Kept, Goto, Raise, End
<1>2. receipt[p] = [revision |-> revision, identity |-> identity] /\ ran = {identity}
  BY <1>1 DEF ReceiptInv, Placed, Documented, Published, RanIt
<1>3. revision \in stood \/ moves >= 4
  BY <1>1 DEF ReceiptInv, Looks
<1>. QED BY <1>2, <1>3 DEF ReceiptInv, Shapes

\* A failed capture leaves no receipt of its own, at whichever step it failed and
\* whatever others put under the names, unless removing it failed too.
THEOREM FailuresLeaveNothing == ReceiptSpec => []FailureLeavesNothing
<1>. QED BY ReceiptInvInit, ReceiptInvNext, PTL DEF ReceiptSpec, ReceiptInv

\* A receipt names the one executable that ran and, if the checkout was changed three
\* times at most, a revision that stood clean in it.
THEOREM ReceiptsAreTrue == ReceiptSpec => ReceiptIsTrue
<1>1. ReceiptInv /\ [ReceiptNext]_receiptVars =>
        [\A p \in Captures :
           Succeeds(p) => /\ ran = {receipt[p].identity}
                          /\ moves <= 3 => receipt[p].revision \in stood]_receiptVars
  BY SuccessIsTrue
<1>. QED BY <1>1, ReceiptInvInit, ReceiptInvNext, PTL DEF ReceiptSpec, ReceiptIsTrue

-----------------------------------------------------------------------------
(* The campaign.  What holds of captures holds in it, whose other steps     *)
(* change nothing of a capture but the number of steps of other programs.   *)
(* A session has two looks, and is judged as the first two looks of a       *)
(* capture are.                                                             *)

\* As Looks: how often the checkout was changed, at least, while the revision never
\* stood clean in it.
SessionLooks ==
  /\ sMoves \in Nat /\ sLook \in 1 .. 2
  /\ sPlace # "idle" => CleanAt \subseteq sStood
  /\ sPlace \in {"idle", "receipt", "command"} => sLook = 1
  /\ sLook = 1 /\ sPlace = "status" /\ sSeen \notin sStood => sMoves >= ByCheckout(sSeen, 1, 0, 0)
  /\ sLook = 1 /\ sPlace = "flags" /\ sSeen \notin sStood => sMoves >= ByCheckout(sSeen, 1, 0, 1)
  /\ sRevision \notin sStood =>
       /\ sPlace \in {"receipt", "command"} \/ (sLook = 2 /\ sPlace = "head") =>
            sMoves >= ByCheckout(sRevision, 1, 2, 1)
       /\ sLook = 2 /\ sPlace = "status" /\ sSeen = sRevision => sMoves >= ByCheckout(sSeen, 2, 2, 1)
       /\ sLook = 2 /\ sPlace = "flags" /\ sSeen = sRevision => sMoves >= ByCheckout(sSeen, 2, 2, 3)
       /\ sPlace = "end" => sMoves >= 2

\* A bundle is there when sessions and captures are over, so that what it was built
\* from stays as it was.
Sealed == (basis.receipt # Absent => ~Collecting) /\ BundleCoherent

\* What the verification has read is what is there, as long as the directory is.
Reading ==
  /\ version \in Nat /\ opened \in Nat /\ opened <= version
  /\ got \in Seq({"this", "other", "junk", "none"})
  /\ bundle \in [Members -> {"this", "other", "junk", "none"}]
  /\ aPlace \notin {"read", "verified", "refused"} => got = <<>> /\ opened = 0
  /\ Len(got) <= Len(Order)
  /\ aPlace = "read" /\ version = opened /\ ~rewritten =>
       \A i \in 1 .. Len(got) : got[i] = bundle[Order[i]]

CampaignInv == ReceiptInv /\ SessionLooks /\ Sealed /\ Reading

-----------------------------------------------------------------------------
LEMMA CampaignInvInit == Init => CampaignInv
<1>. SUFFICES ASSUME Init PROVE CampaignInv
  OBVIOUS
<1>1. ReceiptInv
  BY ReceiptInvInit DEF Init
<1>2. SessionLooks
  BY DEF Init, SessionLooks
<1>3. Sealed
  BY DEF Init, Sealed, BundleCoherent
<1>4. Reading
  BY DEF Init, Reading, NoDocument, Order
<1>. QED BY <1>1, <1>2, <1>3, <1>4 DEF CampaignInv

\* Only the verified bundle's tampering is no step of the preparation.
LEMMA ReceiptPart ==
  ASSUME ReceiptInv, [Next]_vars
  PROVE  ReceiptInv'
<1>1. CASE [ReceiptNext]_receiptVars
  BY <1>1, ReceiptInvNext
<1>2. CASE Tamper
  BY <1>2
  DEF Tamper, checkout, names, reading, history, ReceiptInv, Shapes, Placed, Pending, Published,
      FailureLeavesNothing, Documented, RanIt, Looks, ByCheckout, CleanAt
<1>. QED BY <1>1, <1>2
         DEF Next, vars, Preparation, Session, Analysis, Verification, OutsideSession, ReceiptNext

-----------------------------------------------------------------------------
LEMMA SessionPart ==
  ASSUME SessionLooks, [Next]_vars
  PROVE  SessionLooks'
<1>. USE DEF SessionLooks, ByCheckout, CleanAt, checkout
<1>1. CASE UNCHANGED <<checkout, session>>
  BY <1>1 DEF session
<1>2. CASE Session
  <2>. USE DEF receiptVars
  <2>1. CASE BeginSession   BY <1>2, <2>1 DEF Session, BeginSession
  <2>2. CASE SessionFails   BY <1>2, <2>2 DEF Session, SessionFails, Idle
  <2>3. CASE SReadHead      BY <1>2, <2>3 DEF Session, SReadHead
  <2>4. CASE SReadStatus    BY <1>2, <2>4 DEF Session, SReadStatus, SGoto
  <2>5. CASE SReadFlags     BY <1>2, <2>5 DEF Session, SReadFlags
  <2>6. CASE SVerifyCommand BY <1>2, <2>6 DEF Session, SVerifyCommand
  <2>7. CASE Accept         BY <1>2, <2>7 DEF Session, Accept, Idle
  <2>8. ASSUME NEW p \in Captures, SLoadReceipt(p) PROVE SessionLooks'
    BY <1>2, <2>8 DEF Session, SLoadReceipt
  <2>. HIDE DEF SessionLooks
  <2>. QED BY <1>2, <2>1, <2>2, <2>3, <2>4, <2>5, <2>6, <2>7, <2>8 DEF Session
<1>3. CASE OutsideSession
  BY <1>3 DEF OutsideSession
<1>4. CASE Preparation
  BY <1>4 DEF Preparation, CaptureStep, Begin, LookFails, ReadHead, ReadStatus, ReadFlags, ReadTool,
              Prepare, Verify, Inventory, Link, Compare, Sync, Load, Rollback, Interrupt, World, session
<1>5. CASE Analysis \/ Verification \/ Tamper
  BY <1>5 DEF Analysis, Verification, Tamper, receiptVars, session
<1>. HIDE DEF SessionLooks
<1>. QED BY <1>1, <1>2, <1>3, <1>4, <1>5 DEF Next, vars, receiptVars

-----------------------------------------------------------------------------
\* Three indices make three sessions, and the processes are told apart by Distinct.
LEMMA BuiltCoherent ==
  ASSUME NEW load \in Loads, Build(load), UNCHANGED <<docs, receiptVars>>
  PROVE  BundleCoherent'
<1>1. PICK label \in Labels :
        /\ Sorted(load, label) /\ Distinct(load, label)
        /\ basis' = [receipt |-> verified, sessions |-> load, pids |-> label[2]]
  BY DEF Build
<1>2. \A i, j \in 1 .. 3 :
        i # j => load[i] # load[j] /\ label[2][load[i]] # label[2][load[j]]
  BY <1>1 DEF Sorted, Distinct
<1>3. \A i \in 1 .. 3 :
        docs[load[i]].receipt = verified /\ docs[load[i]].revision = receipt[verified].revision
  BY DEF Build, Binds
<1>4. docs' = docs /\ receipt' = receipt
  BY DEF receiptVars
<1>. QED BY <1>1, <1>2, <1>3, <1>4 DEF BundleCoherent

LEMMA SealedPart ==
  ASSUME Sealed, [Next]_vars
  PROVE  Sealed'
<1>1. CASE \E load \in Loads : Build(load) /\ UNCHANGED <<docs, receiptVars>>
  <2>1. BundleCoherent'
    BY <1>1, BuiltCoherent
  <2>2. ~Collecting'
    BY <1>1 DEF Build, Collecting
  <2>. QED BY <2>1, <2>2 DEF Sealed
<1>2. CASE Collecting /\ basis' = basis
  BY <1>2 DEF Sealed, BundleCoherent
<1>3. CASE UNCHANGED <<docs, receipt, basis>> /\ (~Collecting => ~Collecting')
  BY <1>3 DEF Sealed, BundleCoherent
<1>4. CASE Verification \/ Tamper \/ UNCHANGED vars
  BY <1>3, <1>4
  DEF Verification, OpenBundle, ReadMember, FinishVerification, Tamper, receiptVars, analysis, vars,
      Collecting
<1>5. CASE Session \/ OutsideSession \/ Preparation
  BY <1>2, <1>5 DEF Session, OutsideSession, Preparation, analysis
<1>6. CASE Analysis
  BY <1>1, <1>2, <1>6
  DEF Analysis, AnalysisFails, VerifyReceipt, LoadAgain, Collecting
<1>. QED BY <1>4, <1>5, <1>6 DEF Next

-----------------------------------------------------------------------------
\* Whoever replaces a member after the first reading changes the identity of the
\* directory, or rewrites in place.
LEMMA ReadingPart ==
  ASSUME Reading, [Next]_vars
  PROVE  Reading'
<1>. DEFINE V == {"this", "other", "junk", "none"}
<1>1. CASE ReadMember /\ UNCHANGED <<bundle, version, rewritten>>
  <2>. DEFINE m == Order[Len(got) + 1]
  <2>1. got \in Seq(V) /\ Len(got) \in Nat /\ Len(got) < 2 /\ aPlace = "read"
    BY <1>1 DEF Reading, ReadMember, Order
  <2>2. m \in Members /\ bundle[m] \in V
    BY <2>1 DEF Reading, Order, Members
  <2>3. got' \in Seq(V) /\ Len(got') = Len(got) + 1 /\ got'[Len(got) + 1] = bundle[m]
        /\ \A i \in 1 .. Len(got) : got'[i] = got[i]
    BY <1>1, <2>1, <2>2 DEF ReadMember
  <2>4. ASSUME version = opened, ~rewritten, NEW i \in 1 .. Len(got')
        PROVE  got'[i] = bundle[Order[i]]
    <3>1. CASE i \in 1 .. Len(got)
      BY <2>1, <2>3, <2>4, <3>1 DEF Reading
    <3>2. CASE i = Len(got) + 1
      BY <2>3, <3>2
    <3>. QED BY <2>1, <2>3, <3>1, <3>2
  <2>. QED BY <1>1, <2>1, <2>3, <2>4 DEF Reading, ReadMember, Order
<1>2. CASE Tamper
  <2>1. \A v \in {"this", "other", "junk"}, m \in Members :
         [bundle EXCEPT ![m] = v] \in [Members -> V]
    BY DEF Reading
  <2>2. bundle' \in [Members -> V]
    BY <1>2, <2>1 DEF Tamper
  <2>3. (version' \in Nat /\ version' # opened) \/ rewritten' \/ aPlace # "read"
    BY <1>2 DEF Tamper, Reading
  <2>. QED BY <1>2, <2>2, <2>3 DEF Tamper, Reading, analysis
<1>3. CASE \E load \in Loads : Build(load) /\ UNCHANGED <<got, opened, rewritten>>
  BY <1>3 DEF Build, Reading
<1>4. CASE OpenBundle /\ UNCHANGED <<bundle, version, rewritten>>
  BY <1>4 DEF OpenBundle, Reading
<1>5. CASE FinishVerification /\ UNCHANGED <<bundle, version, rewritten>>
  BY <1>5 DEF FinishVerification, Reading
<1>6. CASE /\ UNCHANGED result
           /\ aPlace' = aPlace \/ {aPlace, aPlace'} \subseteq {"idle", "again", "sessions"}
  BY <1>6 DEF result, Reading
<1>7. CASE Analysis
  BY <1>3, <1>6, <1>7 DEF Analysis, AnalysisFails, VerifyReceipt, LoadAgain, result
<1>8. CASE Session \/ OutsideSession \/ Preparation \/ UNCHANGED vars
  <2>1. UNCHANGED <<analysis, result>>
    BY <1>8 DEF vars, Session, OutsideSession, Preparation
  <2>2. aPlace' = aPlace
    BY <2>1 DEF analysis
  <2>. HIDE DEF Reading
  <2>. QED BY <1>6, <2>1, <2>2
<1>9. CASE Verification
  BY <1>1, <1>4, <1>5, <1>9 DEF Verification
<1>. QED BY <1>2, <1>7, <1>8, <1>9 DEF Next

LEMMA CampaignInvNext == CampaignInv /\ [Next]_vars => CampaignInv'
  BY ReceiptPart, SessionPart, SealedPart, ReadingPart DEF CampaignInv

-----------------------------------------------------------------------------
\* Failed captures leave nothing, whatever sessions and analyses do meanwhile.
THEOREM CampaignFailuresLeaveNothing == Spec => []FailureLeavesNothing
<1>. QED BY CampaignInvInit, CampaignInvNext, PTL DEF Spec, CampaignInv, ReceiptInv

\* Receipts of a campaign are true.
THEOREM CampaignReceiptsAreTrue == Spec => ReceiptIsTrue
<1>1. CampaignInv /\ [Next]_vars =>
        [\A p \in Captures :
           Succeeds(p) => /\ ran = {receipt[p].identity}
                          /\ moves <= 3 => receipt[p].revision \in stood]_receiptVars
  <2>. SUFFICES ASSUME CampaignInv, [Next]_vars, NEW p \in Captures, Succeeds(p)
                PROVE  /\ ran = {receipt[p].identity}
                       /\ moves <= 3 => receipt[p].revision \in stood
    OBVIOUS
  <2>1. outcome' # outcome
    BY DEF Succeeds
  <2>2. ReceiptNext
    BY <2>1 DEF Next, vars, receiptVars, Preparation, Session, Analysis, Verification, OutsideSession,
                Tamper, ReceiptNext
  <2>. QED BY <2>2, SuccessIsTrue DEF CampaignInv
<1>. QED BY <1>1, CampaignInvInit, CampaignInvNext, PTL DEF Spec, ReceiptIsTrue

\* A session about to be accepted ran on a revision that stood clean, if the checkout
\* was changed once at most.
THEOREM SessionsStandClean == Spec => []SessionStoodClean
<1>1. CampaignInv => SessionStoodClean
  BY DEF CampaignInv, SessionLooks, SessionStoodClean
<1>. QED BY <1>1, CampaignInvInit, CampaignInvNext, PTL DEF Spec

\* A bundle is about three sessions in three processes, with one receipt and on its
\* revision, however many sessions and receipts the operator had to choose from.
THEOREM BundlesAreCoherent == Spec => []BundleCoherent
<1>. QED BY CampaignInvInit, CampaignInvNext, PTL DEF Spec, CampaignInv, Sealed

\* A verified bundle was there as it was read, all members at once, unless one was
\* rewritten in place.
THEOREM VerifiedBundlesStand == Spec => VerifiedAsItStands
<1>1. CampaignInv /\ [Next]_vars =>
        [aPlace' = "verified" =>
           rewritten \/ \A i \in 1 .. Len(Order) : got[i] = bundle[Order[i]]]_vars
  <2>. SUFFICES ASSUME CampaignInv, Next, aPlace' = "verified"
                PROVE  rewritten \/ \A i \in 1 .. Len(Order) : got[i] = bundle[Order[i]]
    OBVIOUS
  <2>1. FinishVerification
    BY DEF Next, Preparation, Session, Analysis, AnalysisFails, VerifyReceipt, LoadAgain, Build,
           Verification, OpenBundle, ReadMember, OutsideSession, Tamper, analysis, Collecting
  <2>. QED BY <2>1 DEF FinishVerification, SameDirectory, CampaignInv, Reading
<1>. QED BY <1>1, CampaignInvInit, CampaignInvNext, PTL DEF Spec, VerifiedAsItStands
=============================================================================
