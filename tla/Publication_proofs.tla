------------------------- MODULE Publication_proofs -------------------------
(***************************************************************************)
(* Proofs about Publication for every number of publishers and pieces and  *)
(* any number of steps of other programs, and in the last part about       *)
(* G3Session, which makes the documents, for any layers, repetitions and   *)
(* tokens and any calls of other code.                                     *)
(***************************************************************************)
EXTENDS Publication, G3Session, FiniteSetTheorems, SequenceTheorems,
  WellFoundedInduction, TLAPS

\* What a publisher's place tells of the names and of its object: what is under
\* the final name was put there by its publisher, which has its temporary name
\* given up before it ends and its final name before it ends cleanly.
Owned ==
  \A p \in Publishers :
    /\ pc[p] \in {"start", "write", "sync", "place"} => p \notin placed
    /\ p \in disk \cup {target} => p \in placed
    /\ pc[p] = "place" => p \in durable
    /\ kind = "bundle" /\ p \in durable => pieces[p] = Pieces
    /\ pc[p] = "start" => p \notin temp
    /\ kind = "bundle" /\ p \in placed => p \notin temp
    /\ pc[p] \in {"syncWithdrawal", "syncRemoval"} => target # p
    /\ pc[p] = "syncRemoval" => p \notin temp
    /\ pc[p] = "cleanup" /\ p \notin unclean => p \notin disk \cup {target}

\* While nobody interferes, a publisher between its link or rename and its end
\* has the name to itself, and from its first synchronization on also on disk.
Holds ==
  outside = 0 =>
    \A p \in Publishers :
      /\ pc[p] \in {"identify", "syncName", "unlinkTemp", "syncAgain", "confirm", "ok",
                    "rollback", "withdraw"} => target = p
      /\ pc[p] \in {"unlinkTemp", "syncAgain", "confirm", "ok"} => disk = {p}

Inductive == TypeOK /\ NothingTorn /\ Owned /\ FailureWithdraws /\ Holds

\* No step takes a variable out of its type.
LEMMA TypeStep ==
  ASSUME TypeOK, [Next]_vars
  PROVE  TypeOK'
<1> USE PublicationAssumption DEF name, object, local, At, Goto, Objects, TypeOK
<1>1. ASSUME NEW p \in Publishers, PublishDocument(p)
      PROVE  TypeOK'
  <2>1. CASE CreateFile(p)      BY <2>1 DEF CreateFile
  <2>2. CASE WriteFile(p)       BY <2>2 DEF WriteFile
  <2>3. CASE SyncFile(p)        BY <2>3 DEF SyncFile, Fail
  <2>4. CASE Link(p)            BY <2>4 DEF Link, Fail, Enter
  <2>5. CASE Identify(p)        BY <2>5 DEF Identify, Fail
  <2>6. CASE SyncLink(p)        BY <2>6 DEF SyncLink, Fail, SyncName
  <2>7. CASE UnlinkTemp(p)      BY <2>7 DEF UnlinkTemp, Fail
  <2>8. CASE SyncAgain(p)       BY <2>8 DEF SyncAgain, Fail, SyncName
  <2>9. CASE Rollback(p)        BY <2>9 DEF Rollback, GiveUp
  <2>10. CASE Withdraw(p)       BY <2>10 DEF Withdraw, GiveUp, Enter
  <2>11. CASE SyncWithdrawal(p) BY <2>11 DEF SyncWithdrawal, GiveUp, SyncName
  <2>12. CASE Cleanup(p)        BY <2>12 DEF Cleanup, GiveUp, SyncName
  <2> HIDE DEF name, object, local, At, Goto, Objects, TypeOK
  <2> QED  BY <1>1, <2>1, <2>2, <2>3, <2>4, <2>5, <2>6, <2>7, <2>8, <2>9, <2>10, <2>11,
         <2>12 DEF PublishDocument
<1>2. ASSUME NEW p \in Publishers, PublishBundle(p)
      PROVE  TypeOK'
  <2>1. CASE Stage(p)           BY <2>1 DEF Stage
  <2>2. CASE WriteMember(p)     BY <2>2 DEF WriteMember, Fail
  <2>3. CASE Install(p)         BY <2>3 DEF Install, Fail, Enter
  <2>4. CASE Recognize(p)       BY <2>4 DEF Recognize, Fail
  <2>5. CASE SyncParent(p)      BY <2>5 DEF SyncParent, Fail, SyncName
  <2>6. CASE Confirm(p)         BY <2>6 DEF Confirm, Fail
  <2>7. CASE Check(p)           BY <2>7 DEF Check, GiveUp
  <2>8. CASE RemoveMember(p)    BY <2>8 DEF RemoveMember, GiveUp
  <2>9. CASE RemoveDirectory(p) BY <2>9 DEF RemoveDirectory, GiveUp, Enter, EmptyDirectories
  <2>10. CASE SyncRemoval(p)    BY <2>10 DEF SyncRemoval, GiveUp, SyncName
  <2> HIDE DEF name, object, local, At, Goto, Objects, TypeOK
  <2> QED  BY <1>2, <2>1, <2>2, <2>3, <2>4, <2>5, <2>6, <2>7, <2>8, <2>9, <2>10
      DEF PublishBundle
<1>3. CASE Outside           BY <1>3 DEF Outside, Enter
<1>4. CASE UNCHANGED vars    BY <1>4 DEF vars
<1> HIDE DEF name, object, local, At, Goto, Objects, TypeOK
<1> QED  BY <1>1, <1>2, <1>3, <1>4 DEF Next

\* Places, names and contents go together.
LEMMA OwnedStep ==
  ASSUME TypeOK, Owned, [Next]_vars
  PROVE  Owned'
<1> USE PublicationAssumption DEF name, object, local, At, Goto, Objects, TypeOK, Owned
<1>1. ASSUME NEW p \in Publishers, PublishDocument(p)
      PROVE  Owned'
  <2>1. CASE CreateFile(p)      BY <2>1 DEF CreateFile
  <2>2. CASE WriteFile(p)       BY <2>2 DEF WriteFile
  <2>3. CASE SyncFile(p)        BY <2>3 DEF SyncFile, Fail
  <2>4. CASE Link(p)            BY <2>4 DEF Link, Fail, Enter
  <2>5. CASE Identify(p)        BY <2>5 DEF Identify, Fail
  <2>6. CASE SyncLink(p)        BY <2>6 DEF SyncLink, Fail, SyncName
  <2>7. CASE UnlinkTemp(p)      BY <2>7 DEF UnlinkTemp, Fail
  <2>8. CASE SyncAgain(p)       BY <2>8 DEF SyncAgain, Fail, SyncName
  <2>9. CASE Rollback(p)        BY <2>9 DEF Rollback, GiveUp
  <2>10. CASE Withdraw(p)       BY <2>10 DEF Withdraw, GiveUp, Enter
  <2>11. CASE SyncWithdrawal(p) BY <2>11 DEF SyncWithdrawal, GiveUp, SyncName
  <2>12. CASE Cleanup(p)        BY <2>12 DEF Cleanup, GiveUp, SyncName
  <2> HIDE DEF name, object, local, At, Goto, Objects, TypeOK, Owned
  <2> QED  BY <1>1, <2>1, <2>2, <2>3, <2>4, <2>5, <2>6, <2>7, <2>8, <2>9, <2>10, <2>11,
         <2>12 DEF PublishDocument
<1>2. ASSUME NEW p \in Publishers, PublishBundle(p)
      PROVE  Owned'
  <2>1. CASE Stage(p)           BY <2>1 DEF Stage
  <2>2. CASE WriteMember(p)     BY <2>2 DEF WriteMember, Fail
  <2>3. CASE Install(p)         BY <2>3 DEF Install, Fail, Enter
  <2>4. CASE Recognize(p)       BY <2>4 DEF Recognize, Fail
  <2>5. CASE SyncParent(p)      BY <2>5 DEF SyncParent, Fail, SyncName
  <2>6. CASE Confirm(p)         BY <2>6 DEF Confirm, Fail
  <2>7. CASE Check(p)           BY <2>7 DEF Check, GiveUp
  <2>8. CASE RemoveMember(p)    BY <2>8 DEF RemoveMember, GiveUp
  <2>9. CASE RemoveDirectory(p) BY <2>9 DEF RemoveDirectory, GiveUp, Enter, EmptyDirectories
  <2>10. CASE SyncRemoval(p)    BY <2>10 DEF SyncRemoval, GiveUp, SyncName
  <2> HIDE DEF name, object, local, At, Goto, Objects, TypeOK, Owned
  <2> QED  BY <1>2, <2>1, <2>2, <2>3, <2>4, <2>5, <2>6, <2>7, <2>8, <2>9, <2>10
      DEF PublishBundle
<1>3. CASE Outside           BY <1>3 DEF Outside, Enter
<1>4. CASE UNCHANGED vars    BY <1>4 DEF vars
<1> HIDE DEF name, object, local, At, Goto, Objects, TypeOK, Owned
<1> QED  BY <1>1, <1>2, <1>3, <1>4 DEF Next

\* What gets under the name is whole, and what is there is not damaged but by its own
\* publisher.
LEMMA TornStep ==
  ASSUME TypeOK, Owned, NothingTorn, [Next]_vars
  PROVE  NothingTorn'
<1> USE PublicationAssumption
    DEF name, object, local, At, Goto, Objects, TypeOK, Owned, NothingTorn, TakenDown
<1>1. ASSUME NEW p \in Publishers, PublishDocument(p)
      PROVE  NothingTorn'
  <2>1. CASE CreateFile(p)      BY <2>1 DEF CreateFile
  <2>2. CASE WriteFile(p)       BY <2>2 DEF WriteFile
  <2>3. CASE SyncFile(p)        BY <2>3 DEF SyncFile, Fail
  <2>4. CASE Link(p)            BY <2>4 DEF Link, Fail, Enter
  <2>5. CASE Identify(p)        BY <2>5 DEF Identify, Fail
  <2>6. CASE SyncLink(p)        BY <2>6 DEF SyncLink, Fail, SyncName
  <2>7. CASE UnlinkTemp(p)      BY <2>7 DEF UnlinkTemp, Fail
  <2>8. CASE SyncAgain(p)       BY <2>8 DEF SyncAgain, Fail, SyncName
  <2>9. CASE Rollback(p)        BY <2>9 DEF Rollback, GiveUp
  <2>10. CASE Withdraw(p)       BY <2>10 DEF Withdraw, GiveUp, Enter
  <2>11. CASE SyncWithdrawal(p) BY <2>11 DEF SyncWithdrawal, GiveUp, SyncName
  <2>12. CASE Cleanup(p)        BY <2>12 DEF Cleanup, GiveUp, SyncName
  <2> HIDE DEF name, object, local, At, Goto, Objects, TypeOK, Owned, NothingTorn, TakenDown
  <2> QED  BY <1>1, <2>1, <2>2, <2>3, <2>4, <2>5, <2>6, <2>7, <2>8, <2>9, <2>10, <2>11,
         <2>12 DEF PublishDocument
<1>2. ASSUME NEW p \in Publishers, PublishBundle(p)
      PROVE  NothingTorn'
  <2>1. CASE Stage(p)           BY <2>1 DEF Stage
  <2>2. CASE WriteMember(p)     BY <2>2 DEF WriteMember, Fail
  <2>3. CASE Install(p)         BY <2>3 DEF Install, Fail, Enter
  <2>4. CASE Recognize(p)       BY <2>4 DEF Recognize, Fail
  <2>5. CASE SyncParent(p)      BY <2>5 DEF SyncParent, Fail, SyncName
  <2>6. CASE Confirm(p)         BY <2>6 DEF Confirm, Fail
  <2>7. CASE Check(p)           BY <2>7 DEF Check, GiveUp
  <2>8. CASE RemoveMember(p)    BY <2>8 DEF RemoveMember, GiveUp
  <2>9. CASE RemoveDirectory(p) BY <2>9 DEF RemoveDirectory, GiveUp, Enter, EmptyDirectories
  <2>10. CASE SyncRemoval(p)    BY <2>10 DEF SyncRemoval, GiveUp, SyncName
  <2> HIDE DEF name, object, local, At, Goto, Objects, TypeOK, Owned, NothingTorn, TakenDown
  <2> QED  BY <1>2, <2>1, <2>2, <2>3, <2>4, <2>5, <2>6, <2>7, <2>8, <2>9, <2>10
      DEF PublishBundle
<1>3. CASE Outside           BY <1>3 DEF Outside, Enter
<1>4. CASE UNCHANGED vars    BY <1>4 DEF vars
<1> HIDE DEF name, object, local, At, Goto, Objects, TypeOK, Owned, NothingTorn, TakenDown
<1> QED  BY <1>1, <1>2, <1>3, <1>4 DEF Next

\* A publisher ends without a trace or with an obstacle, and nobody else leaves its traces.
LEMMA WithdrawnStep ==
  ASSUME TypeOK, Owned, FailureWithdraws, [Next]_vars
  PROVE  FailureWithdraws'
<1> USE PublicationAssumption
    DEF name, object, local, At, Goto, Objects, TypeOK, Owned, FailureWithdraws
<1>1. ASSUME NEW p \in Publishers, PublishDocument(p)
      PROVE  FailureWithdraws'
  <2>1. CASE CreateFile(p)      BY <2>1 DEF CreateFile
  <2>2. CASE WriteFile(p)       BY <2>2 DEF WriteFile
  <2>3. CASE SyncFile(p)        BY <2>3 DEF SyncFile, Fail
  <2>4. CASE Link(p)            BY <2>4 DEF Link, Fail, Enter
  <2>5. CASE Identify(p)        BY <2>5 DEF Identify, Fail
  <2>6. CASE SyncLink(p)        BY <2>6 DEF SyncLink, Fail, SyncName
  <2>7. CASE UnlinkTemp(p)      BY <2>7 DEF UnlinkTemp, Fail
  <2>8. CASE SyncAgain(p)       BY <2>8 DEF SyncAgain, Fail, SyncName
  <2>9. CASE Rollback(p)        BY <2>9 DEF Rollback, GiveUp
  <2>10. CASE Withdraw(p)       BY <2>10 DEF Withdraw, GiveUp, Enter
  <2>11. CASE SyncWithdrawal(p) BY <2>11 DEF SyncWithdrawal, GiveUp, SyncName
  <2>12. CASE Cleanup(p)        BY <2>12 DEF Cleanup, GiveUp, SyncName
  <2> HIDE DEF name, object, local, At, Goto, Objects, TypeOK, Owned, FailureWithdraws
  <2> QED  BY <1>1, <2>1, <2>2, <2>3, <2>4, <2>5, <2>6, <2>7, <2>8, <2>9, <2>10, <2>11,
         <2>12 DEF PublishDocument
<1>2. ASSUME NEW p \in Publishers, PublishBundle(p)
      PROVE  FailureWithdraws'
  <2>1. CASE Stage(p)           BY <2>1 DEF Stage
  <2>2. CASE WriteMember(p)     BY <2>2 DEF WriteMember, Fail
  <2>3. CASE Install(p)         BY <2>3 DEF Install, Fail, Enter
  <2>4. CASE Recognize(p)       BY <2>4 DEF Recognize, Fail
  <2>5. CASE SyncParent(p)      BY <2>5 DEF SyncParent, Fail, SyncName
  <2>6. CASE Confirm(p)         BY <2>6 DEF Confirm, Fail
  <2>7. CASE Check(p)           BY <2>7 DEF Check, GiveUp
  <2>8. CASE RemoveMember(p)    BY <2>8 DEF RemoveMember, GiveUp
  <2>9. CASE RemoveDirectory(p) BY <2>9 DEF RemoveDirectory, GiveUp, Enter, EmptyDirectories
  <2>10. CASE SyncRemoval(p)    BY <2>10 DEF SyncRemoval, GiveUp, SyncName
  <2> HIDE DEF name, object, local, At, Goto, Objects, TypeOK, Owned, FailureWithdraws
  <2> QED  BY <1>2, <2>1, <2>2, <2>3, <2>4, <2>5, <2>6, <2>7, <2>8, <2>9, <2>10
      DEF PublishBundle
<1>3. CASE Outside           BY <1>3 DEF Outside, Enter
<1>4. CASE UNCHANGED vars    BY <1>4 DEF vars
<1> HIDE DEF name, object, local, At, Goto, Objects, TypeOK, Owned, FailureWithdraws
<1> QED  BY <1>1, <1>2, <1>3, <1>4 DEF Next

\* Nobody takes the name from its holder.
LEMMA HoldsStep ==
  ASSUME TypeOK, NothingTorn, Owned, Holds, [Next]_vars
  PROVE  Holds'
<1> USE PublicationAssumption
    DEF name, object, local, At, Goto, Objects, TypeOK, Owned, Holds
<1>1. ASSUME NEW p \in Publishers, PublishDocument(p)
      PROVE  Holds'
  <2>1. CASE CreateFile(p)      BY <2>1 DEF CreateFile
  <2>2. CASE WriteFile(p)       BY <2>2 DEF WriteFile
  <2>3. CASE SyncFile(p)        BY <2>3 DEF SyncFile, Fail
  <2>4. CASE Link(p)            BY <2>4 DEF Link, Fail, Enter
  <2>5. CASE Identify(p)        BY <2>5 DEF Identify, Fail
  <2>6. CASE SyncLink(p)        BY <2>6 DEF SyncLink, Fail, SyncName
  <2>7. CASE UnlinkTemp(p)      BY <2>7 DEF UnlinkTemp, Fail
  <2>8. CASE SyncAgain(p)       BY <2>8 DEF SyncAgain, Fail, SyncName
  <2>9. CASE Rollback(p)        BY <2>9 DEF Rollback, GiveUp
  <2>10. CASE Withdraw(p)       BY <2>10 DEF Withdraw, GiveUp, Enter
  <2>11. CASE SyncWithdrawal(p) BY <2>11 DEF SyncWithdrawal, GiveUp, SyncName
  <2>12. CASE Cleanup(p)        BY <2>12 DEF Cleanup, GiveUp, SyncName
  <2> HIDE DEF name, object, local, At, Goto, Objects, TypeOK, Owned, Holds
  <2> QED  BY <1>1, <2>1, <2>2, <2>3, <2>4, <2>5, <2>6, <2>7, <2>8, <2>9, <2>10, <2>11,
         <2>12 DEF PublishDocument
<1>2. ASSUME NEW p \in Publishers, PublishBundle(p)
      PROVE  Holds'
  <2>1. CASE Stage(p)           BY <2>1 DEF Stage
  <2>2. CASE WriteMember(p)     BY <2>2 DEF WriteMember, Fail
  <2>3. CASE Install(p)         BY <2>3 DEF Install, Fail, Enter
  <2>4. CASE Recognize(p)       BY <2>4 DEF Recognize, Fail
  <2>5. CASE SyncParent(p)      BY <2>5 DEF SyncParent, Fail, SyncName
  <2>6. CASE Confirm(p)         BY <2>6 DEF Confirm, Fail
  <2>7. CASE Check(p)           BY <2>7 DEF Check, GiveUp
  <2>8. CASE RemoveMember(p)    BY <2>8 DEF RemoveMember, GiveUp
  <2>9. CASE RemoveDirectory(p)
    <3>1. \A q \in Publishers : target = q /\ pieces[q] = 0 => q \in TakenDown
      BY <2>9 DEF RemoveDirectory, NothingTorn, TakenDown
    <3>. QED BY <2>9, <3>1 DEF RemoveDirectory, GiveUp, Enter, EmptyDirectories, TakenDown
  <2>10. CASE SyncRemoval(p)    BY <2>10 DEF SyncRemoval, GiveUp, SyncName
  <2> HIDE DEF name, object, local, At, Goto, Objects, TypeOK, Owned, Holds
  <2> QED  BY <1>2, <2>1, <2>2, <2>3, <2>4, <2>5, <2>6, <2>7, <2>8, <2>9, <2>10
      DEF PublishBundle
<1>3. CASE Outside           BY <1>3 DEF Outside, Enter
<1>4. CASE UNCHANGED vars    BY <1>4 DEF vars
<1> HIDE DEF name, object, local, At, Goto, Objects, TypeOK, Owned, Holds
<1> QED  BY <1>1, <1>2, <1>3, <1>4 DEF Next

\* The inductive invariant holds throughout.
THEOREM InductiveInvariant == Spec => []Inductive
<1>1. Init => Inductive
  BY PublicationAssumption
  DEF Init, Inductive, TypeOK, NothingTorn, TakenDown, Owned, FailureWithdraws, Holds, Objects
<1>2. Inductive /\ [Next]_vars => Inductive'
  BY TypeStep, OwnedStep, TornStep, WithdrawnStep, HoldsStep DEF Inductive
<1> QED  BY <1>1, <1>2, PTL DEF Spec

\* Every variable keeps its type.
THEOREM TypeCorrect == Spec => []TypeOK
BY InductiveInvariant, PTL DEF Inductive

\* Whatever fails and whenever the machine crashes, what is found under the final
\* name is whole, but for a bundle that its publisher takes down.
THEOREM Untorn == Spec => []NothingTorn
BY InductiveInvariant, PTL DEF Inductive

\* What was reported as published is on disk, under the final name.
THEOREM Durable == Spec => []OkIsDurable
<1>1. Holds => OkIsDurable
  BY DEF Holds, OkIsDurable
<1> QED  BY <1>1, InductiveInvariant, PTL DEF Inductive

\* What failed and could be taken back has left no trace.
THEOREM Withdrawn == Spec => []FailureWithdraws
BY InductiveInvariant, PTL DEF Inductive

\* Publishers of bundles touch nobody else's object, but for a directory with nothing
\* in it that takes the name between the last look at it and its removal.
THEOREM NobodyElseTouched == Spec => BundlesKeepOthers
<1> DEFINE Kept == kind = "bundle" => OthersUntouched
<1>1. Inductive /\ [Next]_vars => [Kept]_vars
  <2> SUFFICES ASSUME Inductive, [Next]_vars, kind = "bundle"
               PROVE  OthersUntouched
    OBVIOUS
  <2>0. TypeOK /\ (target \in EmptyDirectories => target \in TakenDown \cup {Vacant})
    BY PublicationAssumption
    DEF Inductive, TypeOK, Owned, NothingTorn, EmptyDirectories, TakenDown
  <2> USE <2>0
  <2> USE DEF name, object, local, At, Goto, TypeOK, OthersUntouched
  <2>1. ASSUME NEW p \in Publishers, PublishDocument(p)
        PROVE  FALSE
    BY <2>1 DEF PublishDocument, CreateFile, WriteFile, SyncFile, Link, Identify, SyncLink,
       UnlinkTemp, SyncAgain, Rollback, Withdraw, SyncWithdrawal, Cleanup
  <2>2. ASSUME NEW p \in Publishers, PublishBundle(p)
        PROVE  OthersUntouched
    <3>1. CASE Stage(p)           BY <3>1 DEF Stage
    <3>2. CASE WriteMember(p)     BY <3>2 DEF WriteMember, Fail
    <3>3. CASE Install(p)         BY <3>3 DEF Install, Fail, Enter
    <3>4. CASE Recognize(p)       BY <3>4 DEF Recognize, Fail
    <3>5. CASE SyncParent(p)      BY <3>5 DEF SyncParent, Fail, SyncName
    <3>6. CASE Confirm(p)         BY <3>6 DEF Confirm, Fail
    <3>7. CASE Check(p)           BY <3>7 DEF Check, GiveUp
    <3>8. CASE RemoveMember(p)    BY <3>8 DEF RemoveMember, GiveUp
    <3>9. CASE RemoveDirectory(p) BY <3>9 DEF RemoveDirectory, GiveUp, Enter
    <3>10. CASE SyncRemoval(p)    BY <3>10 DEF SyncRemoval, GiveUp, SyncName
    <3> HIDE DEF name, object, local, At, Goto, TypeOK, OthersUntouched
    <3> QED  BY <2>2, <3>1, <3>2, <3>3, <3>4, <3>5, <3>6, <3>7, <3>8, <3>9, <3>10
        DEF PublishBundle
  <2>3. CASE Outside           BY <2>3 DEF Outside
  <2>4. CASE UNCHANGED vars    BY <2>4 DEF vars
  <2> HIDE DEF name, object, local, At, Goto, TypeOK, OthersUntouched
  <2> QED  BY <2>1, <2>2, <2>3, <2>4 DEF Next
<1> QED  BY <1>1, InductiveInvariant, PTL DEF Spec, BundlesKeepOthers

-----------------------------------------------------------------------------
(* G3Session: a session holds what its place says, its records follow the   *)
(* protocol as they are made, and while nobody else calls a projection the  *)
(* counters go from the probes through all records to the last check.       *)

Stages == {"preflight", "receipt", "configure", "load", "install", "setup", "baseline", "begin",
  "snapshot", "generate", "reconcile", "validate", "validated", "close", "verdict", "accepted",
  "rejected"}

Counts == [forward : Nat, native : Nat, fallback : Nat]
Readings == [Layers -> Counts]
Keys == [phase : {"warmup", "measured"}, repetition : Nat, path : Modes]
Records == [key : Keys, tokens : Nat \ {0}, before : Readings, after : Readings]

\* Where the last record left the counters.
LeftAt == IF runs = <<>> THEN Probed ELSE runs[Len(runs)].after

SessionTypes ==
  /\ stage \in Stages
  /\ inputs \in {"none", "open", "closed"} /\ installation \in {"none", "live", "closed"}
  /\ mode \in Modes
  /\ counters \in Readings /\ before \in Readings
  /\ runs \in Seq(Records) /\ Len(runs) <= Generations
  /\ validation \in [before : Readings, after : Readings]
  /\ tokens \in Nat \ {0} /\ strays \in Nat

\* What has to be given back at each place.
Held ==
  /\ stage = "preflight" => inputs = "none"
  /\ stage \in {"receipt", "configure", "load"} => inputs = "open"
  /\ stage \notin {"preflight", "receipt", "configure", "load", "rejected"} => inputs = "closed"
  /\ stage \in {"preflight", "receipt", "configure", "load", "install"} => installation = "none"
  /\ stage \in {"verdict", "accepted"} => installation = "closed"
  /\ ~Ended => failedAt = {}
  /\ Released

\* The records so far are those the protocol asks for.
RecordAt(k) ==
  /\ runs[k].key = OrderedRunKeys[k]
  /\ ValidRunCounters(runs[k])
  /\ k > 1 => runs[k].before = runs[k - 1].after
  /\ \A h \in 1 .. k - 1 :
       runs[h].key.phase = runs[k].key.phase /\ runs[h].key.repetition = runs[k].key.repetition =>
         runs[h].tokens = runs[k].tokens

Recorded ==
  /\ \A k \in 1 .. Len(runs) : RecordAt(k)
  /\ stage \in {"preflight", "receipt", "configure", "load", "install", "setup", "baseline"} =>
       runs = <<>>
  /\ stage \in {"snapshot", "generate", "reconcile"} => Len(runs) < Generations
  /\ stage \in {"validate", "validated", "close", "verdict", "accepted"} => Len(runs) = Generations
  /\ stage \in {"generate", "reconcile"} /\ runs # <<>> => before = LeftAt

\* As long as the session is alone, every reading continues the one before.
Continuous ==
  strays = 0 =>
    /\ stage \in {"setup", "baseline", "begin", "snapshot", "validate"} => counters = LeftAt
    /\ stage \in {"generate", "reconcile", "validate", "validated"} => before = LeftAt
    /\ runs # <<>> => runs[1].before = Probed
    /\ stage \in {"close", "verdict"} => validation.before = LeftAt

\* The verdict rests on the checks of the validation and of the checker.
Judged ==
  /\ stage \in {"close", "verdict"} => Grew(validation.before, validation.after, Checks(runs))
  /\ stage = "accepted" => Accepts

SessionInv == SessionTypes /\ Held /\ Recorded /\ Continuous /\ Judged

\* Of the first numbers that fail a claim one is the least.
LEMMA LeastFailure ==
  ASSUME NEW N \in Nat, NEW A \in SUBSET (0 .. N), A # {}
  PROVE  \E m \in A : \A k \in A : m <= k
<1> DEFINE Bad == {0 .. m : m \in A}
<1>1. PICK S : S = 0 .. N
  OBVIOUS
<1>2. Bad # {} /\ Bad \subseteq FiniteSubsetsOf(S)
  <2>1. \A m \in 0 .. N : 0 .. m \subseteq S /\ IsFiniteSet(0 .. m)
    BY <1>1, FS_Interval
  <2>2. PICK m \in A : TRUE
    OBVIOUS
  <2>3. 0 .. m \in Bad
    OBVIOUS
  <2>. QED BY <2>1, <2>3 DEF FiniteSubsetsOf
<1>3. IsFiniteSet(S)
  BY <1>1, FS_Interval
<1>4. PICK U \in Bad : \A V \in Bad : ~(<<V, U>> \in StrictSubsetOrdering(S))
  <2> HIDE DEF Bad
  <2>. QED BY <1>2, <1>3, FS_StrictSubsetOrderingWellFounded, WFMin
<1>5. PICK m \in A : U = 0 .. m
  OBVIOUS
<1>6. ASSUME NEW k \in A, k < m
      PROVE  FALSE
  <2>1. 0 .. k \in Bad /\ 0 .. k \subseteq U /\ 0 .. k # U
    <3>1. m \in 0 .. m /\ m \notin 0 .. k /\ 0 .. k \subseteq 0 .. m
      BY <1>6
    <3>. QED BY <1>5, <3>1
  <2>2. U \subseteq S /\ 0 .. k \subseteq S
    BY <1>1, <1>5, <2>1
  <2>. QED BY <1>4, <2>1, <2>2 DEF StrictSubsetOrdering
<1>. QED BY <1>5, <1>6

\* What the counters of a layer say after each record, if nothing else was counted.
Tallied(f) ==
  f = [k \in 0 .. Len(runs) |->
         IF k = 0 THEN [forward |-> 1, native |-> 1, fallback |-> 0]
         ELSE Add(f[k - 1], Calls(runs[k].key.path, runs[k].tokens))]

LEMMA TalliedOnce ==
  ASSUME Len(runs) \in Nat, NEW f, NEW g, Tallied(f), Tallied(g)
  PROVE  \A k \in 0 .. Len(runs) : f[k] = g[k]
<1> DEFINE F(k) == IF k = 0 THEN [forward |-> 1, native |-> 1, fallback |-> 0]
                   ELSE Add(f[k - 1], Calls(runs[k].key.path, runs[k].tokens))
           G(k) == IF k = 0 THEN [forward |-> 1, native |-> 1, fallback |-> 0]
                   ELSE Add(g[k - 1], Calls(runs[k].key.path, runs[k].tokens))
           A == {k \in 0 .. Len(runs) : f[k] # g[k]}
<1>1. f = [k \in 0 .. Len(runs) |-> F(k)] /\ g = [k \in 0 .. Len(runs) |-> G(k)]
  BY DEF Tallied
<1>2. \A k \in 0 .. Len(runs) : f[k] = F(k) /\ g[k] = G(k)
  <2> HIDE DEF F, G
  <2>. QED BY <1>1
<1>3. SUFFICES ASSUME A # {} PROVE FALSE
  OBVIOUS
<1>4. PICK m \in A : \A k \in A : m <= k
  <2>1. A \in SUBSET (0 .. Len(runs))
    OBVIOUS
  <2> HIDE DEF A
  <2>. QED BY <1>3, <2>1, LeastFailure
<1>5. CASE m = 0
  BY <1>2, <1>5
<1>6. CASE m > 0
  <2>1. m - 1 \in 0 .. Len(runs) /\ m - 1 < m
    BY <1>6
  <2>2. f[m - 1] = g[m - 1]
    BY <1>4, <2>1
  <2>. QED BY <1>2, <1>6, <2>2
<1>. QED BY <1>5, <1>6

\* Whoever hands a session to the checker: what it accepts covers the model.
LEMMA AcceptanceCovers ==
  ASSUME Warmups \in Nat, Measured \in Nat \ {0}, Accepts, NEW l \in Layers
  PROVE  /\ \E f : Tallied(f)
         /\ \A f : Tallied(f) => validation.after[l] = Add(f[Len(runs)], Checks(runs))
<1>1. Len(runs) = Generations /\ Generations \in Nat \ {0}
  BY DEF Accepts, ValidRuns, Generations
<1>2. ASSUME NEW k \in 1 .. Len(runs)
      PROVE  /\ runs[k].after[l] = Add(runs[k].before[l], Calls(runs[k].key.path, runs[k].tokens))
             /\ k > 1 => runs[k].before = runs[k - 1].after
             /\ k = 1 => runs[1].before[l] = [forward |-> 1, native |-> 1, fallback |-> 0]
  BY DEF Accepts, ValidRuns, ValidRunCounters, Grew
<1> DEFINE G(k) == IF k = 0 THEN [forward |-> 1, native |-> 1, fallback |-> 0]
                   ELSE runs[k].after[l]
           g == [k \in 0 .. Len(runs) |-> G(k)]
<1>3. Tallied(g)
  <2>1. ASSUME NEW k \in 0 .. Len(runs)
        PROVE  G(k) = IF k = 0 THEN [forward |-> 1, native |-> 1, fallback |-> 0]
                      ELSE Add(g[k - 1], Calls(runs[k].key.path, runs[k].tokens))
    <3>1. CASE k = 0
      BY <3>1
    <3>2. CASE k > 0
      <4>1. k \in 1 .. Len(runs) /\ k - 1 \in 0 .. Len(runs)
        BY <1>1, <3>2
      <4>2. g[k - 1] = runs[k].before[l]
        BY <1>2, <3>2, <4>1
      <4>. QED BY <1>2, <3>2, <4>1, <4>2
    <3>. QED BY <1>1, <3>1, <3>2
  <2>2. g = [k \in 0 .. Len(runs) |->
               IF k = 0 THEN [forward |-> 1, native |-> 1, fallback |-> 0]
               ELSE Add(g[k - 1], Calls(runs[k].key.path, runs[k].tokens))]
    <3> HIDE DEF G
    <3>. QED BY <2>1
  <2>. QED BY <2>2 DEF Tallied
<1>4. ASSUME NEW f, Tallied(f)
      PROVE  f[Len(runs)] = runs[Len(runs)].after[l]
  <2>1. Len(runs) \in 0 .. Len(runs) /\ Len(runs) # 0
    BY <1>1
  <2>2. f[Len(runs)] = g[Len(runs)]
    <3> HIDE DEF g
    <3>. QED BY <1>1, <1>3, <1>4, <2>1, TalliedOnce
  <2>. QED BY <2>1, <2>2
<1>5. validation.before = runs[Len(runs)].after
      /\ validation.after[l] = Add(validation.before[l], Checks(runs))
  BY DEF Accepts, ValidReconciliation, Grew
<1>6. \E f : Tallied(f)
  BY <1>3
<1>. QED BY <1>4, <1>5, <1>6

LEMMA CallsAreCounts ==
  ASSUME NEW path, NEW n \in Nat \ {0}
  PROVE  Calls(path, n) \in Counts
BY DEF Calls, Counts

LEMMA AddAreCounts ==
  ASSUME NEW c \in Counts, NEW d \in Counts
  PROVE  /\ Add(c, d) \in Counts
         /\ \A f \in {"forward", "native", "fallback"} : Add(c, d)[f] = c[f] + d[f]
BY DEF Add, Counts

LEMMA ProbedIsReading == Probed \in Readings
BY DEF Probed, Readings, Counts

\* The decoded tokens of the hybrid path, added up to the m-th record.
Decoded(rs, i) == IF rs[i].key.path = "hybrid_native" THEN rs[i].tokens - 1 ELSE 0
Summed(rs, m, f) == f = [i \in 0 .. m |-> IF i = 0 THEN 0 ELSE f[i - 1] + Decoded(rs, i)]

LEMMA SummedIsNat ==
  ASSUME NEW rs, NEW N \in Nat, \A i \in 1 .. N : Decoded(rs, i) \in Nat,
         NEW f, Summed(rs, N, f)
  PROVE  f[N] \in Nat
<1> DEFINE F(i) == IF i = 0 THEN 0 ELSE f[i - 1] + Decoded(rs, i)
           A == {i \in 0 .. N : f[i] \notin Nat}
<1>1. \A i \in 0 .. N : f[i] = F(i)
  <2>1. f = [i \in 0 .. N |-> F(i)]
    BY DEF Summed
  <2> HIDE DEF F
  <2>. QED BY <2>1
<1>2. SUFFICES ASSUME A # {} PROVE FALSE
  OBVIOUS
<1>3. PICK m \in A : \A k \in A : m <= k
  <2>1. A \in SUBSET (0 .. N)
    OBVIOUS
  <2> HIDE DEF A
  <2>. QED BY <1>2, <2>1, LeastFailure
<1>4. CASE m = 0
  BY <1>1, <1>4
<1>5. CASE m > 0
  <2>1. m - 1 \in 0 .. N /\ m \in 1 .. N /\ m - 1 < m
    BY <1>5
  <2>2. f[m - 1] \in Nat
    BY <1>3, <2>1
  <2>3. f[m] = f[m - 1] + Decoded(rs, m)
    BY <1>1, <1>5
  <2>. QED BY <2>1, <2>2, <2>3
<1>. QED BY <1>4, <1>5

LEMMA SummedExists ==
  ASSUME NEW rs, NEW N \in Nat
  PROVE  \E f : Summed(rs, N, f)
<1> DEFINE A == {m \in 0 .. N : ~ \E f : Summed(rs, m, f)}
<1>1. SUFFICES ASSUME A # {} PROVE FALSE
  OBVIOUS
<1>2. PICK m \in A : \A k \in A : m <= k
  <2>1. A \in SUBSET (0 .. N)
    OBVIOUS
  <2> HIDE DEF A
  <2>. QED BY <1>1, <2>1, LeastFailure
<1>3. ~ \E f : Summed(rs, m, f)
  OBVIOUS
<1>4. CASE m = 0
  <2> DEFINE f == [i \in 0 .. m |-> 0]
  <2>1. f = [i \in 0 .. m |-> IF i = 0 THEN 0 ELSE f[i - 1] + Decoded(rs, i)]
    BY <1>4
  <2>. QED BY <1>3, <2>1 DEF Summed
<1>5. CASE m > 0
  <2>1. PICK f : Summed(rs, m - 1, f)
    <3>1. m - 1 \in 0 .. N /\ m - 1 < m
      BY <1>5
    <3>. QED BY <1>2, <3>1
  <2> DEFINE F(i) == IF i = 0 THEN 0 ELSE f[i - 1] + Decoded(rs, i)
             g == [i \in 0 .. m |-> F(i)]
  <2>2. \A i \in 0 .. m - 1 : f[i] = F(i)
    <3>1. f = [i \in 0 .. m - 1 |-> F(i)]
      BY <2>1 DEF Summed
    <3> HIDE DEF F
    <3>. QED BY <3>1
  <2>3. \A i \in 1 .. m : g[i - 1] = f[i - 1]
    <3>1. \A i \in 1 .. m : i - 1 \in 0 .. m /\ i - 1 \in 0 .. m - 1
      OBVIOUS
    <3> HIDE DEF F
    <3>. QED BY <2>2, <3>1
  <2>4. \A i \in 0 .. m : F(i) = IF i = 0 THEN 0 ELSE g[i - 1] + Decoded(rs, i)
    <3>1. \A i \in 0 .. m : i = 0 \/ i \in 1 .. m
      OBVIOUS
    <3> HIDE DEF g
    <3>. QED BY <2>3, <3>1
  <2>5. g = [i \in 0 .. m |-> IF i = 0 THEN 0 ELSE g[i - 1] + Decoded(rs, i)]
    <3> HIDE DEF F
    <3>. QED BY <2>4
  <2>. QED BY <1>3, <2>5 DEF Summed
<1>. QED BY <1>2, <1>4, <1>5

LEMMA ChecksAreCounts ==
  ASSUME NEW rs \in Seq(Records)
  PROVE  Checks(rs) \in Counts
<1>1. PICK N \in Nat : N = Len(rs)
  OBVIOUS
<1>2. \A i \in 1 .. N : Decoded(rs, i) \in Nat
  <2>1. \A i \in 1 .. N : rs[i] \in Records
    BY <1>1
  <2>. QED BY <2>1 DEF Decoded, Records
<1> DEFINE n == CHOOSE f : Summed(rs, N, f)
<1>3. Summed(rs, N, n)
  BY SummedExists
<1>4. n[N] \in Nat
  <2> HIDE DEF n
  <2>. QED BY <1>2, <1>3, SummedIsNat
<1>5. Checks(rs) = [forward |-> n[N], native |-> 0, fallback |-> n[N]]
  BY <1>1 DEF Checks, Summed, Decoded
<1>. QED BY <1>4, <1>5 DEF Counts

\* What the runner calls next is what the checker expects there.
LEMMA NextKeyIsExpected ==
  ASSUME Warmups \in Nat, Measured \in Nat \ {0}, NEW k \in 1 .. Generations, k = Len(runs) + 1
  PROVE  NextKey = OrderedRunKeys[k] /\ NextKey \in Keys
<1>1. RepetitionOf(k) \in Nat
  BY DEF RepetitionOf, Generations
<1>2. PhaseOf(k) \in {"warmup", "measured"}
  BY DEF PhaseOf
<1>3. PICK r \in Nat : r = RepetitionOf(k)
  BY <1>1
<1>4. 2 - (k % 2) \in {1, 2}
  BY DEF Generations
<1>5. PICK m \in {1, 2} : m = 2 - (k % 2)
  BY <1>4
<1>6. PathOrder(r) = IF r % 2 = 0 THEN Paths ELSE <<Paths[2], Paths[1]>>
  BY DEF PathOrder, Paths
<1>7. PathOrder(r)[m] \in Modes
  BY DEF PathOrder, Paths, Modes
<1>8. NextKey = [phase |-> PhaseOf(k), repetition |-> r, path |-> PathOrder(r)[m]]
  BY <1>3, <1>5 DEF NextKey
<1>9. OrderedRunKeys[k] = [phase |-> PhaseOf(k), repetition |-> r, path |-> PathOrder(r)[m]]
  BY <1>3, <1>5, <1>6 DEF OrderedRunKeys
<1>. QED BY <1>2, <1>7, <1>8, <1>9 DEF Keys

\* Two generations of one repetition are neighbours.
LEMMA PairsAreNeighbours ==
  ASSUME Warmups \in Nat, NEW k \in Nat, NEW h \in 1 .. k - 1,
         PhaseOf(h) = PhaseOf(k), RepetitionOf(h) = RepetitionOf(k)
  PROVE  h = k - 1 /\ (k - 1) % 2 = 1
<1>1. PICK a \in Nat, b \in Nat : a = (h - 1) \div 2 /\ b = (k - 1) \div 2
  OBVIOUS
<1>2. a < Warmups <=> b < Warmups
  BY <1>1 DEF PhaseOf
<1>3. a = b
  BY <1>1, <1>2 DEF RepetitionOf
<1>. QED BY <1>1, <1>3

\* Every step keeps the types.
LEMMA SessionTypesStep ==
  ASSUME SessionTypes, Recorded,
         [SessionNext]_sessionVars
  PROVE  SessionTypes'
<1> USE SessionAssumption
    DEF Raise, RaiseClosingInputs, RaiseClosingInstallation, Proceed, evidence, adapters,
        SessionTypes, Stages
<1>a. Len(runs) \in Nat /\ Generations \in Nat \ {0} /\ Probed \in Readings
  BY ProbedIsReading DEF Generations
<1>1. CASE Preflight
  BY <1>1, <1>a DEF Preflight
<1>2. CASE CheckReceipt
  BY <1>2, <1>a DEF CheckReceipt
<1>3. CASE Configure
  BY <1>3, <1>a DEF Configure
<1>4. CASE Load
  BY <1>4, <1>a DEF Load
<1>5. CASE InstallAdapters
  <2>1. counters' \in Readings
    BY <1>5, <1>a DEF InstallAdapters, Probed
  <2>. QED BY <1>5, <2>1 DEF InstallAdapters
<1>20. CASE Overlooked
  BY <1>20, <1>a DEF Overlooked
<1>6. CASE CheckSetup
  BY <1>6, <1>a DEF CheckSetup
<1>7. CASE CheckBaseline
  BY <1>7, <1>a DEF CheckBaseline
<1>8. CASE SelectMode
  <2>1. mode' \in Modes
    <3>1. Len(runs) + 1 \in 1 .. Generations
      BY <1>8, <1>a DEF SelectMode
    <3>2. NextKey \in Keys
      BY <3>1, NextKeyIsExpected
    <3>3. NextKey.path \in Modes
      BY <3>2 DEF Keys
    <3>. QED BY <1>8, <3>3 DEF SelectMode
  <2>. QED BY <1>8, <2>1 DEF SelectMode
<1>9. CASE BeginGeneration
  BY <1>9, <1>a DEF BeginGeneration
<1>10. CASE GenerateFails
  BY <1>10, <1>a DEF GenerateFails
<1>11. CASE Reconcile
  <2> DEFINE run == [key |-> NextKey, tokens |-> tokens, before |-> before, after |-> counters]
  <2>1. run \in Records
    <3>1. Len(runs) + 1 \in 1 .. Generations
      BY <1>11, <1>a DEF Reconcile, Recorded
    <3>2. NextKey \in Keys
      BY <3>1, NextKeyIsExpected
    <3>. QED BY <3>2 DEF Records
  <2>2. Len(runs) < Generations
    BY <1>11 DEF Reconcile, Recorded
  <2> HIDE DEF run
  <2>3. Append(runs, run) \in Seq(Records) /\ Len(Append(runs, run)) <= Generations
    BY <1>a, <2>1, <2>2
  <2>4. (runs' = Append(runs, run) /\ stage' = "begin") \/ (runs' = runs /\ stage' = "rejected")
    BY <1>11 DEF Reconcile, run
  <2>5. UNCHANGED <<inputs, mode, counters, before, validation, tokens, strays>>
        /\ installation' \in {installation, "closed"}
    BY <1>11 DEF Reconcile
  <2>. QED BY <2>3, <2>4, <2>5
<1>12. CASE \E n \in 1 .. MaxTokens, missed \in SUBSET Layers : Generate(n, missed)
  <2>1. PICK n \in 1 .. MaxTokens, missed \in SUBSET Layers : Generate(n, missed)
    BY <1>12
  <2>2. ASSUME NEW l \in Layers
        PROVE  counters'[l] \in Counts
    <3> DEFINE sum == Add(counters[l], Calls(mode, n))
    <3>1. counters'[l] = IF l \in missed
                           THEN [sum EXCEPT !.native = @ - 1, !.fallback = @ + 1] ELSE sum
      BY <2>1 DEF Generate
    <3>2. Calls(mode, n) \in Counts /\ counters[l] \in Counts
      BY CallsAreCounts DEF Readings
    <3>3. sum \in Counts /\ sum.native = counters[l].native + Calls(mode, n).native
      BY <3>2, AddAreCounts
    <3>4. l \in missed => sum.native - 1 \in Nat
      <4>1. l \in missed => mode = "hybrid_native" /\ n > 1
        BY <2>1 DEF Generate
      <4>2. l \in missed => Calls(mode, n).native = n - 1
        BY <4>1 DEF Calls
      <4>3. counters[l].native \in Nat
        BY <3>2 DEF Counts
      <4>. QED BY <3>3, <4>1, <4>2, <4>3
    <3>5. ASSUME NEW s \in Counts, s.native - 1 \in Nat
          PROVE  [s EXCEPT !.native = @ - 1, !.fallback = @ + 1] \in Counts
      <4>1. PICK a \in Nat, b \in Nat : a = s.native - 1 /\ b = s.fallback + 1
        BY <3>5 DEF Counts
      <4>2. [s EXCEPT !.native = @ - 1, !.fallback = @ + 1]
              = [s EXCEPT !.native = a, !.fallback = b]
        BY <4>1
      <4>. QED BY <4>1, <4>2 DEF Counts
    <3> HIDE DEF sum
    <3>6. l \in missed => [sum EXCEPT !.native = @ - 1, !.fallback = @ + 1] \in Counts
      BY <3>3, <3>4, <3>5
    <3>. QED BY <3>1, <3>3, <3>6
  <2>3. counters' \in Readings
    BY <2>1, <2>2 DEF Generate, Readings
  <2>4. /\ stage' = "reconcile" /\ tokens' = n
        /\ UNCHANGED <<inputs, installation, mode, runs, before, validation, strays>>
    BY ONLY <2>1 DEF Generate, Proceed
  <2>5. tokens' \in Nat \ {0}
    BY <2>4
  <2>. QED BY <2>3, <2>4, <2>5
<1>13. CASE BeginValidation
  BY <1>13, <1>a DEF BeginValidation
<1>14. CASE Validate
  <2>1. \A l \in Layers : Add(counters[l], Checks(runs)) \in Counts
    BY ChecksAreCounts, AddAreCounts DEF Readings
  <2>2. counters' \in Readings
    BY <1>14, <2>1 DEF Validate, Readings
  <2>. QED BY <1>14, <2>2 DEF Validate
<1>15. CASE EndValidation
  BY <1>15, <1>a DEF EndValidation
<1>16. CASE Close
  BY <1>16, <1>a DEF Close
<1>17. CASE Verdict
  BY <1>17, <1>a DEF Verdict
<1>18. CASE \E l \in Layers, native \in BOOLEAN : Stray(l, native)
  <2>1. PICK l \in Layers, native \in BOOLEAN : Stray(l, native)
    BY <1>18
  <2>2. PICK d \in Counts : counters' = [counters EXCEPT ![l] = Add(@, d)]
    <3>1. [forward |-> 1, native |-> IF native THEN 1 ELSE 0,
           fallback |-> IF native THEN 0 ELSE 1] \in Counts
      BY DEF Counts
    <3>. QED BY <2>1, <3>1 DEF Stray
  <2>3. Add(counters[l], d) \in Counts
    BY AddAreCounts DEF Readings
  <2>4. counters' \in Readings
    BY <2>2, <2>3 DEF Readings
  <2>. QED BY <2>1, <2>4 DEF Stray
<1>19. CASE UNCHANGED sessionVars
  BY <1>19, <1>a DEF sessionVars
<1>. QED BY <1>1, <1>2, <1>3, <1>4, <1>5, <1>6, <1>7, <1>8, <1>9, <1>10,
     <1>11, <1>12, <1>13, <1>14, <1>15, <1>16, <1>17, <1>18, <1>19, <1>20
  DEF SessionNext, Session

\* Every step knows what there is to give back.
LEMMA HeldStep ==
  ASSUME SessionTypes, Held,
         [SessionNext]_sessionVars
  PROVE  Held'
<1> USE DEF Raise, RaiseClosingInputs, RaiseClosingInstallation, Proceed, evidence, adapters, Ended,
        SessionTypes, Stages, Held, Released
<1>1. CASE Preflight
  BY <1>1 DEF Preflight
<1>2. CASE CheckReceipt
  BY <1>2 DEF CheckReceipt
<1>3. CASE Configure
  BY <1>3 DEF Configure
<1>4. CASE Load
  BY <1>4 DEF Load
<1>5. CASE InstallAdapters
  BY <1>5 DEF InstallAdapters
<1>20. CASE Overlooked
  BY <1>20 DEF Overlooked
<1>6. CASE CheckSetup
  BY <1>6 DEF CheckSetup
<1>7. CASE CheckBaseline
  BY <1>7 DEF CheckBaseline
<1>8. CASE SelectMode
  BY <1>8 DEF SelectMode
<1>9. CASE BeginGeneration
  BY <1>9 DEF BeginGeneration
<1>10. CASE GenerateFails
  BY <1>10 DEF GenerateFails
<1>11. CASE Reconcile
  BY <1>11 DEF Reconcile
<1>12. CASE \E n \in 1 .. MaxTokens, missed \in SUBSET Layers : Generate(n, missed)
  BY <1>12 DEF Generate
<1>13. CASE BeginValidation
  BY <1>13 DEF BeginValidation
<1>14. CASE Validate
  BY <1>14 DEF Validate
<1>15. CASE EndValidation
  BY <1>15 DEF EndValidation
<1>16. CASE Close
  BY <1>16 DEF Close
<1>17. CASE Verdict
  BY <1>17 DEF Verdict
<1>18. CASE \E l \in Layers, native \in BOOLEAN : Stray(l, native)
  BY <1>18 DEF Stray
<1>19. CASE UNCHANGED sessionVars
  BY <1>19 DEF sessionVars
<1>. QED BY <1>1, <1>2, <1>3, <1>4, <1>5, <1>6, <1>7, <1>8, <1>9, <1>10,
     <1>11, <1>12, <1>13, <1>14, <1>15, <1>16, <1>17, <1>18, <1>19, <1>20
  DEF SessionNext, Session

\* The next record is one the protocol asks for.
LEMMA NewRecord ==
  ASSUME SessionTypes, Recorded, Reconcile, stage' = "begin"
  PROVE  LET run == [key |-> NextKey, tokens |-> tokens, before |-> before, after |-> counters] IN
         /\ runs' = Append(runs, run) /\ Len(runs') = Len(runs) + 1 /\ Len(runs) < Generations
         /\ \A k \in 1 .. Len(runs) : runs'[k] = runs[k]
         /\ runs'[Len(runs) + 1] = run
         /\ UNCHANGED <<counters, before, strays, validation>>
         /\ \A k \in 1 .. Len(runs') : RecordAt(k)'
<1> DEFINE run == [key |-> NextKey, tokens |-> tokens, before |-> before, after |-> counters]
<1> USE SessionAssumption
<1>1. PICK m \in Nat : m = Len(runs)
  BY DEF SessionTypes
<1>2. /\ stage = "reconcile" /\ runs' = Append(runs, run)
      /\ UNCHANGED <<counters, before, strays, validation>>
      /\ ReconcileRun(run) /\ (m % 2 = 1 => runs[m].tokens = tokens)
  BY <1>1 DEF Reconcile, ComparePair, RaiseClosingInstallation, Proceed, adapters
<1>3. m < Generations /\ Generations \in Nat
  BY <1>1, <1>2 DEF Recorded, Generations
<1>4. /\ Len(runs') = m + 1 /\ \A k \in 1 .. m : runs'[k] = runs[k]
      /\ runs'[m + 1] = run
  <2> HIDE DEF run
  <2>1. PICK S : runs \in Seq(S)
    BY DEF SessionTypes
  <2>2. runs \in Seq(S \cup {run}) /\ run \in S \cup {run}
    BY <2>1
  <2>. QED BY <1>1, <1>2, <2>2
<1>5. ASSUME NEW k \in 1 .. m
      PROVE  RecordAt(k)'
  <2>1. RecordAt(k)
    BY <1>1 DEF Recorded
  <2>2. \A h \in 1 .. k : runs'[h] = runs[h]
    BY <1>4
  <2>3. k > 1 => runs'[k - 1] = runs[k - 1]
    BY <2>2
  <2>. QED BY <2>1, <2>2, <2>3 DEF RecordAt
<1>6. NextKey = OrderedRunKeys[m + 1]
  BY <1>1, <1>3, NextKeyIsExpected
<1>7. m + 1 > 1 => before = runs[m].after
  BY <1>1, <1>2 DEF Recorded, LeftAt
<1>8. ASSUME NEW h \in 1 .. m,
             runs[h].key.phase = NextKey.phase, runs[h].key.repetition = NextKey.repetition
      PROVE  runs[h].tokens = tokens
  <2>1. runs[h].key = OrderedRunKeys[h]
    BY <1>1 DEF Recorded, RecordAt
  <2>2. \A k \in 1 .. Generations :
          OrderedRunKeys[k].phase = PhaseOf(k) /\ OrderedRunKeys[k].repetition = RepetitionOf(k)
    BY DEF OrderedRunKeys
  <2>3. h \in 1 .. Generations /\ m + 1 \in 1 .. Generations
    BY <1>3
  <2>4. PhaseOf(h) = PhaseOf(m + 1) /\ RepetitionOf(h) = RepetitionOf(m + 1)
    BY <1>6, <1>8, <2>1, <2>2, <2>3
  <2>5. h = m /\ m % 2 = 1
    <3>1. PICK k \in Nat : k = m + 1
      OBVIOUS
    <3>2. h \in 1 .. k - 1 /\ PhaseOf(h) = PhaseOf(k) /\ RepetitionOf(h) = RepetitionOf(k)
      BY <2>4, <3>1
    <3>3. h = k - 1 /\ (k - 1) % 2 = 1
      BY <3>2, PairsAreNeighbours
    <3>4. k - 1 = m
      BY <3>1
    <3>. QED BY <3>3, <3>4
  <2>. QED BY <1>2, <2>5
<1>9. RecordAt(m + 1)'
  <2>1. /\ run.key = NextKey /\ run.tokens = tokens /\ run.before = before /\ ValidRunCounters(run)
    BY <1>2 DEF ReconcileRun, ValidRunCounters
  <2>2. m + 1 > 1 => runs'[m + 1 - 1] = runs[m]
    BY <1>4
  <2>3. \A h \in 1 .. m + 1 - 1 : h \in 1 .. m /\ runs'[h] = runs[h]
    BY <1>4
  <2> HIDE DEF run
  <2>. QED BY <1>4, <1>6, <1>7, <1>8, <2>1, <2>2, <2>3 DEF RecordAt
<1>10. \A k \in 1 .. Len(runs') : RecordAt(k)'
  <2>1. \A k \in 1 .. m + 1 : k \in 1 .. m \/ k = m + 1
    OBVIOUS
  <2>. QED BY <1>4, <1>5, <1>9, <2>1
<1>. QED BY <1>1, <1>2, <1>3, <1>4, <1>10

\* Every step keeps the records, or makes one the protocol asks for.
LEMMA RecordedStep ==
  ASSUME SessionTypes, Recorded,
         [SessionNext]_sessionVars
  PROVE  Recorded'
<1> USE SessionAssumption
    DEF Raise, RaiseClosingInputs, RaiseClosingInstallation, Proceed, evidence, adapters,
        SessionTypes, Stages, Recorded
<1>a. Generations \in Nat \ {0} /\ Len(runs) \in Nat /\ (runs # <<>> <=> Len(runs) > 0)
  BY DEF Generations
<1>b. runs' = runs => LeftAt' = LeftAt /\ \A k : RecordAt(k)' = RecordAt(k)
  BY DEF LeftAt, RecordAt
<1>1. CASE Preflight
  BY <1>1, <1>a, <1>b DEF Preflight
<1>2. CASE CheckReceipt
  BY <1>2, <1>a, <1>b DEF CheckReceipt
<1>3. CASE Configure
  BY <1>3, <1>a, <1>b DEF Configure
<1>4. CASE Load
  BY <1>4, <1>a, <1>b DEF Load
<1>5. CASE InstallAdapters
  BY <1>5, <1>a, <1>b DEF InstallAdapters
<1>20. CASE Overlooked
  BY <1>20, <1>a, <1>b DEF Overlooked
<1>6. CASE CheckSetup
  BY <1>6, <1>a, <1>b DEF CheckSetup
<1>7. CASE CheckBaseline
  BY <1>7, <1>a, <1>b DEF CheckBaseline
<1>8. CASE SelectMode
  BY <1>8, <1>a, <1>b DEF SelectMode
<1>9. CASE BeginGeneration
  <2>1. /\ runs' = runs /\ Len(runs) < Generations
        /\ \/ stage' = "generate" /\ before' = counters /\ (runs # <<>> => counters = LeftAt)
           \/ stage' = "rejected"
    BY <1>9 DEF BeginGeneration, LeftAt
  <2>. QED BY <1>b, <2>1
<1>10. CASE GenerateFails
  BY <1>10, <1>a, <1>b DEF GenerateFails
<1>11. CASE Reconcile
  <2>1. CASE stage' = "begin"
    BY <2>1, <1>11, NewRecord
  <2>2. CASE stage' # "begin"
    <3>1. runs' = runs /\ stage' = "rejected"
      BY <1>11, <2>2 DEF Reconcile
    <3>. QED BY <1>b, <3>1
  <2>. QED BY <2>1, <2>2
<1>12. CASE \E n \in 1 .. MaxTokens, missed \in SUBSET Layers : Generate(n, missed)
  BY <1>12, <1>a, <1>b DEF Generate
<1>13. CASE BeginValidation
  BY <1>13, <1>a, <1>b DEF BeginValidation
<1>14. CASE Validate
  BY <1>14, <1>a, <1>b DEF Validate
<1>15. CASE EndValidation
  BY <1>15, <1>a, <1>b DEF EndValidation
<1>16. CASE Close
  BY <1>16, <1>a, <1>b DEF Close
<1>17. CASE Verdict
  BY <1>17, <1>a, <1>b DEF Verdict
<1>18. CASE \E l \in Layers, native \in BOOLEAN : Stray(l, native)
  BY <1>18, <1>a, <1>b DEF Stray
<1>19. CASE UNCHANGED sessionVars
  BY <1>19, <1>a, <1>b DEF sessionVars
<1>. QED BY <1>1, <1>2, <1>3, <1>4, <1>5, <1>6, <1>7, <1>8, <1>9, <1>10,
     <1>11, <1>12, <1>13, <1>14, <1>15, <1>16, <1>17, <1>18, <1>19, <1>20
  DEF SessionNext, Session

\* Every step of a session that is alone continues the counters.
LEMMA ContinuousStep ==
  ASSUME SessionTypes, Recorded, Continuous,
         [SessionNext]_sessionVars
  PROVE  Continuous'
<1> USE SessionAssumption
    DEF Raise, RaiseClosingInputs, RaiseClosingInstallation, Proceed, evidence, adapters,
        SessionTypes, Stages, Continuous
<1>a. Generations \in Nat \ {0} /\ Len(runs) \in Nat /\ (runs # <<>> <=> Len(runs) > 0)
  BY DEF Generations
<1>b. runs' = runs => LeftAt' = LeftAt
  BY DEF LeftAt
<1>1. CASE Preflight
  BY <1>1, <1>a, <1>b DEF Preflight
<1>2. CASE CheckReceipt
  BY <1>2, <1>a, <1>b DEF CheckReceipt
<1>3. CASE Configure
  BY <1>3, <1>a, <1>b DEF Configure
<1>4. CASE Load
  BY <1>4, <1>a, <1>b DEF Load
<1>5. CASE InstallAdapters
  BY <1>5, <1>a, <1>b DEF InstallAdapters, Recorded, LeftAt, Probed
<1>20. CASE Overlooked
  BY <1>20, <1>a, <1>b DEF Overlooked
<1>6. CASE CheckSetup
  BY <1>6, <1>a, <1>b DEF CheckSetup
<1>7. CASE CheckBaseline
  BY <1>7, <1>a, <1>b DEF CheckBaseline
<1>8. CASE SelectMode
  BY <1>8, <1>a, <1>b DEF SelectMode
<1>9. CASE BeginGeneration
  BY <1>9, <1>a, <1>b DEF BeginGeneration
<1>10. CASE GenerateFails
  BY <1>10, <1>a, <1>b DEF GenerateFails
<1>11. CASE Reconcile
  <2>1. CASE stage' = "begin"
    <3> DEFINE run == [key |-> NextKey, tokens |-> tokens, before |-> before, after |-> counters]
    <3>1. /\ Len(runs') = Len(runs) + 1 /\ runs'[Len(runs) + 1] = run
          /\ \A k \in 1 .. Len(runs) : runs'[k] = runs[k]
          /\ UNCHANGED <<counters, before, strays>>
      BY <2>1, <1>11, NewRecord
    <3>2. stage = "reconcile"
      BY <1>11 DEF Reconcile
    <3>3. run.before = before /\ run.after = counters
      OBVIOUS
    <3> HIDE DEF run
    <3>4. LeftAt' = counters
      BY <1>a, <3>1, <3>3 DEF LeftAt
    <3>5. strays = 0 => runs'[1].before = Probed
      <4>1. CASE runs = <<>>
        BY <3>1, <3>2, <3>3, <4>1 DEF LeftAt
      <4>2. CASE runs # <<>>
        BY <1>a, <3>1, <4>2
      <4>. QED BY <4>1, <4>2
    <3>. QED BY <2>1, <3>1, <3>4, <3>5
  <2>2. CASE stage' # "begin"
    <3>1. runs' = runs /\ stage' = "rejected" /\ strays' = strays
      BY <1>11, <2>2 DEF Reconcile
    <3>. QED BY <1>b, <3>1
  <2>. QED BY <2>1, <2>2
<1>12. CASE \E n \in 1 .. MaxTokens, missed \in SUBSET Layers : Generate(n, missed)
  BY <1>12, <1>a, <1>b DEF Generate
<1>13. CASE BeginValidation
  BY <1>13, <1>a, <1>b DEF BeginValidation
<1>14. CASE Validate
  BY <1>14, <1>a, <1>b DEF Validate
<1>15. CASE EndValidation
  BY <1>15, <1>a, <1>b DEF EndValidation
<1>16. CASE Close
  BY <1>16, <1>a, <1>b DEF Close
<1>17. CASE Verdict
  BY <1>17, <1>a, <1>b DEF Verdict
<1>18. CASE \E l \in Layers, native \in BOOLEAN : Stray(l, native)
  BY <1>18, <1>a, <1>b DEF Stray
<1>19. CASE UNCHANGED sessionVars
  BY <1>19, <1>a, <1>b DEF sessionVars
<1>. QED BY <1>1, <1>2, <1>3, <1>4, <1>5, <1>6, <1>7, <1>8, <1>9, <1>10,
     <1>11, <1>12, <1>13, <1>14, <1>15, <1>16, <1>17, <1>18, <1>19, <1>20
  DEF SessionNext, Session

\* Every step keeps the grounds of the verdict.
LEMMA JudgedStep ==
  ASSUME SessionTypes, Judged,
         [SessionNext]_sessionVars
  PROVE  Judged'
<1> USE DEF Raise, RaiseClosingInputs, RaiseClosingInstallation, Proceed, evidence, adapters, Ended,
        SessionTypes, Stages, Judged
<1>a. UNCHANGED <<runs, validation, installation>> => Accepts' = Accepts
  BY DEF Accepts
<1>1. CASE Preflight
  BY <1>1, <1>a DEF Preflight
<1>2. CASE CheckReceipt
  BY <1>2, <1>a DEF CheckReceipt
<1>3. CASE Configure
  BY <1>3, <1>a DEF Configure
<1>4. CASE Load
  BY <1>4, <1>a DEF Load
<1>5. CASE InstallAdapters
  BY <1>5, <1>a DEF InstallAdapters
<1>20. CASE Overlooked
  BY <1>20, <1>a DEF Overlooked
<1>6. CASE CheckSetup
  BY <1>6, <1>a DEF CheckSetup
<1>7. CASE CheckBaseline
  BY <1>7, <1>a DEF CheckBaseline
<1>8. CASE SelectMode
  BY <1>8, <1>a DEF SelectMode
<1>9. CASE BeginGeneration
  BY <1>9, <1>a DEF BeginGeneration
<1>10. CASE GenerateFails
  BY <1>10, <1>a DEF GenerateFails
<1>11. CASE Reconcile
  <2>. stage' \in {"begin", "rejected"}
    BY <1>11 DEF Reconcile
  <2>. QED OBVIOUS
<1>12. CASE \E n \in 1 .. MaxTokens, missed \in SUBSET Layers : Generate(n, missed)
  BY <1>12, <1>a DEF Generate
<1>13. CASE BeginValidation
  BY <1>13, <1>a DEF BeginValidation
<1>14. CASE Validate
  BY <1>14, <1>a DEF Validate
<1>15. CASE EndValidation
  BY <1>15, <1>a DEF EndValidation
<1>16. CASE Close
  BY <1>16, <1>a DEF Close
<1>17. CASE Verdict
  <2>1. stage' = "accepted" => Accepts /\ UNCHANGED <<runs, validation, installation>>
    BY <1>17 DEF Verdict
  <2>2. stage' = "accepted" => Accepts'
    BY <2>1 DEF Accepts
  <2>3. stage' \in {"accepted", "rejected"}
    BY <1>17 DEF Verdict
  <2>. QED BY <2>2, <2>3
<1>18. CASE \E l \in Layers, native \in BOOLEAN : Stray(l, native)
  BY <1>18, <1>a DEF Stray
<1>19. CASE UNCHANGED sessionVars
  BY <1>19, <1>a DEF sessionVars
<1>. QED BY <1>1, <1>2, <1>3, <1>4, <1>5, <1>6, <1>7, <1>8, <1>9, <1>10,
     <1>11, <1>12, <1>13, <1>14, <1>15, <1>16, <1>17, <1>18, <1>19, <1>20
  DEF SessionNext, Session

LEMMA SessionStarts ==
  ASSUME SessionInit
  PROVE  SessionInv
<1> USE SessionAssumption DEF SessionInit
<1>1. Zero \in Readings /\ Generations \in Nat \ {0}
  BY DEF Zero, Readings, Counts, Generations
<1>2. SessionTypes
  <2>1. runs \in Seq(Records) /\ Len(runs) = 0
    OBVIOUS
  <2>. QED BY <1>1, <2>1 DEF SessionTypes, Stages, Modes
<1>3. Held
  BY DEF Held, Ended, Released
<1>4. Recorded /\ Continuous /\ Judged
  BY <1>1 DEF Recorded, Continuous, Judged
<1>. QED BY <1>2, <1>3, <1>4 DEF SessionInv

\* What a session holds, has recorded and will be judged by, in every reachable state.
LEMMA SessionInvariant == SessionSpec => []SessionInv
<1>1. SessionInit => SessionInv
  BY SessionStarts
<1>2. SessionInv /\ [SessionNext]_sessionVars => SessionInv'
  BY SessionTypesStep, HeldStep, RecordedStep, ContinuousStep, JudgedStep DEF SessionInv
<1>. QED BY <1>1, <1>2, PTL DEF SessionSpec

\* The counters of every reading are natural numbers, and the records are those of generations.
THEOREM SessionTypeCorrect == SessionSpec => []SessionTypes
<1>1. SessionInv => SessionTypes
  BY DEF SessionInv
<1>. QED BY <1>1, SessionInvariant, PTL

\* For any layers, repetitions and tokens: what the checks of the runner and the checker
\* leave through covers the model (run_session of g3_session.py, _validate_runs and
\* _validate_reconciliation of g3_evidence.py).
THEOREM AcceptedAlwaysCovers == SessionSpec => []AcceptedCoverage
<1>1. ASSUME SessionInv
      PROVE  AcceptedCoverage
  <2>1. ASSUME stage = "accepted", NEW l \in Layers
        PROVE  LET upTo == CHOOSE f : Tallied(f) IN
               validation.after[l] = Add(upTo[Len(runs)], Checks(runs))
    <3>1. Accepts
      BY <1>1, <2>1 DEF SessionInv, Judged
    <3>2. /\ \E f : Tallied(f)
          /\ \A f : Tallied(f) => validation.after[l] = Add(f[Len(runs)], Checks(runs))
      BY <3>1, AcceptanceCovers, SessionAssumption
    <3>. QED BY <3>2
  <2>. QED BY <2>1 DEF AcceptedCoverage, Tallied
<1>. QED BY <1>1, SessionInvariant, PTL

\* The checker refuses nothing that a session alone in its process hands over
\* (_path_order of g3_session.py and _ordered_run_keys of g3_evidence.py, among others).
THEOREM CheckerAlwaysAgrees == SessionSpec => []CheckerAgrees
<1>1. ASSUME SessionInv, stage = "verdict", strays = 0
      PROVE  Accepts
  <2> USE SessionAssumption
  <2>1. /\ Len(runs) = Generations /\ Generations \in Nat \ {0} /\ runs # <<>>
        /\ \A k \in 1 .. Len(runs) : RecordAt(k)
    BY <1>1 DEF SessionInv, Recorded, SessionTypes, Generations
  <2>2. runs[1].before = Probed /\ validation.before = runs[Len(runs)].after
    BY <1>1, <2>1 DEF SessionInv, Continuous, LeftAt
  <2>3. ValidRuns(runs)
    BY <2>1, <2>2 DEF ValidRuns, RecordAt, Probed
  <2>4. ValidReconciliation(runs, validation)
    BY <1>1, <2>2 DEF SessionInv, Judged, ValidReconciliation
  <2>. QED BY <1>1, <2>3, <2>4 DEF SessionInv, Held, Accepts
<1>2. SessionInv => CheckerAgrees
  BY <1>1 DEF CheckerAgrees
<1>. QED BY <1>2, SessionInvariant, PTL

\* Wherever it fails, a session gives back what it holds, but for the failures that
\* Released names (the handlers of run_session).
THEOREM AlwaysReleased == SessionSpec => []Released
<1>1. SessionInv => Released
  BY DEF SessionInv, Held
<1>. QED BY <1>1, SessionInvariant, PTL
=============================================================================
