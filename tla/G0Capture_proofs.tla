--------------------------- MODULE G0Capture_proofs ---------------------------
(***************************************************************************)
(* Proofs about G0Capture and the BoundedCommand it is built from, for every *)
(* Limit and MaxPieces and any number of steps of other programs.           *)
(***************************************************************************)
EXTENDS G0Capture, TLAPS

-----------------------------------------------------------------------------
(* One bounded command: what it returns as a result is whole, and nobody of *)
(* its group is left running.                                              *)
(*                                                                         *)
(* ResultWhole is about the last step, Reap, which looks at the set of open *)
(* pipes only.  ReaderInv carries what an event and a closed pipe stand     *)
(* for up to there: an event that was selected is still true when it is     *)
(* handled, since output only grows and a group that holds no pipe never    *)
(* holds one again.                                                         *)

\* Between select and reap the leader is not waited for yet; no more is read than
\* was written, or than the limit; an event means output or the end; a pipe is
\* closed at its end only.
ReaderInv ==
  /\ Running => leader \in {"running", "exited"}
  /\ got <= written /\ got <= Limit
  /\ Running =>
       /\ "out" \in ready => got < written \/ ~Held
       /\ "err" \in ready => loud \/ ~Held
       /\ "out" \notin open => got = written /\ ~Held
       /\ kind = "git" /\ "err" \notin open => ~loud /\ ~Held

CommandInv == CommandTypeOK /\ ReaderInv /\ ResultWhole /\ NothingLeft

LEMMA CommandInvInit == CommandInit => CommandInv
<1>. SUFFICES ASSUME CommandInit PROVE CommandInv
  OBVIOUS
<1>1. loud \in BOOLEAN /\ late \in BOOLEAN
  BY Zenon DEF CommandInit
<1>2. CommandTypeOK
  BY <1>1 DEF CommandInit, CommandTypeOK
<1>3. ReaderInv /\ ResultWhole /\ NothingLeft
  BY CommandAssumption DEF CommandInit, ReaderInv, ResultWhole, NothingLeft, Running
<1>. QED BY <1>2, <1>3 DEF CommandInv

\* Every way to stop before the end kills the group and reaps the leader.
LEMMA StopKeepsInv ==
  ASSUME CommandInv,
         NEW why \in {"execution", "timeout", "stderr", "output-limit"}, Stop(why)
  PROVE  CommandInv'
<1>1. CommandTypeOK'
  BY DEF CommandInv, CommandTypeOK, Stop, KillGroup, reader
<1>2. ReaderInv'
  BY DEF CommandInv, ReaderInv, Stop, KillGroup, reader, Running
<1>3. ResultWhole' /\ NothingLeft'
  BY DEF ResultWhole, NothingLeft, Stop, KillGroup, Alive, ChildAlive
<1>. QED BY <1>1, <1>2, <1>3 DEF CommandInv

LEMMA StartKeepsInv ==
  ASSUME CommandInv, NEW k \in {"git", "fixed"}, Start(k)
  PROVE  CommandInv'
<1>1. loud' \in BOOLEAN /\ late' \in BOOLEAN
  BY Zenon DEF Start
<1>2. CommandTypeOK'
  BY <1>1 DEF CommandTypeOK, Start
<1>3. ReaderInv' /\ ResultWhole' /\ NothingLeft'
  BY CommandAssumption
  DEF ReaderInv, ResultWhole, NothingLeft, Start, Running, Held, Alive, ChildAlive
<1>. QED BY <1>2, <1>3 DEF CommandInv

\* The processes write, fork and end on their own; none of it happens after the
\* call has returned.
LEMMA GroupKeepsInv ==
  ASSUME CommandInv, Group
  PROVE  CommandInv'
<1>. USE DEF CommandInv, CommandTypeOK, ReaderInv, ResultWhole, NothingLeft, Running, Held, Alive,
             ChildAlive, reader
<1>1. CASE Write
  <2>1. loud' \in BOOLEAN
    BY <1>1, Zenon DEF Write
  <2>. QED BY <1>1, <2>1 DEF Write
<1>2. CASE Fork        BY <1>2 DEF Fork
<1>3. CASE ChildLeaves BY <1>3 DEF ChildLeaves
<1>4. CASE LeaderExits BY <1>4 DEF LeaderExits
<1>. HIDE DEF CommandInv
<1>. QED BY <1>1, <1>2, <1>3, <1>4 DEF Group

LEMMA SelectKeepsInv ==
  ASSUME CommandInv, Select
  PROVE  CommandInv'
<1>1. CASE late /\ Stop("timeout")
  BY <1>1, StopKeepsInv
<1>2. CASE ~late /\ UNCHANGED <<kind, processes, got, open, late, failure>>
  BY <1>2
  DEF Select, Stop, Readable, CommandInv, CommandTypeOK, ReaderInv, ResultWhole, NothingLeft, Running,
      Held, processes
<1>. QED BY <1>1, <1>2 DEF Select

LEMMA ReadOutKeepsInv ==
  ASSUME CommandInv, ReadOut
  PROVE  CommandInv'
<1>1. CASE Stop("output-limit")
  BY <1>1, StopKeepsInv
<1>2. CASE /\ got < written
           /\ \E n \in 1 .. written - got :
                got + n <= Limit /\ got' = got + n /\ Served("out") /\ UNCHANGED open
  BY <1>2, CommandAssumption
  DEF ReadOut, CommandInv, CommandTypeOK, ReaderInv, ResultWhole, NothingLeft, Running, Held, Served,
      processes
<1>3. CASE got = written /\ open' = open \ {"out"} /\ Served("out") /\ UNCHANGED got
  BY <1>3
  DEF ReadOut, CommandInv, CommandTypeOK, ReaderInv, ResultWhole, NothingLeft, Running, Held, Served,
      processes
<1>4. \/ Stop("output-limit")
      \/ /\ got < written
         /\ \E n \in 1 .. written - got :
              got + n <= Limit /\ got' = got + n /\ Served("out") /\ UNCHANGED open
      \/ got = written /\ open' = open \ {"out"} /\ Served("out") /\ UNCHANGED got
  <2>1. got \in Nat /\ written \in Nat
    BY DEF CommandInv, CommandTypeOK
  <2>. QED BY <2>1, CommandAssumption DEF ReadOut
<1>. QED BY <1>1, <1>2, <1>3, <1>4

LEMMA ReadErrKeepsInv ==
  ASSUME CommandInv, ReadErr
  PROVE  CommandInv'
<1>1. CASE loud /\ Stop("stderr")
  BY <1>1, StopKeepsInv
<1>2. CASE ~loud /\ open' = open \ {"err"} /\ Served("err") /\ UNCHANGED got
  BY <1>2
  DEF ReadErr, CommandInv, CommandTypeOK, ReaderInv, ResultWhole, NothingLeft, Running, Held, Served,
      processes
<1>. QED BY <1>1, <1>2 DEF ReadErr

\* The only step with a result: both pipes are closed, so that all was read and
\* nobody can write any more.
LEMMA ReapKeepsInv ==
  ASSUME CommandInv, Reap
  PROVE  CommandInv'
<1>1. CASE late /\ Stop("timeout")
  BY <1>1, StopKeepsInv
<1>2. CASE ~(late /\ Stop("timeout"))
  <2>. USE <1>2 DEF Reap, KillGroup, reader
  <2>1. CommandTypeOK'
    BY DEF CommandInv, CommandTypeOK
  <2>2. ReaderInv'
    BY DEF CommandInv, ReaderInv, Running
  <2>3. got = written /\ ~Held /\ (kind = "git" => ~loud)
    BY DEF CommandInv, ReaderInv, Running
  <2>4. ResultWhole'
    BY <2>3 DEF CommandInv, CommandTypeOK, ReaderInv, ResultWhole, Held
  <2>5. NothingLeft'
    BY DEF CommandInv, CommandTypeOK, NothingLeft, Alive, ChildAlive
  <2>. QED BY <2>1, <2>2, <2>4, <2>5 DEF CommandInv
<1>. QED BY <1>1, <1>2

LEMMA InterruptKeepsInv ==
  ASSUME CommandInv, Interrupt
  PROVE  CommandInv'
  BY DEF Interrupt, KillGroup, reader, CommandInv, CommandTypeOK, ReaderInv, ResultWhole, NothingLeft,
         Running, Held, Alive, ChildAlive

LEMMA ExpireKeepsInv ==
  ASSUME CommandInv, Expire
  PROVE  CommandInv'
  BY DEF Expire, processes, reader, CommandInv, CommandTypeOK, ReaderInv, ResultWhole, NothingLeft,
         Running, Held, Alive, ChildAlive

LEMMA CommandInvNext == CommandInv /\ [CommandNext]_command => CommandInv'
<1>. SUFFICES ASSUME CommandInv, [CommandNext]_command PROVE CommandInv'
  OBVIOUS
<1>1. CASE UNCHANGED command
  BY <1>1
  DEF command, processes, reader, CommandInv, CommandTypeOK, ReaderInv, ResultWhole, NothingLeft,
      Running, Held, Alive, ChildAlive
<1>2. CASE Group
  BY <1>2, GroupKeepsInv
<1>3. CASE Reader
  BY <1>3, SelectKeepsInv, ReadOutKeepsInv, ReadErrKeepsInv, ReapKeepsInv DEF Reader
<1>4. CASE ReadFails
  BY <1>4, StopKeepsInv DEF ReadFails
<1>5. CASE Interrupt
  BY <1>5, InterruptKeepsInv
<1>6. CASE Expire
  BY <1>6, ExpireKeepsInv
<1>7. CASE \E k \in {"git", "fixed"} : Start(k)
  BY <1>7, StartKeepsInv
<1>. QED BY <1>1, <1>2, <1>3, <1>4, <1>5, <1>6, <1>7 DEF CommandNext, CommandStep

\* Every variable of a bounded command keeps its type.
THEOREM CommandTypeCorrect == CommandSpec => []CommandTypeOK
<1>. QED BY CommandInvInit, CommandInvNext, PTL DEF CommandSpec, CommandInv

\* A git query or a fixed command that is taken for successful has been read to the
\* end, within the limit, and the leader ended by itself: whatever the child does,
\* however output, ends and the deadline interleave.
THEOREM ResultsAreWhole == CommandSpec => []ResultWhole
<1>. QED BY CommandInvInit, CommandInvNext, PTL DEF CommandSpec, CommandInv

\* A call that has returned leaves no member of the group that it is to clear away.
THEOREM NobodyIsLeft == CommandSpec => []NothingLeft
<1>. QED BY CommandInvInit, CommandInvNext, PTL DEF CommandSpec, CommandInv

-----------------------------------------------------------------------------
(* A capture: the facts above hold of every command that it runs, whatever  *)
(* the capture, the group of the command and other programs do in between:  *)
(* each step of a capture is a step of the command, leaves it alone, or     *)
(* puts it back to where it was at first.                                   *)

\* Answering is the only step of a capture that the command alone does not take.
LEMMA StepOfCommand ==
  ASSUME [Next]_vars
  PROVE  [CommandNext]_command \/ CommandInit'
<1>1. CASE UNCHANGED vars
  BY <1>1 DEF vars
<1>2. CASE Query
  BY <1>2 DEF Query
<1>3. CASE Ask
  BY <1>3 DEF Ask, CommandNext
<1>4. CASE Answer
  BY <1>4 DEF Answer, CommandInit
<1>5. CASE Producer \/ Pin \/ Recheck \/ CheckTarget \/ ReadFixture \/ Stage
  BY <1>5 DEF Producer, Pin, Recheck, CheckTarget, ReadFixture, Stage, Own
<1>6. CASE ReadMember \/ Inventory \/ Validate \/ UnchangedFiles \/ Install \/ SyncParent
  BY <1>6 DEF ReadMember, Inventory, Validate, UnchangedFiles, Install, SyncParent, Own
<1>7. CASE Outside
  BY <1>7 DEF Outside
<1>8. CASE CommandStep
  BY <1>8 DEF CommandNext
<1>. QED BY <1>1, <1>2, <1>3, <1>4, <1>5, <1>6, <1>7, <1>8 DEF Next, Capture

LEMMA CommandInvOfCapture == Spec => []CommandInv
<1>1. Init => CommandInv
  BY CommandInvInit DEF Init
<1>2. CommandInv /\ [Next]_vars => CommandInv'
  <2>1. CommandInit' => CommandInv'
    BY CommandInvInit, PTL
  <2>. QED BY <2>1, StepOfCommand, CommandInvNext
<1>. QED BY <1>1, <1>2, PTL DEF Spec

\* What a capture takes for the answer of git or of a check is all that the command
\* wrote, within the limit, and the command ended by itself.
THEOREM CaptureReadsWhole == Spec => []ResultWhole
<1>. QED BY CommandInvOfCapture, PTL DEF CommandInv

\* A capture goes on only when nobody of a check's group is left, nor of a git
\* query's that failed.
THEOREM CaptureLeavesNobody == Spec => []NothingLeft
<1>. QED BY CommandInvOfCapture, PTL DEF CommandInv

-----------------------------------------------------------------------------
(* What a successful capture stands for.  The plan is a list of 52 steps;   *)
(* each fact below is true from the step on that has established it, and no *)
(* later step and no other program takes it back.                           *)

\* The plan, step by step.
Table(i) ==
  CASE i \in {1, 34} -> Git("root") [] i \in {2, 35} -> Git("worktree")
    [] i = 3 -> Step("producer") [] i = 4 -> Step("pin") [] i \in {5, 50} -> Step("target")
    [] i \in {6, 36, 46} -> Git("revision")
    [] i \in {7, 40, 43, 47} -> Git("clean")
    [] i \in {8, 41, 44, 48} -> Git("index")
    [] i \in {9, 49} -> Git("settle")
    [] i \in {10, 13, 15} -> Step("recheck")
    [] i \in {11, 14} -> Fixed("probe")
    [] i = 12 -> Fixed("check")
    [] i = 16 -> Step("fixture") [] i = 17 -> Step("stage")
    [] i \in {18, 26} -> Member("manifest") 
    [] i \in {19, 22, 25, 27, 30, 33} -> Step("inventory")
    [] i \in {20, 28} -> Member("fixture") 
    [] i \in {21, 29} -> Member("host")
    [] i \in {23, 31} -> Step("validate")
    [] i \in {24, 32} -> Step("unchanged")
    [] i = 37 -> Git("commits") [] i = 38 -> Git("descends") [] i = 39 -> Git("ahead")
    [] i = 42 -> Git("blob") [] i = 45 -> Git("same")
    [] i = 51 -> Step("install") [] i = 52 -> Step("sync")

LEMMA PlanIsTable == Len(Plan) = 52 /\ \A i \in 1 .. 52 : Plan[i] = Table(i)
<1>1. Len(Plan) = 52
  BY DEF Plan, Preparation, Binding, CleanRevision, CollectHost, Publishing, Portable, Provenance
<1>. SUFFICES ASSUME NEW i \in 1 .. 52 PROVE Plan[i] = Table(i)
  BY <1>1
<1>. USE DEF Plan, Preparation, Binding, CleanRevision, CollectHost, Publishing, Portable,
             Provenance, Table
<1>2. CASE i \in 1 .. 17
  BY <1>2
<1>3. CASE i \in 18 .. 33
  BY <1>3
<1>4. CASE i \in 34 .. 45
  BY <1>4
<1>5. CASE i \in 46 .. 52
  BY <1>5
<1>. QED BY <1>2, <1>3, <1>4, <1>5

\* Where in the plan the steps are that decide what is recorded.
LEMMA Places ==
  ASSUME NEW i \in 1 .. 52
  PROVE  /\ Plan[i][1] = "fixed" => i \in {11, 12, 14}
         /\ Plan[i][1] = "fixed" /\ Plan[i][2] = "check" => i = 12
         /\ Plan[i][1] = "member" => i \in {18, 20, 21, 26, 28, 29} /\ Plan[i][2] \in Members
         /\ Plan[i][1] = "pin" => i = 4
         /\ Plan[i][1] = "stage" => i = 17
         /\ Plan[i][1] = "unchanged" => i \in {24, 32}
         /\ Plan[i][2] = "revision" => i \in {6, 36, 46}
         /\ Plan[i][2] = "settle" => i \in {9, 49}
<1>. DEFINE row == Table(i)
<1>1. Plan[i] = row
  BY PlanIsTable
<1>2. row[1] = "fixed" => i \in {11, 12, 14}
  BY DEF Table, Git, Fixed, Member, Step
<1>3. row[1] = "fixed" /\ row[2] = "check" => i = 12
  BY DEF Table, Git, Fixed, Member, Step
<1>4. row[1] = "member" => i \in {18, 20, 21, 26, 28, 29}
  BY DEF Table, Git, Fixed, Member, Step, Members
<1>5. row[1] = "member" => row[2] \in Members
  BY DEF Table, Git, Fixed, Member, Step, Members
<1>6. row[1] = "pin" => i = 4
  BY DEF Table, Git, Fixed, Member, Step
<1>7. row[1] = "stage" => i = 17
  BY DEF Table, Git, Fixed, Member, Step
<1>8. row[1] = "unchanged" => i \in {24, 32}
  BY DEF Table, Git, Fixed, Member, Step
<1>9. row[2] = "revision" => i \in {6, 36, 46}
  BY DEF Table, Git, Fixed, Member, Step
<1>10. row[2] = "settle" => i \in {9, 49}
  BY DEF Table, Git, Fixed, Member, Step
<1>. HIDE DEF row
<1>. QED BY <1>1, <1>2, <1>3, <1>4, <1>5, <1>6, <1>7, <1>8, <1>9, <1>10

\* The steps that stop a capture unless what they ask about is so.
LEMMA Deciding ==
  /\ \A i \in {7, 47} : Plan[i] = Git("clean")
  /\ \A i \in {9, 49} : Plan[i] = Git("settle")
  /\ Plan[15][1] = "recheck" /\ Plan[29][1] = "member" /\ Plan[32][1] = "unchanged"
  /\ Plan[33][1] = "inventory" /\ Plan[51][1] = "install" /\ Plan[52][1] = "sync"
  /\ Plan[38] = Git("descends") /\ Plan[42] = Git("blob")
<1>1. /\ Plan[15] = Step("recheck") /\ Plan[29] = Member("host") /\ Plan[32] = Step("unchanged")
      /\ Plan[33] = Step("inventory") /\ Plan[51] = Step("install") /\ Plan[52] = Step("sync")
  BY PlanIsTable DEF Table
<1>2. /\ Plan[15][1] = "recheck" /\ Plan[29][1] = "member" /\ Plan[32][1] = "unchanged"
      /\ Plan[33][1] = "inventory" /\ Plan[51][1] = "install" /\ Plan[52][1] = "sync"
  <2>1. /\ Step("recheck")[1] = "recheck" /\ Step("unchanged")[1] = "unchanged"
        /\ Member("host")[1] = "member" /\ Step("sync")[1] = "sync"
          /\ Step("inventory")[1] = "inventory" /\ Step("install")[1] = "install"
    BY DEF Step, Member
  <2>. QED BY ONLY <1>1, <2>1
<1>3. Plan[7] = Git("clean") /\ Plan[9] = Git("settle")
  BY PlanIsTable DEF Table
<1>4. Plan[47] = Git("clean") /\ Plan[49] = Git("settle")
  BY PlanIsTable DEF Table
<1>5. Plan[38] = Git("descends") /\ Plan[42] = Git("blob")
  BY PlanIsTable DEF Table
<1>. QED BY <1>2, <1>3, <1>4, <1>5

\* The place in the plan, and types.  A capture awaits an answer only where it asked.
Placed ==
  /\ at \in 1 .. 52 /\ status \in {"running", "ok", "failed", "interrupted"}
  /\ status = "ok" => at = 52
  /\ head \in 1 .. MaxCommits /\ found \in 0 .. MaxCommits /\ revision \in 0 .. MaxCommits
  /\ tool \in Nat /\ pinned \in Nat /\ outside \in Nat
  /\ stamps \in [Files -> Nat] /\ seen \in [Files -> Nat]
  /\ DOMAIN snapshot = Files
  /\ flagged \in BOOLEAN
  /\ asked => Plan[at][1] = "fixed" \/ (Plan[at][1] = "git" /\ at \in Played)

\* An executable is never again what it was, so that two equal looks bracket what ran.
Bracketed ==
  /\ pinned <= tool
  /\ at <= 10 => ran = {}
  /\ \A r \in ran : r \in Nat /\ pinned <= r /\ r <= tool
  /\ at > 15 => ran \subseteq {pinned}

\* One step of another program changes the checkout in one way, and each of these ways
\* shows at the latest in the second look: nobody is left to undo it.
Undisturbed ==
  /\ at > 9 => revision # 0
  /\ at <= 9 /\ status = "running" => revision = 0
  /\ outside = 0 => /\ worktree = blob[head] /\ ~flagged /\ ~astray
                    /\ at > 9 => head = revision
  /\ outside <= 1 => \/ ~flagged
                     \/ worktree = blob[head] /\ (at > 9 => head = revision)
  /\ astray => at > 11
  /\ astray /\ outside <= 1 => /\ ~flagged
                               /\ worktree # blob[head] \/ head # revision
                               /\ at > 47 => worktree = blob[head]
                               /\ at <= 49

\* The identities of the members only grow, so that the last comparison speaks of the
\* moment at which the last member was read.
LastSnapshot ==
  /\ \A f \in Files : seen[f] <= stamps[f]
  /\ at > 29 /\ (\A m \in Members : seen[m] = stamps[m]) => there
  /\ at > 32 => there

\* The history of the repository never changes, and the last snapshot is kept.
Proven ==
  /\ at > 38 => Baseline \in Ancestors[snapshot["manifest"].revision]
  /\ at > 42 => snapshot["fixture"] = blob[snapshot["manifest"].revision]

\* A member that is still what it was when it was read holds what was read; after the
\* verifier's last look and inventory only a spoiled bundle differs from the snapshot.
Kept ==
  /\ files = [f \in Files |-> files[f]] /\ snapshot = [f \in Files |-> snapshot[f]]
  /\ snapshot["extra"] = Nothing
  /\ at <= 17 => \A m \in Members : seen[m] # stamps[m]
  /\ \A m \in Members : seen[m] = stamps[m] => snapshot[m] = files[m]
  /\ at > 32 => spoiled \/ \A m \in Members : seen[m] = stamps[m]
  /\ at > 33 => spoiled \/ files["extra"] = Nothing
  /\ at > 51 => target = "ours"

CaptureInv == Placed /\ Bracketed /\ Undisturbed /\ LastSnapshot /\ Proven /\ Kept

\* A capture goes on to its next step when what the present one asks about is so.
LEMMA Passing ==
  ASSUME Placed, [Next]_vars, at' # at
  PROVE  /\ status = "running" /\ at < 52 /\ at' = at + 1
         /\ UNCHANGED <<repository, tool, outside, ran, astray, stamps>>
         /\ Plan[at][1] = "git" => GoodAnswer(Plan[at][2]) /\ Keep(Plan[at][2])
         /\ Plan[at][1] = "recheck" => tool = pinned
         /\ Plan[at][1] = "unchanged" => \A m \in Members : stamps[m] = seen[m]
         /\ Plan[at][1] = "member" => ReadMember
         /\ Plan[at][1] = "inventory" => {f \in Files : files[f] # Nothing} = Members
         /\ Plan[at][1] = "install" => target' = "ours"
<1>. USE PlanIsTable DEF Placed, At, Judge, Advance, Fail, Own, history, bundle
<1>1. CASE Query
  BY <1>1 DEF Query
<1>2. CASE Answer
  <2>1. status = "running" /\ UNCHANGED <<repository, tool, outside, ran, astray, stamps>>
    BY <1>2 DEF Answer
  <2>2. GoodAnswer(Plan[at][2]) /\ Advance
    BY ONLY <1>2, at' # at DEF Answer, Judge, Fail
  <2>3. Plan[at][1] = "git" \/ Plan[at][1] = "fixed"
    BY <1>2 DEF Answer
  <2>4. Plan[at][1] = "git" => status' = "running"
    BY <2>2, Deciding
  <2>5. status' = "running" => Keep(Plan[at][2])
    BY ONLY <1>2 DEF Answer
  <2>. QED BY <2>1, <2>2, <2>3, <2>4, <2>5
<1>3. CASE Recheck
  BY <1>3 DEF Recheck
<1>4. CASE Producer \/ Pin \/ CheckTarget \/ ReadFixture \/ Stage
  BY <1>4 DEF Producer, Pin, CheckTarget, ReadFixture, Stage
<1>5. CASE ReadMember
  <2>1. At("member") /\ Own /\ UNCHANGED bundle
    BY <1>5 DEF ReadMember
  <2>2. Advance
    BY ONLY <1>5, at' # at DEF ReadMember, Fail
  <2>. QED BY <1>5, <2>1, <2>2
<1>6. CASE Inventory \/ Validate \/ Install \/ SyncParent
  BY <1>6 DEF Inventory, Validate, Install, SyncParent
<1>7. CASE UnchangedFiles
  BY <1>7 DEF UnchangedFiles
<1>8. CASE Ask \/ Outside \/ UNCHANGED rest \/ UNCHANGED vars
  BY <1>8 DEF Ask, Outside, rest, vars, capturing
<1>. QED BY <1>1, <1>2, <1>3, <1>4, <1>5, <1>6, <1>7, <1>8 DEF Next, Capture

\* Each step but the awaiting of a command's end is one of the capture at its place.
LEMMA PlacedStep ==
  ASSUME Placed, [Next]_vars
  PROVE  Placed'
<1>. USE PlanIsTable, CaptureAssumption DEF Placed, At, Judge, Advance, Fail, Own, bundle,
         captured, repository, capturing
<1>1. CASE Query
  BY <1>1 DEF Query, Keep
<1>2. CASE Answer
  BY <1>2 DEF Answer, Keep
<1>3. CASE Recheck \/ Producer \/ CheckTarget
  BY <1>3 DEF Recheck, Producer, CheckTarget
<1>4. CASE Inventory \/ Validate \/ Install \/ SyncParent \/ UnchangedFiles
  BY <1>4 DEF Inventory, Validate, Install, SyncParent, UnchangedFiles
<1>5. CASE Pin \/ ReadFixture \/ Stage
  BY <1>5 DEF Pin, ReadFixture, Stage
<1>6. CASE ReadMember
  <2>. DEFINE m == Plan[at][2]
  <2>1. m \in Files
    BY <1>6, Places DEF ReadMember, Members, Files
  <2>. HIDE DEF m
  <2>2. seen' = seen \/ seen' = [seen EXCEPT ![m] = stamps[m]]
    BY <1>6 DEF ReadMember, m
  <2>3. DOMAIN snapshot' = Files
    BY <1>6 DEF ReadMember
  <2>4. seen' \in [Files -> Nat] /\ stamps' = stamps
    BY <1>6, <2>1, <2>2 DEF ReadMember
  <2>5. /\ UNCHANGED <<found, revision, pinned, asked, head, flagged, tool, outside>>
        /\ Advance \/ Fail
        /\ Plan[at][1] = "member"
    BY <1>6 DEF ReadMember
  <2>. QED BY <2>3, <2>4, <2>5
<1>7. CASE Ask
  BY <1>7 DEF Ask
<1>8. CASE Outside
  <2>1. /\ UNCHANGED <<at, status, asked, pinned, revision, found, snapshot, seen>>
        /\ outside' = outside + 1 /\ ~asked
    BY <1>8 DEF Outside
  <2>2. head' \in 1 .. MaxCommits /\ tool' \in Nat
    BY <1>8 DEF Outside, TouchRepository, TouchTarget, TouchStaging, ExchangeStaging, ReplaceTool
  <2>4. flagged' \in BOOLEAN
    BY <1>8, Zenon
    DEF Outside, TouchRepository, TouchTarget, TouchStaging, ExchangeStaging, ReplaceTool
  <2>3. stamps' \in [Files -> Nat]
    BY <1>8 DEF Outside, TouchRepository, TouchTarget, TouchStaging, ExchangeStaging, ReplaceTool
  <2>. QED BY <2>1, <2>2, <2>3, <2>4
<1>9. CASE UNCHANGED rest \/ UNCHANGED vars
  BY <1>9 DEF rest, vars
<1>. QED BY <1>1, <1>2, <1>3, <1>4, <1>5, <1>6, <1>7, <1>8, <1>9 DEF Next, Capture

\* Commands run what is under the pinned path; only the rechecks tell what that was.
LEMMA BracketedStep ==
  ASSUME Placed, Bracketed, [Next]_vars
  PROVE  Bracketed'
<1>. USE DEF Placed, Bracketed
<1>1. CASE Pin
  <2>1. at = 4
    BY <1>1, Places DEF Pin, At
  <2>2. UNCHANGED <<tool, ran>> /\ pinned' \in {pinned, tool}
    BY <1>1 DEF Pin, Own
  <2>3. at' \in {at, at + 1}
    BY <1>1, Passing
  <2>. QED BY <2>1, <2>2, <2>3
<1>2. CASE Ask
  <2>1. UNCHANGED <<at, tool, pinned>>
    BY <1>2 DEF Ask, captured
  <2>2. ran' = ran \/ (ran' = ran \cup {tool} /\ at \in {11, 12, 14})
    BY <1>2, Places DEF Ask, At
  <2>. QED BY <2>1, <2>2
<1>3. CASE Outside
  <2>1. UNCHANGED <<at, pinned, ran>> /\ tool' \in {tool, tool + 1}
    BY <1>3
    DEF Outside, ReplaceTool, TouchRepository, TouchTarget, TouchStaging, ExchangeStaging, capturing,
                captured, history
  <2>. QED BY <2>1
<1>4. CASE UNCHANGED <<pinned, tool, ran>>
  <2>1. at' # at => at' = at + 1 /\ (at = 15 => tool = pinned)
    BY Passing, Deciding
  <2>2. \A r \in ran : r \in Nat /\ pinned <= r /\ r <= tool
    OBVIOUS
  <2>3. at = 15 /\ at' # at => \A r \in ran : r = pinned
    BY <2>1, <2>2
  <2>. QED BY <1>4, <2>1, <2>3
<1>5. ASSUME ~Pin, ~Ask, ~Outside
      PROVE  UNCHANGED <<pinned, tool, ran>>
  BY <1>5 DEF Next, Capture, Query, Answer, Keep, Recheck, Producer, CheckTarget, Inventory,
    Validate, Install, SyncParent, UnchangedFiles, ReadFixture, Stage, ReadMember, Own, captured,
    history, rest, vars
<1>. QED BY <1>1, <1>2, <1>3, <1>4, <1>5

\* Reading a member records its identity of that moment.
LEMMA LastSnapshotStep ==
  ASSUME Placed, LastSnapshot, [Next]_vars
  PROVE  LastSnapshot'
<1>. USE DEF Placed, LastSnapshot
<1>1. CASE ReadMember
  <2>. DEFINE m == Plan[at][2]
  <2>1. at \in {18, 20, 21, 26, 28, 29} /\ m \in Members /\ UNCHANGED stamps
    BY <1>1, Places DEF ReadMember, At, bundle
  <2>2. CASE files[m] = Nothing
    BY <1>1, <2>1, <2>2 DEF ReadMember, Fail, captured
  <2>3. CASE files[m] # Nothing
    <3>1. /\ seen' = [seen EXCEPT ![m] = stamps[m]]
          /\ there' = \A n \in Members : seen'[n] = stamps[n]
          /\ at' \in {at, at + 1} 
      BY <1>1, <2>3 DEF ReadMember, Advance, Fail
    <3>2. \A f \in Files : seen'[f] <= stamps'[f]
      BY <2>1, <3>1
    <3>3. (\A n \in Members : seen'[n] = stamps'[n]) => there'
      BY <2>1, <3>1
    <3>. QED BY <2>1, <3>1, <3>2, <3>3
  <2>. QED BY <2>2, <2>3
<1>2. CASE Outside
  <2>1. UNCHANGED <<at, seen, there>>
    BY <1>2 DEF Outside, capturing, captured, history
  <2>2. stamps' = stamps \/ \E f \in Files : stamps' = [stamps EXCEPT ![f] = @ + 1]
    BY <1>2
    DEF Outside, ReplaceTool, TouchRepository, TouchTarget, TouchStaging, ExchangeStaging, bundle
  <2>3. CASE stamps' = stamps
    BY <2>1, <2>3
  <2>4. ASSUME NEW f \in Files, stamps' = [stamps EXCEPT ![f] = @ + 1]
        PROVE  LastSnapshot'
    <3>1. \A g \in Files : stamps'[g] = IF g = f THEN stamps[g] + 1 ELSE stamps[g]
      BY <2>4
    <3>2. \A g \in Files : seen[g] \in Nat /\ stamps[g] \in Nat
      OBVIOUS
    <3>3. \A g \in Files : seen[g] <= stamps'[g] /\ (seen[g] = stamps'[g] => seen[g] = stamps[g])
      BY <3>1, <3>2
    <3>. QED BY <2>1, <3>3 DEF Members, Files
  <2>. QED BY <2>2, <2>3, <2>4
<1>3. CASE UNCHANGED <<seen, stamps, there>> /\ ~ReadMember
  <2>1. at' # at => at' = at + 1 /\ (at = 32 => \A m \in Members : stamps[m] = seen[m])
    BY Passing, Deciding
  <2>2. at' # at => at # 29
    BY <1>3, Passing, Deciding DEF Member
  <2>3. at = 32 /\ at' # at => there'
    BY <1>3, <2>1
  <2>. QED BY <1>3, <2>1, <2>2, <2>3
<1>4. ASSUME ~ReadMember, ~Outside
      PROVE  UNCHANGED <<seen, stamps, there>>
  BY <1>4 DEF Next, Capture, Query, Ask, Answer, Keep, Recheck, Producer, CheckTarget, Inventory,
    Validate, Install, SyncParent, UnchangedFiles, ReadFixture, Stage, Pin, Own, captured, history,
    bundle, rest, vars
<1>. QED BY <1>1, <1>2, <1>3, <1>4

\* Only another program changes the checkout, and it takes it one step.
LEMMA UndisturbedStep ==
  ASSUME Placed, Undisturbed, [Next]_vars
  PROVE  Undisturbed'
<1>. USE DEF Placed, Undisturbed
<1>. DEFINE clean == worktree = blob[head]
<1>1. CASE Outside
  <2>1. /\ UNCHANGED <<at, status, revision, astray, blob>> /\ outside' = outside + 1
    BY <1>1
    DEF Outside, TouchRepository, ReplaceTool, TouchTarget, TouchStaging, ExchangeStaging, repository,
                capturing, captured, history
  <2>2. outside # 0 => Undisturbed'
    BY <2>1
  <2>3. \/ UNCHANGED <<head, worktree, flagged>>
        \/ clean' /\ flagged' = flagged
        \/ UNCHANGED <<head, flagged>>
        \/ UNCHANGED <<head, worktree>>
    BY <1>1
    DEF Outside, TouchRepository, ReplaceTool, TouchTarget, TouchStaging, ExchangeStaging, repository
  <2>4. outside = 0 => Undisturbed'
    BY <2>1, <2>3
  <2>. QED BY <2>2, <2>4
<1>2. CASE Ask
  <2>1. /\ UNCHANGED <<at, status, revision, outside, head, worktree, flagged, blob>>
    BY <1>2 DEF Ask, repository, captured
  <2>2. CASE ~astray'
    BY <2>1, <2>2
  <2>3. CASE astray' /\ astray
    BY <2>1, <2>3
  <2>4. CASE astray' /\ ~astray
    <3>1. Plan[at][1] = "fixed" /\ Plan[at][2] = "check" /\ ~Untouched
      BY <1>2, <2>4 DEF Ask, At
    <3>2. at = 12
      BY <3>1, Places
    <3>. QED BY <2>1, <2>4, <3>1, <3>2 DEF Untouched
  <2>. QED BY <2>2, <2>3, <2>4
\* A step of the plan leaves all that but the revision alone.
<1>3. CASE UNCHANGED <<head, worktree, flagged, blob, outside, astray>>
  <2>1. at' = at \/ (at' = at + 1 /\ status = "running")
    BY Passing
  <2>2. \/ revision' = revision
        \/ /\ revision = 0 /\ revision' = found /\ at \in {9, 49}
           /\ at' # at \/ status' # "running"
    <3>1. CASE Query
      <4>1. UNCHANGED revision \/ (Keep(Plan[at][2]) /\ (Advance \/ Fail))
        BY <3>1 DEF Query, captured, Judge
      <4>. QED BY <4>1, Places, PlanIsTable DEF Keep, Advance, Fail
    <3>2. CASE Answer
      <4>1. status' = "running" => at' # at
        BY <3>2, Deciding DEF Answer, Judge, Fail, Advance
      <4>2. revision' # revision => Keep(Plan[at][2])
        BY <3>2 DEF Answer, captured
      <4>. QED BY <4>1, <4>2, Places DEF Keep
    <3>3. CASE ~Query /\ ~Answer
      BY <3>3 DEF Next, Capture, Ask, Recheck, Producer, CheckTarget, Inventory, Pin, Outside,
        Validate, Install, SyncParent, UnchangedFiles, ReadFixture, Stage, ReadMember, Own,
        captured, rest, vars
    <3>. QED BY <3>1, <3>2, <3>3
  <2>3. at = 9 /\ at' # at => head = found /\ revision' = found /\ found # 0
    <3>1. at = 9 /\ at' # at => GoodAnswer("settle") /\ Keep("settle") /\ status = "running"
      BY Passing, Deciding DEF Git
    <3>. QED BY <3>1, CaptureAssumption DEF GoodAnswer, Keep
  <2>4. at = 47 /\ at' # at => flagged \/ clean
    <3>1. at = 47 /\ at' # at => GoodAnswer("clean")
      BY Passing, Deciding DEF Git
    <3>. QED BY <3>1 DEF GoodAnswer, Clean
  <2>5. at = 49 /\ at' # at => head = found /\ revision = found
    <3>1. at = 49 /\ at' # at => GoodAnswer("settle")
      BY Passing, Deciding DEF Git
    <3>. QED BY <3>1 DEF GoodAnswer
  <2>6. status' = "running" => status = "running"
    BY DEF Next, Capture, Query, Ask, Answer, Recheck, Producer, CheckTarget, Inventory, Pin,
      Outside, Validate, Install, SyncParent, UnchangedFiles, ReadFixture, Stage, ReadMember, At,
      capturing, rest, vars
  <2>7. (at' > 9 => revision' # 0) /\ (at' <= 9 /\ status' = "running" => revision' = 0)
    <3>1. at <= 9 /\ at' > 9 => at = 9 /\ at' # at
      BY <2>1
    <3>2. at > 9 => revision' = revision
      BY <2>2
    <3>3. at' <= 9 => at <= 9 /\ (at = 9 => at' = at)
      BY <2>1
    <3>. QED BY <2>2, <2>3, <2>6, <3>1, <3>2, <3>3
  <2>8. outside = 0 => clean /\ ~flagged /\ ~astray /\ (at' > 9 => head = revision')
    <3>1. at' > 9 => at > 9 \/ (at = 9 /\ at' # at)
      BY <2>1
    <3>. QED BY <2>2, <2>3, <3>1
  <2>9. outside <= 1 => ~flagged \/ (clean /\ (at' > 9 => head = revision'))
    <3>1. at' > 9 => at > 9 \/ (at = 9 /\ at' # at)
      BY <2>1
    <3>. QED BY <2>2, <2>3, <3>1
  <2>10. astray => at' > 11
    BY <2>1
  <2>11. astray /\ outside <= 1 =>
           ~flagged /\ (~clean \/ head # revision') /\ (at' > 47 => clean) /\ at' <= 49
    <3>. SUFFICES ASSUME astray, outside <= 1
                  PROVE  /\ ~flagged /\ (~clean \/ head # revision')
                         /\ (at' > 47 => clean) /\ at' <= 49
      OBVIOUS
    <3>1. revision' = revision
      BY <2>2
    <3>2. at' > 47 => clean
      BY <2>1, <2>4
    <3>3. at' <= 49
      BY <2>1, <2>5
    <3>. QED BY <3>1, <3>2, <3>3
  <2>. HIDE DEF Undisturbed
  <2>12. UNCHANGED <<head, worktree, flagged, blob, outside, astray>>
    BY <1>3
  <2>. QED BY ONLY <2>7, <2>8, <2>9, <2>10, <2>11, <2>12 DEF Undisturbed
<1>4. ASSUME ~Outside, ~Ask
      PROVE  UNCHANGED <<head, worktree, flagged, blob, outside, astray>>
  BY <1>4 DEF Next, Capture, Query, Answer, Recheck, Producer, CheckTarget, Inventory, Pin,
    Validate, Install, SyncParent, UnchangedFiles, ReadFixture, Stage, ReadMember, Own,
    repository, history, rest, vars
<1>. QED BY <1>1, <1>2, <1>3, <1>4

\* The ancestors of a commit are those of its parent.
LEMMA SameHistory ==
  ASSUME parent' = parent
  PROVE  \A c : Ancestors[c]' = Ancestors[c]
BY DEF Ancestors

\* What the queries found about the last snapshot stays true of it.
LEMMA ProvenStep ==
  ASSUME Placed, Proven, [Next]_vars
  PROVE  Proven'
<1>. USE DEF Placed, Proven
<1>1. UNCHANGED <<parent, blob>>
  BY DEF Next, Capture, Query, Ask, Answer, Recheck, Producer, CheckTarget, Inventory, Pin,
    Validate, Install, SyncParent, UnchangedFiles, ReadFixture, Stage, ReadMember, Own, Outside,
    TouchRepository, ReplaceTool, TouchTarget, TouchStaging, ExchangeStaging, repository, rest, vars
<1>2. at > 29 => snapshot' = snapshot
  <2>1. CASE ReadMember
    BY <2>1, Places DEF ReadMember, At
  <2>2. CASE ~ReadMember
    BY <2>2 DEF Next, Capture, Query, Ask, Answer, Keep, Recheck, Producer, CheckTarget, Inventory,
      Pin, Validate, Install, SyncParent, UnchangedFiles, ReadFixture, Stage, Own, Outside,
      captured, rest, vars
  <2>. QED BY <2>1, <2>2
<1>3. at' = at \/ at' = at + 1
  BY Passing
<1>4. at = 38 /\ at' # at => Baseline \in Ancestors[snapshot["manifest"].revision]
  <2>1. at = 38 /\ at' # at => GoodAnswer("descends")
    BY Passing, Deciding DEF Git
  <2>. QED BY <2>1 DEF GoodAnswer
<1>5. at = 42 /\ at' # at => snapshot["fixture"] = blob[snapshot["manifest"].revision]
  <2>1. at = 42 /\ at' # at => GoodAnswer("blob")
    BY Passing, Deciding DEF Git
  <2>. QED BY <2>1 DEF GoodAnswer
<1>6. \A c : Ancestors'[c] = Ancestors[c]
  BY <1>1, SameHistory
<1>. QED BY <1>1, <1>2, <1>3, <1>4, <1>5, <1>6

\* Nothing but the verifier and other programs, which leave their mark, comes between the
\* last look and the rename.
LEMMA KeptStep ==
  ASSUME Placed, LastSnapshot, Kept, [Next]_vars
  PROVE  Kept'
<1>. USE DEF Placed, Kept
<1>0. at' # at => at' = at + 1
  BY Passing
<1>1. CASE ReadMember
  <2>. DEFINE m == Plan[at][2]
  <2>1. at \in {18, 20, 21, 26, 28, 29} /\ m \in Members /\ UNCHANGED <<files, stamps, target>>
    BY <1>1, Places DEF ReadMember, At, bundle
  <2>2. m \in Files /\ m # "extra"
    BY <2>1 DEF Members, Files
  <2>. HIDE DEF m
  <2>3. CASE UNCHANGED <<seen, snapshot>>
    BY <1>0, <2>1, <2>3
  <2>4. CASE /\ seen' = [seen EXCEPT ![m] = stamps[m]]
             /\ snapshot' = [snapshot EXCEPT ![m] = files[m]]
    <3>1. snapshot' = [f \in Files |-> snapshot'[f]] /\ snapshot'["extra"] = Nothing
      BY <2>2, <2>4 DEF Files
    <3>2. \A n \in Members : seen'[n] = stamps'[n] => snapshot'[n] = files'[n]
      BY <2>1, <2>2, <2>4 DEF Members, Files
    <3>. QED BY <1>0, <2>1, <3>1, <3>2
  <2>. QED BY <1>1, <2>3, <2>4 DEF ReadMember, captured, m
<1>2. CASE Stage
  <2>1. at = 17
    BY <1>2, Places DEF Stage, At
  <2>2. UNCHANGED <<seen, stamps, snapshot, target>>
    BY <1>2 DEF Stage, captured
  <2>3. files' = [f \in Files |-> files'[f]]
    BY <1>2 DEF Stage
  <2>4. \A m \in Members : seen'[m] # stamps'[m]
    BY <2>1, <2>2
  <2>. QED BY <1>0, <2>1, <2>2, <2>3, <2>4
<1>3. CASE Outside
  <2>1. UNCHANGED <<at, seen, snapshot>>
    BY <1>3 DEF Outside, capturing, captured
  <2>2. at > 51 => target' = target
    BY <1>3 DEF Outside, TouchRepository, ReplaceTool, TouchTarget, TouchStaging, ExchangeStaging
  <2>3. CASE UNCHANGED <<files, stamps>> /\ (spoiled => spoiled')
    BY <2>1, <2>2, <2>3
  <2>4. CASE TouchStaging
    <3>. PICK f \in Files : \E v \in Values(f) :
           files' = [files EXCEPT ![f] = v] /\ stamps' = [stamps EXCEPT ![f] = @ + 1]
      BY <2>4 DEF TouchStaging
    <3>1. PICK v : /\ files' = [files EXCEPT ![f] = v]
                   /\ stamps' = [stamps EXCEPT ![f] = @ + 1]
      OBVIOUS
    <3>2. \A g \in Files : /\ seen[g] <= stamps[g] /\ seen[g] \in Nat /\ stamps[g] \in Nat
                           /\ stamps'[g] = IF g = f THEN stamps[g] + 1 ELSE stamps[g]
                           /\ files'[g] = IF g = f THEN v ELSE files[g]
      BY <3>1 DEF LastSnapshot
    <3>3. \A m \in Members : seen[m] = stamps'[m] => seen[m] = stamps[m] /\ files'[m] = files[m]
      BY <3>2 DEF Members, Files
    <3>4. files' = [g \in Files |-> files'[g]]
      BY <3>1
    <3>5. at > 32 => spoiled'
      <4>1. at > 32 => \A i \in at .. 52 : Plan[i] # Step("unchanged")
        <5>1. Step("unchanged")[1] = "unchanged"
          BY DEF Step
        <5>. QED BY <5>1, Places
      <4>. QED BY <2>4, <4>1, PlanIsTable DEF TouchStaging, Ahead
    <3>6. \A m \in Members : seen'[m] = stamps'[m] => snapshot'[m] = files'[m]
      BY <2>1, <3>3
    <3>7. at' <= 17 => \A m \in Members : seen'[m] # stamps'[m]
      BY <2>1, <3>3
    <3>8. (at' > 32 => spoiled') /\ (at' > 33 => spoiled')
      BY <2>1, <3>5
    <3>9. /\ snapshot' = [g \in Files |-> snapshot'[g]] /\ snapshot'["extra"] = Nothing
          /\ at' > 51 => target' = "ours"
      BY <2>1, <2>2
    <3>. QED BY ONLY <3>4, <3>6, <3>7, <3>8, <3>9 DEF Kept
  <2>. QED BY <1>3, <2>3, <2>4
    DEF Outside, TouchRepository, ReplaceTool, TouchTarget, ExchangeStaging, bundle
<1>4. CASE UNCHANGED <<files, stamps, spoiled, seen, snapshot>> /\ target' \in {target, "ours"}
  <2>1. at' # at /\ at = 32 => \A m \in Members : seen[m] = stamps[m]
    BY Passing, Deciding
  <2>2. at' # at /\ at = 33 => files["extra"] = Nothing
    <3>1. at' # at /\ at = 33 => {f \in Files : files[f] # Nothing} = Members
      BY Passing, Deciding
    <3>. QED BY <3>1 DEF Files, Members
  <2>3. at' # at /\ at = 51 => target' = "ours"
    BY Passing, Deciding
  <2>. QED BY <1>0, <1>4, <2>1, <2>2, <2>3
<1>5. ASSUME ~ReadMember, ~Stage, ~Outside
      PROVE  UNCHANGED <<files, stamps, spoiled, seen, snapshot>> /\ target' \in {target, "ours"}
  BY <1>5 DEF Next, Capture, Query, Ask, Answer, Keep, Recheck, Producer, CheckTarget, Inventory,
    Validate, Install, SyncParent, UnchangedFiles, ReadFixture, Pin, Own, captured, history,
    bundle, rest, vars
<1>. QED BY <1>1, <1>2, <1>3, <1>4, <1>5

\* All six hold of every state of every capture.
LEMMA CaptureInvHolds == Spec => []CaptureInv
<1>1. Init => CaptureInv
  <2>. SUFFICES ASSUME Init PROVE CaptureInv
    OBVIOUS
  <2>1. Placed
    <3>1. /\ stamps = [f \in Files |-> 1] /\ seen = [f \in Files |-> 0]
          /\ snapshot = [f \in Files |-> Nothing]
      BY DEF Init
    <3>2. head \in 1 .. MaxCommits
      BY CaptureAssumption DEF Init
    <3>3. /\ at = 1 /\ status = "running" /\ asked = FALSE /\ flagged = FALSE
          /\ tool = 0 /\ pinned = 0 /\ outside = 0 /\ found = 0 /\ revision = 0
      BY DEF Init
    <3>4. /\ stamps \in [Files -> Nat] /\ seen \in [Files -> Nat] /\ DOMAIN snapshot = Files
          /\ MaxCommits \in Nat
      BY <3>1, CaptureAssumption
    <3>5. found \in 0 .. MaxCommits /\ revision \in 0 .. MaxCommits
      BY ONLY <3>3, <3>4
    <3>6. flagged \in BOOLEAN /\ ~asked
      BY ONLY <3>3, Zenon
    <3>. QED BY ONLY <3>2, <3>3, <3>4, <3>5, <3>6 DEF Placed
  <2>2. Bracketed /\ LastSnapshot /\ Proven
    BY CaptureAssumption DEF Init, Bracketed, LastSnapshot, Proven, Files, Members
  <2>3. Undisturbed
    BY CaptureAssumption DEF Init, Undisturbed
  <2>4. Kept
    BY DEF Init, Kept, Files, Members
  <2>. QED BY <2>1, <2>2, <2>3, <2>4 DEF CaptureInv
<1>2. CaptureInv /\ [Next]_vars => CaptureInv'
  BY PlacedStep, BracketedStep, UndisturbedStep, LastSnapshotStep, ProvenStep, KeptStep DEF CaptureInv
<1>. QED BY <1>1, <1>2, PTL DEF Spec

\* A capture that reports success has verified the fixture of the very revision that its
\* bundle names, which descends from the baseline, whatever other programs did, and it has
\* installed what it verified, unless they touched it when nobody would look again.
THEOREM EvidenceIsTrue == Spec => []Evidence
<1>1. CaptureInv => Evidence
  <2>. SUFFICES ASSUME CaptureInv, status = "ok" PROVE Evidence
    BY DEF Evidence
  <2>1. at = 52
    BY DEF CaptureInv, Placed
  <2>2. spoiled \/ files = snapshot
    <3>. SUFFICES ASSUME ~spoiled PROVE \A f \in Files : files[f] = snapshot[f]
      BY DEF CaptureInv, Kept
    <3>. QED BY <2>1 DEF CaptureInv, Kept, Files
  <2>. QED BY <2>1, <2>2 DEF CaptureInv, Proven, Kept, Evidence
<1>. QED BY <1>1, CaptureInvHolds, PTL

\* Its checks ran with the pinned executables alone, and on that revision unless two steps
\* of other programs, a change and its undoing, hid it.
THEOREM ChecksRanAsRecorded == Spec => []ChecksAsRecorded
<1>1. CaptureInv => ChecksAsRecorded
  <2>. SUFFICES ASSUME CaptureInv, status = "ok"
                PROVE  ran \subseteq {pinned} /\ (astray => outside >= 2)
    BY DEF ChecksAsRecorded
  <2>1. at = 52 /\ outside \in Nat
    BY DEF CaptureInv, Placed
  <2>2. ran \subseteq {pinned}
    BY <2>1 DEF CaptureInv, Bracketed
  <2>3. astray => ~(outside <= 1)
    BY <2>1 DEF CaptureInv, Undisturbed
  <2>. QED BY <2>1, <2>2, <2>3
<1>. QED BY <1>1, CaptureInvHolds, PTL

\* The files that were verified were in the directory together when the last one was read.
THEOREM SnapshotWasWhole == Spec => []SnapshotWasThere
<1>1. CaptureInv => SnapshotWasThere
  BY DEF CaptureInv, Placed, LastSnapshot, SnapshotWasThere
<1>. QED BY <1>1, CaptureInvHolds, PTL

=============================================================================
