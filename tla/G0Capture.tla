------------------------------ MODULE G0Capture ------------------------------
(***************************************************************************)
(* capture of scripts/capture_g0_evidence.py: bind to a checkout, pin the   *)
(* tools, run the fixed checks, stage a bundle, verify it by itself         *)
(* (g0_evidence.py) and against the repository (g0_repository.py), and      *)
(* install it.  Every command is a BoundedCommand.  Meanwhile other         *)
(* programs edit the checkout, move its HEAD, replace tools, write into the *)
(* staging directory and take the final name.                               *)
(*                                                                          *)
(* The capture is a fixed list of steps, Plan.  Of a command's answer the   *)
(* model keeps what is judged; it is taken at one moment, so that other     *)
(* programs may as well act between commands only.  The fixed commands and  *)
(* the git queries in Played are played step by step; another git query     *)
(* takes one step, in which it answers or fails (ResultWhole justifies it). *)
(***************************************************************************)
EXTENDS BoundedCommand, Sequences, FiniteSets

CONSTANTS
  Baseline,    \* G0_PROVENANCE_BASELINE
  MaxCommits,  \* bound: the commits of the repository
  MaxOutside,  \* bound: steps of other programs
  Nothing,     \* the content of a file that is not there
  Junk,        \* any content outside the closed G0 profile
  Played       \* the steps of Plan whose git queries are played step by step

ASSUME CaptureAssumption ==
  /\ MaxCommits \in Nat /\ Baseline \in 1 .. MaxCommits
  /\ MaxOutside \in Nat /\ Played \subseteq Nat

Members == {"manifest", "fixture", "host"}
Files == Members \cup {"extra"}

VARIABLES
  at,        \* the step of Plan
  status,    \* "running", "ok", "failed" or "interrupted"
  asked,     \* the command of this step has been started
  head, parent, blob,  \* the repository: blob[c] is the fixture manifest of commit c
  worktree,  \* the fixture manifest in the worktree
  flagged,   \* the index hides it from git status
  tool,      \* the identity of the executables, never the same again
  pinned, revision, found,
  copied,    \* fixture_bytes
  files,     \* the members of the bundle, in the directory that the verifier has open
  stamps,    \* their stat identities
  snapshot,  \* what the verifier has read of them
  seen,      \* the identities it has read, 0 for none
  target,    \* "free", "ours" or "theirs"
  outside,   \* how many steps other programs have made
  ran,       \* history: the tools that the fixed commands ran
  astray,    \* history: a check ran on something else than the revision
  there,     \* history: the last snapshot was there at once when its last member was read
  spoiled    \* history: the staging directory was touched when nobody would look again

repository == <<head, parent, blob, worktree, flagged>>
bundle == <<files, stamps>>
captured == <<pinned, revision, found, copied, snapshot, seen>>
history == <<ran, astray, there, spoiled>>
capturing == <<at, status, asked>>
vars == <<command, capturing, repository, tool, captured, bundle, target, outside, history>>

\* The history of a commit: what it descends from, and itself.
Ancestors == LET of[c \in 0 .. MaxCommits] == IF c = 0 THEN {} ELSE {c} \cup of[parent[c]] IN of
Clean == flagged \/ worktree = blob[head]
Untouched == worktree = blob[head] /\ head = revision

-----------------------------------------------------------------------------
(* The plan                                                                *)

Git(query) == <<"git", query>>
Fixed(what) == <<"fixed", what>>
Member(name) == <<"member", name>>
Step(what) == <<what, "">>

Binding == <<Git("root"), Git("worktree")>>
CleanRevision == <<Git("revision"), Git("clean"), Git("index"), Git("settle")>>
\* A second host profile that differs from the first is a probe that has failed.
CollectHost == <<Fixed("probe")>>
Portable ==
  <<Member("manifest"), Step("inventory"), Member("fixture"), Member("host"), Step("inventory"),
    Step("validate"), Step("unchanged"), Step("inventory")>>
Provenance ==
  <<Git("revision"), Git("commits"), Git("descends"), Git("ahead"), Git("clean"), Git("index"),
    Git("blob"), Git("clean"), Git("index"), Git("same")>>
Preparation ==
  Binding \o <<Step("producer"), Step("pin"), Step("target")>> \o CleanRevision
  \o <<Step("recheck")>>
Publishing ==
  <<Step("fixture"), Step("stage")>> \o Portable \o Portable \o Binding \o Provenance
  \o CleanRevision \o <<Step("target"), Step("install"), Step("sync")>>

Plan ==
  Preparation \o CollectHost \o <<Fixed("check"), Step("recheck")>> \o CollectHost
  \o <<Step("recheck")>> \o Publishing

Init ==
  /\ CommandInit
  /\ at = 1 /\ status = "running" /\ asked = FALSE
  /\ head \in {1, Baseline}
  /\ parent = [c \in 1 .. MaxCommits |-> c - 1]
  /\ \E later \in {"a", "b"} :
       blob = [c \in 1 .. MaxCommits |-> IF c <= Baseline THEN "a" ELSE later]
  /\ worktree = blob[head] /\ flagged = FALSE
  /\ tool = 0 /\ pinned = 0 /\ revision = 0 /\ found = 0
  /\ copied = Nothing
  /\ files = [f \in Files |-> Nothing] /\ stamps = [f \in Files |-> 1]
  /\ snapshot = files /\ seen = [f \in Files |-> 0]
  /\ target = "free" /\ outside = 0
  /\ ran = {} /\ astray = FALSE /\ there = FALSE /\ spoiled = FALSE

At(what) == status = "running" /\ Plan[at][1] = what
Advance ==
  /\ at' = IF at = Len(Plan) THEN at ELSE at + 1
  /\ status' = IF at = Len(Plan) THEN "ok" ELSE "running"
Fail == status' = "failed" /\ UNCHANGED at
Judge(good) == IF good THEN Advance ELSE Fail

-----------------------------------------------------------------------------
(* Commands                                                                *)

\* What capture demands of the answer to a query.  The recorded revision and the
\* fixture come from the verified snapshot.
\* Mutant: the fixture is compared with the one at HEAD.
GoodAnswerAtHead(query) ==
  CASE query = "clean" -> Clean
    [] query = "index" -> ~flagged
    [] query = "same" -> head = found
    [] query = "settle" -> head = found /\ revision \in {0, found}
    [] query = "descends" -> Baseline \in Ancestors[snapshot["manifest"].revision]
    [] query = "ahead" -> snapshot["manifest"].revision \in Ancestors[found]
    [] query = "blob" -> blob[found] = snapshot["fixture"]
    [] OTHER -> TRUE

\* Mutant: the revision at the end is not compared with the one of the beginning.
GoodAnswerAnyRevision(query) ==
  CASE query = "clean" -> Clean
    [] query = "index" -> ~flagged
    [] query \in {"same", "settle"} -> head = found
    [] query = "descends" -> Baseline \in Ancestors[snapshot["manifest"].revision]
    [] query = "ahead" -> snapshot["manifest"].revision \in Ancestors[found]
    [] query = "blob" -> blob[snapshot["manifest"].revision] = snapshot["fixture"]
    [] OTHER -> TRUE

GoodAnswer(query) ==
  CASE query = "clean" -> Clean
    [] query = "index" -> ~flagged
    [] query = "same" -> head = found
    [] query = "settle" -> head = found /\ revision \in {0, found}
    [] query = "descends" -> Baseline \in Ancestors[snapshot["manifest"].revision]
    [] query = "ahead" -> snapshot["manifest"].revision \in Ancestors[found]
    [] query = "blob" -> blob[snapshot["manifest"].revision] = snapshot["fixture"]
    [] OTHER -> TRUE

\* What it keeps of the answer: HEAD, and at first the revision to be captured.
Keep(query) ==
  /\ found' = IF query = "revision" THEN head ELSE found
  /\ revision' = IF query = "settle" /\ revision = 0 THEN found ELSE revision
  /\ UNCHANGED <<pinned, copied, snapshot, seen>>

Query ==
  /\ At("git") /\ at \notin Played
  /\ \/ Judge(GoodAnswer(Plan[at][2])) /\ Keep(Plan[at][2])
     \/ Fail /\ UNCHANGED captured
  /\ UNCHANGED <<command, asked, repository, tool, bundle, target, outside, history>>

\* A fixed command runs whatever is now under the pinned path, on whatever is now
\* in the worktree.
Ask ==
  /\ ~asked /\ asked' = TRUE
  /\ \/ At("git") /\ at \in Played /\ Start("git") /\ UNCHANGED <<ran, astray>>
     \/ /\ At("fixed") /\ Start("fixed")
        /\ ran' = ran \cup {tool}
        /\ astray' = (astray \/ (Plan[at][2] = "check" /\ ~Untouched))
  /\ UNCHANGED <<at, status, repository, tool, captured, bundle, target, outside, there, spoiled>>

\* The result is judged, and the next command starts afresh.
Answer ==
  /\ asked /\ asked' = FALSE
  /\ status = "running" /\ place = "done"
  /\ IF failure = "interrupted" THEN status' = "interrupted" /\ UNCHANGED at
     ELSE Judge(failure = "none" /\ code = 0 /\ GoodAnswer(Plan[at][2]))
  /\ IF status' = "running" THEN Keep(Plan[at][2]) ELSE UNCHANGED captured
  /\ kind' = "git" /\ place' = "idle" /\ leader' = "none" /\ child' = "none" /\ code' = 0
  /\ written' = 0 /\ got' = 0 /\ loud' = FALSE /\ open' = {} /\ ready' = {}
  /\ late' = FALSE /\ failure' = "none"
  /\ UNCHANGED <<repository, tool, bundle, target, outside, history>>

-----------------------------------------------------------------------------
(* The capture's own steps; each of them may raise                         *)

Own == UNCHANGED <<command, asked, repository, tool, outside, ran, astray, spoiled>>

Producer ==
  /\ At("producer") /\ (Advance \/ Fail)
  /\ Own /\ UNCHANGED <<captured, bundle, target, there>>

Pin ==
  /\ At("pin")
  /\ \/ pinned' = tool /\ Advance
     \/ Fail /\ UNCHANGED pinned
  /\ Own /\ UNCHANGED <<revision, found, copied, snapshot, seen, bundle, target, there>>

Recheck ==
  /\ At("recheck") /\ Judge(tool = pinned)
  /\ Own /\ UNCHANGED <<captured, bundle, target, there>>

CheckTarget ==
  /\ At("target") /\ (Judge(target = "free") \/ Fail)
  /\ Own /\ UNCHANGED <<captured, bundle, target, there>>

ReadFixture ==
  /\ At("fixture")
  /\ \/ copied' = worktree /\ Advance
     \/ Fail /\ UNCHANGED copied
  /\ Own /\ UNCHANGED <<pinned, revision, found, snapshot, seen, bundle, target, there>>

Manifest(r, f, h) == [revision |-> r, fixture |-> f, host |-> h]

\* The manifest binds the members by their hashes, and itself by the bundle ID.
Stage ==
  /\ At("stage")
  /\ \/ /\ files' = [files EXCEPT !["fixture"] = copied, !["host"] = revision,
                                  !["manifest"] = Manifest(revision, copied, revision)]
        /\ Advance
     \/ Fail /\ UNCHANGED files
  /\ Own /\ UNCHANGED <<captured, stamps, target, there>>

-----------------------------------------------------------------------------
(* _verified_g0_bundle                                                     *)

\* A member is opened and read between two equal stats of its descriptor.  When
\* the last one is read, the snapshot may be what the directory holds.
ReadMember ==
  /\ At("member")
  /\ LET m == Plan[at][2] IN
     IF files[m] = Nothing THEN Fail /\ UNCHANGED <<captured, there>>
     ELSE /\ Advance \/ Fail
          /\ snapshot' = [snapshot EXCEPT ![m] = files[m]]
          /\ seen' = [seen EXCEPT ![m] = stamps[m]]
          /\ there' = \A n \in Members : seen'[n] = stamps[n]
          /\ UNCHANGED <<pinned, revision, found, copied>>
  /\ Own /\ UNCHANGED <<bundle, target>>

Inventory ==
  /\ At("inventory")
  /\ Judge({f \in Files : files[f] # Nothing} = Members) \/ Fail
  /\ Own /\ UNCHANGED <<captured, bundle, target, there>>

\* Schemas, canonical form and every value that the profile fixes.
InProfile(m) == snapshot[m] # Junk
HashesAgree(manifest) == manifest.fixture = snapshot["fixture"] /\ manifest.host = snapshot["host"]
RevisionsAgree(manifest) == manifest.revision = snapshot["host"]

Validate ==
  /\ At("validate")
  /\ Judge(/\ \A m \in Members : InProfile(m)
           /\ HashesAgree(snapshot["manifest"]) /\ RevisionsAgree(snapshot["manifest"]))
  /\ Own /\ UNCHANGED <<captured, bundle, target, there>>

\* Mutant: contents are compared, so that a change and its undoing go unnoticed.
UnchangedContents ==
  /\ At("unchanged")
  /\ Judge(\A m \in Members : files[m] = snapshot[m]) \/ Fail
  /\ Own /\ UNCHANGED <<captured, bundle, target, there>>

\* The stat identities must be those of what was read.
UnchangedFiles ==
  /\ At("unchanged")
  /\ Judge(\A m \in Members : files[m] # Nothing /\ stamps[m] = seen[m]) \/ Fail
  /\ Own /\ UNCHANGED <<captured, bundle, target, there>>

-----------------------------------------------------------------------------
(* Installation                                                            *)

\* renamex_np with RENAME_EXCL.
Install ==
  /\ At("install")
  /\ \/ target = "free" /\ target' = "ours" /\ Advance
     \/ Fail /\ UNCHANGED target
  /\ Own /\ UNCHANGED <<captured, bundle, there>>

\* A failure here is reported though the bundle is installed.
SyncParent ==
  /\ At("sync") /\ (Advance \/ Fail)
  /\ Own /\ UNCHANGED <<captured, bundle, target, there>>

-----------------------------------------------------------------------------
(* Other programs                                                          *)

TouchRepository ==
  /\ \/ /\ \E c \in 1 .. MaxCommits : head' = c /\ worktree' = blob[c]
        /\ UNCHANGED flagged
     \/ worktree' \in {"a", "b"} /\ UNCHANGED <<head, flagged>>
     \/ flagged' = ~flagged /\ UNCHANGED <<head, worktree>>
  /\ UNCHANGED <<parent, blob, tool, bundle, target, spoiled>>

ReplaceTool == tool' = tool + 1 /\ UNCHANGED <<repository, bundle, target, spoiled>>

TouchTarget ==
  /\ target # "ours"
  /\ target' = IF target = "free" THEN "theirs" ELSE "free"
  /\ UNCHANGED <<repository, tool, bundle, spoiled>>

\* What a file may be replaced by.
Values(f) ==
  {Nothing, Junk} \cup
  CASE f = "fixture" -> {"a", "b"}
    [] f = "host" -> 1 .. MaxCommits
    [] f = "manifest" -> {Manifest(c, blob[c], c) : c \in 1 .. MaxCommits}
    [] f = "extra" -> {}

Ahead(step) == \E i \in at .. Len(Plan) : Plan[i] = step

TouchStaging ==
  /\ files["manifest"] # Nothing /\ target # "ours"
  /\ \E f \in Files : \E v \in Values(f) :
       files' = [files EXCEPT ![f] = v] /\ stamps' = [stamps EXCEPT ![f] = @ + 1]
  /\ spoiled' = (spoiled \/ ~Ahead(Step("unchanged")))
  /\ UNCHANGED <<repository, tool, target>>

\* Another directory is put under the name of the one that was opened for the last
\* time; before that it is a new content of all files, which is opened in turn.
ExchangeStaging ==
  /\ files["manifest"] # Nothing /\ target # "ours" /\ ~Ahead(Member("manifest"))
  /\ spoiled' = TRUE
  /\ UNCHANGED <<repository, tool, bundle, target>>

Outside ==
  /\ status = "running" /\ ~asked /\ outside < MaxOutside
  /\ outside' = outside + 1
  /\ TouchRepository \/ ReplaceTool \/ TouchTarget \/ TouchStaging \/ ExchangeStaging
  /\ UNCHANGED <<command, capturing, captured, ran, astray, there>>

-----------------------------------------------------------------------------
Capture ==
  \/ Query \/ Ask \/ Answer \/ Producer \/ Pin \/ Recheck \/ CheckTarget \/ ReadFixture \/ Stage
  \/ ReadMember \/ Inventory \/ Validate \/ UnchangedFiles \/ Install \/ SyncParent

rest == <<capturing, repository, tool, captured, bundle, target, outside, history>>
Next == Capture \/ Outside \/ (CommandStep /\ UNCHANGED rest)
Fairness ==
  /\ WF_vars(Capture) /\ WF_vars(Expire /\ UNCHANGED rest) /\ WF_vars(Reader /\ UNCHANGED rest)
Spec == Init /\ [][Next]_vars /\ Fairness

-----------------------------------------------------------------------------
\* A capture that reports success has verified the fixture manifest of the revision
\* that its bundle records, whatever was in the worktree when it was read, and this
\* revision descends from the baseline.  What it has installed is what it has
\* verified, unless another program wrote into the staging directory after the
\* verifier's last look, or exchanged it after it was opened for the last time: what
\* is under its name is not compared with what was verified before it is renamed.
Evidence ==
  status = "ok" =>
    LET recorded == snapshot["manifest"].revision IN
    /\ snapshot["fixture"] = blob[recorded] /\ Baseline \in Ancestors[recorded]
    /\ target = "ours" /\ (spoiled \/ files = snapshot)

\* The checks ran with the pinned executables and nothing else, whatever was put
\* in their place meanwhile, and on the captured revision, unless somebody changed
\* the checkout and changed it back.
ChecksAsRecorded == status = "ok" => ran \subseteq {pinned} /\ (astray => outside >= 2)

\* What was verified was in the directory as a whole at one time.
SnapshotWasThere == status = "ok" => there

\* The capture ends, whatever the commands do.
CaptureEnds == <>(status # "running")
=============================================================================
