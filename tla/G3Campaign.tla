----------------------------- MODULE G3Campaign -----------------------------
(***************************************************************************)
(* The G3 campaign: a preparation receipt, three sessions in processes of   *)
(* their own, their analysis and the verification of the bundle             *)
(* (g3_preparation.py, the surroundings of run_session in g3_session.py,    *)
(* g3_results.py).  The operator may choose any receipt, index and triple   *)
(* of sessions, repeat a session or prepare twice.                          *)
(*                                                                          *)
(* A session's inside is G3Session, and how documents and bundles get their *)
(* names is Publication; here an accepted session and a bundle are there at *)
(* once.  Sessions write nothing that others read, so they run one after    *)
(* the other, which is also the only case in which a process ID can recur;  *)
(* and they wait for a capture that has not published its receipt yet, as   *)
(* they cannot see it.  A session that fails leaves no document.  When the  *)
(* bundle is there the campaign is over, and only the bundle is written to. *)
(***************************************************************************)
EXTENDS PreparationReceipt, Sequences

CONSTANTS
  Pids,         \* process IDs
  MaxSessions,  \* bound: accepted sessions
  MaxLater      \* bound: steps of other programs, MaxOutside of them in the first capture only

ASSUME CampaignAssumption == MaxSessions \in Nat /\ MaxLater \in Nat

\* Of the ten members, the one the others are computed from and one read before it.
Members == {"README.md", "analysis.json"}
Order == <<"README.md", "analysis.json">>

VARIABLES
  sPlace, sLook, sSeen,  \* the session that runs, as in PreparationReceipt
  sRevision,             \* checkout_preflight
  sReceipt,              \* preparation_receipt
  docs,                  \* the documents of the accepted sessions
  sMoves, sStood,        \* history, as in PreparationReceipt
  aPlace, verified,      \* the analysis, and the receipt that it verified
  basis,                 \* what the bundle was built from
  bundle, version,       \* the members as they stand, and the directory's stat identity
  got, opened,           \* what the verification has read, and the identity at first
  rewritten              \* history: a member was rewritten in place

session == <<sPlace, sLook, sSeen, sRevision, sReceipt, sMoves, sStood>>
analysis == <<aPlace, verified, basis>>
result == <<bundle, version, got, opened, rewritten>>
vars == <<receiptVars, session, docs, analysis, result>>

NoDocument == [m \in Members |-> "none"]

Init ==
  /\ ReceiptInit
  /\ sPlace = "idle" /\ sLook = 1 /\ sSeen = Unknown /\ sRevision = Unknown
  /\ sReceipt = Absent /\ docs = <<>> /\ sMoves = 0 /\ sStood = {}
  /\ aPlace = "idle" /\ verified = Absent /\ basis = [receipt |-> Absent]
  /\ bundle = NoDocument /\ version = 0 /\ got = <<>> /\ opened = 0
  /\ rewritten = FALSE

Collecting == aPlace \notin {"built", "read", "verified", "refused"}
Calm == outside <= MaxLater
Visible == place \in {"idle", "compare", "sync", "load", "rollback"} \/ look = 3

-----------------------------------------------------------------------------
(* A session                                                               *)

Idle ==
  /\ sPlace' = "idle" /\ sLook' = 1 /\ sSeen' = Unknown /\ sRevision' = Unknown
  /\ sReceipt' = Absent /\ sMoves' = 0 /\ sStood' = {}

SGoto(where) == sPlace' = where /\ UNCHANGED <<sLook, sSeen, sRevision, sReceipt, sMoves, sStood>>

BeginSession ==
  /\ sPlace = "idle" /\ Len(docs) < MaxSessions
  /\ sPlace' = "head" /\ sStood' = CleanAt
  /\ UNCHANGED <<sLook, sSeen, sRevision, sReceipt, sMoves, docs>>

SessionFails == sPlace # "idle" /\ Idle /\ UNCHANGED docs

\* _checkout_evidence: the same three queries, and the producers' files.
SReadHead ==
  /\ sPlace = "head" /\ sSeen' = head /\ sPlace' = "status"
  /\ UNCHANGED <<sLook, sRevision, sReceipt, sMoves, sStood, docs>>

SReadStatus ==
  /\ sPlace = "status" /\ (~dirty \/ flagged)
  /\ SGoto("flags") /\ UNCHANGED docs

\* Mutant: the flags of the index are not looked at.
SReadFlagsNot ==
  /\ sPlace = "flags"
  /\ sLook = 2 => sSeen = sRevision
  /\ sRevision' = sSeen /\ sPlace' = IF sLook = 1 THEN "receipt" ELSE "end"
  /\ UNCHANGED <<sLook, sSeen, sReceipt, sMoves, sStood, docs>>

SReadFlags ==
  /\ sPlace = "flags" /\ ~flagged
  /\ sLook = 2 => sSeen = sRevision
  /\ sRevision' = sSeen /\ sPlace' = IF sLook = 1 THEN "receipt" ELSE "end"
  /\ UNCHANGED <<sLook, sSeen, sReceipt, sMoves, sStood, docs>>

\* The receipt under a name is verified and must be for this revision; of its
\* command, the executable is hashed once more.
SLoadReceipt(p) ==
  /\ sPlace = "receipt" /\ Verifies(p)
  /\ receipt[file[p]].revision = sRevision
  /\ sReceipt' = file[p] /\ sPlace' = "command"
  /\ UNCHANGED <<sLook, sSeen, sRevision, sMoves, sStood, docs>>

SVerifyCommand ==
  /\ sPlace = "command" /\ tool = receipt[sReceipt].identity
  /\ sLook' = 2 /\ sPlace' = "head"
  /\ UNCHANGED <<sSeen, sRevision, sReceipt, sMoves, sStood, docs>>

Accept ==
  /\ sPlace = "end"
  /\ docs' = Append(docs, [revision |-> sRevision, receipt |-> sReceipt])
  /\ Idle

Session ==
  /\ Collecting /\ Visible /\ Calm
  /\ \/ BeginSession \/ SessionFails \/ SReadHead \/ SReadStatus \/ SReadFlags \/ SVerifyCommand
     \/ Accept \/ \E p \in Captures : SLoadReceipt(p)
  /\ UNCHANGED <<receiptVars, analysis, result>>

-----------------------------------------------------------------------------
(* The analysis                                                            *)

\* analyze_and_write_g3_result: the receipt is verified, then loaded again.
VerifyReceipt(p) ==
  /\ aPlace = "idle" /\ Verifies(p)
  /\ verified' = file[p] /\ aPlace' = "again" /\ UNCHANGED basis

LoadAgain(p) ==
  /\ aPlace = "again"
  /\ IF file[p] = verified THEN aPlace' = "sessions" /\ UNCHANGED verified
     ELSE aPlace' = "idle" /\ verified' = Absent
  /\ UNCHANGED basis

\* load_g3_sessions: three files, of which several may hold the same session.
Loads == [1 .. 3 -> DOMAIN docs]

\* analyze_g3_sessions: the sessions are those with the indices 0, 1, 2, sorted, in
\* three processes.  Index and process ID of a session matter here only, so that
\* they are chosen here.
Labels == [DOMAIN docs -> 0 .. 2] \X [DOMAIN docs -> Pids]
Sorted(load, label) == \A i \in 1 .. 3 : label[1][load[i]] = i - 1
Distinct(load, label) == \A i, j \in 1 .. 3 : label[2][load[i]] = label[2][load[j]] => i = j
SharedProvenance(load) == \A i, j \in 1 .. 3 : docs[load[i]] = docs[load[j]]

\* Mutant: the sessions' receipt is not compared with the given one.
BindsAny(load, r) == \A i \in 1 .. 3 : docs[load[i]].revision = receipt[r].revision

\* _bind_preparation_receipt
Binds(load, r) ==
  \A i \in 1 .. 3 : docs[load[i]].receipt = r /\ docs[load[i]].revision = receipt[r].revision

\* The bundle is built from what was loaded and gets its name.
Build(load) ==
  /\ aPlace = "sessions"
  /\ SharedProvenance(load) /\ Binds(load, verified)
  /\ \E label \in Labels :
       /\ Sorted(load, label) /\ Distinct(load, label)
       /\ basis' = [receipt |-> verified, sessions |-> load, pids |-> label[2]]
  /\ aPlace' = "built" /\ verified' = Absent
  /\ bundle' = [m \in Members |-> "this"] /\ version' = 1

\* Anything raises: a receipt that does not bind, or a bundle that is not written.
AnalysisFails ==
  /\ aPlace \in {"again", "sessions"}
  /\ aPlace' = "idle" /\ verified' = Absent /\ UNCHANGED basis

Analysis ==
  /\ Visible /\ Calm
  /\ \/ (\/ AnalysisFails \/ \E p \in Captures : VerifyReceipt(p) \/ LoadAgain(p))
        /\ UNCHANGED <<bundle, version>>
     \/ \E load \in Loads : Build(load)
  /\ UNCHANGED <<receiptVars, session, docs, got, opened, rewritten>>

-----------------------------------------------------------------------------
(* verify_g3_result                                                        *)

OpenBundle ==
  /\ aPlace = "built" /\ aPlace' = "read"
  /\ opened' = version /\ UNCHANGED got

\* Each member is read between two equal stats.
ReadMember ==
  /\ aPlace = "read" /\ Len(got) < Len(Order)
  /\ got' = Append(got, bundle[Order[Len(got) + 1]])
  /\ UNCHANGED <<aPlace, opened>>

\* Every member is recomputed from the analysis.
Recomputes == got[2] \in {"this", "other"} /\ \A i \in 1 .. Len(got) : got[i] = got[2]

\* Mutant: the directory is not looked at again.
SameDirectoryAssumed == TRUE

SameDirectory == version = opened

FinishVerification ==
  /\ aPlace = "read" /\ Len(got) = Len(Order)
  /\ aPlace' = IF SameDirectory /\ Recomputes THEN "verified" ELSE "refused"
  /\ UNCHANGED <<got, opened>>

Verification ==
  /\ OpenBundle \/ ReadMember \/ FinishVerification
  /\ UNCHANGED <<receiptVars, session, docs, verified, basis, bundle, version, rewritten>>

\* Others put a member of another bundle, or anything, in the place of a member.
Tamper ==
  /\ aPlace \in {"built", "read"}
  /\ outside <= MaxLater /\ outside' = outside + 1
  /\ \E m \in Members, v \in {"this", "other", "junk"} : bundle' = [bundle EXCEPT ![m] = v]
  /\ \/ version' = version + 1 /\ UNCHANGED rewritten
     \/ rewritten' = TRUE /\ UNCHANGED version
  /\ UNCHANGED <<checkout, tool, names, receipt, reading, outcome, stuck, history, session, docs, analysis,
                 got, opened>>

-----------------------------------------------------------------------------
\* Others change the world of the preparation, and with it that of the session.
OutsideSession ==
  /\ Collecting /\ Outside
  /\ (capture = 1 /\ place # "idle") \/ outside < MaxLater
  /\ IF sPlace = "idle" THEN UNCHANGED <<sMoves, sStood>>
     ELSE /\ sMoves' = sMoves + IF checkout' = checkout THEN 0 ELSE 1
          /\ sStood' = sStood \cup CleanAt'
  /\ UNCHANGED <<sPlace, sLook, sSeen, sRevision, sReceipt, docs, analysis, result>>

Preparation ==
  /\ Collecting /\ CaptureStep
  /\ capture' > 1 => Calm
  /\ place = "idle" => sPlace = "idle" /\ aPlace = "idle"
  /\ UNCHANGED <<session, docs, analysis, result>>

Next == Preparation \/ Session \/ Analysis \/ Verification \/ OutsideSession \/ Tamper
Spec == Init /\ [][Next]_vars

-----------------------------------------------------------------------------
\* A session that is accepted ran on a revision that stood clean in the checkout
\* at one moment of it, unless the checkout was changed twice while it ran.
SessionStoodClean ==
  sPlace = "end" /\ sMoves <= 1 => sRevision \in sStood

\* A bundle is about three executions in processes with different IDs, all made
\* on the revision of one receipt and with that receipt.
BundleCoherent ==
  basis.receipt # Absent =>
    /\ \A i, j \in 1 .. 3 :
         i # j => /\ basis.sessions[i] # basis.sessions[j]
                  /\ basis.pids[basis.sessions[i]] # basis.pids[basis.sessions[j]]
    /\ \A i \in 1 .. 3 :
         LET doc == docs[basis.sessions[i]]
         IN  /\ doc.receipt = basis.receipt
             /\ doc.revision = receipt[basis.receipt].revision

\* A bundle is verified as it stands, all members at once, unless one was
\* rewritten in place: the directory's identity covers what was read first.
VerifiedAsItStands ==
  [][aPlace' = "verified" => rewritten \/ \A i \in 1 .. Len(Order) : got[i] = bundle[Order[i]]]_vars
=============================================================================
