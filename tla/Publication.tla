---------------------------- MODULE Publication ----------------------------
(***************************************************************************)
(* How G3 evidence gets under its final name.  A session document is written *)
(* to a temporary file that is then linked (_publish_new_bytes of           *)
(* python/decodeforge/g3_session.py); a result bundle is staged in a        *)
(* directory that is then renamed without replacement (write_g3_bundle of   *)
(* g3_results.py).  Both take back what they did when a later step fails.   *)
(* Every call may fail, several publishers may want the same name, and      *)
(* other programs may take an object away from it or put one there.         *)
(*                                                                          *)
(* A crash is no action: disk holds every object that a crash at this       *)
(* moment may leave under the name, and durable tells whose content is      *)
(* certain to survive it.                                                   *)
(***************************************************************************)
EXTENDS Naturals

CONSTANTS
  Publishers,
  Pieces,      \* the pieces of a document or the members of a bundle
  None,
  Foreign,     \* another program's file, or a directory of it with something in it
  Vacant,      \* another program's empty directory
  MaxOutside   \* bound: steps of other programs

ASSUME PublicationAssumption ==
  /\ {None, Foreign, Vacant} \cap Publishers = {}
  /\ None \notin {Foreign, Vacant} /\ Foreign # Vacant
  /\ Pieces \in Nat \ {0} /\ MaxOutside \in Nat

Objects == Publishers \cup {Foreign, Vacant}

VARIABLES
  kind,     \* "document" or "bundle"
  target,   \* the object under the final name
  disk,     \* what a crash may leave there
  pieces,   \* how much of a publisher's object there is
  durable,  \* the publishers whose whole object survives a crash
  temp,     \* the publishers whose temporary name is there
  placed,   \* linked, or installed_name is not None
  seen,     \* linked_identity
  unclean,  \* the publishers of which a step of taking back failed
  pc,
  outside

name == <<target, disk>>
object == <<pieces, durable>>
local == <<placed, seen, unclean>>
vars == <<kind, name, object, temp, local, pc, outside>>

Init ==
  /\ kind \in {"document", "bundle"}
  /\ target = None /\ disk = {None}
  /\ pieces = [p \in Publishers |-> 0] /\ durable = {}
  /\ temp = {} /\ placed = {} /\ unclean = {}
  /\ seen = [p \in Publishers |-> None]
  /\ pc = [p \in Publishers |-> "start"]
  /\ outside = 0

At(p, k, place) == pc[p] = place /\ kind = k /\ UNCHANGED <<kind, outside>>
Goto(p, place) == pc' = [pc EXCEPT ![p] = place]

\* The name changes at once for every program, and on disk at some time later.
Enter(o) == target' = o /\ disk' = disk \cup {o}
SyncName == disk' = {target} /\ UNCHANGED target

-----------------------------------------------------------------------------
(* Where a document or a bundle goes when a call fails                     *)

Fail(p) ==
  /\ Goto(p, IF kind = "bundle" THEN "check" ELSE IF p \in placed THEN "rollback" ELSE "cleanup")
  /\ UNCHANGED <<name, object, temp, local>>

GiveUp(p, place) ==
  /\ Goto(p, place) /\ unclean' = unclean \cup {p}
  /\ UNCHANGED <<name, object, temp, placed, seen>>

-----------------------------------------------------------------------------
(* _publish_new_bytes                                                      *)

CreateFile(p) ==
  /\ At(p, "document", "start")
  /\ \/ temp' = temp \cup {p} /\ Goto(p, "write") /\ UNCHANGED <<name, object, local>>
     \/ Goto(p, "failed") /\ UNCHANGED <<name, object, temp, local>>

WriteFile(p) ==
  /\ At(p, "document", "write")
  /\ \E n \in 0 .. Pieces :
       /\ pieces' = [pieces EXCEPT ![p] = n]
       /\ \/ n = Pieces /\ Goto(p, "sync")
          \/ Goto(p, "cleanup")
  /\ UNCHANGED <<name, durable, temp, local>>

\* Mutant: the file is linked before its content is synchronized.
SyncFileLater(p) ==
  /\ At(p, "document", "sync")
  /\ Goto(p, "place")
  /\ UNCHANGED <<name, object, temp, local>>

SyncFile(p) ==
  /\ At(p, "document", "sync")
  /\ \/ /\ durable' = durable \cup {p}
        /\ Goto(p, "place")
        /\ UNCHANGED <<name, pieces, temp, local>>
     \/ Fail(p)

\* os.link never replaces anything.
Link(p) ==
  /\ At(p, "document", "place")
  /\ \/ /\ target = None
        /\ Enter(p)
        /\ placed' = placed \cup {p}
        /\ Goto(p, "identify")
        /\ UNCHANGED <<object, temp, seen, unclean>>
     \/ Fail(p)

\* What the name refers to by now is taken for the published file.
Identify(p) ==
  /\ At(p, "document", "identify")
  /\ \/ /\ target # None
        /\ seen' = [seen EXCEPT ![p] = target]
        /\ Goto(p, "syncName")
        /\ UNCHANGED <<name, object, temp, placed, unclean>>
     \/ Fail(p)

SyncLink(p) ==
  /\ At(p, "document", "syncName")
  /\ \/ SyncName /\ Goto(p, "unlinkTemp") /\ UNCHANGED <<object, temp, local>>
     \/ Fail(p)

UnlinkTemp(p) ==
  /\ At(p, "document", "unlinkTemp")
  /\ \/ temp' = temp \ {p} /\ Goto(p, "syncAgain") /\ UNCHANGED <<name, object, local>>
     \/ Fail(p)

SyncAgain(p) ==
  /\ At(p, "document", "syncAgain")
  /\ \/ SyncName /\ Goto(p, "ok") /\ UNCHANGED <<object, temp, local>>
     \/ Fail(p)

\* The name must still refer to what it referred to.
Rollback(p) ==
  /\ At(p, "document", "rollback")
  /\ \/ /\ target # None /\ target = seen[p]
        /\ Goto(p, "withdraw")
        /\ UNCHANGED <<name, object, temp, local>>
     \/ GiveUp(p, "cleanup")

Withdraw(p) ==
  /\ At(p, "document", "withdraw")
  /\ \/ /\ target \notin {None, Vacant}
        /\ Enter(None)
        /\ Goto(p, "syncWithdrawal")
        /\ UNCHANGED <<object, temp, local>>
     \/ GiveUp(p, "cleanup")

\* Mutant: the directory is not synchronized after the unlink.
SyncWithdrawalNot(p) ==
  /\ At(p, "document", "syncWithdrawal")
  /\ Goto(p, "cleanup")
  /\ UNCHANGED <<name, object, temp, local>>

SyncWithdrawal(p) ==
  /\ At(p, "document", "syncWithdrawal")
  /\ \/ SyncName /\ Goto(p, "cleanup") /\ UNCHANGED <<object, temp, local>>
     \/ GiveUp(p, "cleanup")

\* The temporary name goes, and the directory is synchronized.
Cleanup(p) ==
  /\ At(p, "document", "cleanup")
  /\ IF p \in temp
       THEN \/ temp' = temp \ {p} /\ SyncName /\ Goto(p, "failed") /\ UNCHANGED <<object, local>>
            \/ temp' = temp \ {p} /\ Goto(p, "failed") /\ UNCHANGED <<name, object, local>>
            \/ GiveUp(p, "failed")
       ELSE Goto(p, "failed") /\ UNCHANGED <<name, object, temp, local>>

-----------------------------------------------------------------------------
(* write_g3_bundle                                                         *)

\* The name must be free already before anything is staged.  A directory that was
\* made and cannot be opened is left behind.
Stage(p) ==
  /\ At(p, "bundle", "start")
  /\ \/ /\ target = None
        /\ temp' = temp \cup {p}
        /\ Goto(p, "write")
        /\ UNCHANGED <<name, object, local>>
     \/ Goto(p, "failed") /\ UNCHANGED <<name, object, temp, local>>
     \/ /\ target = None
        /\ temp' = temp \cup {p} /\ unclean' = unclean \cup {p}
        /\ Goto(p, "failed")
        /\ UNCHANGED <<name, object, placed, seen>>

\* A member that could not be written is removed again.
WriteMember(p) ==
  /\ At(p, "bundle", "write")
  /\ \/ /\ pieces[p] < Pieces
        /\ pieces' = [pieces EXCEPT ![p] = @ + 1]
        /\ UNCHANGED <<name, durable, temp, local, pc>>
     \/ /\ pieces[p] = Pieces
        /\ durable' = durable \cup {p}
        /\ Goto(p, "place")
        /\ UNCHANGED <<name, pieces, temp, local>>
     \/ Fail(p)

\* The staged content is read again, and renamed if the name is still free.
Install(p) ==
  /\ At(p, "bundle", "place")
  /\ \/ /\ target = None
        /\ Enter(p)
        /\ temp' = temp \ {p}
        /\ placed' = placed \cup {p}
        /\ Goto(p, "identify")
        /\ UNCHANGED <<object, seen, unclean>>
     \/ Fail(p)

\* The installed object must be the staged one, with the same content.
Recognize(p) ==
  /\ At(p, "bundle", "identify")
  /\ \/ target = p /\ Goto(p, "syncName") /\ UNCHANGED <<name, object, temp, local>>
     \/ Fail(p)

\* Mutant: the parent directory is not synchronized.
SyncParentNot(p) ==
  /\ At(p, "bundle", "syncName")
  /\ Goto(p, "confirm")
  /\ UNCHANGED <<name, object, temp, local>>

SyncParent(p) ==
  /\ At(p, "bundle", "syncName")
  /\ \/ SyncName /\ Goto(p, "confirm") /\ UNCHANGED <<object, temp, local>>
     \/ Fail(p)

\* The path must still lead to the directory.
Confirm(p) ==
  /\ At(p, "bundle", "confirm")
  /\ \/ Goto(p, "ok") /\ UNCHANGED <<name, object, temp, local>>
     \/ Fail(p)

\* _cleanup_staging begins: the object must be the own one, at the final name
\* if it was installed.
Check(p) ==
  /\ At(p, "bundle", "check")
  /\ \/ /\ p \in placed => target = p
        /\ Goto(p, "remove")
        /\ UNCHANGED <<name, object, temp, local>>
     \/ GiveUp(p, "failed")

RemoveMember(p) ==
  /\ At(p, "bundle", "remove") /\ pieces[p] > 0
  /\ \/ /\ pieces' = [pieces EXCEPT ![p] = @ - 1]
        /\ durable' = durable \ {p}
        /\ UNCHANGED <<name, temp, local, pc>>
     \/ GiveUp(p, "failed")

\* The directories with nothing in them, which os.rmdir removes, whoever made them.
EmptyDirectories == {Vacant} \cup {p \in Publishers : pieces[p] = 0}

\* Mutant: whatever is under the name is removed with all that is in it.
RemoveTree(p) ==
  /\ At(p, "bundle", "remove") /\ pieces[p] = 0
  /\ IF p \in placed
       THEN Enter(None) /\ UNCHANGED temp
       ELSE temp' = temp \ {p} /\ UNCHANGED name
  /\ Goto(p, "syncRemoval")
  /\ UNCHANGED <<object, local>>

\* The directory is removed by its name, at which Check was the last look: the
\* name may have passed to something else since.
RemoveDirectory(p) ==
  /\ At(p, "bundle", "remove") /\ pieces[p] = 0
  /\ \/ /\ p \notin placed
        /\ temp' = temp \ {p}
        /\ Goto(p, "syncRemoval")
        /\ UNCHANGED <<name, object, local>>
     \/ /\ p \in placed /\ target \in EmptyDirectories
        /\ Enter(None)
        /\ Goto(p, "syncRemoval")
        /\ UNCHANGED <<object, temp, local>>
     \/ GiveUp(p, "failed")

\* That this fails is not reported.
SyncRemoval(p) ==
  /\ At(p, "bundle", "syncRemoval")
  /\ \/ SyncName /\ Goto(p, "failed") /\ UNCHANGED <<object, temp, local>>
     \/ GiveUp(p, "failed")

-----------------------------------------------------------------------------
\* Other programs take away what is under the name, or put something there.
Outside ==
  /\ outside < MaxOutside
  /\ outside' = outside + 1
  /\ IF target = None
       THEN \E o \in {Foreign, Vacant} : Enter(o)
       ELSE Enter(None)
  /\ UNCHANGED <<kind, object, temp, local, pc>>

PublishDocument(p) ==
  \/ CreateFile(p) \/ WriteFile(p) \/ SyncFile(p) \/ Link(p) \/ Identify(p)
  \/ SyncLink(p) \/ UnlinkTemp(p) \/ SyncAgain(p)
  \/ Rollback(p) \/ Withdraw(p) \/ SyncWithdrawal(p) \/ Cleanup(p)

PublishBundle(p) ==
  \/ Stage(p) \/ WriteMember(p) \/ Install(p) \/ Recognize(p) \/ SyncParent(p) \/ Confirm(p)
  \/ Check(p) \/ RemoveMember(p) \/ RemoveDirectory(p) \/ SyncRemoval(p)

Next == Outside \/ \E p \in Publishers : PublishDocument(p) \/ PublishBundle(p)

Spec == Init /\ [][Next]_vars

-----------------------------------------------------------------------------
\* Every variable keeps its type.
TypeOK ==
  /\ kind \in {"document", "bundle"}
  /\ target \in Objects \cup {None} /\ disk \subseteq Objects \cup {None}
  /\ pieces \in [Publishers -> 0 .. Pieces]
  /\ durable \subseteq Publishers /\ temp \subseteq Publishers
  /\ placed \subseteq Publishers /\ unclean \subseteq Publishers
  /\ seen \in [Publishers -> Objects \cup {None}]
  /\ pc \in [Publishers -> {"start", "write", "sync", "place", "identify", "syncName",
       "unlinkTemp", "syncAgain", "confirm", "ok", "rollback", "withdraw", "syncWithdrawal",
       "cleanup", "check", "remove", "syncRemoval", "failed"}]
  /\ outside \in 0 .. MaxOutside

\* The bundles that are being taken down, or whose publisher has given up on it.
TakenDown == {p \in Publishers : kind = "bundle" /\ pc[p] \in {"remove", "syncRemoval", "failed"}}

\* Nobody ever finds half a document or half a bundle under the name, not after a
\* crash either, but for a bundle that its own publisher is taking down.
NothingTorn == (disk \cup {target}) \cap Publishers \subseteq durable \cup TakenDown

\* "Durably publish": what a publisher has reported as published stays, whatever
\* crashes and whoever else tries, unless another program interferes.
OkIsDurable == outside = 0 => \A p \in Publishers : pc[p] = "ok" => disk = {p}

\* A publisher that fails and finds no obstacle in taking back leaves nothing
\* behind, under neither name and at no later time.
FailureWithdraws ==
  \A p \in Publishers :
    pc[p] = "failed" /\ p \notin unclean => p \notin disk \cup {target} \cup temp

\* Nothing of anybody else's: the name was free, the publisher's own, or that of
\* an empty directory, which another program has put there or another publisher is
\* itself taking down.
OthersUntouched ==
  \A p \in Publishers : pc'[p] # pc[p] /\ target' # target =>
    \/ target \in {None, p}
    \/ target' = None /\ target \in EmptyDirectories \cap (TakenDown \cup {Vacant})

\* A publisher of a bundle replaces nothing under the name, and removes nothing that
\* holds anything but its own object, whoever else is at work between its check of
\* the name and its removal.
BundlesKeepOthers == [][kind = "bundle" => OthersUntouched]_vars
=============================================================================
