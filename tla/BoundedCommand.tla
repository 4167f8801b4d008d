--------------------------- MODULE BoundedCommand ---------------------------
(***************************************************************************)
(* One command run with a deadline and an output limit: _run_git_process of *)
(* python/decodeforge/g0_repository.py (kind "git") and _run_bounded of     *)
(* scripts/capture_g0_evidence.py (kind "fixed").  The command is a process *)
(* group of its own: a leader, and perhaps a child that inherits the pipes. *)
(* A git query must be silent on stderr and may end with any code; a fixed  *)
(* command must end with code 0 and may leave nobody of its group behind.   *)
(*                                                                          *)
(* Output is counted in pieces.  A descendant that starts a session of its  *)
(* own leaves the group, and is out of the code's and of the model's reach. *)
(***************************************************************************)
EXTENDS Naturals

CONSTANTS
  Limit,     \* the pieces of output a command may write
  MaxPieces  \* bound: the pieces a command does write

ASSUME CommandAssumption == Limit \in Nat /\ MaxPieces \in Nat

VARIABLES
  kind,     \* "git" or "fixed"
  place,    \* "idle", "read" (before a select), "events" or "done"
  leader,   \* "none", "running", "exited" or "reaped"
  child,    \* "none", "piped" (holds the pipes), "silent" (has closed them) or "dead"
  code,     \* the exit code of the leader
  written,  \* pieces written to stdout
  got,      \* pieces read from it
  loud,     \* something was written to stderr
  open,     \* the pipes in the selector's map
  ready,    \* the events of the present round that are still to be handled
  late,     \* the deadline has passed
  failure   \* of the result: "none" if there is none

processes == <<leader, child, code, written, loud>>
reader == <<got, open, ready>>
command == <<kind, place, processes, reader, late, failure>>

CommandInit ==
  /\ kind = "git" /\ place = "idle"
  /\ leader = "none" /\ child = "none" /\ code = 0
  /\ written = 0 /\ got = 0 /\ loud = FALSE
  /\ open = {} /\ ready = {}
  /\ late = FALSE /\ failure = "none"

Running == place \in {"read", "events"}
ChildAlive == child \in {"piped", "silent"}
Alive == leader = "running" \/ ChildAlive

\* Somebody can still write to the pipes.
Held == leader = "running" \/ child = "piped"

-----------------------------------------------------------------------------
(* The processes of the group                                              *)

Write ==
  /\ Held /\ Running
  /\ \/ written < MaxPieces /\ written' = written + 1 /\ UNCHANGED loud
     \/ kind = "git" /\ ~loud /\ loud' = TRUE /\ UNCHANGED written
  /\ UNCHANGED <<kind, place, leader, child, code, reader, late, failure>>

Fork ==
  /\ leader = "running" /\ child = "none" /\ Running
  /\ child' = "piped"
  /\ UNCHANGED <<kind, place, leader, code, written, loud, reader, late, failure>>

ChildLeaves ==
  /\ ChildAlive /\ Running
  /\ \/ child = "piped" /\ child' = "silent"
     \/ child' = "dead"
  /\ UNCHANGED <<kind, place, leader, code, written, loud, reader, late, failure>>

LeaderExits ==
  /\ leader = "running" /\ Running
  /\ leader' = "exited"
  /\ code' \in {0, 1}
  /\ UNCHANGED <<kind, place, child, written, loud, reader, late, failure>>

-----------------------------------------------------------------------------
(* The reader                                                              *)

\* A pipe is readable when there is something in it, or at its end.
\* Mutant: the end is inferred from the leader's exit.
ReadableOfLeader(pipe) ==
  \/ pipe = "out" /\ got < written
  \/ pipe = "err" /\ loud
  \/ leader # "running"

Readable(pipe) ==
  \/ pipe = "out" /\ got < written
  \/ pipe = "err" /\ loud
  \/ ~Held

Start(k) ==
  /\ place \in {"idle", "done"}
  /\ kind' = k
  /\ child' = "none" /\ code' = 0 /\ written' = 0 /\ got' = 0 /\ loud' = FALSE
  /\ ready' = {} /\ late' = FALSE
  /\ \/ /\ leader' = "running" /\ place' = "read" /\ failure' = "none"
        /\ open' = IF k = "git" THEN {"out", "err"} ELSE {"out"}
     \/ leader' = "none" /\ place' = "done" /\ failure' = "execution" /\ open' = {}

\* _terminate: kill the group and reap the leader.
KillGroup ==
  /\ leader' = "reaped"
  /\ child' = IF ChildAlive THEN "dead" ELSE child

Stop(why) ==
  /\ KillGroup
  /\ place' = "done" /\ failure' = why
  /\ UNCHANGED <<kind, code, written, loud, reader, late>>

\* Mutant: the select waits without a timeout.
SelectForEver ==
  /\ place = "read" /\ open # {}
  /\ \E pipe \in open : Readable(pipe)
  /\ ready' = {pipe \in open : Readable(pipe)}
  /\ place' = "events"
  /\ UNCHANGED <<kind, processes, got, open, late, failure>>

\* The deadline is looked at once in a round, then all readable pipes are served.
Select ==
  /\ place = "read" /\ open # {}
  /\ \/ late /\ Stop("timeout")
     \/ /\ ~late
        /\ \E pipe \in open : Readable(pipe)
        /\ ready' = {pipe \in open : Readable(pipe)}
        /\ place' = "events"
        /\ UNCHANGED <<kind, processes, got, open, late, failure>>

Served(pipe) ==
  /\ ready' = ready \ {pipe}
  /\ place' = IF ready = {pipe} THEN "read" ELSE "events"
  /\ UNCHANGED <<kind, processes, late, failure>>

\* A read takes at most one piece more than the limit leaves.
ReadOut ==
  /\ place = "events" /\ "out" \in ready
  /\ \/ /\ got < written
        /\ \E n \in 1 .. written - got :
             /\ n <= Limit + 1 - got
             /\ IF got + n > Limit
                  THEN Stop("output-limit")
                  ELSE got' = got + n /\ Served("out") /\ UNCHANGED open
     \/ got = written /\ open' = open \ {"out"} /\ Served("out") /\ UNCHANGED got

ReadErr ==
  /\ place = "events" /\ "err" \in ready
  /\ IF loud THEN Stop("stderr")
             ELSE open' = open \ {"err"} /\ Served("err") /\ UNCHANGED got

\* Mutant: a fixed command that ended well is not cleared away.
ReapOnly ==
  /\ place = "read" /\ open = {}
  /\ \/ late /\ Stop("timeout")
     \/ /\ ~late /\ leader = "exited"
        /\ leader' = "reaped" /\ UNCHANGED child
        /\ place' = "done"
        /\ failure' = IF kind = "fixed" /\ code # 0 THEN "returncode" ELSE "none"
        /\ UNCHANGED <<kind, code, written, loud, reader, late>>

\* Both pipes are at their end: wait for the leader.
Reap ==
  /\ place = "read" /\ open = {}
  /\ \/ late /\ Stop("timeout")
     \/ /\ ~late /\ leader = "exited"
        /\ IF kind = "fixed" THEN KillGroup ELSE leader' = "reaped" /\ UNCHANGED child
        /\ place' = "done"
        /\ failure' = IF kind = "fixed" /\ code # 0 THEN "returncode" ELSE "none"
        /\ UNCHANGED <<kind, code, written, loud, reader, late>>

\* The selector or a read raises OSError.
ReadFails == Running /\ Stop("execution")

\* A KeyboardInterrupt runs the finally clause, which kills the group only while
\* its leader runs.
Interrupt ==
  /\ Running
  /\ IF leader = "running" THEN KillGroup
     ELSE leader' = "reaped" /\ UNCHANGED child
  /\ place' = "done" /\ failure' = "interrupted"
  /\ UNCHANGED <<kind, code, written, loud, reader, late>>

Expire ==
  /\ Running /\ ~late
  /\ late' = TRUE
  /\ UNCHANGED <<kind, place, processes, reader, failure>>

-----------------------------------------------------------------------------
Group == Write \/ Fork \/ ChildLeaves \/ LeaderExits
Reader == Select \/ ReadOut \/ ReadErr \/ Reap
CommandStep == Group \/ Reader \/ ReadFails \/ Interrupt \/ Expire
CommandNext == CommandStep \/ \E k \in {"git", "fixed"} : Start(k)
CommandSpec == CommandInit /\ [][CommandNext]_command

-----------------------------------------------------------------------------
\* Every variable keeps its type.
CommandTypeOK ==
  /\ kind \in {"git", "fixed"} /\ place \in {"idle", "read", "events", "done"}
  /\ leader \in {"none", "running", "exited", "reaped"}
  /\ child \in {"none", "piped", "silent", "dead"}
  /\ code \in {0, 1} /\ written \in Nat /\ got \in Nat
  /\ loud \in BOOLEAN /\ late \in BOOLEAN
  /\ open \subseteq {"out", "err"} /\ ready \subseteq open
  /\ failure \in {"none", "execution", "timeout", "stderr", "output-limit", "returncode",
                  "interrupted"}

\* A result without a failure is all that the command ever wrote, within the limit,
\* of a leader that ended by itself: in silence (git), with code 0 (fixed).
ResultWhole ==
  place = "done" /\ failure = "none" =>
    /\ got = written /\ written <= Limit /\ ~Held
    /\ IF kind = "git" THEN ~loud ELSE code = 0

\* When a call has returned, the leader is reaped; a fixed command, and a git query
\* that failed, leave nobody of their group behind, unless the user interrupts.
NothingLeft ==
  place = "done" =>
    /\ leader \in {"none", "reaped"}
    /\ failure # "interrupted" /\ (kind = "fixed" \/ failure # "none") => ~Alive
=============================================================================
