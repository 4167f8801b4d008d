----------------------------- MODULE Measurement -----------------------------
(***************************************************************************)
(* The four programs that measure outside G3: the presentation demo, the    *)
(* profile capture and the two evaluations (presentation_demo.py,           *)
(* profile_capture.py, evaluation.py).  Each installs the adapters in a     *)
(* model it has loaded, runs a plan of generations in both modes, checks    *)
(* every one by the counters, compares the tokens and gives the model back. *)
(* They differ in the plan and in what an exception does: the demo and the  *)
(* profile capture end with it, the evaluations note it and go on.          *)
(* Meanwhile other code calls a projection, replaces a module or commits.   *)
(*                                                                          *)
(* QProjInstall is the installation from within, and QProjProfile the       *)
(* recording of a profiled generation.                                      *)
(***************************************************************************)
EXTENDS Integers, Sequences

CONSTANTS
  Layers,
  NumCases,      \* cases of the evaluation, each of them also measured
  NumMeasured,   \* measured generations per case and path
  MaxOutside     \* bound: steps of other code

ASSUME MeasurementAssumption ==
  Layers # {} /\ NumCases \in Nat \ {0} /\ NumMeasured \in Nat \ {0} /\ MaxOutside \in Nat

Runners == {"demo", "profile", "correctness", "performance"}
Cases == 1 .. NumCases
Reference == "same_q8_reference"
Hybrid == "hybrid_native"

\* What a generation returns: one token, the last, or two in two ways.  A forced
\* reference is one call of the model for all of its tokens.
Outputs == {"eos", "a", "b"}
Forced == {"eos"}
\* The model is called once per token, until EOS or the limit.
Tokens(output) == IF output = "eos" THEN 1 ELSE 2

VARIABLES
  runner, parity,  \* the program, and session_index % 2
  place, n,        \* where it is, and at which generation of the plan (or FP32 case)
  fp32,            \* what the evaluation knows of each case without adapters
  module,          \* per layer: "original", "adapter", or another over one of them
  mode,            \* the adapters' execution_mode
  delta,           \* the adapters' counters since the snapshot before, zero outside a window
  current,         \* the output of the generation
  results,         \* the outputs that were kept
  failed,          \* evidence["failures"] is not empty
  raised,          \* an exception goes up through the cleanup
  verdict,         \* "none", "accepted" or "rejected"
  source, outside, \* the checkout, and how many steps other code has made
  disturbed,       \* history: the generation in the window did not run as planned
  tainted,         \* history: such a one was kept
  lost             \* history: the cleanup failed, or nobody was there for it

request == <<runner, parity>>
cleanup == <<raised, verdict, lost>>
window == <<delta, current, disturbed>>
measurementVars == <<request, place, n, fp32, module, mode, window, results, failed, cleanup,
          source, outside, tainted>>

-----------------------------------------------------------------------------
(* The plans                                                               *)

Again(path, kind, case, r) == [path |-> path, kind |-> kind, case |-> case, repetition |-> r]
Run(path, kind, case) == Again(path, kind, case, 1)

PathOrder(p) == IF p = 0 THEN <<Reference, Hybrid>> ELSE <<Hybrid, Reference>>
KindOrder(p) == <<"warmup">> \o IF p = 0 THEN <<"control", "profile">> ELSE <<"profile", "control">>
Repeated(path, case, r) ==
  IF r = 0 THEN Run(path, "warmup", case) ELSE Again(path, "measured", case, r)

\* Nested loops in a row: the k-th generation is where the digits of k - 1 say.
DemoPlan == <<Run(Reference, "once", 1), Run(Hybrid, "once", 1)>>

ProfilePlan == [p \in {0, 1} |->
  [k \in 1 .. 6 |->
     Run(PathOrder(p)[(k - 1) \div 3 + 1], KindOrder(p)[((k - 1) % 3) + 1], 1)]]

Triple(case) ==
  <<Run(Reference, "once", case), Run(Reference, "force", case), Run(Hybrid, "once", case)>>
CorrectnessPlan ==
  [k \in 1 .. 3 * NumCases |-> Triple((k - 1) \div 3 + 1)[((k - 1) % 3) + 1]]

Timed == NumMeasured + 1
PerformancePlan == [p \in {0, 1} |->
  [k \in 1 .. 2 * (NumCases * Timed) |->
     Repeated(PathOrder(p)[(k - 1) \div (NumCases * Timed) + 1],
              (((k - 1) \div Timed) % NumCases) + 1, (k - 1) % Timed)]]

Plan ==
  CASE runner = "demo" -> DemoPlan
    [] runner = "profile" -> ProfilePlan[parity]
    [] runner = "correctness" -> CorrectnessPlan
    [] runner = "performance" -> PerformancePlan[parity]

\* The generations that are compared once the n-th is over.
MustAgree(a, b) ==
  /\ Plan[a].case = Plan[b].case
  /\ CASE runner \in {"demo", "correctness"} ->
            Plan[a].kind = "once" /\ Plan[b].kind = "once"
       [] runner = "profile" ->
            Plan[a].path = Plan[b].path \/ (Plan[a].kind = "profile" /\ Plan[b].kind = "profile")
       [] runner = "performance" ->
            /\ Plan[a].kind = "measured" /\ Plan[b].kind = "measured"
            /\ Plan[a].repetition = Plan[b].repetition

Due ==
  CASE runner = "performance" -> IF n = Len(Plan) THEN (1 .. n) \X (1 .. n) ELSE {}
    [] runner = "profile" -> IF n % 3 = 0 THEN (1 .. n) \X (1 .. n) ELSE {}
    [] OTHER -> IF Plan[n].path = Hybrid THEN (1 .. n) \X {n} ELSE {}

-----------------------------------------------------------------------------
Zero == [l \in Layers |-> [forward |-> 0, native |-> 0, fallback |-> 0]]

MeasurementInit ==
  /\ runner \in Runners /\ parity \in IF runner \in {"demo", "correctness"} THEN {0} ELSE {0, 1}
  /\ place = "load" /\ n = 1
  /\ fp32 = [c \in Cases |-> "none"]
  /\ module = [l \in Layers |-> "original"] /\ mode = Hybrid
  /\ delta = Zero /\ current = "none" /\ disturbed = FALSE
  /\ results = [k \in 1 .. Len(Plan) |-> "none"]
  /\ failed = FALSE /\ raised = FALSE /\ verdict = "none"
  /\ source = 0 /\ outside = 0
  /\ tainted = FALSE /\ lost = FALSE

Evaluation == runner \in {"correctness", "performance"}

Advance(where) == place' = where /\ UNCHANGED <<n, fp32, results, failed, cleanup>>

End(how) ==
  place' = "ended" /\ verdict' = how /\ UNCHANGED <<n, fp32, results, failed, raised, lost>>

\* Mutant: an exception passes the cleanup by.
RaisePastCleanup == End("rejected")

\* Inside the try, whatever is raised goes through the cleanup.
Raise == place' = "close" /\ raised' = TRUE /\ UNCHANGED <<n, fp32, results, failed, verdict, lost>>

Elsewhere == UNCHANGED <<request, source, outside>>
Untouched == UNCHANGED <<module, mode, window, tainted>> /\ Elsewhere

\* Arguments, digests and model files are checked, and a dirty checkout is refused.
Load ==
  /\ place = "load"
  /\ \/ Advance(IF Evaluation THEN "fp32" ELSE "install")
     \/ End("rejected")
  /\ Untouched

\* The generations that need the model as it was.  A failure of the correctness
\* evaluation is noted; it may come after the generation was kept.
Baseline ==
  /\ place = "fp32"
  /\ \/ /\ \E known \in IF runner = "correctness" THEN {"all", "generated", "failed"} ELSE {"all"} :
             /\ fp32' = [fp32 EXCEPT ![n] = known]
             /\ failed' = (failed \/ known # "all")
        /\ IF n = NumCases THEN place' = "install" /\ n' = 1 ELSE place' = "fp32" /\ n' = n + 1
        /\ UNCHANGED <<results, cleanup>>
     \/ runner = "performance" /\ End("rejected")
  /\ Untouched

\* The installer leaves nothing when it fails.
Install ==
  /\ place = "install"
  /\ \/ /\ \A l \in Layers : module[l] = "original"
        /\ module' = [l \in Layers |-> "adapter"]
        /\ Advance("installed")
     \/ End("rejected") /\ UNCHANGED module
  /\ UNCHANGED <<mode, window, tainted>> /\ Elsewhere

\* Nothing else will give the model back.
LoseModel ==
  /\ place' = "ended" /\ verdict' = "rejected" /\ lost' = TRUE
  /\ UNCHANGED <<n, fp32, results, failed, raised>>

\* A KeyboardInterrupt may come before anybody knows of the installation.
Overlooked == place = "installed" /\ LoseModel /\ Untouched

CheckInstallation ==
  /\ place = "installed"
  /\ Advance("turn") \/ Raise
  /\ Untouched

-----------------------------------------------------------------------------
(* One generation                                                          *)

NextRun == IF n = Len(Plan) THEN place' = (IF runner = "profile" THEN "recheck" ELSE "close") /\ UNCHANGED n
                            ELSE place' = "turn" /\ n' = n + 1

\* A case without its baseline is left out, and so is the forced reference after a
\* generation that failed.
LeftOut ==
  /\ runner = "correctness"
  /\ \/ fp32[Plan[n].case] = "failed"
     \/ Plan[n].kind = "force" /\ results[n - 1] = "failed"

LeaveOut ==
  /\ place = "turn" /\ LeftOut
  /\ NextRun
  /\ UNCHANGED <<fp32, results, failed, cleanup>> /\ Untouched

\* set_execution_mode puts every layer back when one of them refuses.
SelectMode ==
  /\ place = "turn" /\ ~LeftOut
  /\ \/ /\ mode' = IF n = 1 \/ Plan[n].path # Plan[n - 1].path THEN Plan[n].path ELSE mode
        /\ Advance("before")
     \/ Raise /\ UNCHANGED mode
  /\ UNCHANGED <<module, window, tainted>> /\ Elsewhere

\* The counters are read; what they counted so far is nobody's.
Before == place = "before" /\ Advance("run") /\ Untouched

Calls(path, tokens) ==
  [forward |-> tokens,
   native |-> IF path = Hybrid THEN tokens - 1 ELSE 0,
   fallback |-> IF path = Hybrid THEN 1 ELSE tokens]

Plus(a, b) == [f \in DOMAIN a |-> a[f] + b[f]]

LeaveWindow == delta' = Zero /\ current' = "none" /\ disturbed' = FALSE

\* The evaluations note what a generation raises, the others end with it.
Fault ==
  IF Evaluation
  THEN /\ failed' = TRUE /\ results' = [results EXCEPT ![n] = "failed"] /\ place' = "compare"
       /\ UNCHANGED <<n, fp32, cleanup>>
  ELSE Raise

\* The model runs once per token, a forced reference once; the layers where a
\* cached step did not take the native path are in missed.
Generate ==
  /\ place = "run"
  /\ \/ \E output \in IF Plan[n].kind = "force" THEN Forced ELSE Outputs,
             missed \in {{}} \cup {{l} : l \in Layers} :
          /\ missed # {} => mode = Hybrid /\ Tokens(output) = 2
          /\ current' = output
          /\ delta' = [l \in Layers |->
               IF module[l] # "adapter" THEN delta[l]
               ELSE Plus(delta[l], Calls(IF l \in missed THEN Reference ELSE mode, Tokens(output)))]
          /\ disturbed' = (disturbed \/ missed # {} \/ mode # Plan[n].path
                            \/ \E l \in Layers : module[l] # "adapter")
          /\ Advance("after")
     \/ Fault /\ LeaveWindow
  /\ UNCHANGED <<module, mode, tainted>> /\ Elsewhere

\* Mutant: only the number of calls is compared.
ReconcilesForwards ==
  \A l \in Layers : delta[l].forward = Calls(Plan[n].path, Tokens(current)).forward

\* _reconcile, _check_counter_delta
Reconciles ==
  /\ Plan[n].path = Hybrid => Tokens(current) >= 2
  /\ \A l \in Layers : delta[l] = Calls(Plan[n].path, Tokens(current))

Reconcile ==
  /\ place = "after"
  /\ IF Reconciles /\ (Plan[n].kind = "force" => fp32[Plan[n].case] = "all")
       THEN /\ results' = [results EXCEPT ![n] = current] /\ place' = "compare"
            /\ tainted' = (tainted \/ disturbed)
            /\ UNCHANGED <<n, fp32, failed, cleanup>>
       ELSE Fault /\ UNCHANGED tainted
  /\ LeaveWindow
  /\ UNCHANGED <<module, mode>> /\ Elsewhere

Agree(a, b) == results[a] \in Outputs /\ results[a] = results[b]

\* Tokens, and besides them logits and the trace, on which the comparison may fail.
Compare ==
  /\ place = "compare"
  /\ LET same == \A pair \in Due : MustAgree(pair[1], pair[2]) => Agree(pair[1], pair[2])
     IN \/ same /\ NextRun /\ UNCHANGED <<fp32, results, failed, cleanup>>
        \/ /\ Due # {}
           /\ IF Evaluation THEN failed' = TRUE /\ NextRun /\ UNCHANGED <<fp32, results, cleanup>>
                            ELSE Raise
  /\ Untouched

-----------------------------------------------------------------------------
(* The end                                                                 *)

\* Revision, status and digests of the sources are those of the beginning.
SameSource == source = 0

\* The profile capture looks at the checkout before it gives the model back.
Recheck ==
  /\ place = "recheck"
  /\ \/ SameSource /\ Advance("close")
     \/ Raise
  /\ Untouched

\* close() puts back what it can and raises when anything is left.
Close ==
  /\ place = "close"
  /\ \/ /\ \A l \in Layers : module[l] \in {"original", "adapter"}
        /\ module' = [l \in Layers |-> "original"]
        /\ IF raised /\ ~Evaluation THEN End("rejected") ELSE Advance("restored")
     \/ /\ \E back \in SUBSET {l \in Layers : module[l] = "adapter"} :
             module' = [l \in Layers |-> IF l \in back THEN "original" ELSE module[l]]
        /\ LoseModel
  /\ UNCHANGED <<mode, window, tainted>> /\ Elsewhere

Restored == \A l \in Layers : module[l] = "original"

\* The modules must be the original ones and the counters those of a closed model.
CheckRestored ==
  /\ place = "restored"
  /\ \/ End("rejected")
     \/ /\ ~raised /\ Restored
        /\ IF Evaluation THEN Advance("source") ELSE End("accepted")
  /\ Untouched

\* The verdict of an evaluation
CheckSource ==
  /\ place = "source"
  /\ End(IF ~failed /\ SameSource THEN "accepted" ELSE "rejected")
  /\ Untouched

\* A KeyboardInterrupt is not noted as a failure: it ends every program.
KeyboardInterrupt ==
  /\ place \notin {"installed", "ended"}
  /\ CASE place \in {"load", "fp32", "install", "restored", "source"} -> End("rejected")
       [] place = "close" -> LoseModel
       [] OTHER -> Raise
  /\ LeaveWindow
  /\ UNCHANGED <<module, mode, tainted>> /\ Elsewhere

-----------------------------------------------------------------------------
(* Other code                                                              *)

\* What one call of a projection may count: a guard need not let it through.
SingleCalls ==
  {[forward |-> 1, native |-> k, fallback |-> 1 - k] :
     k \in IF mode = Hybrid THEN {0, 1} ELSE {0}}

\* A projection is called by somebody else; the counters tell no caller, and outside
\* a window nobody looks.
Stray ==
  /\ place \in {"run", "after"} /\ disturbed' = TRUE
  /\ \E l \in Layers, call \in SingleCalls :
       /\ module[l] = "adapter"
       /\ delta' = [delta EXCEPT ![l] = Plus(@, call)]
  /\ UNCHANGED <<module, source>>

\* Somebody puts a module of his own over what is there, or takes it away again.
Replaced == [original |-> "other", other |-> "original",
             adapter |-> "covered", covered |-> "adapter"]

Replace ==
  /\ \E l \in Layers : module' = [module EXCEPT ![l] = Replaced[@]]
  /\ UNCHANGED <<delta, disturbed, source>>

Commit == source' = 1 - source /\ UNCHANGED <<module, delta, disturbed>>

Outside ==
  /\ place # "ended" /\ outside < MaxOutside /\ outside' = outside + 1
  /\ Stray \/ Replace \/ Commit
  /\ UNCHANGED <<request, place, n, fp32, mode, current, results, failed, cleanup, tainted>>

Step ==
  \/ Load \/ Baseline \/ Install \/ Overlooked \/ CheckInstallation
  \/ LeaveOut \/ SelectMode \/ Before \/ Generate \/ Reconcile \/ Compare
  \/ Recheck \/ Close \/ CheckRestored \/ CheckSource \/ KeyboardInterrupt

MeasurementNext == Step \/ Outside
MeasurementSpec == MeasurementInit /\ [][MeasurementNext]_measurementVars

-----------------------------------------------------------------------------
\* An accepted document has every generation of its plan, and all that must agree do,
\* however failures were passed over on the way.  Each was made in its mode by the
\* adapters of all layers and by nobody's calls but its own, unless other code took
\* three steps: it can cover an adapter, call it in place of the model and uncover it.
AcceptedComplete ==
  verdict = "accepted" =>
    /\ ~failed /\ (outside <= 2 => ~tainted)
    /\ \A k \in DOMAIN Plan : results[k] \in Outputs
    /\ \A j, k \in DOMAIN Plan : MustAgree(j, k) => Agree(j, k)

\* A program that has ended leaves no adapter behind, neither in the model nor under
\* a module that others put over it, unless close() itself gave up or an interrupt
\* came before the program held what it had installed; then it accepts nothing.
GivenBack ==
  place = "ended" =>
    IF lost THEN verdict = "rejected"
            ELSE \A l \in Layers : module[l] \notin {"adapter", "covered"}
=============================================================================
