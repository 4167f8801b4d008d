----------------------------- MODULE G3Session -----------------------------
(***************************************************************************)
(* run_session of python/decodeforge/g3_session.py: one generation session, *)
(* from its preflight to its verdict, together with the independent checker *)
(* of its evidence in g3_evidence.py.  Of a generation the model keeps how  *)
(* many tokens it made and which calls each query projection counted.       *)
(* Other code in the process may call a projection at any time, which is    *)
(* what the continuity and reconciliation checks are there to notice.       *)
(***************************************************************************)
EXTENDS Integers, Sequences

CONSTANTS
  Layers,
  Warmups,    \* complete generations per path before the measured ones
  Measured,   \* measured generations per path
  MaxTokens,  \* bound: the tokens of one generation
  MaxStrays   \* bound: the calls made by other code

ASSUME SessionAssumption ==
  /\ Warmups \in Nat /\ Measured \in Nat \ {0}
  /\ MaxTokens \in Nat \ {0} /\ MaxStrays \in Nat

Paths == <<"same_q8_reference", "hybrid_native">>
Modes == {"same_q8_reference", "hybrid_native"}
Generations == 2 * (Warmups + Measured)

VARIABLES
  stage,
  inputs,       \* VerifiedInputState: "none", "open" or "closed"
  installation, \* "none", "live" or "closed"
  mode,         \* the execution mode of all adapters
  counters,     \* what the adapter of each layer has counted
  runs,         \* the records of the generations so far
  before,       \* the counters at the start of the generation, or of the validation
  validation,   \* the counters around the validation of the native outputs
  tokens,       \* the tokens of the generation that has just ended
  strays,       \* how many calls other code has made
  failedAt      \* history: the place at which the session failed, "cleanup", "overlooked"

evidence == <<runs, before, validation, tokens>>
adapters == <<installation, mode, counters>>
sessionVars == <<stage, inputs, adapters, evidence, strays, failedAt>>

Zero == [l \in Layers |-> [forward |-> 0, native |-> 0, fallback |-> 0]]

SessionInit ==
  /\ stage = "preflight"
  /\ inputs = "none" /\ installation = "none"
  /\ mode = "hybrid_native"
  /\ counters = Zero
  /\ runs = <<>>
  /\ before = Zero
  /\ validation = [before |-> Zero, after |-> Zero]
  /\ tokens = 1
  /\ strays = 0
  /\ failedAt = {}

-----------------------------------------------------------------------------
(* Counting                                                                *)

\* The calls that each layer sees in a generation of n tokens on a path: the
\* prefill is no single token, so the guard sends it to the fallback.
Calls(path, n) ==
  LET native == IF path = "hybrid_native" THEN n - 1 ELSE 0
  IN  [forward |-> n, native |-> native, fallback |-> n - native]

Add(c, d) == [field \in {"forward", "native", "fallback"} |-> c[field] + d[field]]

\* delta of two snapshots
Grew(from, to, d) == \A l \in Layers : to[l] = Add(from[l], d)

\* One same-Q8 check in each layer for every token decoded natively.
Checks(rs) ==
  LET n[i \in 0 .. Len(rs)] ==
        IF i = 0 THEN 0
        ELSE n[i - 1] + IF rs[i].key.path = "hybrid_native" THEN rs[i].tokens - 1 ELSE 0
  IN  [forward |-> n[Len(rs)], native |-> 0, fallback |-> n[Len(rs)]]

-----------------------------------------------------------------------------
(* The checker's side: what g3_evidence demands of an accepted session     *)

RepetitionOf(k) == LET pair == (k - 1) \div 2 IN IF pair < Warmups THEN pair ELSE pair - Warmups
PhaseOf(k) == IF (k - 1) \div 2 < Warmups THEN "warmup" ELSE "measured"

\* _ordered_run_keys
OrderedRunKeys ==
  [k \in 1 .. Generations |->
     LET order == IF RepetitionOf(k) % 2 = 0 THEN Paths ELSE <<Paths[2], Paths[1]>>
     IN  [phase |-> PhaseOf(k), repetition |-> RepetitionOf(k), path |-> order[2 - (k % 2)]]]

\* _validate_run_counters
ValidRunCounters(run) == Grew(run.before, run.after, Calls(run.key.path, run.tokens))

\* _validate_runs
ValidRuns(rs) ==
  /\ Len(rs) = Generations
  /\ \A k \in 1 .. Len(rs) :
       /\ rs[k].key = OrderedRunKeys[k]
       /\ ValidRunCounters(rs[k])
       /\ k = 1 => \A l \in Layers : rs[1].before[l] = [forward |-> 1, native |-> 1, fallback |-> 0]
       /\ k > 1 => rs[k].before = rs[k - 1].after
       /\ \A j \in 1 .. k - 1 :
            rs[j].key.phase = rs[k].key.phase /\ rs[j].key.repetition = rs[k].key.repetition =>
              rs[j].tokens = rs[k].tokens

\* Mutant: the validation may start anywhere.
ValidReconciliationFromAnywhere(rs, v) == Grew(v.before, v.after, Checks(rs))

\* _validate_reconciliation
ValidReconciliation(rs, v) ==
  /\ v.before = rs[Len(rs)].after
  /\ Grew(v.before, v.after, Checks(rs))

Accepts == ValidRuns(runs) /\ ValidReconciliation(runs, validation) /\ installation = "closed"

-----------------------------------------------------------------------------
(* The session                                                             *)

Ended == stage \in {"accepted", "rejected"}

\* The session raises where nothing has to be given back.
Raise ==
  /\ stage' = "rejected" /\ failedAt' = failedAt \cup {stage}
  /\ UNCHANGED <<inputs, adapters, evidence, strays>>

\* Giving back works, or raises itself.
RaiseClosingInputs ==
  /\ stage' = "rejected"
  /\ \/ inputs' = "closed" /\ failedAt' = failedAt \cup {stage}
     \/ UNCHANGED inputs /\ failedAt' = failedAt \cup {stage, "cleanup"}
  /\ UNCHANGED <<adapters, evidence, strays>>

RaiseClosingInstallation ==
  /\ stage' = "rejected"
  /\ \/ installation' = "closed" /\ failedAt' = failedAt \cup {stage}
     \/ UNCHANGED installation /\ failedAt' = failedAt \cup {stage, "cleanup"}
  /\ UNCHANGED <<inputs, mode, counters, evidence, strays>>

Proceed(place) == stage' = place /\ UNCHANGED <<strays, failedAt>>

\* Request, specification and checkout are checked, then the inputs are copied
\* and held; a failure in between gives back what was held already, or leaves it
\* when that fails too.
Preflight ==
  /\ stage = "preflight"
  /\ \/ inputs' = "open" /\ Proceed("receipt") /\ UNCHANGED <<adapters, evidence>>
     \/ Raise
     \/ /\ stage' = "rejected" /\ failedAt' = {"preflight", "cleanup"}
        /\ inputs' = "open"
        /\ UNCHANGED <<adapters, evidence, strays>>

CheckReceipt ==
  /\ stage = "receipt"
  /\ \/ Proceed("configure") /\ UNCHANGED <<inputs, adapters, evidence>>
     \/ RaiseClosingInputs

\* The limits are read, torch is configured and the memory measured: no
\* handler is around this.
Configure ==
  /\ stage = "configure"
  /\ \/ Proceed("load") /\ UNCHANGED <<inputs, adapters, evidence>>
     \/ Raise

\* _load_verified_components; then the inputs are given back.
Load ==
  /\ stage = "load"
  /\ \/ inputs' = "closed" /\ Proceed("install") /\ UNCHANGED <<adapters, evidence>>
     \/ RaiseClosingInputs
     \/ stage' = "rejected" /\ failedAt' = failedAt \cup {"cleanup"}
        /\ UNCHANGED <<inputs, adapters, evidence, strays>>

\* _default_install runs each adapter once, natively, before it is installed.
Probed == [l \in Layers |-> [forward |-> 1, native |-> 1, fallback |-> 0]]

\* Environment and prompt are compared and the adapters installed.  A failing
\* installation undoes itself, as QProjInstall shows.
InstallAdapters ==
  /\ stage = "install"
  /\ \/ /\ installation' = "live"
        /\ counters' = Probed
        /\ Proceed("setup")
        /\ UNCHANGED <<inputs, mode, evidence>>
     \/ Raise

\* An interrupt may come before the first handler that knows of the installation.
Overlooked ==
  /\ stage = "setup"
  /\ stage' = "rejected" /\ failedAt' = failedAt \cup {"overlooked"}
  /\ UNCHANGED <<inputs, adapters, evidence, strays>>

\* Mutant: a mismatch of the assets leaves the adapters installed.
CheckSetupLeaving ==
  /\ stage = "setup"
  /\ \/ Proceed("baseline") /\ UNCHANGED <<inputs, adapters, evidence>>
     \/ Raise

CheckSetup ==
  /\ stage = "setup"
  /\ \/ Proceed("baseline") /\ UNCHANGED <<inputs, adapters, evidence>>
     \/ RaiseClosingInstallation

\* _validate_direct_checks and _validate_preinstall_baseline
CheckBaseline ==
  /\ stage = "baseline"
  /\ IF counters = Probed
       THEN \/ Proceed("begin") /\ UNCHANGED <<inputs, adapters, evidence>>
            \/ RaiseClosingInstallation
       ELSE RaiseClosingInstallation

\* Mutant: both kinds of repetition start with the reference.
PathOrderFixed(repetition) == Paths

\* _path_order
PathOrder(repetition) ==
  IF repetition % 2 = 0 THEN Paths ELSE <<"hybrid_native", "same_q8_reference">>

\* The generation that comes next in the loops over phases, repetitions, paths.
NextKey ==
  LET k == Len(runs) + 1
  IN  [phase |-> PhaseOf(k), repetition |-> RepetitionOf(k),
       path |-> PathOrder(RepetitionOf(k))[2 - (k % 2)]]

\* set_execution_mode for the generation that comes next
SelectMode ==
  /\ stage = "begin" /\ Len(runs) < Generations
  /\ \/ /\ mode' = NextKey.path
        /\ Proceed("snapshot")
        /\ UNCHANGED <<inputs, installation, counters, evidence>>
     \/ RaiseClosingInstallation

\* The counters must be where the previous generation left them; the hooks are
\* registered.
BeginGeneration ==
  /\ stage = "snapshot"
  /\ IF runs # <<>> /\ runs[Len(runs)].after # counters
       THEN RaiseClosingInstallation
       ELSE \/ /\ before' = counters
               /\ Proceed("generate")
               /\ UNCHANGED <<inputs, adapters, runs, validation, tokens>>
            \/ RaiseClosingInstallation

\* _generate: n tokens; in some layers the guard sends a decode to the fallback.
Generate(n, missed) ==
  /\ stage = "generate"
  /\ n \in 1 .. MaxTokens
  /\ missed \subseteq Layers
  /\ missed # {} => mode = "hybrid_native" /\ n > 1
  /\ counters' = [l \in Layers |->
       LET sum == Add(counters[l], Calls(mode, n))
       IN  IF l \in missed
             THEN [sum EXCEPT !.native = @ - 1, !.fallback = @ + 1] ELSE sum]
  /\ tokens' = n
  /\ Proceed("reconcile")
  /\ UNCHANGED <<inputs, installation, mode, runs, before, validation>>

GenerateFails == stage = "generate" /\ RaiseClosingInstallation

ReconcileRun(run) == Grew(run.before, run.after, Calls(run.key.path, run.tokens))

\* _compare_pair, after the second path of a repetition
ComparePair(run) == Len(runs) % 2 = 1 => runs[Len(runs)].tokens = run.tokens

Reconcile ==
  LET run == [key |-> NextKey, tokens |-> tokens,
              before |-> before, after |-> counters]
  IN  /\ stage = "reconcile"
      /\ IF ReconcileRun(run) /\ ComparePair(run)
           THEN \/ /\ runs' = Append(runs, run)
                   /\ Proceed("begin")
                   /\ UNCHANGED <<inputs, adapters, before, validation, tokens>>
                \/ RaiseClosingInstallation
           ELSE RaiseClosingInstallation

\* The native outputs are checked after the last generation.
BeginValidation ==
  /\ stage = "begin" /\ Len(runs) = Generations
  /\ before' = counters
  /\ Proceed("validate")
  /\ UNCHANGED <<inputs, adapters, runs, validation, tokens>>

\* _validate_native_samples: each captured call again, through the fallback.
Validate ==
  /\ stage = "validate"
  /\ \/ /\ counters' = [l \in Layers |-> Add(counters[l], Checks(runs))]
        /\ Proceed("validated")
        /\ UNCHANGED <<inputs, installation, mode, evidence>>
     \/ RaiseClosingInstallation

\* The counters of the validation are reconciled; the timings must not drift.
EndValidation ==
  /\ stage = "validated"
  /\ IF Grew(before, counters, Checks(runs))
       THEN \/ /\ validation' = [before |-> before, after |-> counters]
               /\ Proceed("close")
               /\ UNCHANGED <<inputs, adapters, runs, before, tokens>>
            \/ RaiseClosingInstallation
       ELSE RaiseClosingInstallation

Close ==
  /\ stage = "close"
  /\ \/ installation' = "closed" /\ Proceed("verdict")
        /\ UNCHANGED <<inputs, mode, counters, evidence>>
     \/ stage' = "rejected" /\ failedAt' = failedAt \cup {"cleanup"}
        /\ UNCHANGED <<inputs, adapters, evidence, strays>>

\* The checkout must be as before, and the checker must accept the document.
Verdict ==
  /\ stage = "verdict"
  /\ IF Accepts
       THEN \/ Proceed("accepted") /\ UNCHANGED <<inputs, adapters, evidence>>
            \/ Raise
       ELSE Raise

\* Other code in the process calls a projection.
Stray(l, native) ==
  /\ installation = "live" /\ ~Ended
  /\ strays < MaxStrays
  /\ native => mode = "hybrid_native"
  /\ strays' = strays + 1
  /\ counters' = [counters EXCEPT ![l] = Add(@,
       [forward |-> 1, native |-> IF native THEN 1 ELSE 0, fallback |-> IF native THEN 0 ELSE 1])]
  /\ UNCHANGED <<stage, inputs, installation, mode, evidence, failedAt>>

Session ==
  \/ Preflight \/ CheckReceipt \/ Configure \/ Load \/ InstallAdapters
  \/ Overlooked \/ CheckSetup \/ CheckBaseline
  \/ SelectMode \/ BeginGeneration \/ GenerateFails \/ Reconcile
  \/ \E n \in 1 .. MaxTokens, missed \in SUBSET Layers : Generate(n, missed)
  \/ BeginValidation \/ Validate \/ EndValidation \/ Close \/ Verdict

SessionNext ==
  \/ Session
  \/ \E l \in Layers, native \in BOOLEAN : Stray(l, native)
  \/ Ended /\ UNCHANGED sessionVars

SessionSpec == SessionInit /\ [][SessionNext]_sessionVars

-----------------------------------------------------------------------------
\* An accepted session covered the model as its record says, from the probes of
\* the installation to the last check: in every layer each decoded token of the
\* hybrid path was native and was checked once, everything else took the
\* fallback, and nothing else was called up to there.  No single check sees it all.
AcceptedCoverage ==
  stage = "accepted" =>
    \A l \in Layers :
      LET upTo[k \in 0 .. Len(runs)] ==
            IF k = 0 THEN [forward |-> 1, native |-> 1, fallback |-> 0]
            ELSE Add(upTo[k - 1], Calls(runs[k].key.path, runs[k].tokens))
      IN  validation.after[l] = Add(upTo[Len(runs)], Checks(runs))

\* The runner and the checker are two implementations of one protocol: what an
\* undisturbed runner hands over, the checker accepts.
CheckerAgrees == stage = "verdict" /\ strays = 0 => Accepts

\* Whatever fails, a session that has ended leaves neither adapters in the model
\* nor copied inputs behind, unless a cleanup itself failed; or, for the inputs,
\* the configuration of torch, which no handler surrounds, and for the adapters an
\* interrupt before the first handler that knows of them.
Released ==
  Ended =>
    /\ installation = "live" => failedAt \cap {"cleanup", "overlooked"} # {}
    /\ inputs = "open" => failedAt \cap {"cleanup", "configure"} # {}
=============================================================================
