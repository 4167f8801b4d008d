# A TLA+ model of DecodeForge

DecodeForge compiles one frozen, weight-only Q8 linear layer to audited ARM64
machine code, puts it behind a small C ABI, and replaces the 22 query
projections of TinyLlama by it. Paths below are relative to `src/`.

## The system

| part | code | state it keeps | operations |
|---|---|---|---|
| Runtime bridge | `compiler/decodeforge-bridge/src/lib.rs` | registry of handles behind a mutex, two atomic quota counters, `building` flag, thread-local diagnostic | create, run, query, destroy, last error |
| Safe invocation | `compiler/decodeforge-runtime/src/scalar.rs` | the output buffer's sentinel policy | prepared call |
| Binding registry | `python/decodeforge/torch_bridge.py` | ID table behind a lock, one lock and owner per binding | register, get, run, close, clear |
| Guarded callable | same file, `NativeQ8Linear` | counters, latest guard reason | call |
| Adapter | `python/decodeforge/qproj_adapter.py` | mode, in-flight count, four lifecycle flags, counters, one binding | forward, set mode, close |
| All-layer installation | `python/decodeforge/qproj_model.py` | 22 records, model guards | install, set mode, close |
| Compiler | `compiler/decodeforge-compiler/src/{ir,pack,codegen,native}` | immutable IR and packs, staged build directories | lower, pack, emit, build, audit, load |
| Q8 core | `compiler/decodeforge-core/src`, `python/decodeforge/q8.py` | none | quantize, contract, compare |
| Asset preparation | `compiler/decodeforge-compiler/src/model_assets` | staging directory | prepare, publish |
| Asset loading | `_load_prepared_inventory` in `python/decodeforge/qproj_model.py` | descriptors of the inventory and of one layer | read, check, hand over |
| Bounded commands | `python/decodeforge/g0_repository.py`, `scripts/capture_g0_evidence.py` | a process group, two pipes, a deadline | run a git query, run a check |
| G0 evidence | same files, `g0_evidence.py` | staging directory, bundle | capture, verify, install |
| Preparation receipts | `python/decodeforge/g3_preparation.py` | a document beside the assets | capture, verify |
| G3 sessions and results | `g3_session.py`, `g3_evidence.py`, `g3_results.py` | sessions and bundles on disk | run, check, analyze, publish, verify |
| Demo, evaluation, profile capture | `presentation_demo.py`, `evaluation.py`, `profile_capture.py` | one document | run a plan, accept, give back |
| Profiling | `qproj_profile.py` | a set of active adapters, hooks with an undo list | enter, record, leave |
| G1 evidence | `g1_*` and the `g1_bench` crate | recorded sessions | run, validate |

They meet as follows. A model's forward pass calls a wrapper, which calls the
adapter, which runs either the native callable or the same-Q8 fallback. The
callable finds its binding by ID in the registry, and the binding calls the C
ABI with a handle, which the bridge resolves to an executable. Closing goes the
same way down, and at each level a close may fail and must be repeatable: the
installation keeps its records, the adapter its binding ID, the entry, the
bridge its handle.

Around this stand the programs that use it: they prepare the weights, prove on
which commit and with which tools they did so, install the adapters in a model,
generate on both paths, and publish what they have seen. They share the file
system and the checkout with everybody else on the machine.

What is hard here: calls from many threads through four layers of locks; quota
counters that shrink without the mutex under which they grow; destroys racing
runs; closes racing closes; waits on one condition variable by three kinds of
waiters; callbacks that re-enter; multi-step operations of which any step
may fail or be interrupted; commands that fork, hang and outlive their leader;
files, checkouts and tools that change between the query that looks and the
step that relies on it; and crashes between a write and its synchronization.

What makes each part correct:

* bridge: quotas are never exceeded and always come back; nothing that a call
  uses is freed; one build at a time, and the flag that says so always falls;
* C ABI: nothing outside the checked ranges is written; output is all or
  nothing; a failed call's outputs are zeroed; the error text always fits;
* binding registry: a binding is closed exactly when its handle is gone;
  registry and binding agree about ownership; IDs are not reused; no deadlock;
* adapter: no forward runs without its binding or under a mode that changes;
  a close shuts the door for good; the counters tell what ran;
* installation: all layers or none, one mode for all, other code's modules are
  respected, and guards fall last;
* assets: what is loaded is pinned in every file; no crash shows a part;
* commands: a result is all that was written, and nobody is left running;
* captures and receipts: what a document names is what ran and what stood in the
  checkout at one moment; a failed one leaves nothing;
* sessions, evaluations: an accepted document has every call of its plan, made
  in its mode, and nobody else's; the model is given back;
* profiles: hooks never stack, everything is put back, a trace is of one thread.

## Modules

| module | models | plays against |
|---|---|---|
| `HandleTable` | what the bridge promises, one atomic step per call | abstract specification |
| `RuntimeBridge` | the bridge's registry at the granularity of critical sections and atomic operations | implements `HandleTable` |
| `BridgeCall` | one C-ABI call at a time: pointers, ranges, order of failures, output policy, diagnostics | |
| `RuntimeBridge_proofs` | theorems about `RuntimeBridge` and `BridgeCall` | |
| `BindingRegistry` | bindings and registry, each with its reentrant lock | |
| `BindingRegistry_proofs` | theorems about `BindingRegistry` | |
| `AdmissionGate` | what an adapter promises its forwards | abstract specification |
| `QProjAdapter` | one adapter with its condition variable, dispatch lock and callable | implements `AdmissionGate` |
| `QProjAdapter_proofs` | theorems about `QProjAdapter` | |
| `PreparedAssets` | preparation, publication and loading of the weights' files | |
| `QProjInstall` | creation, installation, switching and closing of all layers | extends `PreparedAssets` |
| `QProjInstall_proofs` | theorems about `PreparedAssets` and `QProjInstall` | |
| `QProjProfile` | hooks of several profiles in the adapters that other threads run and close | |
| `Measurement` | demo, profile capture and the two evaluations | |
| `QProjProfile_proofs` | theorems about `QProjProfile` and `Measurement` | |
| `BoundedCommand` | one command with deadline and output limit, and its process group | |
| `G0Capture` | a whole capture of G0 evidence | extends `BoundedCommand` |
| `G0Capture_proofs` | theorems about `BoundedCommand` and `G0Capture` | |
| `PreparationReceipt` | capture and verification of preparation receipts | |
| `G3Campaign` | receipts, sessions, their analysis and the verification of the bundle | extends `PreparationReceipt` |
| `G3Campaign_proofs` | theorems about `PreparationReceipt` and `G3Campaign` | |
| `G3Session` | one generation session and the checker of its evidence | |
| `Publication` | session documents and result bundles on their way to their final name | |
| `Publication_proofs` | theorems about `Publication` and `G3Session` | |

`MC*` modules only name the model values of an instance. A module with proofs is
about the components whose steps it takes apart, and may be about two.

### RuntimeBridge

Threads call create, run, query and destroy. `lock` is the registry's mutex,
`building` the flag in it, `entries` the handle table, `liveEntries` and
`packedBytes` the two `AtomicUsize`s. A create loads both counters, adds to one
and then to the other in separate steps under the mutex (`ReserveLoadEntries`,
`ReserveAddEntry`, `ReserveAddBytes`); a release subtracts from one and then
from the other without it (`ReleaseEntry`, `ReleaseBytes`), whenever the last
reference to an entry goes, in whichever call that is. References are derived:
an entry is referenced by the table and by each call that holds its `Arc`.
The counters are accessed with `Ordering::Relaxed`; since every addition is made
under the mutex, a load can only miss subtractions, and reading a larger value
refuses a create that could have been admitted. The model reads the current
value. Mutex poisoning is left out: no code that may panic runs in the critical
sections.

### BridgeCall

Memory is a few cells below `Top`. Every call chooses its pointers, lengths and
contents, the two of a pair possibly overlapping, wrapping around or null, and
runs through the code's checks in the code's order. `written` collects the
cells the call stored to. Sizes are the smallest that keep each comparison in
the code two-sided. A run takes several steps, those of
`invoke_with_output_policy` (`scalar.rs:282`): the output is filled with a NaN
(`ScrubOutput`), the generated kernel stores into any of its floats, or leaves
them, and returns any status or panics (`Kernel`), and then the status is judged
(`KernelFails`, `ContainPanic`) and every value looked at (`FiniteScan`). So a
kernel that stops half-way, also one that reports success, is in the model; a
float that it did not write is still a NaN and is found by the scan. That the
kernel stores nowhere but into the output is assumed, and is what the audit of
the generated code is for.

### BindingRegistry

`pc` marks where a call stands between two locks. `close()` on a binding reads
its owner, releases the binding's lock (`CloseOwned`) and goes on through the
registry, which locks itself and then the binding. `DestroyRaw` is a destroy of
the handle behind the binding's back. Liveness is checked with a bounded number
of calls per thread in place of a fair lock: Python's locks promise no fairness,
and with finitely many calls none is needed.

### QProjAdapter

A thread that finds its condition false is added to `asleep`, from where only
`notify_all` (or an interrupt) removes it, so that a lost wake-up would show.
A native callback may call the adapter again (`nested`). `Interrupt` ends a wait
with a KeyboardInterrupt; interrupts between two bytecodes elsewhere are not
modelled. Whether a guard passes, a native call succeeds, the fallback buffer
was tampered with or a destroy works is chosen freely, except that without a
binding the guard misses and a native call fails (`GuardReason`,
`NativeAnswers`). A caller that closed the binding by its private ID is not
modelled: the adapter never shows the ID.

### PreparedAssets

A file is told apart by the checkpoint it was made from, since every file names
others by their digests: the inventory names the layers' manifests, and these
their members. `preparer` and `at` walk through `prepare_q_proj_inventory_v1`:
copy of the checkpoint, four files per layer, their second reading, the
inventory, `RENAME_NOREPLACE`, and the synchronization of the parent. Any step
before the rename may fail and drops the staged tree. `loader` walks through
`_load_prepared_inventory`, which opens the tree once and reads the files of a
layer in another order than they were written, with other programs changing
files, the checkpoint and the tree in between. A whole tree that is exchanged
during a load is not seen by it, as it holds descriptors. `unsynced` are the
directories whose entries a crash may lose, and `AfterCrash` is what would be
under the output name if the machine crashed now; thus a crash is considered in
every state, and no action is needed. One preparation runs at a time, and nobody
loads before it has ended.

What the code does, and the model shows: a failed synchronization of the parent
is reported as an error and leaves the tree, so that a retry is refused; and the
tool's own verification accepts any inventory that agrees with itself, so that
only the loader asks for the pinned one.

### QProjInstall

The module extends `PreparedAssets`: an installation begins when the load has
handed its assets over, and other programs may change files until then. The
loops over layers advance one layer per step, so that other code may act in
between: `Replace` puts a foreign module into a slot, or takes it out again,
which brings back what it found there. Adapters are reduced to `live`, `failed`
(a close of it failed, it takes no calls and no mode change) and `closed`. Their
calls are not modelled here. That one is in flight before a switch refuses it,
which changes nothing; after it (`LastLook`) it fails a switch that has been
made, and nothing is rolled back. `told` is how the last switch has ended.
`set_execution_mode` also fails if an adapter reports another
prior mode than the installation expects; as the modes are compared first and
nobody else may switch adapters ("exclusive ownership"), that cannot happen.

### QProjProfile

What a profile replaces of an adapter are five places, four attributes and the
binding's entry in the registry; `found` says what stands in each. `pc`, `i` and
`j` are the place of each profile in its lists, `undo` what it has noted to put
back. Between any two steps other threads forward through the adapters (`Fetch`
takes the hook that is there, `Work` uses it) and close them. `active` is the
set under the module's lock that keeps profiles apart. An interrupt that falls
between a replacement and its note leaves a hook behind; such adapters are
`torn`, and nothing is promised of them. The spans of one thread are nested by
Python's context managers, so that a trace is told apart by whose spans it has.
The module hooks of `decode_profile.py` are not part of it.

### Measurement

`runner` is the program. `Plan` is its list of generations with their path, kind
and case, in the order that the code runs through its loops (`parity` alternates
it), `n` the one that runs, `results` what was kept of each. The demo and the
profile capture end with an exception, the evaluations note it in `failed` and
go on; both reach the cleanup, which closes the installation and looks whether
the modules are restored. Counters are read before and after a generation; calls
of other code outside these windows go unnoticed here, unlike in a G3 session,
which compares the ends of its windows. Even inside a window three steps deceive
the counters: other code covers an adapter, calls it in place of the model and
uncovers it again; `MaxOutside = 3` shows the trace when the `outside <= 2` of
`AcceptedComplete` is dropped. Between the installer's return and the
assignment of its result an interrupt leaves the adapters installed, without a
`finally` that knew them: `lost` tells such an end from the others.

### BoundedCommand and G0Capture

`BoundedCommand` is `_run_git_process` and `_run_bounded`, told apart by `kind`.
The leader and a child write to two pipes, fork, close them, exit or hang
(`Group`); the code selects, reads, reaps, kills the group and gives up at its
deadline (`Reader`). `ready` are the events of the present round: what a select
has promised is handled later, when the world has gone on. A descendant that
starts a session of its own leaves the group, and the model.

`G0Capture` runs `Plan`, the list of a capture's steps in the code's order, with
one such command after the other. `Played` names the steps whose git query is
played out in the states of `BoundedCommand`; the others answer or fail in one
step, which is what `ResultWhole` justifies. The fixed checks are always played
out. The rest of the state is the checkout (`head`, `worktree`, `flagged`, the
commits' contents), the executables, the staged files with their stat
identities, and what the capture and its verifier have read of them. Members are
read at once, and answers are taken at one moment. One check and one probe
stand for all. The two host profiles are not compared by value: a second one that
differs is a probe that has failed.

What the code does, and the model shows: the staged bundle is verified, and then
its directory is renamed by name. What another program writes into it after the
verifier's last look, or puts in its place after the verifier has opened it, is
installed as it is. `Evidence` therefore speaks of what was verified, and of
what was installed only unless that has happened (`spoiled`). `git` itself is
not among the pinned tools. A change of the checkout that is undone before the
checks have ended goes undetected, which is why `ChecksAsRecorded` gives up at
two outside steps; it counts any two, not only a change and its undoing. A
failing synchronization of the parent is reported, though the bundle is
installed, and a retry finds it there. An interrupt after the leader's exit
leaves a child, and so does a successful git query; `NothingLeft` says of whom
it speaks.

### PreparationReceipt and G3Campaign

A capture of a receipt looks at the checkout three times, each time by three git
queries (head, status, flags of the index), runs the tool from a copy it
identifies by its content, links the receipt to its name and takes it back if
what follows fails. `CaptureStep` is the capture, `Outside` changes the
checkout, the tool and what is under the names. Each capture has an output and
a receipt of its own. `moves` and `stood` are the history that the properties
speak of: how often the checkout changed since the capture began, and which
commits have stood clean in it.

`G3Campaign` adds the sessions (their two looks at the checkout, their
verification of the receipt by the tool, their acceptance; the inside of one is
`G3Session`), the analysis of any three of them, which verifies the receipt
again and checks that they belong together (`Binds`), and the verification of
the bundle, which reads its members one by one and compares what it computes,
with another program rewriting members in between. How the documents get their
names is `Publication`. Sessions run one after the other, which is the case in
which a process ID can recur.

What the code does, and the model shows: a look is deceived when the checkout is
changed between its queries and back again, so that a receipt withstands three
changes of the checkout and a session one; four and two can deceive them. The
rollback of a receipt unlinks what is under the name when the identity does not
match, whosever it is. An interrupt between the link and its return leaves the
receipt. Rewriting a member in place after it was read is not seen by the
verification, which compares the directory's identity.

### G3Session

`stage` is the place in `run_session`; each place may raise and then runs its own
handler, whose cleanup may raise as well. A generation is its number of tokens
and the calls each adapter counted; a guard may send a decoded token to the
fallback (`missed`). `Stray` is a call by other code in the process. Comparisons
of tensors, timings, drift and checkouts are free choices. `Accepts` is the
checker of `g3_evidence.py`, written from its own code. The model runs two
measured generations per path where the protocol has ten: the order alternates
with period two. The session promises its verdict about the calls up to the last
validation; what is called between that and the closing of the adapters, nobody
sees. A failing configuration of torch leaves the copied inputs behind, as no
handler is around it, and an interrupt between the installer's return and the
first handler (`Overlooked`) leaves the adapters; `Released` says so.

### Publication

Documents and bundles are published by two protocols in two files of the code;
`kind` picks one for all publishers of a name. The directory is seen from two
sides: `target` is what programs find under the final name, `disk` the set of
objects that a crash may leave there, which grows with every change and shrinks
to one when the directory is synchronized. `durable` are the publishers whose
content is certain to survive. Thus each invariant speaks about a crash at every
moment. The identities that the code compares are the objects themselves. A
member of a bundle is one write. Other programs put a file or a full directory
(`Foreign`) under the name, an empty directory (`Vacant`), or nothing.

What the code does, and the model shows: a bundle that is withdrawn is looked at
once more (`Check`, `g3_results.py:1125`), then its members are removed through
the open directory, and the directory is removed by its name (`RemoveDirectory`,
`g3_results.py:1136`). An empty directory that has come under the name in
between is removed in its place; one with anything in it stays, and so does a
file. `BundlesKeepOthers` says exactly that. What stands under a temporary name
after a crash is left out: nothing ever reads it.

## Runs

| run | instance | shows |
|---|---|---|
| `bridge` | 3 threads, 2 handles, packs of 1, 1, 1 and 4 bytes, quota 2 entries and 4 bytes | quotas, exact accounting, refinement of `HandleTable`; the quota of an unreachable pack comes back |
| `bridge_call` | 9 cells, K = 1, N = 2 | range checks, all-or-nothing output, whole answers |
| `registry` | 2 threads with 2 calls each, 2 bindings | ownership, convergence of closes, no deadlock between the two locks |
| `adapter` | 3 threads, one with 2 calls, the others with one, interrupts | counters, refinement of `AdmissionGate`; every call returns unless a close was interrupted |
| `adapter_interrupt` | 2 threads with 2 calls each, interrupts | the finding, see below |
| `install` | 4 layers, 2 calls, 1 change of a file up to the end of the load, 2 outside steps in all, interrupts | assets are pinned, rollback of installation, guards, foreign modules, one mode after a switch, the one it has told of |
| `qproj_profile` | 2 profiles of 2 adapters in opposite orders, 1 more thread, 1 forward per thread, 1 close, interrupts | hooks never stack, all is put back, whole traces |
| `measurement` | 2 layers, 2 cases, 1 measured generation, 2 outside steps, interrupts | what an accepted document stands for, the model is given back |
| `g0_capture` | output limit 1, commands that write up to 2 pieces, 3 commits, 2 outside steps | results, leftovers, evidence; the capture ends |
| `g3_campaign` | 2 commits, 2 tools, 2 captures, 3 sessions, 3 process IDs, 3 outside steps in the first capture, 1 later | what receipt, session, bundle and verification stand for |
| `g3_session` | 2 layers, 2 warmup and 2 measured repetitions, generations of up to 3 tokens, 2 stray calls | what an accepted session proves, agreement of runner and checker, cleanup after any failure |
| `publication` | 3 publishers, 2 pieces, 2 outside steps | whole or absent, durable when reported, withdrawn when failed |

Why the bounds are enough. The bridge's races are between one create, which
holds the mutex, and releases by others; two releasing threads and one create
show every order of the four counter steps; three small packs exceed the
entries, the large pack with any other exceeds the bytes. For the locks, two
threads suffice for every cycle of two locks; three threads in the adapter give
one waiter of each kind, and a thread's second call is a failed close's retry or
a call from inside a callback. Three layers have a first, a middle and a last
one, so that a loop may fail before, between and after others; a fourth one lets
a rollback fail between a layer that was switched and one that was not reached.
Two outside steps let other code wrap a module and unwrap it. Two profiles in
opposite orders meet in every way two undo lists can cross, and a third thread
forwards through hooks of both. In a measurement two cases are a first and a
last, so that a failure may be passed over and a later one recorded in its
place; two outside steps are the most that its property allows. A command that
may write one piece more than its limit reaches it,
exceeds it and stays below; three commits are one before the baseline, the
baseline and one that descends from it; two outside steps are a change and its
undoing. In the campaign three changes are the most that the property allows a
capture; one later change is the most it allows a session; three sessions make
the one triple that a bundle wants, and with two receipts they may disagree.
In a session, generations of one, two and three tokens have no, one and several
native calls, and two stray calls may fall on two layers or into two intervals
between snapshots. Of three publishers one may hold the name, one take back and
one come too late; two outside steps swap the object under the name.

Where the theorems below hold for all values of these constants, the bounds of
the runs matter only for finding out.

Fairness is weak fairness of each thread's next step in the bridge, the registry
and the adapter: native calls end, and the scheduler runs every thread. Nothing
is assumed about the order in which locks are granted, which is why the runs
bound the number of calls. Calls are never obliged to begin. `G0Capture` assumes
weak fairness of the capture's own steps, of its reader and of the clock
(`Expire`), and none of the commands, which may hang: it is the deadline that
must end them. Other modules state no fairness, as nothing is claimed that must
happen.

`CHECK_DEADLOCK FALSE` is used where the system comes to an end: an installation
is rejected or its calls are used up, publishers publish once, a capture, a
campaign and a measurement end, and profiles end with their contexts.

## Findings

* `adapter_interrupt`: `QProjAdapter.close` sets `_closing` and waits for
  admitted forwards without `try`/`finally`. A KeyboardInterrupt in that wait
  leaves the flag set: every later close waits for ever, though the class
  promises an idempotent close that retains ownership when it fails.

In two places the code does a little more than its docstring says; the properties
state what it does:

* `_cleanup_staging` says that it removes "only the still-anchored staging objects
  created by this call" (`g3_results.py:1122`), but the directory itself is
  removed by name, so that another's empty directory may go (`g3_results.py:1136`,
  see Publication);
* `set_execution_mode` calls itself "transactional on failure", but when the last
  look at the calls in flight fails it, every layer has been switched and stays so
  (`qproj_model.py:1192`). It takes a call during the switch, which the same
  docstring asks callers not to make.

Other things a reader of the code may want to know, which contradict nothing
that it says of itself:

* when the guard inspection itself raises, the adapter counts a fallback attempt
  and error, though no fallback was tried (`qproj_adapter.py:546`);
* the installation's `set_execution_mode` rolls back on `Exception` only: a
  KeyboardInterrupt leaves the layers in two modes (`qproj_model.py:1177`);
* when something other than an `Exception` comes out of the guard inspection
  (`torch_bridge.py:1044`), the latest guard reason is that of an earlier call;
  as interrupts come only in waits in `QProjAdapter`, this is not modelled;
* the rollback of a document's publication asks whether the name still refers to
  what a stat after the link has found there, so that a file that came under the
  name before that stat is taken for its own (`g3_session.py:327`);
* what the sections on the modules say under "what the code does".

## Proofs

Every safety property that a passing run checks is proved as well, for every
value of the constants that satisfies the named assumptions of its module. In
each case the property alone is not inductive; what follows says what it leans
on. The bounds on counters (`MaxCalls`, `MaxOutside`, ...) are arbitrary natural
numbers in the theorems.

**RuntimeBridge** (`RuntimeBridge_proofs`). `Inductive` adds to the types,
`QuotaRespected`, `OneBuilder` and `NoUseAfterFree` what they lean on: who holds
the mutex is where in a create, at most one thread is between admission and the
end of its reservation, what a create loaded is at least what the counters hold
now (they can only have shrunk since), and each entry is released at most once,
by the thread that dropped the last reference. `QuotaRespected` alone is not
inductive: a create that loaded a value long ago could add to a counter that had
grown, if others could add. One lemma per part (`TypeStep`, `OwnershipStep`,
`ExclusionStep`, `QuotaStep`, `ReferencesStep`) shows that every action keeps it.
`AccountingExact` speaks of sums over sets of packs. Its steps need only that a
sum changes by one summand when one element comes or goes; that is shown once,
for the recursive function the sum is defined by, from a smallest
counterexample. `Reached` says that an admitted pack always has somebody who
will publish it, use it or give it back; with it, each step of the bridge is a
step of `HandleTable` or none, which is the theorem `BridgeIsATable`.

**BridgeCall** (same module). A call is judged by itself, as the bridge keeps
nothing between calls that it could confuse. The lemmas say what a range that
the code's checks let through looks like (it neither wraps nor is null nor meets
the other), and that the first check that fails decides the answer. For a run
`RunningInv` says what its output holds at each stage: before it is filled
anything, from then on only sentinels and what the kernel has stored; a scan that
finds everything finite has therefore seen the kernel's values only. From these
follow where a call may write, that a run's output is all or nothing, and that
an answer is whole, for any size of memory and any lengths.

**BindingRegistry** (`BindingRegistry_proofs`). `OwnershipAgrees` needs to know
that the thread which closes an entry holds the registry's lock, that an ID just
drawn is in nobody's hands, and that a running thread has the binding's lock.
`CloseConverges` rests on one more fact that spans several steps: the ID that a
close took from its binding stays the binding's owner for as long as the binding
is open. `ClosedForGood` says the other half, that a closed binding is never open
or listed again. That IDs never run out (`DrawsBounded`) needs the set of threads to be
finite, which the module assumes.

**QProjAdapter** (`QProjAdapter_proofs`). That a waiting close finds nobody inside
after its wait rests on the count being exact, the count on which calls are
inside, and that on which calls may sleep. `Inductive` names these parts
(`CountExact`, `InsideAgrees`, `OneTransition`, `OneClose`, `Drained`), one lemma
keeps each. From it follow `CloseWaitsForForwards` and, by the lemma `GateStep`,
that each step of the adapter is a step of `AdmissionGate` or none: the theorem
`AdapterIsAGate`. `NeverReopened` is a property of the gate and is proved from
that lemma. `CountersHonest` has an invariant of its own: forwards dispatch one
at a time under the dispatch lock (`Serialised`), so that the latest reason of
the callable is the reason of the forward that reads it; what ran is what was
counted and what the lock's holder is about to count (`Counted`); and every
forward is in one of the cells that the counters split it into (`Partition`).

**QProjInstall** (`QProjInstall_proofs`), with `PreparedAssets`. Each of the four
properties leans on a part of its own: `GivenUp` follows installation and
rejection layer by layer and says which layers may have a wrapper or a live
adapter at each place; `Switched` splits the layers into those that a switch or
its rollback has reached and those it has not, and ties their mode to what was
told of the last one; `Restored` adds only that nothing
counts as restored before there is an installation; `Staged` and `Read` are the
files that preparer and loader have behind them. A crash needs no part:
`AfterCrash` is bounded from `unsynced` and the preparer's place.

**QProjProfile** (`QProjProfile_proofs`). That everything is put back is a fact
about the undo lists: what is in each place is told by whether a list has a note
of it, no place is noted twice, and the lists of two profiles are about
different adapters, so that undoing a note concerns nobody else. The body of a
profile starts with a hook in every place, which is why the spans of its own
forwards cannot get past it. The invariant's parts are `TypeOK`, `ListsOK`,
`PositionOK` and `Spans`. It assumes that a list of targets names no adapter
twice, which the code checks ("one adapter cannot be profiled through two
paths").

**Measurement** (same module). `AcceptedComplete` ties a verdict to everything
that was passed over on the way. `Installed` and `InMode` say that the adapters
are in the model and in the mode of the plan whenever a generation runs, unless
a module was covered; `FailuresNoted` and `Kept`, what every generation behind
the current one has left; `Windowed` and `Untainted`, that the counters of a
window that was disturbed differ from what its plan allows, so that a tainted
result is never kept. The difficult case is a disturbance that could make up for
another: a covered adapter counts too few calls, a stray one too many. With two
outside steps they cannot: either the counters of the window tell, or the cover
stays and makes `close` fail, so that nothing is accepted; `Clear` names the
states in which the former holds. A third step takes the cover off, and then the
counters are deceived. `GivenBack` follows from the same invariant, for any
number of steps.

**BoundedCommand and G0Capture** (`G0Capture_proofs`). A command's result is whole
and nobody is left, for any limit. `ReaderInv` is the reason: an event that a
select has reported stays true until it is handled, since nobody else reads the
pipes and nobody reopens them; and the reader takes a pipe for finished only when
all is read and nobody holds it any more. The capture inherits both by
composition: each of its steps is a step of the command, leaves the command
alone or starts it anew. `Evidence`, `ChecksAsRecorded` and `SnapshotWasThere`
follow from `CaptureInv`. `Placed` says what every step of the plan has
established once it is behind; `Bracketed`, that tools which look the same before
and after the checks were the same in between, as an identity is never used
twice; `Undisturbed`, that one change of the checkout during the checks shows in
the second clean look and only a change with its undoing does not; `LastSnapshot`
and `Proven`, that members whose stamps did not change between two looks were all
there at the moment between; `Kept`, that after its last look what the verifier
has read is what is staged, and later what is installed, unless it was `spoiled`.

**PreparationReceipt and G3Campaign** (`G3Campaign_proofs`). The difficulty is the
count of changes: `Looks` says, for each place of a capture and for each state
the checkout may be in, how often it must have changed for the present state to
be reached while the revision never stood clean. Three looks need four changes,
and a session's two (`SessionLooks`) need two. `Sealed` is what the analysis has
checked when it builds the bundle, and `Reading` what the verification has read,
unless the directory has got a new identity or a member was rewritten. The
theorems of the campaign rest on those of the receipt, whose steps are its own.

**Publication** (`Publication_proofs`). None of the invariants is inductive, as
each speaks of what is under the names and nothing in it tells who put that
there. `Owned` does: from a publisher's place it follows whether it has entered
the final name, whether its content is synchronized and which names it has given
up again. `Holds` is the part for runs without interference: between the link or
rename and its end a publisher has the name to itself, since both refuse a name
in use, and from the first directory synchronization on it is alone on disk as
well; `OkIsDurable` is its last case. For `BundlesKeepOthers` the steps that enter
a name look first, and the one that frees it by name can only do so if the
directory there is empty; `Owned` and `NothingTorn` tell that a publisher's directory is
empty only when this publisher is taking it down.

**G3Session** (same module). `AcceptedCoverage` has two halves. The first is about
the checker alone and needs no state: whatever it accepts, from whatever
runner, covers the model (`AcceptanceCovers`), because the readings of the
counters are chained from the probes to the validation, each link is the calls
of one record, and the checks are those of the records. The second is that only
what the checker accepts reaches "accepted". `CheckerAgrees` goes the other way:
`Recorded` and `Continuous` say that without stray calls each record continues
the one before and counts exactly its own calls, and `NextKeyIsExpected` that
the runner's loops and the checker's table derive the same order. `Judged` and
`Held` carry the verdict and what is held, from which `Released` follows.

What is not proved. The liveness properties `QuotaReturns` of the bridge,
`CallsReturn` of registry and adapter and `CaptureEnds` of the capture need
fairness and ENABLED, which the prover does not handle; TLC checks them on the
instances above. Induction over data is not available as a rule. Where a
recursive function had to be reasoned about (sums over packs, tallies over the
records of a session, the first check that failed), the proof takes a smallest
counterexample in the natural numbers or in another well-founded order and
refutes it; that works for a fact of one function at a time, and each such fact
is a lemma.

## Not modelled

Binary32 arithmetic, text emission, parsing of disassembly and Mach-O files,
JSON schemas, hashing, timing, statistics and rendering are pure functions of
their inputs or I/O with no protocol; the code tests them against independent
references. Of the G0 evidence the closed profile of a document is one
predicate, and the report that `verify_g0_repository.py` prints is left out. Of
a session tensors, drift, timings and memory samples are free choices. The
module hooks of `decode_profile.py` and the scheduling of the profile capture
are left out, and so are entry points and maintenance scripts.

The native toolchain's runner in `compiler/decodeforge-compiler/src/native`, the
checked loading of what it builds, and the G1 benchmark have protocols of their
own and are in the plan.

## Plan

The order was: what runs in a model (bridge, C ABI, registry, adapter,
installation); what measures it (sessions, evaluations, profiles); what ties the
measurements to weights, tools and commits (assets, captures, receipts,
campaign). What is left, in this order:

1. `ToolRunner`: the polled subprocesses of `native/toolchain.rs`, which are
   terminated, killed and reaped under deadlines of their own, and `NativeBuild`:
   snapshot, private copies, audits and mapping of the generated code.
2. `PackedLayout` and `LoopNest`: offsets, padding and panel order of the OI4
   payload, and the fixed loop nest, as operators over small shapes: every
   weight has one place, the scalar and the vector schedule visit the same
   products in the same order, and each output is stored once.
3. The acceptance of three G1 sessions, and the order of their pairs.
4. The adapter's `counters`, which read the totals and the lifecycle under two
   locks, and the callable's own counters beside the adapter's.
