---------------------------- MODULE BridgeCall ----------------------------
(***************************************************************************)
(* What one call of the C ABI in compiler/decodeforge-bridge/src/lib.rs    *)
(* does to the caller's memory and to the calling thread's diagnostic: the *)
(* order of pointer, length, overlap and handle checks, the outputs each   *)
(* failure leaves behind, and the bounded last-error query.                *)
(*                                                                         *)
(* Memory is a row of cells 0..Top, Top standing for usize::MAX and 0 for  *)
(* null.  A float, a handle and a usize fill two cells and are aligned to  *)
(* two, a descriptor fills four.  RuntimeBridge models the same calls      *)
(* against each other; here they come one at a time, and only a run takes  *)
(* several steps, because it lends its output to a generated kernel.       *)
(***************************************************************************)
EXTENDS Naturals, FiniteSets

CONSTANTS
  Top,               \* usize::MAX
  HandleValues,      \* the nonzero handle values
  ZeroHandle,        \* handle zero
  K, N,              \* the input and output lengths of every loaded module
  MaxManifestBytes, MaxPayloadBytes, MaxVectorBytes, MaxErrorBytes,
  MaxCount           \* bound: the largest count a caller passes

ASSUME SizesAssumption ==
  /\ {Top, K, N, MaxCount} \subseteq Nat
  /\ {MaxManifestBytes, MaxPayloadBytes, MaxVectorBytes} \subseteq Nat
  /\ MaxErrorBytes \in Nat \ {0, 1}
  /\ ZeroHandle \notin HandleValues

VARIABLES
  live,        \* the handles in the registry
  errorLength, \* LAST_ERROR.length of the calling thread; 0 when cleared
  call         \* the call that has just returned, a run in progress, or Ready

callVars == <<live, errorLength, call>>

Byte == [size |-> 1, align |-> 1]
Float == [size |-> 2, align |-> 2]
Word == [size |-> 2, align |-> 2]
Descriptor == [size |-> 4, align |-> 2]

\* Mutant: the end of the range may wrap around the address space.
RangeStatusWraps(pointer, count, type, maximum) ==
  LET bytes == count * type.size IN
  CASE pointer = 0 -> "null_argument"
    [] pointer # 0 /\ bytes = 0 -> "zero_length"
    [] pointer # 0 /\ bytes > 0 /\ bytes > maximum -> "limit_violation"
    [] pointer # 0 /\ bytes > 0 /\ bytes <= maximum ->
         IF pointer % type.align = 0 THEN "ok" ELSE "invalid_argument"

\* pointer_range: ok, or the first check that fails.
RangeStatus(pointer, count, type, maximum) ==
  LET bytes == count * type.size IN
  CASE pointer = 0 -> "null_argument"
    [] pointer # 0 /\ bytes > Top -> "limit_violation"
    [] pointer # 0 /\ bytes = 0 -> "zero_length"
    [] pointer # 0 /\ bytes \in 1 .. Top /\ bytes > maximum -> "limit_violation"
    [] pointer # 0 /\ bytes \in 1 .. Top /\ bytes <= maximum ->
         IF pointer % type.align = 0 /\ pointer + bytes <= Top
           THEN "ok" ELSE "invalid_argument"

Cells(pointer, count, type) == pointer .. (pointer + count * type.size - 1)

\* ranges_overlap, on the half-open intervals.
Overlap(p, m, ptype, q, n, qtype) ==
  p < q + n * qtype.size /\ q < p + m * ptype.size

\* The status of the first failing check of a sequence of them.
FirstFailure(checks) ==
  LET failing == {i \in DOMAIN checks : checks[i] # "ok"} IN
  IF failing = {} THEN "ok"
  ELSE checks[CHOOSE i \in failing : \A j \in failing : i <= j]

OverlapStatus(overlaps) == IF overlaps THEN "overlap" ELSE "ok"

Ready == [kind |-> "none"]
Fill(cells, value) == [c \in cells |-> value]
Untouched == Fill({}, "caller")

CallInit ==
  /\ live = {}
  /\ errorLength = 0
  /\ call = Ready

\* set_last_error: status label and message are cut at the cell before the end.
Diagnosed == {1, MaxErrorBytes - 1}

\* ffi_boundary: a success has cleared the diagnostic, a failure records one.
Returns(kind, status, output, input, writes) ==
  /\ call' = [kind |-> kind, status |-> status, output |-> output,
              input |-> input, writes |-> writes]
  /\ IF status = "ok" THEN errorLength' = 0 ELSE errorLength' \in Diagnosed

Pointers == 0 .. Top
Counts == 0 .. MaxCount

-----------------------------------------------------------------------------
\* df_runtime_create_neon_v1: the handle is zeroed once the ranges are sound,
\* and written only when the entry is in the registry.
Create(manifest, m, payload, n, out) ==
  LET ranges == FirstFailure(<<
        RangeStatus(manifest, m, Byte, MaxManifestBytes),
        RangeStatus(payload, n, Byte, MaxPayloadBytes),
        RangeStatus(out, 1, Word, Word.size)>>)
      overlap == OverlapStatus(
        \/ Overlap(manifest, m, Byte, payload, n, Byte)
        \/ Overlap(manifest, m, Byte, out, 1, Word)
        \/ Overlap(payload, n, Byte, out, 1, Word))
      input == Cells(manifest, m, Byte) \cup Cells(payload, n, Byte)
      output == Cells(out, 1, Word)
  IN
  /\ call = Ready
  /\ \/ /\ FirstFailure(<<ranges, overlap>>) # "ok"
        /\ Returns("create", FirstFailure(<<ranges, overlap>>), {}, {}, Untouched)
        /\ UNCHANGED live
     \/ /\ FirstFailure(<<ranges, overlap>>) = "ok"
        /\ \E status \in {"invalid_manifest", "build_failed", "limit_violation"} :
             Returns("create", status, output, input, Fill(output, "zero"))
        /\ UNCHANGED live
     \/ /\ FirstFailure(<<ranges, overlap>>) = "ok"
        /\ \E h \in HandleValues \ live : live' = live \cup {h}
        /\ Returns("create", "ok", output, input, Fill(output, "result"))

ExecutionFailures ==
  {"nonfinite_input", "nonfinite_output", "execution_failed", "panic"}

\* map_runtime_error: which failure a nonzero status of the kernel stands for.
MapRuntimeError(raw) ==
  CASE raw = "nonfinite_input" -> "nonfinite_input"
    [] raw = "nonfinite_result" -> "nonfinite_output"
    [] raw = "refused" -> "execution_failed"
RawFailures == {"nonfinite_input", "nonfinite_result", "refused"}

\* is_finite_f32_bits: the sentinel is a NaN; what a caller had there may be finite.
Finite == {"caller", "result"}

\* A run that has lent its output to the kernel; pointer is where the output begins.
Lend(stage, pointer, output, input, writes) ==
  /\ call' = [kind |-> "running", stage |-> stage, pointer |-> pointer,
              output |-> output, input |-> input, writes |-> writes]
  /\ UNCHANGED errorLength

Running(stage) == call.kind = "running" /\ call.stage = stage /\ UNCHANGED live
Proceed(stage, writes) == Lend(stage, call.pointer, call.output, call.input, writes)

\* Mutant: the output is not filled before the kernel runs.
InvokeUnscrubbed == Running("prepared") /\ Proceed("invoking", call.writes)

\* invoke_with_output_policy begins: the whole output is filled with the sentinel.
ScrubOutput == Running("prepared") /\ Proceed("invoking", Fill(call.output, "nan"))

\* What the output holds once the kernel has put a value into some of its floats.
Stored(float) ==
  [c \in call.output |->
    LET value == float[(c - call.pointer) \div Float.size]
    IN  IF value = "kept" THEN call.writes[c] ELSE value]

\* The generated kernel writes any of the output's floats, or leaves them, and
\* returns any status; the call may also panic on the way.
Kernel ==
  /\ Running("invoking")
  /\ \E float \in [0 .. N - 1 -> {"kept", "result", "inf", "nan"}],
        raw \in {"ok", "panicked"} \cup RawFailures : Proceed(raw, Stored(float))

\* The run returns with what its output holds, or with sentinels all over it.
Finish(status) == Returns("run", status, call.output, call.input, call.writes)
FinishScrubbed(status) ==
  Returns("run", status, call.output, call.input, Fill(call.output, "nan"))

\* A success counts when every value is finite.
FiniteScan ==
  /\ Running("ok")
  /\ IF \A c \in call.output : call.writes[c] \in Finite
       THEN Finish("ok")
       ELSE FinishScrubbed("nonfinite_output")

KernelFails ==
  /\ Running(call.stage) /\ call.stage \in RawFailures
  /\ FinishScrubbed(MapRuntimeError(call.stage))

\* run_impl contains the panic.
ContainPanic == Running("panicked") /\ FinishScrubbed("panic")

\* df_runtime_run_v1: handle, ranges, overlap and lengths before the output is
\* touched.  A run that is not refused prepares the call: its output still holds
\* what the caller had there.
Run(h, x, xlen, y, ylen) ==
  LET refused == FirstFailure(<<
        IF h \in live THEN "ok" ELSE "invalid_handle",
        RangeStatus(x, xlen, Float, MaxVectorBytes),
        RangeStatus(y, ylen, Float, MaxVectorBytes),
        OverlapStatus(Overlap(x, xlen, Float, y, ylen, Float)),
        IF xlen = K /\ ylen = N THEN "ok" ELSE "invalid_argument">>)
      input == Cells(x, xlen, Float)
      output == Cells(y, ylen, Float)
  IN
  /\ call = Ready
  /\ UNCHANGED live
  /\ \/ /\ refused # "ok"
        /\ Returns("run", refused, {}, {}, Untouched)
     \/ /\ refused = "ok"
        /\ Lend("prepared", y, output, input, Fill(output, "caller"))

\* Mutant: the descriptor is zeroed only after the handle has been found.
GetDescriptorLateZero(h, out) ==
  LET range == RangeStatus(out, 1, Descriptor, Descriptor.size)
      refused == FirstFailure(<<range, IF h \in live THEN "ok" ELSE "invalid_handle">>)
      output == IF range = "ok" THEN Cells(out, 1, Descriptor) ELSE {}
  IN
  /\ call = Ready
  /\ UNCHANGED live
  /\ IF refused # "ok"
       THEN Returns("descriptor", refused, output, {}, Untouched)
       ELSE Returns("descriptor", "ok", output, {}, Fill(output, "result"))

\* df_runtime_get_descriptor_v1: a sound descriptor is zeroed before the lookup,
\* also for handle zero, whose status wins over a bad pointer's.
GetDescriptor(h, out) ==
  LET range == RangeStatus(out, 1, Descriptor, Descriptor.size)
      refused == IF h = ZeroHandle THEN "invalid_handle" ELSE range
      output == IF range = "ok" THEN Cells(out, 1, Descriptor) ELSE {}
  IN
  /\ call = Ready
  /\ UNCHANGED live
  /\ \/ /\ refused # "ok"
        /\ Returns("descriptor", refused, output, {}, Fill(output, "zero"))
     \/ /\ refused = "ok"
        /\ h \notin live
        /\ Returns("descriptor", "invalid_handle", output, {}, Fill(output, "zero"))
     \/ /\ refused = "ok"
        /\ h \in live
        /\ \/ Returns("descriptor", "ok", output, {}, Fill(output, "result"))
           \/ Returns("descriptor", "internal", output, {}, Fill(output, "zero"))

\* df_runtime_destroy_v1.
DestroyHandle(h) ==
  /\ call = Ready
  /\ live' = live \ {h}
  /\ Returns("destroy", IF h \in live THEN "ok" ELSE "invalid_handle", {}, {}, Untouched)

\* df_runtime_last_error_v1: the required size is written first; a buffer gets
\* as much text as leaves room for the terminator.  Neither success nor
\* truncation clears the diagnostic, a bad argument replaces it.
LastError(buffer, capacity, required) ==
  LET sizeOnly == buffer = 0 /\ capacity = 0
      refused == FirstFailure(<<
        RangeStatus(required, 1, Word, Word.size),
        IF sizeOnly THEN "ok" ELSE RangeStatus(buffer, capacity, Byte, MaxErrorBytes),
        OverlapStatus(~sizeOnly /\ Overlap(buffer, capacity, Byte, required, 1, Word))>>)
      size == Cells(required, 1, Word)
      copied == IF errorLength < capacity THEN errorLength ELSE capacity - 1
      text == IF sizeOnly THEN {} ELSE buffer .. (buffer + copied)
  IN
  /\ call = Ready
  /\ UNCHANGED live
  /\ \/ /\ refused # "ok"
        /\ Returns("last_error", refused, {}, {}, Untouched)
     \/ /\ refused = "ok"
        /\ call' = [kind |-> "last_error",
                    status |-> IF sizeOnly \/ copied = errorLength THEN "ok" ELSE "truncated",
                    output |-> size \cup (IF sizeOnly THEN {} ELSE Cells(buffer, capacity, Byte)),
                    input |-> {},
                    writes |-> [c \in size \cup text |->
                                  IF c \in size THEN "size"
                                  ELSE IF c = buffer + copied THEN "nul" ELSE "text"],
                    required |-> errorLength + 1,
                    capacity |-> capacity]
        /\ UNCHANGED errorLength

\* The caller has read the results and prepares its next call.
NextCall ==
  /\ call.kind \notin {"none", "running"}
  /\ call' = Ready
  /\ UNCHANGED <<live, errorLength>>

CallNext ==
  \/ \E p, q, out \in Pointers, m, n \in Counts : Create(p, m, q, n, out)
  \/ \E h \in HandleValues \cup {ZeroHandle}, x, y \in Pointers, m, n \in Counts : Run(h, x, m, y, n)
  \/ \E h \in HandleValues \cup {ZeroHandle}, out \in Pointers : GetDescriptor(h, out)
  \/ \E h \in HandleValues \cup {ZeroHandle} : DestroyHandle(h)
  \/ \E p, out \in Pointers, m \in Counts : LastError(p, m, out)
  \/ ScrubOutput \/ Kernel \/ FiniteScan \/ KernelFails \/ ContainPanic
  \/ NextCall

CallSpec == CallInit /\ [][CallNext]_callVars

-----------------------------------------------------------------------------
\* No call writes a cell outside the output it validated, none wraps past the
\* end of the address space, and none touches a cell it reads: the checks of
\* pointer_range and ranges_overlap are enough for every pointer and length.
WritesStayInside ==
  call # Ready =>
    /\ DOMAIN call.writes \subseteq call.output
    /\ call.output \cup call.input \subseteq 1 .. Top - 1
    /\ call.output \cap call.input = {}

\* "Invalid handles, lengths, and other structural failures leave output
\* untouched", a failed execution leaves only sentinels, a success means that the
\* kernel has written every float of this output: a caller never sees part of a
\* result nor what was there before, wherever the kernel stops and whatever it
\* says, also if it reports success without having written everything.
RunAllOrNothing ==
  call.kind = "run" =>
    CASE call.status = "ok" ->
           /\ call.writes = Fill(call.output, "result")
           /\ Cardinality(call.output) = N * Float.size
      [] call.status \in ExecutionFailures -> call.writes = Fill(call.output, "nan")
      [] OTHER -> call.writes = Untouched

\* "A valid pointer is zeroed on every failure, including INVALID_HANDLE": a
\* failed query or create leaves a zero output or, if its output was not a
\* sound range, none at all.  The size a diagnostic query reports fits the largest
\* buffer it accepts, a buffer of that size is never truncated, and any nonempty
\* buffer ends in one NUL.
AnswersWhole ==
  /\ call.kind \in {"descriptor", "create"} =>
       call.writes = Fill(call.output, IF call.status = "ok" THEN "result" ELSE "zero")
  /\ call.kind = "last_error" /\ call.status \in {"ok", "truncated"} =>
       /\ call.required <= MaxErrorBytes
       /\ call.status = "truncated" => call.capacity < call.required
       /\ call.capacity > 0 =>
            Cardinality({c \in DOMAIN call.writes : call.writes[c] = "nul"}) = 1
=============================================================================
