---------------------------- MODULE CombineReduce ----------------------------
(***************************************************************************)
(* combine_reduce of the Pippenger core                                    *)
(* (src/sxt/multiexp/pippenger2/combine_reduce.h).                        *)
(*                                                                         *)
(* The partial products are abstracted to formal sums: the partial at     *)
(* host position q is the unit vector of q, add_inplace adds coefficient  *)
(* by coefficient and double_element doubles them.  A result therefore    *)
(* says exactly which partials it summed and with which power of two, and *)
(* is compared with the reference sum over j of 2^j * p_j.                *)
(*                                                                         *)
(* Both overloads are modelled: the one taking an output bit table        *)
(* (partial sums of the bit widths) and the one taking a fixed            *)
(* element_num_bytes.  With partials in device memory there is one chunk  *)
(* at offset 0; from host memory the outputs are split into consecutive   *)
(* ranges that concurrent_for_each runs as separate tasks, each on its    *)
(* own stream, finishing in any order.                                    *)
(***************************************************************************)
EXTENDS Integers, Sequences, FiniteSets, SequencesExt, Functions

CONSTANTS
  MaxOutputs,    \* bound on res.size()
  Widths,        \* the bit widths an output_bit_table entry may have
  MaxReduction,  \* bound on reduction_size (the number of chunk partials)
  ElementBytes,  \* element_num_bytes of the fixed-width overload
  Garbage,       \* a value read from memory the kernel does not own
  Fault,         \* an illegal-address fault of the kernel
  NoResult       \* an entry of res not yet written

VARIABLES
  overload,  \* "table" or "fixed": which combine_reduce was called
  bt,        \* output_bit_table (for "fixed", 8 * element_num_bytes each)
  rs,        \* reduction_size
  onDevice,  \* is_active_device_pointer(partial_products.data())
  chunks,    \* the output ranges [a, size] of the split
  done,      \* the chunks whose task has finished
  res,       \* res, indexed from 0
  phase      \* "start", "chunks", "done", "panic" or "crash"

vars == <<overload, bt, rs, onDevice, chunks, done, res, phase>>

(* The kernel's unsigned arithmetic wraps modulo 2^32.  TLC's integers    *)
(* end at 2^31 - 1; every value the model's bounds produce is far below   *)
(* 2^30, so wrapping modulo 2^30 leads every comparison the same way.     *)
UIntModulus == 2^30

Unsigned(x) == x % UIntModulus

NumOutputs == Cardinality(DOMAIN bt)

(* The group, as formal sums of the host positions in P.                  *)
Zero(P) == [q \in P |-> 0]
Unit(P, q) == [r \in P |-> IF r = q THEN 1 ELSE 0]
Add(a, b) == [q \in DOMAIN a |-> a[q] + b[q]]
Double(e) == Add(e, e)

(* std::partial_sum of the bit table.                                     *)
PartialSums(t) ==
  [i \in DOMAIN t |-> SumFunctionOnSet(t, 0 .. i)]

(* The number of partials per chunk reduction (sum of the bit widths).    *)
NumPartials(t) == SumFunction(t)

(* The host array partial_products: reduction_size blocks of partials.    *)
Positions == 0 .. NumPartials(bt) * rs - 1
Host == [q \in Positions |-> Unit(Positions, q)]

(* strided_copy_host_to_device: for each reduction r, slice partials of   *)
(* host block r starting at offset, packed one block after the other.      *)
StridedCopy(host, stride, slice, offset, n) ==
  [q \in 0 .. slice * n - 1 |-> host[(q \div slice) * stride + offset + (q % slice)]]

(* e plus the partials at q of the reductions from .. n - 1.              *)
AddReductions(e, dev, q, slice, from, n) ==
  FoldSet(LAMBDA r, acc : Add(acc, dev[q + r * slice]), e, from .. n - 1)

(* The doubling loop of combine_reduce_output, bitIndex passes left.      *)
RECURSIVE HornerLoop(_, _, _, _, _, _)
HornerLoop(dev, q, slice, n, bitIndex, e) ==
  IF bitIndex = 0 THEN e
  ELSE HornerLoop(dev, q - 1, slice, n, bitIndex - 1,
                  AddReductions(Double(e), dev, q - 1, slice, 0, n))

(* A mutant of CombineReduceOutput: bit_index starts at bit_width.        *)
CombineReduceOutputFromWidth(dev, top, slice, n, bw) ==
  IF top - 1 - Unsigned(bw) < 0 \/ top > slice THEN Garbage
  ELSE HornerLoop(dev, top - 1, slice, n, Unsigned(bw),
                  AddReductions(dev[top - 1], dev, top - 1, slice, 1, n))

(* combine_reduce_output with partials pointing at position top of dev:   *)
(* start from the last partial, then double and add the one before, over  *)
(* every reduction.  A loop that would read before dev (bit_width = 0     *)
(* makes bit_index wrap) reads memory it does not own.                    *)
CombineReduceOutput(dev, top, slice, n, bw) ==
  IF top - 1 - Unsigned(bw - 1) < 0 \/ top > slice THEN Garbage
  ELSE HornerLoop(dev, top - 1, slice, n, Unsigned(bw - 1),
                  AddReductions(dev[top - 1], dev, top - 1, slice, 1, n))

(* A mutant of ChunkKernelTable: partials_offset used as the correction   *)
(* of every output, not only of the first.                                *)
ChunkKernelTableOffsetOnly(dev, sums, slice, n, offset, o) ==
  CombineReduceOutput(dev, sums[o] - offset, slice, n, Unsigned(sums[o] - offset))

(* combine_reduce_chunk_kernel (bit table): the bit width of output o of  *)
(* the chunk and the position just past its partials.                     *)
ChunkKernelTable(dev, sums, slice, n, offset, o) ==
  LET correction == IF o # 0 THEN sums[o - 1] ELSE offset
  IN CombineReduceOutput(dev, sums[o] - offset, slice, n, Unsigned(sums[o] - correction))

(* The fixed-width kernel: output o ends at bit_width * (o + 1).          *)
ChunkKernelFixed(dev, bw, slice, n, o) ==
  CombineReduceOutput(dev, bw * (o + 1), slice, n, bw)

(* combine_reduce_chunk (bit table) over outputs [a, a + size): Fault if  *)
(* the release assertion fails, else the results of its outputs.          *)
CombineReduceChunkTable(host, c, n, dev0) ==
  LET sums   == PartialSums(bt)
      offset == IF c.a > 0 THEN sums[c.a - 1] ELSE 0
      chunk  == [o \in 0 .. c.size - 1 |-> sums[c.a + o]]
      last   == chunk[c.size - 1]
      slice  == last - offset
      dev    == IF dev0 THEN host
                ELSE StridedCopy(host, Cardinality(DOMAIN host) \div n, slice, offset, n)
  IN IF ~(offset < last) \/ (dev0 /\ Cardinality(DOMAIN host) # slice * n) THEN Fault
     ELSE [o \in 0 .. c.size - 1 |-> ChunkKernelTable(dev, chunk, slice, n, offset, o)]

(* combine_reduce_chunk (element_num_bytes) over outputs [a, a + size).   *)
CombineReduceChunkFixed(host, c, n, dev0) ==
  LET bw     == 8 * ElementBytes
      np     == Cardinality(DOMAIN host) \div n
      offset == c.a * bw
      slice  == c.size * bw
      dev    == IF dev0 THEN host ELSE StridedCopy(host, np, slice, offset, n)
  IN IF ~(offset < np) \/ (dev0 /\ Cardinality(DOMAIN host) # slice * n) THEN Fault
     ELSE [o \in 0 .. c.size - 1 |-> ChunkKernelFixed(dev, bw, slice, n, o)]

(* Every split of [0, n) into consecutive non-empty ranges: basit::split  *)
(* decides the sizes from the device count, so any split may happen.      *)
Splits(n) ==
  { LET starts == SetToSortSeq(cuts \cup {0}, <)
        ends   == Append(Tail(starts), n)
    IN [k \in 1 .. Len(starts) |-> [a |-> starts[k], size |-> ends[k] - starts[k]]]
    : cuts \in SUBSET (1 .. n - 1) }

(* res.subspan(a, size) receiving a chunk's results (the final D2H copy). *)
WriteResults(r, c, vals) ==
  [i \in DOMAIN r |-> IF c.a <= i /\ i < c.a + c.size THEN vals[i - c.a] ELSE r[i]]

(* The inputs: every bit table of at most MaxOutputs outputs, or a fixed  *)
(* width, and every reduction size, with partials on host or device.      *)
BitTables ==
  UNION { [0 .. k - 1 -> Widths] : k \in 0 .. MaxOutputs }

(* The element_num_bytes overload: every one of the k outputs has         *)
(* bit_width = 8 * element_num_bytes, and its partials are laid out as    *)
(* for a bit table of that constant width.                                 *)
FixedWidths(k) == [i \in 0 .. k - 1 |-> 8 * ElementBytes]

Init ==
  /\ overload \in {"table", "fixed"}
  /\ bt \in IF overload = "table" THEN BitTables
            ELSE { FixedWidths(k) : k \in 0 .. MaxOutputs }
  /\ rs \in 1 .. MaxReduction
  /\ onDevice \in BOOLEAN
  /\ chunks = <<>>
  /\ done = {}
  /\ res = [i \in 0 .. NumOutputs - 1 |-> NoResult]
  /\ phase = "start"

(* combine_reduce: return at once for no outputs; reduction_size =       *)
(* partial_products.size() / the last partial sum, an integer division by *)
(* zero when every bit width is 0 (the process traps: "crash"); then one  *)
(* chunk at offset 0 for partials in device memory, else split outputs.   *)
(* The fixed-width overload divides by num_outputs * bit_width, never 0.  *)
Start ==
  /\ phase = "start"
  /\ CASE NumOutputs = 0 ->
            /\ phase' = "done"
            /\ UNCHANGED chunks
       [] overload = "table" /\ NumPartials(bt) = 0 ->
            /\ phase' = "crash"
            /\ UNCHANGED chunks
       [] OTHER ->
            /\ phase' = "chunks"
            /\ IF onDevice THEN chunks' = <<[a |-> 0, size |-> NumOutputs]>>
                           ELSE chunks' \in Splits(NumOutputs)
  /\ UNCHANGED <<overload, bt, rs, onDevice, done, res>>

(* The task of chunk k resumes after its stream ran the kernel and the    *)
(* copy of res_dev back to res; a failed release assertion aborts.        *)
ChunkDone(k) ==
  LET vals == IF overload = "table" THEN CombineReduceChunkTable(Host, chunks[k], rs, onDevice)
              ELSE CombineReduceChunkFixed(Host, chunks[k], rs, onDevice)
  IN
  /\ phase = "chunks" /\ k \notin done
  /\ IF vals = Fault
       THEN /\ phase' = "panic"
            /\ UNCHANGED <<done, res>>
       ELSE /\ \E faults \in SUBSET {o \in DOMAIN vals : vals[o] = Garbage} :
                 IF faults = {} THEN /\ res' = WriteResults(res, chunks[k], vals)
                                     /\ phase' = phase
                 ELSE /\ phase' = "panic"
                      /\ res' = res
            /\ done' = done \cup {k}
  /\ UNCHANGED <<overload, bt, rs, onDevice, chunks>>

(* concurrent_for_each returns once every chunk's task has finished.      *)
AllDone ==
  /\ phase = "chunks" /\ done = DOMAIN chunks
  /\ phase' = "done"
  /\ UNCHANGED <<overload, bt, rs, onDevice, chunks, done, res>>

Terminating ==
  /\ phase \in {"done", "panic", "crash"}
  /\ UNCHANGED vars

Next ==
  \/ Start
  \/ \E k \in DOMAIN chunks : ChunkDone(k)
  \/ AllDone
  \/ Terminating

Spec == Init /\ [][Next]_vars
-----------------------------------------------------------------------------
(* The reference: output i is the sum over every reduction r and bit j    *)
(* of 2^j times the j-th partial of i (bit j of the scalars).              *)
Reference(i) ==
  LET np    == NumPartials(bt)
      first == IF i = 0 THEN 0 ELSE PartialSums(bt)[i - 1]
  IN [q \in Positions |->
        IF first <= (q % np) /\ (q % np) < first + bt[i] THEN 2^((q % np) - first) ELSE 0]

(* Every written entry of res is a group element over the partials.      *)
TypeOK ==
  /\ overload \in {"table", "fixed"}
  /\ rs \in 1 .. MaxReduction
  /\ done \subseteq DOMAIN chunks
  /\ res \in [0 .. NumOutputs - 1 -> [Positions -> Nat] \cup {NoResult}]
  /\ phase \in {"start", "chunks", "done", "panic", "crash"}

(* Whatever split concurrent_for_each runs and in whatever order the      *)
(* chunks finish, every output that combine_reduce writes is the sum of   *)
(* 2^j times its j-th partial over all reductions, and nothing else: the  *)
(* offset and correction arithmetic of combine_reduce_chunk_kernel and    *)
(* the strided copy put each output's partials under its pointer.         *)
CombineMatchesReference ==
  \A i \in DOMAIN res : res[i] # NoResult => res[i] = Reference(i)

(* Spec 4.4.2: an output of bit width 0 is the identity, and combine      *)
(* returns normally: neither a release assert nor a trap ends the call.    *)
ZeroWidthOutputIsIdentity ==
  /\ phase \notin {"panic", "crash"}
  /\ \A i \in DOMAIN res : res[i] # NoResult /\ bt[i] = 0 => res[i] = Zero(Positions)
=============================================================================
