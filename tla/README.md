# TLA+ models of blitzar's asynchronous execution and Pippenger core

This directory holds TLA+ specifications of the parts of blitzar (`src/sxt/`)
whose correctness depends on how things interleave or on exact index
arithmetic. It also holds the TLC configurations that check them. Section and
line references are to `spec.md` and the files under `src/`.

## The system and how its parts interact

blitzar runs GPU work from coroutines on a cooperative, single-threaded
scheduler. A `xena::future` suspends its task at a `co_await`. The task is
resumed once the awaited stream or event completes. Device work is queued on
CUDA streams. Each stream runs its work in FIFO order, but different streams
run in any order relative to each other and to the host. The modelled parts
are:

* **to_device_copier** (`execution/device/to_device_copier.{h,cc}`). It copies
  a host source into a device destination through two pinned buffers, in
  calls of any size. When a buffer fills it is sent with an async memcpy. The
  copier then swaps buffers, and it waits on the stream before reusing the
  other buffer.
* **pinned_buffer_pool** (`base/device/pinned_buffer_pool.cc`). This is the
  thread-local free list of pinned host buffers that every copier takes its
  buffers from.
* **Pippenger core** (`multiexp/pippenger2/`):
  * `multiexponentiate_impl` splits the generators into chunks and runs them
    as concurrent tasks.
  * For each chunk, `async_partition_product_chunk` computes the bitwise
    partial products on the device. `partition_product` looks them up in the
    precomputed partition table.
  * The chunk's partials are copied back into block `chunk_index` of a host
    array.
  * `combine_reduce` sums the blocks and folds the bits of each output with
    doubling.
* **element markers** (`base/curve/example_element.h`,
  `curve21/type/element_p3.cc`). `mark` and `is_marked` tag empty accumulator
  slots (spec 3).
* **inner-product verification kernel**
  (`proof/inner_product/verification_kernel.cc`). It doubles a prefix of
  `g_exponents` round by round, multiplying by the squared challenges.
* **bucket_method2 multiproduct table**
  (`multiexp/bucket_method2/multiproduct_table_kernel.h`). Per digit, it
  sorts the generators by digit value in a block and writes the bucket counts
  and generator indexes. The indexes are `uint16_t`. Only the release
  assert of `fit_multiproduct_table_kernel` on the length keeps them from
  wrapping.
* **scalar25 inner product** (`scalar25/operation/inner_product.cc`, with
  `execution/device/device_viewable.h`). Concurrent chunk tasks copy their
  inputs to the device, reduce on the device and add their partials into one
  shared `res`.
* **field reduction** (`field25/base/reduce.cc`, `field12/base/subtract_p.h`).
  This is the Montgomery reduction of the bn254 base field, followed by one
  conditional subtraction of the modulus, plus the `is_below_modulus` test.
  Every field multiplication of the curves ends in it. It runs on its own,
  with no interleaving.
* **curve_g1 point conversion** (`curve_g1/type/conversion_utility.h`).
  `to_element_affine` and `to_element_p2` convert between projective and
  affine points. The point at infinity (Z = 0) is handled by `cmov`s rather
  than by a branch.
* **curve element operations** (`curve_gk/operation/neg.cc`,
  `curve21/type/element_p3.cc`). `neg` and `cneg` of Grumpkin points, and
  the curve21 conversion to compact form and `operator==`. The sequential
  scalar25 `inner_product` belongs here too. All run on their own, with no
  interleaving.

## Modules

| Module | Code | State (VARIABLES) | Actions |
|---|---|---|---|
| `PinnedBufferPool` | `pinned_buffer_pool.cc` | a pool record: free list, handles created | operators `Acquired`/`AfterAcquire` (acquire_handle), `Released` (release_handle), `PoolSize` |
| `ToDeviceCopier` | `to_device_copier.cc` | per task: `pc`, `src`, `fed`, `dst`, `active`, `alt`, `stream`, `dev`; shared: `mem`, `pool`, `running` | `Call` (entry of copy), `SrcDrained`, `Loop` (one fill with its branch: flush, suspend on alt, issue and swap), `ResumeAlt`, `ResumeFinal`, `DeviceExec` (a stream runs its head copy) |
| `ToDeviceCopy` | the spec's contract of the copier (4.5.4, 8) | `dev` | `Deliver`: a destination grows by a prefix of its source |
| `MultiexpChunks` | `variable_length_multiexponentiation.h` | per chunk: `cpc`, `numActive`, `ident`, `kernel`, `dev`, `slot`, `copy`; shared: `chunkIndex`, `host`, `combined` | `Start`, `HostMultiexponentiate` (the host overload as one chunk: `HostProducts` writes the uninitialised products array by `partition_product` for the last `num_products_p` entries and `fill_n` with the identity for the first ones), `Launch`, `IdentExec`, `KernelExec`, `ResumeIdent`, `ResumeKernel`, `CopyExec`, `ResumeCopy`, `Combine` |
| `CombineReduce` | `combine_reduce.h` | `overload`, `bt`, `rs`, `onDevice`, `chunks`, `done`, `res`, `phase` | `Start` (including the division by `bit_table_partial_sums.back()` at line 235, which traps as phase `crash` for an all-zero table), `ChunkDone(k)` (a chunk's kernel and result copy), `AllDone`; the kernels are operators |
| `PartitionProduct` | `partition_product.h`, `in_memory_partition_table_accessor.h` | `mode`, `tableGens`, `offset`, `n`, `np`, `scalars`, `products`, `tableCopy` | `HostProduct(p)` (one pass of the host loop over the host table), `DeviceKernel` (the table slice copied by the accessor, then the launch, awaited) |
| `ElementMarker` | `example_element.h`, `element_p3.cc` | `slot`, `added`, `total` | `Accumulate(s, x)` |
| `VerificationKernel` | `proof/inner_product/verification_kernel.cc` | `r0`, `xlen`, `a`, `iter`, `g`, `done` | `Iterate` (one pass of `while (a != np)`, with its awaited transform), `Return` |
| `MultiproductTable` | `bucket_method2/multiproduct_table_kernel.h` | `n`, `digitIndex`, `outputIndex`, `scalars`, `bytes` (all blocks' transposed scalars), `sorted`, `wrote`, `bucketCounts`, `indexes`, `overrun`, `launch` | `FitMultiproductTableKernel` (the length assert, a panic or the launch), `SortAndCount` (load with `uint16_t` values, sort, count, each ending at a barrier), `WriteThread(t)` (a thread's write loops) |
| `ElementArithmetic` | `field25/base/reduce.cc`, `field12/base/subtract_p.h`, `curve_g1/type/conversion_utility.h`, `curve_gk/operation/neg.cc`, `curve21/type/element_p3.cc`, `scalar25/operation/inner_product.cc` | `op` (the function called), `p` (the modulus), `input`, `out` | `ReduceCall` (`reduce`, its four unrolled blocks and the trailing `subtract_p`), `IsBelowModulusCall`, `SubtractPCall` (the six-limb `subtract_p`), `ToElementAffineCall` (over every value `invert` may leave in `z_inv` for Z = 0), `ToElementP2Call`, `NegCall`, `CNegCall` (curve_gk), `C21CompactCall`, `C21EqualCall` (curve21 `element_p3`), `InnerProductCall` (the sequential scalar25 `inner_product`) |
| `InnerProduct` | `inner_product.cc`, `device_viewable.h` | per chunk: `cpc`, `lhsCopy`, `rhsCopy`, `reduced`, `partial`; shared: `res` | `Start`, `Launch`, `LhsLands`, `RhsLands`, `ResumeRhs`, `ResumeLhs`, `ReduceExec`, `ResumeReduce`, `Finish` |

Modelling choices common to all modules:

* **Scheduling.** An action runs one task from one suspension point to the
  next, which is exactly the atomicity the cooperative scheduler gives. A
  device operation is an action of its own that may run at any time after it
  was queued. A copy reads its source when it *runs*, not when it is issued.
* **Group elements are formal sums.** A partial product is a unit vector, and
  `add_inplace` and `double_element` add coefficients. A result therefore
  says exactly which partials it summed and with which power of two, and the
  reference sum can be compared exactly.
* **Undefined behaviour.** A read of memory the code does not own is the
  value `Garbage`, which absorbs sums. A kernel may also fault on it. A failed
  release assertion calls `baser::panic`, which aborts, and is modelled as a
  terminal `panic` phase.
* **Unsigned wraparound.** `combine_reduce_output` computes
  `bit_width - 1u` in 32-bit unsigned arithmetic. TLC's integers stop at
  2^31 - 1, so the model wraps modulo 2^30. Every value the bounds produce is
  far below that, so each comparison goes the same way as with 2^32 (see the
  comment on `UIntModulus`).
* **Modelled from the spec.** Code that is not under `src/` is modelled from
  `spec.md` and marked `spec_modelled` in `PROJECT.json`:
  * the pinned buffer's `fill_from_host` and `reset`
  * the partition table layout and the accessor's window-to-entry conversion
  * `transpose_scalars_to_device`'s byte layout
  * the curve21 `add`
  * the bucket accumulator that uses the markers
  * stream execution of a memcpy
  * `basfld::mac`, `adc` and `sbb`, and the constant `inv_v`
  * field12 `mul` and `invert`, and `element_affine::identity()` (x = 0,
    y = 1, infinity set)

## Runs

| Run | Checks | Result |
|---|---|---|
| `copier_pass` | `TypeOK`, `NoSharedHandle`, `InFlightBufferOwned`, `CopiedWhenCallerDone`, `NoLeakedHandle`, `DeviceRefinesCopy` (refinement of `ToDeviceCopy`), `AllCopiesLand` (liveness) | pass, 18,818 states |
| `combine_pass` | `TypeOK`, `CombineMatchesReference` | pass, 1,852 states |
| `combine_zero_width` | `ZeroWidthOutputIsIdentity` | violation: a zero-width output traps, panics or reads outside its partials |
| `multiexp_chunks_pass` | `TypeOK`, `CombineInputComplete` | pass, 24,071 states |
| `partition_product_pass` | `TypeOK`, `KernelMatchesReference`, `TableSliceInBounds` | pass, 13,766 states |
| `marker_element97_pass` | `TypeOK`, `SlotsReadAsSums` | pass, 256 states |
| `marker_curve21` | `SlotsReadAsSums` | violation: `element_p3`'s `is_marked` is inverted |
| `inner_product_pass` | `TypeOK`, `SumsEveryChunkOnce` | pass, 22,849 states |
| `verification_kernel_pass` | `TypeOK`, `ExponentsMatchReference` | pass, 108 states |
| `multiproduct_table_pass` | `TypeOK`, `TableMatchesDigits` | pass, 16,352 states |
| `element_arithmetic_pass` | `ReduceMatchesReference`, `SubtractPMatchesReference`, `BelowModulusMatches`, `ConversionsPreservePoint`, `NegationMatchesGroup`, `Curve21FormsAgree`, `InnerProductMatchesReference` | pass, 64,802 states |

What the passing properties say:

* **`NoSharedHandle`.** Copier tasks interleave their acquisitions and
  releases on the one pool, and still no pinned handle is ever in two places.
* **`InFlightBufferOwned`.** While a copy out of a handle is queued, its
  copier keeps the handle with the bytes it had when the copy was issued.
  This is the hazard of reusing the alt buffer before its stream has drained.
* **`NoLeakedHandle`.** Every handle the pool has created is either on its
  free list or held by a copier. A task that returns gives back both its
  buffers; `acquire_handle` grows the pool rather than blocking, so a handle
  lost at the final flush would never be noticed by a test.
* **`TableSliceInBounds`.** The table slice the accessor copies for a chunk at
  generator `offset` of `n` generators ends inside the loaded table. The
  kernel's reference sum is over generators `[offset, offset + n)`, so
  `KernelMatchesReference` also checks the window arithmetic of the offset.
* **`DeviceRefinesCopy`.** The device destinations only ever hold growing
  prefixes of their sources, byte for byte. This is the refinement of
  `ToDeviceCopy`.
* **`CombineInputComplete`.** `combine_reduce` reads each chunk's fully
  computed partials exactly once, in some order of the chunks. This holds
  because `chunk_index` is read and incremented with no suspension in
  between, and each chunk waits for both of its streams.
* **`CombineMatchesReference`** and **`KernelMatchesReference`** compare the
  kernels with a reference sum over every input in the bounds.
* **`ExponentsMatchReference`.** Each g exponent is its given entry times
  the `x_sq` its index bits select. The last challenge goes with the lowest
  new bit.
* **`TableMatchesDigits`.** The striped load, the blocked sort output and the
  `zero_count` shift together place exactly the generators of digit d in
  bucket d. The padding keys are left out. Threads write in any order, and
  none writes outside its block (`TypeOK`). The generator indexes are taken
  modulo the `uint16_t` width. The property therefore also shows that the
  length assert keeps every index below 2^16: without the assert, a block
  of 2^16 + 1 generators writes generator 0 in place of the last one.
* **`ReduceMatchesReference`.** `reduce` returns t·R⁻¹ mod p, fully
  reduced, for the product of every pair of reduced elements. The carry that
  the last `adc` drops into `tmp` is therefore always zero, and one
  subtraction of p is enough. Both depend on 2p < R. The same code with a
  modulus of 131 or 255 (at or above R/2) fails this property.
* **`SubtractPMatchesReference`** and **`BelowModulusMatches`.** The borrow
  chain and mask of the six-limb `subtract_p` map every a < 2p to a mod p.
  `is_below_modulus` is exact on every four-limb value. The edge cases are
  the values within one limb of p or 2p.
* **`ConversionsPreservePoint`.** `to_element_affine` gives the affine form
  of the point, as the definition gives it, for every projective
  representative. This includes the representatives (0, λ, 0) of the
  identity, whatever `invert` leaves in `z_inv`. `to_element_p2` gives a
  representative of the same point for every affine form. The identity case
  depends on all three `cmov`s after the multiplications, and on the one
  into Z.
* **`NegationMatchesGroup`.** `neg` maps every representative of a point,
  including those of the identity, to a representative of its negation.
  `cneg` does the same when b = 1 and leaves the point alone when b = 0.
  The reference is the definition: same x, with y + y' = 0. On the points
  with x = 0, and on the identity, negating X by mistake changes nothing
  visible.
* **`Curve21FormsAgree`.** `operator==` of `element_p3` holds exactly for
  two representatives of the same point. Comparing X alone would make a
  point equal to its mirror (x, −y). The compact form of every
  representative is the affine point with T = x·y.
* **`InnerProductMatchesReference`.** The sequential `inner_product` is the
  sum of lhs[i]·rhs[i] over the shorter vector's length. This covers
  vectors of different lengths, and a seed product that the loop must not
  add again.
* **`SumsEveryChunkOnce`.** The inner product is the sum of every chunk's
  partial once, each partial computed from copies that had landed.

Every property of a passing run has a mutant in `PROJECT.json`: a plausible
bug in a mapped definition (a dropped await, a missing increment, an
off-by-one loop bound, an inverted test) that TLC shows violates it.

## Findings

1. `curve21/type/element_p3.cc:51`: `is_marked` returns
   `Z[4] != unset_marker_v`, which is the negation of what `mark` writes.
   (`marker_curve21`)
2. `combine_reduce.h:235`, `:117` and `:46`: spec 4.4.2 says an output of
   bit width 0 is the identity. The code does not give it:
   * When every width is 0, `reduction_size = partial_products.size() / 0`
     is an integer division by zero, and the process traps. This is the
     trace TLC gives for `bt = (0 :> 0)`.
   * When a chunk's last output has width 0 (and the total is not 0), the
     release assert at L117 panics.
   * Otherwise `bit_width - 1u` wraps, and `combine_reduce_output` reads
     before its partials.

   (`combine_zero_width`)

A further disagreement is recorded here without a run of its own. At `to_device_copier.cc:47`, data
is flushed only when the buffered bytes exactly equal the remaining `dst`.
Spec 8 allows calls that total less than `dst`, and those bytes then never
reach the device. TLC shows it with `MCToDeviceCopier`, one task,
`DstSize = 3`, `Total = 1` and the invariant `CopiedWhenCallerDone`. `copier_pass` checks
`CopiedWhenCallerDone` for callers whose calls total `dst.size()`. No
caller of `to_device_copier` is under `src/`; this is the usage spec 8
describes as complete.

## Bounds and why they suffice

* **Copier.** The bounds are:
  * two tasks
  * a pool starting with one handle, out of four handles
  * capacity 2
  * destination and total of 5 bytes, passed in calls of every size

  A 5-byte copy through 2-byte buffers makes the code take every branch:
  * the full-buffer swap, at least twice per task, so the alt buffer is
    reused
  * the wait on alt
  * the final flush with a partial buffer
  * the pool growing when both tasks hold buffers

  The `CopiedWhenCallerDone` disagreement described above uses one task and
  the smallest sizes that show it.
* **MultiexpChunks and InnerProduct.** Up to three chunks give every finishing
  order of three tasks, including the ones where chunk_index is taken out of
  launch order. Two products per chunk cover chunks whose products are all
  identities, partly identities, or all kernel sums.
* **CombineReduce.** The bounds cover:
  * up to three outputs with every bit table over widths 1..3
  * one or two reductions
  * host and device partials
  * every split of the outputs into chunks

  Together these give first and non-first outputs of later chunks, which
  exercises the correction/offset distinction.
* **PartitionProduct.**
  * Tables of 32 and 33 generators, with chunks at every window-aligned
    offset that fits (device mode); the host reads from offset 0, as the
    code's host path does.
  * Generator counts 1, 15, 16, 17 and 33 sit on both sides of the
    16-generator window boundary and span three windows.
  * 8 and 16 products give a step of 1 and of 2 bytes.
  * The byte values set bit 0, bit 7, and a mix of bits.
* **VerificationKernel.** round_first 1..6 with 1..4 challenges: given
  prefixes of 1 to 32 entries and up to 4 doublings. The unsigned wrap of `a`
  needs `num_rounds >= 32`, which is beyond any array TLC can hold. The
  model keeps the code's arithmetic and says so.
* **MultiproductTable.** Two threads (the code uses 128), 8-bit digits,
  two outputs of two-byte scalars, and one to five generators whose block
  digits range over 0, 1, 2 and 255; every other byte is a filler digit, so
  a block reading another block's bytes is caught. This gives one to three
  items per thread, with and without padding, and bucket boundaries that fall
  inside a thread's items and between threads. The indexes are 2 bits wide
  instead of 16, and the length limit is 4 = 2^2. The code's limit
  (`max_multiexponentiation_length_v`) is defined outside `src/`, and it must
  be at most 2^16 in the same way. With five generators the assert panics.
* **ElementArithmetic.** The limbs are 2 bits wide, so R = 2^8 for four limbs
  (4,096 for six), instead of 64 bits. The arithmetic is that of any limb
  width: the Montgomery identity, the carries and the borrow mask. The
  moduli 47 (about 0.19 R, the bn254 ratio) and 127 (the largest odd
  modulus below R/2) are checked against every product a·b with a, b < p.
  The six-limb moduli are 419 (the BLS12-381 ratio, about 0.10 R) and 2047,
  with every a < 2p. `is_below_modulus` is checked on all 256 four-limb
  values. A check with 3-bit limbs and p = 773 (150,191 inputs) also passes,
  but it is too slow for the standing run. The conversions run over
  y² = x³ + 4 (the BLS12-381 b) on GF(11). That curve has 11 finite
  points; each has 10 representatives, and the identity has 10 more. Two of
  the points have x = 0, so a zero x does not by itself mark the identity.
  The curve21 operations run over −x² + y² = 1 + 2x²y² on GF(11), which has
  14 points (140 extended representatives, all 19,600 pairs compared). The
  inner product runs modulo 3 on all vectors of one to three elements.
* **ElementMarker.** Two slots, up to four additions each, values that wrap
  modulo 97, and slots marked over uninitialised memory holding 0 or 5.

## Fairness

Only `copier_pass` checks liveness. `FairSpec` assumes weak fairness of:

* each task's actions: the cooperative scheduler resumes any task whose
  awaited stream has completed (spec 4.5.1);
* each stream's execution: CUDA runs every queued copy;
* the caller's next `copy` call: the caller keeps calling until it has passed
  all its bytes, which is the usage the spec describes.

The other modules check safety only.

## Not modelled, and the plan

* **`in_memory_partition_table_accessor.h`.** Its copy and host views are
  modelled in `PartitionProduct`. File loading and writing are I/O. The
  range check is debug-only (`SXT_DEBUG_ASSERT`); the model states it as
  `TableSliceInBounds` instead.
* **`make_multiproduct_table`.** Only declared in `src/`. The modelled kernel
  is its core.
* **A possible further copier property.**
  * Spec 4.5.4's "at most one async copy in flight per stream". At the final
    flush the code queues the active buffer's copy behind alt's.
* **Not planned.**
  * `index_range` and `split.h`: the models take every split, which covers
    any result they produce.
  * The rest of the field and curve arithmetic:
    * the random field element: its `from_bytes` is outside `src/`;
    * `curve_bng1`'s compact-point constructor: `compact_element::is_identity`
      is outside `src/`;
    * `curve_bng1` `cmov`: three field `cmov`s;
    * the Grumpkin constant `b_v`: a 256-bit literal, which TLC's 32-bit
      integers cannot hold.
  * `element_p3`'s `operator<<`: printing.
  * The sumcheck driver and callback transcript: declarations only.
  * Benchmarks, tests and the example. These are about two thirds of the
    lines under `src/` that the map does not cover. The tests check
    functions whose code is outside `src/` (device `copy`, `transform`,
    curve `add`, the C bindings), or fixed vectors of code the models
    already check over every bounded input. The benchmarks and the example
    build inputs and print timings. None of them has a state or an
    operation of its own to model.
