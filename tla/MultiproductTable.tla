--------------------------- MODULE MultiproductTable ---------------------------
(***************************************************************************)
(* One block of multiproduct_table_kernel (src/sxt/multiexp/              *)
(* bucket_method2/multiproduct_table_kernel.h), with 8-bit digits, so the *)
(* digits of a scalar are its bytes.  The kernel reads the scalars after  *)
(* transpose_scalars_to_device (spec 4.3; not under src): the byte b of   *)
(* element g of output o is at ((o * num_digits + b) * n + g).  Block     *)
(* (digit_index, output_index) moves its pointers to its n bytes; these   *)
(* digit bytes of the n generators are loaded striped, padded             *)
(* with key 0, sorted by cub::BlockRadixSort into a blocked arrangement   *)
(* and run-length counted; then every thread writes its share of the      *)
(* bucket counts and of the generator indexes of the nonzero digits.      *)
(*                                                                         *)
(* Loading, sorting and counting are separated by __syncthreads and are  *)
(* one step; the writes of the threads that follow the last barrier run   *)
(* in any order.  fit_multiproduct_table_kernel panics unless n is at    *)
(* most max_multiexponentiation_length_v (MaxLength) and picks            *)
(* ItemsPerThread = divide_up(n, NumThreads).  The values the sort        *)
(* carries, and the indexes written, are uint16_t: IndexBits wide.  The sort and the count are library code     *)
(* outside the repository: BlockRadixSort is a stable sort of the items   *)
(* by key, in the order of their blocked rank, and counts[k] is the       *)
(* number of keys equal to k.                                              *)
(***************************************************************************)
EXTENDS Naturals, FiniteSets, Sequences, SequencesExt

CONSTANTS
  NumThreads,       \* threads of the block (128 in the code)
  BitWidth,         \* the digit width in bits
  NumOutputs,       \* the outputs, gridDim.y
  ElementNumBytes,  \* element_num_bytes: the digits of a scalar, gridDim.x
  DigitValues,      \* the digit values the block's scalars are made of
  Filler,           \* the digit of every byte outside the block
  Ns,               \* the generator counts n tried
  MaxLength,        \* max_multiexponentiation_length_v (not under src)
  IndexBits,        \* the width of the uint16_t values and indexes
  Unwritten         \* an entry of the output the kernel has not written

(* num_buckets_per_digit.                                                  *)
NumBuckets == 2^BitWidth - 1
Threads == 0 .. NumThreads - 1
Outputs == 0 .. NumOutputs - 1

VARIABLES
  n,             \* the generator count
  digitIndex,    \* blockIdx.x
  outputIndex,   \* blockIdx.y
  scalars,       \* the scalars of each output on the host, element-major
  bytes,         \* the transposed scalars on the device, all blocks
  sorted,        \* the keys and values after the sort, in blocked order
  wrote,         \* the threads that have run their write loops
  bucketCounts,  \* bucket_counts of this block
  indexes,       \* indexes of this block, 0 .. n - 1
  overrun,       \* a write outside this block's indexes (another block's)
  launch         \* "fit", then "kernel", or "panicked" by the length assert

vars == <<n, digitIndex, outputIndex, scalars, bytes, sorted, wrote, bucketCounts,
          indexes, overrun, launch>>

(* values[i] = index: the conversion of the unsigned index to uint16_t.   *)
ToIndex(x) == x % 2^IndexBits

(* transpose_scalars_to_device(array, scalars, element_num_bytes, n).     *)
TransposeScalars(s, k) ==
  [i \in 0 .. NumOutputs * ElementNumBytes * k - 1 |->
     LET o == i \div (ElementNumBytes * k)
         b == (i \div k) % ElementNumBytes
         g == i % k
     IN s[o][g * ElementNumBytes + b]]

(* bytes += digit_index * n; bytes += output_index * num_digits * n: the  *)
(* n bytes block (digitIndex, outputIndex) reads.                          *)
BlockBytes ==
  [j \in 0 .. n - 1 |-> bytes[digitIndex * n + outputIndex * ElementNumBytes * n + j]]

(* fit_multiproduct_table_kernel: ItemsPerThread = divide_up(n, 128).     *)
ItemsPerThread == (n + NumThreads - 1) \div NumThreads

(* A mutant of LoadItems: the padding items get key 1.                    *)
LoadItemsPadOne(k, b) ==
  { LET index == t + i * NumThreads IN
      [key |-> IF index < k THEN b[index] ELSE 1,
       value |-> IF index < k THEN ToIndex(index) ELSE 0,
       rank |-> t * ItemsPerThread + i]
    : t \in Threads, i \in 0 .. ItemsPerThread - 1 }

(* The load loop: item i of thread t is generator t + i * NumThreads, or  *)
(* key 0 and value 0 past n; its rank in the blocked arrangement the sort *)
(* reads is t * ItemsPerThread + i.                                       *)
LoadItems(k, b) ==
  { LET index == t + i * NumThreads IN
      [key |-> IF index < k THEN b[index] ELSE 0,
       value |-> IF index < k THEN ToIndex(index) ELSE 0,
       rank |-> t * ItemsPerThread + i]
    : t \in Threads, i \in 0 .. ItemsPerThread - 1 }

(* RadixSort.Sort(keys, values): stable by key in the order of rank.      *)
RadixSort(items) ==
  SetToSortSeq(items, LAMBDA x, y : x.key < y.key \/ (x.key = y.key /\ x.rank < y.rank))

(* RunlengthCount.count(keys): the number of keys equal to d.             *)
Count(s, d) == Cardinality({j \in DOMAIN s : s[j].key = d})

(* The block's digit of every generator ranges over DigitValues; every   *)
(* other byte of the scalars is Filler.                                    *)
Init ==
  /\ n \in Ns
  /\ digitIndex \in 0 .. ElementNumBytes - 1
  /\ outputIndex \in Outputs
  /\ scalars \in { [o \in Outputs |-> [i \in 0 .. n * ElementNumBytes - 1 |->
                      IF o = outputIndex /\ i % ElementNumBytes = digitIndex
                        THEN f[i \div ElementNumBytes] ELSE Filler]]
                   : f \in [0 .. n - 1 -> DigitValues] }
  /\ bytes = TransposeScalars(scalars, n)
  /\ sorted = <<>>
  /\ wrote = {}
  /\ bucketCounts = [i \in 0 .. NumBuckets - 1 |-> Unwritten]
  /\ indexes = [i \in 0 .. n - 1 |-> Unwritten]
  /\ overrun = FALSE
  /\ launch = "fit"

(* A mutant of FitMultiproductTableKernel: the length is not checked.     *)
FitNoAssert ==
  /\ launch = "fit"
  /\ launch' = "kernel"
  /\ UNCHANGED <<n, digitIndex, outputIndex, scalars, bytes, sorted, wrote, bucketCounts, indexes, overrun>>

(* fit_multiproduct_table_kernel: SXT_RELEASE_ASSERT(n <=                 *)
(* max_multiexponentiation_length_v), a panic otherwise, then the launch.  *)
FitMultiproductTableKernel ==
  /\ launch = "fit"
  /\ launch' = IF n <= MaxLength THEN "kernel" ELSE "panicked"
  /\ UNCHANGED <<n, digitIndex, outputIndex, scalars, bytes, sorted, wrote, bucketCounts, indexes, overrun>>

(* Load, sort and count, each ended by a barrier.                         *)
SortAndCount ==
  /\ launch = "kernel" /\ sorted = <<>>
  /\ sorted' = RadixSort(LoadItems(n, BlockBytes))
  /\ UNCHANGED <<n, digitIndex, outputIndex, scalars, bytes, wrote, bucketCounts, indexes, overrun, launch>>

(* A mutant of WriteThread: item i of thread t taken as sorted position   *)
(* t + i * NumThreads (striped) instead of blocked.                       *)
WriteThreadStriped(t) ==
  LET zeroCount == Count(sorted, 0)
      slots == { i + t * ItemsPerThread : i \in 0 .. ItemsPerThread - 1 }
      Value(index) == sorted[(index \div ItemsPerThread) + (index % ItemsPerThread) * NumThreads + 1].value
  IN
  /\ sorted # <<>> /\ t \notin wrote
  /\ bucketCounts' = [i \in DOMAIN bucketCounts |->
                       IF i % NumThreads = t THEN Count(sorted, i + 1) ELSE bucketCounts[i]]
  /\ indexes' = [j \in DOMAIN indexes |->
                   IF j + zeroCount \in slots THEN Value(j + zeroCount) ELSE indexes[j]]
  /\ overrun' = (overrun \/ \E index \in slots : index >= zeroCount /\ index - zeroCount >= n)
  /\ wrote' = wrote \cup {t}
  /\ UNCHANGED <<n, digitIndex, outputIndex, scalars, bytes, sorted, launch>>

(* Thread t after the last barrier: bucket_counts[i] = counts[i + 1] for  *)
(* i = t, t + NumThreads, ...; then indexes[index - zero_count] =         *)
(* values[i] for its blocked positions index >= zero_count.               *)
WriteThread(t) ==
  LET zeroCount == Count(sorted, 0)
      slots == { i + t * ItemsPerThread : i \in 0 .. ItemsPerThread - 1 }
  IN
  /\ sorted # <<>> /\ t \notin wrote
  /\ bucketCounts' = [i \in DOMAIN bucketCounts |->
                       IF i % NumThreads = t THEN Count(sorted, i + 1) ELSE bucketCounts[i]]
  /\ indexes' = [j \in DOMAIN indexes |->
                   IF j + zeroCount \in slots THEN sorted[j + zeroCount + 1].value ELSE indexes[j]]
  /\ overrun' = (overrun \/ \E index \in slots : index >= zeroCount /\ index - zeroCount >= n)
  /\ wrote' = wrote \cup {t}
  /\ UNCHANGED <<n, digitIndex, outputIndex, scalars, bytes, sorted, launch>>

Terminating ==
  /\ wrote = Threads \/ launch = "panicked"
  /\ UNCHANGED vars

Next ==
  \/ FitMultiproductTableKernel
  \/ SortAndCount
  \/ \E t \in Threads : WriteThread(t)
  \/ Terminating

Spec == Init /\ [][Next]_vars
-----------------------------------------------------------------------------
(* Digit digitIndex of scalar j of output outputIndex, on the host.      *)
Digit(j) == scalars[outputIndex][j * ElementNumBytes + digitIndex]

(* The generators whose digit is d.                                       *)
WithDigit(d) == {j \in 0 .. n - 1 : Digit(j) = d}

(* The slots of bucket d in indexes: after the generators of the digits   *)
(* before it.                                                              *)
BucketStart(d) == Cardinality({j \in 0 .. n - 1 : Digit(j) \in 1 .. d - 1})

(* Every variable has its type; no thread writes outside its block's      *)
(* n entries of indexes.                                                  *)
TypeOK ==
  /\ wrote \subseteq Threads
  /\ bucketCounts \in [0 .. NumBuckets - 1 -> Nat \cup {Unwritten}]
  /\ indexes \in [0 .. n - 1 -> (0 .. n - 1) \cup {Unwritten}]
  /\ ~overrun
  /\ launch \in {"fit", "kernel", "panicked"}

(* Once every thread has written, bucket_counts[d - 1] counts the         *)
(* generators of digit d, and the slots of bucket d in indexes hold        *)
(* exactly those generators (in some order), the zero digits and the      *)
(* padding left out: the transposed layout and the block's pointer moves  *)
(* agree on where its digits are, and the striped load, the blocked sort  *)
(* output and the zero_count shift agree on where they go.                *)
TableMatchesDigits ==
  wrote = Threads =>
    \A d \in 1 .. NumBuckets :
      /\ bucketCounts[d - 1] = Cardinality(WithDigit(d))
      /\ { indexes[s] : s \in { BucketStart(d) + k : k \in 0 .. Cardinality(WithDigit(d)) - 1 } }
           = WithDigit(d)
=============================================================================
