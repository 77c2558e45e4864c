--------------------------- MODULE PartitionProduct ---------------------------
(***************************************************************************)
(* The partition-product kernel of the Pippenger core                      *)
(* (src/sxt/multiexp/pippenger2/partition_product.h).                     *)
(*                                                                         *)
(* Generator g is a unit vector of the formal sums over 0 .. n - 1; the    *)
(* partition table holds, for every window w of 16 generators and 16-bit *)
(* mask m, the sum of the generators 16 w + i with bit i of m set         *)
(* (spec 4.2; the last window is padded with the identity).  The table    *)
(* file holds the windows of all tableGens generators; a call covers the  *)
(* n generators from offset (a multiple of 16, offset + n <= tableGens,   *)
(* as the chunks of multiexponentiate_impl are).  The device path copies  *)
(* its windows out of the in-memory table of                              *)
(* in_memory_partition_table_accessor, whose range check is a debug      *)
(* assertion only: a read past the file, or past the device table, yields *)
(* Garbage, which absorbs every sum.  Product p is then compared with the *)
(* sum of the generators whose scalar has bit p set (bit p % 8 of byte    *)
(* p / 8).                                                                 *)
(*                                                                         *)
(* The host loop of partition_product runs the products in order.  The   *)
(* device kernel of async_partition_product runs one thread per product;  *)
(* the threads write disjoint products and read shared inputs only, so    *)
(* the kernel is one step from launch to the await of its stream.         *)
(***************************************************************************)
EXTENDS Integers, FiniteSets, Bitwise

CONSTANTS
  TableGenCounts, \* the generator counts of the table files tried
  GenCounts,      \* the generator counts n tried
  ProductCounts,  \* the num_products tried (multiples of 8)
  ByteValues,     \* the byte values the scalar patterns are made of
  Garbage,        \* a table entry read past the table
  NoResult,       \* a product not computed yet
  NoCopy          \* no table copy issued yet

(* num_partition_entries: the entries of one window.                      *)
NumPartitionEntries == 2^16

VARIABLES
  mode,      \* "host" (partition_product) or "device" (async_partition_product)
  tableGens, \* the generators of the table file
  offset,    \* offset, the first generator of the call
  n,         \* the generator count, scalars.size() * 8 / num_products
  np,        \* num_products
  scalars,   \* the scalar bytes, generator-major, num_products / 8 per generator
  products,  \* the results, indexed from 0
  tableCopy  \* the entries [first, first + size) the accessor copied to the device

vars == <<mode, tableGens, offset, n, np, scalars, products, tableCopy>>

Step == np \div 8

(* A mutant of NumPartitions: n / 16 + 1, one window too many when n is  *)
(* a multiple of 16.                                                       *)
NumPartitionsPlusOne(k) == k \div 16 + 1

(* basn::divide_up(n, 16): the windows of the table.                      *)
NumPartitions(k) == (k + 15) \div 16

(* The group, as formal sums of the generators, with Garbage absorbing.   *)
Add(a, b) ==
  IF a = Garbage \/ b = Garbage THEN Garbage
  ELSE [g \in DOMAIN a |-> a[g] + b[g]]

(* table_ of the accessor: the entries read from the table file, one     *)
(* window of NumPartitionEntries per 16 generators of the file.            *)
FileEntries == ((tableGens + 15) \div 16) * NumPartitionEntries

(* Entry idx of table_, Garbage past its end.                              *)
FileEntry(idx) ==
  LET w == idx \div NumPartitionEntries
      m == idx % NumPartitionEntries
  IN IF idx >= FileEntries THEN Garbage
     ELSE [g \in 0 .. tableGens - 1 |->
             IF g \div 16 = w /\ (m & 2^(g % 16)) # 0 THEN 1 ELSE 0]

(* async_copy_to_device(partition_table, stream, offset / 16): the device  *)
(* table of NumPartitions(n) windows, copied from window offset / 16 of    *)
(* table_ by async_copy_precomputed_sums_to_device.                        *)
DeviceCopy ==
  [first |-> (offset \div 16) * NumPartitionEntries,
   size  |-> NumPartitions(n) * NumPartitionEntries]

(* Entry idx of the table the kernel reads: the device copy, or the host   *)
(* view of the table from entry 0 on the host path.                        *)
TableAt(idx) ==
  IF mode = "device"
    THEN IF idx >= DeviceCopy.size THEN Garbage ELSE FileEntry(DeviceCopy.first + idx)
    ELSE IF idx >= NumPartitions(n) * NumPartitionEntries THEN Garbage ELSE FileEntry(idx)

(* The loop of compute_partition_index from element i on.                 *)
RECURSIVE IndexLoop(_, _, _, _, _, _, _)
IndexLoop(s, base, step, count, mask, i, res) ==
  IF i >= count THEN res
  ELSE LET bitValue == IF (s[base + i * step] & mask) # 0 THEN 1 ELSE 0
       IN IndexLoop(s, base, step, count, mask, i + 1, res | (bitValue * 2^i))

(* compute_partition_index: bit bit_index of the first min(16, k)         *)
(* scalars from base, one every step bytes, as a 16-bit mask.             *)
ComputePartitionIndex(s, base, step, k, bitIndex) ==
  IndexLoop(s, base, step, IF k < 16 THEN k ELSE 16, 2^bitIndex, 0, 0)

(* A mutant of WindowLoop: the loop runs while n >= 16.                   *)
RECURSIVE WindowLoopGE(_, _, _, _, _, _)
WindowLoopGE(s, base, tbl, k, bitOffset, res) ==
  IF k >= 16
    THEN LET k2 == k - 16
             t2 == tbl + NumPartitionEntries
             b2 == base + 16 * Step
         IN WindowLoopGE(s, b2, t2, k2, bitOffset,
               Add(res, TableAt(t2 + ComputePartitionIndex(s, b2, Step, k2, bitOffset))))
    ELSE res

(* A mutant of WindowLoop: the scalars advanced by 16 bytes, not 16 steps.*)
RECURSIVE WindowLoopNoStep(_, _, _, _, _, _)
WindowLoopNoStep(s, base, tbl, k, bitOffset, res) ==
  IF k > 16
    THEN LET k2 == k - 16
             t2 == tbl + NumPartitionEntries
             b2 == base + 16
         IN WindowLoopNoStep(s, b2, t2, k2, bitOffset,
               Add(res, TableAt(t2 + ComputePartitionIndex(s, b2, Step, k2, bitOffset))))
    ELSE res

(* The while (n > 16u) loop of partition_product_kernel: k generators    *)
(* left, the window's table at tbl and its scalars at base.               *)
RECURSIVE WindowLoop(_, _, _, _, _, _)
WindowLoop(s, base, tbl, k, bitOffset, res) ==
  IF k > 16
    THEN LET k2 == k - 16
             t2 == tbl + NumPartitionEntries
             b2 == base + 16 * Step
         IN WindowLoop(s, b2, t2, k2, bitOffset,
               Add(res, TableAt(t2 + ComputePartitionIndex(s, b2, Step, k2, bitOffset))))
    ELSE res

(* partition_product_kernel for product p: the first window's entry, then *)
(* the entries of the remaining windows added on.                          *)
PartitionProductKernel(p) ==
  LET byteIndex == p \div 8
      bitOffset == p % 8
      first     == TableAt(ComputePartitionIndex(scalars, byteIndex, Step, n, bitOffset))
  IN WindowLoop(scalars, byteIndex, 0, n, bitOffset, first)

(* The scalar patterns tried: every byte equal to v, and one generator    *)
(* with all its bytes v and the others zero.                               *)
Patterns(k, step) ==
  { [i \in 0 .. k * step - 1 |-> v] : v \in ByteValues \cup {0} }
    \cup { [i \in 0 .. k * step - 1 |-> IF i \div step = g THEN v ELSE 0] :
             g \in 0 .. k - 1, v \in ByteValues }

(* The host path is called with offset 0 only (its caller, the host     *)
(* multiexponentiate); the device path with any window-aligned chunk.     *)
Init ==
  /\ mode \in {"host", "device"}
  /\ tableGens \in TableGenCounts
  /\ n \in GenCounts
  /\ offset \in {o \in 0 .. tableGens - n : o % 16 = 0 /\ (mode = "host" => o = 0)}
  /\ np \in ProductCounts
  /\ scalars \in Patterns(n, Step)
  /\ products = [p \in 0 .. np - 1 |-> NoResult]
  /\ tableCopy = NoCopy

(* One pass of the product_index loop of partition_product.              *)
HostProduct(p) ==
  /\ mode = "host" /\ products[p] = NoResult
  /\ \A q \in 0 .. p - 1 : products[q] # NoResult
  /\ products' = [products EXCEPT ![p] = PartitionProductKernel(p)]
  /\ UNCHANGED <<mode, tableGens, offset, n, np, scalars, tableCopy>>

(* async_partition_product: the scalars and the table windows copied to  *)
(* the device, then the kernel over every product_index, awaited.         *)
DeviceKernel ==
  /\ mode = "device" /\ \A p \in DOMAIN products : products[p] = NoResult
  /\ tableCopy' = DeviceCopy
  /\ products' = [p \in DOMAIN products |-> PartitionProductKernel(p)]
  /\ UNCHANGED <<mode, tableGens, offset, n, np, scalars>>

Terminating ==
  /\ \A p \in DOMAIN products : products[p] # NoResult
  /\ UNCHANGED vars

Next ==
  \/ \E p \in DOMAIN products : HostProduct(p)
  \/ DeviceKernel
  \/ Terminating

Spec == Init /\ [][Next]_vars
-----------------------------------------------------------------------------
(* The sum the product must be: generator g counted once if bit p of its  *)
(* scalar is set.                                                          *)
Reference(p) ==
  [g \in 0 .. tableGens - 1 |->
     IF offset <= g /\ g < offset + n /\ (scalars[(g - offset) * Step + p \div 8] & 2^(p % 8)) # 0
       THEN 1 ELSE 0]

(* Every product is a sum over the generators, never a read past the     *)
(* table.                                                                  *)
TypeOK ==
  /\ mode \in {"host", "device"}
  /\ products \in [0 .. np - 1 -> [0 .. tableGens - 1 -> Nat] \cup {NoResult}]

(* Every product partition_product_kernel writes is the sum of exactly    *)
(* the generators whose scalar has the product's bit set: the masks of    *)
(* compute_partition_index, min(16, n) on the last window and the window  *)
(* and scalar advances of the loop together pick each generator once.     *)
KernelMatchesReference ==
  \A p \in DOMAIN products : products[p] # NoResult => products[p] = Reference(p)

(* The table copy async_partition_product asks of the accessor stays      *)
(* inside table_: async_copy_precomputed_sums_to_device checks             *)
(* first + dest.size() <= table_.size() in debug builds only, so in a     *)
(* release build the window count the caller computes (divide_up(n, 16))  *)
(* and the first window (offset / 16) are all that keep the copy from      *)
(* reading past the host table.                                            *)
TableSliceInBounds ==
  tableCopy # NoCopy => tableCopy.first + tableCopy.size <= FileEntries
=============================================================================
