---------------------------- MODULE MultiexpChunks ----------------------------
(***************************************************************************)
(* The chunk orchestration of the variable-length multiexponentiation     *)
(* (src/sxt/multiexp/pippenger2/variable_length_multiexponentiation.h):   *)
(* multiexponentiate_impl, its single-chunk fast path and                 *)
(* async_partition_product_chunk, and the host multiexponentiate.         *)
(*                                                                         *)
(* Each chunk is a task of concurrent_for_each on the one cooperative     *)
(* scheduler: an action runs a task from one suspension point to the      *)
(* next.  Device work (the identity copy, the partition-product kernel    *)
(* and the device-to-host copy of a chunk's partials) is queued on its    *)
(* own stream and runs later in any order across streams.  A partial      *)
(* product is abstracted to <<c, p>> (product p of chunk c) or Identity. *)
(* combine_reduce itself is the module CombineReduce; here combining is   *)
(* the step that reads the whole partials array.                          *)
(***************************************************************************)
EXTENDS Naturals, FiniteSets, Functions

CONSTANTS
  MaxChunks,    \* bound on the number of chunks the split produces
  NumProducts,  \* num_products, the partials of one chunk
  Identity,     \* T::identity()
  Garbage,      \* uninitialised memory
  NoSlot        \* a chunk that has not taken a chunk_index yet

Chunks == 1 .. MaxChunks
Products == 1 .. NumProducts

VARIABLES
  phase,       \* "start", "single", "chunks", "done"
  nchunks,     \* num_chunks of the split
  cpc,         \* where each chunk's task is suspended
  numActive,   \* num_products_p: products of the chunk with a nonzero length
  ident,       \* the identity copy of the chunk: "queued" or "ready"
  kernel,      \* products_fut of the chunk: "queued" or "ready"
  dev,         \* partial_products_dev of each chunk
  slot,        \* the chunk_index each chunk copied its partials to
  copy,        \* the chunk's device-to-host copy: "none", "queued", "ready"
  chunkIndex,  \* chunk_index
  host,        \* partial_products on the host, indexed from 0
  combined     \* the partials combine_reduce was called on

vars == <<phase, nchunks, cpc, numActive, ident, kernel, dev, slot, copy,
          chunkIndex, host, combined>>

(* The value product p of chunk c must have: the identity for the         *)
(* products whose length in the chunk is zero (the front), else its sum.  *)
Correct(c, p) ==
  IF p <= NumProducts - numActive[c] THEN Identity ELSE <<c, p>>

(* The partials of block k of an array of num_products-long blocks.       *)
Block(arr, k) == [p \in Products |-> arr[k * NumProducts + p - 1]]

Init ==
  /\ phase = "start"
  /\ nchunks = 0
  /\ cpc = [c \in Chunks |-> "idle"]
  /\ numActive = [c \in Chunks |-> 0]
  /\ ident = [c \in Chunks |-> "ready"]
  /\ kernel = [c \in Chunks |-> "ready"]
  /\ dev = [c \in Chunks |-> [p \in Products |-> Garbage]]
  /\ slot = [c \in Chunks |-> NoSlot]
  /\ copy = [c \in Chunks |-> "none"]
  /\ chunkIndex = 0
  /\ host = [i \in 0 .. MaxChunks * NumProducts - 1 |-> Garbage]
  /\ combined = <<>>

(* multiexponentiate_impl up to its first suspension: no outputs return   *)
(* at once; the split gives 1 .. MaxChunks chunks; one chunk takes the    *)
(* fast path.                                                              *)
Start ==
  /\ phase = "start"
  /\ \/ phase' = "done" /\ UNCHANGED nchunks
     \/ \E k \in Chunks :
          /\ nchunks' = k
          /\ phase' = IF k = 1 THEN "single" ELSE "chunks"
  /\ UNCHANGED <<cpc, numActive, ident, kernel, dev, slot, copy, chunkIndex, host, combined>>

(* The host multiexponentiate, a synchronous call: nothing to do for no  *)
(* outputs; else products starts uninitialised, the product lengths give  *)
(* num_products_p, partition_product writes the subspan of the last        *)
(* num_products_p products if there are any, fill_n writes the identity   *)
(* to the first num_products - num_products_p, and reduce_products reads  *)
(* the array as the one chunk's partials.                                 *)
HostProducts(a) ==
  LET products == [i \in 0 .. NumProducts - 1 |-> Garbage]
      partitioned == IF a > 0
                     THEN [i \in DOMAIN products |->
                             IF i >= NumProducts - a THEN <<1, i + 1>> ELSE products[i]]
                     ELSE products
  IN  [i \in DOMAIN partitioned |->
         IF i < NumProducts - a THEN Identity ELSE partitioned[i]]

HostMultiexponentiate ==
  /\ phase = "start"
  /\ \/ phase' = "done" /\ UNCHANGED <<nchunks, numActive, combined>>
     \/ \E a \in 0 .. NumProducts :
          /\ nchunks' = 1
          /\ numActive' = [numActive EXCEPT ![1] = a]
          /\ combined' = HostProducts(a)
          /\ phase' = "done"
  /\ UNCHANGED <<cpc, ident, kernel, dev, slot, copy, chunkIndex, host>>

(* async_partition_product_chunk up to its first await: the product       *)
(* lengths give num_products_p, the kernel is launched for the last       *)
(* num_products_p products if any, and the identities are copied to the   *)
(* first ones on a new stream.                                             *)
Launch(c) ==
  /\ phase \in {"single", "chunks"} /\ c <= nchunks /\ cpc[c] = "idle"
  /\ \E a \in 0 .. NumProducts :
       /\ numActive' = [numActive EXCEPT ![c] = a]
       /\ kernel' = [kernel EXCEPT ![c] = IF a > 0 THEN "queued" ELSE "ready"]
  /\ ident' = [ident EXCEPT ![c] = "queued"]
  /\ cpc' = [cpc EXCEPT ![c] = "await_ident"]
  /\ UNCHANGED <<phase, nchunks, dev, slot, copy, chunkIndex, host, combined>>

(* The identity copy of chunk c runs on its stream.                       *)
IdentExec(c) ==
  /\ ident[c] = "queued"
  /\ dev' = [dev EXCEPT ![c] = [p \in Products |->
               IF p <= NumProducts - numActive[c] THEN Identity ELSE @[p]]]
  /\ ident' = [ident EXCEPT ![c] = "ready"]
  /\ UNCHANGED <<phase, nchunks, cpc, numActive, kernel, slot, copy, chunkIndex, host, combined>>

(* The partition-product kernel of chunk c finishes.                      *)
KernelExec(c) ==
  /\ kernel[c] = "queued"
  /\ dev' = [dev EXCEPT ![c] = [p \in Products |->
               IF p > NumProducts - numActive[c] THEN <<c, p>> ELSE @[p]]]
  /\ kernel' = [kernel EXCEPT ![c] = "ready"]
  /\ UNCHANGED <<phase, nchunks, cpc, numActive, ident, slot, copy, chunkIndex, host, combined>>

(* co_await await_stream(stream): the identity copy has run.              *)
ResumeIdent(c) ==
  /\ cpc[c] = "await_ident" /\ ident[c] = "ready"
  /\ cpc' = [cpc EXCEPT ![c] = "await_kernel"]
  /\ UNCHANGED <<phase, nchunks, numActive, ident, kernel, dev, slot, copy, chunkIndex, host, combined>>

(* A mutant of ResumeKernel: ++chunk_index dropped.                        *)
ResumeKernelNoIncrement(c) ==
  /\ cpc[c] = "await_kernel" /\ kernel[c] = "ready"
  /\ IF phase = "single"
       THEN /\ cpc' = [cpc EXCEPT ![c] = "done"]
            /\ UNCHANGED <<slot, copy, chunkIndex>>
       ELSE /\ slot' = [slot EXCEPT ![c] = chunkIndex]
            /\ copy' = [copy EXCEPT ![c] = "queued"]
            /\ chunkIndex' = chunkIndex
            /\ cpc' = [cpc EXCEPT ![c] = "await_copy"]
  /\ UNCHANGED <<phase, nchunks, numActive, ident, kernel, dev, host, combined>>

(* A mutant of ResumeKernel: the slot taken one past chunk_index.         *)
ResumeKernelSlotPlusOne(c) ==
  /\ cpc[c] = "await_kernel" /\ kernel[c] = "ready"
  /\ IF phase = "single"
       THEN /\ cpc' = [cpc EXCEPT ![c] = "done"]
            /\ UNCHANGED <<slot, copy, chunkIndex>>
       ELSE /\ slot' = [slot EXCEPT ![c] = chunkIndex + 1]
            /\ copy' = [copy EXCEPT ![c] = "queued"]
            /\ chunkIndex' = chunkIndex + 1
            /\ cpc' = [cpc EXCEPT ![c] = "await_copy"]
  /\ UNCHANGED <<phase, nchunks, numActive, ident, kernel, dev, host, combined>>

(* co_await products_fut returns.  On the fast path the chunk is done;    *)
(* else the lambda copies the partials to block chunk_index of the host   *)
(* array on a new stream, increments chunk_index and awaits the copy.     *)
(* The read and the increment happen with no suspension in between.       *)
ResumeKernel(c) ==
  /\ cpc[c] = "await_kernel" /\ kernel[c] = "ready"
  /\ IF phase = "single"
       THEN /\ cpc' = [cpc EXCEPT ![c] = "done"]
            /\ UNCHANGED <<slot, copy, chunkIndex>>
       ELSE /\ slot' = [slot EXCEPT ![c] = chunkIndex]
            /\ copy' = [copy EXCEPT ![c] = "queued"]
            /\ chunkIndex' = chunkIndex + 1
            /\ cpc' = [cpc EXCEPT ![c] = "await_copy"]
  /\ UNCHANGED <<phase, nchunks, numActive, ident, kernel, dev, host, combined>>

(* The device-to-host copy of chunk c runs, reading the device partials   *)
(* as they are now.                                                        *)
CopyExec(c) ==
  /\ copy[c] = "queued"
  /\ host' = [i \in DOMAIN host |->
               IF slot[c] * NumProducts <= i /\ i < (slot[c] + 1) * NumProducts
                 THEN dev[c][i - slot[c] * NumProducts + 1] ELSE host[i]]
  /\ copy' = [copy EXCEPT ![c] = "ready"]
  /\ UNCHANGED <<phase, nchunks, cpc, numActive, ident, kernel, dev, slot, chunkIndex, combined>>

(* co_await await_stream(stream) in the lambda: the copy has run.         *)
ResumeCopy(c) ==
  /\ cpc[c] = "await_copy" /\ copy[c] = "ready"
  /\ cpc' = [cpc EXCEPT ![c] = "done"]
  /\ UNCHANGED <<phase, nchunks, numActive, ident, kernel, dev, slot, copy, chunkIndex, host, combined>>

(* Every chunk's task has finished: combine_reduce runs on the device     *)
(* partials (fast path) or on the first num_chunks blocks of the host     *)
(* array.                                                                  *)
Combine ==
  /\ phase \in {"single", "chunks"}
  /\ \A c \in 1 .. nchunks : cpc[c] = "done"
  /\ combined' = IF phase = "single" THEN [i \in 0 .. NumProducts - 1 |-> dev[1][i + 1]]
                 ELSE [i \in 0 .. nchunks * NumProducts - 1 |-> host[i]]
  /\ phase' = "done"
  /\ UNCHANGED <<nchunks, cpc, numActive, ident, kernel, dev, slot, copy, chunkIndex, host>>

Terminating ==
  /\ phase = "done"
  /\ UNCHANGED vars

Next ==
  \/ Start
  \/ HostMultiexponentiate
  \/ Combine
  \/ Terminating
  \/ \E c \in Chunks :
       \/ Launch(c)
       \/ IdentExec(c)
       \/ KernelExec(c)
       \/ ResumeIdent(c)
       \/ ResumeKernel(c)
       \/ CopyExec(c)
       \/ ResumeCopy(c)

Spec == Init /\ [][Next]_vars
-----------------------------------------------------------------------------
(* Every variable has the shape the code gives it; in particular no chunk *)
(* takes a chunk_index outside [0, num_chunks), and chunk_index never     *)
(* passes num_chunks.  (Two chunks sharing a slot is CombineInputComplete's *)
(* concern.)                                                               *)
TypeOK ==
  /\ phase \in {"start", "single", "chunks", "done"}
  /\ nchunks \in 0 .. MaxChunks
  /\ cpc \in [Chunks -> {"idle", "await_ident", "await_kernel", "await_copy", "done"}]
  /\ numActive \in [Chunks -> 0 .. NumProducts]
  /\ ident \in [Chunks -> {"queued", "ready"}]
  /\ kernel \in [Chunks -> {"queued", "ready"}]
  /\ slot \in [Chunks -> (0 .. nchunks - 1) \cup {NoSlot}]
  /\ copy \in [Chunks -> {"none", "queued", "ready"}]
  /\ chunkIndex \in 0 .. nchunks

(* When combine_reduce starts, the partials it reads are those of every   *)
(* chunk exactly once, each block fully computed (identities and kernel   *)
(* sums, no uninitialised entry), in whatever order the chunks finished:  *)
(* the chunk_index taken after the await of async_partition_product_chunk *)
(* gives every chunk its own block, and each chunk awaited both its       *)
(* identity copy and its kernel before copying its partials out.          *)
CombineInputComplete ==
  phase = "done" /\ nchunks > 0 =>
    \E f \in Bijection(0 .. nchunks - 1, 1 .. nchunks) :
      \A k \in 0 .. nchunks - 1 : \A p \in Products :
        Block(combined, k)[p] = Correct(f[k], p)
=============================================================================
