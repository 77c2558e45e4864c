-------------------------- MODULE PinnedBufferPool --------------------------
(***************************************************************************)
(* The thread-local pool of pinned host buffers                            *)
(* (src/sxt/base/device/pinned_buffer_pool.cc).                           *)
(*                                                                         *)
(* The pool is a value [free, created]: free is the intrusive free list,  *)
(* head first (head_ and the next links), created is the set of handles   *)
(* cudaMallocHost has produced so far.  Handles are model values.  The    *)
(* operators are pure so that a step of a client may acquire and release  *)
(* several handles; the clients' modules hold the pool in a variable.     *)
(*                                                                         *)
(* The pool lives for the whole process (a leaked thread_local), so its   *)
(* destructor never runs and is not modelled.                              *)
(***************************************************************************)
EXTENDS Naturals, Sequences, FiniteSets

CONSTANTS
  Handles,      \* every handle cudaMallocHost may return (bounds the model)
  InitialSize   \* initial_size of get_pinned_buffer_pool

ASSUME InitialSize \in 0 .. Cardinality(Handles)

PoolType ==
  [free : Seq(Handles), created : SUBSET Handles]

(* The constructor: InitialSize fresh handles, each released onto the list. *)
InitialPools ==
  { [free |-> f, created |-> {f[i] : i \in DOMAIN f}] :
      f \in { f \in [1 .. InitialSize -> Handles] :
                \A i, j \in 1 .. InitialSize : i # j => f[i] # f[j] } }

(* acquire_handle may only call new_handle while the model has handles    *)
(* left; the bound stands for the host's pinned memory.                    *)
CanAcquire(p) ==
  p.free # <<>> \/ p.created # Handles

(* The handle acquire_handle returns: the head, or a new one if empty.     *)
Acquired(p) ==
  IF p.free = <<>> THEN CHOOSE h \in Handles \ p.created : TRUE
                   ELSE Head(p.free)

(* A mutant of AfterAcquire: the head is handed out but never unlinked.   *)
AfterAcquireKeepsHead(p) ==
  IF p.free = <<>> THEN [p EXCEPT !.created = @ \cup {Acquired(p)}]
                   ELSE p

(* The pool after acquire_handle: the head unlinked, or a new handle made. *)
AfterAcquire(p) ==
  IF p.free = <<>> THEN [p EXCEPT !.created = @ \cup {Acquired(p)}]
                   ELSE [p EXCEPT !.free = Tail(@)]

(* release_handle: the handle is linked in as the new head.               *)
Released(p, h) ==
  [p EXCEPT !.free = <<h>> \o @]

(* The number of handles on the free list (pinned_buffer_pool::size).     *)
PoolSize(p) ==
  Len(p.free)
=============================================================================
