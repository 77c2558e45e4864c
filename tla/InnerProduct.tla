----------------------------- MODULE InnerProduct -----------------------------
(***************************************************************************)
(* async_inner_product_impl and async_inner_product_partial               *)
(* (src/sxt/scalar25/operation/inner_product.cc), with                    *)
(* make_active_device_viewable (src/sxt/execution/device/                  *)
(* device_viewable.h).                                                     *)
(*                                                                         *)
(* The index range is split into chunks that concurrent_for_each runs as *)
(* tasks of the cooperative scheduler.  Each chunk makes lhs and rhs      *)
(* device viewable (a copy on a new stream unless the data is already on  *)
(* the active device or managed), awaits rhs then lhs, reduces on its     *)
(* stream and adds its partial into the shared res.  A partial is the     *)
(* chunk's own contribution, or Garbage if the reduction read a device    *)
(* copy that had not landed; res counts the contributions it has summed.  *)
(***************************************************************************)
EXTENDS Naturals

CONSTANTS
  MaxChunks   \* bound on the number of chunks the split produces

Chunks == 1 .. MaxChunks

VARIABLES
  phase,     \* "start", "chunks", "done"
  nchunks,   \* the chunks of the split
  cpc,       \* where each chunk's task is suspended
  lhsCopy,   \* the lhs copy of each chunk: "none" (viewable already), "queued", "landed"
  rhsCopy,   \* the rhs copy, likewise
  reduced,   \* the chunk's reduction: "none", "queued", "ready"
  partial,   \* the partial the reduction produced: "ok" or "garbage"
  res        \* res: how often each chunk's partial was added, and garbage

vars == <<phase, nchunks, cpc, lhsCopy, rhsCopy, reduced, partial, res>>

Init ==
  /\ phase = "start"
  /\ nchunks = 0
  /\ cpc = [c \in Chunks |-> "idle"]
  /\ lhsCopy = [c \in Chunks |-> "none"]
  /\ rhsCopy = [c \in Chunks |-> "none"]
  /\ reduced = [c \in Chunks |-> "none"]
  /\ partial = [c \in Chunks |-> "ok"]
  /\ res = [sum |-> [c \in Chunks |-> 0], garbage |-> FALSE]

(* res = identity, then basit::split of [0, n) into 1 .. MaxChunks.       *)
Start ==
  /\ phase = "start"
  /\ \E k \in Chunks : nchunks' = k
  /\ phase' = "chunks"
  /\ UNCHANGED <<cpc, lhsCopy, rhsCopy, reduced, partial, res>>

(* make_active_device_viewable: ready at once if the data is empty, on    *)
(* the active device or managed, else a copy queued on a new stream.      *)
Viewable == {"none", "queued"}

(* async_inner_product_partial up to co_await of the rhs future: the lhs  *)
(* and rhs futures are both made before the first await.                  *)
Launch(c) ==
  /\ phase = "chunks" /\ c <= nchunks /\ cpc[c] = "idle"
  /\ \E l, r \in Viewable :
       /\ lhsCopy' = [lhsCopy EXCEPT ![c] = l]
       /\ rhsCopy' = [rhsCopy EXCEPT ![c] = r]
  /\ cpc' = [cpc EXCEPT ![c] = "await_rhs"]
  /\ UNCHANGED <<phase, nchunks, reduced, partial, res>>

(* A copy to the device lands on its stream.                              *)
LhsLands(c) ==
  /\ lhsCopy[c] = "queued"
  /\ lhsCopy' = [lhsCopy EXCEPT ![c] = "landed"]
  /\ UNCHANGED <<phase, nchunks, cpc, rhsCopy, reduced, partial, res>>

RhsLands(c) ==
  /\ rhsCopy[c] = "queued"
  /\ rhsCopy' = [rhsCopy EXCEPT ![c] = "landed"]
  /\ UNCHANGED <<phase, nchunks, cpc, lhsCopy, reduced, partial, res>>

(* co_await of the rhs future returns once its copy, if any, has landed.  *)
ResumeRhs(c) ==
  /\ cpc[c] = "await_rhs" /\ rhsCopy[c] # "queued"
  /\ cpc' = [cpc EXCEPT ![c] = "await_lhs"]
  /\ UNCHANGED <<phase, nchunks, lhsCopy, rhsCopy, reduced, partial, res>>

(* A mutant of ResumeLhs: the lhs future is not awaited.                  *)
ResumeLhsNoWait(c) ==
  /\ cpc[c] = "await_lhs"
  /\ reduced' = [reduced EXCEPT ![c] = "queued"]
  /\ cpc' = [cpc EXCEPT ![c] = "await_reduce"]
  /\ UNCHANGED <<phase, nchunks, lhsCopy, rhsCopy, partial, res>>

(* co_await of the lhs future returns; algr::reduce is launched on the    *)
(* chunk's stream over the device views.                                  *)
ResumeLhs(c) ==
  /\ cpc[c] = "await_lhs" /\ lhsCopy[c] # "queued"
  /\ reduced' = [reduced EXCEPT ![c] = "queued"]
  /\ cpc' = [cpc EXCEPT ![c] = "await_reduce"]
  /\ UNCHANGED <<phase, nchunks, lhsCopy, rhsCopy, partial, res>>

(* The reduction kernel runs, reading both device views as they are now.  *)
ReduceExec(c) ==
  /\ reduced[c] = "queued"
  /\ partial' = [partial EXCEPT ![c] =
                   IF lhsCopy[c] = "queued" \/ rhsCopy[c] = "queued" THEN "garbage" ELSE "ok"]
  /\ reduced' = [reduced EXCEPT ![c] = "ready"]
  /\ UNCHANGED <<phase, nchunks, cpc, lhsCopy, rhsCopy, res>>

(* A mutant of AddPartial: res assigned the partial instead of summed     *)
(* with it, so the sums of chunks that finished earlier are lost.         *)
AddPartialAssign(r, c) ==
  [sum |-> [d \in Chunks |-> IF d = c THEN 1 ELSE 0], garbage |-> partial[c] = "garbage"]

(* s25o::add(res, res, partial_res).                                      *)
AddPartial(r, c) ==
  [sum |-> [r.sum EXCEPT ![c] = @ + 1], garbage |-> r.garbage \/ partial[c] = "garbage"]

(* A mutant of ResumeReduce: the task is left suspended on the partial,   *)
(* so its continuation may run again.                                     *)
ResumeReduceNotDone(c) ==
  /\ cpc[c] = "await_reduce" /\ reduced[c] = "ready"
  /\ res' = AddPartial(res, c)
  /\ UNCHANGED <<phase, nchunks, cpc, lhsCopy, rhsCopy, reduced, partial>>

(* The partial's future is ready: the lambda adds it into res.            *)
ResumeReduce(c) ==
  /\ cpc[c] = "await_reduce" /\ reduced[c] = "ready"
  /\ res' = AddPartial(res, c)
  /\ cpc' = [cpc EXCEPT ![c] = "done"]
  /\ UNCHANGED <<phase, nchunks, lhsCopy, rhsCopy, reduced, partial>>

(* concurrent_for_each returns when every chunk is done; co_return res.   *)
Finish ==
  /\ phase = "chunks" /\ \A c \in 1 .. nchunks : cpc[c] = "done"
  /\ phase' = "done"
  /\ UNCHANGED <<nchunks, cpc, lhsCopy, rhsCopy, reduced, partial, res>>

Terminating ==
  /\ phase = "done"
  /\ UNCHANGED vars

Next ==
  \/ Start
  \/ Finish
  \/ Terminating
  \/ \E c \in Chunks :
       \/ Launch(c)
       \/ LhsLands(c)
       \/ RhsLands(c)
       \/ ResumeRhs(c)
       \/ ResumeLhs(c)
       \/ ReduceExec(c)
       \/ ResumeReduce(c)

Spec == Init /\ [][Next]_vars
-----------------------------------------------------------------------------
(* Every variable has the shape the code gives it.                        *)
TypeOK ==
  /\ phase \in {"start", "chunks", "done"}
  /\ cpc \in [Chunks -> {"idle", "await_rhs", "await_lhs", "await_reduce", "done"}]
  /\ lhsCopy \in [Chunks -> {"none", "queued", "landed"}]
  /\ rhsCopy \in [Chunks -> {"none", "queued", "landed"}]
  /\ reduced \in [Chunks -> {"none", "queued", "ready"}]
  /\ res \in [sum : [Chunks -> 0 .. 1], garbage : BOOLEAN]

(* The inner product returned is the sum of every chunk's partial exactly *)
(* once, each computed from device copies that had landed: the concurrent *)
(* chunk tasks add into the one res only after their last await, and each *)
(* reduction runs after both of its inputs were awaited.                  *)
SumsEveryChunkOnce ==
  phase = "done" =>
    res = [sum |-> [c \in Chunks |-> IF c <= nchunks THEN 1 ELSE 0], garbage |-> FALSE]
=============================================================================
