--------------------------- MODULE ToDeviceCopier ---------------------------
(***************************************************************************)
(* The double-buffered host-to-device copier                               *)
(* (src/sxt/execution/device/to_device_copier.cc) driven by several tasks *)
(* of the single-threaded cooperative scheduler, each with its own copier,*)
(* its own stream and its own destination, all sharing the thread-local   *)
(* pinned buffer pool (PinnedBufferPool).                                  *)
(*                                                                         *)
(* A task runs only while it holds the thread (running); it gives it up   *)
(* at a co_await (await_alt, await_final) or when copy returns.  The       *)
(* streams run on the device and may take a step at any time: the head    *)
(* copy of a stream reads the pinned memory of its handle when it runs,   *)
(* not when it was issued, which is what makes buffer reuse a hazard.     *)
(*                                                                         *)
(* The caller of task t passes Total bytes in successive copy calls of    *)
(* any sizes; byte i of task t is the value <<t, i>>.                     *)
(***************************************************************************)
EXTENDS Integers, Sequences, FiniteSets

CONSTANTS
  Tasks,            \* the concurrent copier tasks
  Handles,          \* the pinned handles the pool may ever create
  InitialPoolSize,  \* handles the pool starts with
  Capacity,         \* pinned_buffer::capacity(), in bytes
  DstSize,          \* dst.size() of every copier
  Total,            \* bytes each caller passes over all its copy calls
  NoHandle,         \* the null handle_ of an empty pinned_buffer
  Unset,            \* a device byte nothing has written
  Garbage           \* pinned memory nothing has written

ASSUME Capacity \in Nat \ {0} /\ DstSize \in Nat \ {0} /\ Total \in Nat \ {0}

VARIABLES
  pc,       \* where each task is: idle (between copy calls), loop, await_alt,
            \* await_final, or panic (a failed release assertion)
  running,  \* {t} while task t holds the thread, {} while it is free
  src,      \* the part of the current call's src not yet copied to pinned memory
  fed,      \* how many bytes each caller has passed to copy so far
  dst,      \* dst_ as [off, len]: the part of the destination still to fill
  active,   \* active_buffer_ as [h, size]
  alt,      \* alt_buffer_ as [h, size]
  mem,      \* the pinned memory behind every handle
  stream,   \* each task's stream: the queue of issued, not yet run, copies
  dev,      \* each task's destination in device memory
  pool      \* the thread-local pinned buffer pool

vars == <<pc, running, src, fed, dst, active, alt, mem, stream, dev, pool>>

Pool == INSTANCE PinnedBufferPool WITH InitialSize <- InitialPoolSize

Bytes == Tasks \X (1 .. Total)

(* A default-constructed or reset pinned_buffer.                          *)
NoBuffer == [h |-> NoHandle, size |-> 0]

Aborted == \E t \in Tasks : pc[t] = "panic"

(* A mutant of FillCount: the whole of src, past the buffer's capacity.   *)
FillCountUncapped(b, s) == Len(s)

(* How many bytes fill_from_host moves: what src has, up to the room left.*)
FillCount(b, s) ==
  IF Capacity - b.size < Len(s) THEN Capacity - b.size ELSE Len(s)

(* Pinned memory of handle h after n bytes of s are written at [from+1..]. *)
Stored(m, h, from, s, n) ==
  [m EXCEPT ![h] = [i \in 1 .. Capacity |->
                      IF from < i /\ i <= from + n THEN s[i - from] ELSE @[i]]]

(* A mutant of Advanced: dst_ not moved past the bytes just issued.       *)
AdvancedNot(d, n) == d

(* dst_.subspan(n).                                                        *)
Advanced(d, n) == [off |-> d.off + n, len |-> d.len - n]

(* async_memcpy_host_to_device of buffer b to the start of dst_.          *)
IssueCopy(t, b) ==
  Append(stream[t], [h |-> b.h, off |-> dst[t].off, len |-> b.size])

(* reset() of buffer b: its handle, if any, goes back to the pool.        *)
ReleaseBuffer(p, b) ==
  IF b.h = NoHandle THEN p ELSE Pool!Released(p, b.h)

(* A mutant of Outcome: the full() test made before the size == dst test. *)
OutcomeFullFirst(b, altBuf, len) ==
  CASE b.size < Capacity -> "partial"
    [] b.size = len      -> "flush"
    [] altBuf.size # 0   -> "wait"
    [] OTHER             -> "issue"

(* What the loop of copy does once active_buffer_ has been filled.        *)
Outcome(b, altBuf, len) ==
  CASE b.size = len      -> "flush"
    [] b.size < Capacity -> "partial"
    [] altBuf.size # 0   -> "wait"
    [] OTHER             -> "issue"

-----------------------------------------------------------------------------
Init ==
  /\ pc = [t \in Tasks |-> "idle"]
  /\ running = {}
  /\ src = [t \in Tasks |-> <<>>]
  /\ fed = [t \in Tasks |-> 0]
  /\ dst = [t \in Tasks |-> [off |-> 0, len |-> DstSize]]
  /\ active = [t \in Tasks |-> NoBuffer]
  /\ alt = [t \in Tasks |-> NoBuffer]
  /\ mem = [h \in Handles |-> [i \in 1 .. Capacity |-> Garbage]]
  /\ stream = [t \in Tasks |-> <<>>]
  /\ dev = [t \in Tasks |-> [i \in 1 .. DstSize |-> Unset]]
  /\ pool \in Pool!InitialPools

(* The caller of t calls copy with its next k bytes and the scheduler runs *)
(* it: the release assertion on the size, the early return on an empty    *)
(* destination, else into the loop.                                        *)
Call(t, k) ==
  /\ ~Aborted
  /\ running = {} /\ pc[t] = "idle"
  /\ fed' = [fed EXCEPT ![t] = @ + k]
  /\ IF k > dst[t].len
       THEN /\ pc' = [pc EXCEPT ![t] = "panic"]
            /\ UNCHANGED <<running, src>>
     ELSE IF dst[t].len = 0
       THEN UNCHANGED <<pc, running, src>>
     ELSE /\ src' = [src EXCEPT ![t] = [i \in 1 .. k |-> <<t, fed[t] + i>>]]
          /\ pc' = [pc EXCEPT ![t] = "loop"]
          /\ running' = {t}
  /\ UNCHANGED <<dst, active, alt, mem, stream, dev, pool>>

(* The loop finds src exhausted and copy returns.                         *)
SrcDrained(t) ==
  /\ ~Aborted
  /\ running = {t} /\ pc[t] = "loop" /\ src[t] = <<>>
  /\ pc' = [pc EXCEPT ![t] = "idle"]
  /\ running' = {}
  /\ UNCHANGED <<src, fed, dst, active, alt, mem, stream, dev, pool>>

(* The last bytes: release assertion that src is used up, the final copy, *)
(* then suspension until the stream has run it.                            *)
Flush(t, b, rest) ==
  /\ active' = [active EXCEPT ![t] = b]
  /\ running' = {}
  /\ IF rest = <<>>
       THEN /\ stream' = [stream EXCEPT ![t] = IssueCopy(t, b)]
            /\ pc' = [pc EXCEPT ![t] = "await_final"]
       ELSE /\ pc' = [pc EXCEPT ![t] = "panic"]
            /\ UNCHANGED stream
  /\ UNCHANGED <<dst, alt>>

(* copy returns (partial) or suspends on the stream (await_alt).          *)
Suspend(t, b, to) ==
  /\ active' = [active EXCEPT ![t] = b]
  /\ pc' = [pc EXCEPT ![t] = to]
  /\ running' = {}
  /\ UNCHANGED <<dst, alt, stream>>

(* Copy the full active buffer to dst_, advance dst_, swap the buffers.   *)
IssueAndSwap(t, b) ==
  /\ stream' = [stream EXCEPT ![t] = IssueCopy(t, b)]
  /\ dst' = [dst EXCEPT ![t] = Advanced(@, b.size)]
  /\ active' = [active EXCEPT ![t] = alt[t]]
  /\ alt' = [alt EXCEPT ![t] = b]
  /\ UNCHANGED <<pc, running>>

(* One pass of the while loop with src not empty: fill_from_host into     *)
(* active_buffer_ (taking a handle from the pool if it has none), then    *)
(* the branch Outcome picks.                                               *)
Loop(t) ==
  LET h    == IF active[t].h = NoHandle THEN Pool!Acquired(pool) ELSE active[t].h
      n    == FillCount(active[t], src[t])
      b    == [h |-> h, size |-> active[t].size + n]
      rest == SubSeq(src[t], n + 1, Len(src[t]))
  IN
  /\ ~Aborted
  /\ running = {t} /\ pc[t] = "loop" /\ src[t] # <<>>
  /\ active[t].h = NoHandle => Pool!CanAcquire(pool)
  /\ pool' = IF active[t].h = NoHandle THEN Pool!AfterAcquire(pool) ELSE pool
  /\ mem' = Stored(mem, h, active[t].size, src[t], n)
  /\ src' = [src EXCEPT ![t] = rest]
  /\ CASE Outcome(b, alt[t], dst[t].len) = "flush"   -> Flush(t, b, rest)
       [] Outcome(b, alt[t], dst[t].len) = "partial" -> Suspend(t, b, "idle")
       [] Outcome(b, alt[t], dst[t].len) = "wait"    -> Suspend(t, b, "await_alt")
       [] Outcome(b, alt[t], dst[t].len) = "issue"   -> IssueAndSwap(t, b)
  /\ UNCHANGED <<fed, dev>>

(* A mutant of ResumeAlt: resumed before the stream has drained.          *)
ResumeAltNoWait(t) ==
  /\ ~Aborted
  /\ running = {} /\ pc[t] = "await_alt"
  /\ pool' = Pool!Released(pool, alt[t].h)
  /\ stream' = [stream EXCEPT ![t] = IssueCopy(t, active[t])]
  /\ dst' = [dst EXCEPT ![t] = Advanced(@, active[t].size)]
  /\ active' = [active EXCEPT ![t] = NoBuffer]
  /\ alt' = [alt EXCEPT ![t] = active[t]]
  /\ pc' = [pc EXCEPT ![t] = "loop"]
  /\ running' = {t}
  /\ UNCHANGED <<src, fed, mem, dev>>

(* The stream has run the copy out of alt_buffer_: reset it, then copy    *)
(* active_buffer_, advance dst_ and swap, and go on with the loop.         *)
ResumeAlt(t) ==
  /\ ~Aborted
  /\ running = {} /\ pc[t] = "await_alt" /\ stream[t] = <<>>
  /\ pool' = Pool!Released(pool, alt[t].h)
  /\ stream' = [stream EXCEPT ![t] = IssueCopy(t, active[t])]
  /\ dst' = [dst EXCEPT ![t] = Advanced(@, active[t].size)]
  /\ active' = [active EXCEPT ![t] = NoBuffer]
  /\ alt' = [alt EXCEPT ![t] = active[t]]
  /\ pc' = [pc EXCEPT ![t] = "loop"]
  /\ running' = {t}
  /\ UNCHANGED <<src, fed, mem, dev>>

(* A mutant of ResumeFinal: only active_buffer_ is reset, so the handle   *)
(* of alt_buffer_ is never given back to the pool.                          *)
ResumeFinalLeaksAlt(t) ==
  /\ ~Aborted
  /\ running = {} /\ pc[t] = "await_final" /\ stream[t] = <<>>
  /\ dst' = [dst EXCEPT ![t].len = 0]
  /\ pool' = ReleaseBuffer(pool, active[t])
  /\ active' = [active EXCEPT ![t] = NoBuffer]
  /\ alt' = [alt EXCEPT ![t] = NoBuffer]
  /\ pc' = [pc EXCEPT ![t] = "idle"]
  /\ UNCHANGED <<running, src, fed, mem, stream, dev>>

(* A mutant of ResumeFinal: resumed before the stream has drained.        *)
ResumeFinalNoWait(t) ==
  /\ ~Aborted
  /\ running = {} /\ pc[t] = "await_final"
  /\ dst' = [dst EXCEPT ![t].len = 0]
  /\ pool' = ReleaseBuffer(ReleaseBuffer(pool, active[t]), alt[t])
  /\ active' = [active EXCEPT ![t] = NoBuffer]
  /\ alt' = [alt EXCEPT ![t] = NoBuffer]
  /\ pc' = [pc EXCEPT ![t] = "idle"]
  /\ UNCHANGED <<running, src, fed, mem, stream, dev>>

(* The stream has run the final copy: dst_ = {}, reset both buffers, and  *)
(* copy returns to its caller.                                             *)
ResumeFinal(t) ==
  /\ ~Aborted
  /\ running = {} /\ pc[t] = "await_final" /\ stream[t] = <<>>
  /\ dst' = [dst EXCEPT ![t].len = 0]
  /\ pool' = ReleaseBuffer(ReleaseBuffer(pool, active[t]), alt[t])
  /\ active' = [active EXCEPT ![t] = NoBuffer]
  /\ alt' = [alt EXCEPT ![t] = NoBuffer]
  /\ pc' = [pc EXCEPT ![t] = "idle"]
  /\ UNCHANGED <<running, src, fed, mem, stream, dev>>

(* The device runs the oldest copy on t's stream, reading pinned memory   *)
(* now.  Bytes past the end of the destination are lost here.             *)
DeviceExec(t) ==
  LET op == Head(stream[t]) IN
  /\ ~Aborted
  /\ stream[t] # <<>>
  /\ dev' = [dev EXCEPT ![t] = [i \in 1 .. DstSize |->
               IF op.off < i /\ i <= op.off + op.len THEN mem[op.h][i - op.off]
                                                     ELSE @[i]]]
  /\ stream' = [stream EXCEPT ![t] = Tail(@)]
  /\ UNCHANGED <<pc, running, src, fed, dst, active, alt, mem, pool>>

CallerDone(t) == fed[t] = Total /\ pc[t] = "idle"

Finished == \A t \in Tasks : CallerDone(t) /\ stream[t] = <<>>

(* Every caller is done and every stream drained, or the process aborted. *)
Terminating ==
  /\ Finished \/ Aborted
  /\ UNCHANGED vars

Next ==
  \/ \E t \in Tasks, k \in 1 .. Total : k <= Total - fed[t] /\ Call(t, k)
  \/ \E t \in Tasks : SrcDrained(t)
  \/ \E t \in Tasks : Loop(t)
  \/ \E t \in Tasks : ResumeAlt(t)
  \/ \E t \in Tasks : ResumeFinal(t)
  \/ \E t \in Tasks : DeviceExec(t)
  \/ Terminating

(* The scheduler resumes any task whose stream has drained, the device    *)
(* runs every issued copy, and every caller goes on calling copy until it *)
(* has passed all its bytes.                                               *)
Fairness ==
  \A t \in Tasks :
    /\ WF_vars(\E k \in 1 .. Total : k <= Total - fed[t] /\ Call(t, k))
    /\ WF_vars(SrcDrained(t))
    /\ WF_vars(Loop(t))
    /\ WF_vars(ResumeAlt(t))
    /\ WF_vars(ResumeFinal(t))
    /\ WF_vars(DeviceExec(t))

Spec == Init /\ [][Next]_vars

FairSpec == Spec /\ Fairness
-----------------------------------------------------------------------------
(* Every variable has the shape the code gives it.                        *)
TypeOK ==
  /\ pc \in [Tasks -> {"idle", "loop", "await_alt", "await_final", "panic"}]
  /\ running \in {{}} \cup {{t} : t \in Tasks}
  /\ src \in [Tasks -> Seq(Bytes)]
  /\ fed \in [Tasks -> 0 .. Total]
  /\ dst \in [Tasks -> [off : Int, len : Int]]
  /\ active \in [Tasks -> [h : Handles \cup {NoHandle}, size : 0 .. Capacity]]
  /\ alt \in [Tasks -> [h : Handles \cup {NoHandle}, size : 0 .. Capacity]]
  /\ mem \in [Handles -> [1 .. Capacity -> Bytes \cup {Garbage}]]
  /\ stream \in [Tasks -> Seq([h : Handles, off : Int, len : 0 .. Capacity])]
  /\ dev \in [Tasks -> [1 .. DstSize -> Bytes \cup {Unset}]]
  /\ pool \in Pool!PoolType

(* The handles a buffer of some task holds, and where each one is.        *)
Holders(h) ==
  { <<"free", i>> : i \in {i \in DOMAIN pool.free : pool.free[i] = h} }
    \cup { <<t, "active">> : t \in {t \in Tasks : active[t].h = h} }
    \cup { <<t, "alt">> : t \in {t \in Tasks : alt[t].h = h} }

(* A pinned handle is in at most one place: on the pool's free list once, *)
(* or in one buffer of one copier.  Several copier tasks take handles from *)
(* and give them back to the one thread-local pool between their awaits.   *)
NoSharedHandle ==
  \A h \in Handles : Cardinality(Holders(h)) <= 1

(* While a copy out of a pinned handle is queued on a stream, the copier  *)
(* that issued it still holds the handle in one of its two buffers, with  *)
(* the bytes it had when the copy was issued: no reset, no return to the  *)
(* pool and no refill (to_device_copier.cc awaits the stream before       *)
(* alt_buffer_.reset() and before the final resets).                      *)
InFlightBufferOwned ==
  \A t \in Tasks : \A j \in DOMAIN stream[t] :
    LET op == stream[t][j] IN
    /\ op.h \in {active[t].h, alt[t].h}
    /\ \A i \in 1 .. op.len : mem[op.h][i] = <<t, op.off + i>>

(* Once a caller has passed all its bytes and its last copy call has      *)
(* returned, every byte it passed is on the device at its position: the   *)
(* promise of to_device_copier to callers whose calls total dst.size().   *)
CopiedWhenCallerDone ==
  \A t \in Tasks :
    CallerDone(t) => \A i \in 1 .. fed[t] : i <= DstSize /\ dev[t][i] = <<t, i>>

(* The handles held by the buffers of the copiers.                        *)
HeldHandles ==
  { active[t].h : t \in Tasks } \cup { alt[t].h : t \in Tasks }

(* No pinned handle leaks: every handle cudaMallocHost has produced is on *)
(* the pool's free list or in a buffer of a live copier.  acquire_handle  *)
(* allocates whenever the free list is empty and nothing ever frees, so a *)
(* handle a copier drops without release_handle (a missed reset of        *)
(* alt_buffer_ after the final await) makes the process-wide pool grow    *)
(* with every copy instead of staying at the peak number held at once.    *)
NoLeakedHandle ==
  pool.created = { pool.free[i] : i \in DOMAIN pool.free } \cup (HeldHandles \ {NoHandle})

Abstract == INSTANCE ToDeviceCopy

(* The device side of every copier refines ToDeviceCopy: a destination    *)
(* only ever holds a growing prefix of its source, byte for byte.          *)
DeviceRefinesCopy == Abstract!Spec

(* Every task's destination eventually holds all of its source.           *)
AllCopiesLand ==
  <>(\A t \in Tasks : \A i \in 1 .. DstSize : dev[t][i] = <<t, i>>)
=============================================================================
