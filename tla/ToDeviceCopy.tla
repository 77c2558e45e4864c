---------------------------- MODULE ToDeviceCopy ----------------------------
(***************************************************************************)
(* What a host-to-device copy promises its caller, whatever the staging:  *)
(* the destination of every task only ever holds a prefix of the bytes   *)
(* the task passed, each byte at its own position, and the prefix only    *)
(* grows.  A byte is the pair <<task, position>> so that a misplaced or   *)
(* foreign byte is visible.                                               *)
(*                                                                         *)
(* ToDeviceCopier refines this specification with dev mapped to itself.   *)
(***************************************************************************)
EXTENDS Naturals

CONSTANTS
  Tasks,    \* the copies in flight, one destination each
  DstSize,  \* the length of every destination
  Unset     \* a device byte no copy has written yet

VARIABLE dev

(* The destination of t holding the first k source bytes.                 *)
Filled(t, k) ==
  [i \in 1 .. DstSize |-> IF i <= k THEN <<t, i>> ELSE Unset]

(* The length of the prefix dev[t] holds.                                 *)
Delivered(t) ==
  CHOOSE k \in 0 .. DstSize : dev[t] = Filled(t, k)

Init ==
  dev = [t \in Tasks |-> Filled(t, 0)]

(* Some more bytes of t land, in order, right after the ones already there.*)
Deliver(t) ==
  \E k \in Delivered(t) + 1 .. DstSize :
    dev' = [dev EXCEPT ![t] = Filled(t, k)]

Next ==
  \E t \in Tasks : Deliver(t)

Spec ==
  Init /\ [][Next]_dev
=============================================================================
