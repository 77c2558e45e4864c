----------------------------- MODULE ElementMarker -----------------------------
(***************************************************************************)
(* The "unset" marker of group elements and the accumulators that use it *)
(* to tag empty bucket slots (spec 3 and 9: a slot starts marked; the    *)
(* first element accumulated into a marked slot replaces it, later ones  *)
(* are added; reading a marked slot gives the identity).                  *)
(*                                                                         *)
(* Two implementations of mark / is_marked are modelled from the source: *)
(*   element97 (src/sxt/base/curve/example_element.h): a side flag;      *)
(*   curve21 element_p3 (src/sxt/curve21/type/element_p3.cc): the        *)
(*   sentinel unset_marker_v written into the limb Z[4].                  *)
(* An element is [v, marked, z4]: its value in Z_97 (Garbage once the     *)
(* coordinates no longer describe a point), the element97 flag and the    *)
(* curve21 limb Z[4] (Limb: an ordinary limb, below 2^52).                *)
(***************************************************************************)
EXTENDS Naturals

CONSTANTS
  Impl,          \* "element97" or "curve21"
  Slots,         \* the accumulator's bucket slots
  Inputs,        \* the values of the elements accumulated
  MaxAdds,       \* bound on the elements accumulated into one slot
  Uninit,        \* values the uninitialised memory of a slot may hold
  Garbage,       \* the value of an element whose coordinates were clobbered
  Limb,          \* an ordinary value of limb Z[4]
  UnsetMarker    \* unset_marker_v, static_cast<uint64_t>(-1)

ASSUME Impl \in {"element97", "curve21"}

VARIABLES
  slot,    \* the element in each slot
  added,   \* how many elements have been accumulated into each slot
  total    \* the sum (mod 97) of the values accumulated into each slot

vars == <<slot, added, total>>

Identity == [v |-> 0, marked |-> FALSE, z4 |-> Limb]

(* element97 mark: the side flag set, the value untouched.                *)
Mark97(e) == [e EXCEPT !.marked = TRUE]

(* A mutant of IsMarked97: the flag read inverted.                        *)
IsMarked97Inverted(e) == ~e.marked

(* element97 is_marked.                                                    *)
IsMarked97(e) == e.marked

(* A mutant of Add97: the sum not reduced modulo 97.                      *)
Add97NoMod(a, b) == [a EXCEPT !.v = a.v + b.v]

(* element97 add / add_inplace into a: the value only.                    *)
Add97(a, b) == [a EXCEPT !.v = (a.v + b.v) % 97]

(* curve21 mark: Z[4] = unset_marker_v, which also changes the point the *)
(* coordinates describe.                                                   *)
Mark21(e) == [e EXCEPT !.z4 = UnsetMarker, !.v = Garbage]

(* curve21 is_marked, as written: e.Z[4] != unset_marker_v.               *)
IsMarked21(e) == e.z4 # UnsetMarker

(* curve21 addition: Garbage in gives Garbage out; Z is recomputed.       *)
Add21(a, b) ==
  [v |-> IF a.v = Garbage \/ b.v = Garbage THEN Garbage ELSE (a.v + b.v) % 97,
   marked |-> a.marked, z4 |-> Limb]

Mark(e) == IF Impl = "element97" THEN Mark97(e) ELSE Mark21(e)
IsMarked(e) == IF Impl = "element97" THEN IsMarked97(e) ELSE IsMarked21(e)
AddElem(a, b) == IF Impl = "element97" THEN Add97(a, b) ELSE Add21(a, b)

(* An accumulator starts with every slot, uninitialised memory, marked.   *)
Init ==
  /\ slot \in { [s \in Slots |-> Mark([Identity EXCEPT !.v = u[s]])] : u \in [Slots -> Uninit] }
  /\ added = [s \in Slots |-> 0]
  /\ total = [s \in Slots |-> 0]

(* Accumulate an element of value x into slot s: a marked slot takes the  *)
(* element, any other adds it.                                             *)
Accumulate(s, x) ==
  LET e == [Identity EXCEPT !.v = x] IN
  /\ added[s] < MaxAdds
  /\ slot' = [slot EXCEPT ![s] = IF IsMarked(@) THEN e ELSE AddElem(@, e)]
  /\ added' = [added EXCEPT ![s] = @ + 1]
  /\ total' = [total EXCEPT ![s] = (@ + x) % 97]

(* The accumulator's result for slot s: the identity if still marked.     *)
Read(s) == IF IsMarked(slot[s]) THEN Identity ELSE slot[s]

Terminating ==
  /\ \A s \in Slots : added[s] = MaxAdds
  /\ UNCHANGED vars

Next ==
  \/ \E s \in Slots, x \in Inputs : Accumulate(s, x)
  \/ Terminating

Spec == Init /\ [][Next]_vars
-----------------------------------------------------------------------------
(* Every slot holds an element of the group (a value in Z_97).            *)
TypeOK ==
  slot \in [Slots -> [v : 0 .. 96, marked : BOOLEAN,
                      z4 : {Limb, UnsetMarker}]]

(* Whatever the elements accumulated into a slot and in whatever order,  *)
(* the slot reads as their sum, and as the identity while nothing has     *)
(* been accumulated: mark and is_marked must agree, and a marked slot     *)
(* must never be added to.                                                 *)
SlotsReadAsSums ==
  \A s \in Slots : Read(s).v = total[s]
=============================================================================
