\* curve21 element_p3: the same accumulator.
CONSTANTS
  Impl = "curve21"
  Slots = {s1, s2}
  Inputs = {1, 96}
  MaxAdds = 4
  Uninit = {0, 5}
  Garbage = Garbage
  Limb = Limb
  UnsetMarker = UnsetMarker

SPECIFICATION Spec

INVARIANT SlotsReadAsSums
