\* element97: two slots, up to four elements each, values 1 and 96 so
\* that sums wrap modulo 97, slots marked over memory holding 0 or 5.
CONSTANTS
  Impl = "element97"
  Slots = {s1, s2}
  Inputs = {1, 96}
  MaxAdds = 4
  Uninit = {0, 5}
  Garbage = Garbage
  Limb = Limb
  UnsetMarker = UnsetMarker

SPECIFICATION Spec

INVARIANT TypeOK
INVARIANT SlotsReadAsSums
