SPECIFICATION StoreSpec
CONSTANTS
  Bucket = {b1}
  Key = {k1, k2}
  Block = {v1, v2}
  Upload = {u1}
  Part = {1}
  Handler = {h1, h2}
  None = none
  Cut = cut
  Nothing = nothing
  MaxFaults = 1
SYMMETRY Symmetry
INVARIANTS AcknowledgedKept PartsAsNoted
