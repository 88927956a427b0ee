\* Colliding keys, probes that wrap, values stored over values, and moves of the
\* entries under nested computations.
CONSTANTS
  k1 = k1  k2 = k2  k3 = k3
  Keys <- Crowd
  Vals = {v1, v2}
  None = None
  Hash <- CrowdHashes
  Tag <- CrowdTags
  HashSize = 8
  Floor = 2
  Unit = 4
  Fill = 3
  EpochSize = 4
  MaxNesting = 2
SPECIFICATION Spec
INVARIANTS Roomy Initialised PlaceStands
PROPERTIES Promise
