\* Four keys for three entries and four slab indices: evictions of the
\* tail, of a middle entry that sank, and reuse of a freed index happen.
SPECIFICATION Spec
CONSTANTS
  CacheKeys = {k1, k2, k3, k4}
  Values = {10, 20}
  Indices = {0, 1, 2, 3}
  Capacity = 3
  Nothing = Nothing
INVARIANTS TypeOK PoolSound
PROPERTY ImplementsLru
