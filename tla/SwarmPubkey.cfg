\* Every set of swarms and every position on a ring of 8.
CONSTANT RingSize = 8
SPECIFICATION PubkeySpec
INVARIANT NearestSwarm
PROPERTY MovesOnlyIfNeeded
