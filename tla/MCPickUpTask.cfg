CONSTANTS
  Priorities = {1, 2, 3}
  MaxCandidates = 3

SPECIFICATION Spec

INVARIANT PickedIsCandidate
