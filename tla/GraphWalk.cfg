CONSTANTS
  WordBits = 6
  Sizes = {2, 3, 4, 5}
  Targets <- MCTargets
  LabelledUpTo = 4
SPECIFICATION WalkSpec
INVARIANTS CountsExact GuiltyExact TextFaithful CanonicalShared RankedAlike
