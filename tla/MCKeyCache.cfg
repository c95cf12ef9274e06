\* Rotations, retirements and a kid used again, at every fetch of a validation.
SPECIFICATION FairSpec
CONSTANTS
  Key <- MCKey
  Kid <- MCKid
  KidOf <- MCKidOf
  Lifespan = 1
  MaxTime = 3
  MaxChanges = 4
  None = None
INVARIANTS
  RotationIsSeen
  AcceptedWasPublished
PROPERTIES
  ValidationEnds
