SPECIFICATION Spec
CONSTANTS
    Objects <- McObjects
    MinTarget = 3
INVARIANT OneOwner
INVARIANT RangesAreLifted
 
