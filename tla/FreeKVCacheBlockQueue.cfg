SPECIFICATION Spec
CONSTANT NumBlocks = 5
INVARIANTS CountIsExact WellLinked
PROPERTY ImplementsQueue
