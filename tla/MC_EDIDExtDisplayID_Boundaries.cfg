CONSTANT Records <- MCRecords

SPECIFICATION Spec

INVARIANT BlocksAtBoundaries
