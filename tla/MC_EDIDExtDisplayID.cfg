CONSTANT Records <- MCRecords

SPECIFICATION Spec

INVARIANT TypeOK
INVARIANT DisplayIDDecodedWhenWellFormed
