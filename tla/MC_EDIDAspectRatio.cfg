CONSTANT Sizes <- MCSizes

SPECIFICATION Spec

INVARIANT TypeOK
INVARIANT AspectRatioMatchesReference
