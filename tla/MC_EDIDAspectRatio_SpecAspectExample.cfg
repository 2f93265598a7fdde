CONSTANT Sizes <- MCSizes

SPECIFICATION Spec

INVARIANT SpecAspectExample
