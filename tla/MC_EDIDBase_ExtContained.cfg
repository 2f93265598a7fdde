CONSTANTS
  HeaderInputs <- MCHeaderInputs
  BasicInputs <- MCBasicInputs
  ChromaInputs <- MCChromaInputs
  EstablishedInputs <- MCEstablishedInputs
  StandardInputs <- MCStandardInputs
  DescriptorInputs <- MCDescriptorInputs
  ExtensionCounts <- MCExtensionCounts
  ChecksumCorrect <- MCChecksumCorrect
  ExtensionInputs <- MCExtensionInputs

SPECIFICATION Spec


INVARIANT ExtensionFailureContained
