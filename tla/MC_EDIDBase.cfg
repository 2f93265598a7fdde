CONSTANTS
  HeaderInputs <- MCHeaderInputs
  BasicInputs <- MCBasicInputs
  ChromaInputs <- MCChromaInputs
  EstablishedInputs <- MCEstablishedInputs
  StandardInputs <- MCStandardInputs
  DescriptorInputs <- MCDescriptorInputs
  ExtensionCounts <- MCExtensionCounts
  ChecksumCorrect <- MCChecksumCorrect
  ExtensionInputs <- MCExtensionInputs

SPECIFICATION Spec

INVARIANT TypeOK
INVARIANT ChecksumVerdict
INVARIANT ExtensionsAccounted
INVARIANT DTDSizesRoundTrip
INVARIANT ChromaticityRoundTrip
INVARIANT ManufacturerIdRoundTrip
INVARIANT RevisionGatesLabel
INVARIANT EstablishedTimingsNamed
INVARIANT DTDFlagsByteDecoded
