CONSTANTS
  HeaderInputs <- MCDecoderHeaderInputs
  BasicInputs <- MCDecoderBasicInputs
  ChromaInputs <- MCChromaInputs
  EstablishedInputs <- MCDecoderEstablishedInputs
  StandardInputs <- MCDecoderStandardInputs
  DescriptorInputs <- MCDecoderDescriptorInputs
  ExtensionCounts <- MCExtensionCounts
  ChecksumCorrect <- MCDecoderChecksumCorrect
  ExtensionInputs <- MCDecoderExtensionInputs

SPECIFICATION DecoderSpec

INVARIANT DecoderTypeOK
INVARIANT ExtensionDecodedWhenWellFormed
PROPERTY Termination
PROPERTY RecordStreamRefined
