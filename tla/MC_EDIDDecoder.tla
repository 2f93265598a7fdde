---------------------------- MODULE MC_EDIDDecoder ----------------------------
(***************************************************************************)
(* Inputs for EDIDDecoder: one base record (the monitor of MC_EDIDBase,    *)
(* with a correct checksum) declaring zero to two extensions, each of      *)
(* which is any of the DisplayID records of MC_DisplayIDRecords, the       *)
(* CEA-861 records and block map of MC_EDIDBase, or the end of the buffer. *)
(***************************************************************************)
EXTENDS EDIDDecoder, MC_EDIDBase, MC_DisplayIDRecords

MCDecoderHeaderInputs      == {HeaderGood}
MCDecoderBasicInputs       == {BasicDigital}
MCDecoderEstablishedInputs == {EstablishedSome}
MCDecoderStandardInputs    == {StandardMixed}
MCDecoderDescriptorInputs  == <<{DTD1080(\h1e)}, {DTD1080(\h1a)}, {RangePadded}, {NameDesc}>>
MCDecoderChecksumCorrect   == {TRUE}
\* The DisplayID records with a correct record checksum, and one without.
MCDisplayIDRecords ==
  UNION {{Record(bc, l, so, TRUE) : bc \in {Len(l), 121, 122}, so \in BOOLEAN} :
         l \in BlockLists}
  \cup {Record(121, FullSection, TRUE, FALSE)}
MCDecoderExtensionInputs   == MCDisplayIDRecords \cup MCExtensionInputs
=============================================================================
