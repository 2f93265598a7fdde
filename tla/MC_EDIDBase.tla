---------------------------- MODULE MC_EDIDBase ----------------------------
(***************************************************************************)
(* Inputs for EDIDBase: the bytes of each section of a real-shaped EDID    *)
(* (a 1920x1080 DisplayPort monitor) and the variants that take the        *)
(* decoder down its other branches.                                        *)
(***************************************************************************)
EXTENDS EDIDBase

Zeros(n) == [i \in 1..n |-> 0]

\* Bytes 0-19: magic, "DEL", product, serial, week 11 of 2015, EDID 1.4;
\* a model-year header (week 0xff) of revision 3; an EDID 1.2 header of
\* "SAM"; a corrupted magic.
HeaderGood      == <<\h00, \hff, \hff, \hff, \hff, \hff, \hff, \h00, \h10, \hac, \h40, \ha0,
                     \h4c, \h4b, \h30, \h31, \h0b, \h19, \h01, \h04>>
HeaderModelYear == <<\h00, \hff, \hff, \hff, \hff, \hff, \hff, \h00, \h10, \hac, \h40, \ha0,
                     \h4c, \h4b, \h30, \h31, \hff, \h19, \h01, \h03>>
HeaderRevision2 == <<\h00, \hff, \hff, \hff, \hff, \hff, \hff, \h00, \h4c, \h2d, \h40, \ha0,
                     \h4c, \h4b, \h30, \h31, \h0b, \h19, \h01, \h02>>
HeaderBadMagic  == <<\h00, \hff, \hff, \hff, \hff, \hff, \hff, \h01, \h10, \hac, \h40, \ha0,
                     \h4c, \h4b, \h30, \h31, \h0b, \h19, \h01, \h04>>

\* Bytes 20-24: digital 10-bit DisplayPort 60x34 cm; analog with no size.
BasicDigital == <<\hb5, \h3c, \h22, \h78, \h3a>>
BasicAnalog  == <<\h0e, \h00, \h00, \h78, \hee>>

Chroma == <<\hee, \h95, \ha3, \h54, \h4c, \h99, \h26, \h0f, \h50, \h54>>

EstablishedSome == <<\h21, \h08, \h00>>
EstablishedAll  == <<\hff, \hff, \h80>>

StandardUnused == [i \in 1..16 |-> 1]
\* 1920 16:9 60Hz, 1280 16:10 60Hz, 1280 4:3 60Hz, then unused slots.
StandardMixed  == <<\hd1, \hc0, \h81, \h80, \h81, \h40, \h01, \h01,
                    \h01, \h01, \h01, \h01, \h01, \h01, \h01, \h01>>

\* Detailed timing 1920x1080@60 (148.5 MHz), digital separate sync with
\* both polarities positive (0x1e) or vsync negative (0x1a).
DTD1080(flags) == <<\h02, \h3a, \h80, \h18, \h71, \h38, \h2d, \h40, \h58, \h2c,
                    \h45, \h00, \h56, \h50, \h21, \h00, \h00, flags>>
\* The same mode with a vertical front porch of 20 lines (high bits 01),
\* interlaced, in 2-way interleaved stereo (right image on even lines).
DTDPorch20 == <<\h02, \h3a, \h80, \h18, \h71, \h38, \h2d, \h40, \h58, \h2c,
                \h45, \h04, \h56, \h50, \h21, \h00, \h00, \hbb>>
\* The same mode with a horizontal blanking of 24 pixels, less than its
\* front porch and sync pulse (88 + 44): an inconsistent descriptor, with
\* analog composite sync and field-sequential stereo (left).
DTDTightBlank == <<\h02, \h3a, \h80, \h18, \h70, \h38, \h2d, \h40, \h58, \h2c,
                   \h45, \h00, \h56, \h50, \h21, \h00, \h00, \h46>>

\* Display descriptors: product name, range limits with padding (flags
\* 0x01), range limits announcing CVT data (flags 0x04, EDID 1.4), dummy,
\* and one whose three leading bytes are not zero.
NameDesc    == <<0, 0, 0, \hfc, 0, \h44, \h45, \h4c, \h4c, \h20, \h55, \h32,
                 \h34, \h31, \h35, \h0a, \h20, \h20>>
RangePadded == <<0, 0, 0, \hfd, 0, \h38, \h4c, \h1e, \h53, \h11, \h01,
                 \h0a, \h20, \h20, \h20, \h20, \h20, \h20>>
RangeCVT    == <<0, 0, 0, \hfd, 0, \h32, \h4b, \h1e, \h53, \h15, \h04,
                 \h11, \h00, \hf0, \hf8, \h38, \hf0, \h3c>>
DummyDesc   == <<0, 0, 0, \h10, 0>> \o Zeros(13)
BadIdentDesc == <<0, 0, 1, \hfc, 0>> \o Zeros(13)

\* Extension records: CEA-861 with data blocks up to d = 12 and two
\* detailed timings; the same with a wrong checksum; CEA-861 with d = 0
\* (no descriptors); a block map (tag 0xf0); and the end of the buffer.
CEABody(d) == <<\h02, \h03, d, \hf0>> \o
              (IF d = 12 THEN <<\h47, \h90, \h04, \h03, \h01, \h20, \h22, \h10>> ELSE <<>>) \o
              DTD1080(\h1e) \o DTD1080(\h1a) \o Zeros(127 - d - 36)
CEAGood     == WithChecksum(CEABody(12))
CEABadSum   == WithBadChecksum(CEABody(4))
CEANoDesc   == WithChecksum(<<\h02, \h03, \h00, \h00>> \o Zeros(123))
BlockMap    == WithChecksum(<<\hf0>> \o Zeros(126))

MCHeaderInputs      == {HeaderGood, HeaderModelYear, HeaderRevision2, HeaderBadMagic}
MCBasicInputs       == {BasicDigital, BasicAnalog}
MCChromaInputs      == {Chroma}
MCEstablishedInputs == {EstablishedSome, EstablishedAll}
MCStandardInputs    == {StandardUnused, StandardMixed}
MCDescriptorInputs  == <<{DTD1080(\h1e), DTDPorch20, DTDTightBlank}, {DTD1080(\h1a), RangeCVT},
                         {RangePadded, NameDesc}, {NameDesc, DummyDesc, BadIdentDesc}>>
MCExtensionCounts   == {0, 1, 2}
MCChecksumCorrect   == BOOLEAN
MCExtensionInputs   == {CEAGood, CEABadSum, CEANoDesc, BlockMap, <<>>}

=============================================================================
