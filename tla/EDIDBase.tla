------------------------------ MODULE EDIDBase ------------------------------
(***************************************************************************)
(* decodeEDID of format/edid/edid.go: one decode pass over a buffer.       *)
(*                                                                         *)
(* The decoder walks the base record section by section, each section one *)
(* action, then the declared extension records one per action.  The bytes *)
(* of a section are the input of its action: it appends them to buf (the   *)
(* decoder never reads ahead of the section it decodes) and chooses them   *)
(* from a small set given for that section.  A failed assertion, or a      *)
(* frame that runs past the end of the buffer, ends the pass in "failed".  *)
(***************************************************************************)
EXTENDS EDIDExtCEA, EDIDMappers, FiniteSets

CONSTANTS
  HeaderInputs,        \* 20-byte sequences for bytes 0-19
  BasicInputs,         \* 5-byte sequences for bytes 20-24
  ChromaInputs,        \* 10-byte sequences for bytes 25-34
  EstablishedInputs,   \* 3-byte sequences for bytes 35-37
  StandardInputs,      \* 16-byte sequences for bytes 38-53
  DescriptorInputs,    \* slot 1..4 -> a set of 18-byte sequences
  ExtensionCounts,     \* values of byte 126
  ChecksumCorrect,     \* whether byte 127 is the right checksum
  ExtensionInputs      \* 128-byte extension records; <<>>: the buffer ends

VARIABLES buf, pos, step, slot, extIndex, extCount, revision, contFreq,
          aspectRatio, fields

vars == <<buf, pos, step, slot, extIndex, extCount, revision, contFreq,
          aspectRatio, fields>>

Steps == {"header", "basic", "chroma", "established", "standard",
          "descriptor", "checksum", "extension", "done", "failed"}

Init ==
  /\ buf = <<>>
  /\ pos = 0
  /\ step = "header"
  /\ slot = 1
  /\ extIndex = 0
  /\ extCount = 0
  /\ revision = 0
  /\ contFreq = FALSE
  /\ aspectRatio = Undefined
  /\ fields = <<>>

Magic == <<\h00, \hff, \hff, \hff, \hff, \hff, \hff, \h00>>

\* d.FieldU16BE("manufacturer_id"): bytes 8-9 read big-endian, although
\* decodeEDID has set the decoder little-endian.
ManufacturerIdLE(b) == BitsLE(b, 64, 16)
ManufacturerId(b) == Bits(b, 64, 16)

\* ec.revision: the header's byte 19, kept in the edidContext that
\* decodeEDID hands by pointer to the later sections.
SavedRevisionByValue(b) == 0
SavedRevision(b) == ByteAt(b, 19)

(***************************************************************************)
(* decodeFileHeader (bytes 0-19): the asserted magic, the identifiers, the *)
(* week, whose value 0xff turns the next byte into a model year, and the   *)
(* revision kept in the edidContext.                                       *)
(***************************************************************************)
DecodeFileHeader ==
  /\ step = "header"
  /\ \E bytes \in HeaderInputs :
       LET b == buf \o bytes
           week == ByteAt(b, 16)
       IN  /\ buf' = b
           /\ IF BytesRange(b, 0, 8) = Magic
              THEN /\ fields' = fields \o <<RawField("identifier", 0, 64)>> \o
                       <<Mapped(Field("manufacturer_id", 64, 16, ManufacturerId(b)), <<ManufacturerMapper>>)>> \o
                       Layout(b, 80, <<<<"manufacturer_product_code", 16>>,
                                       <<"serial_number", 32>>, <<"week_of_manufacture", 8>>,
                                       <<IF week = \hff THEN "year_of_model"
                                         ELSE "year_of_manufacture", 8, <<YearMapper>>>>,
                                       <<"edid_version", 8>>, <<"edid_revision", 8>>>>)
                   /\ revision' = SavedRevision(b)
                   /\ pos' = 160
                   /\ step' = "basic"
              ELSE /\ step' = "failed"
                   /\ UNCHANGED <<fields, revision, pos>>
  /\ UNCHANGED <<slot, extIndex, extCount, contFreq, aspectRatio>>

(***************************************************************************)
(* decodeBasicDisplayParameters (bytes 20-24): the input-type bit selects  *)
(* the digital or the analog layout of byte 20; the screen sizes give the  *)
(* aspect ratio; the revision selects the name of bit 1 of byte 24.        *)
(***************************************************************************)
DecodeBasicDisplayParameters ==
  /\ step = "basic"
  /\ \E bytes \in BasicInputs :
       LET b == buf \o bytes
           digital == Bits(b, 160, 1) = 1
           inputLayout ==
             IF digital
             THEN <<<<"input_type", 1>>, <<"bit_depth", 3>>, <<"video_interface", 4>>>>
             ELSE <<<<"input_type", 1>>, <<"white_sync_leves_relative_to_blank", 2>>,
                    <<"blank_to_black_setup_expected", 1>>, <<"separate_sync_supported", 1>>,
                    <<"composite_sync_on_hsync_supported", 1>>,
                    <<"sync_on_green_supported", 1>>, <<"serration_on_vsync_supported", 1>>>>
           hScreenSize == ByteAt(b, 21)
           vScreenSize == ByteAt(b, 22)
       IN  /\ buf' = b
           /\ aspectRatio' \in AspectRatioField(hScreenSize, vScreenSize)
           /\ fields' = fields \o Layout(b, 160, inputLayout) \o
                Layout(b, 168, <<<<"horizontal_screen_size", 8>>, <<"vertical_screen_size", 8>>>>) \o
                <<Field("aspect_ratio", 184, 0, 0)>> \o
                Layout(b, 184, <<<<"gamma", 8>>, <<"dpms_standby_supported", 1>>,
                                 <<"dpms_suspend_supported", 1>>, <<"dpms_active_off_supported", 1>>,
                                 <<"display_type", 2>>, <<"standard_srgb_color_space", 1>>,
                                 <<IF revision \in {3, 4} THEN "preferred_timing_block_includes_npf_rr"
                                   ELSE "preferred_timing_mode_in_block_1", 1>>,
                                 <<"continuous_frequency_supported", 1>>>>)
           /\ contFreq' = (Bits(b, 199, 1) = 1)
  /\ pos' = 200
  /\ step' = "chroma"
  /\ UNCHANGED <<slot, extIndex, extCount, revision>>

(***************************************************************************)
(* decodeChromaticityCoordinates (bytes 25-34): eight 10-bit coordinates,  *)
(* the low 2 bits packed four to a byte, the high 8 bits one per byte;     *)
(* each is emitted over the whole 10 bytes with value (low + high<<2), the *)
(* numerator of its float value over 1024.                                 *)
(***************************************************************************)
ChromaNames == <<"red_x", "red_y", "green_x", "green_y",
                 "blue_x", "blue_y", "white_x", "white_y">>

\* Coordinate k: its low 2 bits are the k-th pair of bytes 25-26, its high
\* 8 bits byte 26 + k; the value is low + (high << 2).
ChromaValueReversed(b, k) == Bits(b, 200 + 2 * (8 - k), 2) + Bits(b, 216 + 8 * (k - 1), 8) * 4
ChromaValue(b, k) == Bits(b, 200 + 2 * (k - 1), 2) + Bits(b, 216 + 8 * (k - 1), 8) * 4

DecodeChromaticityCoordinates ==
  /\ step = "chroma"
  /\ \E bytes \in ChromaInputs :
       LET b == buf \o bytes
       IN  /\ buf' = b
           /\ fields' = fields \o
                [k \in 1..8 |-> Field(ChromaNames[k], 200, 80, ChromaValue(b, k))]
  /\ pos' = 280
  /\ step' = "established"
  /\ UNCHANGED <<slot, extIndex, extCount, revision, contFreq, aspectRatio>>

(***************************************************************************)
(* decodeEstablishedTimings (bytes 35-37) and mapTimings: one "timing"     *)
(* field per set bit, its value the bit index, emitted over its byte.      *)
(***************************************************************************)
MapTimingsMSB(flags, firstBit, sms) ==
  SelectSeq([i \in 1..8 |-> Mapped(Field("timing", firstBit, 8, i - 1), sms)],
            LAMBDA f : (flags \div 2^(7 - f.val)) % 2 = 1)
MapTimings(flags, firstBit, sms) ==
  SelectSeq([i \in 1..8 |-> Mapped(Field("timing", firstBit, 8, i - 1), sms)],
            LAMBDA f : (flags \div 2^f.val) % 2 = 1)

DecodeEstablishedTimings ==
  /\ step = "established"
  /\ \E bytes \in EstablishedInputs :
       LET b == buf \o bytes
       IN  /\ buf' = b
           /\ fields' = fields \o MapTimings(ByteAt(b, 35), 280, <<EstablishedTimingsIMapper>>)
                               \o MapTimings(ByteAt(b, 36), 288, <<EstablishedTimingsIIMapper>>)
                               \o MapTimings(ByteAt(b, 37), 296, <<ManufacturerTimingsMapper>>)
  /\ pos' = 304
  /\ step' = "standard"
  /\ UNCHANGED <<slot, extIndex, extCount, revision, contFreq, aspectRatio>>

(***************************************************************************)
(* decodeStandardTimings (bytes 38-53): two little-endian U64 reads, each  *)
(* cut into four slots by block >> (8k) & 0xf.  Since the shift is a whole *)
(* number of bytes and the mask below 256, that is byte k of the U64 (its  *)
(* k-th least significant) masked with 0xf.  Slot blockIdx = 3 - i is      *)
(* emitted at fStart = firstBit + 16*blockIdx from first = byte 2i+1 and   *)
(* second = byte 2i; a slot whose first and second are both 1 is skipped.  *)
(***************************************************************************)
TimingBlock(b, firstBit) ==
  LET U64Byte(k) == ByteAt(b, firstBit \div 8 + k)
      Slot(blockIdx) ==
        LET i      == 3 - blockIdx
            fStart == firstBit + blockIdx * 16
            sStart == fStart + 8
            first  == U64Byte(2 * i + 1) % 16
            second == U64Byte(2 * i) % 16
        IN  IF first # 1 \/ second # 1
            THEN <<Field("timing", fStart, 16, 0),
                   Mapped(Field("horizontal_adressable_pixels", fStart, 8, first),
                          <<HorizontalAddressablePixelsMapper>>),
                   Mapped(Field("aspect_ratio", sStart, 2, (second \div 64) % 4),
                          <<StandardAspectMapper>>),
                   Mapped(Field("refresh_rate", sStart + 2, 6, second % 64),
                          <<RefreshRateMapper>>)>>
            ELSE <<>>
  IN  Slot(0) \o Slot(1) \o Slot(2) \o Slot(3)

DecodeStandardTimings ==
  /\ step = "standard"
  /\ \E bytes \in StandardInputs :
       LET b == buf \o bytes
       IN  /\ buf' = b
           /\ fields' = fields \o TimingBlock(b, 304) \o TimingBlock(b, 368)
  /\ pos' = 432
  /\ step' = "descriptor"
  /\ UNCHANGED <<slot, extIndex, extCount, revision, contFreq, aspectRatio>>

(***************************************************************************)
(* The four DetailedDescriptor calls of the "detailed_timings" struct,     *)
(* one per action: slot k is bytes 54 + 18(k-1) .. 71 + 18(k-1).          *)
(***************************************************************************)
SlotStart(k) == 54 + 18 * (k - 1)
SlotName(k) == IF k = 1 THEN "preferred_timing_mode" ELSE "detailed_timing_descriptor"

DecodeDescriptorSlot ==
  /\ step = "descriptor"
  /\ \E bytes \in DescriptorInputs[slot] :
       LET b == buf \o bytes
           r == DetailedDescriptor(b, SlotStart(slot), SlotName(slot), slot, TRUE)
       IN  /\ buf' = b
           /\ IF r.fatal
              THEN /\ step' = "failed"
                   /\ UNCHANGED <<fields, pos, slot>>
              ELSE /\ fields' = fields \o r.fields
                   /\ pos' = 8 * (SlotStart(slot) + SlotBytes)
                   /\ slot' = slot + 1
                   /\ step' = IF slot = 4 THEN "checksum" ELSE "descriptor"
  /\ UNCHANGED <<extIndex, extCount, revision, contFreq, aspectRatio>>

(***************************************************************************)
(* extension_count (byte 126) and the checksum (byte 127), validated       *)
(* against uint8(0 - CalcSum(bytes 0..126)); a mismatch is recorded on the *)
(* field and decoding goes on.                                             *)
(***************************************************************************)
DecodeChecksum ==
  /\ step = "checksum"
  /\ \E n \in ExtensionCounts :
     \E ck \in {IF correct THEN Complement(Append(buf, n)) ELSE (Complement(Append(buf, n)) + 1) % 256 :
               correct \in ChecksumCorrect} :
       LET b == Append(Append(buf, n), ck)
       IN  /\ buf' = b
           /\ extCount' = n
           /\ fields' = fields \o <<Field("extension_count", 1008, 8, n),
                                   Validated("checksum", 1016, 8, ck, RecordChecksum(b, 0))>>
           /\ step' = IF n > 0 THEN "extension" ELSE "done"
  /\ pos' = 1024
  /\ UNCHANGED <<slot, extIndex, revision, contFreq, aspectRatio>>

(***************************************************************************)
(* One iteration of the extensions loop: a 128-byte frame handed to        *)
(* d.TryFieldFormat over the extension group; when no extension format     *)
(* decodes it, the frame becomes a raw "unknown_extension".  The group's   *)
(* formats assert their tag first; the records given here carry no         *)
(* DisplayID tag (0x70), so the CEA-861 decoder is the only one that can   *)
(* succeed.                                                                *)
(***************************************************************************)
\* The loop "for range ext" ends after iteration extCount.
LastExtensionOff(i) == i = extCount
LastExtension(i) == i + 1 = extCount

\* The fields a frame leaves: the format's, or, when d.TryFieldFormat
\* returns no value, the whole frame as a raw unknown_extension.
ExtensionFieldsNoFallback(r, p) == r.fields
ExtensionFields(r, p) ==
  IF r.fatal THEN <<RawField("unknown_extension", p, 8 * RecordBytes)>> ELSE r.fields

DecodeExtension ==
  /\ step = "extension"
  /\ \E bytes \in ExtensionInputs \ {<<>>} :
       LET b == buf \o bytes
           r == DecodeCEAExtension(b, pos \div 8)
       IN  /\ buf' = b
           /\ fields' = fields \o ExtensionFields(r, pos)
  /\ pos' = pos + 8 * RecordBytes
  /\ extIndex' = extIndex + 1
  /\ step' = IF LastExtension(extIndex) THEN "done" ELSE "extension"
  /\ UNCHANGED <<slot, extCount, revision, contFreq, aspectRatio>>

\* The buffer ends before the next declared extension: d.FramedFn cannot
\* take 128 bytes and the whole decode fails.
ExtensionOutOfBounds ==
  /\ step = "extension"
  /\ <<>> \in ExtensionInputs
  /\ step' = "failed"
  /\ UNCHANGED <<buf, pos, slot, extIndex, extCount, revision, contFreq, aspectRatio, fields>>

\* The pass has returned or failed; nothing changes any more.
Terminated ==
  /\ step \in {"done", "failed"}
  /\ UNCHANGED vars

Next ==
  \/ DecodeFileHeader
  \/ DecodeBasicDisplayParameters
  \/ DecodeChromaticityCoordinates
  \/ DecodeEstablishedTimings
  \/ DecodeStandardTimings
  \/ DecodeDescriptorSlot
  \/ DecodeChecksum
  \/ DecodeExtension
  \/ ExtensionOutOfBounds
  \/ Terminated

Spec == Init /\ [][Next]_vars

-----------------------------------------------------------------------------
(***************************************************************************)
(* Properties.                                                             *)
(***************************************************************************)
\* The symbol's type follows the field: letter codes, a number, or a string
\* (NoSym when no mapper named the value).
SymType(name) ==
  CASE name = "manufacturer_id" -> [1..3 -> 64..95]
    [] name \in {"year_of_model", "year_of_manufacture",
                 "horizontal_adressable_pixels", "refresh_rate"} -> Int
    [] OTHER -> STRING

FieldOK(f) ==
  f \in [name : STRING, first : Nat, len : Nat, val : Int, sym : SymType(f.name), ok : BOOLEAN]

TypeOK ==
  /\ buf \in Seq(Byte)
  /\ pos \in Nat /\ pos <= 8 * Len(buf)
  /\ step \in Steps
  /\ slot \in 1..5
  /\ extIndex \in 0..extCount
  /\ extCount \in Byte
  /\ revision \in Byte
  /\ contFreq \in BOOLEAN
  /\ aspectRatio.kind \in {"ratio", "undefined", "float"}
  /\ \A i \in 1..Len(fields) : FieldOK(fields[i])

\* Index sets of the emitted fields.
FieldsNamed(N) == {i \in 1..Len(fields) : fields[i].name \in N}
HasField(name, first) == \E i \in FieldsNamed({name}) : fields[i].first = first

\* The byte sum of the 128-byte record at byte offset r, taken mod 256.
RecordSum(r) == ByteSum(BytesRange(buf, r, RecordBytes)) % 256

(***************************************************************************)
(* The checksum of every record (the base record's byte 127, and byte 127  *)
(* of every CEA-861 extension) passes validation exactly when the sum of   *)
(* all 128 bytes of that record is 0 mod 256, as the spec states the       *)
(* invariant; the code gets there through a uint8 running sum (CalcSum)    *)
(* and a uint8 subtraction converted to uint64.                            *)
(***************************************************************************)
ChecksumVerdict ==
  \A i \in FieldsNamed({"checksum"}) :
    fields[i].ok <=> RecordSum(fields[i].first \div 8 - 127) = 0

(***************************************************************************)
(* When the pass completes, every declared extension record has been       *)
(* consumed as exactly one 128-byte unit: the cursor stands after the last *)
(* one, and each window starts with exactly one entry, either the decoded  *)
(* extension's tag or an opaque unknown_extension (the TryFieldFormat      *)
(* fallback of decodeEDID).                                                *)
(***************************************************************************)
ExtensionsAccounted ==
  step = "done" =>
    /\ pos = 8 * RecordBytes * (1 + extCount)
    /\ \A k \in 1..extCount :
         Cardinality({i \in FieldsNamed({"tag", "unknown_extension"}) :
                        fields[i].first = 8 * RecordBytes * k}) = 1

\* A CEA-861 extension (tag 0x02) whose descriptor offset d lies in 4..91
\* and whose two embedded slots hold detailed timings: decodeCEAExtension
\* reads it to its checksum at byte 127 without a decode error.
CEAWellFormed(e) ==
  LET d == ByteAt(buf, e + 2)
  IN  /\ ByteAt(buf, e) = \h02
      /\ d \in 4..91
      /\ Bits(buf, 8 * (e + d), 16) # 0
      /\ Bits(buf, 8 * (e + d + 18), 16) # 0

(***************************************************************************)
(* The manufacturer letters of a decoded header are those the EDID layout  *)
(* packs into bytes 8-9 (spec 4.2, and the known-result test of spec 8):   *)
(* byte 8 bits 6-2, byte 8 bits 1-0 with byte 9 bits 7-5, and byte 9 bits  *)
(* 4-0, each a letter code counting "A" as 1.  The code gets them from one *)
(* 16-bit FieldU16BE read, in a decoder decodeEDID made little-endian, and *)
(* from fiveBitLetter's offset; they are the field's symbol.               *)
(***************************************************************************)
RefManufacturer ==
  LET b8 == ByteAt(buf, 8)
      b9 == ByteAt(buf, 9)
      letter(code) == 65 + (code - 1)
  IN  <<letter((b8 \div 4) % 32), letter((b8 % 4) * 8 + b9 \div 32), letter(b9 % 32)>>

ManufacturerIdRoundTrip ==
  \A i \in FieldsNamed({"manufacturer_id"}) : fields[i].sym = RefManufacturer

(***************************************************************************)
(* Each established-timing flag that is set in bytes 35-37 is reported     *)
(* once, over its byte, as the mode the EDID layout assigns to its bit     *)
(* (spec 4.3 #9), and no other is: the layout lists the modes from bit 7   *)
(* down, while mapTimings walks the bits from bit 0 up and looks them up   *)
(* in its three tables.                                                    *)
(***************************************************************************)
EstablishedTimingsLayout ==
  << <<"720x400@70Hz", "720x400@88Hz", "640x480@60Hz", "640x480@67Hz",
       "640x480@72Hz", "640x480@75Hz", "800x600@56Hz", "800x600@60Hz">>,
     <<"800x600@72Hz", "800x600@75Hz", "832x624@75Hz", "1024x768@87Hz(I)",
       "1024x768@60Hz", "1024x768@70Hz", "1024x768@75Hz", "1280x1024@75Hz">>,
     <<"1152x870@75Hz", "reserved", "reserved", "reserved",
       "reserved", "reserved", "reserved", "reserved">> >>

EstablishedTimingsNamed ==
  Len(buf) >= 38 =>
    \A k \in 1..3 :
      LET flags == ByteAt(buf, 34 + k)
          set   == {j \in 1..8 : (flags \div 2^(8 - j)) % 2 = 1}
          emitted == {i \in FieldsNamed({"timing"}) : fields[i].first = 8 * (34 + k)}
      IN  /\ Cardinality(emitted) = Cardinality(set)
          /\ {fields[i].sym : i \in emitted} = {EstablishedTimingsLayout[k][j] : j \in set}

(***************************************************************************)
(* Bit 1 of byte 24 is named after the revision the header read in byte   *)
(* 19, two sections earlier: preferred_timing_block_includes_npf_rr for    *)
(* EDID 1.3 and 1.4, preferred_timing_mode_in_block_1 otherwise (spec 4.2; *)
(* the edidContext carries the revision from decodeFileHeader to           *)
(* decodeBasicDisplayParameters).                                          *)
(***************************************************************************)
RevisionGatesLabel ==
  \A i \in FieldsNamed({"preferred_timing_block_includes_npf_rr",
                        "preferred_timing_mode_in_block_1"}) :
    /\ fields[i].first = 198
    /\ (fields[i].name = "preferred_timing_block_includes_npf_rr" <=> ByteAt(buf, 19) \in {3, 4})

(***************************************************************************)
(* Split fields round-trip (spec, testable properties): a value whose low  *)
(* and high parts lie in different bytes equals the value assembled from   *)
(* the EDID layout's bit positions.  RefDTD gives them for the detailed    *)
(* timing descriptor at byte s, with the horizontal back porch the spec    *)
(* derives as blank - front porch - sync width, in uint64 (an inconsistent *)
(* descriptor wraps, shown here as a negative value); RefChroma the 10-bit *)
(* chromaticity coordinates (high 8 bits in byte 26 + k, low 2 bits packed *)
(* in bytes 25-26 from the most significant pair down).                   *)
(***************************************************************************)
RefDTD(s) ==
  LET y(o) == ByteAt(buf, s + o)
  IN  [pixel_clock                  |-> y(0) + 256 * y(1),
       horizontal_addressable_video |-> y(2) + 256 * (y(4) \div 16),
       horizontal_blanking          |-> y(3) + 256 * (y(4) % 16),
       vertical_addressable_video   |-> y(5) + 256 * (y(7) \div 16),
       vertical_blanking            |-> y(6) + 256 * (y(7) % 16),
       horizontal_front_porch       |-> y(8) + 256 * (y(11) \div 64),
       horizontal_sync_pulse_width  |-> y(9) + 256 * ((y(11) \div 16) % 4),
       horizontal_back_porch        |-> (y(3) + 256 * (y(4) % 16))
                                        - (y(8) + 256 * (y(11) \div 64))
                                        - (y(9) + 256 * ((y(11) \div 16) % 4)),
       vertical_front_porch         |-> y(10) \div 16 + 16 * ((y(11) \div 4) % 4),
       vertical_sync_pulse_width    |-> (y(10) % 16) + 16 * (y(11) % 4),
       horizontal_addressable_video_image_size |-> y(12) + 256 * (y(14) \div 16),
       vertical_addressable_video_image_size   |-> y(13) + 256 * (y(14) % 16)]

\* Every field named in N of a detailed timing descriptor (the twelve
\* fields after its pixel_clock) equals its reference value.
DTDRoundTrip(N) ==
  \A i \in FieldsNamed({"pixel_clock"}) :
    \A j \in (i + 1)..(i + 12) :
      j <= Len(fields) /\ fields[j].name \in N =>
        fields[j].val = RefDTD(fields[i].first \div 8)[fields[j].name]

DTDSizesRoundTrip ==
  DTDRoundTrip({"horizontal_addressable_video", "horizontal_blanking",
                "vertical_addressable_video", "vertical_blanking",
                "horizontal_front_porch", "horizontal_sync_pulse_width",
                "horizontal_back_porch",
                "horizontal_addressable_video_image_size",
                "vertical_addressable_video_image_size"})

(***************************************************************************)
(* The packed flags byte 17 of every detailed timing descriptor decodes as *)
(* the EDID layout (spec 4.4) packs it: bit 7 is the interlace flag; bits  *)
(* 6-5 with bit 0 give the stereo mode; bits 4-3 give the sync type, and   *)
(* they alone decide whether bit 2 is the vsync polarity (digital          *)
(* separate) or the serration flag, and bit 1 the hsync polarity (digital) *)
(* or the sync-on-RGB choice.  The code reads the byte in two passes: one  *)
(* 1-bit and one 7-bit field, then d.SeekRel(-5) and a 4-bit re-read.      *)
(***************************************************************************)
RefStereo(bits65, bit0) ==
  CASE bits65 = 0 -> "normal"
    [] bits65 = 1 -> IF bit0 = 0 THEN "field_seq_right" ELSE "2way_right"
    [] bits65 = 2 -> IF bit0 = 0 THEN "field_seq_left" ELSE "2way_left"
    [] bits65 = 3 -> IF bit0 = 0 THEN "4way" ELSE "side_by_side"

DTDFlagsByteDecoded ==
  \A i \in FieldsNamed({"pixel_clock"}) :
    LET y17  == ByteAt(buf, fields[i].first \div 8 + 17)
        type == (y17 \div 8) % 4
    IN  /\ fields[i + 15].val = y17 \div 128
        /\ fields[i + 16].sym = RefStereo((y17 \div 32) % 4, y17 % 2)
        /\ fields[i + 17].val = type * 4
        /\ fields[i + 18].name = IF type = 3 THEN "vsync_polarity" ELSE "with_serrations"
        /\ fields[i + 19].name = IF type \in {2, 3} THEN "hsync_polarity" ELSE "sync_on"

(***************************************************************************)
(* The pixel clock of every detailed timing descriptor, in the base record *)
(* and in a CEA-861 extension, is the little-endian 16-bit value of its    *)
(* first two bytes (spec 4.4; the CEA record embeds the same 18-byte       *)
(* layout).  decodeCEAExtension runs as its own format, whose decoder does *)
(* not set d.Endian as decodeEDID does.                                    *)
(***************************************************************************)
DTDPixelClockRoundTrip ==
  \A i \in FieldsNamed({"pixel_clock"}) :
    fields[i].val = RefDTD(fields[i].first \div 8).pixel_clock

(***************************************************************************)
(* The vertical front porch and sync width (6 bits: a nibble of byte 10    *)
(* and two bits of byte 11) round-trip like the other split fields.        *)
(***************************************************************************)
DTDVerticalPorchRoundTrip ==
  DTDRoundTrip({"vertical_front_porch", "vertical_sync_pulse_width"})

RefChroma(k) ==
  ByteAt(buf, 26 + k) * 4 + ((ByteAt(buf, 25 + (k - 1) \div 4) \div 4^(3 - ((k - 1) % 4))) % 4)

ChromaticityRoundTrip ==
  \A k \in 1..8 : \A i \in FieldsNamed({ChromaNames[k]}) : fields[i].val = RefChroma(k)

(***************************************************************************)
(* Every standard timing slot (bytes 38 + 2k, 39 + 2k) is reported at its  *)
(* own address with its own bytes: the slot is skipped exactly when both   *)
(* bytes are 0x01, and otherwise its horizontal_adressable_pixels field is *)
(* the first byte, its aspect_ratio the top two bits and its refresh_rate  *)
(* the low six bits of the second byte.                                    *)
(***************************************************************************)
StandardTimingsFaithful ==
  Len(buf) >= 54 =>
    \A k \in 0..7 :
      LET a == 38 + 2 * k
          b1 == ByteAt(buf, a)
          b2 == ByteAt(buf, a + 1)
      IN  /\ (b1 = 1 /\ b2 = 1) <=> ~HasField("horizontal_adressable_pixels", 8 * a)
          /\ \A i \in FieldsNamed({"horizontal_adressable_pixels"}) :
               fields[i].first = 8 * a =>
                 /\ fields[i].val = b1
                 /\ fields[i].sym = (b1 + 31) * 8
                 /\ fields[i + 1].val = b2 \div 64
                 /\ fields[i + 2].val = b2 % 64
                 /\ fields[i + 2].sym = (b2 % 64) + 60

(***************************************************************************)
(* The sync-signal bits of a detailed timing descriptor are reported as    *)
(* the one-bit values their mappers (negative/positive, false/true,        *)
(* green_only/rgb) are defined on.                                         *)
(***************************************************************************)
SyncFlagsInDomain ==
  \A i \in FieldsNamed({"vsync_polarity", "with_serrations", "hsync_polarity", "sync_on"}) :
    fields[i].val \in {0, 1}

(***************************************************************************)
(* A Display Range Limits descriptor whose video timing support flags      *)
(* announce timing data (0x02 secondary GTF, 0x04 CVT) instead of padding  *)
(* is decoded: once its slot is in the buffer, its flags field is emitted. *)
(***************************************************************************)
RangeWithTimingData(s) ==
  /\ BytesRange(buf, s, 4) = <<0, 0, 0, \hfd>>
  /\ ByteAt(buf, s + 10) \in {\h02, \h04}

RangeLimitsDecoded ==
  \A k \in 1..4 :
    Len(buf) >= SlotStart(k) + SlotBytes /\ RangeWithTimingData(SlotStart(k)) =>
      HasField("video_timing_support_flags", 8 * (SlotStart(k) + 10))

(***************************************************************************)
(* Every extension record the pass has consumed reports its checksum       *)
(* result, whatever its tag (spec: an unknown extension tag is consumed as *)
(* an opaque block "and report[s] its checksum result").                   *)
(***************************************************************************)
ExtensionChecksumReported ==
  \A k \in 1..extIndex : HasField("checksum", 8 * (RecordBytes * k + 127))

(***************************************************************************)
(* A fatal error inside one chained extension record aborts only that      *)
(* record, not the decode of the buffer (spec section 7): a pass that has  *)
(* finished the base record (pos 1024 and beyond) never ends in "failed".  *)
(* The extensions loop of decodeEDID calls d.FramedFn(128*8) outside the   *)
(* TryFieldFormat that absorbs errors.                                     *)
(***************************************************************************)
ExtensionFailureContained ==
  step = "failed" => pos < 8 * RecordBytes
=============================================================================
