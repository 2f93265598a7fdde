--------------------------- MODULE EDIDExtDisplayID ---------------------------
(***************************************************************************)
(* decodeDisplayIDExtension of the DisplayID extension format, run by      *)
(* d.TryFieldFormat on one 128-byte extension record, with the positions   *)
(* of its own buffer (bit 0 is the record's tag byte).                     *)
(*                                                                         *)
(* The record is chosen whole from Records; the steps are the tag, the     *)
(* DisplayID section header, one iteration of the data-block loop per      *)
(* step, the section trailer (padding and section checksum) and the        *)
(* record checksum.  decodeDisplayID runs in d.FramedFn(126*8) from bit 8, *)
(* so a read past bit 1016 fails; any failure makes d.TryFieldFormat       *)
(* return no value, and the caller emits the record as a raw               *)
(* unknown_extension instead of the fields decoded so far.                 *)
(***************************************************************************)
EXTENDS EDIDBytes

CONSTANT Records   \* 128-byte extension records

VARIABLES buf, pos, phase, byteCount, fields

vars == <<buf, pos, phase, byteCount, fields>>

Phases == {"tag", "header", "blocks", "trailer", "checksum", "done"}

\* The end of the FramedFn(126*8) frame of decodeDisplayID, in bits.
FrameEnd == 8 * (1 + 126)

Init ==
  /\ buf = <<>>
  /\ pos = 0
  /\ phase = "tag"
  /\ byteCount = 0
  /\ fields = <<>>

\* A decode error: the extension becomes the raw unknown_extension of the
\* caller's fallback (decodeEDID, d.FieldRawLen("unknown_extension")).
Fallback ==
  /\ fields' = <<RawField("unknown_extension", 0, 8 * 128)>>
  /\ phase' = "done"
  /\ UNCHANGED pos

\* d.FieldU8("tag", d.UintAssert(0x70))
DecodeTag ==
  /\ phase = "tag"
  /\ \E r \in Records :
       /\ buf' = r
       /\ IF ByteAt(r, 0) = \h70
          THEN /\ fields' = <<Field("tag", 0, 8, \h70)>>
               /\ pos' = 8
               /\ phase' = "header"
          ELSE Fallback
  /\ UNCHANGED byteCount

\* decodeDisplayID up to the data blocks: version, revision, bytes_of_data,
\* product type and extension count; is_an_extension when both are 0.
DecodeDisplayIDHeader ==
  /\ phase = "header"
  /\ LET id  == ByteAt(buf, 3)
         ext == ByteAt(buf, 4)
     IN  fields' = fields \o
           Layout(buf, 8, <<<<"display_id_version", 4>>, <<"display_id_revision", 4>>,
                            <<"bytes_of_data", 8>>, <<"display_product_type_identifier", 8>>,
                            <<"extension_count", 8>>>>) \o
           (IF id = 0 /\ ext = 0 THEN <<Field("is_an_extension", 40, 0, 1)>> ELSE <<>>)
  /\ byteCount' = ByteAt(buf, 2)
  /\ pos' = 40
  /\ phase' = "blocks"
  /\ UNCHANGED buf

(***************************************************************************)
(* The data-block loop: for d.Pos() < (5+byteCount)*8, peek the tag; a     *)
(* zero tag anywhere but at the first block ends the loop.                 *)
(***************************************************************************)
InSection == pos < 8 * (5 + byteCount)
ZeroTagAfterFirst == Bits(buf, pos, 8) = 0 /\ pos # 40

\* The bits one iteration consumes: the 3-byte block header, then for a
\* Type I timing block (tag 3) payload_bytes / 20 timings of 20 bytes, for
\* any other tag payload_bytes raw bytes.
BlockBitsUnscaled(tag, pBytes) ==
  IF tag = 3 THEN 24 + 160 * (pBytes \div 20) ELSE 24 + pBytes
BlockBits(tag, pBytes) ==
  IF tag = 3 THEN 24 + 160 * (pBytes \div 20) ELSE 24 + 8 * pBytes

\* One timing of decodeTagTimingIDetailed at bit p: each value is stored
\* minus one (scalar.UintActualAdd(1)); the front porches are a byte plus
\* seven bits after the sync-polarity bit.
TypeITiming(p) ==
  LET Plus1(f) == [f EXCEPT !.val = @ + 1]
      U16LE(name, o) == Plus1(Field(name, p + o, 16, BitsLE(buf, p + o, 16)))
      Porch(name, polarity, o) ==
        << Field(polarity, p + o + 8, 1, Bits(buf, p + o + 8, 1)),
           Plus1(Field(name, p + o, 16, Bits(buf, p + o, 8) + 256 * Bits(buf, p + o + 9, 7))) >>
  IN  << Plus1(Field("pixel_clock", p, 24, LittleEndianValue(BytesRange(buf, p \div 8, 3)))) >>
      \o Layout(buf, p + 24, <<<<"preferred_timing", 1>>, <<"3d_stereo_support", 2>>,
                               <<"scan_type", 1>>, <<"aspect_ratio", 4>>>>)
      \o << U16LE("horizontal_active_image_pixels", 32), U16LE("horizontal_blank_pixels", 48) >>
      \o Porch("horizontal_front_porch", "horizontal_sync_polarity", 64)
      \o << U16LE("horizontal_sync_width", 80), U16LE("vertical_active_image_lines", 96),
            U16LE("vertical_blank_lines", 112) >>
      \o Porch("vertical_front_porch", "vertical_sync_polarity", 128)
      \o << U16LE("vertical_sync_width", 144) >>

\* The loop over numberOfTimings timings from bit p.
RECURSIVE Timings(_, _)
Timings(p, k) == IF k = 0 THEN <<>> ELSE TypeITiming(p) \o Timings(p + 160, k - 1)

\* The fields of one data block at bit pos of n bits.
DataBlock(tag, pBytes, n) ==
  << Field("data_block", pos, n, 0), Field("tag", pos, 8, tag) >> \o
  IF tag = 3
  THEN Layout(buf, pos + 8, <<<<"revision", 8>>, <<"payload_bytes", 8>>>>) \o
       Timings(pos + 24, pBytes \div 20)
  ELSE Layout(buf, pos + 8, <<<<"block_header", 5>>, <<"revision", 3>>, <<"payload_bytes", 8>>>>) \o
       <<RawField("payload", pos + 24, 8 * pBytes)>>

\* A block header or payload read past the frame: the read fails and the
\* error leaves the format.
BlockPastFrameRetried == UNCHANGED <<pos, phase, fields>>
BlockPastFrame == Fallback

\* One iteration; the peek, the header or the payload may run past the frame.
DecodeDataBlock ==
  /\ phase = "blocks"
  /\ InSection
  /\ IF pos + 8 > FrameEnd THEN Fallback
     ELSE /\ ~ZeroTagAfterFirst
          /\ LET tag    == Bits(buf, pos, 8)
                 pBytes == Bits(buf, pos + 16, 8)
                 n      == BlockBits(tag, pBytes)
             IN  IF pos + 24 > FrameEnd \/ pos + n > FrameEnd THEN BlockPastFrame
                 ELSE /\ fields' = fields \o DataBlock(tag, pBytes, n)
                      /\ pos' = pos + n
                      /\ UNCHANGED phase
  /\ UNCHANGED <<buf, byteCount>>

\* The loop ends at the end of the section or at a later zero tag.
EndDataBlocks ==
  /\ phase = "blocks"
  /\ ~InSection \/ (pos + 8 <= FrameEnd /\ ZeroTagAfterFirst)
  /\ phase' = "trailer"
  /\ UNCHANGED <<buf, pos, byteCount, fields>>

(***************************************************************************)
(* The end of decodeDisplayID: padding up to the frame's last byte when    *)
(* more than one byte is left, then that byte as the section checksum,     *)
(* validated against the sum of bytes 1 .. 4+byteCount.  Both reads, and   *)
(* the d.BytesRange, must stay inside the frame.                           *)
(***************************************************************************)
SectionBytes == 4

\* The checksum byte fits in the left bits of the frame.
TrailerFitsStrict(left) == left > 8
TrailerFits(left) == left >= 8

DecodeSectionChecksum ==
  /\ phase = "trailer"
  /\ LET left == FrameEnd - pos
         ckAt == FrameEnd - 8
     IN  IF ~TrailerFits(left) \/ 8 + 8 * (SectionBytes + byteCount) > FrameEnd THEN Fallback
         ELSE /\ fields' = fields \o
                    (IF left - 8 > 0 THEN <<RawField("padding", pos, left - 8)>> ELSE <<>>) \o
                    <<Validated("checksum", ckAt, 8, Bits(buf, ckAt, 8),
                                ExpectedChecksum(BytesRange(buf, 1, SectionBytes + byteCount)))>>
              /\ pos' = FrameEnd
              /\ phase' = "checksum"
  /\ UNCHANGED <<buf, byteCount>>

\* The record checksum of decodeDisplayIDExtension, over bytes 0..126.
DecodeExtensionChecksum ==
  /\ phase = "checksum"
  /\ fields' = fields \o <<Validated("checksum", 8 * 127, 8, ByteAt(buf, 127), RecordChecksum(buf, 0))>>
  /\ pos' = 8 * 128
  /\ phase' = "done"
  /\ UNCHANGED <<buf, byteCount>>

\* TryFieldFormat has returned; nothing changes any more.
Finished == phase = "done" /\ UNCHANGED vars

Next ==
  \/ DecodeTag
  \/ DecodeDisplayIDHeader
  \/ DecodeDataBlock
  \/ EndDataBlocks
  \/ DecodeSectionChecksum
  \/ DecodeExtensionChecksum
  \/ Finished

Spec == Init /\ [][Next]_vars


-----------------------------------------------------------------------------
FieldRec == [name : STRING, first : Nat, len : Nat, val : Int, sym : STRING, ok : BOOLEAN]

TypeOK ==
  /\ buf \in Seq(Byte)
  /\ pos \in 0..(8 * 128) /\ pos % 8 = 0
  /\ phase \in Phases
  /\ byteCount \in Byte
  /\ fields \in Seq(FieldRec)

FieldsNamed(N) == {i \in 1..Len(fields) : fields[i].name \in N}
ExtensionDecoded == phase = "done" /\ fields[1].name # "unknown_extension"

(***************************************************************************)
(* The block list as the DisplayID layout chains it (spec: a tag/length    *)
(* block list, 3.Tagged Block): each block is a tag, a revision, a length  *)
(* byte and that many payload bytes; the list ends at the end of the       *)
(* section or at a zero tag after the first block.  RefBlocks gives the    *)
(* byte offsets of the blocks from s.                                      *)
(***************************************************************************)
RECURSIVE RefBlocks(_)
RefBlocks(s) ==
  IF s >= 5 + byteCount \/ s + 2 > 127 \/ (ByteAt(buf, s) = 0 /\ s # 5) THEN <<>>
  ELSE <<s>> \o RefBlocks(s + 3 + ByteAt(buf, s + 2))

RefBlockStarts == {RefBlocks(5)[k] : k \in DOMAIN RefBlocks(5)}

\* Every block the loop decodes starts where the chained lengths put it.
BlocksAtBoundaries ==
  \A i \in FieldsNamed({"data_block"}) : fields[i].first \div 8 \in RefBlockStarts

(***************************************************************************)
(* A DisplayID section that is well formed (it fits the record's 121 data  *)
(* bytes, every block lies inside it, every Type I timing block holds      *)
(* whole 20-byte timings) is decoded down to both checksums and not        *)
(* dropped to the unknown_extension fallback.                              *)
(***************************************************************************)
WellFormedSection ==
  /\ ByteAt(buf, 0) = \h70
  /\ byteCount <= 121
  /\ \A s \in RefBlockStarts :
       /\ s + 3 + ByteAt(buf, s + 2) <= 5 + byteCount
       /\ ByteAt(buf, s) = 3 => ByteAt(buf, s + 2) % 20 = 0

DisplayIDDecodedWhenWellFormed ==
  phase = "done" /\ WellFormedSection => ExtensionDecoded

=============================================================================
