----------------------------- MODULE EDIDExtCEA -----------------------------
(***************************************************************************)
(* decodeCEAExtension of format/edid/edid_ext_cea861.go: a 128-byte        *)
(* extension record at byte offset e, decoded as its own format inside     *)
(* d.TryFieldFormat.  It returns the fields it emits and whether it raised *)
(* a decode error (a failed d.UintAssert, a negative raw length, a read    *)
(* past its frame, or an error of an embedded descriptor).                 *)
(***************************************************************************)
EXTENDS EDIDDescriptor

RecordBytes == 128

\* The offset d leaves no room for the padding of (d-4)*8 bits, or for the
\* two descriptors and the data of (123-32-d)*8 bits before the checksum:
\* d.FieldRawLen gets a negative length and the decode fails.
CEAOffsetInvalid(offset) == offset < 4 \/ offset + 36 > 127

DecodeCEAExtension(buf, e) ==
  LET p      == 8 * e
      tag    == ByteAt(buf, e)
      offset == ByteAt(buf, e + 2)
      head   == Layout(buf, p, <<<<"tag", 8>>, <<"revision", 8>>,
                                 <<"offset", 8>>, <<"reserved", 8>>>>)
      dtd3   == DetailedDescriptor(buf, e + offset, "third_timing_descriptor", 1, FALSE)
      dtd4   == DetailedDescriptor(buf, e + offset + 18, "fourth_timing_descriptor", 1, FALSE)
      ck     == ByteAt(buf, e + 127)
  IN  IF \/ tag # \h02                     \* d.UintAssert(0x02)
         \/ CEAOffsetInvalid(offset)
         \/ dtd3.fatal \/ dtd4.fatal
      THEN Aborted(<<>>)
      ELSE Decoded(head
                   \o <<RawField("padding", p + 32, (offset - 4) * 8)>>
                   \o dtd3.fields \o dtd4.fields
                   \o <<RawField("data", p + 8 * (offset + 36), (91 - offset) * 8),
                        Validated("checksum", p + 8 * 127, 8, ck,
                                  ExpectedChecksum(BytesRange(buf, e, 127)))>>)
=============================================================================
