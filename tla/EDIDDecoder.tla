----------------------------- MODULE EDIDDecoder -----------------------------
(***************************************************************************)
(* decodeEDID with the whole EDID_Extension group: the base record as in   *)
(* EDIDBase, and every extension frame handed to d.TryFieldFormat, which   *)
(* tries the group's formats on it.  The DisplayID format (part_000) runs  *)
(* step by step on the frame, with its own decoder (positions from the     *)
(* frame's start); when it returns no value the CEA-861 format is tried    *)
(* on the same frame, and when that fails too the frame becomes a raw      *)
(* unknown_extension.  Both formats assert their tag (0x70, 0x02) before   *)
(* anything else, so at most one can succeed and the order in which the    *)
(* group lists them does not change the outcome.                           *)
(***************************************************************************)
EXTENDS EDIDBase

VARIABLES dBuf, dPos, dPhase, dByteCount, dFields

dvars == <<dBuf, dPos, dPhase, dByteCount, dFields>>
allVars == <<vars, dvars>>

\* The DisplayID format, decoding the frame held in dBuf.
DX == INSTANCE EDIDExtDisplayID WITH
        Records <- ExtensionInputs \ {<<>>},
        buf <- dBuf, pos <- dPos, phase <- dPhase, byteCount <- dByteCount, fields <- dFields

\* The DisplayID format's reading of a record r, for stating properties.
DisplayIDOf(r) == INSTANCE EDIDExtDisplayID WITH
        Records <- {r}, buf <- r, pos <- 0, phase <- "tag", byteCount <- ByteAt(r, 2),
        fields <- <<>>

DecoderInit == Init /\ DX!Init

\* The sections of the base record; no extension format is running.
BaseSection ==
  /\ \/ DecodeFileHeader
     \/ DecodeBasicDisplayParameters
     \/ DecodeChromaticityCoordinates
     \/ DecodeEstablishedTimings
     \/ DecodeStandardTimings
     \/ DecodeDescriptorSlot
     \/ DecodeChecksum
  /\ UNCHANGED dvars

\* d.FramedFn(128*8) takes the next frame and d.TryFieldFormat starts the
\* DisplayID format on it, which reads and asserts the tag.
BeginExtension ==
  /\ step = "extension"
  /\ DX!DecodeTag
  /\ UNCHANGED vars

\* The frames' positions in the whole buffer, from the format's own.
ShiftFields(fs, p) == [i \in DOMAIN fs |-> [fs[i] EXCEPT !.first = @ + p]]

\* The fields the frame leaves: the DisplayID format's when it returned a
\* value, else the CEA-861 format's on the same frame, else the raw
\* unknown_extension of decodeEDID.
ExtensionResultCEAOnly(b, p) == ExtensionFields(DecodeCEAExtension(b, p \div 8), p)
ExtensionResult(b, p) ==
  IF DX!ExtensionDecoded THEN ShiftFields(dFields, p)
  ELSE ExtensionFields(DecodeCEAExtension(b, p \div 8), p)

\* The bits the loop moves on by after a frame: the whole frame, whatever
\* the format read of it (d.FramedFn).
ExtensionAdvanceConsumed == dPos
ExtensionAdvance == 8 * RecordBytes

\* TryFieldFormat has returned: the frame's fields are kept, the loop goes
\* to the next frame, and the next format run starts from a new decoder.
EndExtension ==
  /\ step = "extension"
  /\ dPhase = "done"
  /\ LET b == buf \o dBuf
     IN  /\ buf' = b
         /\ fields' = fields \o ExtensionResult(b, pos)
  /\ pos' = pos + ExtensionAdvance
  /\ extIndex' = extIndex + 1
  /\ step' = IF LastExtension(extIndex) THEN "done" ELSE "extension"
  /\ dBuf' = <<>> /\ dPos' = 0 /\ dPhase' = "tag" /\ dByteCount' = 0 /\ dFields' = <<>>
  /\ UNCHANGED <<slot, extCount, revision, contFreq, aspectRatio>>

DecoderNext ==
  \/ BaseSection
  \/ BeginExtension
  \/ DX!DecodeDisplayIDHeader /\ UNCHANGED vars
  \/ DX!DecodeDataBlock /\ UNCHANGED vars
  \/ DX!EndDataBlocks /\ UNCHANGED vars
  \/ DX!DecodeSectionChecksum /\ UNCHANGED vars
  \/ DX!DecodeExtensionChecksum /\ UNCHANGED vars
  \/ EndExtension
  \/ ExtensionOutOfBounds /\ dPhase = "tag" /\ UNCHANGED dvars
  \/ Terminated /\ UNCHANGED dvars

(***************************************************************************)
(* The decoder is one goroutine running straight-line code and loops: as   *)
(* long as it can take a step it takes one (weak fairness of the whole     *)
(* next-state relation).                                                   *)
(***************************************************************************)
DecoderSpec == DecoderInit /\ [][DecoderNext]_allVars /\ WF_allVars(DecoderNext)

-----------------------------------------------------------------------------
DecoderTypeOK == TypeOK /\ DX!TypeOK

\* The 128 bytes of extension record k.
ExtensionRecord(k) == BytesRange(buf, RecordBytes * k, RecordBytes)

(***************************************************************************)
(* Every consumed extension record that one of the group's formats can     *)
(* decode, a CEA-861 record with a legal descriptor offset or a DisplayID  *)
(* record with a well-formed section, is decoded by it down to the record  *)
(* checksum at byte 127, and not dropped to the unknown_extension of the   *)
(* TryFieldFormat fallback, whichever format the group tries first.        *)
(***************************************************************************)
ExtensionDecodedWhenWellFormed ==
  \A k \in 1..extIndex :
    CEAWellFormed(RecordBytes * k) \/ DisplayIDOf(ExtensionRecord(k))!WellFormedSection =>
      HasField("checksum", 8 * (RecordBytes * k + 127))

(***************************************************************************)
(* Every decode pass ends, with the buffer decoded or failed: the          *)
(* extension loop of decodeEDID and the data-block loop of decodeDisplayID *)
(* are bounded by counts read from the buffer and must still run out.      *)
(***************************************************************************)
Termination == <>(step \in {"done", "failed"})

(***************************************************************************)
(* The pass implements the record stream of EDIDRecordStream: a record is  *)
(* consumed when the cursor passes its 128-byte boundary, the declared     *)
(* count is the base record's extension_count, and the pass is done or     *)
(* failed when decodeEDID has returned or failed.                          *)
(***************************************************************************)
Stream == INSTANCE EDIDRecordStream WITH
            consumed <- pos \div (8 * RecordBytes),
            declared <- extCount,
            status <- IF step \in {"done", "failed"} THEN step ELSE "running"

RecordStreamRefined == Stream!Spec
=============================================================================
