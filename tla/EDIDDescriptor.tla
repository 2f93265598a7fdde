--------------------------- MODULE EDIDDescriptor ---------------------------
(***************************************************************************)
(* One 18-byte descriptor slot: DetailedDescriptor and                     *)
(* DetailedTimingDescriptor of format/edid/edid.go.                        *)
(*                                                                         *)
(* A slot is decoded inside d.FramedFn(18*8, ...) by a call that either    *)
(* completes or raises a decode error (a failed d.AssertBitBuf); the       *)
(* operators return the fields it emits and whether it raised.  s is the   *)
(* byte offset of the slot in the buffer; le is the byte order of the      *)
(* decoder running it (d.Endian): little-endian in decodeEDID, which sets  *)
(* it, and the host's default big-endian in an extension format.           *)
(***************************************************************************)
EXTENDS EDIDBytes, TLC

LOCAL INSTANCE Bitwise

SlotBytes == 18

Decoded(fs) == [fields |-> fs, fatal |-> FALSE]
Aborted(fs) == [fields |-> fs, fatal |-> TRUE]

\* The struct name: display descriptors are numbered blockNo - 1, detailed
\* timings take the caller's name, suffixed by blockNo when it exceeds 1.
BlockName(blockType, name, blockNo) ==
  IF blockType = 0 THEN "display_descriptor_" \o ToString(blockNo - 1)
  ELSE IF blockNo > 1 THEN name \o "_" \o ToString(blockNo)
  ELSE name

(***************************************************************************)
(* Display Range Limits (tag 0xfd).  The offsets of +255 Hz / kHz are      *)
(* selected by the reserved byte's bits; the padding branch is taken when  *)
(* vtFlags&0x1 == 0x1 || vtFlags&0x1 == 0x0, and asserts the fixed bytes  *)
(* 0a 20 20 20 20 20 20.                                                   *)
(***************************************************************************)
RangePadding == <<\h0a, \h20, \h20, \h20, \h20, \h20, \h20>>

RangePaddingBranch(vtFlags) == vtFlags % 2 = 1 \/ vtFlags % 2 = 0

RangeLimits(buf, s, flags) ==
  LET p      == 8 * (s + 5)
      off(c) == IF c THEN 255 ELSE 0
      adds   == <<off(flags % 4 = 3), off((flags \div 2) % 2 = 1),
                  off((flags \div 4) % 4 = 3), off((flags \div 8) % 2 = 1), 0, 0>>
      read   == Layout(buf, p, <<<<"min_vertical_refresh", 8>>,
                                 <<"max_vertical_refresh", 8>>,
                                 <<"min_horizontal_refresh", 8>>,
                                 <<"max_horizontal_refresh", 8>>,
                                 <<"max_pixel_clock", 8>>,
                                 <<"video_timing_support_flags", 8>>>>)
      lims   == [i \in 1..6 |-> [read[i] EXCEPT !.val = @ + adds[i]]]
      vtFlags == lims[6].val
      q      == p + 48
  IN  IF RangePaddingBranch(vtFlags)
      THEN IF BytesRange(buf, q \div 8, 7) = RangePadding
           THEN Decoded(lims \o <<RawField("padding", q, 56)>>)
           ELSE Aborted(lims)
      ELSE Decoded(lims \o [i \in 1..7 |->
                     Field("video_timing_data" \o ToString(i), q + 8 * (i - 1), 8,
                           ByteAt(buf, q \div 8 + i - 1))])

(***************************************************************************)
(* A display descriptor: three asserted zero bytes, the tag, the reserved  *)
(* byte (maybeFlags), then a payload chosen by the tag.                    *)
(***************************************************************************)
DisplayDescriptor(buf, s) ==
  LET p    == 8 * s
      tag  == ByteAt(buf, s + 3)
      head == <<RawField("identifer", p, 24), Field("tag", p + 24, 8, tag),
                Field("reserved", p + 32, 8, ByteAt(buf, s + 4))>>
      rest == 8 * (SlotBytes - 5)
  IN  IF BytesRange(buf, s, 3) # <<0, 0, 0>> THEN Aborted(<<>>)
      ELSE IF tag \in {\hfc, \hfe, \hff}
           THEN Decoded(head \o <<RawField("value", p + 40, 13 * 8)>>)
      ELSE IF tag = \hfd
           THEN LET r == RangeLimits(buf, s, ByteAt(buf, s + 4))
                IN  [r EXCEPT !.fields = head \o @]
      ELSE Decoded(head \o <<RawField(CASE tag = \hfa -> "standard_timing_identifiers"
                                        [] tag = \hfb -> "color_point"
                                        [] OTHER       -> "manufacturer_tag",
                                      p + 40, rest)>>)

(***************************************************************************)
(* A detailed timing descriptor.  Values split over two reads are          *)
(* reassembled as low + (high << 8) and emitted over the union of their    *)
(* byte ranges; the back porches are derived as blank - front - sync in    *)
(* uint64, a negative value here standing for its wrap 2^64 + x.           *)
(***************************************************************************)
\* x0 + (x1 << 8): a low byte and the high bits read from another byte.
ReassembleShift7(low, high) == low + high * 128
Reassemble(low, high) == low + high * 256

\* hblank-hfp-hspw: the back porch is what the blanking leaves after the
\* front porch and the sync pulse, in uint64 (negative: wrapped).
BackPorchClamped(blank, front, sync) ==
  IF blank < front + sync THEN 0 ELSE blank - front - sync
BackPorch(blank, front, sync) == blank - front - sync

\* stereoMapper: a switch on s.Actual & 0x61 (bits 6, 5 and 0 of the 7-bit
\* field) that names all eight cases.
StereoModes ==
  (0 :> "normal") @@ (1 :> "normal") @@ (32 :> "field_seq_right") @@
  (33 :> "2way_right") @@ (64 :> "field_seq_left") @@ (65 :> "2way_left") @@
  (96 :> "4way") @@ (97 :> "side_by_side")
StereoMapperMask60 == [v \in 0..127 |-> StereoModes[v & 96]]
StereoMapper == [v \in 0..127 |-> StereoModes[v & 97]]

\* After the interlace bit and the 7-bit stereo field the cursor is at the
\* end of the slot's byte 17 (bit p + 144 for a slot at bit p); d.SeekRel(-5)
\* moves it back so that d.U4() reads bits 4-1 of that byte.
SyncStartSeek4(p) == p + 140
SyncStart(p) == p + 139

DetailedTimingDescriptor(buf, s, le) ==
  LET p   == 8 * s
      B(o, n) == Bits(buf, p + o, n)      \* d.Ux at bit o of the slot
      hblank == Reassemble(B(24, 8), B(36, 4))
      vblank == Reassemble(B(48, 8), B(60, 4))
      hfp  == Reassemble(B(64, 8), B(88, 2))
      hspw == Reassemble(B(72, 8), B(90, 2))
      vfp  == Reassemble(B(80, 4), B(92, 2))
      vspw == Reassemble(B(84, 4), B(94, 2))
      sS   == SyncStart(p)
      sync == Bits(buf, sS, 4)            \* d.U4() after d.SeekRel(-5)
      firstTwo == (sync \div 4) * 4        \* sync & 0xc
      third    == ((sync \div 2) % 2) * 2  \* sync & 0x2
      fourth   == sync % 2                 \* sync & 0x1
      pS == p + 64
      U16 == IF le THEN BitsLE(buf, p, 16) ELSE Bits(buf, p, 16)   \* d.FieldU16
  IN  << Field("pixel_clock", p, 16, U16),
         Field("horizontal_addressable_video", p + 16, 24, Reassemble(B(16, 8), B(32, 4))),
         Field("horizontal_blanking", p + 16, 24, hblank),
         Field("vertical_addressable_video", p + 40, 24, Reassemble(B(40, 8), B(56, 4))),
         Field("vertical_blanking", p + 40, 24, vblank),
         Field("horizontal_front_porch", pS, 32, hfp),
         Field("horizontal_sync_pulse_width", pS, 32, hspw),
         Field("horizontal_back_porch", pS, 32, BackPorch(hblank, hfp, hspw)),
         Field("vertical_front_porch", pS, 32, vfp),
         Field("vertical_sync_pulse_width", pS, 32, vspw),
         Field("vertical_back_porch", pS, 32, BackPorch(vblank, vfp, vspw)),
         Field("horizontal_addressable_video_image_size", p + 96, 24, Reassemble(B(96, 8), B(112, 4))),
         Field("vertical_addressable_video_image_size", p + 96, 24, Reassemble(B(104, 8), B(116, 4))),
         Field("horizontal_border_left_right", p + 120, 8, B(120, 8)),
         Field("vertical_border_left_right", p + 128, 8, B(128, 8)),
         Field("signal_interface_type", p + 136, 1, B(136, 1)),
         Mapped(Field("stereo_viewing_support", p + 137, 7, B(137, 7)), <<StereoMapper>>),
         Field("sync_signal", sS, 4, firstTwo),
         Field(IF firstTwo = 12 THEN "vsync_polarity" ELSE "with_serrations", sS, 4, third),
         Field(IF firstTwo \in {8, 12} THEN "hsync_polarity" ELSE "sync_on", sS, 4, fourth) >>

(***************************************************************************)
(* DetailedDescriptor: peek 16 bits; zero selects a display descriptor,    *)
(* anything else a detailed timing descriptor.  The struct is emitted over *)
(* the whole slot.                                                         *)
(***************************************************************************)
DetailedDescriptor(buf, s, name, blockNo, le) ==
  LET blockType == Bits(buf, 8 * s, 16)
      r == IF blockType = 0 THEN DisplayDescriptor(buf, s)
           ELSE Decoded(DetailedTimingDescriptor(buf, s, le))
  IN  [r EXCEPT !.fields =
         <<Field(BlockName(blockType, name, blockNo), 8 * s, 8 * SlotBytes, 0)>> \o @]
=============================================================================
