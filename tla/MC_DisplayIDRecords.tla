------------------------- MODULE MC_DisplayIDRecords -------------------------
(***************************************************************************)
(* DisplayID extension records: a header declaring byteCount bytes of data *)
(* blocks, a list of blocks, zero fill, the section checksum in byte 126   *)
(* (where decodeDisplayID reads it) and the record checksum in byte 127.   *)
(***************************************************************************)
EXTENDS EDIDBytes

ZeroFill(n) == [i \in 1..n |-> 0]

\* A generic data block: tag, revision, payload_bytes, then the payload.
Block(tag, payload) == <<tag, \h00, Len(payload)>> \o payload

\* A Type I timing block of payload_bytes p and its 20-byte timings.
Timing1080 == <<\h01, \h3a, \h02, \h88, \h7f, \h07, \h17, \h01, \h57, \h00,
                \h2b, \h00, \h37, \h04, \h2c, \h00, \h03, \h00, \h04, \h00>>
TypeI(p, body) == <<\h03, \h00, p>> \o body

\* Block lists: a product id block (tag 0, legal first), then a Type I
\* timing; a Type I timing and a serial number; a Type I block whose
\* payload (22) is not a multiple of 20; a list that fills the 121 bytes
\* of the section; a block whose payload runs past the frame; an empty
\* string block, then a Type I timing.
ProductThenTiming == Block(\h00, <<\h10, \hac, \h40, \ha0>>) \o TypeI(20, Timing1080)
TimingThenSerial  == TypeI(20, Timing1080) \o Block(\h0a, <<1, 2, 3, 4>>)
TimingRemainder   == TypeI(22, Timing1080 \o <<\h0b, \h00>>) \o Block(\h0a, <<1, 2>>)
FullSection       == TypeI(20, Timing1080) \o Block(\h7f, ZeroFill(95))
PastFrame         == Block(\h0a, ZeroFill(123))
EmptyThenTiming   == Block(\h0b, <<>>) \o TypeI(20, Timing1080)

BlockLists == {ProductThenTiming, TimingThenSerial, TimingRemainder, FullSection, PastFrame,
               EmptyThenTiming}

\* The record for byteCount bc and a block list; the section checksum is
\* the complement of bytes 1 .. 4+bc (within the record) or one more.
Record(bc, blocks, sectionOk, recordOk) ==
  LET body == <<\h70, \h12, bc, \h00, \h00>> \o blocks \o ZeroFill(126 - 5 - Len(blocks))
      top  == IF 5 + bc < 126 THEN 5 + bc ELSE 126
      ck   == (Complement(SubSeq(body, 2, top)) + (IF sectionOk THEN 0 ELSE 1)) % 256
      rec  == Append(body, ck)
  IN  IF recordOk THEN WithChecksum(rec) ELSE WithBadChecksum(rec)
=============================================================================
