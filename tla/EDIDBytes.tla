----------------------------- MODULE EDIDBytes -----------------------------
(***************************************************************************)
(* The reads the EDID decoder makes through fq's bit cursor (decode.D),    *)
(* and the checksum arithmetic of CalcSum.                                 *)
(*                                                                         *)
(* A buffer is a sequence of bytes; byte offset i (0-based, as the code    *)
(* addresses it) is buf[i + 1].  Positions are in bits from the start of   *)
(* the buffer, as d.Pos() reports them.  fq reads fields narrower than a   *)
(* byte, and big-endian fields, most significant bit first.  decodeEDID   *)
(* sets d.Endian = LittleEndian, so its byte-multiple reads are            *)
(* little-endian; an extension format run through TryFieldFormat gets a    *)
(* decoder of its own, whose default order is big-endian.                  *)
(***************************************************************************)
EXTENDS Integers, Sequences

LOCAL INSTANCE SequencesExt

Byte == 0..255

ByteAt(buf, i) == buf[i + 1]

\* The bytes [i, i + n) of buf, as d.BytesRange returns them.
BytesRange(buf, i, n) == SubSeq(buf, i + 1, i + n)

\* The bytes of s as one big-endian, and as one little-endian, number.
BigEndianValue(s) ==
  LET RECURSIVE V(_)
      V(i) == IF i = 0 THEN 0 ELSE V(i - 1) * 256 + s[i]
  IN  V(Len(s))

LittleEndianValue(s) ==
  LET RECURSIVE V(_)
      V(i) == IF i = 0 THEN 0 ELSE V(i - 1) * 256 + s[Len(s) + 1 - i]
  IN  V(Len(s))

\* Bits [p, p + n) of buf, most significant bit first (fq's UintBits, and
\* every big-endian or sub-byte field read).
Bits(buf, p, n) ==
  LET fb == p \div 8
      lb == (p + n - 1) \div 8
      v  == BigEndianValue(SubSeq(buf, fb + 1, lb + 1))
  IN  (v \div 2^(8 * (lb + 1) - (p + n))) % 2^n

\* An n-bit little-endian read at a byte boundary (n a multiple of 8).
BitsLE(buf, p, n) == LittleEndianValue(SubSeq(buf, p \div 8 + 1, (p + n) \div 8))

\* A read of n bits at p under the decoder's endianness: multi-byte reads
\* are little-endian, reads of at most 8 bits are taken as they lie.
ReadUint(buf, p, n) == IF n > 8 THEN BitsLE(buf, p, n) ELSE Bits(buf, p, n)

(***************************************************************************)
(* CalcSum: the running byte sum in a uint8, wrapping at 256.              *)
(***************************************************************************)
CalcSum(bytes) ==
  LET \* The uint8 sum of bytes lo..hi; adding in uint8 is adding mod 256,
      \* so halving the range gives the running sum's value.
      RECURSIVE Sum(_, _)
      Sum(lo, hi) == IF lo > hi THEN 0
                     ELSE IF lo = hi THEN bytes[lo] % 256
                     ELSE (Sum(lo, (lo + hi) \div 2) + Sum((lo + hi) \div 2 + 1, hi)) % 256
  IN  Sum(1, Len(bytes))

\* uint64(0 - sum) with sum a uint8: the subtraction wraps in uint8 first.
ExpectedChecksumWide(bytes) == 0 - CalcSum(bytes)
ExpectedChecksum(bytes) == (256 - CalcSum(bytes)) % 256

\* The 127 bytes before the checksum of the 128-byte record starting at
\* byte offset r, and the checksum the decoder expects for it.
RecordChecksum(buf, r) == ExpectedChecksum(BytesRange(buf, r, 127))

(***************************************************************************)
(* The plain sum of a byte sequence, for building inputs and stating       *)
(* properties independently of CalcSum.                                    *)
(***************************************************************************)
ByteSum(bytes) ==
  LET RECURSIVE Total(_, _)
      Total(lo, hi) == IF lo > hi THEN 0
                       ELSE IF lo = hi THEN bytes[lo]
                       ELSE Total(lo, (lo + hi) \div 2) + Total((lo + hi) \div 2 + 1, hi)
  IN  Total(1, Len(bytes))

\* The byte that brings the sum of body to 0 mod 256.
Complement(body) == (256 - (ByteSum(body) % 256)) % 256

\* A 127-byte record body completed with the checksum that makes its byte
\* sum 0 mod 256, and one with a checksum off by one.
WithChecksum(body) == Append(body, Complement(body))
WithBadChecksum(body) == Append(body, (Complement(body) + 1) % 256)

(***************************************************************************)
(* The field-emission sink.  A field is the name the code gives it, the    *)
(* bit range it is emitted over, its actual value, the symbol its mappers  *)
(* give it, and whether it passed its validation (d.UintValidate).  Raw,   *)
(* string and struct fields carry the value 0: their bytes are left to the *)
(* buffer.  Descriptions and display formats are not kept.                 *)
(***************************************************************************)
NoSym == ""

Field(name, first, len, val) ==
  [name |-> name, first |-> first, len |-> len, val |-> val, sym |-> NoSym, ok |-> TRUE]

(***************************************************************************)
(* The mapper pipeline of a uint field (FieldValueUintAddr, and d.FieldUx  *)
(* given mappers).  A mapper is a function from actual values to symbols:  *)
(* a table (scalar.UintMapSymStr, scalar.UintMap) is defined on its keys  *)
(* only and leaves any other value's symbol as it was, a formula          *)
(* (scalar.UintFn) is defined on every value.  The mappers run in order,   *)
(* each on the symbol the previous one left.  None of the decoder's        *)
(* mappers returns an error, so the pipeline's early return never happens. *)
(***************************************************************************)
MapSym(sym, actual, m) == IF actual \in DOMAIN m THEN m[actual] ELSE sym

Mapped(f, sms) == [f EXCEPT !.sym = FoldLeft(LAMBDA s, m : MapSym(s, f.val, m), NoSym, sms)]

\* A field validated against an expected value (d.UintValidate).
Validated(name, first, len, val, expected) ==
  [Field(name, first, len, val) EXCEPT !.ok = (val = expected)]

RawField(name, first, len) == Field(name, first, len, 0)

\* A run of d.FieldUx calls: lay is a sequence of <<name, nBits>>, or
\* <<name, nBits, mappers>>, read one after the other from bit p.
RECURSIVE LayoutBits(_)
LayoutBits(lay) == IF lay = <<>> THEN 0 ELSE lay[1][2] + LayoutBits(Tail(lay))

Layout(buf, p, lay) ==
  [i \in 1..Len(lay) |->
     LET at == p + LayoutBits(SubSeq(lay, 1, i - 1))
     IN  Mapped(Field(lay[i][1], at, lay[i][2], ReadUint(buf, at, lay[i][2])),
                IF Len(lay[i]) = 3 THEN lay[i][3] ELSE <<>>)]
=============================================================================
