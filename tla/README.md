# TLA+ models of the fq EDID decoder

This directory models the EDID decoder of this repository in TLA+ and checks
the models with TLC. The decoder has three source files:

- `src/format/edid/edid.go`: the base record and the extension loop.
- `src/format/edid/edid_ext_cea861.go`: the CEA-861 extension.
- `src/unnamed/part_000`: the DisplayID extension.

## The system

The decoder is a single-threaded, synchronous pass over a byte buffer. It
drives fq's bit cursor `decode.D` and emits a tree of named fields. It has
no concurrency, persistence or messages. What makes it hard to get right is
its control: the order of its reads, its asserts and validations, the
frames it opens, and the `TryFieldFormat` fallback that turns a failed
extension into raw bytes.

Its parts, and how they interact:

1. **Bit cursor and field emitter.** `decode.D` is host code. It provides
   MSB-first bit reads, `d.Endian`, `FramedFn`, `BytesRange`, asserts
   (fatal) and validations (recorded). It is modelled in `EDIDBytes`.
2. **Base record decoder** (`decodeEDID`). It runs these sections in order:
   - header (with the magic assert);
   - basic display parameters;
   - chromaticity;
   - established timings;
   - standard timings;
   - four 18-byte descriptor slots;
   - extension count and checksum;
   - then one 128-byte frame per extension.
3. **Descriptor sub-decoder** (`DetailedDescriptor`,
   `DetailedTimingDescriptor`). It is called from the base slots and from
   the CEA extension.
4. **Extension dispatcher.** Each extension record goes through
   `TryFieldFormat(extensionGroup)`. When every format fails, the record is
   emitted as a raw `unknown_extension`.
5. **CEA-861** (`decodeCEAExtension`) and **DisplayID**
   (`decodeDisplayIDExtension`, `decodeDisplayID`). These are the
   extension formats.
6. **Checksum verifier** (`CalcSum` and `uint64(0-sum)`). It checks the
   base record, CEA and DisplayID (section and record).
7. **Value mappers.** `FieldValueUintAddr` runs a field's mappers in order,
   each setting the value's symbol. Formulas compute it (`aspectRatio`,
   `manufacturerMapper`, `yearMapper`, the standard-timing pixels and
   refresh rate); tables look it up (the established timings, the
   standard-timing aspect, and label-only tables).

## Modules

| Module | Models | State and actions |
|---|---|---|
| `EDIDBytes` | decode.D reads, `CalcSum`, checksum validation, field records, the mapper pipeline | Operators only. `Bits` is an MSB-first read. `BitsLE` and `ReadUint` follow the little-endian `d.Endian`. `CalcSum` is a uint8 sum. `ExpectedChecksum` is `uint64(0-sum)` computed in uint8. A field carries a `sym`; `Mapped` folds the field's mappers over it, a mapper being a function from actual values to symbols. |
| `EDIDMappers` | `aspectRatio`, `aspectRatioDenominator`, `greatest_common_divisor`, `manufacturerMapper`, `fiveBitLetter`, `yearMapper`, the standard- and established-timing mappers | Operators. The float search is done with exact rationals, and a result is a *set* of outcomes (see Abstractions). |
| `EDIDDescriptor` | `DetailedDescriptor`, display descriptors, range limits, `DetailedTimingDescriptor` | Operators that return `[fields, fatal]`. `fatal` means a decode error that aborts the enclosing format. |
| `EDIDExtCEA` | `decodeCEAExtension` | An operator over one 128-byte record. |
| `EDIDBase` | `decodeEDID` | A state machine (`buf`, `pos`, `step`, `slot`, `extIndex`, `extCount`, `fields`, …). `revision` is the edidContext's revision. There is one action per section and one `DecodeExtension` per loop iteration. `ExtensionOutOfBounds` is the `FramedFn` past the end of the buffer. `Terminated` is the end of the decode. |
| `EDIDAspectRatio` | the `aspect_ratio` field of `decodeBasicDisplayParameters` | One step that reads both screen sizes and renders the ratio. |
| `EDIDExtDisplayID` | `decodeDisplayIDExtension`, `decodeDisplayID`, `decodeTagTimingIDetailed` | A state machine (`buf`, `pos`, `phase`, `byteCount`, `fields`). Its actions are the tag, the section header, one `DecodeDataBlock` per loop iteration, `EndDataBlocks`, the section checksum, the record checksum, and `Fallback` (the `TryFieldFormat` recovery). |
| `EDIDDecoder` | `decodeEDID` with the whole `EDID_Extension` group | Composes `EDIDBase` with an instance `DX` of `EDIDExtDisplayID` (variables `dBuf`, `dPos`, `dPhase`, `dByteCount`, `dFields`). `BeginExtension` hands a frame to the DisplayID format, the `DX!` actions decode it step by step, and `EndExtension` keeps DisplayID's fields if it returned a value, else CEA-861's on the same frame, else the raw fallback. The loop then moves on by 128 bytes. |
| `EDIDRecordStream` | what a pass promises (spec §2-3) | The abstract specification: records are consumed one at a time, base first, then each declared extension, until done or failed. `EDIDDecoder` refines it with `consumed = pos ÷ 1024`, `declared = extCount`, and `status` from `step`. |

`MC_EDIDBase`, `MC_EDIDAspectRatio`, `MC_EDIDExtDisplayID` and
`MC_EDIDDecoder` supply the inputs; `MC_DisplayIDRecords` builds the
DisplayID records both DisplayID MC modules use. The base inputs are given per section: each action picks a
section's bytes from a small set of real-shaped byte strings (a Dell
1920x1080 DisplayPort monitor and variants of it). So every combination of
section variants is explored, but the whole buffer is never enumerated.
PROJECT.json's `map` names the code lines each definition translates.

## Runs

Passing runs:

- **base** (`MC_EDIDBase.cfg`, about 20k states) checks nine invariants:
  - `TypeOK`;
  - `ChecksumVerdict`: the checksum field is valid exactly when the record's
    bytes sum to 0 mod 256;
  - `ExtensionsAccounted`: every extension announced and present yields
    exactly one 128-byte frame, decoded or raw;
  - `DTDSizesRoundTrip` and `ChromaticityRoundTrip`: the split high/low
    fields reassemble to the reference values. The horizontal back porch is
    derived as blank − front porch − sync width in uint64, and one input
    descriptor is inconsistent, so its back porch wraps;
  - `ManufacturerIdRoundTrip`: the manufacturer letters are the three 5-bit
    codes packed across bytes 8-9, each counted from "A" = 1. The code reads
    them with the only big-endian read of a little-endian decoder;
  - `RevisionGatesLabel`: bit 1 of byte 24 is named for EDID 1.3/1.4 exactly
    when the header's byte 19 is 3 or 4. The revision travels through the
    edidContext from the header to this section;
  - `EstablishedTimingsNamed`: each set flag of bytes 35-37 is reported
    once, named by the mode the EDID layout gives its bit. The layout
    counts from bit 7, while `mapTimings` counts from bit 0;
  - `DTDFlagsByteDecoded`: byte 17 of every detailed timing gives the
    interlace bit, the stereo mode from bits 6-5 and 0, and the sync type
    from bits 4-3. The sync type decides the names of the bit 2 and bit 1
    fields. The code reads the byte as 1 + 7 bits, then seeks 5 bits back
    and reads the sync nibble again.
- **aspect** (`MC_EDIDAspectRatio.cfg`, all 65,536 size pairs, about 66k
  states). `AspectRatioMatchesReference` checks the code's search against a
  reference built from the spec: candidates floor/ceil, first fit, lowest
  terms, and the edge cases.
- **decoder** (`MC_EDIDDecoder.cfg`, about 10.7k states, under 20 s). One
  base record declares 0 to 2 extensions. Each frame is any of 37 DisplayID
  records, the CEA-861 records, a block map, or the end of the buffer. It
  checks:
  - `DecoderTypeOK`;
  - `ExtensionDecodedWhenWellFormed`: a CEA-861 record with a legal offset,
    or a DisplayID record with a well-formed section, is decoded by its
    format down to the record checksum, never dropped to the fallback;
  - `Termination`: every pass ends, done or failed;
  - `RecordStreamRefined`: the pass implements `EDIDRecordStream`.

Violation runs. Each checks one property that the spec or the code's own
intent states, and TLC finds it broken by what the code does. The findings
in PROJECT.json give the details.

| Run | Property | What the counterexample shows |
|---|---|---|
| base_standard_timings | `StandardTimingsFaithful` | `& 0xf` and the slot order of the U64 read give wrong timings (edid.go:387). |
| base_vertical_porch | `DTDVerticalPorchRoundTrip` | `<<8` on the 2-bit high parts turns a 20-line porch into 260 (edid.go:557). |
| base_sync_flags | `SyncFlagsInDomain` | `sync & 0x2` reports 2 (edid.go:594). |
| base_range_limits | `RangeLimitsDecoded` | A tautological condition makes CVT range limits abort the decode (edid.go:492). |
| base_ext_checksum | `ExtensionChecksumReported` | An unknown extension gets no checksum (spec §8; edid.go:653). |
| base_ext_contained | `ExtensionFailureContained` | A missing extension fails the whole decode (spec §7; edid.go:650). |
| base_pixel_clock | `DTDPixelClockRoundTrip` | The CEA extension's detailed timings are read big-endian. |
| aspect_spec_example | `SpecAspectExample` | The spec's 61/90 → 16:9 is 11:16 in the code. |
| displayid_boundaries | `BlocksAtBoundaries` | A 22-byte Type I block leaves 2 bytes unread, and the next tag is misread. |

Every property of a passing run has a mutant in PROJECT.json: a plausible
bug in the mapped code that TLC must catch. Examples are a uint64-width
checksum, the manufacturer ID read little-endian, a revision that never
reaches the edidContext, a shift by 7, a dropped fallback, an off-by-one in the offset
guard or the search limit, truncation instead of rounding, and `>` for
`>=` in the trailer test.

## Bounds and why they are enough

- **Base.** Each section has two or three byte variants, chosen so that
  every branch is taken:
  - magic good or bad, model-year or week, revision 4, 3 or 2, and the
    manufacturers "DEL" and "SAM";
  - digital or analog, with or without a size;
  - each descriptor kind, including the bad identifier and CVT range limits,
    and a detailed timing whose blanking is less than porch plus sync;
  - flags bytes `1e`, `1a`, `bb` and `46`: digital separate and analog
    composite sync, interlaced or not, and normal, 2-way and field-sequential
    stereo;
  - established flags `21 08 00` (bits that differ from their mirrors) and
    all flags set;
  - 0 to 2 extensions, and a good or bad checksum;
  - extension inputs: CEA (good, bad checksum, d=0), a block map, and the
    missing record.

  Deeper extension counts only repeat the loop body.
- **Aspect.** The full byte range of both sizes is checked.
- **DisplayID.**
  - Six block lists cover:
    - back-to-back blocks;
    - a remainder not divisible by 20;
    - a full section;
    - a block past the frame;
    - an empty block.
  - Each list is combined with byteCount ∈ {exact, 121, 122} and a good or
    bad section and record checksum. 121 is the section that fills the frame
    and 122 one byte beyond it.
- **Decoder.** Two extensions are enough to see the loop carry on after a
  frame that DisplayID decoded, one it dropped part-way, and one CEA-861
  decoded. The DisplayID records keep every block list and byteCount, with
  a good or bad section checksum. Only one record has a bad record checksum,
  which keeps the liveness check fast.

## Abstractions

- Field names are strings, and values are integers. A field's symbol is
  kept where a property reads it: the manufacturer letters (as code
  points), the year, the standard-timing pixels, aspect and refresh rate,
  the established-timing names, and the stereo mode. Descriptions, float symbols (gamma,
  pixel clock), label-only tables and string contents are left out: they
  change no decode state and no property is about them.
- uint64 subtractions that wrap (the back porches) show up as negative
  integers. Properties compare against the wrapped or the reference value,
  whichever applies.
- `aspectRatio` compares floats: `math.Abs(aspect - m/n) < 0.01`. The model
  compares exact rationals. When the difference is exactly 0.01, float
  rounding decides, so the model allows both outcomes. This set was compared
  against float64 evaluation for all sizes 0..255, and it covers float64's
  result in every case.
- `EDIDBase` gives its extension loop only the CEA-861 format and no
  DisplayID-tagged record; that run explores the base record's many
  variants. `EDIDDecoder` holds the whole group on one base record. The
  group's order is not fixed by the code (it is registration order). The
  model tries DisplayID first, which is sound because each format asserts
  its own tag before reading anything else, so at most one can succeed.
- The decoder is one goroutine with no external events. The only fairness
  is weak fairness of the decoder run's whole next-state relation: a
  running program keeps taking steps. The other runs check safety only. All
  runs check deadlock. A finished decode stutters in `Terminated`,
  `Decoded` or `Finished`.

A screen 1 cm wide and 101 cm or more high renders as "0:1": the search
takes m = 0 at n = 1. The spec says nothing of such screens, so this is a
hazard in PROJECT.json, not a run.

## Not modelled

- The embedded `edid.md` and the debug `fmt.Printf` in `decodeDisplayID`.
  These are documentation and output. Of the `init` registrations, only
  the extension group's membership matters, and `EDIDDecoder` models it.
- The label-only tables (`bit_depth`, `video_interface`, `display_type`,
  sync), `descUintMapper` descriptions and the float mappers. They
  only annotate, and the spec states nothing about them to check.
- Manufacturer codes 0 and 27-31 give "@" and "[".."_" in the code. The spec
  says nothing of them, so they are a hazard without a property.

- The bit cursor's float fields (`FieldValueFltAddr`) and the host's
  `decode.D` internals beyond the reads, seeks and frames listed in
  `EDIDBytes`. Floats carry only annotations here.
- The "0:1" aspect ratio for screens narrower than 1:100 (edid.go:184) and
  the non-letter manufacturer codes stay hazards without a property,
  because the spec states no expected result for either. A check for
  either would be a violation run whose expected value is invented.

## Further work

1. Model the analog video input branch in more detail, with more inputs.
2. Add more DisplayID data block kinds, if the code grows them.
3. Settle with the spec what an inconsistent descriptor's back porch and a
   sub-1:100 aspect ratio should report. Then check them as properties.
