---------------------------- MODULE EDIDMappers ----------------------------
(***************************************************************************)
(* The mappers of format/edid/edid.go that compute a value: aspectRatio,  *)
(* aspectRatioDenominator, greatest_common_divisor, and the manufacturer   *)
(* letters of manufacturerMapper and fiveBitLetter.                        *)
(*                                                                         *)
(* The code computes the aspect in float64; here the aspect is the exact   *)
(* rational a / b and every comparison is made on integers.  The rounded   *)
(* numerator uint64(aspect*n + 0.5) is the same in both for all screen     *)
(* sizes 0..255.  The comparison |aspect - m/n| < 0.01 is not: when the    *)
(* exact difference is 0.01, float64 rounding accepts it for some sizes    *)
(* and rejects it for others, so an exact tie is a choice of both          *)
(* outcomes, and the mappers return the set of results the code can give.  *)
(* The rendered string "W:H" is the pair W, H; the fallback fmt "%2f" of   *)
(* the float is the rational itself.                                       *)
(***************************************************************************)
EXTENDS Integers, TLC

Ratio(w, h)  == [kind |-> "ratio", w |-> w, h |-> h]
Undefined    == [kind |-> "undefined", w |-> 0, h |-> 0]
Float(a, b)  == [kind |-> "float", w |-> a, h |-> b]

\* fiveBitLetter: the rune 64 + code, so code 1 is "A"; a letter is its code
\* point.  Codes 0 and 27..31 give "@" and "[" .. "_", which the code emits
\* unchecked.
FiveBitLetterFromA(code) == 65 + code
FiveBitLetter(code) == 64 + code

\* manufacturerMapper: the three 5-bit codes of the 16-bit value, most
\* significant first (the top bit is ignored).
ManufacturerLetters(v) ==
  <<FiveBitLetter((v \div 2^10) % 32), FiveBitLetter((v \div 2^5) % 32),
    FiveBitLetter(v % 32)>>

Abs(x) == IF x < 0 THEN -x ELSE x

RECURSIVE GreatestCommonDivisor(_, _)
GreatestCommonDivisor(a, b) ==
  IF b = 0 THEN a ELSE GreatestCommonDivisor(b, a % b)

AspectRatioEdgeCase ==
  (<<8, 5>> :> <<16, 10>>) @@ (<<5, 8>> :> <<10, 16>>) @@
  (<<7, 3>> :> <<21, 9>>)  @@ (<<3, 7>> :> <<9, 21>>)

\* aspectRatioDenominator: reduce by the gcd, then replace the edge cases.
AspectRatioDenominator(width, height) ==
  LET gcd == GreatestCommonDivisor(width, height)
      try == <<width \div gcd, height \div gcd>>
      out == IF try \in DOMAIN AspectRatioEdgeCase THEN AspectRatioEdgeCase[try] ELSE try
  IN  Ratio(out[1], out[2])

\* m := uint64(aspect*float64(n) + 0.5), for aspect = a / b.
RoundedNumeratorTrunc(a, b, n) == (a * n) \div b
RoundedNumerator(a, b, n) == (2 * a * n + b) \div (2 * b)

\* 100 * |a/b - m/n| compared with 1, on integers: below, equal, above.
Deviation(a, b, m, n) == 100 * Abs(a * n - m * b)
WithinTolerance(a, b, m, n) == Deviation(a, b, m, n) < b * n
AtTolerance(a, b, m, n) == Deviation(a, b, m, n) = b * n

\* for n := 1; n <= 20; n++
SearchLimitOff == 21
SearchLimit == 20

\* aspectRatio: the first denominator n in 1..20 whose rounded numerator is
\* within tolerance, else the float itself.
AspectRatio(a, b) ==
  LET RECURSIVE Try(_)
      Try(n) == IF n > SearchLimit THEN {Float(a, b)}
                ELSE LET m == RoundedNumerator(a, b, n)
                     IN  IF WithinTolerance(a, b, m, n)
                         THEN {AspectRatioDenominator(m, n)}
                         ELSE IF AtTolerance(a, b, m, n)
                         THEN {AspectRatioDenominator(m, n)} \cup Try(n + 1)
                         ELSE Try(n + 1)
  IN  Try(1)

\* The aspect_ratio field of decodeBasicDisplayParameters from the two
\* screen-size bytes: undefined, portrait, landscape, or their quotient.
AspectRatioField(hScreenSize, vScreenSize) ==
  CASE hScreenSize = 0 /\ vScreenSize = 0 -> {Undefined}
    [] hScreenSize = 0 /\ vScreenSize # 0 -> AspectRatio(100, vScreenSize + 99)
    [] hScreenSize # 0 /\ vScreenSize = 0 -> AspectRatio(hScreenSize + 99, 100)
    [] hScreenSize # 0 /\ vScreenSize # 0 -> AspectRatio(hScreenSize, vScreenSize)

(***************************************************************************)
(* The symbol mappers the decoder's fields are given, as functions from    *)
(* the actual value (see Mapped in EDIDBytes).  A formula is defined on    *)
(* every value a field of at most 16 bits can hold.                        *)
(***************************************************************************)
Actuals == 0..(2^16 - 1)

ManufacturerMapper == [v \in Actuals |-> ManufacturerLetters(v)]

\* yearMapper: s.Actual + 1990.
YearMapper == [v \in Actuals |-> v + 1990]

\* horizontalAddressablePixelsMapper: (s.Actual + 31) * 8.
HorizontalAddressablePixelsMapper == [v \in Actuals |-> (v + 31) * 8]

\* addUintMapper(m), and refreshRateMapper = addUintMapper(60).
AddUintMapper(m) == [v \in Actuals |-> v + m]
RefreshRateMapper == AddUintMapper(60)

\* The aspect table of a standard timing slot.
StandardAspectMapper ==
  (0 :> "16:10") @@ (1 :> "4:3") @@ (2 :> "5:4") @@ (3 :> "16:9")

\* The tables mapTimings names a set flag by, keyed by the bit's index
\* counted from the least significant bit.
EstablishedTimingsIMapper ==
  (0 :> "800x600@60Hz") @@ (1 :> "800x600@56Hz") @@ (2 :> "640x480@75Hz") @@
  (3 :> "640x480@72Hz") @@ (4 :> "640x480@67Hz") @@ (5 :> "640x480@60Hz") @@
  (6 :> "720x400@88Hz") @@ (7 :> "720x400@70Hz")
EstablishedTimingsIIMapper ==
  (0 :> "1280x1024@75Hz") @@ (1 :> "1024x768@75Hz") @@ (2 :> "1024x768@70Hz") @@
  (3 :> "1024x768@60Hz") @@ (4 :> "1024x768@87Hz(I)") @@ (5 :> "832x624@75Hz") @@
  (6 :> "800x600@75Hz") @@ (7 :> "800x600@72Hz")
ManufacturerTimingsMapper ==
  [i \in 0..6 |-> "reserved"] @@ (7 :> "1152x870@75Hz")

=============================================================================
