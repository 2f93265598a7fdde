--------------------------- MODULE EDIDAspectRatio ---------------------------
(***************************************************************************)
(* The aspect_ratio field of decodeBasicDisplayParameters on its own: one  *)
(* step reads the two screen-size bytes (21 and 22) and renders the ratio  *)
(* through aspectRatio and aspectRatioDenominator.  Every pair of sizes in *)
(* Sizes is a possible input, and every result the float64 search can     *)
(* give for it is a possible outcome.                                      *)
(***************************************************************************)
EXTENDS EDIDMappers

CONSTANT Sizes   \* values of the screen-size bytes

VARIABLES hScreenSize, vScreenSize, aspectRatio, decoded

vars == <<hScreenSize, vScreenSize, aspectRatio, decoded>>

Init ==
  /\ hScreenSize = 0
  /\ vScreenSize = 0
  /\ aspectRatio = Undefined
  /\ decoded = FALSE

\* Bytes 21-22 and the aspect_ratio value field.
DecodeScreenSize ==
  /\ ~decoded
  /\ \E h, v \in Sizes :
       /\ hScreenSize' = h
       /\ vScreenSize' = v
       /\ aspectRatio' \in AspectRatioField(h, v)
  /\ decoded' = TRUE

\* The field is emitted; nothing changes any more.
Decoded == decoded /\ UNCHANGED vars

Next == DecodeScreenSize \/ Decoded

Spec == Init /\ [][Next]_vars

-----------------------------------------------------------------------------
TypeOK ==
  /\ hScreenSize \in Sizes \cup {0}
  /\ vScreenSize \in Sizes \cup {0}
  /\ aspectRatio.kind \in {"ratio", "undefined", "float"}
  /\ aspectRatio.w \in Nat /\ aspectRatio.h \in Nat
  \* a ratio's denominator is one the search tries, or the 21 of 9:21
  /\ aspectRatio.kind = "ratio" => aspectRatio.h \in 1..20 \/ aspectRatio = Ratio(9, 21)
  /\ decoded \in BOOLEAN

(***************************************************************************)
(* Reference for the search (spec 4.3 #6): the aspect is a / b (portrait   *)
(* 100 / (v + 99), landscape (h + 99) / 100).  A denominator n fits with   *)
(* numerator m when |a/b - m/n| < 0.01; only floor(an/b) and its successor *)
(* can.  The result is the first fitting n in 1..20 with its m, in lowest  *)
(* terms, then the four edge-case substitutions; when none fits, the       *)
(* number itself.  A difference of exactly 0.01 may go either way.         *)
(***************************************************************************)
Quotient(h, v) ==
  CASE h = 0 /\ v # 0 -> <<100, v + 99>>
    [] h # 0 /\ v = 0 -> <<h + 99, 100>>
    [] OTHER          -> <<h, v>>

Candidates(a, b, n) == {(a * n) \div b, (a * n) \div b + 1}
StrictFit(a, b, n) == {m \in Candidates(a, b, n) : 100 * Abs(a * n - m * b) < b * n}
LooseFit(a, b, n)  == {m \in Candidates(a, b, n) : 100 * Abs(a * n - m * b) <= b * n}

LowestTerms(m, n) ==
  LET g == CHOOSE g \in 1..(m + n) :
             /\ m % g = 0 /\ n % g = 0
             /\ \A k \in (g + 1)..(m + n) : ~(m % k = 0 /\ n % k = 0)
  IN  <<m \div g, n \div g>>

SpecEdgeCases == {<<8, 5, 16, 10>>, <<5, 8, 10, 16>>, <<7, 3, 21, 9>>, <<3, 7, 9, 21>>}

Rendered(m, n) ==
  LET r == LowestTerms(m, n)
  IN  IF \E q \in SpecEdgeCases : <<q[1], q[2]>> = r
      THEN LET q == CHOOSE q \in SpecEdgeCases : <<q[1], q[2]>> = r
           IN  Ratio(q[3], q[4])
      ELSE Ratio(r[1], r[2])

RefAspectRatios(h, v) ==
  IF h = 0 /\ v = 0 THEN {Undefined}
  ELSE LET a == Quotient(h, v)[1]
           b == Quotient(h, v)[2]
           fits == {n \in 1..20 : StrictFit(a, b, n) # {}}
           first == IF fits = {} THEN 20
                    ELSE CHOOSE n \in fits : \A k \in fits : n <= k
       IN  UNION {{Rendered(m, n) : m \in LooseFit(a, b, n)} : n \in 1..first}
           \cup (IF fits = {} THEN {Float(a, b)} ELSE {})

(***************************************************************************)
(* The rendered aspect_ratio of every pair of screen sizes is one that the *)
(* search of aspectRatio, as the spec describes it, gives: the rounding of *)
(* m, the first-fit order of n, the reduction and the edge cases.          *)
(***************************************************************************)
AspectRatioMatchesReference ==
  decoded => aspectRatio \in RefAspectRatios(hScreenSize, vScreenSize)

(***************************************************************************)
(* The spec's test vector for the search (section 8): sizes 61 and 90      *)
(* resolve to 16:9.                                                        *)
(***************************************************************************)
SpecAspectExample ==
  decoded /\ hScreenSize = 61 /\ vScreenSize = 90 => aspectRatio = Ratio(16, 9)
=============================================================================
