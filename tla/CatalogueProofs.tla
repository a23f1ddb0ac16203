-------------------------- MODULE CatalogueProofs --------------------------
(***************************************************************************)
(* Proofs about the values of Configuration and the behaviour of           *)
(* Catalogue: a rate is read back from its text, what the validation       *)
(* against evidence accepts, and from both the properties of a registry    *)
(* and a port that are changed, saved and restored in any order.           *)
(***************************************************************************)
EXTENDS Catalogue, FiniteSetTheorems, SequenceTheorems, WellFoundedInduction, TLAPS

----------------------------------------------------------------------------
(* Rates and their texts. *)

\* The bounds of a rate are numbers.
LEMMA RateBounds ==
  MinRate \in Nat /\ MaxRate \in Nat
BY SMT DEF MinRate, MaxRate

\* A rate is within its bounds exactly if it is in their interval.
LEMMA RateRange ==
  \A r : r \in MinRate..MaxRate <=> r \in Nat /\ MinRate <= r /\ r <= MaxRate
BY RateBounds, SMT

\* from_bits_per_second keeps a number within the bounds.
LEMMA RateFromKnown ==
  ASSUME NEW r \in Nat, MinRate <= r, r <= MaxRate
  PROVE  RateFrom(r) = r
BY RateRange, SMT DEF RateFrom

\* A fraction of 0 has no digits (PortSpeed::parse).
LEMMA NoDigits ==
  DigitCount(0) = 0
BY SMT DEF DigitCount

\* What parse does with a number that has no fraction.
LEMMA WholeRead ==
  ASSUME NEW n, NEW unit
  PROVE  Parse(Whole(n, unit)) =
           IF n > MaxRate \div Multiplier(unit) THEN 0
           ELSE RateFrom(n * Multiplier(unit) + 0 * (Multiplier(unit) \div 1))
<1>1. /\ Whole(n, unit).whole = n /\ Whole(n, unit).zeros = 0 /\ Whole(n, unit).fraction = 0
      /\ Whole(n, unit).unit = unit
  BY SMT DEF Whole
<1> HIDE DEF Whole
<1> QED BY <1>1, NoDigits, SMT DEF Parse

\* The multipliers of the three units.
LEMMA Multipliers ==
  Multiplier("K") = 1 /\ Multiplier("M") = Megabit /\ Multiplier("G") = Gigabit
BY SMT DEF Multiplier

\* A whole number of kbit/s is read back.
LEMMA KilobitsAreExact ==
  ASSUME NEW n \in Nat, MinRate <= n, n <= MaxRate PROVE  Parse(Whole(n, "K")) = n
<1>1. n <= MaxRate \div 1 BY SMT DEF MaxRate
<1>2. n * 1 + 0 * (1 \div 1) = n BY SMT
<1> QED BY <1>1, <1>2, WholeRead, Multipliers, RateFromKnown, RateBounds, SMT

\* A whole number of Mbit/s is read back.
LEMMA MegabitsAreExact ==
  ASSUME NEW n \in Nat, MinRate <= n * Megabit, n * Megabit <= MaxRate
  PROVE  Parse(Whole(n, "M")) = n * Megabit
<1>1. n <= MaxRate \div Megabit BY SMT DEF MaxRate, Megabit
<1>2. n * Megabit + 0 * (Megabit \div 1) = n*Megabit BY SMT DEF Megabit
<1>3. n * Megabit \in Nat /\ MaxRate \div Megabit \in Nat BY SMT DEF Megabit, MaxRate
<1> QED BY <1>1, <1>2, <1>3, WholeRead, Multipliers, RateFromKnown, RateBounds, SMT

\* A whole number of Gbit/s is read back.
LEMMA GigabitsAreExact ==
  ASSUME NEW n \in Nat, MinRate <= n * Gigabit, n * Gigabit <= MaxRate
  PROVE  Parse(Whole(n, "G")) = n * Gigabit
<1>1. n <= MaxRate \div Gigabit BY SMT DEF MaxRate, Gigabit
<1>2. n * Gigabit + 0 * (Gigabit \div 1) = n*Gigabit BY SMT DEF Gigabit
<1>3. n * Gigabit \in Nat /\ MaxRate \div Gigabit \in Nat BY SMT DEF Gigabit, MaxRate
<1> QED BY <1>1, <1>2, <1>3, WholeRead, Multipliers, RateFromKnown, RateBounds, SMT

\* The zeros to_string puts before a fraction, at each number of digits.
LEMMA ZerosAtScale ==
  ASSUME NEW n \in Nat
  PROVE  /\ LeadingZeros(n, 1) = 0
         /\ LeadingZeros(n, 10) = IF n < 10 THEN 1 ELSE 0
         /\ LeadingZeros(n, 100) = IF n < 10 THEN 2 ELSE IF n < 100 THEN 1 ELSE 0
<1> DEFINE S(scale) == {s \in {10, 100} : s <= scale /\ n < s}
<1>0. Cardinality({}) = 0 /\ Cardinality({10}) = 1 /\ Cardinality({100}) = 1
      /\ Cardinality({10, 100}) = 2
  <2>1. Cardinality({10}) = 1 /\ IsFiniteSet({10}) /\ Cardinality({100}) = 1
    BY FS_Singleton, Zenon
  <2>2. {10, 100} = {10} \cup {100} /\ 100 \notin {10}
    BY SMT
  <2>3. Cardinality({10} \cup {100}) = Cardinality({10}) + 1
    BY <2>1, <2>2, FS_AddElement, Zenon
  <2> QED BY <2>1, <2>2, <2>3, FS_EmptySet, SMT
<1>1. S(1) = {}
  BY SMT
<1>2. S(10) = IF n < 10 THEN {10} ELSE {}
  BY SMT
<1>3. S(100) = IF n < 10 THEN {10, 100} ELSE IF n < 100 THEN {100} ELSE {}
  BY SMT
<1>4. \A scale : LeadingZeros(n, scale) = Cardinality(S(scale))
  BY DEF LeadingZeros
<1> HIDE DEF S
<1> QED BY <1>0, <1>1, <1>2, <1>3, <1>4, SMT

\* The number of digits parse counts.
LEMMA DigitsOf ==
  ASSUME NEW n \in Nat
  PROVE  DigitCount(n) = IF n = 0 THEN 0 ELSE IF n < 10 THEN 1 ELSE IF n < 100 THEN 2 ELSE 3
<1>1. n \in 1..9 <=> n # 0 /\ n < 10
  BY SMT
<1>2. n \in 10..99 <=> n >= 10 /\ n < 100
  BY SMT
<1> QED BY <1>1, <1>2, SMT DEF DigitCount

\* The three digits of a fraction, its trailing zeros trimmed, stand for the
\* fraction again.
LEMMA FractionRead ==
  ASSUME NEW f \in Nat, f # 0, f < 1000
  PROVE  LET t == FractionOf(f)
             d == t.zeros + DigitCount(t.fraction)
         IN /\ d \in {1, 2, 3} /\ t.fraction \in Nat /\ t.zeros \in Nat
            /\ t.fraction * (Gigabit \div <<1, 10, 100, 1000>>[d + 1]) = f * Megabit
<1>0. <<1, 10, 100, 1000>>[1 + 1] = 10 /\ <<1, 10, 100, 1000>>[2 + 1] = 100
      /\ <<1, 10, 100, 1000>>[3 + 1] = 1000
  BY SMT
<1> DEFINE Shown(n, z) == /\ FractionOf(f).fraction = n /\ FractionOf(f).zeros = z
<1>a. ASSUME NEW n \in Nat, NEW z \in Nat, NEW d \in {1, 2, 3}, Shown(n, z), z + DigitCount(n) = d,
             n * (Gigabit \div <<1, 10, 100, 1000>>[d + 1]) = f * Megabit
      PROVE  LET t == FractionOf(f)
                 e == t.zeros + DigitCount(t.fraction)
             IN /\ e \in {1, 2, 3} /\ t.fraction \in Nat /\ t.zeros \in Nat
                /\ t.fraction * (Gigabit \div <<1, 10, 100, 1000>>[e + 1]) = f * Megabit
  BY <1>a, SMT
<1>1. CASE f % 100 = 0
  <2>1. f \div 100 \in Nat /\ f \div 100 # 0 /\ f \div 100 < 10
    BY <1>1, SMT
  <2>2. Shown(f \div 100, 0)
    BY <1>1, <2>1, ZerosAtScale, SMT DEF FractionOf
  <2>3. 0 + DigitCount(f \div 100) = 1
    BY <2>1, DigitsOf, SMT
  <2>4. (f \div 100) * (Gigabit \div 10) = f * Megabit
    BY <1>1, SMT DEF Gigabit, Megabit
  <2> QED BY <2>1, <2>2, <2>3, <2>4, <1>0, <1>a, SMT
<1>2. CASE f % 100 # 0 /\ f % 10 = 0
  <2>1. f \div 10 \in Nat /\ f \div 10 # 0 /\ f \div 10 < 100
    BY <1>2, SMT
  <2>2. Shown(f \div 10, IF f \div 10 < 10 THEN 1 ELSE 0)
    BY <1>2, <2>1, ZerosAtScale, SMT DEF FractionOf
  <2>3. (IF f \div 10 < 10 THEN 1 ELSE 0) + DigitCount(f \div 10) = 2
    BY <2>1, DigitsOf, SMT
  <2>4. (f \div 10) * (Gigabit \div 100) = f * Megabit
    BY <1>2, SMT DEF Gigabit, Megabit
  <2> QED BY <2>1, <2>2, <2>3, <2>4, <1>0, <1>a, SMT
<1>3. CASE f % 100 # 0 /\ f % 10 # 0
  <2>2. Shown(f, IF f < 10 THEN 2 ELSE IF f < 100 THEN 1 ELSE 0)
    BY <1>3, ZerosAtScale, SMT DEF FractionOf
  <2>3. (IF f < 10 THEN 2 ELSE IF f < 100 THEN 1 ELSE 0) + DigitCount(f) = 3
    BY DigitsOf, SMT
  <2>4. f * (Gigabit \div 1000) = f * Megabit
    BY SMT DEF Gigabit, Megabit
  <2> QED BY <2>2, <2>3, <2>4, <1>0, <1>a, SMT
<1> QED BY <1>1, <1>2, <1>3

\* A number of Gbit/s with a fraction is read back.
LEMMA FractionalIsExact ==
  ASSUME NEW w \in Nat, NEW f \in Nat, f # 0, f < 1000,
         MinRate <= w * Gigabit + f * Megabit, w * Gigabit + f * Megabit <= MaxRate,
         NEW t, t = Fractional(w, FractionOf(f))
  PROVE  Parse(t) = w * Gigabit + f * Megabit
<1>1. t.whole = w /\ t.zeros = FractionOf(f).zeros /\ t.fraction = FractionOf(f).fraction
      /\ t.unit = "G"
  BY SMT DEF Fractional
<1> DEFINE d == t.zeros + DigitCount(t.fraction)
<1>2. /\ d \in {1, 2, 3} /\ t.fraction \in Nat /\ t.zeros \in Nat
      /\ t.fraction * (Gigabit \div <<1, 10, 100, 1000>>[d + 1]) = f * Megabit
  BY <1>1, FractionRead, SMT
<1>3. w <= MaxRate \div Gigabit
  BY SMT DEF MaxRate, Gigabit, Megabit
<1>4. MaxRate \div Gigabit \in Nat /\ w * Gigabit \in Nat /\ f * Megabit \in Nat
  BY SMT DEF MaxRate, Gigabit, Megabit
<1>5. Parse(t) = RateFrom(w * Gigabit + t.fraction * (Gigabit \div <<1, 10, 100, 1000>>[d + 1]))
  <2>1. Parse(t) = IF d > 3 \/ t.whole > MaxRate \div Multiplier(t.unit) THEN 0
                   ELSE RateFrom(t.whole * Multiplier(t.unit)
                          + t.fraction * (Multiplier(t.unit) \div <<1, 10, 100, 1000>>[d + 1]))
    BY Zenon DEF Parse
  <2>2. ~(d > 3) /\ ~(w > MaxRate \div Gigabit)
    BY <1>2, <1>3, <1>4, SMT
  <2> HIDE DEF d
  <2>3. Multiplier(t.unit) = Gigabit
    BY <1>1, Multipliers, Zenon
  <2>4. t.whole = w
    BY <1>1, Zenon
  <2> HIDE <1>1
  <2> QED BY <2>1, <2>2, <2>3, <2>4, SMT
<1> HIDE DEF d
<1> QED BY <1>2, <1>4, <1>5, RateFromKnown, SMT

\* PortSpeed::parse reads back what to_string has rendered, for every rate.
THEOREM RatesAreReadBack ==
  ASSUME NEW r, IsRate(r)
  PROVE  Parse(Render(r)) = r
<1>0. r = 0 \/ (r \in Nat /\ MinRate <= r /\ r <= MaxRate)
  BY RateRange, Zenon DEF IsRate
<1>z. CASE r = 0
  <2>1. Render(r) = Whole(0, "G")
    BY <1>z, SMT DEF Render, Gigabit, Megabit
  <2>2. Parse(Whole(0, "G")) = RateFrom(0)
    <3>1. ~(0 > MaxRate \div Gigabit) /\ 0 * Gigabit + 0 * (Gigabit \div 1) = 0
      BY SMT DEF MaxRate, Gigabit
    <3> QED BY <3>1, WholeRead, Multipliers, SMT
  <2>3. RateFrom(0) = 0
    BY RateRange, SMT DEF RateFrom
  <2> QED BY <2>1, <2>2, <2>3, <1>z
<1> SUFFICES ASSUME r \in Nat, r # 0, MinRate <= r, r <= MaxRate PROVE Parse(Render(r)) = r
  BY <1>0, <1>z, SMT
<1>1. CASE r % Gigabit = 0
  <2>1. r \div Gigabit \in Nat /\ (r \div Gigabit) * Gigabit = r
    BY <1>1, SMT DEF Gigabit
  <2>2. Render(r) = Whole(r \div Gigabit, "G")
    BY <1>1, SMT DEF Render
  <2> QED BY <2>1, <2>2, GigabitsAreExact, SMT
<1>2. CASE r % Gigabit # 0 /\ r % Megabit = 0 /\ r > Gigabit
  <2> DEFINE w == r \div Gigabit
             f == (r % Gigabit) \div Megabit
  <2>1. w \in Nat /\ f \in Nat /\ f # 0 /\ f < 1000 /\ w * Gigabit + f * Megabit = r
    BY <1>2, SMT DEF Gigabit, Megabit
  <2>2. Render(r) = Fractional(w, FractionOf(f))
    <3>1. Gigabit \in Nat /\ ~(r < Gigabit)
      BY <1>2, SMT DEF Gigabit
    <3> QED BY <1>2, <3>1, SMT DEF Render
  <2> HIDE DEF w, f
  <2> QED BY <2>1, <2>2, FractionalIsExact, SMT
<1>3. CASE r % Gigabit # 0 /\ r % Megabit = 0 /\ r < Gigabit
  <2>1. r \div Megabit \in Nat /\ (r \div Megabit) * Megabit = r
    BY <1>3, SMT DEF Megabit
  <2>2. Render(r) = Whole(r \div Megabit, "M")
    BY <1>3, SMT DEF Render
  <2> QED BY <2>1, <2>2, MegabitsAreExact, SMT
<1>4. CASE r % Gigabit # 0 /\ r % Megabit # 0
  <2>1. Render(r) = Whole(r, "K")
    BY <1>4, SMT DEF Render
  <2> QED BY <2>1, KilobitsAreExact, SMT
<1>5. r = Gigabit => r % Gigabit = 0
  BY SMT DEF Gigabit
<1>6. Gigabit \in Nat /\ r % Gigabit \in Nat /\ r % Megabit \in Nat
  BY SMT DEF Gigabit, Megabit
<1> QED BY <1>1, <1>2, <1>3, <1>4, <1>5, <1>6, SMT

\* Two rates whose texts are equal are equal: canonical_payload may compare
\* texts.
LEMMA TextsTellRatesApart ==
  ASSUME NEW r, IsRate(r), NEW s, IsRate(s), Render(r) = Render(s)
  PROVE  r = s
BY RatesAreReadBack, Zenon

\* to_string yields a text for every rate.
LEMMA RendersText ==
  \A r : IsRate(r) => Render(r) \in Texts
<1> SUFFICES ASSUME NEW r, IsRate(r) PROVE Render(r) \in Texts
  OBVIOUS
<1>1. r \in Nat
  BY RateRange, SMT DEF IsRate
<1>2. ASSUME NEW n \in Nat, NEW u \in {"G", "M", "K"} PROVE Whole(n, u) \in Texts
  BY SMT DEF Whole, Texts
<1>3. ASSUME NEW n \in Nat, NEW f \in Nat, f # 0, f < 1000 PROVE Fractional(n, FractionOf(f)) \in Texts
  <2>1. FractionOf(f).zeros \in Nat /\ FractionOf(f).fraction \in Nat
    BY <1>3, FractionRead
  <2> QED BY <2>1, SMT DEF Fractional, Texts
<1>4. r \div Gigabit \in Nat /\ r \div Megabit \in Nat
  BY <1>1, SMT DEF Gigabit, Megabit
<1>5. r % Gigabit # 0 /\ r % Megabit = 0 => /\ (r % Gigabit) \div Megabit \in Nat
        /\ (r % Gigabit) \div Megabit # 0 /\ (r % Gigabit) \div Megabit < 1000
  BY <1>1, SMT DEF Gigabit, Megabit
<1>6. r > Gigabit \/ r < Gigabit \/ r = Gigabit
  BY <1>1, SMT DEF Gigabit
<1>7. r = Gigabit => r % Gigabit = 0
  BY SMT DEF Gigabit
<1>8. CASE r % Gigabit = 0
  <2>1. Render(r) = Whole(r \div Gigabit, "G")
    BY <1>8, SMT DEF Render
  <2> QED BY <2>1, <1>2, <1>4, Zenon
<1>9. CASE r % Gigabit # 0 /\ r % Megabit = 0
  <2>1. CASE r > Gigabit
    <3>1. Render(r) = Fractional(r \div Gigabit, FractionOf((r % Gigabit) \div Megabit))
      <4>1. Gigabit \in Nat /\ ~(r < Gigabit)
        BY <1>1, <2>1, SMT DEF Gigabit
      <4> QED BY <1>9, <2>1, <4>1, SMT DEF Render
    <3> QED BY <3>1, <1>3, <1>4, <1>5, <1>9, Zenon
  <2>2. CASE r < Gigabit
    <3>1. Render(r) = Whole(r \div Megabit, "M")
      BY <1>9, <2>2, SMT DEF Render
    <3> QED BY <3>1, <1>2, <1>4, Zenon
  <2> QED BY <2>1, <2>2, <1>6, <1>7, <1>9
<1>10. CASE r % Gigabit # 0 /\ r % Megabit # 0
  <2>1. Render(r) = Whole(r, "K")
    BY <1>10, SMT DEF Render
  <2> QED BY <2>1, <1>1, <1>2, Zenon
<1> QED BY <1>8, <1>9, <1>10

----------------------------------------------------------------------------
(* Validation against evidence. *)

\* A set of indexes that is not empty has a smallest one.
LEMMA SmallestIndex ==
  ASSUME NEW S, S \subseteq Nat, S # {}
  PROVE  \E i \in S : \A j \in S : i <= j
<1>1. \E i \in S : \A j \in S : ~(<<j, i>> \in OpToRel(<, Nat))
  BY NatLessThanWellFounded, WFMin, Zenon
<1>2. PICK i \in S : \A j \in S : ~(<<j, i>> \in OpToRel(<, Nat))
  BY <1>1
<1>3. \A j \in S : <<j, i>> \in OpToRel(<, Nat) <=> j < i
  BY SMT DEF OpToRel
<1>4. \A j \in S : i <= j
  <2>1. \A j \in S : ~(j < i) /\ i \in Nat /\ j \in Nat
    BY <1>2, <1>3, Zenon
  <2> QED BY <2>1, SMT
<1> QED BY <1>4
\* Every check of a list accepts.
AllPass(checks) == \A i \in DOMAIN checks : checks[i] = "ACCEPTED"

\* A list of checks accepts exactly if every check does: the answer is the
\* reason of the first that does not.
LEMMA FirstFailureAccepts ==
  ASSUME NEW R, NEW checks \in Seq(R)
  PROVE  FirstFailure(checks) = "ACCEPTED" <=> AllPass(checks)
<1> DEFINE failing == {i \in DOMAIN checks : checks[i] # "ACCEPTED"}
<1>1. failing = {} <=> AllPass(checks)
  BY Zenon DEF AllPass
<1>2. ASSUME failing # {} PROVE FirstFailure(checks) # "ACCEPTED"
  <2>1. failing \subseteq Nat
    BY SMT
  <2>2. \E i \in failing : \A j \in failing : i <= j
    BY <2>1, <1>2, SmallestIndex, Zenon
  <2> DEFINE first == CHOOSE i \in failing : \A j \in failing : i <= j
  <2>3. first \in failing
    BY <2>2, Zenon
  <2>4. checks[first] # "ACCEPTED"
    BY <2>3, Zenon
  <2>5. FirstFailure(checks) = checks[first]
    BY <1>2, Zenon DEF FirstFailure
  <2> QED BY <2>4, <2>5
<1>3. failing = {} => FirstFailure(checks) = "ACCEPTED"
  BY Zenon DEF FirstFailure
<1> QED BY <1>1, <1>2, <1>3

\* Two lists of checks, one after the other, pass if both do.
LEMMA PassesBoth ==
  ASSUME NEW R, NEW s \in Seq(R), NEW t \in Seq(R)
  PROVE  AllPass(s \o t) <=> AllPass(s) /\ AllPass(t)
<1>1. /\ DOMAIN (s \o t) = 1..(Len(s) + Len(t)) /\ DOMAIN s = 1..Len(s) /\ DOMAIN t = 1..Len(t)
      /\ \A i \in 1..(Len(s) + Len(t)) : (s \o t)[i] = IF i <= Len(s) THEN s[i] ELSE t[i - Len(s)]
      /\ Len(s) \in Nat /\ Len(t) \in Nat
  BY ConcatProperties, LenProperties, SMT
<1>2. ASSUME AllPass(s \o t) PROVE AllPass(s) /\ AllPass(t)
  <2>1. \A i \in 1..Len(s) : i \in 1..(Len(s) + Len(t)) /\ (s \o t)[i] = s[i]
    BY <1>1, SMT
  <2>2. \A i \in 1..Len(t) : i + Len(s) \in 1..(Len(s) + Len(t)) /\ (s \o t)[i + Len(s)] = t[i]
    BY <1>1, SMT
  <2>3. \A i \in 1..Len(s) : s[i] = "ACCEPTED"
    BY <1>1, <1>2, <2>1, SMT DEF AllPass
  <2>4. \A i \in 1..Len(t) : t[i] = "ACCEPTED"
    <3> TAKE i \in 1..Len(t)
    <3>1. i + Len(s) \in DOMAIN (s \o t) /\ (s \o t)[i + Len(s)] = t[i]
      BY <1>1, <2>2, Zenon
    <3> QED BY <3>1, <1>2, Zenon DEF AllPass
  <2> QED BY <1>1, <2>3, <2>4, SMT DEF AllPass
<1>3. ASSUME AllPass(s), AllPass(t) PROVE AllPass(s \o t)
  <2>1. \A i \in 1..(Len(s) + Len(t)) :
         IF i <= Len(s) THEN i \in 1..Len(s) ELSE i - Len(s) \in 1..Len(t)
    BY <1>1, SMT
  <2> QED BY <1>1, <1>3, <2>1, SMT DEF AllPass
<1> QED BY <1>2, <1>3

\* The reasons a check may name.
Reasons ==
  {"ACCEPTED", "CAPABILITY_UNBOUND", "CAPABILITY_EVIDENCE_INVALID", "CAPABILITY_UNKNOWN",
   "LANE_TOTAL_OVERFLOW", "SPEED_AUTO_UNSUPPORTED", "SPEED_UNSUPPORTED", "LANE_RATE_MISMATCH",
   "LANE_COUNT_UNSUPPORTED", "BREAKOUT_UNSUPPORTED", "BREAKOUT_FANOUT_UNSUPPORTED",
   "PROTOCOL_UNSUPPORTED", "PROTOCOL_UNKNOWN", "FEC_UNSUPPORTED", "FEC_UNKNOWN",
   "AUTONEG_UNSUPPORTED", "AUTONEG_UNKNOWN", "PAUSE_UNSUPPORTED", "PAUSE_UNKNOWN",
   "DUPLEX_UNSUPPORTED", "DUPLEX_UNKNOWN", "MTU_OUT_OF_RANGE", "MTU_UNKNOWN",
   "LOGICAL_INTERFACE_UNSUPPORTED", "TRANSCEIVER_UNKNOWN"}
Checks == Seq(Reasons)

\* What a configuration must satisfy to be accepted, dimension by dimension.
ModeOk(k, values, v) == v # "Unknown" /\ (v # "Unsupported" => Lists(k, values, v))
SpeedOk(c, b) ==
  LET k == b.capabilities
      total == LaneTotal(c.lanes, c.per_lane)
  IN /\ b.present /\ b.generation # 0 /\ CapabilitiesValid(k) /\ k.certainty # "Unknown"
     /\ total # 0
     /\ IF c.speed_selection = "Forced" THEN SupportsSpeed(k, c.speed_rate) /\ c.speed_rate = total
        ELSE total \in ToSet(k.supported_speeds)
LanesOk(c, k) ==
  /\ SupportsLanes(k, c.lanes)
  /\ c.breakout # "None" =>
       k.breakout_supported /\ ~(BreakoutChildren(c.breakout) > k.max_breakout_children)
  /\ c.protocol # "Unknown" /\ Lists(k, k.protocol_families, c.protocol)
LimitsOk(c, k) ==
  /\ c.duplex # "Unknown" /\ (c.duplex # "Unsupported" => k.duplex \in {"Unknown", c.duplex})
  /\ k.mtu_max # 0 /\ c.mtu \in k.mtu_min..k.mtu_max
  /\ c.mode = "Logical" => k.logical_interface_supported
  /\ ~(k.transceiver_required /\ k.transceiver_class = "")

\* The evidence, rate and speed checks pass exactly if SpeedOk.
LEMMA SpeedPass ==
  ASSUME NEW c, NEW b
  PROVE  SpeedChecks(c, b) \in Checks /\ (AllPass(SpeedChecks(c, b)) <=> SpeedOk(c, b))
<1>1. SpeedChecks(c, b) \in Checks
  BY SMT DEF SpeedChecks, Checks, Reasons, Verdict
<1>2. AllPass(SpeedChecks(c, b)) <=> SpeedOk(c, b)
  BY SMT DEF SpeedChecks, AllPass, Verdict, SpeedOk
<1> QED BY <1>1, <1>2

\* The lane, breakout and protocol checks pass exactly if LanesOk.
LEMMA LanesPass ==
  ASSUME NEW c, NEW k
  PROVE  LaneChecks(c, k) \in Checks /\ (AllPass(LaneChecks(c, k)) <=> LanesOk(c, k))
<1>1. LaneChecks(c, k) \in Checks
  BY SMT DEF LaneChecks, Checks, Reasons, Verdict
<1>2. AllPass(LaneChecks(c, k)) <=> LanesOk(c, k)
  BY SMT DEF LaneChecks, AllPass, Verdict, LanesOk
<1> QED BY <1>1, <1>2

\* The duplex, MTU, interface and transceiver checks pass exactly if
\* LimitsOk.
LEMMA LimitsPass ==
  ASSUME NEW c, NEW k
  PROVE  LimitChecks(c, k) \in Checks /\ (AllPass(LimitChecks(c, k)) <=> LimitsOk(c, k))
<1>1. LimitChecks(c, k) \in Checks
  BY SMT DEF LimitChecks, Checks, Reasons, Verdict
<1>2. AllPass(LimitChecks(c, k)) <=> LimitsOk(c, k)
  <2> DEFINE s == LimitChecks(c, k)
             unknown == c.duplex = "Unknown"
             other == c.duplex \notin {"Unknown", "Unsupported"} /\ k.duplex \notin {"Unknown", c.duplex}
             ranged == c.mtu \in k.mtu_min..k.mtu_max
             unbounded == k.mtu_max = 0
             hidden == c.mode = "Logical" /\ ~k.logical_interface_supported
             missing == k.transceiver_required /\ k.transceiver_class = ""
  <2>1. LimitsOk(c, k) <=> ~unknown /\ ~other /\ ranged /\ ~unbounded /\ ~hidden /\ ~missing
    BY Zenon DEF LimitsOk
  <2>2. s = <<Verdict(other, "DUPLEX_UNSUPPORTED"), Verdict(unknown, "DUPLEX_UNKNOWN"),
              Verdict(~unbounded /\ ~ranged, "MTU_OUT_OF_RANGE"), Verdict(unbounded, "MTU_UNKNOWN"),
              Verdict(hidden, "LOGICAL_INTERFACE_UNSUPPORTED"), Verdict(missing, "TRANSCEIVER_UNKNOWN")>>
    BY Zenon DEF LimitChecks
  <2> HIDE DEF s, unknown, other, ranged, unbounded, hidden, missing
  <2>3. AllPass(s) <=> ~other /\ ~unknown /\ (unbounded \/ ranged) /\ ~unbounded /\ ~hidden /\ ~missing
    BY <2>2, SMT DEF AllPass, Verdict
  <2>4. AllPass(s) <=> LimitsOk(c, k)
    BY <2>1, <2>3, Zenon
  <2> QED BY <2>4 DEF s
<1> QED BY <1>1, <1>2

\* The two checks of a mode pass exactly if it is known and, unless it is
\* UNSUPPORTED, listed.
LEMMA ModePass ==
  ASSUME NEW k, NEW values, NEW v, NEW x \in Reasons \ {"ACCEPTED"}, NEW y \in Reasons \ {"ACCEPTED"}
  PROVE  /\ ModeChecks(k, values, v, x, y) \in Checks
         /\ AllPass(ModeChecks(k, values, v, x, y)) <=> ModeOk(k, values, v)
<1>1. ModeChecks(k, values, v, x, y) \in Checks
  BY SMT DEF ModeChecks, Checks, Reasons, Verdict
<1>2. AllPass(ModeChecks(k, values, v, x, y)) <=> ModeOk(k, values, v)
  BY SMT DEF ModeChecks, AllPass, Verdict, ModeOk
<1> QED BY <1>1, <1>2

\* What validate_against_capabilities accepts, in one formula.
THEOREM AcceptsExactly ==
  ASSUME NEW c, NEW b, NEW k, k = b.capabilities
  PROVE  Accepts(c, b) <=>
           /\ SpeedOk(c, b) /\ LanesOk(c, k)
           /\ ModeOk(k, k.fec_modes, c.fec) /\ ModeOk(k, k.autoneg_modes, c.autoneg)
           /\ ModeOk(k, k.pause_modes, c.pause) /\ LimitsOk(c, k)
<1> DEFINE s1 == SpeedChecks(c, b)
           s2 == LaneChecks(c, k)
           s3 == ModeChecks(k, k.fec_modes, c.fec, "FEC_UNSUPPORTED", "FEC_UNKNOWN")
           s4 == ModeChecks(k, k.autoneg_modes, c.autoneg, "AUTONEG_UNSUPPORTED", "AUTONEG_UNKNOWN")
           s5 == ModeChecks(k, k.pause_modes, c.pause, "PAUSE_UNSUPPORTED", "PAUSE_UNKNOWN")
           s6 == LimitChecks(c, k)
           all == s1 \o s2 \o s3 \o s4 \o s5 \o s6
<1>1. Accepts(c, b) <=> FirstFailure(all) = "ACCEPTED"
  BY Zenon DEF Accepts, ValidateAgainstCapabilities
<1>2. /\ s1 \in Seq(Reasons) /\ s2 \in Seq(Reasons) /\ s6 \in Seq(Reasons)
      /\ AllPass(s1) <=> SpeedOk(c, b)
      /\ AllPass(s2) <=> LanesOk(c, k)
      /\ AllPass(s6) <=> LimitsOk(c, k)
  BY SpeedPass, LanesPass, LimitsPass, Zenon DEF Checks
<1>3. /\ "FEC_UNSUPPORTED" \in Reasons \ {"ACCEPTED"}
      /\ "FEC_UNKNOWN" \in Reasons \ {"ACCEPTED"}
      /\ "AUTONEG_UNSUPPORTED" \in Reasons \ {"ACCEPTED"}
      /\ "AUTONEG_UNKNOWN" \in Reasons \ {"ACCEPTED"}
      /\ "PAUSE_UNSUPPORTED" \in Reasons \ {"ACCEPTED"}
      /\ "PAUSE_UNKNOWN" \in Reasons \ {"ACCEPTED"}
  BY SMT DEF Reasons
<1>4. s3 \in Seq(Reasons) /\ (AllPass(s3) <=> ModeOk(k, k.fec_modes, c.fec))
  BY <1>3, ModePass, Zenon DEF Checks
<1>5. s4 \in Seq(Reasons) /\ (AllPass(s4) <=> ModeOk(k, k.autoneg_modes, c.autoneg))
  BY <1>3, ModePass, Zenon DEF Checks
<1>6. s5 \in Seq(Reasons) /\ (AllPass(s5) <=> ModeOk(k, k.pause_modes, c.pause))
  BY <1>3, ModePass, Zenon DEF Checks
<1> HIDE DEF s1, s2, s3, s4, s5, s6
<1>7. \A s, t \in Seq(Reasons) :
        s \o t \in Seq(Reasons) /\ (AllPass(s \o t) <=> AllPass(s) /\ AllPass(t))
  BY PassesBoth, ConcatProperties, Zenon
<1>8. all \in Seq(Reasons) /\ (AllPass(all) <=> /\ AllPass(s1) /\ AllPass(s2) /\ AllPass(s3)
                                             /\ AllPass(s4) /\ AllPass(s5) /\ AllPass(s6))
  <2>1. s1 \o s2 \in Seq(Reasons) /\ (AllPass(s1 \o s2) <=> AllPass(s1) /\ AllPass(s2))
    BY <1>2, <1>7, Zenon
  <2> DEFINE u == s1 \o s2
  <2> HIDE DEF u
  <2>2. u \o s3 \in Seq(Reasons) /\ (AllPass(u \o s3) <=> AllPass(u) /\ AllPass(s3))
    BY <2>1, <1>4, <1>7, Zenon DEF u
  <2> DEFINE v == u \o s3
  <2> HIDE DEF v
  <2>3. v \o s4 \in Seq(Reasons) /\ (AllPass(v \o s4) <=> AllPass(v) /\ AllPass(s4))
    BY <2>2, <1>5, <1>7, Zenon DEF v
  <2> DEFINE w == v \o s4
  <2> HIDE DEF w
  <2>4. w \o s5 \in Seq(Reasons) /\ (AllPass(w \o s5) <=> AllPass(w) /\ AllPass(s5))
    BY <2>3, <1>6, <1>7, Zenon DEF w
  <2> DEFINE x == w \o s5
  <2> HIDE DEF x
  <2>5. x \o s6 \in Seq(Reasons) /\ (AllPass(x \o s6) <=> AllPass(x) /\ AllPass(s6))
    BY <2>4, <1>2, <1>7, Zenon DEF x
  <2> QED BY <2>1, <2>2, <2>3, <2>4, <2>5, Zenon DEF u, v, w, x
<1> HIDE DEF all
<1>9. FirstFailure(all) = "ACCEPTED" <=> AllPass(all)
  BY <1>8, FirstFailureAccepts, Zenon
<1> QED BY <1>1, <1>2, <1>4, <1>5, <1>6, <1>8, <1>9, Zenon

----------------------------------------------------------------------------
(* Lanes and breakouts. *)

\* The total of lanes, where there is one, is their number times their rate:
\* neither the multiplication nor the bound of a rate has been exceeded.
LEMMA TotalIsExact ==
  ASSUME NEW lanes \in Nat, NEW perLane \in Nat, LaneTotal(lanes, perLane) # 0
  PROVE  lanes # 0 /\ LaneTotal(lanes, perLane) = lanes * perLane
<1>1. lanes # 0 /\ LaneTotal(lanes, perLane) = RateFrom(perLane * lanes)
  BY SMT DEF LaneTotal
<1>2. RateFrom(perLane * lanes) = perLane * lanes
  BY <1>1, Zenon DEF RateFrom
<1>3. perLane * lanes = lanes * perLane
  BY SMT
<1> QED BY <1>1, <1>2, <1>3

\* The breakout modes have 1, 2, 4 and 8 children.
LEMMA Children ==
  ASSUME NEW mode \in ToSet(BreakoutMode)
  PROVE  BreakoutChildren(mode) \in {1, 2, 4, 8} /\ (mode = "None" <=> BreakoutChildren(mode) = 1)
<1>1. ToSet(BreakoutMode) = {"None", "X2", "X4", "X8"}
  BY SMT DEF ToSet, BreakoutMode
<1> QED BY <1>1, SMT DEF BreakoutChildren

\* Lanes that are divisible among the children are all given to them.
LEMMA BreakoutIsExact ==
  ASSUME NEW lanes \in Nat, NEW perLane \in Nat, NEW n \in {1, 2, 4, 8}, n # 1 => lanes % n = 0
  PROVE  n * ((lanes \div n) * perLane) = lanes * perLane
<1>1. n * (lanes \div n) = lanes /\ lanes \div n \in Nat
  BY SMT
<1>2. \A a, b, p \in Nat : a * (b * p) = (a * b) * p
  BY SMT
<1> QED BY <1>1, <1>2, SMT

\* What PortConfiguration::validate and validate_against_capabilities both
\* accept can be done.
LEMMA AcceptedIsRealisable ==
  ASSUME NEW c, IsConfiguration(c), NEW b, IsCapabilities(b.capabilities),
         ConfigurationValid(c), Accepts(c, b)
  PROVE  Realisable(c, b.capabilities)
<1> DEFINE k == b.capabilities
           n == BreakoutChildren(c.breakout)
           total == LaneTotal(c.lanes, c.per_lane)
<1>1. SpeedOk(c, b) /\ LanesOk(c, k) /\ LimitsOk(c, k)
  BY AcceptsExactly, Zenon
<1>2. c.lanes \in Nat /\ c.per_lane \in Nat /\ c.breakout \in ToSet(BreakoutMode)
  BY RateRange, SMT DEF IsConfiguration, IsRate, MaxLanes
<1>3. total # 0 /\ total = c.lanes * c.per_lane
  BY <1>1, <1>2, TotalIsExact, Zenon DEF SpeedOk
<1>4. IF c.speed_selection = "Forced" THEN SupportsSpeed(k, c.speed_rate) /\ c.speed_rate = total
      ELSE total \in ToSet(k.supported_speeds)
  BY <1>1, Zenon DEF SpeedOk
<1>5. total \in ToSet(k.supported_speeds) /\ (c.speed_selection = "Forced" => c.speed_rate = total)
  BY <1>4, Zenon DEF SupportsSpeed
<1>6. n \in {1, 2, 4, 8} /\ (c.breakout = "None" <=> n = 1)
  BY <1>2, Children, Zenon
<1>7. c.breakout # "None" => c.lanes % n = 0
  BY Zenon DEF ConfigurationValid, LanesAreDivisible
<1>8. n * ((c.lanes \div n) * c.per_lane) = c.lanes * c.per_lane
  <2>1. n # 1 => c.lanes % n = 0
    BY <1>6, <1>7, Zenon
  <2> HIDE DEF n
  <2> QED BY <1>2, <1>6, <2>1, BreakoutIsExact, Zenon
<1>9. n > 1 => k.breakout_supported /\ n <= k.max_breakout_children
  <2>1. k.max_breakout_children \in Nat
    BY SMT DEF IsCapabilities
  <2>2. n > 1 => k.breakout_supported /\ ~(n > k.max_breakout_children)
    BY <1>1, <1>6, SMT DEF LanesOk
  <2> QED BY <1>6, <2>1, <2>2, SMT
<1>10. c.mtu \in k.mtu_min..k.mtu_max
  BY <1>1, Zenon DEF LimitsOk
<1>11. c.lanes * c.per_lane \in ToSet(k.supported_speeds)
       /\ (c.speed_selection = "Forced" => c.speed_rate = c.lanes * c.per_lane)
  BY <1>3, <1>5, Zenon
<1> QED BY <1>8, <1>9, <1>10, <1>11, Zenon DEF Realisable

----------------------------------------------------------------------------
(* Configurations an operation derives from others. *)

\* A configuration stays one when no field changes that the types of
\* PortConfiguration restrict.
LEMMA SameTypes ==
  ASSUME NEW c, IsConfiguration(c), NEW d, DOMAIN d = ConfigurationFields,
         d.speed_rate = c.speed_rate, d.per_lane = c.per_lane, d.lanes = c.lanes, d.mtu = c.mtu,
         d.breakout = c.breakout
  PROVE  IsConfiguration(d)
BY Zenon DEF IsConfiguration

\* The binding of a configuration does not depend on its other fields.
LEMMA SameBinding ==
  ASSUME NEW c, NEW d, d.profile_bound = c.profile_bound, d.profile_id = c.profile_id,
         d.profile_generation = c.profile_generation
  PROVE  IsDefined(c) <=> IsDefined(d)
BY Zenon DEF IsDefined

\* The fields the engine fills in keep a configuration what it is, and its
\* profile binding.
LEMMA CompletedIsConfiguration ==
  ASSUME NEW c, IsConfiguration(c), NEW g
  PROVE  IsConfiguration(Completed(c, g)) /\ (IsDefined(c) <=> IsDefined(Completed(c, g)))
<1> DEFINE d == Completed(c, g)
<1>1. DOMAIN c = ConfigurationFields
  BY Zenon DEF IsConfiguration
<1>2. DOMAIN d = ConfigurationFields
  BY <1>1, Zenon DEF Completed
<1>3. d.speed_rate = c.speed_rate /\ d.per_lane = c.per_lane /\ d.lanes = c.lanes
  BY <1>1, SMT DEF ConfigurationFields, Completed
<1>4. d.mtu = c.mtu /\ d.breakout = c.breakout
  BY <1>1, SMT DEF ConfigurationFields, Completed
<1>5. d.profile_bound = c.profile_bound /\ d.profile_id = c.profile_id
      /\ d.profile_generation = c.profile_generation
  BY <1>1, SMT DEF ConfigurationFields, Completed
<1> HIDE DEF d
<1>6. IsConfiguration(d)
  BY <1>2, <1>3, <1>4, SameTypes, Zenon
<1>7. IsDefined(c) <=> IsDefined(d)
  BY <1>5, SameBinding, Zenon
<1> QED BY <1>6, <1>7 DEF d

\* So does a new generation.
LEMMA AdvancedIsConfiguration ==
  ASSUME NEW c, IsConfiguration(c)
  PROVE  IsConfiguration(Advanced(c)) /\ (IsDefined(c) <=> IsDefined(Advanced(c)))
<1> DEFINE d == Advanced(c)
<1>1. DOMAIN c = ConfigurationFields
  BY Zenon DEF IsConfiguration
<1>2. DOMAIN d = ConfigurationFields
  BY <1>1, Zenon DEF Advanced
<1>3. d.speed_rate = c.speed_rate /\ d.per_lane = c.per_lane /\ d.lanes = c.lanes
  BY <1>1, SMT DEF ConfigurationFields, Advanced
<1>4. d.mtu = c.mtu /\ d.breakout = c.breakout
  BY <1>1, SMT DEF ConfigurationFields, Advanced
<1>5. d.profile_bound = c.profile_bound /\ d.profile_id = c.profile_id
      /\ d.profile_generation = c.profile_generation
  BY <1>1, SMT DEF ConfigurationFields, Advanced
<1> HIDE DEF d
<1>6. IsConfiguration(d)
  BY <1>2, <1>3, <1>4, SameTypes, Zenon
<1>7. IsDefined(c) <=> IsDefined(d)
  BY <1>5, SameBinding, Zenon
<1> QED BY <1>6, <1>7 DEF d

\* The overlay of a profile yields a configuration again (apply_profile).
LEMMA OverlayIsConfiguration ==
  ASSUME NEW p, IsProfileConfiguration(p), NEW c, IsConfiguration(c)
  PROVE  IsConfiguration(ApplyProfile(p, c))
<1> DEFINE d == ApplyProfile(p, c)
<1>1. DOMAIN c = ConfigurationFields
  BY Zenon DEF IsConfiguration
<1>2. DOMAIN d = ConfigurationFields
  BY <1>1, Zenon DEF ApplyProfile
<1>3. d.speed_rate \in {c.speed_rate, p.speed_rate}
  BY <1>1, SMT DEF ApplyProfile, ConfigurationFields
<1>4. d.mtu \in {c.mtu, p.mtu}
  BY <1>1, SMT DEF ApplyProfile, ConfigurationFields
<1>5. d.breakout \in {c.breakout, p.breakout}
  BY <1>1, SMT DEF ApplyProfile, ConfigurationFields
<1>6. d.per_lane = c.per_lane /\ d.lanes = c.lanes
  BY <1>1, SMT DEF ApplyProfile, ConfigurationFields
<1> HIDE DEF d
<1>7. IsRate(d.speed_rate) /\ IsMtu(d.mtu) /\ d.breakout \in ToSet(BreakoutMode)
  <2>1. /\ IsRate(c.speed_rate) /\ IsMtu(c.mtu) /\ c.breakout \in ToSet(BreakoutMode)
        /\ IsRate(p.speed_rate) /\ IsMtu(p.mtu) /\ p.breakout \in ToSet(BreakoutMode)
    BY Zenon DEF IsConfiguration, IsProfileConfiguration
  <2>2. d.speed_rate = c.speed_rate \/ d.speed_rate = p.speed_rate
    BY <1>3, Zenon
  <2>3. d.mtu = c.mtu \/ d.mtu = p.mtu
    BY <1>4, Zenon
  <2>4. d.breakout = c.breakout \/ d.breakout = p.breakout
    BY <1>5, Zenon
  <2>5. IsRate(d.speed_rate)
    BY <2>1, <2>2, Zenon
  <2>6. IsMtu(d.mtu)
    BY <2>1, <2>3, Zenon
  <2> QED BY <2>1, <2>4, <2>5, <2>6, Zenon
<1>8. IsRate(d.per_lane) /\ d.lanes \in 0..MaxLanes
  BY <1>6, Zenon DEF IsConfiguration
<1>9. IsConfiguration(d)
  BY <1>2, <1>7, <1>8, Zenon DEF IsConfiguration
<1> QED BY <1>9 DEF d

\* The configuration c with another profile binding.
Rebound(c, bound, id, g) ==
  [c EXCEPT !.profile_bound = bound, !.profile_id = id, !.profile_generation = g]

\* A configuration that is bound to another profile, or to none, is one.
LEMMA ReboundIsConfiguration ==
  ASSUME NEW c, IsConfiguration(c), NEW bound, NEW id, NEW g
  PROVE  IsConfiguration(Rebound(c, bound, id, g))
<1> DEFINE d == Rebound(c, bound, id, g)
<1>1. DOMAIN c = ConfigurationFields
  BY Zenon DEF IsConfiguration
<1>2. DOMAIN d = ConfigurationFields
  BY <1>1, Zenon DEF Rebound
<1>3. d.speed_rate = c.speed_rate /\ d.per_lane = c.per_lane /\ d.lanes = c.lanes
  BY <1>1, SMT DEF ConfigurationFields, Rebound
<1>4. d.mtu = c.mtu /\ d.breakout = c.breakout
  BY <1>1, SMT DEF ConfigurationFields, Rebound
<1> HIDE DEF d
<1>6. IsConfiguration(d)
  BY <1>2, <1>3, <1>4, SameTypes, Zenon
<1> QED BY <1>6 DEF d

\* What build_assign_profile assembles is a configuration whose profile, if
\* it has one, is defined.
LEMMA AssignedIsConfiguration ==
  ASSUME IsConfiguration(port.configuration), registry \subseteq Profiles, NEW id, NEW g,
         id # Absent => Get(id, g) # {}
  PROVE  IsConfiguration(Assigned(id, g)) /\ IsDefined(Assigned(id, g))
<1>1. CASE id = Absent
  <2>0. PICK no : no = FALSE
    OBVIOUS
  <2> DEFINE d == Rebound(port.configuration, no, "", 0)
  <2>1. Assigned(id, g) = d
    BY <1>1, <2>0, Zenon DEF Assigned, Rebound
  <2>2. IsConfiguration(d)
    BY ReboundIsConfiguration, Zenon
  <2>3. d.profile_bound = no
    BY SMT DEF IsConfiguration, ConfigurationFields, Rebound
  <2> HIDE DEF d
  <2> QED BY <2>0, <2>1, <2>2, <2>3, Zenon DEF IsDefined
<1>2. CASE id # Absent
  <2>0. PICK yes : yes = TRUE
    OBVIOUS
  <2> DEFINE q == CHOOSE q \in Get(id, g) : TRUE
             e == ApplyProfile(q.configuration, port.configuration)
             d == Rebound(e, yes, id, g)
  <2>1. Assigned(id, g) = d
    BY <1>2, <2>0, Zenon DEF Assigned, Rebound
  <2>2. q \in Profiles
    <3>1. q \in Get(id, g)
      BY <1>2, Zenon
    <3> QED BY <3>1, Zenon DEF Get
  <2>3. IsProfileConfiguration(q.configuration)
    BY <2>2, CatalogueAssumption, Zenon
  <2>4. IsConfiguration(e)
    <3> HIDE DEF q
    <3> QED BY <2>3, OverlayIsConfiguration, Zenon
  <2> HIDE DEF q, e
  <2>5. IsConfiguration(d)
    BY <2>4, ReboundIsConfiguration, Zenon
  <2>6. d.profile_id = id /\ d.profile_generation = g
    BY <2>4, SMT DEF IsConfiguration, ConfigurationFields, Rebound
  <2> HIDE DEF d
  <2> QED BY <1>2, <2>1, <2>5, <2>6, Zenon DEF IsDefined
<1> QED BY <1>1, <1>2

\* Configurations whose canonical payloads are equal have the same rates and
\* the same MTU, although the payload holds the rates as texts.
LEMMA EqualPayloads ==
  ASSUME NEW c, IsConfiguration(c), NEW d, IsConfiguration(d), SemanticallyEqual(c, d)
  PROVE  c.speed_rate = d.speed_rate /\ c.per_lane = d.per_lane /\ c.mtu = d.mtu
<1> DEFINE Text(r) == IF r = 0 THEN Absent ELSE Render(r)
<1>1. ASSUME NEW e, IsConfiguration(e)
      PROVE  /\ CanonicalPayload(e).speed_rate = Text(e.speed_rate)
             /\ CanonicalPayload(e).per_lane = Render(e.per_lane)
             /\ CanonicalPayload(e).mtu = e.mtu
  <2>1. DOMAIN e = ConfigurationFields
    BY <1>1, Zenon DEF IsConfiguration
  <2> DEFINE v == [e.provenance EXCEPT !.attempt = "", !.epoch = 0]
             s == Text(e.speed_rate)
             t == Render(e.per_lane)
             d0 == [e EXCEPT !.provenance = v, !.evidence_generation = 0, !.speed_rate = s,
                             !.per_lane = t]
  <2>2. CanonicalPayload(e) = d0
    BY Zenon DEF CanonicalPayload
  <2> HIDE DEF v, s, t
  <2>3. d0.speed_rate = s
    BY <2>1, SMT DEF ConfigurationFields
  <2>4. d0.per_lane = t
    BY <2>1, SMT DEF ConfigurationFields
  <2>5. d0.mtu = e.mtu
    BY <2>1, SMT DEF ConfigurationFields
  <2> HIDE DEF d0
  <2>8. CanonicalPayload(e).speed_rate = s /\ CanonicalPayload(e).per_lane = t
        /\ CanonicalPayload(e).mtu = e.mtu
    BY <2>2, <2>3, <2>4, <2>5, Zenon
  <2> QED BY <2>8 DEF s, t
<1>2. Text(c.speed_rate) = Text(d.speed_rate) /\ Render(c.per_lane) = Render(d.per_lane)
      /\ c.mtu = d.mtu
  BY <1>1, Zenon DEF SemanticallyEqual
<1>3. IsRate(c.speed_rate) /\ IsRate(d.speed_rate) /\ IsRate(c.per_lane) /\ IsRate(d.per_lane)
  BY Zenon DEF IsConfiguration
<1>4. c.per_lane = d.per_lane
  BY <1>2, <1>3, TextsTellRatesApart, Zenon
<1>5. \A r : IsRate(r) => Render(r) # Absent
  BY RendersText, CatalogueAssumption, Zenon
<1>6. c.speed_rate = d.speed_rate
  BY <1>2, <1>3, <1>5, TextsTellRatesApart, Zenon
<1> QED BY <1>2, <1>4, <1>6

----------------------------------------------------------------------------
(* The registry. *)

\* The profile is newer than every generation of its identifier.
Newest(defined, p) == \A q \in defined : q.id = p.id => q.generation < p.generation

\* What the registry has accepted is newer than all there is.
LEMMA DefinedIsNewest ==
  ASSUME NEW S, S \subseteq Profiles, NEW p \in Profiles, DefineOutcome(S, p) = "OK"
  PROVE  Newest(S, p)
<1> DEFINE G == GenerationsOf(S, p.id)
<1>1. \A q \in S : q.id = p.id => q \in G
  BY Zenon DEF GenerationsOf
<1>2. CASE G = {}
  BY <1>1, <1>2, Zenon DEF Newest
<1>3. CASE G # {}
  <2>1. ~(\E q \in G : p.generation < q.generation)
    BY <1>3, SMT DEF DefineOutcome
  <2>2. ~(\E q \in G : p.generation = q.generation)
    BY <1>3, <2>1, SMT DEF DefineOutcome
  <2> SUFFICES ASSUME NEW q \in S, q.id = p.id PROVE q.generation < p.generation
    BY Zenon DEF Newest
  <2>3. p.generation \in Nat /\ q.generation \in Nat
    BY CatalogueAssumption, Zenon
  <2>4. ~(p.generation < q.generation) /\ p.generation # q.generation
    BY <1>1, <2>1, <2>2, Zenon
  <2> QED BY <2>3, <2>4, SMT
<1> QED BY <1>2, <1>3

\* The identifiers of finitely many profiles are finitely many.
LEMMA IdentifiersAreFinite ==
  ASSUME NEW S, IsFiniteSet(S)
  PROVE  IsFiniteSet(Identifiers(S)) /\ Cardinality(Identifiers(S)) \in Nat
<1> DEFINE f == [q \in S |-> q.id]
<1>1. f \in Surjection(S, Identifiers(S))
  BY Zenon DEF Surjection, Identifiers
<1>2. IsFiniteSet(Identifiers(S))
  BY <1>1, FS_Surjection, Zenon
<1> QED BY <1>2, FS_CardinalityType

\* The registry has room for the identifier of what it accepts.
LEMMA DefinedHasRoom ==
  ASSUME NEW S, IsFiniteSet(S), NEW p, DefineOutcome(S, p) = "OK", p.id \notin Identifiers(S)
  PROVE  Cardinality(Identifiers(S)) < MaxProfiles
<1>1. GenerationsOf(S, p.id) = {}
  BY Zenon DEF GenerationsOf, Identifiers
<1>2. FirstOutcome(S, p) = "OK"
  BY <1>1, SMT DEF DefineOutcome
<1>3. ~(Cardinality(Identifiers(S)) >= MaxProfiles)
  BY <1>2, SMT DEF FirstOutcome
<1> QED BY <1>3, IdentifiersAreFinite, CatalogueAssumption, SMT

\* load offers a profile to the registry beside the older generations of its
\* identifier only: it answers what it answered beside all there was.
LEMMA AcceptedAgain ==
  ASSUME NEW S, IsFiniteSet(S), NEW p, DefineOutcome(S, p) = "OK"
  PROVE  DefineOutcome(GenerationsOf(S, p.id), p) = "OK"
<1> DEFINE G == GenerationsOf(S, p.id)
<1>1. GenerationsOf(G, p.id) = G
  BY Zenon DEF GenerationsOf
<1>2. CASE G = {}
  <2>1. ProfileValid(p) /\ FirstOutcome(S, p) = "OK"
    BY <1>2, SMT DEF DefineOutcome
  <2>2. ~(Cardinality(Identifiers(S)) >= MaxProfiles) /\ p.generation = 1
    BY <2>1, SMT DEF FirstOutcome
  <2>3. Cardinality(Identifiers(S)) \in Nat
    BY IdentifiersAreFinite
  <2>4. Identifiers(G) = {}
    BY <1>2, Zenon DEF Identifiers
  <2>5. Cardinality(Identifiers(G)) = 0
    BY <2>4, FS_EmptySet, Zenon
  <2> HIDE DEF G
  <2>6. ~(Cardinality(Identifiers(G)) >= MaxProfiles)
    BY <2>2, <2>3, <2>5, CatalogueAssumption, SMT
  <2>7. FirstOutcome(G, p) = "OK"
    BY <2>2, <2>6, SMT DEF FirstOutcome
  <2>8. GenerationsOf(G, p.id) = {}
    BY <1>1, <1>2, Zenon DEF G
  <2>9. DefineOutcome(G, p) = "OK"
    BY <2>1, <2>7, <2>8, SMT DEF DefineOutcome
  <2> QED BY <2>9 DEF G
<1>3. CASE G # {}
  <2>1. DefineOutcome(G, p) = DefineOutcome(S, p)
    BY <1>1, <1>3, Zenon DEF DefineOutcome
  <2> QED BY <2>1
<1> QED BY <1>2, <1>3

\* A registry that can be loaded again remains so when a profile is defined.
LEMMA DefinedIsRestorable ==
  ASSUME NEW S, S \subseteq Profiles, IsFiniteSet(S), Restorable(S),
         NEW p \in Profiles, DefineOutcome(S, p) = "OK"
  PROVE  Restorable(S \cup {p})
<1> DEFINE T == S \cup {p}
<1>1. Newest(S, p)
  BY DefinedIsNewest
<1>2. \A q \in T : q.generation \in Nat
  BY CatalogueAssumption, Zenon
<1>3. ASSUME NEW q \in T, NEW r \in T, q.id = r.id, q.generation = r.generation
      PROVE  q = r
  <2>1. CASE q \in S /\ r \in S
    BY <1>3, <2>1, Zenon DEF Restorable
  <2>2. CASE q \in S /\ r = p
    <3>1. q.generation < p.generation
      BY <1>1, <1>3, <2>2, Zenon DEF Newest
    <3> QED BY <1>2, <1>3, <2>2, <3>1, SMT
  <2>3. CASE q = p /\ r \in S
    <3>1. r.generation < p.generation
      BY <1>1, <1>3, <2>3, Zenon DEF Newest
    <3> QED BY <1>2, <1>3, <2>3, <3>1, SMT
  <2>4. CASE q = p /\ r = p
    BY <2>4
  <2> QED BY <2>1, <2>2, <2>3, <2>4, Zenon
<1>4. ASSUME NEW q \in S
      PROVE  DefineOutcome(Earlier(T, q), q) \in {"OK", "ALREADY_CURRENT"}
  <2>1. ~(p.id = q.id /\ p.generation < q.generation)
    <3>1. p.id = q.id => q.generation < p.generation
      BY <1>1, Zenon DEF Newest
    <3> QED BY <1>2, <3>1, SMT
  <2>2. Earlier(T, q) = Earlier(S, q)
    BY <2>1, Zenon DEF Earlier, GenerationsOf
  <2> QED BY <2>2, Zenon DEF Restorable
<1>5. DefineOutcome(Earlier(T, p), p) = "OK"
  <2>1. Earlier(T, p) = GenerationsOf(S, p.id)
    <3>1. ~(p.generation < p.generation)
      BY <1>2, SMT
    <3> QED BY <1>1, <3>1, Zenon DEF Earlier, GenerationsOf, Newest
  <2> QED BY <2>1, AcceptedAgain, Zenon
<1>6. Cardinality(Identifiers(T)) <= MaxProfiles
  <2>1. Cardinality(Identifiers(S)) <= MaxProfiles
    BY Zenon DEF Restorable
  <2>2. Identifiers(T) = Identifiers(S) \cup {p.id}
    BY Zenon DEF Identifiers
  <2>3. CASE p.id \in Identifiers(S)
    <3>1. Identifiers(T) = Identifiers(S)
      BY <2>2, <2>3, Zenon
    <3> QED BY <2>1, <3>1, Zenon
  <2>4. CASE p.id \notin Identifiers(S)
    <3>1. Cardinality(Identifiers(S)) < MaxProfiles
      BY <2>4, DefinedHasRoom
    <3>2. IsFiniteSet(Identifiers(S)) /\ Cardinality(Identifiers(S)) \in Nat
      BY IdentifiersAreFinite
    <3>3. Cardinality(Identifiers(T)) = Cardinality(Identifiers(S)) + 1
      BY <2>2, <2>4, <3>2, FS_AddElement, Zenon
    <3> HIDE DEF T
    <3> QED BY <3>1, <3>2, <3>3, CatalogueAssumption, SMT
  <2> QED BY <2>3, <2>4
<1> HIDE DEF T
<1>7. \A q \in T : q \in S \/ q = p
  BY DEF T
<1>8. \A q \in T : DefineOutcome(Earlier(T, q), q) \in {"OK", "ALREADY_CURRENT"}
  BY <1>4, <1>5, <1>7, Zenon
<1>9. Restorable(T)
  BY <1>3, <1>6, <1>8, Zenon DEF Restorable
<1> QED BY <1>9 DEF T

\* An empty registry can be loaded.
LEMMA NothingIsRestorable ==
  Restorable({})
<1>1. Identifiers({}) = {}
  BY Zenon DEF Identifiers
<1>2. Cardinality(Identifiers({})) <= MaxProfiles
  BY <1>1, FS_EmptySet, CatalogueAssumption, SMT
<1> QED BY <1>2, Zenon DEF Restorable

\* A registry extends itself.
LEMMA ExtendsItself ==
  ASSUME NEW S
  PROVE  Extends(S, S)
BY Zenon DEF Extends

\* A registry to which the newest generation of an identifier is added still
\* extends what it extended.
LEMMA ExtendsFurther ==
  ASSUME NEW S, NEW R, Extends(S, R), NEW p, Newest(S, p)
  PROVE  Extends(S \cup {p}, R)
BY Zenon DEF Extends, Newest

----------------------------------------------------------------------------
(* Evidence that says less. *)

\* Removing an entry of a list adds none.
LEMMA RemovedEntries ==
  ASSUME NEW S, NEW s \in Seq(S), NEW i \in DOMAIN s
  PROVE  ToSet(RemoveAt(s, i)) \subseteq ToSet(s)
<1> DEFINE a == SubSeq(s, 1, i - 1)
           b == SubSeq(s, i + 1, Len(s))
<1>1. i \in 1..Len(s) /\ Len(s) \in Nat /\ DOMAIN s = 1..Len(s)
  BY SMT
<1>2. Len(a) = i - 1 /\ \A j \in 1..(i - 1) : a[j] = s[j]
  BY <1>1, SMT
<1>3. Len(b) = Len(s) - i /\ \A j \in 1..(Len(s) - i) : b[j] = s[i + j]
  BY <1>1, SMT
<1>4. a \in Seq(S) /\ b \in Seq(S)
  BY <1>1, SubSeqProperties, SMT
<1>5. RemoveAt(s, i) = a \o b
  BY Zenon DEF RemoveAt
<1> HIDE DEF a, b
<1>6. ASSUME NEW j \in DOMAIN (a \o b) PROVE (a \o b)[j] \in ToSet(s)
  <2>1. j \in 1..(Len(a) + Len(b)) /\ (a \o b)[j] = IF j <= Len(a) THEN a[j] ELSE b[j - Len(a)]
    BY <1>4, ConcatProperties, SMT
  <2>2. \E n \in DOMAIN s : (a \o b)[j] = s[n]
    <3>1. CASE j <= Len(a)
      <4>1. j \in 1..(i - 1) /\ j \in DOMAIN s /\ (a \o b)[j] = a[j]
        BY <1>1, <1>2, <2>1, <3>1, SMT
      <4> QED BY <1>2, <4>1, Zenon
    <3>2. CASE ~(j <= Len(a))
      <4>1. (a \o b)[j] = b[j - Len(a)]
        BY <2>1, <3>2, Zenon
      <4>2. j - Len(a) \in 1..(Len(s) - i)
        BY <1>1, <1>2, <1>3, <2>1, <3>2, SMT
      <4>3. i + (j - Len(a)) \in DOMAIN s
        BY <1>1, <4>2, SMT
      <4> QED BY <1>3, <4>1, <4>2, <4>3, Zenon
    <3> QED BY <3>1, <3>2
  <2> QED BY <2>2, Zenon DEF ToSet
<1> QED BY <1>5, <1>6, Zenon DEF ToSet

\* A value v of a field says no more than u.
NoMore(f, v, u) ==
  \/ v = u
  \/ f \in EvidenceLists /\ ToSet(v) \subseteq ToSet(u)
  \/ f = "max_breakout_children" /\ v \in Nat /\ v <= u
  \/ f \notin EvidenceLists \cup {"max_breakout_children"} /\ v = Unstated(f)
\* The evidence w says at most what k says, in any number of fields.
SaysLess(w, k) == \A f \in CapabilityFields : NoMore(f, w[f], k[f])

\* What less evidence says, field by field.
LEMMA FieldsSayLess ==
  ASSUME NEW w, NEW k, SaysLess(w, k)
  PROVE  /\ \A f \in EvidenceLists : ToSet(w[f]) \subseteq ToSet(k[f])
         /\ w.certainty \in {k.certainty, "Unknown"} /\ w.duplex \in {k.duplex, "Unknown"}
         /\ w.max_lanes \in {k.max_lanes, 0}
         /\ w.mtu_min \in {k.mtu_min, 0} /\ w.mtu_max \in {k.mtu_max, 0}
         /\ w.breakout_supported \in {k.breakout_supported, FALSE}
         /\ w.logical_interface_supported \in {k.logical_interface_supported, FALSE}
         /\ w.transceiver_required \in {k.transceiver_required, FALSE}
         /\ w.transceiver_class \in {k.transceiver_class, ""}
         /\ \/ w.max_breakout_children = k.max_breakout_children
            \/ w.max_breakout_children \in Nat /\ w.max_breakout_children <= k.max_breakout_children
<1>1. EvidenceLists = {"fec_modes", "autoneg_modes", "pause_modes", "protocol_families",
                       "supported_speeds", "lane_modes"}
  BY Zenon DEF EvidenceLists, ModeLists
<1>2. EvidenceLists \subseteq CapabilityFields /\ "max_breakout_children" \notin EvidenceLists
  BY <1>1, SMT DEF CapabilityFields
<1>3. ASSUME NEW f \in CapabilityFields, f \notin EvidenceLists, f # "max_breakout_children"
      PROVE  w[f] \in {k[f], Unstated(f)}
  BY <1>3, Zenon DEF SaysLess, NoMore
<1>4. \A f \in EvidenceLists : ToSet(w[f]) \subseteq ToSet(k[f])
  <2> TAKE f \in EvidenceLists
  <2>1. NoMore(f, w[f], k[f]) /\ f # "max_breakout_children"
    BY <1>2, Zenon DEF SaysLess
  <2> QED BY <2>1, Zenon DEF NoMore
<1>5. \/ w.max_breakout_children = k.max_breakout_children
      \/ w.max_breakout_children \in Nat /\ w.max_breakout_children <= k.max_breakout_children
  <2>1. "max_breakout_children" \in CapabilityFields
    BY SMT DEF CapabilityFields
  <2> QED BY <1>2, <2>1, Zenon DEF SaysLess, NoMore
<1>6. \A f \in {"certainty", "duplex", "max_lanes", "mtu_min", "mtu_max", "breakout_supported",
                "logical_interface_supported", "transceiver_required", "transceiver_class"} :
        f \in CapabilityFields /\ f \notin EvidenceLists /\ f # "max_breakout_children"
  BY <1>1, SMT DEF CapabilityFields
<1>7. /\ Unstated("certainty") = "Unknown" /\ Unstated("duplex") = "Unknown"
      /\ Unstated("max_lanes") = 0 /\ Unstated("mtu_min") = 0 /\ Unstated("mtu_max") = 0
      /\ Unstated("breakout_supported") = FALSE /\ Unstated("transceiver_required") = FALSE
      /\ Unstated("logical_interface_supported") = FALSE /\ Unstated("transceiver_class") = ""
  <2>1. Unstated("certainty") = "Unknown" /\ Unstated("duplex") = "Unknown"
    BY SMT DEF Unstated
  <2>2. Unstated("max_lanes") = 0 /\ Unstated("mtu_min") = 0 /\ Unstated("mtu_max") = 0
    BY SMT DEF Unstated
  <2>3. Unstated("breakout_supported") = FALSE
    BY Zenon DEF Unstated
  <2>4. Unstated("transceiver_required") = FALSE
    BY Zenon DEF Unstated
  <2>5. Unstated("logical_interface_supported") = FALSE
    BY Zenon DEF Unstated
  <2>6. Unstated("transceiver_class") = ""
    BY SMT DEF Unstated
  <2> QED BY <2>1, <2>2, <2>3, <2>4, <2>5, <2>6
<1> QED BY <1>3, <1>4, <1>5, <1>6, <1>7, Zenon

\* Whatever is weakened says less.
LEMMA WeakenedSaysLess ==
  ASSUME NEW k, IsCapabilities(k), NEW w \in Weakened(k)
  PROVE  SaysLess(w, k)
<1>1. DOMAIN k = CapabilityFields
  BY Zenon DEF IsCapabilities
<1>2. ASSUME NEW f \in CapabilityFields, NEW v \in Lesser(k, f), w = [k EXCEPT ![f] = v]
      PROVE  SaysLess(w, k)
  <2>1. w[f] = v /\ \A g \in CapabilityFields \ {f} : w[g] = k[g]
    BY <1>1, <1>2, Zenon
  <2>2. NoMore(f, v, k[f])
    <3>1. CASE f \in EvidenceLists
      <4>1. PICK i \in DOMAIN k[f] : v = RemoveAt(k[f], i)
        <5>1. v \in {RemoveAt(k[f], i) : i \in DOMAIN k[f]}
          <6>1. f # "max_breakout_children"
            BY <3>1, SMT DEF EvidenceLists, ModeLists
          <6> QED BY <3>1, <6>1, Zenon DEF Lesser
        <5> QED BY <5>1, Zenon
      <4>2. \E S : k[f] \in Seq(S)
        BY <3>1, Zenon DEF IsCapabilities, EvidenceLists
      <4> QED BY <3>1, <4>1, <4>2, RemovedEntries, Zenon DEF NoMore
    <3>2. CASE f = "max_breakout_children"
      <4>1. f \notin EvidenceLists
        BY <3>2, SMT DEF EvidenceLists, ModeLists
      <4>2. v \in {n \in {0, 1} : n <= k[f]}
        BY <3>2, <4>1, Zenon DEF Lesser
      <4>3. v \in Nat /\ v <= k[f]
        BY <4>2, SMT
      <4> QED BY <3>2, <4>3, Zenon DEF NoMore
    <3>3. CASE f \notin EvidenceLists /\ f # "max_breakout_children"
      <4>1. v = Unstated(f)
        BY <3>3, Zenon DEF Lesser
      <4> QED BY <3>3, <4>1, Zenon DEF NoMore
    <3> QED BY <3>1, <3>2, <3>3
  <2> QED BY <2>1, <2>2, Zenon DEF SaysLess, NoMore
<1>3. CASE w = [k EXCEPT !.mtu_min = 0, !.mtu_max = 0]
  <2>1. \A g \in CapabilityFields \ {"mtu_min", "mtu_max"} : w[g] = k[g]
    BY <1>1, <1>3, Zenon
  <2>2. w.mtu_min = 0 /\ w.mtu_max = 0
    BY <1>1, <1>3, SMT DEF CapabilityFields
  <2>3. Unstated("mtu_min") = 0 /\ Unstated("mtu_max") = 0
    BY SMT DEF Unstated
  <2>4. \A f \in {"mtu_min", "mtu_max"} : f \notin EvidenceLists \cup {"max_breakout_children"}
    BY SMT DEF EvidenceLists, ModeLists
  <2> QED BY <2>1, <2>2, <2>3, <2>4, Zenon DEF SaysLess, NoMore
<1>4. \/ w = [k EXCEPT !.mtu_min = 0, !.mtu_max = 0]
      \/ \E f \in CapabilityFields : \E v \in Lesser(k, f) : w = [k EXCEPT ![f] = v]
  <2> DEFINE InField(f) == {[k EXCEPT ![f] = v] : v \in Lesser(k, f)}
             InFields == UNION {InField(f) : f \in CapabilityFields}
  <2>1. Weakened(k) = InFields \cup {[k EXCEPT !.mtu_min = 0, !.mtu_max = 0]}
    BY Zenon DEF Weakened
  <2>2. w \in InFields => \E f \in CapabilityFields : w \in InField(f)
    BY Zenon
  <2>3. \A f : w \in InField(f) => \E v \in Lesser(k, f) : w = [k EXCEPT ![f] = v]
    BY Zenon
  <2> HIDE DEF InField, InFields
  <2> QED BY <2>1, <2>2, <2>3, Zenon
<1> QED BY <1>2, <1>3, <1>4, Zenon

\* Less evidence supports lanes that the evidence does not only where a limit
\* is gone.
LEMMA LessSupportsLanes ==
  ASSUME NEW w, NEW k, SaysLess(w, k), IsCapabilities(k), NEW c, IsConfiguration(c),
         SupportsLanes(w, c.lanes)
  PROVE  SupportsLanes(k, c.lanes) \/ LimitIsGone(c, k, w)
<1>1. c.lanes \in Nat /\ k.max_lanes \in Nat
  BY SMT DEF IsConfiguration, MaxLanes, IsCapabilities
<1>2. "lane_modes" \in EvidenceLists
  BY Zenon DEF EvidenceLists
<1>3. /\ ToSet(w.lane_modes) \subseteq ToSet(k.lane_modes) /\ w.max_lanes \in {k.max_lanes, 0}
      /\ w.certainty \in {k.certainty, "Unknown"}
  BY <1>2, FieldsSayLess, Zenon
<1>4. CASE w.lane_modes = << >>
  <2>1. w.max_lanes = 0 /\ c.lanes = 1
    BY <1>4, Zenon DEF SupportsLanes
  <2> QED BY <1>4, <2>1, Zenon DEF LimitIsGone
<1>5. CASE w.lane_modes # << >>
  <2>1. c.lanes \in ToSet(k.lane_modes) /\ c.lanes # 0 /\ k.certainty # "Unknown"
        /\ (w.max_lanes # 0 => c.lanes <= w.max_lanes)
    BY <1>3, <1>5, Zenon DEF SupportsLanes
  <2>2. k.lane_modes # << >>
    <3>1. ToSet(<< >>) = {}
      BY SMT DEF ToSet
    <3> QED BY <2>1, <3>1, Zenon
  <2>3. CASE k.max_lanes # 0 => c.lanes <= k.max_lanes
    BY <2>1, <2>2, <2>3, Zenon DEF SupportsLanes
  <2>4. CASE k.max_lanes # 0 /\ ~(c.lanes <= k.max_lanes)
    <3>1. w.max_lanes = 0
      BY <1>3, <2>1, <2>4, Zenon
    <3>2. c.lanes > k.max_lanes
      BY <1>1, <2>4, SMT
    <3> QED BY <2>4, <3>1, <3>2, Zenon DEF LimitIsGone
  <2> QED BY <2>3, <2>4
<1> QED BY <1>4, <1>5

\* Less evidence lists less of every mode.
LEMMA LessLists ==
  ASSUME NEW w, NEW k, SaysLess(w, k), NEW f \in EvidenceLists, NEW v, Lists(w, w[f], v)
  PROVE  Lists(k, k[f], v)
BY FieldsSayLess, Zenon DEF Lists

\* Whatever is missing from valid evidence, in any number of fields at once,
\* validate_against_capabilities accepts a configuration on what is left only
\* if it accepts it on all of the evidence, or refuses it there by a limit
\* that is missing.
THEOREM LessEvidenceIsNoSupport ==
  ASSUME NEW w, NEW k, SaysLess(w, k), IsCapabilities(k), CapabilitiesValid(k),
         NEW a, NEW b, a.capabilities = w, b.capabilities = k,
         a.present = b.present, a.generation = b.generation,
         NEW c, IsConfiguration(c), Accepts(c, a)
  PROVE  Accepts(c, b) \/ LimitIsGone(c, k, w)
<1> SUFFICES ASSUME ~LimitIsGone(c, k, w) PROVE Accepts(c, b)
  OBVIOUS
<1>1. /\ SpeedOk(c, a) /\ LanesOk(c, w)
      /\ ModeOk(w, w.fec_modes, c.fec) /\ ModeOk(w, w.autoneg_modes, c.autoneg)
      /\ ModeOk(w, w.pause_modes, c.pause) /\ LimitsOk(c, w)
  BY AcceptsExactly, Zenon
<1>2. /\ "supported_speeds" \in EvidenceLists /\ "fec_modes" \in EvidenceLists
      /\ "autoneg_modes" \in EvidenceLists /\ "pause_modes" \in EvidenceLists
      /\ "protocol_families" \in EvidenceLists
  BY Zenon DEF EvidenceLists, ModeLists
<1>3. SpeedOk(c, b)
  <2>1. ToSet(w.supported_speeds) \subseteq ToSet(k.supported_speeds)
        /\ (w.certainty # "Unknown" => k.certainty # "Unknown")
    BY <1>2, FieldsSayLess, Zenon
  <2> QED BY <1>1, <2>1, Zenon DEF SpeedOk, SupportsSpeed
<1>4. LanesOk(c, k)
  <2>1. Lists(k, k.protocol_families, c.protocol)
    BY <1>1, <1>2, LessLists, Zenon DEF LanesOk
  <2>2. SupportsLanes(k, c.lanes)
    BY <1>1, LessSupportsLanes, Zenon DEF LanesOk
  <2>3. w.breakout_supported => k.breakout_supported
    BY FieldsSayLess, Zenon
  <2>4. ~(BreakoutChildren(c.breakout) > w.max_breakout_children)
          => ~(BreakoutChildren(c.breakout) > k.max_breakout_children)
    <3>1. BreakoutChildren(c.breakout) \in Nat
      BY Children, SMT DEF IsConfiguration
    <3>2. k.max_breakout_children \in Nat
      BY SMT DEF IsCapabilities
    <3>3. \/ w.max_breakout_children = k.max_breakout_children
          \/ w.max_breakout_children \in Nat /\ w.max_breakout_children <= k.max_breakout_children
      BY FieldsSayLess, Zenon
    <3> QED BY <3>1, <3>2, <3>3, SMT
  <2> QED BY <1>1, <2>1, <2>2, <2>3, <2>4, Zenon DEF LanesOk
<1>5. ModeOk(k, k.fec_modes, c.fec)
  BY <1>1, <1>2, LessLists, Zenon DEF ModeOk
<1>6. ModeOk(k, k.autoneg_modes, c.autoneg)
  BY <1>1, <1>2, LessLists, Zenon DEF ModeOk
<1>7. ModeOk(k, k.pause_modes, c.pause)
  BY <1>1, <1>2, LessLists, Zenon DEF ModeOk
<1>8. LimitsOk(c, k)
  <2>1. c.duplex # "Unknown" /\ (c.duplex # "Unsupported" => k.duplex \in {"Unknown", c.duplex})
    <3>1. w.duplex \in {k.duplex, "Unknown"}
      BY FieldsSayLess, Zenon
    <3> QED BY <1>1, <3>1, Zenon DEF LimitsOk, LimitIsGone
  <2>2. k.mtu_max # 0 /\ c.mtu \in k.mtu_min..k.mtu_max
    <3>1. w.mtu_max = k.mtu_max /\ k.mtu_max # 0 /\ c.mtu \in w.mtu_min..w.mtu_max
      BY <1>1, FieldsSayLess, Zenon DEF LimitsOk
    <3>2. w.mtu_min = k.mtu_min \/ (w.mtu_min = 0 /\ ~(c.mtu < k.mtu_min))
      BY FieldsSayLess, Zenon DEF LimitIsGone
    <3>3. k.mtu_min \in Nat /\ k.mtu_max \in Nat
      BY SMT DEF IsCapabilities
    <3> QED BY <3>1, <3>2, <3>3, SMT
  <2>3. c.mode = "Logical" => k.logical_interface_supported
    BY <1>1, FieldsSayLess, Zenon DEF LimitsOk
  <2>4. ~(k.transceiver_required /\ k.transceiver_class = "")
    <3>1. w.transceiver_class \in {k.transceiver_class, ""}
      BY FieldsSayLess, Zenon
    <3> QED BY <1>1, <3>1, Zenon DEF LimitsOk, LimitIsGone
  <2> QED BY <2>1, <2>2, <2>3, <2>4, Zenon DEF LimitsOk
<1> QED BY <1>3, <1>4, <1>5, <1>6, <1>7, <1>8, AcceptsExactly, Zenon

----------------------------------------------------------------------------
(* The inductive invariant. *)

\* A port as any operation leaves it: what is live is configured, and what is
\* configured and bound has the types its constructors enforce.
PortFields == {"lifecycle", "configured", "configuration", "capability"}
PortWellFormed(p) ==
  /\ DOMAIN p = PortFields /\ DOMAIN p.capability = {"present", "generation", "capabilities"}
  /\ p.lifecycle = "Configured" => p.configured
  /\ p.configured => IsConfiguration(p.configuration)
  /\ p.capability.present => /\ IsCapabilities(p.capability.capabilities)
                             /\ CapabilitiesValid(p.capability.capabilities)

\* What the registry holds could be loaded.
RegistryIsSound == registry \subseteq Profiles /\ IsFiniteSet(registry) /\ Restorable(registry)

\* A registry of some moment before.
IsPast(profiles) == Extends(registry, profiles) /\ Restorable(profiles)
\* What a save has gathered, and what it has written.
SavesArePast ==
  /\ gathered # Absent => IsPast(gathered)
  /\ container # Absent => IsPast(container.profiles) /\ PortWellFormed(container.port)

\* A live port passes the checks its last mutation passed.
LiveIsValid ==
  Live => /\ IsDefined(port.configuration) /\ ConfigurationValid(port.configuration)
          /\ Accepts(port.configuration, port.capability)
\* The comparison that answered ALREADY_CURRENT.
AnswerIsCurrent ==
  answer # NoAnswer =>
    /\ IsConfiguration(answer.submitted) /\ IsConfiguration(answer.committed)
    /\ SemanticallyEqual(answer.committed, answer.submitted)

\* The registry, saves, port and answer together.
CatalogueInv ==
  /\ restarts \in Nat /\ RegistryIsSound /\ SavesArePast
  /\ PortWellFormed(port) /\ LiveIsValid /\ AnswerIsCurrent

\* The blank record of a port is well formed.
LEMMA BlankIsWellFormed ==
  PortWellFormed(Blank) /\ Blank.lifecycle = "Unconfigured"
<1>1. DOMAIN Blank = PortFields
      /\ DOMAIN Blank.capability = {"present", "generation", "capabilities"}
  BY SMT DEF Blank, NoEvidence, PortFields
<1>2. Blank.lifecycle = "Unconfigured" /\ ~Blank.configured /\ ~Blank.capability.present
  BY SMT DEF Blank, NoEvidence
<1>3. Blank.lifecycle # "Configured"
  BY <1>2, Zenon
<1> QED BY <1>1, <1>2, <1>3, Zenon DEF PortWellFormed

\* The system starts in the invariant.
LEMMA CatalogueStarts ==
  Init => CatalogueInv
<1> SUFFICES ASSUME Init PROVE CatalogueInv
  OBVIOUS
<1>1. RegistryIsSound
  BY NothingIsRestorable, FS_EmptySet, Zenon DEF Init, RegistryIsSound
<1>2. PortWellFormed(port) /\ ~Live
  <2>1. "Unconfigured" # "Configured"
    OBVIOUS
  <2> QED BY <2>1, BlankIsWellFormed, Zenon DEF Init, Live
<1>3. restarts \in Nat /\ SavesArePast /\ AnswerIsCurrent
  BY SMT DEF Init, SavesArePast, AnswerIsCurrent
<1> QED BY <1>1, <1>2, <1>3, Zenon DEF CatalogueInv, LiveIsValid

\* A step that leaves the registry and the saves alone keeps what is known of
\* them.
LEMMA SavesStay ==
  ASSUME CatalogueInv, Unchanged
  PROVE  (restarts \in Nat)' /\ RegistryIsSound' /\ SavesArePast'
<1>1. (restarts \in Nat)' /\ RegistryIsSound'
  BY Zenon DEF CatalogueInv, Unchanged, RegistryIsSound
<1>2. SavesArePast'
  BY Zenon DEF CatalogueInv, Unchanged, SavesArePast, IsPast
<1> QED BY <1>1, <1>2

\* A mutation that is committed keeps the invariant: it was validated.
LEMMA CommitsKeep ==
  ASSUME CatalogueInv, NEW c, IsConfiguration(c), IsDefined(c), Commits(c, "Configured")
  PROVE  CatalogueInv'
<1>1. port' = [port EXCEPT !.configured = TRUE, !.configuration = c, !.lifecycle = "Configured"]
      /\ ConfigurationValid(c) /\ Accepts(c, port.capability) /\ answer' = NoAnswer /\ Unchanged
  BY Zenon DEF Commits
<1>2. DOMAIN port = PortFields
  BY Zenon DEF CatalogueInv, PortWellFormed
<1>3. /\ DOMAIN port' = PortFields /\ port'.configured /\ port'.configuration = c
      /\ port'.capability = port.capability /\ port'.lifecycle = "Configured"
  BY <1>1, <1>2, SMT DEF PortFields
<1>4. PortWellFormed(port')
  BY <1>3, Zenon DEF CatalogueInv, PortWellFormed
<1>5. IsDefined(c)'
  BY <1>1, Zenon DEF IsDefined, Get, Unchanged
<1>6. LiveIsValid'
  BY <1>1, <1>3, <1>5, Zenon DEF LiveIsValid
<1>7. AnswerIsCurrent'
  BY <1>1, Zenon DEF AnswerIsCurrent
<1> QED BY <1>1, <1>4, <1>6, <1>7, SavesStay, Zenon DEF CatalogueInv

\* So does an answer ALREADY_CURRENT.
LEMMA AnswersKeep ==
  ASSUME CatalogueInv, Live, NEW c, IsConfiguration(c), AnswersCurrent(c)
  PROVE  CatalogueInv'
<1>1. /\ SemanticallyEqual(port.configuration, c) /\ port' = port /\ Unchanged
      /\ answer' = [submitted |-> c, committed |-> port.configuration]
  BY Zenon DEF AnswersCurrent
<1>2. answer'.submitted = c /\ answer'.committed = port.configuration
  BY <1>1, SMT
<1>3. IsConfiguration(port.configuration)
  BY Zenon DEF CatalogueInv, PortWellFormed, Live
<1>4. AnswerIsCurrent'
  BY <1>1, <1>2, <1>3, Zenon DEF AnswerIsCurrent
<1>5. PortWellFormed(port')
  BY <1>1, Zenon DEF CatalogueInv
<1>6. LiveIsValid'
  BY <1>1, Zenon DEF CatalogueInv, LiveIsValid, Live, IsDefined, Get, Unchanged
<1> QED BY <1>1, <1>4, <1>5, <1>6, SavesStay, Zenon DEF CatalogueInv

\* The first configuration.
LEMMA ConfigureKeeps ==
  ASSUME CatalogueInv, NEW c \in Requests, Configure(c)
  PROVE  CatalogueInv'
<1>1. IsConfiguration(c) /\ IsDefined(c) /\ Commits(Completed(c, 1), "Configured")
  BY CatalogueAssumption, Zenon DEF Configure
<1> QED BY <1>1, CompletedIsConfiguration, CommitsKeep, Zenon

\* Another configuration, or one that is current.
LEMMA ReconfigureKeeps ==
  ASSUME CatalogueInv, NEW c \in Requests, Reconfigure(c)
  PROVE  CatalogueInv'
<1> DEFINE d == Completed(c, Generation)
<1>1. IsConfiguration(c) /\ IsDefined(c) /\ Live
      /\ (Commits(Advanced(d), "Configured") \/ AnswersCurrent(d))
  BY CatalogueAssumption, Zenon DEF Reconfigure
<1>2. IsConfiguration(d) /\ IsDefined(d)
  BY <1>1, CompletedIsConfiguration, Zenon
<1> HIDE DEF d
<1>3. IsConfiguration(Advanced(d)) /\ IsDefined(Advanced(d))
  BY <1>2, AdvancedIsConfiguration, Zenon
<1> QED BY <1>1, <1>2, <1>3, CommitsKeep, AnswersKeep, Zenon

\* A profile that is assigned or released.
LEMMA AssignProfileKeeps ==
  ASSUME CatalogueInv, NEW id, NEW g, AssignProfile(id, g)
  PROVE  CatalogueInv'
<1> DEFINE d == Completed(Assigned(id, g), Generation)
<1>1. Live /\ (id # Absent => Get(id, g) # {})
      /\ (Commits(Advanced(d), "Configured") \/ AnswersCurrent(d))
  BY Zenon DEF AssignProfile
<1>2. IsConfiguration(port.configuration) /\ registry \subseteq Profiles
  BY <1>1, Zenon DEF CatalogueInv, PortWellFormed, Live, RegistryIsSound
<1>3. IsConfiguration(Assigned(id, g)) /\ IsDefined(Assigned(id, g))
  BY <1>1, <1>2, AssignedIsConfiguration, Zenon
<1>4. IsConfiguration(d) /\ IsDefined(d)
  BY <1>3, CompletedIsConfiguration, Zenon
<1> HIDE DEF d
<1>5. IsConfiguration(Advanced(d)) /\ IsDefined(Advanced(d))
  BY <1>4, AdvancedIsConfiguration, Zenon
<1> QED BY <1>1, <1>4, <1>5, CommitsKeep, AnswersKeep, Zenon

\* A recovered or revalidated port that is reconciled.
LEMMA ReconcileKeeps ==
  ASSUME CatalogueInv, Reconcile
  PROVE  CatalogueInv'
<1> DEFINE c == port.configuration
           d == Completed(c, Generation)
<1>1. port.configured /\ IsDefined(c) /\ Commits(Advanced(d), "Configured")
  BY Zenon DEF Reconcile
<1>2. IsConfiguration(c)
  BY <1>1, Zenon DEF CatalogueInv, PortWellFormed
<1> HIDE DEF c
<1>3. IsConfiguration(d) /\ IsDefined(d)
  BY <1>1, <1>2, CompletedIsConfiguration, Zenon
<1> HIDE DEF d
<1>4. IsConfiguration(Advanced(d)) /\ IsDefined(Advanced(d))
  BY <1>3, AdvancedIsConfiguration, Zenon
<1> QED BY <1>1, <1>4, CommitsKeep, Zenon

\* Newer evidence that does not accept the configuration ends its being live.
LEMMA BindCapabilitiesKeeps ==
  ASSUME CatalogueInv, NEW k \in Evidence, BindCapabilities(k)
  PROVE  CatalogueInv'
<1> DEFINE b == [present |-> TRUE, generation |-> port.capability.generation + 1,
                 capabilities |-> k]
           l == IF port.configured /\ ~Accepts(port.configuration, b)
                THEN "RevalidationRequired" ELSE port.lifecycle
<1>1. CapabilitiesValid(k) /\ answer' = NoAnswer /\ Unchanged
      /\ port' = [port EXCEPT !.capability = b, !.lifecycle = l]
  BY Zenon DEF BindCapabilities
<1>2. DOMAIN port = PortFields
  BY Zenon DEF CatalogueInv, PortWellFormed
<1>3. DOMAIN b = {"present", "generation", "capabilities"} /\ b.capabilities = k
  BY SMT
<1> HIDE DEF b
<1>4. l # port.lifecycle => l = "RevalidationRequired"
  BY Zenon
<1>5. l = "Configured" =>
        port.lifecycle = "Configured" /\ (port.configured => Accepts(port.configuration, b))
  BY SMT
<1> HIDE DEF l
<1>6. /\ DOMAIN port' = PortFields /\ port'.configured = port.configured
      /\ port'.configuration = port.configuration /\ port'.capability = b /\ port'.lifecycle = l
  BY <1>1, <1>2, SMT DEF PortFields
<1>7. IsCapabilities(k)
  BY CatalogueAssumption, Zenon
<1>8. PortWellFormed(port')
  BY <1>1, <1>3, <1>5, <1>6, <1>7, Zenon DEF CatalogueInv, PortWellFormed
<1>9. LiveIsValid'
  <2> SUFFICES ASSUME port'.lifecycle = "Configured"
               PROVE  /\ IsDefined(port.configuration)' /\ ConfigurationValid(port.configuration)
                      /\ Accepts(port.configuration, b)
    BY <1>6, Zenon DEF LiveIsValid, Live
  <2>1. port.lifecycle = "Configured" /\ (port.configured => Accepts(port.configuration, b))
    BY <1>5, <1>6, Zenon
  <2>2. port.configured
    BY <2>1, Zenon DEF CatalogueInv, PortWellFormed
  <2>3. IsDefined(port.configuration) /\ ConfigurationValid(port.configuration)
    BY <2>1, Zenon DEF CatalogueInv, LiveIsValid, Live
  <2>4. port'.configuration = port.configuration /\ registry' = registry
    BY <1>1, <1>6, Zenon DEF Unchanged
  <2>5. IsDefined(port.configuration)'
    BY <2>3, <2>4, Zenon DEF IsDefined, Get
  <2> QED BY <2>1, <2>2, <2>3, <2>5, Zenon
<1>10. AnswerIsCurrent'
  BY <1>1, Zenon DEF AnswerIsCurrent
<1> QED BY <1>1, <1>8, <1>9, <1>10, SavesStay, Zenon DEF CatalogueInv

\* A profile that is defined is newer than all that was saved.
LEMMA DefineProfileKeeps ==
  ASSUME CatalogueInv, NEW p \in Profiles, DefineProfile(p)
  PROVE  CatalogueInv'
<1>1. /\ DefineOutcome(registry, p) = "OK" /\ registry' = registry \cup {p} /\ answer' = NoAnswer
      /\ port' = port /\ gathered' = gathered /\ container' = container /\ restarts' = restarts
  BY Zenon DEF DefineProfile
<1>2. registry \subseteq Profiles /\ IsFiniteSet(registry) /\ Restorable(registry)
  BY Zenon DEF CatalogueInv, RegistryIsSound
<1>3. Newest(registry, p)
  BY <1>1, <1>2, DefinedIsNewest, Zenon
<1>4. RegistryIsSound'
  <2>1. Restorable(registry \cup {p})
    BY <1>1, <1>2, DefinedIsRestorable, Zenon
  <2>2. IsFiniteSet(registry \cup {p})
    BY <1>2, FS_AddElement, Zenon
  <2>3. registry \cup {p} \subseteq Profiles
    BY <1>2, Zenon
  <2> QED BY <1>1, <2>1, <2>2, <2>3, Zenon DEF RegistryIsSound
<1>5. ASSUME NEW R, IsPast(R)
      PROVE  Extends(registry', R) /\ Restorable(R)
  BY <1>1, <1>3, <1>5, ExtendsFurther, Zenon DEF IsPast
<1>6. SavesArePast'
  <2>1. gathered # Absent => Extends(registry', gathered) /\ Restorable(gathered)
    BY <1>5, Zenon DEF CatalogueInv, SavesArePast
  <2>2. container # Absent => /\ Extends(registry', container.profiles)
                              /\ Restorable(container.profiles) /\ PortWellFormed(container.port)
    BY <1>5, Zenon DEF CatalogueInv, SavesArePast
  <2> QED BY <1>1, <2>1, <2>2, Zenon DEF SavesArePast, IsPast
<1>7. LiveIsValid'
  <2>1. IsDefined(port.configuration) => IsDefined(port.configuration)'
    BY <1>1, Zenon DEF IsDefined, Get
  <2> QED BY <1>1, <2>1, Zenon DEF CatalogueInv, LiveIsValid, Live
<1>8. PortWellFormed(port') /\ (restarts \in Nat)'
  BY <1>1, Zenon DEF CatalogueInv
<1>9. AnswerIsCurrent'
  BY <1>1, Zenon DEF AnswerIsCurrent
<1> QED BY <1>4, <1>6, <1>7, <1>8, <1>9, Zenon DEF CatalogueInv

\* A save gathers the registry as it is.
LEMMA GatherProfilesKeeps ==
  ASSUME CatalogueInv, GatherProfiles
  PROVE  CatalogueInv'
<1>1. gathered' = registry /\ UNCHANGED <<registry, port, container, restarts, answer>>
  BY Zenon DEF GatherProfiles
<1>2. SavesArePast'
  <2>1. IsPast(registry)
    BY ExtendsItself, Zenon DEF CatalogueInv, RegistryIsSound, IsPast
  <2> QED BY <1>1, <2>1, Zenon DEF CatalogueInv, SavesArePast, IsPast
<1>3. RegistryIsSound' /\ (restarts \in Nat)' /\ PortWellFormed(port')
  BY <1>1, Zenon DEF CatalogueInv, RegistryIsSound
<1>4. LiveIsValid'
  BY <1>1, Zenon DEF CatalogueInv, LiveIsValid, Live, IsDefined, Get
<1>5. AnswerIsCurrent'
  BY <1>1, Zenon DEF CatalogueInv, AnswerIsCurrent
<1> QED BY <1>2, <1>3, <1>4, <1>5, Zenon DEF CatalogueInv

\* What is written is the gathered profiles and a well-formed port.
LEMMA WriteContainerKeeps ==
  ASSUME CatalogueInv, WriteContainer
  PROVE  CatalogueInv'
<1>1. /\ gathered # Absent /\ gathered' = Absent
      /\ UNCHANGED <<registry, port, restarts, answer>>
      /\ container' = container \/ container' = [profiles |-> gathered, port |-> port]
  BY Zenon DEF WriteContainer
<1>2. SavesArePast'
  <2>1. CASE container' = container
    BY <1>1, <2>1, Zenon DEF CatalogueInv, SavesArePast, IsPast
  <2>2. CASE container' = [profiles |-> gathered, port |-> port]
    <3>1. container'.profiles = gathered /\ container'.port = port
      BY <2>2, SMT
    <3>2. IsPast(gathered) /\ PortWellFormed(port)
      BY <1>1, Zenon DEF CatalogueInv, SavesArePast
    <3> QED BY <1>1, <3>1, <3>2, Zenon DEF SavesArePast, IsPast
  <2> QED BY <1>1, <2>1, <2>2
<1>3. RegistryIsSound' /\ (restarts \in Nat)' /\ PortWellFormed(port')
  BY <1>1, Zenon DEF CatalogueInv, RegistryIsSound
<1>4. LiveIsValid'
  BY <1>1, Zenon DEF CatalogueInv, LiveIsValid, Live, IsDefined, Get
<1>5. AnswerIsCurrent'
  BY <1>1, Zenon DEF CatalogueInv, AnswerIsCurrent
<1> QED BY <1>2, <1>3, <1>4, <1>5, Zenon DEF CatalogueInv

\* A port that has been recovered is well formed and not live.
LEMMA RecoveredIsWellFormed ==
  ASSUME NEW p, PortWellFormed(p)
  PROVE  PortWellFormed(Recovered(p)) /\ Recovered(p).lifecycle # "Configured"
<1> DEFINE l == IF p.configured THEN "RevalidationRequired" ELSE p.lifecycle
           r == [p EXCEPT !.lifecycle = l]
<1>1. Recovered(p) = r
  BY Zenon DEF Recovered
<1>2. DOMAIN p = PortFields
  BY Zenon DEF PortWellFormed
<1>3. l # "Configured"
  <2>1. "RevalidationRequired" # "Configured"
    OBVIOUS
  <2> QED BY <2>1, Zenon DEF PortWellFormed
<1> HIDE DEF l
<1>4. /\ DOMAIN r = PortFields /\ r.lifecycle = l /\ r.configured = p.configured
      /\ r.configuration = p.configuration /\ r.capability = p.capability
  BY <1>2, SMT DEF PortFields
<1> HIDE DEF r
<1>5. PortWellFormed(r)
  BY <1>3, <1>4, Zenon DEF PortWellFormed
<1> QED BY <1>1, <1>3, <1>4, <1>5, Zenon

\* What a restart restores.
LEMMA RestartRestores ==
  ASSUME CatalogueInv, Restart
  PROVE  /\ PortWellFormed(port') /\ port'.lifecycle # "Configured"
         /\ registry' \subseteq registry /\ Extends(registry, registry') /\ Restorable(registry')
         /\ container # Absent => registry' = container.profiles
<1>1. CASE container = Absent
  <2>1. registry' = {} /\ port' = Blank
    BY <1>1, Zenon DEF Restart
  <2>2. Extends(registry, {})
    BY Zenon DEF Extends
  <2>3. "Unconfigured" # "Configured"
    OBVIOUS
  <2> QED BY <1>1, <2>1, <2>2, <2>3, BlankIsWellFormed, NothingIsRestorable, Zenon
<1>2. CASE container # Absent
  <2>1. registry' = container.profiles /\ port' = Recovered(container.port)
    BY <1>2, Zenon DEF Restart
  <2>2. IsPast(container.profiles) /\ PortWellFormed(container.port)
    BY <1>2, Zenon DEF CatalogueInv, SavesArePast
  <2>3. container.profiles \subseteq registry
    BY <2>2, Zenon DEF IsPast, Extends
  <2> QED BY <2>1, <2>2, <2>3, RecoveredIsWellFormed, Zenon DEF IsPast
<1> QED BY <1>1, <1>2

\* A restart brings a registry back that was saved, and no live port.
LEMMA RestartKeeps ==
  ASSUME CatalogueInv, Restart
  PROVE  CatalogueInv'
<1>1. /\ restarts' = restarts + 1 /\ gathered' = Absent /\ answer' = NoAnswer
      /\ container' = container
  BY Zenon DEF Restart
<1>2. (restarts \in Nat)'
  BY <1>1, SMT DEF CatalogueInv
<1>3. RegistryIsSound'
  <2>1. registry' \in SUBSET registry /\ registry \subseteq Profiles /\ IsFiniteSet(registry)
    BY RestartRestores, Zenon DEF CatalogueInv, RegistryIsSound
  <2>2. IsFiniteSet(registry')
    BY <2>1, FS_Subset, Zenon
  <2> QED BY <2>1, <2>2, RestartRestores, Zenon DEF RegistryIsSound
<1>4. SavesArePast'
  <2>1. container # Absent => registry' = container.profiles /\ PortWellFormed(container.port)
    BY RestartRestores, Zenon DEF CatalogueInv, SavesArePast
  <2>2. Extends(registry', registry') /\ Restorable(registry')
    BY ExtendsItself, RestartRestores
  <2> QED BY <1>1, <2>1, <2>2, Zenon DEF SavesArePast, IsPast
<1>5. LiveIsValid'
  BY RestartRestores, Zenon DEF LiveIsValid, Live
<1>6. AnswerIsCurrent'
  BY <1>1, Zenon DEF AnswerIsCurrent
<1> QED BY <1>2, <1>3, <1>4, <1>5, <1>6, RestartRestores, Zenon DEF CatalogueInv

\* Every step keeps the invariant.
LEMMA CatalogueInvIsInductive ==
  CatalogueInv /\ [Next]_vars => CatalogueInv'
<1> SUFFICES ASSUME CatalogueInv, [Next]_vars PROVE CatalogueInv'
  OBVIOUS
<1>1. ASSUME NEW p \in Profiles, DefineProfile(p) PROVE CatalogueInv'
  BY <1>1, DefineProfileKeeps, Zenon
<1>2. ASSUME NEW c \in Requests, Configure(c) PROVE CatalogueInv'
  BY <1>2, ConfigureKeeps, Zenon
<1>3. ASSUME NEW c \in Requests, Reconfigure(c) PROVE CatalogueInv'
  BY <1>3, ReconfigureKeeps, Zenon
<1>4. ASSUME NEW p \in Profiles, AssignProfile(p.id, p.generation) PROVE CatalogueInv'
  BY <1>4, AssignProfileKeeps, Zenon
<1>5. ASSUME AssignProfile(Absent, 0) PROVE CatalogueInv'
  BY <1>5, AssignProfileKeeps, Zenon
<1>6. ASSUME NEW k \in Evidence, BindCapabilities(k) PROVE CatalogueInv'
  BY <1>6, BindCapabilitiesKeeps, Zenon
<1>7. CASE Reconcile
  BY <1>7, ReconcileKeeps
<1>8. CASE GatherProfiles
  BY <1>8, GatherProfilesKeeps
<1>9. CASE WriteContainer
  BY <1>9, WriteContainerKeeps
<1>10. CASE Restart
  BY <1>10, RestartKeeps
<1>11. CASE UNCHANGED vars
  <2>1. UNCHANGED <<registry, port, gathered, container, restarts, answer>>
    BY <1>11, Zenon DEF vars
  <2>2. RegistryIsSound' /\ (restarts \in Nat)' /\ PortWellFormed(port')
    BY <2>1, Zenon DEF CatalogueInv, RegistryIsSound
  <2>3. LiveIsValid' /\ AnswerIsCurrent'
    BY <2>1, Zenon DEF CatalogueInv, LiveIsValid, Live, IsDefined, Get, AnswerIsCurrent
  <2>4. SavesArePast'
    BY <2>1, Zenon DEF CatalogueInv, SavesArePast, IsPast
  <2> QED BY <2>2, <2>3, <2>4, Zenon DEF CatalogueInv
<1> QED BY <1>1, <1>2, <1>3, <1>4, <1>5, <1>6, <1>7, <1>8, <1>9, <1>10, <1>11, Zenon DEF Next

\* Every reachable state satisfies the invariant.
THEOREM CatalogueInvariant ==
  Spec => []CatalogueInv
<1> QED BY CatalogueStarts, CatalogueInvIsInductive, PTL DEF Spec

----------------------------------------------------------------------------
(* The properties. *)

\* A live port is told to do what its evidence says it can do, whatever the
\* requests, profiles and evidence are.
THEOREM LivePortsAreRealisable ==
  Spec => []LiveIsRealisable
<1>1. CatalogueInv => LiveIsRealisable
  <2> SUFFICES ASSUME CatalogueInv, Live
               PROVE  Realisable(port.configuration, port.capability.capabilities)
    BY Zenon DEF LiveIsRealisable
  <2>1. /\ ConfigurationValid(port.configuration) /\ Accepts(port.configuration, port.capability)
        /\ IsConfiguration(port.configuration)
    BY Zenon DEF CatalogueInv, LiveIsValid, PortWellFormed, Live
  <2>2. port.capability.present
    <3>1. SpeedOk(port.configuration, port.capability)
      BY <2>1, AcceptsExactly, Zenon
    <3> QED BY <3>1, Zenon DEF SpeedOk
  <2>3. IsCapabilities(port.capability.capabilities)
    BY <2>2, Zenon DEF CatalogueInv, PortWellFormed
  <2> QED BY <2>1, <2>3, AcceptedIsRealisable, Zenon
<1> QED BY <1>1, CatalogueInvariant, PTL

\* ALREADY_CURRENT is answered only to a request whose rates and MTU are those
\* that are committed: canonical_payload compares texts, and texts tell rates
\* apart.
THEOREM AlreadyCurrentAnswersAreTrue ==
  Spec => []AlreadyCurrentIsTrue
<1>1. CatalogueInv => AlreadyCurrentIsTrue
  <2> SUFFICES ASSUME CatalogueInv, answer # NoAnswer
               PROVE  /\ answer.submitted.speed_rate = answer.committed.speed_rate
                      /\ answer.submitted.per_lane = answer.committed.per_lane
                      /\ Parse(Render(answer.submitted.per_lane)) = answer.submitted.per_lane
                      /\ answer.submitted.mtu = answer.committed.mtu
    BY Zenon DEF AlreadyCurrentIsTrue
  <2>1. /\ IsConfiguration(answer.submitted) /\ IsConfiguration(answer.committed)
        /\ SemanticallyEqual(answer.committed, answer.submitted)
    BY Zenon DEF CatalogueInv, AnswerIsCurrent
  <2>2. /\ answer.committed.speed_rate = answer.submitted.speed_rate
        /\ answer.committed.per_lane = answer.submitted.per_lane
        /\ answer.committed.mtu = answer.submitted.mtu
    BY <2>1, EqualPayloads, Zenon
  <2>3. IsRate(answer.submitted.per_lane)
    BY <2>1, Zenon DEF IsConfiguration
  <2> QED BY <2>2, <2>3, RatesAreReadBack, Zenon
<1> QED BY <1>1, CatalogueInvariant, PTL

\* The profiles of a container that was written are accepted by the registry,
\* in the order load defines them.
THEOREM WrittenContainersLoad ==
  Spec => []ContainersLoad
<1>1. CatalogueInv => ContainersLoad
  BY Zenon DEF CatalogueInv, SavesArePast, IsPast, ContainersLoad
<1> QED BY <1>1, CatalogueInvariant, PTL

\* A live port is bound to a profile generation that is defined, across saves
\* and restarts.
THEOREM LiveProfilesAreDefined ==
  Spec => []BoundProfilesAreDefined
<1>1. CatalogueInv => BoundProfilesAreDefined
  BY Zenon DEF CatalogueInv, LiveIsValid, BoundProfilesAreDefined
<1> QED BY <1>1, CatalogueInvariant, PTL

\* A profile generation keeps its content: only newer ones are added, and a
\* restart brings back a registry of some moment before.
THEOREM ProfileGenerationsAreImmutable ==
  Spec => GenerationsAreImmutable
<1> DEFINE Step == \/ Extends(registry', registry)
                   \/ restarts' # restarts /\ Extends(registry, registry')
<1>1. CatalogueInv /\ [Next]_vars => [Step]_vars
  <2> SUFFICES ASSUME CatalogueInv, [Next]_vars PROVE [Step]_vars
    OBVIOUS
  <2>1. CASE registry' = registry
    BY <2>1, ExtendsItself, Zenon
  <2>2. ASSUME NEW p \in Profiles, DefineProfile(p) PROVE Step
    <3>1. DefineOutcome(registry, p) = "OK" /\ registry' = registry \cup {p}
      BY <2>2, Zenon DEF DefineProfile
    <3>2. Newest(registry, p)
      BY <3>1, DefinedIsNewest, Zenon DEF CatalogueInv, RegistryIsSound
    <3> QED BY <3>1, <3>2, ExtendsItself, ExtendsFurther, Zenon
  <2>3. CASE Restart
    <3>1. restarts' # restarts
      BY <2>3, SMT DEF Restart, CatalogueInv
    <3> QED BY <2>3, <3>1, RestartRestores, Zenon
  <2>4. ASSUME NEW c, Commits(c, "Configured") \/ AnswersCurrent(c) PROVE registry' = registry
    BY <2>4, Zenon DEF Commits, AnswersCurrent, Unchanged
  <2>5. ASSUME NEW c, Configure(c) \/ Reconfigure(c) PROVE registry' = registry
    BY <2>4, <2>5, Zenon DEF Configure, Reconfigure
  <2>6. ASSUME NEW id, NEW g, AssignProfile(id, g) PROVE registry' = registry
    BY <2>4, <2>6, Zenon DEF AssignProfile
  <2>7. ASSUME NEW k, BindCapabilities(k) PROVE registry' = registry
    BY <2>7, Zenon DEF BindCapabilities, Unchanged
  <2>8. CASE Reconcile
    <3>1. registry' = registry
      BY <2>4, <2>8, Zenon DEF Reconcile
    <3> QED BY <2>1, <3>1
  <2>9. CASE GatherProfiles \/ WriteContainer
    <3>1. registry' = registry
      BY <2>9, Zenon DEF GatherProfiles, WriteContainer
    <3> QED BY <2>1, <3>1
  <2>10. CASE UNCHANGED vars
    BY <2>10
  <2> HIDE DEF Step
  <2> QED BY <2>1, <2>2, <2>3, <2>5, <2>6, <2>7, <2>8, <2>9, <2>10, Zenon DEF Next
<1> QED BY <1>1, CatalogueInvariant, PTL DEF Spec, GenerationsAreImmutable

\* What is missing from the evidence that is bound makes a configuration
\* acceptable only if it was refused by the limit that is missing.
THEOREM WeakerEvidenceOnlyLiftsLimits ==
  Spec => LessEvidenceLiftsOnlyLimits
<1> DEFINE Step == port.capability # port'.capability /\ port'.capability.present =>
             LET k == port'.capability.capabilities
             IN \A w \in Weakened(k), c \in Candidates' :
                  Accepts(c, [port'.capability EXCEPT !.capabilities = w])
                    => Accepts(c, port'.capability) \/ LimitIsGone(c, k, w)
<1>1. CatalogueInv' => Step
  <2> DEFINE b == port'.capability
             k == b.capabilities
  <2> SUFFICES ASSUME CatalogueInv', port'.capability.present,
                      NEW w \in Weakened(k), NEW c \in Candidates',
                      Accepts(c, [b EXCEPT !.capabilities = w])
               PROVE  Accepts(c, b) \/ LimitIsGone(c, k, w)
    BY Zenon
  <2> DEFINE a == [b EXCEPT !.capabilities = w]
  <2>1. DOMAIN b = {"present", "generation", "capabilities"} /\ IsCapabilities(k)
        /\ CapabilitiesValid(k)
    BY Zenon DEF CatalogueInv, PortWellFormed
  <2>2. IsConfiguration(c)
    <3>1. port'.configured => IsConfiguration(port'.configuration)
      BY Zenon DEF CatalogueInv, PortWellFormed
    <3>2. c \in IF port'.configured THEN {port'.configuration} ELSE Requests
      BY Zenon DEF Candidates
    <3> QED BY <3>1, <3>2, CatalogueAssumption, Zenon
  <2>3. SaysLess(w, k)
    BY <2>1, WeakenedSaysLess, Zenon
  <2>4. Accepts(c, a)
    OBVIOUS
  <2>5. b.capabilities = k
    OBVIOUS
  <2> HIDE DEF k, b
  <2>6. a.capabilities = w /\ a.generation = b.generation /\ a.present = b.present
    BY <2>1, SMT
  <2> HIDE DEF a
  <2> QED BY <2>1, <2>2, <2>3, <2>4, <2>5, <2>6, LessEvidenceIsNoSupport, Zenon
<1> HIDE DEF Step
<1>2. CatalogueInv /\ CatalogueInv' /\ [Next]_vars => [Step]_vars
  BY <1>1
<1>3. [][Step]_vars <=> LessEvidenceLiftsOnlyLimits
  BY Zenon DEF Step, LessEvidenceLiftsOnlyLimits
<1> QED BY <1>2, <1>3, CatalogueInvariant, CatalogueInvIsInductive, PTL DEF Spec

=============================================================================
