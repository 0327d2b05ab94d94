-------------------------- MODULE TPSContractProofs --------------------------
(***************************************************************************)
(* What is selected from the objects of a source, and what the controller  *)
(* then negotiates, for all objects that a source can offer, all ranges,   *)
(* and any number of callers that overlap.                                 *)
(***************************************************************************)
EXTENDS TPSContract, SequenceTheorems, WellFoundedInduction, TLAPS

-----------------------------------------------------------------------------
(* Loops: what holds before the first turn and is kept by each holds after the  *)
(* last; and the function that a loop computes exists.                          *)

LEMMA Climb ==
    ASSUME NEW n \in Nat, NEW P, 0 \in P, \A i \in 0 .. n - 1 : i \in P => i + 1 \in P
    PROVE  \A i \in 0 .. n : i \in P
<1> DEFINE T == {i \in 0 .. n : i \notin P}
<1> SUFFICES ASSUME T # {} PROVE FALSE
    OBVIOUS
<1>1. T \subseteq Nat
    OBVIOUS
<1>2. \E x \in T : \A y \in T : <<y, x>> \notin OpToRel(<, Nat)
    <2> HIDE DEF T
    <2> QED
        BY <1>1, NatLessThanWellFounded, WFMin
<1>3. PICK x \in T : \A y \in T : ~(y < x)
    BY <1>1, <1>2 DEF OpToRel
<1>4. x \in 0 .. n /\ x \notin P /\ x # 0
    OBVIOUS
<1>5. x - 1 \in 0 .. n - 1 /\ x - 1 \in 0 .. n /\ x - 1 < x
    BY <1>4
<1>6. x - 1 \in P
    BY <1>3, <1>5
<1>7. (x - 1) + 1 = x
    BY <1>4
<1> QED
    BY <1>4, <1>5, <1>6, <1>7

\* The turns of a loop over n things, and the values after each.
Turns(n, S, T) == T \in [(1 .. n) \X S -> S]
Values(n, S, T, base, f) ==
    /\ f \in [0 .. n -> S]
    /\ f[0] = base /\ \A i \in 1 .. n : f[i] = T[<<i, f[i - 1]>>]

Follows(n, S, T, h) == \A i \in 1 .. n : h[i - 1] \in S => h[i] = T[<<i, h[i - 1]>>]

LEMMA Unrolled ==
    ASSUME NEW n \in Nat, NEW S, NEW base \in S, NEW Turn, Turns(n, S, Turn)
    PROVE  \E f : Values(n, S, Turn, base, f)
<1> USE DEF Turns
<1> DEFINE Begins(f, k) == f[0] = base /\ \A i \in 1 .. k : f[i] = Turn[<<i, f[i - 1]>>]
           P == {k \in 0 .. n : \E f \in [0 .. k -> S] : Begins(f, k)}
<1>1. 0 \in P
    <2>1. [i \in 0 .. 0 |-> base] \in [0 .. 0 -> S] /\ Begins([i \in 0 .. 0 |-> base], 0)
        OBVIOUS
    <2>2. \E f \in [0 .. 0 -> S] : Begins(f, 0)
        <3> HIDE DEF Begins
        <3> QED
            BY <2>1
    <2>3. 0 \in 0 .. n
        OBVIOUS
    <2> HIDE DEF Begins
    <2> QED
        BY <2>2, <2>3
<1>2. ASSUME NEW k \in 0 .. n - 1, k \in P PROVE k + 1 \in P
    <2>1. PICK f \in [0 .. k -> S] : Begins(f, k)
        BY <1>2
    <2> DEFINE g == [i \in 0 .. k + 1 |-> IF i = k + 1 THEN Turn[<<k + 1, f[k]>>] ELSE f[i]]
    <2>2. Turn[<<k + 1, f[k]>>] \in S
        OBVIOUS
    <2>3. g \in [0 .. k + 1 -> S]
        BY <2>2
    <2>4. g[0] = base
        BY <2>1
    <2>5. ASSUME NEW i \in 1 .. k + 1 PROVE g[i] = Turn[<<i, g[i - 1]>>]
        <3>1. CASE i = k + 1
            <4>1. g[i] = Turn[<<k + 1, f[k]>>]
                BY <3>1
            <4>2. i - 1 = k /\ g[i - 1] = f[k]
                BY <3>1
            <4> QED
                BY <3>1, <4>1, <4>2, Zenon
        <3>2. CASE i \in 1 .. k
            BY <2>1, <3>2
        <3> QED
            BY <3>1, <3>2
    <2>6. k + 1 \in 0 .. n
        OBVIOUS
    <2> HIDE DEF g
    <2> QED
        BY <2>3, <2>4, <2>5, <2>6
<1>3. \A k \in 0 .. n : k \in P
    <2> HIDE DEF P
    <2> QED
        BY <1>1, <1>2, Climb
<1>4. n \in P
    BY <1>3
<1> QED
    BY <1>4 DEF Values

\* Whatever else goes by the same turns comes to the same.
LEMMA SameValue ==
    ASSUME NEW n \in Nat, NEW S, NEW base, NEW Turn, Turns(n, S, Turn),
           NEW f, Values(n, S, Turn, base, f), NEW h, h[0] = base,
           Follows(n, S, Turn, h)
    PROVE  h[n] = f[n]
<1> USE DEF Turns, Values, Follows
<1> DEFINE P == {k \in 0 .. n : h[k] = f[k]}
<1>1. 0 \in P
    OBVIOUS
<1>2. ASSUME NEW i \in 0 .. n - 1, i \in P PROVE i + 1 \in P
    <2>1. i + 1 \in 1 .. n /\ i + 1 \in 0 .. n /\ (i + 1) - 1 = i /\ h[i] = f[i] /\ f[i] \in S
        BY <1>2
    <2>2. h[i + 1] = Turn[<<i + 1, h[i]>>] /\ f[i + 1] = Turn[<<i + 1, f[i]>>]
        BY <2>1
    <2> QED
        BY <2>1, <2>2
<1>3. \A i \in 0 .. n : i \in P
    <2> HIDE DEF P
    <2> QED
        BY <1>1, <1>2, Climb
<1> QED
    BY <1>3

-----------------------------------------------------------------------------
(* Power Data Objects *)

Kinds == {"fixed", "battery", "variable", "spr_pps", "epr_avs", "spr_avs"}

\* What the CASE expressions are, kind by kind.
LEMMA VoltageByKind ==
    ASSUME NEW p \in PDO
    PROVE  /\ kind(p) \in Kinds \cup {"unknown"}
           /\ kind(p) = "fixed" => max_voltage(p) = p.mid * 50 /\ min_voltage(p) = p.mid * 50
           /\ kind(p) \in {"battery", "variable"} =>
                  max_voltage(p) = p.high * 50 /\ min_voltage(p) = p.mid * 50
           /\ kind(p) \in {"spr_pps", "epr_avs"} =>
                  max_voltage(p) = p.high * 100 /\ min_voltage(p) = p.mid * 100
           /\ kind(p) = "spr_avs" => max_voltage(p) = 20000 /\ min_voltage(p) = 9000
<1>1. kind(p) \in Kinds \cup {"unknown"}
    BY DEF kind, Kinds
<1> QED
    BY <1>1 DEF max_voltage, min_voltage, Kinds

LEMMA CurrentByKind ==
    ASSUME NEW p \in PDO, NEW v \in Nat
    PROVE  /\ ~supports(p, v) => current_at(p, v) = 0
           /\ supports(p, v) =>
                 /\ kind(p) \in Kinds
                 /\ kind(p) \in {"fixed", "variable"} => current_at(p, v) = p.low * 10
                 /\ kind(p) = "spr_pps" => current_at(p, v) = p.low * 50
                 /\ kind(p) = "battery" => current_at(p, v) = current_from(StatedPower(p), v)
                 /\ kind(p) = "epr_avs" =>
                        current_at(p, v) = Smaller(current_from(StatedPower(p), v), 5000)
                 /\ kind(p) = "spr_avs" =>
                        current_at(p, v) = (IF v <= 15000 THEN p.low ELSE p.mid) * 10
<1>1. supports(p, v) => kind(p) \in Kinds
    BY VoltageByKind DEF supports, valid, Kinds
<1> QED
    BY <1>1 DEF current_at, Kinds

LEMMA FieldTypes ==
    ASSUME NEW p \in PDO
    PROVE  p.high \in Nat /\ p.mid \in Nat /\ p.low \in Nat
<1>1. \A x : x \in 0 .. 1023 => x \in Nat
    OBVIOUS
<1>2. p.high \in 0 .. 1023
    BY DEF PDO
<1>3. p.mid \in 0 .. 1023
    BY DEF PDO
<1>4. p.low \in 0 .. 1023
    BY DEF PDO
<1>5. p.high \in Nat
    BY <1>1, <1>2, Zenon
<1>6. p.mid \in Nat
    BY <1>1, <1>3, Zenon
<1> QED
    BY <1>1, <1>4, <1>5, <1>6, Zenon

\* An object's voltages and currents are numbers, and so is what is made of them.
LEMMA ObjectTypes ==
    ASSUME NEW p \in PDO, NEW v \in Nat
    PROVE  /\ max_voltage(p) \in Nat \/ kind(p) = "unknown"
           /\ min_voltage(p) \in Nat \/ kind(p) = "unknown"
           /\ StatedPower(p) \in Nat
           /\ current_from(StatedPower(p), v) \in Nat
           /\ current_at(p, v) \in Nat
           /\ power_at(p, v) \in Nat
<1>1. p.high \in Nat /\ p.mid \in Nat /\ p.low \in Nat
    BY FieldTypes
<1>2. StatedPower(p) \in Nat
    BY <1>1 DEF StatedPower
<1>3. current_from(StatedPower(p), v) \in Nat
    <2>1. CASE v = 0
        BY <2>1 DEF current_from
    <2>2. CASE v > 0
        <3>1. (StatedPower(p) * 1000) \div v \in Nat
            BY <1>2, <2>2
        <3> QED
            BY <2>2, <3>1 DEF current_from
    <2> QED
        BY <2>1, <2>2
<1>4. current_at(p, v) \in Nat
    BY <1>1, <1>3, CurrentByKind DEF Kinds, Smaller
<1>5. power_at(p, v) \in Nat
    <2>1. v * current_at(p, v) \in Nat
        BY <1>4
    <2> QED
        BY <2>1 DEF power_at, Power
<1> QED
    BY <1>1, <1>2, <1>3, <1>4, <1>5, VoltageByKind DEF Kinds

\* best_voltage_in() finds a voltage of the range that the object supports, and the
\* highest of them.
LEMMA BestVoltage ==
    ASSUME NEW p \in PDO, NEW lo \in Nat, NEW hi \in Nat
    PROVE  LET b == best_voltage_in(p, lo, hi) IN
           /\ b \in Nat \cup {None}
           /\ b # None => b \in lo .. hi /\ supports(p, b)
           /\ \A v \in lo .. hi : supports(p, v) => b # None /\ v <= b /\ (kind(p) = "fixed" => v = b)
<1>1. CASE ~valid(p)
    BY <1>1 DEF best_voltage_in, supports
<1>2. CASE valid(p)
    <2>1. kind(p) \in Kinds
        BY <1>2, VoltageByKind DEF valid, Kinds
    <2>2. max_voltage(p) \in Nat /\ min_voltage(p) \in Nat
        BY <2>1, ObjectTypes DEF Kinds
    <2>3. CASE kind(p) = "fixed"
        <3>1. min_voltage(p) = max_voltage(p)
            BY <2>3, VoltageByKind
        <3> QED
            BY <1>2, <2>2, <2>3, <3>1 DEF best_voltage_in, supports, None
    <2>4. CASE kind(p) # "fixed"
        BY <1>2, <2>2, <2>4 DEF best_voltage_in, supports, None, Smaller
    <2> QED
        BY <2>3, <2>4
<1> QED
    BY <1>1, <1>2

-----------------------------------------------------------------------------
(* Division *)

LEMMA DivBounds ==
    ASSUME NEW x \in Nat, NEW d \in Nat, d > 0
    PROVE  /\ x \div d \in Nat
           /\ d * (x \div d) <= x /\ x < d * (x \div d) + d
    OBVIOUS

LEMMA DivMono ==
    ASSUME NEW x \in Nat, NEW y \in Nat, x <= y
    PROVE  x \div 1000 <= y \div 1000
    OBVIOUS

LEMMA TimesMono ==
    ASSUME NEW x \in Nat, NEW y \in Nat, x <= y, NEW k \in Nat
    PROVE  x * k <= y * k /\ k * x <= k * y /\ x * k \in Nat /\ y * k \in Nat
    OBVIOUS

-----------------------------------------------------------------------------
(* What the objects give *)

\* More voltage or more current is not less power.
LEMMA PowerMono ==
    ASSUME NEW v \in Nat, NEW w \in Nat, v <= w, NEW a \in Nat, NEW b \in Nat, a <= b
    PROVE  Power(v, a) <= Power(w, b) /\ Power(v, a) \in Nat /\ Power(w, b) \in Nat
<1>1. v * a <= w * a /\ w * a <= w * b /\ v * a \in Nat /\ w * a \in Nat /\ w * b \in Nat
    BY TimesMono
<1>2. v * a <= w * b
    BY <1>1
<1> QED
    BY <1>1, <1>2, DivMono DEF Power

\* The current of a stated power, rounded down, stands for that power but for what
\* the rounding takes.
LEMMA StatedBounds ==
    ASSUME NEW P \in Nat, NEW v \in Nat, v > 0
    PROVE  /\ current_from(P, v) \in Nat
           /\ Power(v, current_from(P, v)) <= P
           /\ P <= Power(v, current_from(P, v)) + Rounding(v)
<1> DEFINE a == (P * 1000) \div v
           m == v * a
<1>1. a \in Nat /\ m <= P * 1000 /\ P * 1000 < m + v
    <2>1. P * 1000 \in Nat
        OBVIOUS
    <2> QED
        BY <2>1, DivBounds
<1>2. m \in Nat
    BY <1>1
<1>3. current_from(P, v) = a
    BY DEF current_from
<1> HIDE DEF m, a
<1>4. m \div 1000 <= P /\ P <= m \div 1000 + v \div 1000 + 1
    BY <1>1, <1>2
<1>5. Power(v, a) = m \div 1000
    BY DEF Power, m
<1> QED
    BY <1>1, <1>2, <1>3, <1>4, <1>5 DEF Rounding

Steady == {"fixed", "variable", "spr_pps"}
Stated == {"battery", "epr_avs"}

LEMMA SteadyCurrent ==
    ASSUME NEW p \in PDO, NEW v \in Nat, NEW w \in Nat, supports(p, v), supports(p, w),
           kind(p) \in Steady
    PROVE  current_at(p, v) = current_at(p, w)
    BY CurrentByKind DEF Steady

\* The power of an EPR AVS object is also limited by its 5 A.
LEMMA AvsPower ==
    ASSUME NEW p \in PDO, NEW v \in Nat, supports(p, v), kind(p) = "epr_avs"
    PROVE  /\ current_at(p, v) <= current_from(StatedPower(p), v) /\ current_at(p, v) <= 5000
           /\ current_at(p, v) \in {current_from(StatedPower(p), v), 5000}
<1>1. current_at(p, v) = Smaller(current_from(StatedPower(p), v), 5000)
    BY CurrentByKind
<1>2. current_from(StatedPower(p), v) \in Nat
    BY ObjectTypes
<1> QED
    BY <1>1, <1>2 DEF Smaller

LEMMA StatedPowerBound ==
    ASSUME NEW p \in PDO, NEW v \in Nat, supports(p, v), kind(p) \in Stated
    PROVE  power_at(p, v) <= StatedPower(p)
<1>1. StatedPower(p) \in Nat /\ current_from(StatedPower(p), v) \in Nat /\ current_at(p, v) \in Nat
    BY ObjectTypes
<1>2. current_at(p, v) <= current_from(StatedPower(p), v)
    <2>1. CASE kind(p) = "battery"
        BY <1>1, <2>1, CurrentByKind
    <2>2. CASE kind(p) = "epr_avs"
        BY <2>2, AvsPower
    <2> QED
        BY <2>1, <2>2 DEF Stated
<1>3. Power(v, current_at(p, v)) <= Power(v, current_from(StatedPower(p), v))
      /\ Power(v, current_at(p, v)) \in Nat /\ Power(v, current_from(StatedPower(p), v)) \in Nat
    BY <1>1, <1>2, PowerMono
<1>4. Power(v, current_from(StatedPower(p), v)) <= StatedPower(p)
    <2>1. CASE v = 0
        BY <1>1, <2>1 DEF Power, current_from
    <2>2. CASE v > 0
        BY <1>1, <2>2, StatedBounds
    <2> QED
        BY <2>1, <2>2
<1> QED
    BY <1>1, <1>3, <1>4 DEF power_at

\* No object gives more than its maximum.
LEMMA WithinLimits ==
    ASSUME NEW p \in PDO, NEW v \in Nat, supports(p, v)
    PROVE  /\ current_at(p, v) <= max_current(p) \/ max_current(p) = None
           /\ kind(p) # "spr_avs" => power_at(p, v) <= max_power(p)
<1>1. kind(p) \in Kinds
    BY CurrentByKind
<1>2. current_at(p, v) <= max_current(p) \/ max_current(p) = None
    <2>1. CASE kind(p) \in {"fixed", "variable", "spr_pps"}
        BY <2>1, CurrentByKind, FieldTypes DEF max_current
    <2>2. CASE kind(p) = "spr_avs"
        BY <2>2, CurrentByKind, FieldTypes DEF max_current, Greater
    <2>3. CASE kind(p) \in {"battery", "epr_avs"}
        BY <2>3 DEF max_current
    <2> QED
        BY <1>1, <2>1, <2>2, <2>3 DEF Kinds
<1>3. CASE kind(p) \in Stated
    BY <1>2, <1>3, StatedPowerBound DEF max_power, Stated
<1>4. CASE kind(p) \in Steady
    <2>1. max_voltage(p) \in Nat /\ min_voltage(p) \in Nat
        BY <1>1, ObjectTypes DEF Kinds
    <2>2. supports(p, max_voltage(p)) /\ v <= max_voltage(p)
        BY <2>1 DEF supports
    <2>3. current_at(p, v) = current_at(p, max_voltage(p)) /\ current_at(p, v) \in Nat
        BY <1>4, <2>1, <2>2, SteadyCurrent, ObjectTypes
    <2>4. power_at(p, v) <= power_at(p, max_voltage(p))
        BY <2>1, <2>2, <2>3, PowerMono DEF power_at
    <2>5. max_power(p) = power_at(p, max_voltage(p))
        BY <1>4 DEF max_power, Steady
    <2> QED
        BY <1>2, <2>4, <2>5
<1> QED
    BY <1>1, <1>2, <1>3, <1>4 DEF Kinds, Steady, Stated

\* An object of these kinds gives its power at its highest voltage, but for the
\* rounding there.
LEMMA HighestIsBest ==
    ASSUME NEW p \in PDO, NEW v \in Nat, NEW w \in Nat, v <= w, supports(p, v), supports(p, w),
           kind(p) \in Steady \cup Stated
    PROVE  power_at(p, v) <= power_at(p, w) + Rounding(w)
<1>1. /\ power_at(p, v) \in Nat /\ power_at(p, w) \in Nat /\ StatedPower(p) \in Nat
      /\ current_at(p, v) \in Nat /\ current_at(p, w) \in Nat
      /\ Rounding(w) \in Nat
    BY ObjectTypes DEF Rounding
<1>2. ASSUME current_at(p, v) <= current_at(p, w) PROVE power_at(p, v) <= power_at(p, w)
    BY <1>1, <1>2, PowerMono DEF power_at
<1>3. CASE current_at(p, v) <= current_at(p, w)
    BY <1>1, <1>2, <1>3
<1>4. CASE current_at(p, w) = current_from(StatedPower(p), w) /\ kind(p) \in Stated /\ w > 0
    <2>1. power_at(p, v) <= StatedPower(p)
        BY <1>4, StatedPowerBound
    <2>2. StatedPower(p) <= power_at(p, w) + Rounding(w)
        BY <1>1, <1>4, StatedBounds DEF power_at
    <2> QED
        BY <1>1, <2>1, <2>2
<1>5. CASE kind(p) \in Steady
    BY <1>1, <1>3, <1>5, SteadyCurrent
<1>6. CASE w = 0
    BY <1>1, <1>3, <1>6
<1>7. CASE kind(p) = "battery" /\ w > 0
    BY <1>4, <1>7, CurrentByKind DEF Stated
<1>8. CASE kind(p) = "epr_avs" /\ w > 0
    BY <1>3, <1>4, <1>8, AvsPower DEF Stated
<1> QED
    BY <1>5, <1>6, <1>7, <1>8 DEF Stated

-----------------------------------------------------------------------------
(* best_power() and at_voltage() *)

Selections == [position : Nat, voltage : Nat, current : Nat]

LEMMA NothingType == NoSelection \in Selections /\ NoSelection.position = 0 /\ NoSelection.current = 0
    BY DEF NoSelection, Selections

IsOffer(s, p, i, v) ==
    /\ s \in Selections /\ s.position = i /\ s.voltage = v /\ s.current = current_at(p, v)
    /\ power(s) = power_at(p, v) /\ power(s) \in Nat /\ s.current \in Nat

LEMMA OffersType ==
    ASSUME NEW objects \in Seq(PDO), NEW i \in 1 .. Len(objects), NEW v \in Nat
    PROVE  IsOffer(Offers(objects, i, v), objects[i], i, v)
<1>1. objects[i] \in PDO /\ i \in Nat
    OBVIOUS
<1>2. current_at(objects[i], v) \in Nat /\ power_at(objects[i], v) \in Nat
    BY <1>1, ObjectTypes
<1> QED
    BY <1>1, <1>2 DEF IsOffer, Offers, Selections, power, power_at

\* What the loop compares: the object's offer at its highest voltage in the range, if it
\* has enough current there.
Offer(objects, lo, hi, i) == Offers(objects, i, best_voltage_in(objects[i], lo, hi))
Fits(objects, lo, hi, imin, i) ==
    best_voltage_in(objects[i], lo, hi) # None /\ Offer(objects, lo, hi, i).current >= imin

LEMMA PowerTurnIs ==
    ASSUME NEW objects, NEW lo, NEW hi, NEW imin, NEW i, NEW best
    PROVE  PowerTurn(objects, lo, hi, imin, i, best) =
               IF Fits(objects, lo, hi, imin, i) /\ MorePower(Offer(objects, lo, hi, i), best)
               THEN Offer(objects, lo, hi, i) ELSE best
    BY DEF PowerTurn, Fits, Offer

LEMMA OfferType ==
    ASSUME NEW objects \in Seq(PDO), NEW lo \in Nat, NEW hi \in Nat, NEW imin \in Nat,
           NEW i \in 1 .. Len(objects), Fits(objects, lo, hi, imin, i)
    PROVE  /\ best_voltage_in(objects[i], lo, hi) \in Nat
           /\ Offer(objects, lo, hi, i) \in Selections /\ Offer(objects, lo, hi, i).position = i
           /\ power(Offer(objects, lo, hi, i)) \in Nat
<1>1. objects[i] \in PDO
    OBVIOUS
<1>2. best_voltage_in(objects[i], lo, hi) \in Nat
    BY <1>1, BestVoltage DEF Fits
<1> DEFINE v == best_voltage_in(objects[i], lo, hi)
<1>3. IsOffer(Offers(objects, i, v), objects[i], i, v)
    <2> HIDE DEF v
    <2> QED
        BY <1>2, OffersType DEF v
<1> QED
    BY <1>2, <1>3, Zenon DEF Offer, IsOffer

LEMMA PowerLoop ==
    ASSUME NEW objects \in Seq(PDO), NEW lo \in Nat, NEW hi \in Nat, NEW imin \in Nat
    PROVE  \E best \in [0 .. Len(objects) -> Selections] :
              /\ best[0] = NoSelection
              /\ \A i \in 1 .. Len(objects) :
                    best[i] = PowerTurn(objects, lo, hi, imin, i, best[i - 1])
              /\ best_power(objects, lo, hi, imin) = best[Len(objects)]
<1> DEFINE n == Len(objects)
           Turn == [x \in (1 .. n) \X Selections |-> PowerTurn(objects, lo, hi, imin, x[1], x[2])]
           Body(f) == [i \in 0 .. n |-> IF i = 0 THEN NoSelection
                                        ELSE PowerTurn(objects, lo, hi, imin, i, f[i - 1])]
           h == CHOOSE f : f = Body(f)
<1>1. n \in Nat
    OBVIOUS
<1>2. Turns(n, Selections, Turn)
    <2>1. ASSUME NEW i \in 1 .. n, NEW best \in Selections
          PROVE  PowerTurn(objects, lo, hi, imin, i, best) \in Selections
        BY PowerTurnIs, OfferType
    <2> QED
        BY <2>1 DEF Turns
<1>3. PICK f : Values(n, Selections, Turn, NoSelection, f)
    <2>1. NoSelection \in Selections
        BY NothingType
    <2> HIDE DEF Turn, n
    <2> QED
        BY <1>1, <1>2, <2>1, Unrolled, Zenon
<1>4. /\ f \in [0 .. n -> Selections] /\ f[0] = NoSelection
      /\ \A i \in 1 .. n : f[i] = PowerTurn(objects, lo, hi, imin, i, f[i - 1])
    <2>1. f \in [0 .. n -> Selections] /\ f[0] = NoSelection
        BY <1>3 DEF Values
    <2>2. ASSUME NEW i \in 1 .. n PROVE f[i] = PowerTurn(objects, lo, hi, imin, i, f[i - 1])
        <3>1. <<i, f[i - 1]>> \in (1 .. n) \X Selections
            BY <1>1, <2>1
        <3> QED
            BY <1>3, <3>1 DEF Values
    <2> QED
        BY <2>1, <2>2
<1>5. h = Body(h)
    <2>1. f = Body(f)
        BY <1>1, <1>4
    <2> HIDE DEF Body
    <2> QED
        BY <2>1
<1>6. h[0] = NoSelection /\ \A i \in 1 .. n : h[i] = PowerTurn(objects, lo, hi, imin, i, h[i - 1])
    <2> HIDE DEF h
    <2> QED
        BY <1>1, <1>5
<1>7. Follows(n, Selections, Turn, h)
    <2> HIDE DEF h
    <2> QED
        BY <1>6 DEF Follows
<1>8. h[n] = f[n]
    <2>1. h[0] = NoSelection
        BY <1>6, Zenon
    <2> HIDE DEF h, Turn, n
    <2> QED
        BY <1>1, <1>2, <1>3, <1>7, <2>1, SameValue
<1>9. best_power(objects, lo, hi, imin) = h[n]
    BY DEF best_power
<1> QED
    BY <1>4, <1>8, <1>9

LEMMA CurrentLoop ==
    ASSUME NEW objects \in Seq(PDO), NEW v \in Nat, NEW imin \in Nat
    PROVE  \E best \in [0 .. Len(objects) -> Selections] :
              /\ best[0] = NoSelection
              /\ \A i \in 1 .. Len(objects) :
                    best[i] = CurrentTurn(objects, v, imin, i, best[i - 1])
              /\ at_voltage(objects, v, imin) = best[Len(objects)]
<1> DEFINE n == Len(objects)
           Turn == [x \in (1 .. n) \X Selections |-> CurrentTurn(objects, v, imin, x[1], x[2])]
           Body(f) == [i \in 0 .. n |-> IF i = 0 THEN NoSelection
                                        ELSE CurrentTurn(objects, v, imin, i, f[i - 1])]
           h == CHOOSE f : f = Body(f)
<1>1. n \in Nat
    OBVIOUS
<1>2. Turns(n, Selections, Turn)
    <2>1. ASSUME NEW i \in 1 .. n, NEW best \in Selections
          PROVE  CurrentTurn(objects, v, imin, i, best) \in Selections
        BY OffersType DEF CurrentTurn, IsOffer
    <2> QED
        BY <2>1 DEF Turns
<1>3. PICK f : Values(n, Selections, Turn, NoSelection, f)
    <2>1. NoSelection \in Selections
        BY NothingType
    <2> HIDE DEF Turn, n
    <2> QED
        BY <1>1, <1>2, <2>1, Unrolled, Zenon
<1>4. /\ f \in [0 .. n -> Selections] /\ f[0] = NoSelection
      /\ \A i \in 1 .. n : f[i] = CurrentTurn(objects, v, imin, i, f[i - 1])
    <2>1. f \in [0 .. n -> Selections] /\ f[0] = NoSelection
        BY <1>3 DEF Values
    <2>2. ASSUME NEW i \in 1 .. n PROVE f[i] = CurrentTurn(objects, v, imin, i, f[i - 1])
        <3>1. <<i, f[i - 1]>> \in (1 .. n) \X Selections
            BY <1>1, <2>1
        <3> QED
            BY <1>3, <3>1 DEF Values
    <2> QED
        BY <2>1, <2>2
<1>5. h = Body(h)
    <2>1. f = Body(f)
        BY <1>1, <1>4
    <2> HIDE DEF Body
    <2> QED
        BY <2>1
<1>6. h[0] = NoSelection /\ \A i \in 1 .. n : h[i] = CurrentTurn(objects, v, imin, i, h[i - 1])
    <2> HIDE DEF h
    <2> QED
        BY <1>1, <1>5
<1>7. Follows(n, Selections, Turn, h)
    <2> HIDE DEF h
    <2> QED
        BY <1>6 DEF Follows
<1>8. h[n] = f[n]
    <2>1. h[0] = NoSelection
        BY <1>6, Zenon
    <2> HIDE DEF h, Turn, n
    <2> QED
        BY <1>1, <1>2, <1>3, <1>7, <2>1, SameValue
<1>9. at_voltage(objects, v, imin) = h[n]
    BY DEF at_voltage
<1> QED
    BY <1>4, <1>8, <1>9

LEMMA SelectionPower ==
    ASSUME NEW s \in Selections
    PROVE  power(s) \in Nat /\ s.position \in Nat
<1>1. s.position \in Nat /\ s.voltage \in Nat /\ s.current \in Nat
    BY DEF Selections
<1>2. s.voltage * s.current \in Nat
    BY <1>1
<1> QED
    BY <1>1, <1>2 DEF power, Power

\* What best_power() has found after so many turns.
BestUpTo(objects, lo, hi, imin, i, s) ==
    /\ s.position = 0 => s = NoSelection
    /\ s.position # 0 =>
          /\ s.position \in 1 .. i
          /\ Fits(objects, lo, hi, imin, s.position)
          /\ s = Offer(objects, lo, hi, s.position)
    /\ \A j \in 1 .. i : Fits(objects, lo, hi, imin, j) =>
          s.position # 0 /\ power(Offer(objects, lo, hi, j)) <= power(s)

LEMMA BestPower ==
    ASSUME NEW objects \in Seq(PDO), NEW lo \in Nat, NEW hi \in Nat, NEW imin \in Nat
    PROVE  /\ best_power(objects, lo, hi, imin) \in Selections
           /\ BestUpTo(objects, lo, hi, imin, Len(objects), best_power(objects, lo, hi, imin))
<1>1. PICK f \in [0 .. Len(objects) -> Selections] :
          /\ f[0] = NoSelection
          /\ \A i \in 1 .. Len(objects) :
                f[i] = PowerTurn(objects, lo, hi, imin, i, f[i - 1])
          /\ best_power(objects, lo, hi, imin) = f[Len(objects)]
    BY PowerLoop
<1> DEFINE n == Len(objects)
           F(j) == Fits(objects, lo, hi, imin, j)
           O(j) == Offer(objects, lo, hi, j)
           P == {i \in 0 .. n : BestUpTo(objects, lo, hi, imin, i, f[i])}
<1>2. n \in Nat
    OBVIOUS
<1>3. 0 \in P
    BY <1>1, <1>2, NothingType DEF BestUpTo
<1>4. ASSUME NEW i \in 0 .. n - 1, i \in P PROVE i + 1 \in P
    <2>1. i + 1 \in 1 .. n /\ i + 1 \in 0 .. n /\ (i + 1) - 1 = i /\ i \in 0 .. n
        BY <1>2
    <2> DEFINE s == f[i]
               t == f[i + 1]
    <2>2. s \in Selections /\ t \in Selections
        BY <1>1, <2>1
    <2>3. t = IF F(i + 1) /\ MorePower(O(i + 1), s) THEN O(i + 1) ELSE s
        <3>1. t = PowerTurn(objects, lo, hi, imin, i + 1, s)
            BY <1>1, <2>1
        <3> QED
            BY <3>1, PowerTurnIs
    <2>4. /\ s.position = 0 => s = NoSelection
          /\ s.position # 0 => s.position \in 1 .. i /\ F(s.position) /\ s = O(s.position)
          /\ \A j \in 1 .. i : F(j) => s.position # 0 /\ power(O(j)) <= power(s)
        BY <1>4 DEF BestUpTo
    <2>5. \A j \in 1 .. n : F(j) => O(j) \in Selections /\ O(j).position = j /\ power(O(j)) \in Nat
        BY OfferType
    <2>6. power(s) \in Nat /\ s.position \in Nat /\ \A j \in 1 .. i + 1 : j \in 1 .. i \/ j = i + 1
        BY <2>1, <2>2, SelectionPower
    <2>7. \A j \in 1 .. i : j \in 1 .. n /\ j \in 1 .. i + 1
        BY <2>1
    <2> HIDE DEF s, t, F, O
    <2>8. /\ t.position = 0 => t = NoSelection
          /\ t.position # 0 => t.position \in 1 .. i + 1 /\ F(t.position) /\ t = O(t.position)
          /\ \A j \in 1 .. i + 1 : F(j) => t.position # 0 /\ power(O(j)) <= power(t)
        <3>1. CASE F(i + 1) /\ MorePower(O(i + 1), s)
            <4>1. t = O(i + 1) /\ t.position = i + 1 /\ i + 1 # 0 /\ i + 1 \in 1 .. i + 1
                BY <2>1, <2>3, <2>5, <3>1
            <4>2. ASSUME NEW j \in 1 .. i + 1, F(j) PROVE power(O(j)) <= power(t)
                <5>1. CASE j = i + 1
                    BY <2>1, <2>5, <4>1, <4>2, <5>1
                <5>2. CASE j \in 1 .. i
                    <6>1. s.position # 0 /\ power(O(j)) <= power(s) /\ power(O(j)) \in Nat
                        BY <2>4, <2>5, <2>7, <4>2, <5>2
                    <6>2. power(t) > power(s) /\ power(t) \in Nat
                        BY <2>1, <2>5, <3>1, <4>1, <6>1 DEF MorePower
                    <6> QED
                        BY <2>6, <6>1, <6>2
                <5> QED
                    BY <2>6, <5>1, <5>2
            <4> QED
                BY <3>1, <4>1, <4>2
        <3>2. CASE ~(F(i + 1) /\ MorePower(O(i + 1), s))
            <4>1. t = s
                BY <2>3, <3>2
            <4>2. ASSUME NEW j \in 1 .. i + 1, F(j) PROVE s.position # 0 /\ power(O(j)) <= power(s)
                <5>1. CASE j = i + 1
                    BY <2>1, <2>5, <2>6, <3>2, <4>2, <5>1 DEF MorePower
                <5>2. CASE j \in 1 .. i
                    BY <2>4, <4>2, <5>2
                <5> QED
                    BY <2>6, <5>1, <5>2
            <4> QED
                BY <2>4, <2>7, <4>1, <4>2
        <3> QED
            BY <3>1, <3>2
    <2>9. BestUpTo(objects, lo, hi, imin, i + 1, t)
        BY <2>8 DEF BestUpTo, F, O
    <2> QED
        BY <2>1, <2>9 DEF t
<1>5. \A i \in 0 .. n : i \in P
    <2> HIDE DEF P
    <2> QED
        BY <1>2, <1>3, <1>4, Climb
<1> QED
    BY <1>1, <1>2, <1>5

\* What at_voltage() looks at, and what it has found after so many turns.
Gives(objects, v, imin, i) == supports(objects[i], v) /\ Offers(objects, i, v).current >= imin

MostUpTo(objects, v, imin, i, s) ==
    /\ s.position # 0 =>
          /\ s.position \in 1 .. i
          /\ Gives(objects, v, imin, s.position)
          /\ s = Offers(objects, s.position, v)
    /\ \A j \in 1 .. i : Gives(objects, v, imin, j) =>
          s.position # 0 /\ Offers(objects, j, v).current <= s.current

LEMMA AtVoltage ==
    ASSUME NEW objects \in Seq(PDO), NEW v \in Nat, NEW imin \in Nat
    PROVE  /\ at_voltage(objects, v, imin) \in Selections
           /\ MostUpTo(objects, v, imin, Len(objects), at_voltage(objects, v, imin))
<1>1. PICK f \in [0 .. Len(objects) -> Selections] :
          /\ f[0] = NoSelection
          /\ \A i \in 1 .. Len(objects) :
                f[i] = CurrentTurn(objects, v, imin, i, f[i - 1])
          /\ at_voltage(objects, v, imin) = f[Len(objects)]
    BY CurrentLoop
<1> DEFINE n == Len(objects)
           G(j) == Gives(objects, v, imin, j)
           O(j) == Offers(objects, j, v)
           P == {i \in 0 .. n : MostUpTo(objects, v, imin, i, f[i])}
<1>2. n \in Nat
    OBVIOUS
<1>3. 0 \in P
    BY <1>1, <1>2, NothingType DEF MostUpTo
<1>4. ASSUME NEW i \in 0 .. n - 1, i \in P PROVE i + 1 \in P
    <2>1. i + 1 \in 1 .. n /\ i + 1 \in 0 .. n /\ (i + 1) - 1 = i /\ i \in 0 .. n
        BY <1>2
    <2> DEFINE s == f[i]
               t == f[i + 1]
               More == s.position = 0 \/ O(i + 1).current > s.current
    <2>2. s \in Selections /\ t \in Selections
        BY <1>1, <2>1
    <2>3. t = IF G(i + 1) /\ More THEN O(i + 1) ELSE s
        <3>1. t = CurrentTurn(objects, v, imin, i + 1, s)
            BY <1>1, <2>1
        <3> QED
            BY <3>1 DEF CurrentTurn, Gives
    <2>4. /\ s.position # 0 => s.position \in 1 .. i /\ G(s.position) /\ s = O(s.position)
          /\ \A j \in 1 .. i : G(j) => s.position # 0 /\ O(j).current <= s.current
        BY <1>4 DEF MostUpTo
    <2>5. \A j \in 1 .. n : O(j).position = j /\ O(j).current \in Nat
        <3>1. ASSUME NEW j \in 1 .. n PROVE O(j).position = j /\ O(j).current \in Nat
            <4>1. IsOffer(Offers(objects, j, v), objects[j], j, v)
                BY OffersType
            <4> QED
                BY <4>1, Zenon DEF IsOffer
        <3> QED
            BY <3>1, Zenon
    <2>6. s.current \in Nat /\ s.position \in Nat /\ \A j \in 1 .. i + 1 : j \in 1 .. i \/ j = i + 1
        BY <2>1, <2>2 DEF Selections
    <2>7. \A j \in 1 .. i : j \in 1 .. n /\ j \in 1 .. i + 1
        BY <2>1
    <2> HIDE DEF s, t, G, O
    <2>8. /\ t.position # 0 => t.position \in 1 .. i + 1 /\ G(t.position) /\ t = O(t.position)
          /\ \A j \in 1 .. i + 1 : G(j) => t.position # 0 /\ O(j).current <= t.current
        <3>1. CASE G(i + 1) /\ More
            <4>1. t = O(i + 1) /\ t.position = i + 1 /\ i + 1 # 0 /\ i + 1 \in 1 .. i + 1
                BY <2>1, <2>3, <2>5, <3>1
            <4>2. ASSUME NEW j \in 1 .. i + 1, G(j) PROVE O(j).current <= t.current
                <5>1. CASE j = i + 1
                    BY <2>1, <2>5, <4>1, <5>1
                <5>2. CASE j \in 1 .. i
                    <6>1. s.position # 0 /\ O(j).current <= s.current /\ O(j).current \in Nat
                        BY <2>4, <2>5, <2>7, <4>2, <5>2
                    <6>2. t.current > s.current /\ t.current \in Nat
                        BY <2>1, <2>5, <3>1, <4>1, <6>1
                    <6> QED
                        BY <2>6, <6>1, <6>2
                <5> QED
                    BY <2>6, <5>1, <5>2
            <4> QED
                BY <3>1, <4>1, <4>2
        <3>2. CASE ~(G(i + 1) /\ More)
            <4>1. t = s
                BY <2>3, <3>2
            <4>2. ASSUME NEW j \in 1 .. i + 1, G(j) PROVE s.position # 0 /\ O(j).current <= s.current
                <5>1. CASE j = i + 1
                    BY <2>1, <2>5, <2>6, <3>2, <4>2, <5>1
                <5>2. CASE j \in 1 .. i
                    BY <2>4, <4>2, <5>2
                <5> QED
                    BY <2>6, <5>1, <5>2
            <4> QED
                BY <2>4, <2>7, <4>1, <4>2
        <3> QED
            BY <3>1, <3>2
    <2>9. MostUpTo(objects, v, imin, i + 1, t)
        BY <2>8 DEF MostUpTo, G, O
    <2> QED
        BY <2>1, <2>9 DEF t
<1>5. \A i \in 0 .. n : i \in P
    <2> HIDE DEF P
    <2> QED
        BY <1>2, <1>3, <1>4, Climb
<1> QED
    BY <1>1, <1>2, <1>5

-----------------------------------------------------------------------------
(* read_caps() *)

LEMMA AddLoop ==
    ASSUME NEW objects \in Seq(PDO)
    PROVE  \E best \in [0 .. Len(objects) -> Seq(PDO)] :
              /\ best[0] = <<>>
              /\ \A i \in 1 .. Len(objects) :
                    best[i] = add(best[i - 1], objects[i])
              /\ Filled(objects) = best[Len(objects)]
<1> DEFINE n == Len(objects)
           Turn == [x \in (1 .. n) \X Seq(PDO) |-> add(x[2], objects[x[1]])]
           Body(f) == [i \in 0 .. n |-> IF i = 0 THEN <<>>
                                        ELSE add(f[i - 1], objects[i])]
           h == CHOOSE f : f = Body(f)
<1>1. n \in Nat
    OBVIOUS
<1>2. Turns(n, Seq(PDO), Turn)
    <2>1. ASSUME NEW i \in 1 .. n, NEW best \in Seq(PDO)
          PROVE  add(best, objects[i]) \in Seq(PDO)
        BY AppendProperties DEF add
    <2> QED
        BY <2>1 DEF Turns
<1>3. PICK f : Values(n, Seq(PDO), Turn, <<>>, f)
    <2>1. <<>> \in Seq(PDO)
        BY EmptySeq
    <2> HIDE DEF Turn, n
    <2> QED
        BY <1>1, <1>2, <2>1, Unrolled, Zenon
<1>4. /\ f \in [0 .. n -> Seq(PDO)] /\ f[0] = <<>>
      /\ \A i \in 1 .. n : f[i] = add(f[i - 1], objects[i])
    <2>1. f \in [0 .. n -> Seq(PDO)] /\ f[0] = <<>>
        BY <1>3 DEF Values
    <2>2. ASSUME NEW i \in 1 .. n PROVE f[i] = add(f[i - 1], objects[i])
        <3>1. i - 1 \in 0 .. n
            BY <1>1
        <3>2. f[i - 1] \in Seq(PDO)
            BY <2>1, <3>1, Zenon
        <3>3. f[i] = Turn[<<i, f[i - 1]>>]
            BY <1>3, Zenon DEF Values
        <3>4. <<i, f[i - 1]>> \in (1 .. n) \X Seq(PDO)
            BY <3>2, Zenon
        <3>5. Turn[<<i, f[i - 1]>>] = add(f[i - 1], objects[i])
            BY <3>4, Zenon
        <3> QED
            BY <3>3, <3>5, Zenon
    <2> QED
        BY <2>1, <2>2
<1>5. h = Body(h)
    <2>1. f = Body(f)
        BY <1>1, <1>4
    <2> HIDE DEF Body
    <2> QED
        BY <2>1
<1>6. h[0] = <<>> /\ \A i \in 1 .. n : h[i] = add(h[i - 1], objects[i])
    <2> HIDE DEF h
    <2> QED
        BY <1>1, <1>5
<1>7. Follows(n, Seq(PDO), Turn, h)
    <2> HIDE DEF h
    <2> QED
        BY <1>6 DEF Follows
<1>8. h[n] = f[n]
    <2>1. h[0] = <<>>
        BY <1>6, Zenon
    <2> HIDE DEF h, Turn, n
    <2> QED
        BY <1>1, <1>2, <1>3, <1>7, <2>1, SameValue
<1>9. Filled(objects) = h[n]
    BY DEF Filled
<1> QED
    BY <1>4, <1>8, <1>9

\* The seven objects that the register can hold fit: all are in the list.
LEMMA FilledAll ==
    ASSUME NEW objects \in Seq(PDO), Len(objects) <= capacity
    PROVE  Filled(objects) = objects
<1>1. PICK f \in [0 .. Len(objects) -> Seq(PDO)] :
          /\ f[0] = <<>>
          /\ \A i \in 1 .. Len(objects) : f[i] = add(f[i - 1], objects[i])
          /\ Filled(objects) = f[Len(objects)]
    BY AddLoop
<1> DEFINE n == Len(objects)
           Prefix(i) == Len(f[i]) = i /\ \A j \in 1 .. i : f[i][j] = objects[j]
           P == {i \in 0 .. n : Prefix(i)}
<1>2. n \in Nat /\ n <= capacity
    OBVIOUS
<1>3. 0 \in P
    BY <1>1, EmptySeq
<1>4. ASSUME NEW i \in 0 .. n - 1, i \in P PROVE i + 1 \in P
    <2>1. i + 1 \in 1 .. n /\ i + 1 \in 0 .. n /\ (i + 1) - 1 = i /\ i \in 0 .. n /\ i < capacity
        BY <1>2 DEF capacity
    <2>2. f[i + 1] = add(f[i], objects[i + 1])
        BY <1>1, <2>1
    <2>3. f[i] \in Seq(PDO) /\ objects[i + 1] \in PDO
        BY <1>1, <2>1
    <2>4. Len(f[i]) = i /\ \A j \in 1 .. i : f[i][j] = objects[j]
        BY <1>4
    <2>5. f[i + 1] = Append(f[i], objects[i + 1])
        BY <2>1, <2>2, <2>4 DEF add, capacity
    <2>6. /\ Len(f[i + 1]) = i + 1 /\ f[i + 1][i + 1] = objects[i + 1]
          /\ \A j \in 1 .. i : f[i + 1][j] = f[i][j]
        BY <2>3, <2>4, <2>5, AppendProperties
    <2>7. \A j \in 1 .. i + 1 : f[i + 1][j] = objects[j]
        BY <2>1, <2>4, <2>6
    <2> QED
        BY <2>1, <2>6, <2>7
<1>5. \A i \in 0 .. n : i \in P
    <2> HIDE DEF P
    <2> QED
        BY <1>2, <1>3, <1>4, Climb
<1>6. Len(f[n]) = n /\ \A j \in 1 .. n : f[n][j] = objects[j]
    BY <1>2, <1>5
<1>7. f[n] \in Seq(PDO)
    BY <1>1, <1>2
<1>8. f[n] = objects
    BY <1>6, <1>7, SeqEqual
<1> QED
    BY <1>1, <1>8

-----------------------------------------------------------------------------
(* What is selected *)

Ranges == [vmin : Nat, vmax : Nat, imin : Nat]
Found(objects, q) == best_power(objects, q.vmin, q.vmax, q.imin)

\* An object of these kinds, at whatever voltage of the range it gives enough current,
\* gives no more power than what is found, but for the rounding.
LEMMA NothingBetter ==
    ASSUME NEW objects \in Seq(PDO), NEW q \in Ranges, NEW i \in 1 .. Len(objects),
           NEW v \in q.vmin .. q.vmax, Monotonic(objects[i], q), supports(objects[i], v),
           current_at(objects[i], v) >= q.imin
    PROVE  /\ Found(objects, q).position # 0
           /\ power_at(objects[i], v) <= power(Found(objects, q)) + Rounding(q.vmax)
<1> DEFINE p == objects[i]
           s == Found(objects, q)
           b == best_voltage_in(p, q.vmin, q.vmax)
<1>1. /\ q.vmin \in Nat /\ q.vmax \in Nat /\ q.imin \in Nat /\ v \in Nat /\ p \in PDO
      /\ Len(objects) \in Nat
    BY DEF Ranges
<1>2. b \in Nat /\ v <= b /\ b <= q.vmax /\ supports(p, b) /\ b # None
    <2>1. b # None /\ v <= b
        BY <1>1, BestVoltage
    <2> QED
        BY <1>1, <2>1, BestVoltage
<1>3. current_at(p, b) >= q.imin /\ kind(p) \in Steady \cup Stated
    <2>1. CASE kind(p) \in Steady
        BY <1>1, <1>2, <2>1, SteadyCurrent
    <2>2. CASE kind(p) \in Stated /\ q.imin = 0
        <3>1. current_at(p, b) \in Nat
            BY <1>1, <1>2, ObjectTypes
        <3> QED
            BY <2>2, <3>1
    <2> QED
        BY <2>1, <2>2 DEF Monotonic, Steady, Stated
<1>4. Offer(objects, q.vmin, q.vmax, i).current = current_at(p, b)
      /\ power(Offer(objects, q.vmin, q.vmax, i)) = power_at(p, b)
    <2>1. IsOffer(Offers(objects, i, b), p, i, b)
        <3> HIDE DEF b
        <3> QED
            BY <1>2, OffersType
    <2> QED
        BY <2>1, Zenon DEF Offer, IsOffer
<1>5. Fits(objects, q.vmin, q.vmax, q.imin, i)
    BY <1>2, <1>3, <1>4 DEF Fits
<1>6. s \in Selections /\ s.position # 0 /\ power_at(p, b) <= power(s)
    BY <1>1, <1>4, <1>5, BestPower DEF BestUpTo, Found
<1>7. power_at(p, v) <= power_at(p, b) + Rounding(b)
    BY <1>1, <1>2, <1>3, HighestIsBest
<1>8. Rounding(b) <= Rounding(q.vmax) /\ Rounding(b) \in Nat /\ Rounding(q.vmax) \in Nat
    BY <1>1, <1>2, DivMono DEF Rounding
<1>9. power(s) \in Nat /\ power_at(p, b) \in Nat /\ power_at(p, v) \in Nat
    BY <1>1, <1>2, <1>6, SelectionPower, ObjectTypes
<1> HIDE DEF p, s, b
<1>10. power_at(p, v) <= power(s) + Rounding(q.vmax)
    BY <1>6, <1>7, <1>8, <1>9
<1> QED
    BY <1>6, <1>10 DEF p, s

\* What is found is an object's, within the range and the object's limits.
LEMMA FoundIsOffered ==
    ASSUME NEW objects \in Seq(PDO), NEW q \in Ranges, Found(objects, q).position # 0
    PROVE  LET s == Found(objects, q)
               p == objects[s.position] IN
           /\ s.position \in 1 .. Len(objects) /\ p \in PDO
           /\ s.voltage \in q.vmin .. q.vmax /\ s.voltage \in Nat
           /\ supports(p, s.voltage)
           /\ s.current = current_at(p, s.voltage) /\ s.current >= q.imin /\ s.current \in Nat
           /\ power(s) = power_at(p, s.voltage)
<1> DEFINE s == Found(objects, q)
           p == objects[s.position]
           b == best_voltage_in(p, q.vmin, q.vmax)
<1>1. /\ q.vmin \in Nat /\ q.vmax \in Nat /\ q.imin \in Nat
    BY DEF Ranges
<1>2. /\ s \in Selections /\ s.position \in 1 .. Len(objects)
      /\ Fits(objects, q.vmin, q.vmax, q.imin, s.position)
      /\ s = Offer(objects, q.vmin, q.vmax, s.position)
    BY <1>1, BestPower DEF BestUpTo, Found
<1>3. p \in PDO
    BY <1>2
<1>4. b \in q.vmin .. q.vmax /\ b \in Nat /\ supports(p, b)
    <2>1. b # None
        BY <1>2 DEF Fits
    <2> QED
        BY <1>1, <1>3, <2>1, BestVoltage
<1>5. s = Offers(objects, s.position, b) /\ s.current >= q.imin
    BY <1>2 DEF Offer, Fits
<1>6. /\ s.voltage = b /\ s.current = current_at(p, b) /\ power(s) = power_at(p, b)
      /\ s.current \in Nat
    <2>1. /\ Offers(objects, s.position, b).voltage = b
          /\ Offers(objects, s.position, b).current = current_at(p, b)
          /\ power(Offers(objects, s.position, b)) = power_at(p, b)
        <3>1. \A j \in 1 .. Len(objects) : IsOffer(Offers(objects, j, b), objects[j], j, b)
            <4> HIDE DEF b
            <4> QED
                BY <1>4, OffersType
        <3> QED
            BY <1>2, <3>1, Zenon DEF IsOffer
    <2>2. s.current \in Nat
        BY <1>2 DEF Selections
    <2> HIDE DEF s
    <2> QED
        BY <1>5, <2>1, <2>2
<1> QED
    BY <1>2, <1>3, <1>4, <1>5, <1>6

\* at_voltage() finds an object there too.
LEMMA FoundThere ==
    ASSUME NEW objects \in Seq(PDO), NEW q \in Ranges, Found(objects, q).position # 0
    PROVE  LET s == Found(objects, q)
               a == at_voltage(objects, s.voltage, q.imin) IN
           /\ a.position # 0 /\ a.current >= s.current
           /\ (\A i \in 1 .. Len(objects) : Monotonic(objects[i], q)) =>
                  power(a) <= power(s) + Rounding(q.vmax)
<1> DEFINE s == Found(objects, q)
           v == s.voltage
           a == at_voltage(objects, v, q.imin)
<1>1. /\ q.vmin \in Nat /\ q.vmax \in Nat /\ q.imin \in Nat
    BY DEF Ranges
<1>2. /\ s.position \in 1 .. Len(objects) /\ v \in Nat /\ v \in q.vmin .. q.vmax
      /\ supports(objects[s.position], v)
      /\ s.current = current_at(objects[s.position], v) /\ s.current >= q.imin
      /\ s.current \in Nat
    BY FoundIsOffered
<1> HIDE DEF s, v, a
<1>3. /\ Offers(objects, s.position, v).current = s.current
      /\ Gives(objects, v, q.imin, s.position)
    <2>1. \A j \in 1 .. Len(objects) : IsOffer(Offers(objects, j, v), objects[j], j, v)
        BY <1>2, OffersType
    <2>2. Offers(objects, s.position, v).current = s.current
        BY <1>2, <2>1, Zenon DEF IsOffer
    <2> QED
        BY <1>2, <2>2 DEF Gives
<1>4. a \in Selections /\ MostUpTo(objects, v, q.imin, Len(objects), a)
    BY <1>1, <1>2, AtVoltage DEF a
<1>5. a.position # 0 /\ s.current <= a.current /\ a.current \in Nat
    BY <1>2, <1>3, <1>4 DEF MostUpTo, Selections
<1>6. ASSUME \A i \in 1 .. Len(objects) : Monotonic(objects[i], q)
      PROVE  power(a) <= power(s) + Rounding(q.vmax)
    <2>1. /\ a.position \in 1 .. Len(objects)
          /\ Gives(objects, v, q.imin, a.position) /\ a = Offers(objects, a.position, v)
        BY <1>4, <1>5 DEF MostUpTo
    <2>2. /\ power(Offers(objects, a.position, v)) = power_at(objects[a.position], v)
          /\ Offers(objects, a.position, v).current = current_at(objects[a.position], v)
        <3>1. \A j \in 1 .. Len(objects) : IsOffer(Offers(objects, j, v), objects[j], j, v)
            BY <1>2, OffersType
        <3> QED
            BY <2>1, <3>1, Zenon DEF IsOffer
    <2>3. supports(objects[a.position], v) /\ current_at(objects[a.position], v) >= q.imin
        BY <2>1, <2>2 DEF Gives
    <2>4. power_at(objects[a.position], v) <= power(s) + Rounding(q.vmax)
        BY <1>2, <1>6, <2>1, <2>3, NothingBetter DEF s
    <2>5. power(a) = power_at(objects[a.position], v)
        BY <2>1, <2>2, Zenon
    <2> QED
        BY <2>4, <2>5
<1> QED
    BY <1>2, <1>5, <1>6 DEF s, v, a

-----------------------------------------------------------------------------
(* The callers *)

Labels == {"idle", "caps", "selected", "auto", "volt", "command"}
Sinks  == [autoMax : BOOLEAN, noMismatch : BOOLEAN, maxVolt : Nat]

Types ==
    /\ source.objects \in Seq(PDO) /\ Len(source.objects) <= 7
    /\ pc \in [Callers -> Labels]
    /\ query \in [Callers -> Ranges] /\ sel \in [Callers -> Selections]
    /\ data \in [Callers -> Sinks] /\ reg37 \in Sinks /\ contract \in Sinks
    /\ DOMAIN caps = Callers

\* A caller has the objects of the source, or has looked for nothing in them, or has
\* found what is the best of them.
Looks(c) ==
    \/ pc[c] \in {"idle", "caps"} /\ query[c] = NoQuery /\ sel[c] = NoSelection
    \/ /\ pc[c] # "caps" /\ query[c] \in Queries
       /\ sel[c] = Found(source.objects, query[c])
       /\ pc[c] = "idle" => sel[c] = NoSelection
       /\ pc[c] # "idle" => sel[c].position # 0

SelectInv == \A c \in Callers : Looks(c) /\ (pc[c] = "caps" => caps[c] = source.objects)

\* A register that asks for what somebody found.
Asked(r) ==
    /\ ~r.autoMax /\ ~r.noMismatch
    /\ \E q \in Queries :
          LET s == Found(source.objects, q) IN s.position # 0 /\ s.voltage \div 50 = r.maxVolt

\* Whoever left the register as no selection asks for has its second write before it; and
\* whoever wrote what the controller has not negotiated has its command before it.
SinkInv ==
    /\ \A c \in Callers : pc[c] \in {"volt", "command"} => ~data[c].autoMax
    /\ reg37 = Factory \/ Asked(reg37) \/ \E c \in Callers : pc[c] = "volt"
    /\ contract = reg37 \/ \E c \in Callers : pc[c] \in {"volt", "command"}

LEMMA ConstantTypes ==
    /\ NoQuery \in Ranges /\ Queries \subseteq Ranges /\ Factory \in Sinks
    /\ NoSelection \in Selections /\ NoSelection.position = 0
    BY NothingType, QueriesAssumption DEF NoQuery, Ranges, Factory, Sinks

LEMMA FoundType ==
    ASSUME NEW objects \in Seq(PDO), NEW q \in Ranges
    PROVE  /\ Found(objects, q) \in Selections
           /\ Found(objects, q).position = 0 => Found(objects, q) = NoSelection
<1>1. q.vmin \in Nat /\ q.vmax \in Nat /\ q.imin \in Nat
    BY DEF Ranges
<1> QED
    BY <1>1, BestPower DEF Found, BestUpTo

LEMMA OfferedObjects ==
    ASSUME NEW objects \in Offered
    PROVE  objects \in Seq(PDO) /\ Len(objects) <= 7
<1>1. PICK n \in 0 .. MaxObjects : objects \in [1 .. n -> Catalogue]
    BY DEF Offered
<1>2. MaxObjects \in Nat /\ MaxObjects <= 7
    BY ObjectsAssumption
<1>3. n \in Nat /\ n <= 7 /\ objects \in [1 .. n -> PDO]
    BY <1>1, <1>2, CatalogueAssumption
<1>4. objects \in Seq(PDO)
    BY <1>3, IsASeq
<1> QED
    BY <1>3, <1>4, LenProperties

LEMMA InitInv == Init => Types /\ SelectInv /\ SinkInv
<1> SUFFICES ASSUME Init PROVE Types /\ SelectInv /\ SinkInv
    OBVIOUS
<1>1. source.objects \in Offered
    BY DEF Init
<1>2. source.objects \in Seq(PDO) /\ Len(source.objects) <= 7
    BY <1>1, OfferedObjects
<1>3. Types
    BY <1>2, ConstantTypes DEF Init, Types, Labels
<1>4. SelectInv
    BY DEF Init, SelectInv, Looks
<1>5. SinkInv
    BY DEF Init, SinkInv
<1> QED
    BY <1>3, <1>4, <1>5

LEMMA ReturnTypes ==
    ASSUME Types, NEW c \in Callers, Return(c)
    PROVE  /\ pc' \in [Callers -> Labels] /\ query' \in [Callers -> Ranges]
           /\ sel' \in [Callers -> Selections] /\ data' \in [Callers -> Sinks]
           /\ pc'[c] = "idle" /\ query'[c] = NoQuery /\ sel'[c] = NoSelection
           /\ \A d \in Callers : d # c =>
                 /\ pc'[d] = pc[d] /\ query'[d] = query[d] /\ sel'[d] = sel[d]
                 /\ data'[d] = data[d]
    BY ConstantTypes DEF Types, Return, Goto, Labels

LEMMA WriteTypes ==
    ASSUME Types, NEW c \in Callers, NEW d \in Sinks, WriteSink(c, d)
    PROVE  /\ data' = [data EXCEPT ![c] = d] /\ data' \in [Callers -> Sinks]
           /\ reg37' \in Sinks
           /\ reg37' = d \/ ("write_fails" \in Quirks /\ reg37' = reg37)
           /\ UNCHANGED <<source, caps, query, sel, contract>>
<1>1. data' = [data EXCEPT ![c] = d] /\ UNCHANGED <<source, caps, query, sel, contract>>
    BY DEF WriteSink
<1>2. data' \in [Callers -> Sinks]
    BY <1>1 DEF Types
<1>3. PICK fails \in MayFail("write_fails") : reg37' = IF fails THEN reg37 ELSE d
    BY DEF WriteSink
<1>4. CASE fails
    <2>1. "write_fails" \in Quirks
        BY <1>4 DEF MayFail
    <2> QED
        BY <1>1, <1>2, <1>3, <1>4, <2>1 DEF Types
<1>5. CASE ~fails
    <2>1. reg37' = d
        BY <1>3, <1>5, Zenon
    <2>2. reg37' \in Sinks
        BY <2>1
    <2> QED
        BY <1>1, <1>2, <2>1, <2>2, Zenon
<1> QED
    BY <1>4, <1>5, Zenon

LEMMA ManualType ==
    ASSUME NEW d \in Sinks
    PROVE  Manual(d) \in Sinks /\ ~Manual(d).autoMax
    BY DEF Sinks, Manual

LEMMA AskingType ==
    ASSUME NEW d \in Sinks, NEW v \in Nat
    PROVE  /\ Asking(d, v) \in Sinks /\ ~Asking(d, v).noMismatch
           /\ Asking(d, v).maxVolt = v \div 50 /\ Asking(d, v).autoMax = d.autoMax
<1>1. v \div 50 \in Nat
    OBVIOUS
<1> QED
    BY <1>1 DEF Sinks, Asking

LEMMA TypesStep == Types /\ SelectInv /\ [Next]_vars => Types'
<1> SUFFICES ASSUME Types, SelectInv, [Next]_vars PROVE Types'
    OBVIOUS
<1> USE DEF Goto
<1>1. ASSUME NEW c \in Callers, ReadCaps(c) PROVE Types'
    BY <1>1, ConstantTypes DEF Types, ReadCaps, Labels
<1>2. ASSUME NEW c \in Callers, Select(c) PROVE Types'
    <2>1. PICK q \in Queries :
              /\ query' = [query EXCEPT ![c] = q]
              /\ sel' = [sel EXCEPT ![c] = Found(caps[c], q)]
        BY <1>2 DEF Select, Found
    <2>2. caps[c] = source.objects
        BY <1>2 DEF Select, SelectInv
    <2>3. Found(caps[c], q) \in Selections /\ q \in Ranges
        BY <2>2, ConstantTypes, FoundType DEF Types
    <2>4. query' \in [Callers -> Ranges] /\ sel' \in [Callers -> Selections]
        BY <2>1, <2>3 DEF Types
    <2>5. pc' \in [Callers -> Labels] /\ UNCHANGED <<source, caps, data, reg37, contract>>
        BY <1>2 DEF Select, Types, Labels
    <2> QED
        BY <2>4, <2>5 DEF Types
<1>3. ASSUME NEW c \in Callers, ReadSink(c) PROVE Types'
    <2>1. CASE Return(c)
        BY <1>3, <2>1, ReturnTypes DEF Types, ReadSink
    <2>2. CASE pc' = [pc EXCEPT ![c] = "auto"] /\ data' = [data EXCEPT ![c] = reg37]
               /\ UNCHANGED <<query, sel>>
        BY <1>3, <2>2 DEF Types, ReadSink, Labels
    <2> QED
        BY <1>3, <2>1, <2>2 DEF ReadSink
<1>4. ASSUME NEW c \in Callers, WriteAuto(c) PROVE Types'
    <2>1. Manual(data[c]) \in Sinks
        BY ManualType DEF Types
    <2>2. pc' \in [Callers -> Labels]
        BY <1>4 DEF WriteAuto, Types, Labels
    <2> QED
        BY <1>4, <2>1, <2>2, WriteTypes DEF WriteAuto, Types
<1>5. ASSUME NEW c \in Callers, WriteVolt(c) PROVE Types'
    <2>1. Asking(data[c], sel[c].voltage) \in Sinks
        BY AskingType DEF Types, Selections
    <2>2. pc' \in [Callers -> Labels]
        BY <1>5 DEF WriteVolt, Types, Labels
    <2> QED
        BY <1>5, <2>1, <2>2, WriteTypes DEF WriteVolt, Types
<1>6. ASSUME NEW c \in Callers, Negotiate(c) PROVE Types'
    <2>1. contract' \in Sinks
        BY <1>6 DEF Negotiate, Types
    <2> QED
        BY <1>6, <2>1, ReturnTypes DEF Negotiate, Types
<1>7. CASE UNCHANGED vars
    BY <1>7 DEF Types, vars
<1> QED
    BY <1>1, <1>2, <1>3, <1>4, <1>5, <1>6, <1>7 DEF Next

\* What others do leaves a caller's selection alone.
LEMMA LooksUnchanged ==
    ASSUME NEW d \in Callers, Looks(d), pc'[d] = pc[d], query'[d] = query[d], sel'[d] = sel[d],
           source' = source
    PROVE  Looks(d)'
    BY DEF Looks

LEMMA SelectStep == Types /\ SelectInv /\ [Next]_vars => SelectInv'
<1> SUFFICES ASSUME Types, SelectInv, [Next]_vars PROVE SelectInv'
    OBVIOUS
<1> DEFINE Has(d) == pc[d] = "caps" => caps[d] = source.objects
<1>1. ASSUME NEW c \in Callers, ReadCaps(c) PROVE SelectInv'
    <2>1. /\ caps'[c] = Filled(source.objects) /\ pc'[c] = "caps" /\ query'[c] = NoQuery
          /\ pc[c] = "idle" /\ sel' = sel /\ source' = source
          /\ \A d \in Callers : d # c =>
                caps'[d] = caps[d] /\ pc'[d] = pc[d] /\ query'[d] = query[d]
        BY <1>1 DEF ReadCaps, Goto, Types
    <2>2. Filled(source.objects) = source.objects
        BY FilledAll DEF Types, capacity
    <2>3. sel[c] = NoSelection
        BY <2>1 DEF SelectInv, Looks
    <2>4. Looks(c)' /\ Has(c)'
        BY <2>1, <2>2, <2>3 DEF Looks
    <2>5. ASSUME NEW d \in Callers, d # c PROVE Looks(d)' /\ Has(d)'
        BY <2>1, <2>5, LooksUnchanged DEF SelectInv
    <2> QED
        BY <2>4, <2>5 DEF SelectInv
<1>2. ASSUME NEW c \in Callers, Select(c) PROVE SelectInv'
    <2>1. PICK q \in Queries :
              /\ query' = [query EXCEPT ![c] = q]
              /\ sel' = [sel EXCEPT ![c] = Found(caps[c], q)]
        BY <1>2 DEF Select, Found
    <2>2. caps[c] = source.objects
        BY <1>2 DEF Select, SelectInv
    <2>3. q \in Ranges /\ (Found(source.objects, q).position = 0 =>
                               Found(source.objects, q) = NoSelection)
        BY ConstantTypes, FoundType DEF Types
    <2>4. /\ query'[c] = q /\ sel'[c] = Found(source.objects, q) /\ source' = source
          /\ caps' = caps
          /\ pc'[c] = (IF sel'[c].position = 0 THEN "idle" ELSE "selected")
          /\ \A d \in Callers : d # c =>
                pc'[d] = pc[d] /\ query'[d] = query[d] /\ sel'[d] = sel[d]
        BY <1>2, <2>1, <2>2 DEF Select, Goto, Types
    <2>5. Looks(c)' /\ Has(c)'
        BY <2>3, <2>4 DEF Looks
    <2>6. ASSUME NEW d \in Callers, d # c PROVE Looks(d)' /\ Has(d)'
        BY <2>4, <2>6, LooksUnchanged DEF SelectInv
    <2> QED
        BY <2>5, <2>6 DEF SelectInv
<1>3. ASSUME NEW c \in Callers, Return(c), source' = source, caps' = caps PROVE SelectInv'
    <2>1. /\ pc'[c] = "idle" /\ query'[c] = NoQuery /\ sel'[c] = NoSelection
          /\ \A d \in Callers : d # c =>
                pc'[d] = pc[d] /\ query'[d] = query[d] /\ sel'[d] = sel[d]
        BY <1>3, ReturnTypes
    <2>2. Looks(c)' /\ Has(c)'
        BY <2>1 DEF Looks
    <2>3. ASSUME NEW d \in Callers, d # c PROVE Looks(d)' /\ Has(d)'
        BY <1>3, <2>1, <2>3, LooksUnchanged DEF SelectInv
    <2> QED
        BY <2>2, <2>3 DEF SelectInv
<1>4. ASSUME NEW c \in Callers, NEW label \in {"auto", "volt", "command"},
             pc[c] \in {"selected", "auto", "volt"}, pc' = [pc EXCEPT ![c] = label],
             UNCHANGED <<source, caps, query, sel>>
      PROVE  SelectInv'
    <2>1. pc'[c] = label /\ \A d \in Callers : d # c => pc'[d] = pc[d]
        BY <1>4 DEF Types
    <2>2. Looks(c)' /\ Has(c)'
        BY <1>4, <2>1 DEF Looks, SelectInv
    <2>3. ASSUME NEW d \in Callers, d # c PROVE Looks(d)' /\ Has(d)'
        BY <1>4, <2>1, <2>3, LooksUnchanged DEF SelectInv
    <2> QED
        BY <2>2, <2>3 DEF SelectInv
<1>5. ASSUME NEW c \in Callers, ReadSink(c) PROVE SelectInv'
    BY <1>3, <1>4, <1>5 DEF ReadSink, Goto
<1>6. ASSUME NEW c \in Callers, WriteAuto(c) PROVE SelectInv'
    BY <1>4, <1>6 DEF WriteAuto, WriteSink, Goto
<1>7. ASSUME NEW c \in Callers, WriteVolt(c) PROVE SelectInv'
    BY <1>4, <1>7 DEF WriteVolt, WriteSink, Goto
<1>8. ASSUME NEW c \in Callers, Negotiate(c) PROVE SelectInv'
    BY <1>3, <1>8 DEF Negotiate
<1>9. CASE UNCHANGED vars
    BY <1>9 DEF SelectInv, Looks, vars
<1> QED
    BY <1>1, <1>2, <1>5, <1>6, <1>7, <1>8, <1>9 DEF Next

\* Without lost writes and refused commands, the register and the contract are right.
LEMMA SinkStep ==
    ASSUME "write_fails" \notin Quirks, "nack" \notin Quirks
    PROVE  Types /\ SelectInv /\ SinkInv /\ [Next]_vars => SinkInv'
<1> SUFFICES ASSUME Types, SelectInv, SinkInv, [Next]_vars PROVE SinkInv'
    OBVIOUS
<1> DEFINE Writing(c) == pc[c] \in {"volt", "command"}
\* What a step that writes nothing has to keep.
<1>1. ASSUME NEW c \in Callers, pc[c] \notin {"volt", "command"},
             pc'[c] \notin {"volt", "command"},
             \A d \in Callers : d # c => pc'[d] = pc[d] /\ data'[d] = data[d],
             UNCHANGED <<source, reg37, contract>>
      PROVE  SinkInv'
    <2>1. \A d \in Callers : Writing(d)' => d # c /\ pc'[d] = pc[d] /\ data'[d] = data[d]
        BY <1>1
    <2>2. \A d \in Callers : Writing(d) => d # c /\ pc'[d] = pc[d]
        BY <1>1
    <2>3. reg37' = Factory \/ Asked(reg37') \/ \E d \in Callers : pc'[d] = "volt"
        BY <1>1, <2>2 DEF SinkInv
    <2>4. contract' = reg37' \/ \E d \in Callers : Writing(d)'
        BY <1>1, <2>2 DEF SinkInv
    <2>5. \A d \in Callers : Writing(d)' => ~data'[d].autoMax
        BY <2>1 DEF SinkInv
    <2>6. Asked(reg37)' <=> Asked(reg37')
        BY <1>1 DEF Asked
    <2> QED
        BY <2>3, <2>4, <2>5, <2>6 DEF SinkInv
<1>2. ASSUME NEW c \in Callers, ReadCaps(c) PROVE SinkInv'
    <2>1. /\ pc[c] = "idle" /\ pc'[c] = "caps" /\ UNCHANGED <<source, reg37, contract>>
          /\ \A d \in Callers : d # c => pc'[d] = pc[d] /\ data'[d] = data[d]
        BY <1>2 DEF ReadCaps, Goto, Types
    <2> QED
        BY <1>1, <2>1
<1>3. ASSUME NEW c \in Callers, Select(c) PROVE SinkInv'
    <2>1. /\ pc[c] = "caps" /\ pc'[c] \in {"idle", "selected"}
          /\ UNCHANGED <<source, reg37, contract>>
          /\ \A d \in Callers : d # c => pc'[d] = pc[d] /\ data'[d] = data[d]
        BY <1>3 DEF Select, Goto, Types
    <2> QED
        BY <1>1, <2>1
<1>4. ASSUME NEW c \in Callers, ReadSink(c) PROVE SinkInv'
    <2>1. pc[c] = "selected" /\ UNCHANGED <<source, reg37, contract>>
        BY <1>4 DEF ReadSink
    <2>2. /\ pc'[c] \in {"idle", "auto"}
          /\ \A d \in Callers : d # c => pc'[d] = pc[d] /\ data'[d] = data[d]
        <3>1. CASE Return(c)
            BY <3>1, ReturnTypes
        <3>2. CASE ~Return(c)
            BY <1>4, <3>2 DEF ReadSink, Goto, Types
        <3> QED
            BY <3>1, <3>2
    <2> QED
        BY <1>1, <2>1, <2>2
<1>5. ASSUME NEW c \in Callers, WriteAuto(c) PROVE SinkInv'
    <2> DEFINE new == Manual(data[c])
    <2>1. new \in Sinks /\ ~new.autoMax
        BY ManualType DEF Types
    <2>2. data' = [data EXCEPT ![c] = new] /\ UNCHANGED <<source, contract>>
        BY <1>5, <2>1, WriteTypes DEF WriteAuto
    <2>3. pc'[c] = "volt" /\ \A d \in Callers : d # c => pc'[d] = pc[d]
        BY <1>5 DEF WriteAuto, Goto, Types
    <2>4. \A d \in Callers : Writing(d)' => ~data'[d].autoMax
        BY <2>1, <2>2, <2>3 DEF SinkInv, Types
    <2> QED
        BY <2>3, <2>4 DEF SinkInv
<1>6. ASSUME NEW c \in Callers, WriteVolt(c) PROVE SinkInv'
    <2> DEFINE new == Asking(data[c], sel[c].voltage)
    <2>1. pc[c] = "volt"
        BY <1>6 DEF WriteVolt
    <2>2. /\ new \in Sinks /\ ~new.noMismatch /\ new.maxVolt = sel[c].voltage \div 50
          /\ ~new.autoMax
        <3>1. data[c] \in Sinks /\ sel[c].voltage \in Nat
            BY DEF Types, Selections
        <3>2. ~data[c].autoMax
            BY <2>1 DEF SinkInv
        <3> QED
            BY <3>1, <3>2, AskingType
    <2>3. /\ data' = [data EXCEPT ![c] = new] /\ reg37' = new
          /\ UNCHANGED <<source, sel, query, contract>>
        BY <1>6, <2>2, WriteTypes DEF WriteVolt
    <2>4. pc'[c] = "command" /\ \A d \in Callers : d # c => pc'[d] = pc[d]
        BY <1>6 DEF WriteVolt, Goto, Types
    <2>5. \A d \in Callers : Writing(d)' => ~data'[d].autoMax
        <3> HIDE DEF new
        <3> QED
            BY <2>2, <2>3, <2>4 DEF SinkInv, Types
    <2>6. Asked(new)
        <3>1. query[c] \in Queries /\ sel[c] = Found(source.objects, query[c])
              /\ sel[c].position # 0
            BY <2>1 DEF SelectInv, Looks
        <3> HIDE DEF new
        <3> QED
            BY <2>2, <3>1 DEF Asked
    <2>7. Asked(reg37)'
        <3> HIDE DEF new
        <3> QED
            BY <2>3, <2>6 DEF Asked
    <2> QED
        BY <2>4, <2>5, <2>7 DEF SinkInv
<1>7. ASSUME NEW c \in Callers, Negotiate(c) PROVE SinkInv'
    <2>1. contract' = reg37 /\ UNCHANGED <<source, reg37>> /\ pc[c] = "command"
        BY <1>7 DEF Negotiate, MayFail
    <2>2. /\ pc'[c] = "idle"
          /\ \A d \in Callers : d # c => pc'[d] = pc[d] /\ data'[d] = data[d]
        BY <1>7, ReturnTypes DEF Negotiate
    <2>3. \A d \in Callers : Writing(d)' => ~data'[d].autoMax
        BY <2>2 DEF SinkInv
    <2>4. (reg37 = Factory)' \/ Asked(reg37)' \/ \E d \in Callers : pc'[d] = "volt"
        <3>1. CASE \E d \in Callers : pc[d] = "volt"
            BY <2>1, <2>2, <3>1
        <3>2. CASE Asked(reg37)
            BY <2>1, <3>2 DEF Asked
        <3>3. CASE reg37 = Factory
            BY <2>1, <3>3 DEF Factory
        <3> QED
            BY <3>1, <3>2, <3>3 DEF SinkInv
    <2> QED
        BY <2>1, <2>3, <2>4 DEF SinkInv
<1>8. CASE UNCHANGED vars
    BY <1>8 DEF SinkInv, Asked, vars
<1> QED
    BY <1>2, <1>3, <1>4, <1>5, <1>6, <1>7, <1>8 DEF Next

-----------------------------------------------------------------------------

\* At all times each caller has what it was given, and its selection is the best of it:
\* read_caps() hands over the whole list, and nobody changes a selection between
\* best_power() and autoneg_set().
THEOREM Invariant == Spec => [](Types /\ SelectInv)
<1>1. Init => Types /\ SelectInv
    BY InitInv
<1>2. Types /\ SelectInv /\ [Next]_vars => (Types /\ SelectInv)'
    BY TypesStep, SelectStep
<1> QED
    BY <1>1, <1>2, PTL DEF Spec

LEMMA Selecting ==
    ASSUME Types, SelectInv, NEW c \in Callers,
           sel[c].position # 0 \/ query[c] # NoQuery
    PROVE  query[c] \in Ranges /\ sel[c] = Found(source.objects, query[c])
    BY ConstantTypes DEF Types, SelectInv, Looks

\* SelectionSound, for every list of objects that a source can offer and every range:
\* what best_power() finds is one of them, in the range and within its limits, with the
\* current that was asked for; and at_voltage() finds an object there that is no worse,
\* and no better than rounding explains.
THEOREM SelectionIsSound == Spec => []SelectionSound
<1>1. ASSUME Types, SelectInv PROVE SelectionSound
    <2> SUFFICES ASSUME NEW c \in Callers, sel[c].position # 0
                 PROVE  LET s == sel[c]  q == query[c]  p == source.objects[s.position] IN
                        /\ s.position \in DOMAIN source.objects
                        /\ s.voltage \in q.vmin .. q.vmax /\ s.current >= q.imin
                        /\ supports(p, s.voltage)
                        /\ s.current <= max_current(p) \/ max_current(p) = None
                        /\ kind(p) # "spr_avs" => power(s) <= max_power(p)
                        /\ LET there == at_voltage(source.objects, s.voltage, q.imin) IN
                              /\ there.position # 0 /\ there.current >= s.current
                              /\ (\A i \in DOMAIN source.objects :
                                     Monotonic(source.objects[i], q)) =>
                                     power(there) <= power(s) + Rounding(q.vmax)
        BY DEF SelectionSound
    <2> DEFINE s == sel[c]
               q == query[c]
               p == source.objects[s.position]
    <2>1. q \in Ranges /\ s = Found(source.objects, q)
        BY <1>1, Selecting
    <2>2. source.objects \in Seq(PDO) /\ DOMAIN source.objects = 1 .. Len(source.objects)
        BY <1>1 DEF Types
    <2>3. /\ s.position \in 1 .. Len(source.objects) /\ p \in PDO
          /\ s.voltage \in q.vmin .. q.vmax /\ s.voltage \in Nat
          /\ supports(p, s.voltage)
          /\ s.current = current_at(p, s.voltage) /\ s.current >= q.imin
          /\ power(s) = power_at(p, s.voltage)
        BY <2>1, <2>2, FoundIsOffered
    <2>4. /\ s.current <= max_current(p) \/ max_current(p) = None
          /\ kind(p) # "spr_avs" => power(s) <= max_power(p)
        BY <2>3, WithinLimits
    <2>5. LET a == at_voltage(source.objects, s.voltage, q.imin) IN
          /\ a.position # 0 /\ a.current >= s.current
          /\ (\A i \in 1 .. Len(source.objects) : Monotonic(source.objects[i], q)) =>
                power(a) <= power(s) + Rounding(q.vmax)
        BY <2>1, <2>2, FoundThere
    <2> QED
        BY <2>2, <2>3, <2>4, <2>5
<1> QED
    BY <1>1, Invariant, PTL

\* SelectionBest, for every list of objects and every range: no object of a monotonic kind
\* gives more power anywhere in the range, but for rounding.  (NothingBetter says so of all
\* voltages of the range, not only of those that the run tries.)
THEOREM SelectionIsBest == Spec => []SelectionBest
<1>1. ASSUME Types, SelectInv PROVE SelectionBest
    <2> SUFFICES ASSUME NEW c \in Callers, query[c] # NoQuery,
                        NEW i \in DOMAIN source.objects, NEW v \in Tried(query[c]),
                        Monotonic(source.objects[i], query[c]), supports(source.objects[i], v),
                        current_at(source.objects[i], v) >= query[c].imin
                 PROVE  /\ sel[c].position # 0
                        /\ power_at(source.objects[i], v)
                              <= power(sel[c]) + Rounding(query[c].vmax)
        BY DEF SelectionBest
    <2>1. query[c] \in Ranges /\ sel[c] = Found(source.objects, query[c])
        BY <1>1, Selecting
    <2>2. source.objects \in Seq(PDO) /\ i \in 1 .. Len(source.objects)
        BY <1>1 DEF Types
    <2>3. v \in query[c].vmin .. query[c].vmax
        BY DEF Tried
    <2>4. /\ Found(source.objects, query[c]).position # 0
          /\ power_at(source.objects[i], v)
                <= power(Found(source.objects, query[c])) + Rounding(query[c].vmax)
        BY <2>1, <2>2, <2>3, NothingBetter
    <2> QED
        BY <2>1, <2>4, Zenon
<1> QED
    BY <1>1, Invariant, PTL

\* SettledOnOne, for any number of callers: when nobody is inside autoneg_set(), the
\* controller has negotiated what is in its register, which is what somebody selected, when
\* no write is lost and no command refused.
THEOREM SettlesOnOne ==
    ASSUME "write_fails" \notin Quirks, "nack" \notin Quirks
    PROVE  Spec => []SettledOnOne
<1>1. Init => Types /\ SelectInv /\ SinkInv
    BY InitInv
<1>2. Types /\ SelectInv /\ SinkInv /\ [Next]_vars => (Types /\ SelectInv /\ SinkInv)'
    BY TypesStep, SelectStep, SinkStep
<1>3. Types /\ SelectInv /\ SinkInv => SettledOnOne
    <2> SUFFICES ASSUME SinkInv, \A c \in Callers : pc[c] \in {"idle", "caps", "selected"},
                        reg37 # Factory
                 PROVE  contract = reg37 /\ Asked(reg37)
        BY DEF SettledOnOne, Asked, Found
    <2>1. \A c \in Callers : pc[c] \notin {"volt", "command"}
        OBVIOUS
    <2> QED
        BY <2>1 DEF SinkInv
<1> QED
    BY <1>1, <1>2, <1>3, PTL DEF Spec
=============================================================================
