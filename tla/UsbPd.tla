-------------------------------- MODULE UsbPd --------------------------------
(***************************************************************************)
(* usb_pd.hpp: what a Power Data Object offers, and which object of a list  *)
(* of source capabilities is the best for a range of voltages.  Voltages,   *)
(* currents and powers are in mV, mA and mW.  An object is the record of    *)
(* its bit fields:                                                          *)
(*   type   31..30                                                          *)
(*   sub    29..28 of an APDO, and 0 of the others                          *)
(*   high   29..20 (battery, variable), 24..17 (PPS) or 25..17 (EPR AVS)    *)
(*   mid    19..10, or 15..8 (PPS, EPR AVS)                                 *)
(*   low    9..0, or 6..0 (PPS)                                             *)
(* Products fit into 32 bits for all values of the fields (the code uses    *)
(* 64).                                                                     *)
(***************************************************************************)
EXTENDS Integers, Sequences

PDO == [type : 0 .. 3, sub : 0 .. 3, high : 0 .. 1023, mid : 0 .. 1023, low : 0 .. 1023]

None == -1      \* std::nullopt

Smaller(a, b) == IF a < b THEN a ELSE b
Greater(a, b) == IF a < b THEN b ELSE a

kind(p) ==
    CASE p.type = 0 -> "fixed"
      [] p.type = 1 -> "battery"
      [] p.type = 2 -> "variable"
      [] p.type = 3 /\ p.sub = 0 -> "spr_pps"
      [] p.type = 3 /\ p.sub = 1 -> "epr_avs"
      [] p.type = 3 /\ p.sub = 2 -> "spr_avs"
      [] OTHER -> "unknown"

Zero == [type |-> 0, sub |-> 0, high |-> 0, mid |-> 0, low |-> 0]
valid(p) == p # Zero /\ kind(p) # "unknown"

max_voltage(p) ==
    CASE kind(p) = "fixed" -> p.mid * 50
      [] kind(p) \in {"battery", "variable"} -> p.high * 50
      [] kind(p) \in {"spr_pps", "epr_avs"} -> p.high * 100
      [] kind(p) = "spr_avs" -> 20000
      [] OTHER -> 0

min_voltage(p) ==
    CASE kind(p) = "fixed" -> max_voltage(p)
      [] kind(p) \in {"battery", "variable"} -> p.mid * 50
      [] kind(p) \in {"spr_pps", "epr_avs"} -> p.mid * 100
      [] kind(p) = "spr_avs" -> 9000
      [] OTHER -> 0

supports(p, v) ==
    /\ valid(p)
    /\ IF kind(p) = "fixed" THEN v = max_voltage(p)
                            ELSE v >= min_voltage(p) /\ v <= max_voltage(p)

current_from(power, v) == IF v = 0 THEN 0 ELSE (power * 1000) \div v

\* max_power() of the two kinds that state their power.
StatedPower(p) == IF kind(p) = "battery" THEN p.low * 250 ELSE p.low * 1000

current_at(p, v) ==
    IF ~supports(p, v) THEN 0
    ELSE CASE kind(p) \in {"fixed", "variable"} -> p.low * 10
           [] kind(p) = "spr_pps" -> p.low * 50
           [] kind(p) = "battery" -> current_from(StatedPower(p), v)
           [] kind(p) = "epr_avs" -> Smaller(current_from(StatedPower(p), v), 5000)
           [] kind(p) = "spr_avs" -> (IF v <= 15000 THEN p.low ELSE p.mid) * 10

\* operator*(millivolts, milliamps)
Power(v, a) == (v * a) \div 1000

power_at(p, v) == Power(v, current_at(p, v))

max_power(p) ==
    IF kind(p) \in {"battery", "epr_avs"} THEN StatedPower(p)
    ELSE power_at(p, max_voltage(p))

max_current(p) ==
    CASE kind(p) \in {"fixed", "variable"} -> p.low * 10
      [] kind(p) = "spr_pps" -> p.low * 50
      [] kind(p) = "spr_avs" -> Greater(p.low * 10, p.mid * 10)
      [] OTHER -> None

\* Mutant: the lower end of the object's range is not looked at.
HighestBelow(p, lo, hi) ==
    LET v == Smaller(max_voltage(p), hi) IN IF valid(p) /\ v >= lo THEN v ELSE None
best_voltage_in(p, lo, hi) ==
    LET v == IF kind(p) = "fixed" THEN max_voltage(p) ELSE Smaller(max_voltage(p), hi)
    IN  IF valid(p) /\ v >= lo /\ v <= hi /\ v >= min_voltage(p) THEN v ELSE None

-----------------------------------------------------------------------------
(* source_capabilities; a list of it is a sequence of at most capacity objects *)

capacity == 11

\* add() of one object, which is refused when the list is full.
add(caps, p) == IF Len(caps) >= capacity THEN caps ELSE Append(caps, p)

NoSelection == [position |-> 0, voltage |-> 0, current |-> 0]

Offers(caps, i, v) == [position |-> i, voltage |-> v, current |-> current_at(caps[i], v)]

power(s) == Power(s.voltage, s.current)

\* Mutant: the current decides.
MoreCurrent(s, best) == best.position = 0 \/ s.current > best.current
MorePower(s, best) == best.position = 0 \/ power(s) > power(best)

\* One turn of the loop of best_power().
PowerTurn(caps, vmin, vmax, imin, i, best) ==
    LET v == best_voltage_in(caps[i], vmin, vmax)
        candidate == Offers(caps, i, v)
    IN  IF v # None /\ candidate.current >= imin /\ MorePower(candidate, best)
        THEN candidate ELSE best

best_power(caps, vmin, vmax, imin) ==
    LET best[i \in 0 .. Len(caps)] ==
            IF i = 0 THEN NoSelection ELSE PowerTurn(caps, vmin, vmax, imin, i, best[i - 1])
    IN  best[Len(caps)]

\* One turn of the loop of at_voltage().
CurrentTurn(caps, v, imin, i, best) ==
    LET candidate == Offers(caps, i, v)
    IN  IF /\ supports(caps[i], v) /\ candidate.current >= imin
           /\ best.position = 0 \/ candidate.current > best.current
        THEN candidate ELSE best

at_voltage(caps, v, imin) ==
    LET best[i \in 0 .. Len(caps)] ==
            IF i = 0 THEN NoSelection ELSE CurrentTurn(caps, v, imin, i, best[i - 1])
    IN  best[Len(caps)]
=============================================================================
