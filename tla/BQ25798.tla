------------------------------ MODULE BQ25798 ------------------------------
(***************************************************************************)
(* The setters of the battery charger BQ25798.  Each setting is a field of *)
(* a register; a setter reads the register over I2C, replaces the field    *)
(* and writes it back, in two transfers that no lock joins.  Some setters  *)
(* do not do what they should, and transfers go wrong: what each call may  *)
(* spoil, by its place in the code, is kept in a history.                  *)
(***************************************************************************)
EXTENDS Integers, Sequences

CONSTANTS
    Threads,     \* threads that call setters
    NoCall,      \* a thread that is in none
    MaxCalls,    \* bound: number of calls
    Amounts,     \* for each setting in mV or mA, what callers ask for
    Initial,     \* what the charger's registers may hold at first
    PowerOn      \* what they hold after a reset

ASSUME CallsAssumption == MaxCalls \in Nat \ {0}

-----------------------------------------------------------------------------
(* Where the getters look: the field from bit hi down to bit lo of the one    *)
(* or two bytes, most significant first, from address reg.                    *)

Field(name, reg, hi, lo) ==
    [name |-> name, reg |-> reg, lo |-> lo, width |-> hi - lo + 1, bytes |-> 1]
Wide(name, reg, hi) ==
    [name |-> name, reg |-> reg, lo |-> 0, width |-> hi + 1, bytes |-> 2]
Bit(name, reg, bit) == Field(name, reg, bit, bit)

LimitFields == {
    Bit("AdcState", 46, 7), Field("MinSystemV", 0, 5, 0), Wide("ChargeLimitV", 1, 10),
    Wide("ChargeLimitA", 3, 8), Field("InputLimitV", 5, 7, 0), Wide("InputLimitA", 6, 8)}

ChargeFields == {
    Field("VBatLowV", 8, 7, 6), Field("PrechargeLimitA", 8, 5, 0),
    Bit("StopOnWDT", 9, 5), Field("TerminationA", 9, 4, 0)}

RechargeFields == {
    Field("CellCount", 10, 7, 6), Field("RechargeDeglitchTime", 10, 5, 4),
    Field("RechargeThreshOffsetV", 10, 3, 0)}

OTGFields == {
    Wide("OTGV", 11, 10), Bit("PrechargeTimer", 13, 7), Field("OTGLimitA", 13, 6, 0)}

TimerFields == {
    Field("TopOffTimer", 14, 7, 6), Bit("TrickleChargeTimerEnable", 14, 5),
    Bit("PrechargeTimerEnable", 14, 4), Bit("FastChargeTimerEnable", 14, 3),
    Field("FastChargeTimer", 14, 2, 1), Bit("TimerHalfRateEnable", 14, 0)}

Control0Fields == {
    Bit("AutoOVPBattDischarge", 15, 7), Bit("ForceBattDischarge", 15, 6),
    Bit("ChargeEnable", 15, 5), Bit("ICOEnable", 15, 4), Bit("ForceICO", 15, 3),
    Bit("HIZMode", 15, 2), Bit("TerminationEnable", 15, 1), Bit("BackupModeEnable", 15, 0)}

Control1Fields == {
    Field("BackupModeThresh", 16, 7, 6), Field("VACOVP", 16, 5, 4), Field("WDT", 16, 2, 0)}

Control2Fields == {
    Bit("ForceDPinsDetection", 17, 7), Bit("AutoDPinsDetection", 17, 6),
    Bit("HVDCP12VEnable", 17, 5), Bit("HVDCP9VEnable", 17, 4), Bit("HVDCPEnable", 17, 3),
    Field("ShipFETmode", 17, 2, 1), Bit("ShipFET10sDelay", 17, 0)}

Control3Fields == {
    Bit("ACenable", 18, 7), Bit("OTGenable", 18, 6), Bit("OTGPFM", 18, 5),
    Bit("ForwardPFM", 18, 4), Bit("ShipWakeupDelay", 18, 3),
    Bit("BATFETLDOprecharge", 18, 2), Bit("OTGOOA", 18, 1), Bit("ForwardOOA", 18, 0)}

Control4Fields == {
    Bit("ACDRV2enable", 19, 7), Bit("ACDRV1enable", 19, 6), Bit("PWMFrequency", 19, 5),
    Bit("StatPinEnable", 19, 4), Bit("VSYSshortProtect", 19, 3),
    Bit("VOTG_UVPProtect", 19, 2), Bit("IBUS_OCPenable", 19, 1), Bit("VINDPMdetection", 19, 0)}

Control5Fields == {
    Bit("ShipFETpresent", 20, 7), Bit("BatDischargeSenseEnable", 20, 6),
    Field("BatDischargeA", 20, 4, 3), Bit("IINDPMenable", 20, 2), Bit("ExtILIMpin", 20, 1),
    Bit("BatDischargeOCPenable", 20, 0)}

MPPTFields == {
    Field("VINDPM_VOCpercent", 21, 7, 5), Field("VOCdelay", 21, 4, 3),
    Field("VOCrate", 21, 2, 1), Bit("MPPTenable", 21, 0)}

TemperatureFields == {
    Field("ThermRegulationThresh", 22, 7, 6), Field("ThermShutdownThresh", 22, 5, 4),
    Bit("VBUSpulldown", 22, 3), Bit("VAC1pulldown", 22, 2), Bit("VAC2pulldown", 22, 1),
    Bit("BackupACFET1on", 22, 0)}

Fields ==
    LimitFields \cup ChargeFields \cup RechargeFields \cup OTGFields \cup TimerFields
    \cup Control0Fields \cup Control1Fields \cup Control2Fields \cup Control3Fields
    \cup Control4Fields \cup Control5Fields \cup MPPTFields \cup TemperatureFields

\* Bits that are commands: they have no getter and clear themselves.
ResetBit    == Bit("reset", 9, 6)
ResetWDTBit == Bit("resetWDT", 16, 3)
Commands == {ResetBit, ResetWDTBit}

Addresses == 0 .. 22 \cup {46}

\* A byte is the set of its bits that are 1.  The command bits read 0.
Byte == SUBSET (0 .. 7)
Contents == {r \in [Addresses -> Byte] : 6 \notin r[9] /\ 3 \notin r[16]}

ASSUME RegistersAssumption == Initial \subseteq Contents /\ PowerOn \in Contents

VARIABLES
    regs,     \* the charger's registers, a byte per address
    todo,     \* the write each thread has yet to do, with the byte it read
    calls,    \* calls begun
    want,     \* history: what each setting was last set to
    off       \* history: the settings spoiled since they were last set

chargerVars == <<regs, todo, calls, want, off>>

-----------------------------------------------------------------------------
\* 1 << n
TwoTo(n) == 2^n

(* Quantities: a setting in mV or mA is base + step * the field.              *)

QuantityNames ==
    {"MinSystemV", "ChargeLimitV", "ChargeLimitA", "InputLimitV", "InputLimitA",
     "PrechargeLimitA", "TerminationA", "RechargeThreshOffsetV", "OTGV", "OTGLimitA"}

ASSUME AmountsAssumption == Amounts \in [QuantityNames -> SUBSET Nat]

Quantities ==
    [n \in QuantityNames |->
        CASE n = "MinSystemV"            -> [base |-> 2500, step |-> 250]
          [] n = "InputLimitV"           -> [base |-> 0, step |-> 100]
          [] n = "RechargeThreshOffsetV" -> [base |-> 50, step |-> 50]
          [] n = "OTGV"                  -> [base |-> 2800, step |-> 10]
          [] n \in {"PrechargeLimitA", "TerminationA", "OTGLimitA"} -> [base |-> 0, step |-> 40]
          [] OTHER                       -> [base |-> 0, step |-> 10]]

Unit(n) == IF n \in QuantityNames THEN Quantities[n] ELSE [base |-> 0, step |-> 1]

\* (v - base) / step of 32 bit unsigned integers: below base, v - base wraps.
\* 2^32 is 2 * Max31 + 2, and is not written out as TLC's integers are shorter.
Max31 == 2147483647
Quotient(v, base, step) ==
    IF v >= base
    THEN (v - base) \div step
    ELSE LET rest == 2 * (Max31 % step) + 2
         IN  2 * (Max31 \div step) + (rest - (base - v)) \div step

RawOf(n, v) == Quotient(v, Unit(n).base, Unit(n).step)

\* The range checks that make a setter return false at once.
Refuses(n, v) ==
    \/ n = "MinSystemV" /\ RawOf(n, v) > 63
    \/ n = "ChargeLimitV" /\ RawOf(n, v) > 2047
    \/ n = "ChargeLimitA" /\ v \notin 50 .. 5000
    \/ n = "InputLimitV" /\ RawOf(n, v) > 255
    \/ n = "InputLimitA" /\ v > 3300
    \/ n = "TerminationA" /\ RawOf(n, v) > 31
    \/ n = "OTGV" /\ v > 22000
    \/ n = "OTGLimitA" /\ v \notin 160 .. 3360

\* The field holds the value.  Some setters let others through.
Fits(f, v) == RawOf(f.name, v) \in 0 .. TwoTo(f.width) - 1

Inputs(f) ==
    CASE f \in Commands -> {1}
      [] f.name \in QuantityNames -> Amounts[f.name]
      [] OTHER -> 0 .. TwoTo(f.width) - 1

\* Numbers of up to 16 bits as the set of their bits that are 1, and back.
OnesOf(n) == {i \in 0 .. 15 : (n \div TwoTo(i)) % 2 = 1}

Weight(i, S) == IF i \in S THEN TwoTo(i) ELSE 0
Number(S) ==
    Weight(0, S) + Weight(1, S) + Weight(2, S) + Weight(3, S) + Weight(4, S) + Weight(5, S)
    + Weight(6, S) + Weight(7, S) + Weight(8, S) + Weight(9, S) + Weight(10, S)

Shifted(S, k) == {i + k : i \in S}

\* What a getter returns.
Word(r, f) == IF f.bytes = 2 THEN Shifted(r[f.reg], 8) \cup r[f.reg + 1] ELSE r[f.reg]
FieldBits(r, f) == {i \in 0 .. f.width - 1 : i + f.lo \in Word(r, f)}
Get(r, f) == Unit(f.name).base + Unit(f.name).step * Number(FieldBits(r, f))

\* What it should return after a value is set: the value, down to a step.
Stored(n, v) == v - ((v - Unit(n).base) % Unit(n).step)

-----------------------------------------------------------------------------
(* Setters *)

\* Where a setter writes.
Target(f) ==
    CASE f.name = "AutoOVPBattDischarge" -> Bit(f.name, 14, 7)
      [] f.name = "ForceBattDischarge"   -> Bit(f.name, 14, 6)
      [] f.name = "ShipFET10sDelay"      -> Bit(f.name, 17, 7)
      [] f.name = "VINDPM_VOCpercent"    -> Field(f.name, 20, 7, 5)
      [] OTHER -> f
Misdirected(f) == Target(f) # f

\* These call getBit() on their argument.
Silent == {"OTGPFM", "ForwardOOA", "BatDischargeOCPenable"}

\* These write the whole register without reading it.
Blind == {"AdcState", "MinSystemV", "ChargeLimitV", "ChargeLimitA", "InputLimitV",
          "InputLimitA", "OTGV"}

\* The byte that goes back: the field in place of its old bits.  Mutant: the old
\* bits are not cleared.
Mask(f) == f.lo .. f.lo + f.width - 1
Clobbered(byte, raw) == ((OnesOf(raw) \cap 0 .. 5) \cup Shifted(byte, 6)) \cap 0 .. 7
NotCleared(f, byte, raw) == (byte \cup Shifted(OnesOf(raw), f.lo)) \cap 0 .. 7
Inserted(f, byte, raw) ==
    IF f.name = "PrechargeLimitA"
    THEN Clobbered(byte, raw)
    ELSE ((byte \ Mask(f)) \cup Shifted(OnesOf(raw), f.lo)) \cap 0 .. 7

NewBytes(f, byte, v) ==
    LET ones == OnesOf(RawOf(f.name, v))
    IN  CASE f.name = "AdcState" -> <<IF v = 1 THEN {7, 3} ELSE {}>>
          [] f.bytes = 2 -> <<{i \in 0 .. 7 : i + 8 \in ones}, ones \cap 0 .. 7>>
          [] f.bytes = 1 /\ f.name \in Blind \ {"AdcState"} -> <<ones \cap 0 .. 7>>
          [] OTHER -> <<Inserted(f, byte, RawOf(f.name, v))>>

NoWrite == [setting |-> NoCall, value |-> 0, read |-> {}]
Busy(t) == todo[t] # NoWrite
Wants(r) == [f \in Fields |-> Get(r, f)]

ChargerInit ==
    /\ regs \in Initial
    /\ todo = [t \in Threads |-> NoWrite]
    /\ calls = 0
    /\ want = Wants(regs) /\ off = {}

\* What is wanted once f is set to v, or the charger reset.
Wanted(f, v) ==
    CASE f = ResetBit -> Wants(PowerOn)
      [] f = ResetWDTBit -> want
      [] OTHER -> [want EXCEPT ![f] = Stored(f.name, v)]

\* The first half of a setter: its checks, and its read of the register.  A read that
\* returns 0 without an answer has zeros.  A silent setter is done, and returns true.
Set(t) ==
    /\ ~Busy(t) /\ calls < MaxCalls
    /\ calls' = calls + 1
    /\ \E f \in Fields \cup Commands :
       \E v \in Inputs(f), byte \in {regs[Target(f).reg], {}} :
          /\ todo' = [todo EXCEPT ![t] =
                IF Refuses(f.name, v) \/ f.name \in Silent THEN NoWrite
                ELSE [setting |-> f, value |-> v, read |-> byte]]
          /\ IF f.name \in Silent THEN off' = off \cup {f} /\ want' = Wanted(f, v)
                                 ELSE UNCHANGED <<off, want>>
    /\ UNCHANGED regs

\* What a call spoils in the register that it writes: its own setting when it writes
\* elsewhere or lets a value through that does not fit; others that were set after it
\* read the register, or that it did not read; those whose bits it takes for its own;
\* and in two setters all others, by a wrong shift or by a value that does not fit.
Spoils(f, v, byte) ==
    {g \in Fields :
        IF g = f THEN Misdirected(f) \/ ~Fits(f, v)
        ELSE /\ g.reg = Target(f).reg
             /\ \/ byte \cap Mask(g) # regs[g.reg] \cap Mask(g)
                \/ Mask(Target(f)) \cap Mask(g) # {}
                \/ f.name = "PrechargeLimitA"
                \/ ~Fits(f, v)}

\* The register bytes from address at on replaced.
Replaced(at, bytes) ==
    [a \in Addresses |-> IF a \in at .. at + Len(bytes) - 1 THEN bytes[a - at + 1] ELSE regs[a]]

Written(f, v, byte) == Replaced(Target(f).reg, NewBytes(Target(f), byte, v))

\* The second half: the write takes effect, and the setter returns true, or false when
\* the transfer was reported failed all the same.  On a reset the charger puts its
\* registers back to their values at power on; the other command bit clears itself.
Write(t) ==
    /\ Busy(t)
    /\ LET f == todo[t].setting
           v == todo[t].value
           written == Written(f, v, todo[t].read)
       IN  /\ want' = Wanted(f, v)
           /\ \/ /\ f = ResetBit
                 /\ regs' = PowerOn /\ off' = {}
              \/ /\ f = ResetWDTBit
                 /\ regs' = [written EXCEPT ![f.reg] = @ \ Mask(f)]
                 /\ off' = off \cup Spoils(f, v, todo[t].read)
              \/ /\ f \in Fields
                 /\ regs' = written
                 /\ off' = (off \ {f}) \cup Spoils(f, v, todo[t].read)
    /\ todo' = [todo EXCEPT ![t] = NoWrite]
    /\ UNCHANGED calls

\* A transfer fails without effect and the setter returns false; of two bytes the
\* first may have been written.
Fail(t) ==
    /\ Busy(t)
    /\ todo' = [todo EXCEPT ![t] = NoWrite]
    /\ \/ UNCHANGED <<regs, off>>
       \/ LET f == todo[t].setting IN
          /\ f.bytes = 2
          /\ regs' = Replaced(f.reg, <<NewBytes(f, {}, todo[t].value)[1]>>)
          /\ off' = off \cup {f}
    /\ UNCHANGED <<want, calls>>

\* The write has no effect, but its answer was not read, which counts as success: the
\* setter returns true, and so does reset().
Unheard(t) ==
    /\ Busy(t)
    /\ todo' = [todo EXCEPT ![t] = NoWrite]
    /\ want' = Wanted(todo[t].setting, todo[t].value)
    /\ off' = IF todo[t].setting = ResetBit THEN Fields ELSE off \cup {todo[t].setting}
    /\ UNCHANGED <<regs, calls>>

ChargerNext == \E t \in Threads : Set(t) \/ Write(t) \/ Fail(t) \/ Unheard(t)

ChargerSpec == ChargerInit /\ [][ChargerNext]_chargerVars

-----------------------------------------------------------------------------
(* Properties *)

\* Whatever was set since, by whichever thread, with whichever value, and whatever
\* transfers failed, each setting reads as it was last set, down to a step, unless a
\* call spoiled it: no call changes a setting that Spoils does not name for it, in
\* its register or in another.  No register gets more than its byte.
SettingsStick ==
    /\ \A f \in Fields \ off : Get(regs, f) = want[f]
    /\ regs \in [Addresses -> Byte]
=============================================================================
