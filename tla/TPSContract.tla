----------------------------- MODULE TPSContract -----------------------------
(***************************************************************************)
(* TPS25751::read_caps() and autoneg_set(): a caller reads what the source *)
(* offers, selects a voltage, and tells the controller to negotiate it.    *)
(* autoneg_set() reads, changes and writes the autonegotiation register    *)
(* without lock_, so that callers overlap.  A selection that found nothing  *)
(* is not handed to autoneg_set(); the code does not look.                 *)
(***************************************************************************)
EXTENDS UsbPd

CONSTANTS
    Callers,     \* threads that negotiate
    Catalogue,   \* the objects that sources offer
    MaxObjects,  \* bound: how many of them one source offers
    Queries,     \* [vmin, vmax, imin]: what callers look for
    Quirks       \* what may go wrong: see below

(* "read_fails"   a register cannot be read                                  *)
(* "write_fails"  the register is not written: nobody looks                  *)
(* "nack"         the command is refused or times out: nobody looks          *)
AllQuirks == {"read_fails", "write_fails", "nack"}

ASSUME CatalogueAssumption == Catalogue \subseteq PDO
ASSUME ObjectsAssumption   == MaxObjects \in 1 .. 7
ASSUME QueriesAssumption   == Queries \subseteq [vmin : Nat, vmax : Nat, imin : Nat]
ASSUME QuirksAssumption    == Quirks \subseteq AllQuirks

VARIABLES
    source,      \* the capabilities register: its length byte and its objects
    caps,        \* the object each caller passes to read_caps()
    pc,          \* where each caller is
    query,       \* what each caller looked for last
    sel,         \* what it found
    data,        \* its copy of the autonegotiation register
    reg37,       \* the autonegotiation register; its maxVolt is in 50 mV
    contract     \* what was in it when the controller negotiated last

vars == <<source, caps, pc, query, sel, data, reg37, contract>>

Offered == UNION {[1 .. n -> Catalogue] : n \in 0 .. MaxObjects}
NoQuery == [vmin |-> 0, vmax |-> 0, imin |-> 0]
Factory == [autoMax |-> TRUE, noMismatch |-> TRUE, maxVolt |-> 0]

\* The length byte: of an empty answer, of one that is too short for the code, or of
\* the whole register.
Init ==
    /\ \E objects \in Offered : \E len \in {0, 4 * Len(objects) + 1, 53} :
           source = [len |-> len, objects |-> objects]
    /\ caps = [c \in Callers |-> <<>>]
    /\ pc = [c \in Callers |-> "idle"]
    /\ query = [c \in Callers |-> NoQuery]
    /\ sel = [c \in Callers |-> NoSelection]
    /\ data = [c \in Callers |-> Factory]
    /\ reg37 = Factory /\ contract = Factory

Goto(c, label) == pc' = [pc EXCEPT ![c] = label]

\* The caller's variables are gone.
Return(c) ==
    /\ Goto(c, "idle")
    /\ query' = [query EXCEPT ![c] = NoQuery]
    /\ sel' = [sel EXCEPT ![c] = NoSelection]
    /\ data' = [data EXCEPT ![c] = Factory]

MayFail(quirk) == IF quirk \in Quirks THEN BOOLEAN ELSE {FALSE}

-----------------------------------------------------------------------------
(* read_caps() *)

\* clear(), and add() of each object.
Filled(objects) ==
    LET filled[i \in 0 .. Len(objects)] ==
            IF i = 0 THEN <<>> ELSE add(filled[i - 1], objects[i])
    IN  filled[Len(objects)]

Complete(s) == s.len >= 2 /\ Len(s.objects) # 0 /\ 1 + 1 + 4 * Len(s.objects) <= s.len

\* It returns true; otherwise caps keeps what it had and the caller goes no further.
ReadCaps(c) ==
    /\ pc[c] = "idle" /\ Complete(source)
    /\ caps' = [caps EXCEPT ![c] = Filled(source.objects)]
    /\ Goto(c, "caps")
    /\ query' = [query EXCEPT ![c] = NoQuery]
    /\ UNCHANGED <<source, sel, data, reg37, contract>>

Select(c) ==
    /\ pc[c] = "caps"
    /\ \E q \in Queries :
          /\ query' = [query EXCEPT ![c] = q]
          /\ sel' = [sel EXCEPT ![c] = best_power(caps[c], q.vmin, q.vmax, q.imin)]
    /\ Goto(c, IF sel'[c].position = 0 THEN "idle" ELSE "selected")
    /\ UNCHANGED <<source, caps, data, reg37, contract>>

-----------------------------------------------------------------------------
(* autoneg_set() *)

ReadSink(c) ==
    /\ pc[c] = "selected"
    /\ \E fails \in MayFail("read_fails") :
          IF fails
          THEN Return(c)
          ELSE /\ Goto(c, "auto") /\ data' = [data EXCEPT ![c] = reg37]
               /\ UNCHANGED <<query, sel>>
    /\ UNCHANGED <<source, caps, reg37, contract>>

\* A write of the caller's copy.
WriteSink(c, new) ==
    /\ data' = [data EXCEPT ![c] = new]
    /\ \E fails \in MayFail("write_fails") : reg37' = IF fails THEN reg37 ELSE new
    /\ UNCHANGED <<source, caps, query, sel, contract>>

Manual(d) == [d EXCEPT !.autoMax = FALSE]

WriteAuto(c) ==
    /\ pc[c] = "auto"
    /\ WriteSink(c, Manual(data[c]))
    /\ Goto(c, "volt")

\* Mutant: the voltage is left as it was.
KeepVolt(d, v) == [d EXCEPT !.noMismatch = FALSE]
Asking(d, v) == [d EXCEPT !.maxVolt = v \div 50, !.noMismatch = FALSE]

WriteVolt(c) ==
    /\ pc[c] = "volt"
    /\ WriteSink(c, Asking(data[c], sel[c].voltage))
    /\ Goto(c, "command")

\* write_4CC("ANeg"): see TPS4CC.  autoneg_set() returns true.
Negotiate(c) ==
    /\ pc[c] = "command"
    /\ \E fails \in MayFail("nack") : contract' = IF fails THEN contract ELSE reg37
    /\ Return(c)
    /\ UNCHANGED <<source, caps, reg37>>

Next ==
    \E c \in Callers :
        \/ ReadCaps(c) \/ Select(c)
        \/ ReadSink(c) \/ WriteAuto(c) \/ WriteVolt(c) \/ Negotiate(c)

Spec == Init /\ [][Next]_vars

-----------------------------------------------------------------------------
(* Properties *)

\* The voltages at which objects begin and end to be of use, and those in between.
Tried(q) ==
    {v \in UNION {{min_voltage(p), max_voltage(p), q.vmin, q.vmax, 15000} : p \in Catalogue} :
        v \in q.vmin .. q.vmax}

\* Objects that give their power at their highest voltage in the range.  SPR AVS gives
\* less current above 15 V; and kinds that state a power give less current at a higher
\* voltage, so that they may miss the one that is asked for only there.
Monotonic(p, q) ==
    \/ kind(p) \in {"fixed", "variable", "spr_pps"}
    \/ kind(p) \in {"battery", "epr_avs"} /\ q.imin = 0

\* A current is rounded down to whole mA: the power it stands for, at voltages up to
\* this one, may miss this much.
Rounding(v) == v \div 1000 + 1

\* What best_power() finds is in the list and in the range, the object gives that
\* current at that voltage, within its limits; and at_voltage() finds an object there
\* too, of that current or more, but of no more power than rounding explains when all
\* objects are as above.
SelectionSound ==
    \A c \in Callers : sel[c].position # 0 =>
        LET s == sel[c]  q == query[c]  p == source.objects[s.position] IN
        /\ s.position \in DOMAIN source.objects
        /\ s.voltage \in q.vmin .. q.vmax /\ s.current >= q.imin
        /\ supports(p, s.voltage)
        /\ s.current <= max_current(p) \/ max_current(p) = None
        /\ kind(p) # "spr_avs" => power(s) <= max_power(p)
        /\ LET there == at_voltage(source.objects, s.voltage, q.imin) IN
              /\ there.position # 0 /\ there.current >= s.current
              /\ (\A i \in DOMAIN source.objects : Monotonic(source.objects[i], q)) =>
                     power(there) <= power(s) + Rounding(q.vmax)

\* No such object gives more power at any voltage of the range than what was found, but
\* for the rounding of its current.
SelectionBest ==
    \A c \in Callers : query[c] # NoQuery =>
        LET q == query[c] IN
        \A i \in DOMAIN source.objects : \A v \in Tried(q) :
            LET p == source.objects[i] IN
            Monotonic(p, q) /\ supports(p, v) /\ current_at(p, v) >= q.imin =>
                /\ sel[c].position # 0
                /\ power_at(p, v) <= power(sel[c]) + Rounding(q.vmax)

\* When no caller is inside autoneg_set() the controller has negotiated what is in its
\* register, and that is what somebody selected, however callers overlapped: each one's
\* command comes after all of its writes.
SettledOnOne ==
    (\A c \in Callers : pc[c] \in {"idle", "caps", "selected"}) /\ reg37 # Factory =>
        /\ contract = reg37
        /\ ~reg37.autoMax /\ ~reg37.noMismatch
        /\ \E q \in Queries :
              LET s == best_power(source.objects, q.vmin, q.vmax, q.imin) IN
              s.position # 0 /\ s.voltage \div 50 = reg37.maxVolt
=============================================================================
