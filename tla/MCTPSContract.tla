---------------------------- MODULE MCTPSContract ----------------------------
(* An instance of TPSContract for TLC. *)
EXTENDS TPSContract

Object(type, sub, high, mid, low) ==
    [type |-> type, sub |-> sub, high |-> high, mid |-> mid, low |-> low]

\* One of each kind, two that are fixed, and one that is no object.
MCCatalogue == {
    Object(0, 0,   0, 100, 300),     \* fixed     5 V, 3 A
    Object(0, 0,   0, 240, 300),     \* fixed    12 V, 3 A
    Object(1, 0, 240,  95, 120),     \* battery  4.75 .. 12 V, 30 W
    Object(2, 0, 400, 180, 225),     \* variable 9 .. 20 V, 2.25 A
    Object(3, 0, 110,  33,  60),     \* PPS      3.3 .. 11 V, 3 A
    Object(3, 1, 280, 150, 140),     \* EPR AVS  15 .. 28 V, 140 W
    Object(3, 2,   0, 225, 300),     \* SPR AVS  9 .. 20 V, 3 A, above 15 V 2.25 A
    Object(3, 3,   0,   0,   1) }

MCQueries ==
    {[vmin |-> r[1], vmax |-> r[2], imin |-> i] :
        r \in {<<4000, 12000>>, <<9000, 20000>>, <<5000, 48000>>},
        i \in {0, 2500}}
=============================================================================
