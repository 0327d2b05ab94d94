------------------------------ MODULE MCBQ25798 ------------------------------
(***************************************************************************)
(* BQ25798 for TLC: what callers ask for, and what the registers hold.     *)
(***************************************************************************)
EXTENDS BQ25798, TLC

\* The ends of the range, a value between two steps, values the range check refuses
\* and, for the setters that check nothing there, values it should.
MCAmounts ==
    [n \in QuantityNames |->
        CASE n = "MinSystemV"            -> {0, 2500, 2999, 18250, 18750}
          [] n = "ChargeLimitV"          -> {0, 4199, 20470, 20480}
          [] n = "ChargeLimitA"          -> {49, 50, 5000, 5001}
          [] n = "InputLimitV"           -> {0, 25599, 25600}
          [] n = "InputLimitA"           -> {0, 3300, 3301}
          [] n = "PrechargeLimitA"       -> {0, 2520, 2560}
          [] n = "TerminationA"          -> {0, 1240, 1280}
          [] n = "RechargeThreshOffsetV" -> {0, 50, 849, 850}
          [] n = "OTGV"                  -> {0, 2800, 22000, 22001}
          [] n = "OTGLimitA"             -> {159, 160, 3360, 3361}]

\* All bits 0, or all 1 but for the commands.
Zeros == [a \in Addresses |-> {}]
Ones  == [a \in Addresses |-> 0 .. 7 \ (CASE a = 9 -> {6} [] a = 16 -> {3} [] OTHER -> {})]
MCInitial == {Zeros, Ones}

\* The threads are alike.
MCSymmetry == Permutations(Threads)
=============================================================================
