-------------------------- MODULE MCInputIsolation --------------------------
(* The instance of InputIsolation for TLC: three objects that exist or not, and *)
(* every set of valid views.                                                    *)
EXTENDS InputIsolation

AllValidities == SUBSET Views

=============================================================================
