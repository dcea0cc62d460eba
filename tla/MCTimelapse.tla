---------------------------- MODULE MCTimelapse ----------------------------
(* Small instances of Timelapse for TLC.                                   *)
EXTENDS Timelapse, TLC

P(enabled, preset, keep) == [enabled |-> enabled, preset |-> preset, keep |-> keep]

PresetPolicies == {P(TRUE, TRUE, FALSE)}
RetentionPolicies == {P(TRUE, FALSE, TRUE), P(FALSE, FALSE, TRUE)}

=============================================================================
