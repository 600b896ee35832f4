-------------------------------- MODULE MCIntake --------------------------------
(* The module of the TLC run of Intake.                                    *)
EXTENDS Intake
================================================================================
