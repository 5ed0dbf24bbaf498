---------------------------- MODULE MCWorkStealing ----------------------------
(* WorkStealing with model values, and one RUNNING actor.                  *)
EXTENDS WorkStealing
CONSTANTS m1, m2, m3, b1, b2
MCOneActor == <<1>>
=============================================================================
