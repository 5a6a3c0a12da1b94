------------------------------ MODULE MCReports ------------------------------
(* The touchpad that was found and is lost again.                          *)
EXTENDS Reports

\* A point with a different digit in every nibble.
MCPoints == {<<2748, 1383>>}
=============================================================================
