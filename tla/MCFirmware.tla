----------------------------- MODULE MCFirmware -----------------------------
(***************************************************************************)
(* Instances of Firmware: two coefficients instead of eleven, a ring of    *)
(* three slots that the record of three bytes fills, and a sentence of     *)
(* two characters for a buffer that holds three.                         *)
(***************************************************************************)
EXTENDS Firmware

MCBytes    == {"hash", "mark"}
MCGreeting == <<"mark">>
MCRecord   == <<"mark", "hash">>
MCSentence == <<"dollar", "newline">>
=============================================================================
