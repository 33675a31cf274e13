------------------------------- MODULE MCNmea -------------------------------
(* The framer with an array of eight characters.  The receiver's alphabet    *)
(* has the three characters the code looks for, two digits whose checksums   *)
(* can be written with the same two digits, and a letter beyond 'F'.         *)
EXTENDS NmeaFramer

MCChars == {DOLLAR, STAR, NL, 48, 51, 97}
=============================================================================
