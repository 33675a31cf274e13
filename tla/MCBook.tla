------------------------------- MODULE MCBook -------------------------------
(* Address books of up to two entries: one that can be dialled, one with a  *)
(* comma in its name and a port out of range, and one whose port is no      *)
(* number.  A file that was cut adds a fourth, which has the name of the    *)
(* first and another port.                                                  *)
EXTENDS AddressBook

Entry(n, i, p) == [name |-> n, ip |-> i, port |-> <<p>>]

MCPieces == {"a", "b", "h1", "80", "8", "99999", "http"}

(* A port that has lost its last digit is still a number. *)
MCCut == [p \in MCPieces |-> IF p = "80" THEN {"8"} ELSE {}]

MCEntries == {
  Entry(<<"a">>, <<"h1">>, "80"),
  Entry(<<"a", "b">>, <<"h1">>, "99999"),
  Entry(<<"b">>, <<"h1">>, "http") }
=============================================================================
