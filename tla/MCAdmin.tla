------------------------------- MODULE MCAdmin -------------------------------
(* A small instance of AdminAPI for TLC: the texts of MCStopList, and        *)
(* headers with the token, with another one, of another scheme, and none.    *)
EXTENDS AdminAPI, MCStopList

CONSTANTS right, wrong, blank, basic

Bearers ==
  [h \in {right, wrong, basic, NoHeader} |-> IF h \in {right, wrong} THEN h ELSE NotBearer]
=============================================================================
