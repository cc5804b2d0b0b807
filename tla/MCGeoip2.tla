------------------------------ MODULE MCGeoip2 ------------------------------
(* Instances of Geoip2 for TLC: the databases and the variables of the     *)
(* example in the module's README.  Addresses below 100 are in ::/96.      *)
EXTENDS Geoip2

MCOf == [v \in {"code", "name", "city"} |-> IF v = "city" THEN "City" ELSE "Country"]
MCKnown == [d \in {"Country", "City"} |-> IF d = "City" THEN {2, 101} ELSE {1, 2, 101}]
MCHas == [v \in {"code", "name", "city"} |-> IF v = "code" THEN {1, 2, 101} ELSE {2, 101}]
MCBothTrees == [d \in {"Country", "City"} |-> TRUE]
=============================================================================
