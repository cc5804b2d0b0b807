--------------------------- MODULE MCSubrequests ---------------------------
(* An instance of Subrequests for TLC: a page with two included fragments,  *)
(* one of which includes others, and a request in the background.           *)
EXTENDS Subrequests

MCScript == [r \in {"m", "a", "b", "c", "d", "g"} |->
    CASE r = "m" -> <<"m1", "a", "m2", "b", "g", "m3">>
      [] r = "a" -> <<"a1", "c", "a2">>
      [] r = "b" -> <<"b1">>
      [] r = "c" -> <<"c1", "d">>
      [] r = "d" -> <<"d1">>
      [] r = "g" -> <<>>]
=============================================================================
