----------------------------- MODULE MCSessions -----------------------------
(* Two script slots over two ids, PHP timeout 2, delay 1, reap time 3 (the  *)
(* tightest the assumption allows): ids are used again and again.           *)
EXTENDS Sessions
CONSTANTS s1, s2, i1, i2
MCScripts == {s1, s2}
MCIds == {i1, i2}
=============================================================================
