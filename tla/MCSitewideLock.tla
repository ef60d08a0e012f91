--------------------------- MODULE MCSitewideLock ---------------------------
(* Two script slots over two subdomains; PHP timeout 2, delay 1 and a row   *)
(* lifetime of 2, which is the relation of the three times in the code.     *)
EXTENDS SitewideLock
CONSTANTS s1, s2, a, b
MCScripts == {s1, s2}
MCSubdomains == {a, b}
=============================================================================
