--------------------------- MODULE MC_VMXMLQueries ---------------------------
(* Small instance of VMXMLQueries for TLC: two domains, two target devs,  *)
(* at most two disks, one numa mode and one nodeset.                       *)
EXTENDS VMXMLQueries, TLC

CONSTANTS a, b, vda, vdb, NoValue

MCNames == {a, b}
MCDevs == {vda, vdb}
MCNumaModes == {"strict"}
MCNodesets == {"0-1"}

Symmetry == Permutations(MCNames) \cup Permutations(MCDevs)
=============================================================================
