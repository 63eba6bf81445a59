---------------------------- MODULE MC_MacChange ----------------------------
(* A TLC instance of MacChange: three MAC addresses, the first the NIC's  *)
(* address when the test starts.                                           *)
EXTENDS MacChange

CONSTANTS m1, m2, m3, NoValue

MCMacs == {m1, m2, m3}
=============================================================================
