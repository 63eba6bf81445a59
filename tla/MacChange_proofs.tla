-------------------------- MODULE MacChange_proofs --------------------------
(***************************************************************************)
(* Proofs about the mac_change procedure: the type invariant, and that a  *)
(* test that passes leaves the NIC database agreeing with the guest, for  *)
(* every set of addresses and every choice of the fault switches.          *)
(***************************************************************************)
EXTENDS MacChange, TLAPS

(* IInv holds initially.                                                   *)
LEMMA InitIInv == Init => IInv
  BY MacAssumption DEF Init, IInv, TypeOK, OsTypes, PassLeavesConsistent

(* Every step of the procedure preserves IInv.                             *)
LEMMA NextIInv == IInv /\ [Next]_vars => IInv'
  <1> SUFFICES ASSUME IInv, [Next]_vars PROVE IInv'
    OBVIOUS
  <1> USE MacAssumption DEF IInv, TypeOK, PassLeavesConsistent, OsTypes
  <1>1. CASE Start
    BY <1>1 DEF Start, Raise, Exceptions
  <1>2. CASE Generate
    BY <1>2 DEF Generate
  <1>3. CASE Prepare
    BY <1>3 DEF Prepare, Raise, Exceptions
  <1>4. CASE TryBody
    BY <1>4 DEF TryBody, CheckOutcomes, Exceptions
  <1>5. CASE Finally
    BY <1>5 DEF Finally, Exceptions
  <1>6. CASE UNCHANGED vars
    BY <1>6 DEF vars
  <1>7. QED
    BY <1>1, <1>2, <1>3, <1>4, <1>5, <1>6 DEF Next

(* The type invariant TypeOK holds in every state of the procedure.        *)
THEOREM TypeCorrect == Spec => []TypeOK
  <1>1. IInv => TypeOK
    BY DEF IInv
  <1>2. QED
    BY <1>1, InitIInv, NextIInv, PTL DEF Spec

(* PassLeavesConsistent: a run of run_mac_change that raises nothing ends  *)
(* with vm.virtnet[0].mac equal to the guest's address, new on Linux and   *)
(* restored to old_mac by the finally clause on Windows.                   *)
THEOREM PassConsistent == Spec => []PassLeavesConsistent
  <1>1. IInv => PassLeavesConsistent
    BY DEF IInv
  <1>2. QED
    BY <1>1, InitIInv, NextIInv, PTL DEF Spec
=============================================================================
