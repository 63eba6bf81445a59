----------------------------- MODULE DomainStore -----------------------------
(***************************************************************************)
(* What the VMXML handlers do to libvirt's persistent definitions, stated  *)
(* without documents being dumped, undefined and defined again.  A step    *)
(* either leaves every definition alone, or edits one definition in place *)
(* (same name, same uuid), or loses one definition, or moves one           *)
(* definition to a name, under a uuid no other definition holds.  No step  *)
(* touches a second domain, and no two definitions ever share a uuid.      *)
(***************************************************************************)
EXTENDS TLAPS

CONSTANTS
    Names,   \* domain names
    Docs,    \* the definitions libvirt can hold: records with name and uuid
    None     \* no definition

VARIABLE defs    \* name -> definition, or None

(* The names that hold a definition.                                       *)
Held(d) == {n \in Names : d[n] # None}

(* libvirt's check on define of a definition with uuid u under name n: n  *)
(* is free or holds u already, and no other name holds u.                  *)
Accepts(d, n, u) ==
    /\ d[n] # None => d[n].uuid = u
    /\ \A m \in Names \ {n} : d[m] # None => d[m].uuid # u

Init ==
    /\ defs \in [Names -> Docs \cup {None}]
    /\ \A n \in Held(defs) : defs[n].name = n
    /\ \A m, n \in Held(defs) : m # n => defs[m].uuid # defs[n].uuid

(* The definition of n is replaced by x, with the same name and uuid.      *)
Edit(n, x) ==
    /\ defs[n] # None
    /\ x \in Docs /\ x.name = n /\ x.uuid = defs[n].uuid
    /\ defs' = [defs EXCEPT ![n] = x]

(* The definition of n is gone.                                            *)
Lose(n) ==
    /\ defs[n] # None
    /\ defs' = [defs EXCEPT ![n] = None]

(* The definition of n is removed and x is defined under the name to.     *)
Move(n, to, x) ==
    LET rest == [defs EXCEPT ![n] = None]
    IN /\ defs[n] # None
       /\ x \in Docs /\ x.name = to
       /\ Accepts(rest, to, x.uuid)
       /\ defs' = [rest EXCEPT ![to] = x]

(* The definition an edit or a move stores is the one the step leaves     *)
(* under its name, so Next names it rather than choosing it from Docs.     *)
Next ==
    \E n \in Names :
       \/ Lose(n)
       \/ Edit(n, defs'[n])
       \/ \E to \in Names : Move(n, to, defs'[to])

Spec == Init /\ [][Next]_defs

-----------------------------------------------------------------------------
(* Type invariant.                                                         *)
TypeOK ==
    /\ defs \in [Names -> Docs \cup {None}]
    /\ \A n \in Held(defs) : defs[n].name = n

(* No two domains share a uuid.                                            *)
UniqueUuids ==
    \A m, n \in Held(defs) : m # n => defs[m].uuid # defs[n].uuid

-----------------------------------------------------------------------------
(* The store's invariant is inductive: each kind of step keeps every      *)
(* definition under its own name and gives no two of them one uuid.       *)

LEMMA InitInv == Init => TypeOK /\ UniqueUuids
  BY DEF Init, TypeOK, UniqueUuids

LEMMA NextInv ==
  TypeOK /\ UniqueUuids /\ [Next]_defs => TypeOK' /\ UniqueUuids'
  <1> SUFFICES ASSUME TypeOK, UniqueUuids, [Next]_defs
               PROVE  TypeOK' /\ UniqueUuids'
    OBVIOUS
  <1>1. ASSUME NEW n \in Names, Lose(n) PROVE TypeOK' /\ UniqueUuids'
    BY <1>1 DEF Lose, TypeOK, UniqueUuids, Held
  <1>2. ASSUME NEW n \in Names, Edit(n, defs'[n]) PROVE TypeOK' /\ UniqueUuids'
    BY <1>2 DEF Edit, TypeOK, UniqueUuids, Held
  <1>3. ASSUME NEW n \in Names, NEW to \in Names, Move(n, to, defs'[to])
        PROVE  TypeOK' /\ UniqueUuids'
    <2> DEFINE rest == [defs EXCEPT ![n] = None]
               x    == defs'[to]
    <2>1. /\ x \in Docs /\ x.name = to
          /\ Accepts(rest, to, x.uuid)
          /\ defs' = [rest EXCEPT ![to] = x]
      BY <1>3 DEF Move
    <2>2. /\ rest \in [Names -> Docs \cup {None}]
          /\ \A m \in Held(rest) : rest[m].name = m
          /\ \A k, m \in Held(rest) : k # m => rest[k].uuid # rest[m].uuid
      BY DEF TypeOK, UniqueUuids, Held
    <2>3. TypeOK'
      BY <2>1, <2>2 DEF TypeOK, Held
    <2>4. UniqueUuids'
      BY <2>1, <2>2 DEF UniqueUuids, Held, Accepts
    <2>5. QED
      BY <2>3, <2>4
  <1>4. CASE UNCHANGED defs
    BY <1>4 DEF TypeOK, UniqueUuids, Held
  <1>5. QED
    BY <1>1, <1>2, <1>3, <1>4 DEF Next

(* No two domains share a uuid, in every behaviour of the store: an edit  *)
(* keeps the uuid, and a move defines only a uuid no other name holds.    *)
THEOREM UniqueUuidsHold == Spec => [](TypeOK /\ UniqueUuids)
  BY InitInv, NextInv, PTL DEF Spec

=============================================================================
