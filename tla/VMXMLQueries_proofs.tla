------------------------- MODULE VMXMLQueries_proofs -------------------------
(***************************************************************************)
(* Proof that get_disk_count counts the disks of the definition it dumps,  *)
(* for every set of names and devs and every bound, as long as libvirt     *)
(* refuses a definition with two disks on one target dev.                  *)
(***************************************************************************)
EXTENDS VMXMLQueries, FiniteSetTheorems, SequenceTheorems, TLAPS

(* libvirt holds only definitions of the query model, each with its       *)
(* targets checked.                                                        *)
DefsOK ==
    /\ dom \in [Names -> QDoc \cup {None}]
    /\ \A n \in Names : dom[n] # None => TargetsOk(dom[n])

LEMMA InitDefsOK == Init => DefsOK
  BY DEF Init, DefsOK

LEMMA NextDefsOK == DefsOK /\ [Next]_vars => DefsOK'
  <1> SUFFICES ASSUME DefsOK, [Next]_vars PROVE DefsOK'
    OBVIOUS
  <1>1. ASSUME NEW n \in Names, NEW x \in QDoc, Define(n, x) PROVE DefsOK'
    BY <1>1 DEF Define, DefsOK
  <1>2. ASSUME NEW n \in Names, Undefine(n) PROVE DefsOK'
    BY <1>2 DEF Undefine, DefsOK
  <1>3. ASSUME NEW n \in Names,
               GetDiskBlk(n) \/ GetDiskCount(n) \/ GetNumaParams(n)
        PROVE DefsOK'
    BY <1>3 DEF GetDiskBlk, GetDiskCount, GetNumaParams, DefsOK
  <1>4. CASE UNCHANGED vars
    BY <1>4 DEF vars, DefsOK
  <1>5. QED
    BY <1>1, <1>2, <1>3, <1>4 DEF Next

(* A sequence without repeated elements has as many distinct elements as  *)
(* it is long.                                                             *)
LEMMA InjectiveCount ==
  ASSUME NEW S, NEW k \in Nat, NEW s \in [1..k -> S],
         \A i, j \in 1..k : s[i] = s[j] => i = j
  PROVE  Cardinality(Range(s)) = k
  <1>1. s \in Bijection(1..k, Range(s))
    BY DEF Bijection, Injection, Surjection, IsInjective, Range
  <1>2. ExistsBijection(1..k, Range(s))
    BY <1>1 DEF ExistsBijection
  <1>3. IsFiniteSet(1..k) /\ Cardinality(1..k) = k
    BY FS_Interval
  <1>4. QED
    BY <1>2, <1>3, FS_Bijection

(* The dictionary of a definition with checked targets has one key per    *)
(* disk.                                                                   *)
LEMMA DiskAllSize ==
  ASSUME DistinctTargets, NEW x \in QDoc, TargetsOk(x)
  PROVE  Cardinality(DOMAIN DiskAll(x)) = Len(x.disks)
  <1>1. PICK k \in 0..MaxDisks : x.disks \in [1..k -> Devs]
    BY DEF QDoc
  <1>2. k \in Nat
    BY <1>1, QueryAssumption
  <1>3. \A i, j \in 1..k : x.disks[i] = x.disks[j] => i = j
    BY <1>1 DEF TargetsOk
  <1>4. Cardinality(Range(x.disks)) = k
    BY <1>1, <1>2, <1>3, InjectiveCount
  <1>5. Len(x.disks) = k
    <2>1. x.disks \in Seq(Devs)
      BY <1>1, <1>2
    <2>2. QED
      BY <1>1, <2>1, LenProperties
  <1>6. DOMAIN DiskAll(x) = Range(x.disks)
    BY DEF DiskAll
  <1>7. QED
    BY <1>4, <1>5, <1>6

(* DiskCountCountsDisks: while libvirt refuses two disks on one target,   *)
(* every get_disk_count that returns reports the number of <disk>          *)
(* elements of the definition it dumped.                                   *)
THEOREM DiskCountHolds ==
  ASSUME DistinctTargets PROVE Spec => DiskCountCountsDisks
  <1>1. DefsOK => [\A n \in Names :
                     GetDiskCount(n) /\ raised' = {} =>
                        count' = Len(dom[n].disks)]_vars
    <2> SUFFICES ASSUME DefsOK, NEW n \in Names, GetDiskCount(n), raised' = {}
                 PROVE  count' = Len(dom[n].disks)
      OBVIOUS
    <2>1. dom[n] # None /\ count' = Cardinality(DOMAIN DiskAll(dom[n]))
      BY DEF GetDiskCount, DumpFails
    <2>2. dom[n] \in QDoc /\ TargetsOk(dom[n])
      BY <2>1 DEF DefsOK
    <2>3. QED
      BY <2>1, <2>2, DiskAllSize
  <1>2. QED
    BY <1>1, InitDefsOK, NextDefsOK, PTL DEF Spec, DiskCountCountsDisks
-----------------------------------------------------------------------------
(* A sequence has at most as many distinct elements as it is long.         *)
LEMMA RangeBound ==
  ASSUME NEW S, NEW k \in Nat, NEW s \in [1..k -> S]
  PROVE  /\ IsFiniteSet(Range(s))
         /\ Cardinality(Range(s)) <= k /\ Range(s) \subseteq S
  <1>1. s \in Surjection(1..k, Range(s))
    BY DEF Surjection, Range
  <1>2. IsFiniteSet(1..k) /\ Cardinality(1..k) = k
    BY FS_Interval
  <1>3. IsFiniteSet(Range(s)) /\ Cardinality(Range(s)) <= k
    BY <1>1, <1>2, FS_Surjection
  <1>4. QED
    BY <1>3 DEF Range

(* The answers of get_disk_blk and get_disk_count on a definition.         *)
LEMMA DiskAnswers ==
  ASSUME NEW x \in QDoc
  PROVE  /\ DOMAIN DiskAll(x) \in SUBSET Devs
         /\ Cardinality(DOMAIN DiskAll(x)) \in 0..MaxDisks
  <1>1. PICK k \in 0..MaxDisks : x.disks \in [1..k -> Devs]
    BY DEF QDoc
  <1>2. k \in Nat /\ MaxDisks \in Nat
    BY <1>1, QueryAssumption
  <1>3. /\ IsFiniteSet(Range(x.disks))
        /\ Cardinality(Range(x.disks)) <= k /\ Range(x.disks) \subseteq Devs
    BY <1>1, <1>2, RangeBound
  <1>5. Cardinality(Range(x.disks)) \in Nat
    BY <1>3, FS_CardinalityType
  <1>6. DOMAIN DiskAll(x) = Range(x.disks)
    BY DEF DiskAll
  <1>7. QED
    BY <1>1, <1>2, <1>3, <1>5, <1>6

LEMMA NextTypeOK == TypeOK /\ [Next]_vars => TypeOK'
  <1> SUFFICES ASSUME TypeOK, [Next]_vars PROVE TypeOK'
    OBVIOUS
  <1>1. ASSUME NEW n \in Names, NEW x \in QDoc, Define(n, x) PROVE TypeOK'
    BY <1>1 DEF Define, TypeOK
  <1>2. ASSUME NEW n \in Names, Undefine(n) PROVE TypeOK'
    BY <1>2 DEF Undefine, TypeOK
  <1>3. ASSUME NEW n \in Names, GetDiskBlk(n) PROVE TypeOK'
    BY <1>3, DiskAnswers DEF GetDiskBlk, DumpFails, TypeOK
  <1>4. ASSUME NEW n \in Names, GetDiskCount(n) PROVE TypeOK'
    BY <1>4, DiskAnswers DEF GetDiskCount, DumpFails, TypeOK
  <1>5. ASSUME NEW n \in Names, GetNumaParams(n) PROVE TypeOK'
    BY <1>5 DEF GetNumaParams, DumpFails, NumaParams, NumaMemory, QDoc, TypeOK
  <1>6. CASE UNCHANGED vars
    BY <1>6 DEF vars, TypeOK
  <1>7. QED
    BY <1>1, <1>2, <1>3, <1>4, <1>5, <1>6 DEF Next

(* The type invariant TypeOK holds in every state, whether or not libvirt *)
(* checks targets: the query answers are sets of devs, counts within the  *)
(* bound, and numa dicts that hold both keys or none.                      *)
THEOREM TypeCorrect == Spec => []TypeOK
  <1>1. Init => TypeOK
    <2> SUFFICES ASSUME Init PROVE TypeOK
      OBVIOUS
    <2>1. dom \in [Names -> QDoc \cup {None}]
      <3>1. dom \in [Names -> {x \in QDoc : TargetsOk(x)} \cup {None}]
        BY DEF Init
      <3>2. QED
        BY <3>1, Zenon
    <2>2. QED
      BY <2>1 DEF Init, TypeOK
  <1>2. QED
    BY <1>1, NextTypeOK, PTL DEF Spec
=============================================================================
