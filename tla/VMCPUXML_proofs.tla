-------------------------- MODULE VMCPUXML_proofs --------------------------
(***************************************************************************)
(* Proofs about the VMCPUXML feature list: the type invariant, and        *)
(* property 4 of the specification (num >= count is refused without      *)
(* changing the list), for every set of names and every bound.             *)
(***************************************************************************)
EXTENDS VMCPUXML, SequenceTheorems, TLAPS

(* A bounded sequence is a sequence no longer than the bound.              *)
LEMMA SeqOfIff ==
  ASSUME NEW S, NEW n \in Nat, NEW s
  PROVE  s \in SeqOf(S, n) <=> s \in Seq(S) /\ Len(s) <= n
  <1>1. ASSUME s \in SeqOf(S, n) PROVE s \in Seq(S) /\ Len(s) <= n
    <2>1. PICK m \in 0..n : s \in [1..m -> S]
      BY <1>1 DEF SeqOf
    <2>2. s \in Seq(S)
      BY <2>1
    <2>3. Len(s) = m
      BY <2>1, <2>2, LenProperties
    <2>4. QED
      BY <2>2, <2>3
  <1>2. ASSUME s \in Seq(S), Len(s) <= n PROVE s \in SeqOf(S, n)
    <2>1. s \in [1..Len(s) -> S] /\ Len(s) \in 0..n
      BY <1>2, LenProperties
    <2>2. \E m \in 0..n : s \in [1..m -> S]
      BY <2>1
    <2>3. QED
      BY <2>2 DEF SeqOf
  <1>3. QED
    BY <1>1, <1>2

(* The lengths of the parts of s before and after position i add up to   *)
(* one less than the length of s.                                          *)
LEMMA LenSum ==
  ASSUME NEW S, NEW s \in Seq(S), NEW i \in 1..Len(s), NEW x, NEW y,
         Len(x) = i - 1, Len(y) = Len(s) - i
  PROVE  Len(x) + Len(y) = Len(s) - 1
  OBVIOUS

(* A sequence one shorter than s is within any bound s is within.        *)
LEMMA LenPred ==
  ASSUME NEW S, NEW s \in Seq(S), NEW x, NEW m \in Nat,
         Len(x) = Len(s) - 1, Len(s) <= m
  PROVE  Len(x) <= m
  OBVIOUS

(* RemoveAt(s, i) is a sequence one shorter than s.                        *)
LEMMA RemoveAtType ==
  ASSUME NEW S, NEW s \in Seq(S), NEW i \in 1..Len(s)
  PROVE  RemoveAt(s, i) \in Seq(S) /\ Len(RemoveAt(s, i)) = Len(s) - 1
  <1>1. Len(s) \in Nat /\ \A k \in 1..Len(s) : s[k] \in S
    BY LenProperties, ElementOfSeq
  <1> DEFINE a == SubSeq(s, 1, i - 1)
             b == SubSeq(s, i + 1, Len(s))
  <1>2. a \in Seq(S) /\ Len(a) = i - 1
    BY <1>1, SubSeqProperties DEF a
  <1>3. b \in Seq(S) /\ Len(b) = Len(s) - i
    BY <1>1, SubSeqProperties DEF b
  <1>4. a \o b \in Seq(S) /\ Len(a \o b) = Len(a) + Len(b)
    BY <1>2, <1>3, ConcatProperties
  <1>5. RemoveAt(s, i) = a \o b
    BY DEF RemoveAt
  <1>6. Len(a) + Len(b) = Len(s) - 1
    BY <1>2, <1>3, LenSum, Zenon
  <1>7. QED
    BY <1>4, <1>5, <1>6

(* Under IndexOk, Pos(num) is a position of the feature list.              *)
LEMMA PosInRange ==
  ASSUME NEW num \in Int, Len(features) \in Nat,
         -Len(features) <= num, num < Len(features)
  PROVE  Pos(num) \in 1..Len(features)
  BY DEF Pos

LEMMA InitTypeOK == Init => TypeOK
  BY DEF Init, TypeOK

LEMMA NextTypeOK == TypeOK /\ [Next]_vars => TypeOK'
  <1> SUFFICES ASSUME TypeOK, [Next]_vars PROVE TypeOK'
    OBVIOUS
  <1>0. /\ features \in Seq(FeatureNames) /\ Len(features) <= MaxFeatures
        /\ Len(features) \in Nat
    BY ConstAssumption, SeqOfIff, LenProperties DEF TypeOK
  <1>1. ASSUME NEW num \in Indices, GetFeatureName(num) PROVE TypeOK'
    <2>1. CASE IndexOk(num) /\ result' = features[Pos(num)]
      <3>1. Pos(num) \in 1..Len(features)
        BY <2>1, <1>0, PosInRange, ConstAssumption DEF IndexOk
      <3>2. result' \in FeatureNames
        BY <2>1, <3>1, <1>0, ElementOfSeq
      <3>3. QED
        BY <1>1, <2>1, <3>2 DEF GetFeatureName, IndexOk, TypeOK, Errors
    <2>2. CASE IndexCheck(num) /\ result' = None
      BY <1>1, <2>2 DEF GetFeatureName, IndexCheck, TypeOK, Errors
    <2>3. QED
      BY <1>1, <2>1, <2>2 DEF GetFeatureName
  <1>2. ASSUME NEW num \in Indices, RemoveFeature(num) PROVE TypeOK'
    <2>1. CASE IndexOk(num) /\ features' = RemoveAt(features, Pos(num))
      <3>1. Pos(num) \in 1..Len(features)
        BY <2>1, <1>0, PosInRange, ConstAssumption DEF IndexOk
      <3>2. features' \in Seq(FeatureNames) /\ Len(features') <= MaxFeatures
        <4> DEFINE r == RemoveAt(features, Pos(num))
        <4>1. r \in Seq(FeatureNames) /\ Len(r) = Len(features) - 1
          BY <3>1, <1>0, RemoveAtType DEF r
        <4>2. features' = r
          BY <2>1 DEF r
        <4>3. features' \in Seq(FeatureNames)
          BY <4>1, <4>2, Zenon
        <4>4. Len(r) <= MaxFeatures
          BY <4>1, <1>0, LenPred, ConstAssumption, Zenon
        <4>5. Len(features') <= MaxFeatures
          BY <4>2, <4>4, Zenon
        <4>6. QED
          BY <4>3, <4>5
      <3>3. features' \in SeqOf(FeatureNames, MaxFeatures)
        BY <3>2, SeqOfIff, ConstAssumption
      <3>4. QED
        BY <1>2, <2>1, <3>3 DEF RemoveFeature, IndexOk, TypeOK, Errors
    <2>2. CASE IndexCheck(num) /\ UNCHANGED features
      BY <1>2, <2>2 DEF RemoveFeature, IndexCheck, TypeOK, Errors
    <2>3. QED
      BY <1>2, <2>1, <2>2 DEF RemoveFeature
  <1>3. ASSUME NEW num \in Indices, NEW v \in FeatureNames, SetFeature(num, v)
        PROVE TypeOK'
    <2>1. CASE IndexOk(num) /\ features' = [features EXCEPT ![Pos(num)] = v]
      <3>1. Pos(num) \in 1..Len(features)
        BY <2>1, <1>0, PosInRange, ConstAssumption DEF IndexOk
      <3>2. features' \in Seq(FeatureNames) /\ Len(features') <= MaxFeatures
        BY <2>1, <3>1, <1>0, ExceptSeq
      <3>3. features' \in SeqOf(FeatureNames, MaxFeatures)
        BY <3>2, SeqOfIff, ConstAssumption
      <3>4. QED
        BY <1>3, <2>1, <3>3 DEF SetFeature, IndexOk, TypeOK, Errors
    <2>2. CASE IndexCheck(num) /\ UNCHANGED features
      BY <1>3, <2>2 DEF SetFeature, IndexCheck, TypeOK, Errors
    <2>3. QED
      BY <1>3, <2>1, <2>2 DEF SetFeature
  <1>4. ASSUME NEW v \in FeatureNames, AddFeature(v) PROVE TypeOK'
    <2>0. features' = Append(features, v) /\ Len(features) < MaxFeatures
      BY <1>4 DEF AddFeature
    <2>1. features' \in Seq(FeatureNames) /\ Len(features') <= MaxFeatures
      BY <2>0, <1>0, AppendProperties, ConstAssumption
    <2>2. features' \in SeqOf(FeatureNames, MaxFeatures)
      BY <2>1, SeqOfIff, ConstAssumption
    <2>3. QED
      BY <1>4, <2>2 DEF AddFeature, TypeOK, Errors
  <1>5. ASSUME NEW v \in FeatureNames, CheckFeatureName(v) PROVE TypeOK'
    BY <1>5 DEF CheckFeatureName, CheckFeatureNameResult, TypeOK
  <1>6. CASE UNCHANGED vars
    BY <1>6 DEF vars, TypeOK
  <1>7. QED
    BY <1>1, <1>2, <1>3, <1>4, <1>5, <1>6 DEF Next

(* The type invariant TypeOK holds in every state.                         *)
THEOREM TypeCorrect == Spec => []TypeOK
  BY InitTypeOK, NextTypeOK, PTL DEF Spec

-----------------------------------------------------------------------------
(* The refinement: the initial states and every step of the feature-list  *)
(* methods map to the abstract feature list.                               *)
LEMMA InitRefines == Init => Abs!Init
  BY DEF Init, Abs!Init, SeqOf, Abs!SeqOf

(* A call that raises maps to an abstract rejection.                       *)
LEMMA RejectStep ==
  ASSUME NEW num, IndexCheck(num), UNCHANGED features
  PROVE  Abs!Reject
  BY DEF IndexCheck, Abs!Reject

LEMMA NextRefines == TypeOK /\ [Next]_vars => [Abs!Next]_Abs!vars
  <1> SUFFICES ASSUME TypeOK, [Next]_vars PROVE [Abs!Next]_Abs!vars
    OBVIOUS
  <1>0. Len(features) \in Nat
    BY ConstAssumption, SeqOfIff, LenProperties DEF TypeOK
  <1>1. ASSUME NEW num \in Indices, GetFeatureName(num) PROVE Abs!Next
    <2>1. CASE IndexCheck(num)
      BY <1>1, <2>1, RejectStep DEF GetFeatureName, Abs!Next
    <2>2. CASE IndexOk(num)
      BY <1>1, <2>2 DEF GetFeatureName, IndexOk, Abs!Next, Abs!Read
    <2>3. QED
      BY <1>1, <2>1, <2>2 DEF GetFeatureName
  <1>2. ASSUME NEW num \in Indices, RemoveFeature(num) PROVE Abs!Next
    <2>1. CASE IndexCheck(num) /\ UNCHANGED features
      BY <2>1, RejectStep DEF Abs!Next
    <2>2. CASE IndexOk(num) /\ features' = RemoveAt(features, Pos(num))
      <3>1. Pos(num) \in 1..Len(features)
        BY <2>2, <1>0, PosInRange, ConstAssumption DEF IndexOk
      <3>2. Abs!RemoveOne(Pos(num))
        BY <2>2 DEF IndexOk, Abs!RemoveOne, RemoveAt, Abs!RemoveAt
      <3>3. QED
        BY <3>1, <3>2 DEF Abs!Next
    <2>3. QED
      BY <1>2, <2>1, <2>2 DEF RemoveFeature
  <1>3. ASSUME NEW num \in Indices, NEW v \in FeatureNames, SetFeature(num, v)
        PROVE Abs!Next
    <2>1. CASE IndexCheck(num) /\ UNCHANGED features
      BY <2>1, RejectStep DEF Abs!Next
    <2>2. CASE IndexOk(num) /\ features' = [features EXCEPT ![Pos(num)] = v]
      <3>1. Pos(num) \in 1..Len(features)
        BY <2>2, <1>0, PosInRange, ConstAssumption DEF IndexOk
      <3>2. Abs!RenameOne(Pos(num), v)
        BY <2>2 DEF IndexOk, Abs!RenameOne
      <3>3. QED
        BY <3>1, <3>2 DEF Abs!Next
    <2>3. QED
      BY <1>3, <2>1, <2>2 DEF SetFeature
  <1>4. ASSUME NEW v \in FeatureNames, AddFeature(v) PROVE Abs!Next
    BY <1>4 DEF AddFeature, Abs!Next, Abs!AddOne
  <1>5. ASSUME NEW v \in FeatureNames, CheckFeatureName(v) PROVE Abs!Next
    BY <1>5 DEF CheckFeatureName, Abs!Next, Abs!Read
  <1>6. CASE UNCHANGED vars
    BY <1>6 DEF vars, Abs!vars
  <1>7. QED
    BY <1>1, <1>2, <1>3, <1>4, <1>5, <1>6 DEF Next

(* FeatureListRefinement: every behaviour of the VMCPUXML feature-list     *)
(* methods is a behaviour of the abstract feature list, in which a call    *)
(* that raises never edits the list and one that returns makes at most one *)
(* edit, for every set of names and every bound.                           *)
THEOREM Refinement == Spec => FeatureListRefinement
  BY InitRefines, NextRefines, TypeCorrect, PTL
     DEF Spec, FeatureListRefinement, Abs!Spec
=============================================================================
