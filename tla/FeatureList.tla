----------------------------- MODULE FeatureList -----------------------------
(***************************************************************************)
(* What the feature-list methods of VMCPUXML promise, stated without       *)
(* indices: each call either fails and leaves the list as it was, or reads *)
(* it, or makes exactly one edit: renames one feature, removes one, or     *)
(* appends one.  A failing call never edits the list in part.              *)
(***************************************************************************)
EXTENDS Integers, SequencesExt

CONSTANTS
    FeatureNames,  \* feature names
    MaxFeatures    \* bound on the length of the list

VARIABLES
    list,    \* the features, in document order
    failed   \* whether the last call raised

vars == <<list, failed>>

Init ==
    /\ list \in SeqOf(FeatureNames, MaxFeatures)
    /\ failed = FALSE

(* A call that raises and leaves the list alone.                           *)
Reject == failed' = TRUE /\ UNCHANGED list

(* A call that returns and leaves the list alone.                          *)
Read == failed' = FALSE /\ UNCHANGED list

(* The feature at position i is renamed to v.                              *)
RenameOne(i, v) == failed' = FALSE /\ list' = [list EXCEPT ![i] = v]

(* The feature at position i is removed; the rest keep their order.        *)
RemoveOne(i) == failed' = FALSE /\ list' = RemoveAt(list, i)

(* A feature v is appended.                                                *)
AddOne(v) ==
    /\ Len(list) < MaxFeatures
    /\ failed' = FALSE /\ list' = Append(list, v)

Next ==
    \/ Reject \/ Read
    \/ \E i \in 1..Len(list) : RemoveOne(i) \/ \E v \in FeatureNames : RenameOne(i, v)
    \/ \E v \in FeatureNames : AddOne(v)

Spec == Init /\ [][Next]_vars

=============================================================================
