---------------------------- MODULE MC_VMCPUXML ----------------------------
(* A TLC instance of VMCPUXML: two feature names, lists of up to three     *)
(* features, every num from -4 to 3, and /proc/cpuinfo files of up to two  *)
(* lines, of length 1 or 5.                                                *)
EXTENDS VMCPUXML, TLC

CONSTANTS f1, f2, NoValue

MCFeatureNames == {f1, f2}
MCIndices == -4..3
MCLineLengths == {1, 5}

Symmetry == Permutations(MCFeatureNames)
=============================================================================
