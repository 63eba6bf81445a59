------------------------------ MODULE MC_VMXML ------------------------------
(* Small instance of VMXML for TLC: two domains, three uuids.              *)
EXTENDS VMXML, TLC

CONSTANTS a, b, u1, u2, u3, NoValue

MCNames == {a, b}
MCUUIDs == {u1, u2, u3}
MCVcpuValues == {0, 2}
MCModeWords == {"host-model", "Custom"}
MCSerialTypes == {"pty", "file"}
MCPorts == {"0"}
MCPaths == {"/tmp/serial"}

Symmetry == Permutations(MCNames) \cup Permutations(MCUUIDs)
=============================================================================
