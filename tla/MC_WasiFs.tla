----------------------------- MODULE MC_WasiFs -----------------------------
(* Small instances of WasiFs for TLC. *)
EXTENDS WasiFs

CONSTANTS p1, p2, p3, s1, n1, rRead, rSync

MCPaths == {p1, p2, p3}
MCHostKind == [p \in MCPaths |-> CASE p = p1 -> "dir"
                                   [] p = p2 -> "file"
                                   [] OTHER -> "missing"]
MCRights == {rRead, rSync}
MCGrantSets == {MCRights, {rRead}}
MCStats == {"default", s1}
=============================================================================
