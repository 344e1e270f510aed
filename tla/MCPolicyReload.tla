--------------------------- MODULE MCPolicyReload ---------------------------
(* Instances of PolicyReload for TLC. *)
EXTENDS PolicyReload, TLC

File(preset, cap, prov) == [preset |-> preset, cap |-> cap, prov |-> prov]

Empty == File(None, None, None)
StrictFile == File("strict", None, None)
PermissiveFile == File("permissive", "warn", None)
BlockAllTierFile == File("permissive", "log", "block_all")

OrgOverlay == File("strict", "block", None)

\* The file is empty or maps a tier, and may be edited while the proxy starts.
StartFiles == {Empty, BlockAllTierFile}

Loadable == {Empty, StrictFile, PermissiveFile, BlockAllTierFile, Unparsable}
=============================================================================
