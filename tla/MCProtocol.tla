----------------------------- MODULE MCProtocol -----------------------------
(***************************************************************************)
(* The parts of a protocol for TLC.                                        *)
(***************************************************************************)
EXTENDS Protocol

\* A root, a lifetime nested in it and one nested in that.
MCChain == [l \in {"outer", "inner", "innermost"} |->
              IF l = "innermost" THEN "inner" ELSE "outer"]

MCPuts == [e \in {"client"} |-> 4]

MCSettings ==
  {[mode |-> "InViewPort", clients |-> 1, dedicated |-> FALSE, atStart |-> FALSE],
   [mode |-> "InVulkanPreview", clients |-> 4, dedicated |-> TRUE, atStart |-> TRUE],
   [mode |-> "InVR", clients |-> 2, dedicated |-> FALSE, atStart |-> TRUE]}

\* Every play mode, some with all bits set and some with the eighth, that no setting has.
MCModes == {16 * p + 15 * (p % 2) + 128 * (p \div 5) : p \in 0 .. 6}
============================================================================
