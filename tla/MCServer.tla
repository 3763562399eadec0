------------------------------ MODULE MCServer ------------------------------
(***************************************************************************)
(* Small instances of Server: two format handlers that share one of two    *)
(* routes, so that the order of registration matters.                      *)
(***************************************************************************)
EXTENDS Server, TLC

CONSTANTS c1, c2, a1, a2, xml, json, rpc, other, x, y

MCConns == {c1, c2}
MCAddr == {a1, a2}
MCHandlers == {xml, json}
MCMethods == {"POST", "GET"}
MCRoutes == {rpc, other}
MCCanHandleRequest == xml :> {rpc} @@ json :> {rpc, other}
MCByte == {x, y}
MCChunks == {<<x>>, <<y, y>>}

Symmetry == Permutations(MCConns) \cup Permutations(MCAddr)
=============================================================================
