---------------------------- MODULE MCFabricMirror ----------------------------
(* Paths pa, pab below it and pb, and two versions; one client on the host. *)
EXTENDS FabricMirror

CONSTANTS pa, pab, pb, d1, d2

MCPaths == {pa, pab, pb}

MCBelow == [p \in MCPaths |-> IF p = pa THEN {pab} ELSE {}]

MCRank == [p \in MCPaths |-> CASE p = pa -> 1 [] p = pab -> 2 [] p = pb -> 3]

Plain == [op |-> "put", path |-> pa, kind |-> None, digest |-> None, prev |-> None,
          dest |-> None, source |-> None, sprev |-> None]

PutFile(p, d, prev) == [Plain EXCEPT !.path = p, !.kind = "file", !.digest = d, !.prev = prev]

MCOps ==
  {PutFile(pa, d1, None), PutFile(pa, d2, d1), PutFile(pb, d1, None),
   [Plain EXCEPT !.op = "delete", !.prev = d1],
   [Plain EXCEPT !.op = "rename", !.dest = pb, !.prev = d1],
   [PutFile(pb, d2, None) EXCEPT !.source = pa, !.sprev = d1]}

MCBatches == {q \in UNION {[1..k -> MCOps] : k \in 1..2} : WellFormed(q)}

MCLegacy == {[op |-> "put", path |-> pa, digest |-> d2, dest |-> None]}

MCSeeds == {<<pab, d1>>}
=============================================================================
