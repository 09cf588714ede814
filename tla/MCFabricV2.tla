------------------------------ MODULE MCFabricV2 ------------------------------
(* A small workspace: directory or file pa, a path inside it, and pb; two   *)
(* versions of a file, with s a sparse one.                                *)
EXTENDS FabricV2

CONSTANTS pa, pab, pb, d1, d2, s

MCPaths == {pa, pab, pb}

MCBelow == [p \in MCPaths |-> IF p = pa THEN {pab} ELSE {}]

Plain == [op |-> "put", path |-> pa, kind |-> None, digest |-> None, prev |-> None,
          dest |-> None, source |-> None, sprev |-> None]

PutFile(p, d, prev) == [Plain EXCEPT !.path = p, !.kind = "file", !.digest = d, !.prev = prev]
PutDir(p, prev) == [Plain EXCEPT !.path = p, !.kind = "dir", !.prev = prev]
Delete(p, prev) == [Plain EXCEPT !.op = "delete", !.path = p, !.prev = prev]
Rename(p, q, prev) == [Plain EXCEPT !.op = "rename", !.path = p, !.dest = q, !.prev = prev]
Move(p, q, d, old) == [PutFile(q, d, None) EXCEPT !.source = p, !.sprev = old]

FileOps ==
  {PutFile(pa, d1, None), PutFile(pa, d2, d1), PutFile(pab, d1, None), PutDir(pa, None),
   PutDir(pa, d1), Delete(pa, None), Delete(pab, d1), Rename(pa, pb, d1), Rename(pb, pa, s), Move(pa, pb, d2, d1)}

UpTo(ops, n) == {q \in UNION {[1..k -> ops] : k \in 1..n} : WellFormed(q)}

MCBatches == UpTo(FileOps, 2)

Legacy(op, p, d, q) == [op |-> op, path |-> p, digest |-> d, dest |-> q]

MCLegacy ==
  {Legacy("put", pa, d2, None), Legacy("delete", pa, None, None),
   Legacy("rename", pa, None, pb), Legacy("publish", pa, d2, None)}

MCSeeds == {<<pb, d1>>, <<pb, s>>}

SparseSeeds == {<<pa, s>>, <<pab, d1>>}

NoLegacy == {}

SparseBatches ==
  UpTo({PutFile(pb, d1, None), Rename(pa, pb, s), Rename(pb, pa, s), Rename(pb, pa, d1),
        Delete(pa, s), Delete(pa, None)}, 2)
=============================================================================
