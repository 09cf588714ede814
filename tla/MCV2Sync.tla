------------------------------- MODULE MCV2Sync -------------------------------
(* Three paths, a with a child ab, pages of one entry and change responses *)
(* of two records.                                                         *)
EXTENDS V2Sync

CONSTANTS a, ab, b, d1, d2, m

MCPaths == {a, ab, b}

MCBelow == [p \in MCPaths |-> IF p = a THEN {ab} ELSE {}]

MCRank == [p \in MCPaths |-> CASE p = a -> 1 [] p = ab -> 2 [] p = b -> 3]

Plain == [op |-> "put", path |-> a, kind |-> "file", digest |-> None, prev |-> None,
          dest |-> None, source |-> None, sprev |-> None,
          blocks |-> None, mutation |-> m]

Put(p, d, prev) == [Plain EXCEPT !.path = p, !.digest = d, !.prev = prev, !.blocks = d]

MCChanges ==
  {Put(p, d1, None) : p \in MCPaths}
    \cup {Put(a, d2, d1), [Plain EXCEPT !.kind = "dir"]}
    \cup {[Plain EXCEPT !.op = "delete", !.path = p, !.prev = d1] : p \in {ab, b}}
    \cup {[Plain EXCEPT !.op = "rename", !.path = x[1], !.dest = x[2], !.digest = d1, !.prev = d1,
                      !.blocks = d1] :
            x \in {<<a, b>>, <<b, a>>}}
    \cup {[Put(b, d2, None) EXCEPT !.source = a, !.sprev = d1]}
=============================================================================
