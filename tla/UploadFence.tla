----------------------------- MODULE UploadFence -----------------------------
(***************************************************************************)
(* What the verification operations of the fabric promise (abstract): the  *)
(* uploads of a mutation belong to one authority, a host in a generation,  *)
(* until they are used up or expire, and whatever has been proved to be    *)
(* stored was proved by that authority.                                    *)
(*                                                                         *)
(* BlockTransfer shows how tickets, leases and the clock keep it;          *)
(* LegacyFabric relies on it when a file is put.                           *)
(***************************************************************************)
CONSTANTS
  Mutations,      \* mutation_id values
  Authorities,    \* hosts, each in one of its generations
  Blocks,         \* blocks, by their digests
  None            \* Python's None

VARIABLE
  proofs          \* fabric_verification_operations: whose each is, and its verified blocks

(* "blocks" says who proved which block. *)
Proof == [by : Authorities, blocks : SUBSET (Authorities \X Blocks)]

(* Authority a names the uploads of m, or proves that blocks are stored.   *)
Prove(m, a, blocks) ==
  /\ proofs[m] # None => proofs[m].by = a
  /\ proofs' = [proofs EXCEPT ![m] =
       [by |-> a,
        blocks |-> ({a} \X blocks) \cup IF proofs[m] = None THEN {} ELSE proofs[m].blocks]]

(* Operations expire, or are used up by a commit. *)
Drop(ms) == proofs' = [m \in Mutations |-> IF m \in ms THEN None ELSE proofs[m]]

Init == proofs = [m \in Mutations |-> None]

Next ==
  \/ \E m \in Mutations, a \in Authorities, blocks \in SUBSET Blocks : Prove(m, a, blocks)
  \/ \E ms \in SUBSET Mutations : Drop(ms)

Spec == Init /\ [][Next]_proofs
=============================================================================
