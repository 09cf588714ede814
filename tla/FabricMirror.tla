----------------------------- MODULE FabricMirror -----------------------------
(***************************************************************************)
(* The fabric and a client of it together: the commits, seeds and host     *)
(* events of FabricV2, and the mirroring client of V2Sync, which reads     *)
(* that very namespace through fabric_v2_snapshot and fabric_v2_changes.   *)
(*                                                                         *)
(* The two handlers hold _state_lock and ask _v2_authority first, so they  *)
(* never see a commit half way, and serve only a live attachment of the    *)
(* client's host.  What the client does with the answers is V2Sync's.      *)
(*                                                                         *)
(* It states what the driver counts on (acceptance.py): when the head the  *)
(* client reports has reached the entry_seq of an answer, the mounted      *)
(* namespace shows what that answer was about.                             *)
(***************************************************************************)
EXTENDS FabricV2

CONSTANTS
  Client,         \* the host the mirroring client runs on
  Rank,           \* Rank[p]: the place of path p in sorted(v2_entries)
  SnapshotLimit,  \* "limit" of a snapshot request
  ChangesLimit,   \* "limit" of a changes request
  MaxRestarts     \* bound on the restarts of the client

VARIABLES phase, at, since, pending, view, horizon, restarts  \* see V2Sync

ASSUME MirrorAssumption ==
  /\ Client \in Hosts
  /\ Rank \in [Paths -> Nat \ {0}]
  /\ \A p, q \in Paths : Rank[p] = Rank[q] => p = q
  /\ SnapshotLimit \in Nat \ {0}
  /\ ChangesLimit \in Nat \ {0}
  /\ MaxRestarts \in Nat

Sync == INSTANCE V2Sync WITH
  Ids <- Mutations \cup {SeedId},
  Changes <- Published

reader == <<phase, at, since, pending, view, horizon, restarts>>
mirrored == <<vars, reader>>

-----------------------------------------------------------------------------
(* A request of the client that is answered: nobody holds the lock, and    *)
(* the attachment it names is the live one of its host.                    *)
Served == LockFree /\ \E g \in 1..MaxGen : Authority(Client, g)

Reads ==
  \/ Served /\ (Sync!SnapshotPage \/ Sync!FetchChanges)
  \/ Sync!ApplyChange
  \/ Sync!Restart

MirrorInit == Init /\ Sync!SyncInit

MirrorNext ==
  \/ Next /\ UNCHANGED reader
  \/ Reads /\ UNCHANGED vars

MirrorSpec == MirrorInit /\ [][MirrorNext]_mirrored

-----------------------------------------------------------------------------
(* To the client the fabric is the change feed of V2Sync, whatever         *)
(* requests, faults and host events produce its records.                   *)
ImplementsSync == Sync!SyncSpec

(* The copy has at p what operation o, which wrote record n, made of it.   *)
Shows(p, o, n) ==
  IF p = o.dest \/ (o.op = "put" /\ p = o.path)
  THEN /\ view[p] # None
       /\ view[p].seq = n
       /\ view[p].digest = IF o.op = "rename" THEN o.prev ELSE o.digest
       /\ o.kind # None => view[p].kind = o.kind
  ELSE view[p] = None

(* A client at n or beyond shows path p no version from before n, and      *)
(* shows what operation o left there unless a later change has undone it.  *)
SeenFrom(p, o, n) ==
  /\ view[p] # None => view[p].seq >= n
  /\ Shows(p, o, n) \/ Sync!Overtaken(p, n)

(* fixture_v2.py:662-671: once the client's position has reached the       *)
(* number of an applied verdict, every path of the operation shows it.     *)
CommittedIsSeen ==
  \A k \in Key : receipts[k] # None =>
    \A i \in DOMAIN receipts[k].verdicts :
      LET v == receipts[k].verdicts[i]
          o == receipts[k].ops[i]
      IN  v.status = "applied" /\ v.seq <= Sync!Done =>
            \A p \in OpPaths(o) : SeenFrom(p, o, v.seq)

(* acceptance.py:775: so does the path of a seed whose entry_seq the       *)
(* driver has waited for.                                                  *)
SeededIsSeen ==
  \A n \in 1 .. Sync!Done : author[n] = None => SeenFrom(journal[n].path, journal[n], n)

(* What the driver's waits for the head of the client rely on, across      *)
(* batches, retries, seeds, restarts and pages taken between commits.      *)
ReachedIsSeen == phase = "following" => CommittedIsSeen /\ SeededIsSeen
=============================================================================
