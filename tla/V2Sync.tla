-------------------------------- MODULE V2Sync --------------------------------
(***************************************************************************)
(* A client that mirrors the v2 namespace through fabric_v2_snapshot and   *)
(* fabric_v2_changes (fixture_v2.py), while commits go on.                 *)
(*                                                                         *)
(* The two handlers are the code's.  A snapshot is not atomic: each page   *)
(* is taken from the namespace of its own moment.  The client is the       *)
(* installed daemon, outside the repository; it is modelled from what the  *)
(* two endpoints offer it: it pages until next_after is null, remembers    *)
(* last_seq of its first page, then applies the records after it in order. *)
(* The harness waits for the daemon's head to reach an entry_seq           *)
(* (acceptance.py), which is the progress stated here.                     *)
(*                                                                         *)
(* A request refused because the attachment is not live changes nothing    *)
(* and is repeated, so it is no step here.                                 *)
(***************************************************************************)
EXTENDS ChangeFeed, FiniteSets

CONSTANTS
  Rank,           \* Rank[p]: the place of path p in sorted(v2_entries)
  SnapshotLimit,  \* "limit" of a snapshot request
  ChangesLimit,   \* "limit" of a changes request
  MaxRestarts     \* bound on the restarts of the client

VARIABLES
  phase,          \* "start", "paging" or "following"
  at,             \* rank of the "after" of the next page, 0 for null
  since,          \* the client's since_seq: where its next request begins
  pending,        \* the records of the last response it has yet to apply
  view,           \* the client's copy of the namespace
  horizon,        \* auxiliary: last_seq of the last page
  restarts

reader == <<phase, at, since, pending, view, horizon, restarts>>
vars == <<entries, journal, reader>>

ASSUME SyncAssumption ==
  /\ Rank \in [Paths -> Nat \ {0}]
  /\ \A p, q \in Paths : Rank[p] = Rank[q] => p = q
  /\ SnapshotLimit \in Nat \ {0}
  /\ ChangesLimit \in Nat \ {0}
  /\ MaxRestarts \in Nat

-----------------------------------------------------------------------------
(* fabric_v2_snapshot. *)

(* The entries after the cursor. *)
Rest == {p \in Paths : entries[p] # None /\ Rank[p] > at}

(* Whether the response has as many entries as the request allowed. *)
FullPage == Cardinality(Rest) >= SnapshotLimit

(* Whether r is the rank of the response's next_after, 0 for null: that of *)
(* the last entry of a full page.                                          *)
NextAfter(r) ==
  IF FullPage
  THEN \E q \in Rest : /\ r = Rank[q]
                       /\ Cardinality({p \in Rest : Rank[p] <= r}) = SnapshotLimit
  ELSE r = 0

(* One page: the namespace as it is now, from the cursor to next_after. *)
SnapshotPage ==
  /\ phase \in {"start", "paging"}
  /\ \E last \in {0} \cup {Rank[q] : q \in Paths} :
       /\ NextAfter(last)
       /\ view' = [p \in Paths |->
            IF Rank[p] > at /\ (last = 0 \/ Rank[p] <= last) THEN entries[p] ELSE view[p]]
       /\ at' = last
       /\ phase' = IF last = 0 THEN "following" ELSE "paging"
  /\ horizon' = Len(journal)
  /\ since' = IF phase = "start" THEN Len(journal) ELSE since
  /\ UNCHANGED <<entries, journal, pending, restarts>>

-----------------------------------------------------------------------------
(* fabric_v2_changes. *)

(* The last record a response may carry. *)
SliceEnd == IF since + ChangesLimit < Len(journal) THEN since + ChangesLimit ELSE Len(journal)

(* Variant with a fault: the first record of the slice is left out. *)
Response_Late == SubSeq(journal, since + 2, SliceEnd)

(* changes: the records after since, at most ChangesLimit of them. *)
Response == SubSeq(journal, since + 1, SliceEnd)

(* Variants with a fault: last_seq although there is more; since again; a  *)
(* full page whatever the page holds.                                      *)
NextSince_LastSeq == Len(journal)
NextSince_Unmoved == since
NextSince_FullPage == since + ChangesLimit

(* next_since_seq: the sequence number of the last record of the response. *)
NextSince == since + Len(Response)

FetchChanges ==
  /\ phase = "following"
  /\ pending = <<>>
  /\ Response # <<>>
  /\ pending' = Response
  /\ since' = NextSince
  /\ UNCHANGED <<entries, journal, phase, at, view, horizon, restarts>>

(* The number of records applied. *)
Done == since - Len(pending)

(* The client applies the next record it was sent. *)
ApplyChange ==
  /\ pending # <<>>
  /\ pending' = Tail(pending)
  /\ view' = Applied(view, Head(pending), Done + 1)
  /\ UNCHANGED <<entries, journal, phase, at, since, horizon, restarts>>

(* The client starts again with nothing. *)
Restart ==
  /\ phase # "start"
  /\ restarts < MaxRestarts
  /\ restarts' = restarts + 1
  /\ phase' = "start"
  /\ at' = 0
  /\ since' = 0
  /\ pending' = <<>>
  /\ horizon' = 0
  /\ view' = [p \in Paths |-> None]
  /\ UNCHANGED <<entries, journal>>

Commit(c) == Publish(c) /\ UNCHANGED reader

-----------------------------------------------------------------------------
SyncInit ==
  /\ Init
  /\ phase = "start"
  /\ at = 0
  /\ since = 0
  /\ pending = <<>>
  /\ horizon = 0
  /\ view = [p \in Paths |-> None]
  /\ restarts = 0

SyncNext ==
  \/ \E c \in Changes : Commit(c)
  \/ SnapshotPage
  \/ FetchChanges
  \/ ApplyChange
  \/ Restart

SyncSpec == SyncInit /\ [][SyncNext]_vars

(* The daemon polls for as long as it runs; commits are never owed.        *)
FairSync == SyncSpec /\ WF_vars(SnapshotPage) /\ WF_vars(FetchChanges \/ ApplyChange)

-----------------------------------------------------------------------------
SyncTypeOK ==
  /\ phase \in {"start", "paging", "following"}
  /\ at \in Nat
  /\ since \in 0..Len(journal)
  /\ pending \in Seq(Change)
  /\ Len(pending) <= since
  /\ horizon \in 0..Len(journal)
  /\ view \in [Paths -> Entry \cup {None}]
  /\ restarts \in 0..MaxRestarts

(* The namespace as the first n records left it. *)
NamespaceAt(n) ==
  [p \in Paths |->
     IF \E i \in 1..n : LeftAt(i, p, n)
     THEN LET i == CHOOSE k \in 1..n : LeftAt(k, p, n)
          IN [kind |-> journal[i].kind, digest |-> journal[i].digest, seq |-> i]
     ELSE None]

(* A client that has applied everything has exactly the namespace, although *)
(* the pages of its snapshot were never all true at one moment.             *)
MirrorConverges == phase = "following" /\ Done = Len(journal) => view = entries

(* From the last page's last_seq on, the copy is a namespace the fabric    *)
(* really had; before it a rename may show at both of its paths or at      *)
(* neither.                                                                *)
MirrorIsPastState == phase = "following" /\ Done >= horizon => view = NamespaceAt(Done)

(* What makes MirrorConverges inductive: a response is the piece of the    *)
(* journal after what is applied, and on the paths already read only       *)
(* records still to be applied separate the copy from the namespace.       *)
Covered(p) == phase = "following" \/ (phase = "paging" /\ Rank[p] <= at)

PendingIsJournal ==
  /\ \A i \in 1..Len(pending) : pending[i] = journal[Done + i]
  /\ phase # "following" => pending = <<>>
  /\ phase = "start" => at = 0

OnlyTheRestDiffers ==
  \A p \in Paths :
    Covered(p) /\ (\A n \in Done+1..Len(journal) : ~ Touches(journal[n], p))
      => view[p] = entries[p]

(* What makes MirrorIsPastState inductive: on every path read, the copy is *)
(* the namespace of some moment, which lies between what is applied and    *)
(* the last page; so applying up to that page brings all paths to one.     *)
LeftThere(e, p, n) ==
  IF e = None
  THEN \A i \in 1..n : ~ LeftAt(i, p, n)
  ELSE /\ LeftAt(e.seq, p, n)
       /\ journal[e.seq].kind = e.kind
       /\ journal[e.seq].digest = e.digest

EachPathIsOfAMoment ==
  \A p \in Paths : Covered(p) =>
    \E n \in Done..Len(journal) : (n <= horizon \/ n = Done) /\ LeftThere(view[p], p, n)

(* A record after n touches path p again, and the client has applied it or *)
(* has read pages that may show it.                                        *)
Overtaken(p, n) ==
  \E k \in n+1..Len(journal) : (k <= Done \/ k <= horizon) /\ Touches(journal[k], p)

(* Every record reaches the client, unless it starts again. *)
HeadReached ==
  \A n \in 1..MaxJournal : Len(journal) >= n ~> Done >= n
=============================================================================
