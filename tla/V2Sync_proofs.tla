---------------------------- MODULE V2Sync_proofs ----------------------------
(* A mirror converges, for every namespace, page size and response size.   *)
EXTENDS V2Sync, ChangeFeed_proofs

SyncInv == FeedInv /\ SyncTypeOK /\ PendingIsJournal /\ OnlyTheRestDiffers

(* A response is the next piece of the journal. *)
LEMMA ResponseIsSlice ==
  ASSUME TypeOK, SyncTypeOK
  PROVE  /\ SliceEnd \in since..Len(journal)
         /\ Response \in Seq(Change)
         /\ Len(Response) = SliceEnd - since
         /\ \A i \in 1..Len(Response) : Response[i] = journal[since + i]
  <1>1. since \in Nat /\ since <= Len(journal) /\ Len(journal) \in Nat
    BY DEF TypeOK, SyncTypeOK
  <1>2. SliceEnd \in since..Len(journal)
    BY SyncAssumption, <1>1 DEF SliceEnd
  <1>3. QED
    BY <1>1, <1>2 DEF Response, TypeOK

(* The record a client applies is what the fabric did: unless a later      *)
(* record says more, it leaves each of its paths as the namespace has it.  *)
LEMMA AppliedIsCurrent ==
  ASSUME FeedInv, NEW n \in 1..Len(journal), NEW p \in Paths, NEW ns,
         Touches(journal[n], p),
         \A k \in n+1..Len(journal) : ~ Touches(journal[k], p)
  PROVE  Applied(ns, journal[n], n)[p] = entries[p]
  <1>0. Len(journal) \in Nat /\ n \in Nat /\ journal[n] \in Change
    BY DEF FeedInv, TypeOK
  <1>1. CASE Fills(journal[n], p)
    <2>1. LeftAt(n, p, Len(journal))
      BY <1>1 DEF LeftAt
    <2>2. entries[p] # None
      BY <2>1 DEF FeedInv, NamespaceIsJournal
    <2>3. /\ entries[p] \in Entry
          /\ LeftAt(entries[p].seq, p, Len(journal))
          /\ journal[entries[p].seq].kind = entries[p].kind
          /\ journal[entries[p].seq].digest = entries[p].digest
      BY <2>2 DEF FeedInv, NamespaceIsJournal, TypeOK
    <2>4. entries[p].seq = n
      BY <1>0, <2>1, <2>3, LeftAtUnique DEF Entry
    <2>5. entries[p] = [kind |-> journal[n].kind, digest |-> journal[n].digest, seq |-> n]
      BY <2>3, <2>4 DEF Entry
    <2>6. QED
      BY <1>1, <2>5 DEF Applied
  <1>2. CASE ~ Fills(journal[n], p)
    <2>1. Applied(ns, journal[n], n)[p] = None
      BY <1>2 DEF Applied
    <2>2. ASSUME NEW i \in 1..Len(journal), LeftAt(i, p, Len(journal))
          PROVE  FALSE
      <3>1. ~ (i < n)
        BY <1>0, <2>2 DEF LeftAt
      <3>2. i # n
        BY <1>2, <2>2 DEF LeftAt
      <3>3. i \in n+1..Len(journal) /\ Touches(journal[i], p)
        BY <1>0, <2>2, <3>1, <3>2 DEF LeftAt, Fills, Touches
      <3>4. QED
        BY <3>3
    <2>3. entries[p] = None
      BY <2>2 DEF FeedInv, NamespaceIsJournal, LeftAt
    <2>4. QED
      BY <2>1, <2>3
  <1>3. QED
    BY <1>1, <1>2

(* A commit only adds to what is still to be applied. *)
LEMMA CommitKeepsMirror ==
  ASSUME SyncInv, FeedInv', NEW c \in Changes, Commit(c)
  PROVE  SyncInv'
  <1>1. PICK n \in Nat : n = Len(journal)
    BY DEF SyncInv, FeedInv, TypeOK
  <1>2. /\ Len(journal') = n + 1
        /\ \A k \in 1..n : journal'[k] = journal[k]
        /\ journal'[n + 1] = c
        /\ entries' = Applied(entries, c, n + 1)
        /\ UNCHANGED reader
    BY <1>1 DEF Commit, Publish, SyncInv, FeedInv, TypeOK
  <1>3. SyncTypeOK'
    BY <1>1, <1>2 DEF SyncInv, SyncTypeOK, reader
  <1>4. /\ since \in Nat /\ Len(pending) \in Nat /\ Done \in Nat /\ Done + Len(pending) <= n
        /\ Done' = Done
    BY <1>1, <1>2 DEF SyncInv, SyncTypeOK, Done, reader
  <1>5. PendingIsJournal'
    BY <1>1, <1>2, <1>4 DEF SyncInv, PendingIsJournal, reader
  <1>6. OnlyTheRestDiffers'
    <2> SUFFICES ASSUME NEW p \in Paths, Covered(p)',
                        \A k \in Done+1..n+1 : ~ Touches(journal'[k], p)
                 PROVE  view'[p] = entries'[p]
      BY <1>2, <1>4 DEF OnlyTheRestDiffers
    <2>1. Covered(p)
      BY <1>2 DEF Covered, reader
    <2>2. \A k \in Done+1..n : ~ Touches(journal[k], p)
      BY <1>2, <1>4
    <2>3. view[p] = entries[p]
      BY <1>1, <2>1, <2>2 DEF SyncInv, OnlyTheRestDiffers
    <2>4. ~ Touches(c, p)
      <3>1. n + 1 \in Done+1..n+1
        BY <1>1, <1>4
      <3>2. QED
        BY <1>2, <3>1
    <2>5. ~ Fills(c, p)
      BY <2>4 DEF Fills, Touches
    <2>6. QED
      BY <1>2, <2>3, <2>4, <2>5 DEF Applied, reader
  <1>7. QED
    BY <1>3, <1>5, <1>6 DEF SyncInv

(* The feed is untouched by every step of the client. *)
LEMMA ReaderKeepsFeed ==
  ASSUME FeedInv, UNCHANGED <<entries, journal>>
  PROVE  FeedInv'
  BY DEF FeedInv, TypeOK, NamespaceIsJournal, NoLostUpdate, PredecessorsHeld, LeftAt

(* A page leaves the client where its first page put it. *)
LEMMA PageAppliesNothing ==
  ASSUME SyncInv, SnapshotPage
  PROVE  Done = since /\ Done' = since'
  <1>1. PICK n \in Nat : n = Len(journal)
    BY DEF SyncInv, FeedInv, TypeOK
  <1>2. pending = <<>> /\ pending' = <<>>
    BY DEF SnapshotPage, SyncInv, PendingIsJournal
  <1>3. since \in Nat /\ since' \in Nat
    BY <1>1 DEF SnapshotPage, SyncInv, SyncTypeOK
  <1>4. Len(pending) = 0 /\ Len(pending') = 0
    BY <1>2
  <1>5. Done = since
    BY <1>3, <1>4 DEF Done
  <1>6. PICK s \in Nat : s = since'
    BY <1>3
  <1>7. PICK z \in Nat : z = Len(pending') /\ z = 0
    BY <1>4
  <1>8. Done' = s - z
    BY <1>6, <1>7 DEF Done
  <1>9. s - z = s
    BY <1>7
  <1>10. QED
    BY <1>5, <1>6, <1>8, <1>9

(* A page adds to the paths read exactly the entries of this moment, and   *)
(* the first page starts the journal where nothing is left to apply.       *)
LEMMA PageKeepsMirror ==
  ASSUME SyncInv, SnapshotPage
  PROVE  SyncInv'
  <1>1. PICK n \in Nat : n = Len(journal)
    BY DEF SyncInv, FeedInv, TypeOK
  <1>2. UNCHANGED <<entries, journal, pending, restarts>> /\ pending = <<>>
    BY DEF SnapshotPage, SyncInv, PendingIsJournal
  <1>3. PICK last \in Nat :
          /\ view' = [p \in Paths |->
               IF Rank[p] > at /\ (last = 0 \/ Rank[p] <= last) THEN entries[p] ELSE view[p]]
          /\ at' = last
          /\ phase' = IF last = 0 THEN "following" ELSE "paging"
    BY SyncAssumption DEF SnapshotPage
  <1>4. /\ phase \in {"start", "paging"}
        /\ horizon' = n
        /\ since' = IF phase = "start" THEN n ELSE since
    BY <1>1 DEF SnapshotPage
  <1>5. since \in Nat /\ since <= n /\ since' \in Nat /\ since' <= n
    BY <1>1, <1>4 DEF SyncInv, SyncTypeOK
  <1>6. SyncTypeOK'
    <2>1. view' \in [Paths -> Entry \cup {None}]
      BY <1>3 DEF SyncInv, SyncTypeOK, FeedInv, TypeOK
    <2>2. pending' \in Seq(Change) /\ Len(pending') <= since'
      BY <1>2, <1>5
    <2>3. QED
      BY <1>1, <1>2, <1>3, <1>4, <1>5, <2>1, <2>2 DEF SyncInv, SyncTypeOK
  <1>7. PendingIsJournal'
    BY <1>2, <1>3 DEF PendingIsJournal
  <1>8. Done = since /\ Done' = since'
    BY PageAppliesNothing
  <1>9. OnlyTheRestDiffers'
    <2> SUFFICES ASSUME NEW p \in Paths, Covered(p)',
                        \A k \in since'+1..n : ~ Touches(journal[k], p)
                 PROVE  view'[p] = entries[p]
      BY <1>1, <1>2, <1>8 DEF OnlyTheRestDiffers
    <2>1. Rank[p] \in Nat \ {0} /\ at \in Nat
      BY SyncAssumption DEF SyncInv, SyncTypeOK
    <2>2. CASE Rank[p] > at
      BY <1>3, <2>1, <2>2 DEF Covered
    <2>3. CASE ~ (Rank[p] > at)
      <3>1. phase = "paging" /\ Rank[p] <= at
        BY <1>4, <2>1, <2>3 DEF SyncInv, PendingIsJournal
      <3>2. view[p] = entries[p]
        BY <1>1, <1>4, <1>8, <3>1 DEF SyncInv, OnlyTheRestDiffers, Covered
      <3>3. QED
        BY <1>3, <2>3, <3>2
    <2>4. QED
      BY <2>2, <2>3
  <1>10. QED
    BY <1>2, <1>6, <1>7, <1>9, ReaderKeepsFeed DEF SyncInv

(* A response moves since and pending together: what is applied stays. *)
LEMMA FetchKeepsMirror ==
  ASSUME SyncInv, FetchChanges
  PROVE  SyncInv'
  <1>1. PICK n \in Nat : n = Len(journal)
    BY DEF SyncInv, FeedInv, TypeOK
  <1>2. /\ pending = <<>>
        /\ pending' = Response
        /\ since' = since + Len(Response)
        /\ phase = "following"
        /\ UNCHANGED <<entries, journal, phase, at, view, horizon, restarts>>
    BY DEF FetchChanges, NextSince
  <1>3. /\ SliceEnd \in since..n
        /\ Response \in Seq(Change)
        /\ Len(Response) = SliceEnd - since
        /\ \A i \in 1..Len(Response) : Response[i] = journal[since + i]
    BY <1>1, ResponseIsSlice DEF SyncInv, FeedInv
  <1>4. since \in Nat /\ since <= n
    BY <1>1 DEF SyncInv, SyncTypeOK
  <1>5. /\ since' \in since..n
        /\ Len(pending') = since' - since
        /\ pending' \in Seq(Change)
    BY <1>2, <1>3, <1>4
  <1>6. Done = since /\ Done' = since
    BY <1>2, <1>4, <1>5 DEF Done
  <1>7. SyncTypeOK'
    BY <1>1, <1>2, <1>4, <1>5 DEF SyncInv, SyncTypeOK
  <1>8. PendingIsJournal'
    BY <1>2, <1>3, <1>6 DEF PendingIsJournal
  <1>9. OnlyTheRestDiffers'
    BY <1>2, <1>6 DEF SyncInv, OnlyTheRestDiffers, Covered
  <1>10. QED
    BY <1>2, <1>7, <1>8, <1>9, ReaderKeepsFeed DEF SyncInv

(* Applying the next record leaves its paths as the namespace has them,    *)
(* unless a record still to come changes them again.                       *)
LEMMA ApplyKeepsMirror ==
  ASSUME SyncInv, ApplyChange
  PROVE  SyncInv'
  <1>1. PICK n \in Nat : n = Len(journal)
    BY DEF SyncInv, FeedInv, TypeOK
  <1>2. /\ pending # <<>>
        /\ pending' = Tail(pending)
        /\ view' = Applied(view, Head(pending), Done + 1)
        /\ UNCHANGED <<entries, journal, phase, at, since, horizon, restarts>>
    BY DEF ApplyChange
  <1>3. /\ pending \in Seq(Change) /\ Len(pending) \in Nat \ {0} /\ Len(pending) <= since
        /\ since \in Nat /\ since <= n
    BY <1>1, <1>2 DEF SyncInv, SyncTypeOK
  <1>4. PICK d \in Nat : d = Done /\ d + Len(pending) = since
    BY <1>3 DEF Done
  <1>5. /\ pending' \in Seq(Change)
        /\ Len(pending') = Len(pending) - 1
        /\ \A i \in 1..Len(pending') : pending'[i] = pending[i + 1]
    BY <1>2, <1>3
  <1>6. Done' = d + 1
    BY <1>2, <1>3, <1>4, <1>5 DEF Done
  <1>7. Head(pending) = journal[d + 1] /\ d + 1 \in 1..n
    <2>1. 1 \in 1..Len(pending)
      BY <1>3
    <2>2. pending[1] = journal[d + 1]
      BY <1>4, <2>1 DEF SyncInv, PendingIsJournal
    <2>3. QED
      BY <1>3, <1>4, <2>2
  <1>8. journal[d + 1] \in Change
    BY <1>1, <1>7 DEF SyncInv, FeedInv, TypeOK
  <1>9. SyncTypeOK'
    <2>1. view' \in [Paths -> Entry \cup {None}]
      BY <1>2, <1>4, <1>7, <1>8
      DEF SyncInv, SyncTypeOK, Applied, Entry, Change
    <2>2. QED
      BY <1>1, <1>2, <1>3, <1>5, <2>1 DEF SyncInv, SyncTypeOK
  <1>10. PendingIsJournal'
    <2>1. ASSUME NEW i \in 1..Len(pending')
          PROVE  pending'[i] = journal[d + 1 + i]
      <3>1. i + 1 \in 1..Len(pending)
        BY <1>3, <1>5, <2>1
      <3>2. pending[i + 1] = journal[d + (i + 1)]
        BY <1>4, <3>1 DEF SyncInv, PendingIsJournal
      <3>3. QED
        BY <1>5, <2>1, <3>1, <3>2
    <2>2. phase = "following"
      BY <1>2 DEF SyncInv, PendingIsJournal
    <2>3. QED
      BY <1>2, <1>6, <2>1, <2>2 DEF PendingIsJournal
  <1>11. OnlyTheRestDiffers'
    <2> SUFFICES ASSUME NEW p \in Paths, Covered(p),
                        \A k \in (d + 1)+1..n : ~ Touches(journal[k], p)
                 PROVE  view'[p] = entries[p]
      BY <1>1, <1>2, <1>6 DEF OnlyTheRestDiffers, Covered
    <2>1. CASE Touches(journal[d + 1], p)
      <3>1. Applied(view, journal[d + 1], d + 1)[p] = entries[p]
        BY <1>1, <1>7, <2>1, AppliedIsCurrent DEF SyncInv
      <3>2. QED
        BY <1>2, <1>4, <1>7, <3>1
    <2>2. CASE ~ Touches(journal[d + 1], p)
      <3>1. \A k \in d+1..n : ~ Touches(journal[k], p)
        BY <1>7, <2>2
      <3>2. view[p] = entries[p]
        BY <1>1, <1>4, <3>1 DEF SyncInv, OnlyTheRestDiffers
      <3>3. ~ Fills(journal[d + 1], p)
        BY <2>2 DEF Fills, Touches
      <3>4. QED
        BY <1>2, <1>4, <1>7, <2>2, <3>2, <3>3 DEF Applied
    <2>3. QED
      BY <2>1, <2>2
  <1>12. QED
    BY <1>2, <1>9, <1>10, <1>11, ReaderKeepsFeed DEF SyncInv

LEMMA RestartKeepsMirror ==
  ASSUME SyncInv, Restart
  PROVE  SyncInv'
  <1>1. UNCHANGED <<entries, journal>> /\ Len(journal) \in Nat
    BY DEF Restart, SyncInv, FeedInv, TypeOK
  <1>2. SyncTypeOK'
    BY SyncAssumption, <1>1 DEF Restart, SyncInv, SyncTypeOK
  <1>3. PendingIsJournal'
    BY DEF Restart, PendingIsJournal
  <1>4. OnlyTheRestDiffers'
    BY DEF Restart, OnlyTheRestDiffers, Covered
  <1>5. QED
    BY <1>1, <1>2, <1>3, <1>4, ReaderKeepsFeed DEF SyncInv

LEMMA SyncInvHolds == SyncSpec => []SyncInv
  <1>1. SyncInit => Init
    BY DEF SyncInit
  <1>2. [SyncNext]_vars => [Next]_feed
    BY DEF SyncNext, Commit, SnapshotPage, FetchChanges, ApplyChange, Restart, Next, feed, vars
  <1>3. SyncSpec => []FeedInv
    BY <1>1, <1>2, FeedInvHolds, PTL DEF SyncSpec, Spec
  <1>4. ASSUME FeedInv, SyncInit
        PROVE  SyncInv
    BY <1>4, SyncAssumption DEF SyncInit, Init, SyncInv, SyncTypeOK, PendingIsJournal, OnlyTheRestDiffers, Covered
  <1>5. ASSUME SyncInv, FeedInv', [SyncNext]_vars
        PROVE  SyncInv'
    <2>1. CASE \E c \in Changes : Commit(c)
      BY <1>5, <2>1, CommitKeepsMirror
    <2>2. CASE SnapshotPage
      BY <1>5, <2>2, PageKeepsMirror
    <2>3. CASE FetchChanges
      BY <1>5, <2>3, FetchKeepsMirror
    <2>4. CASE ApplyChange
      BY <1>5, <2>4, ApplyKeepsMirror
    <2>5. CASE Restart
      BY <1>5, <2>5, RestartKeepsMirror
    <2>6. CASE UNCHANGED vars
      BY <1>5, <2>6 DEF vars, reader, SyncInv, SyncTypeOK, PendingIsJournal,
                        OnlyTheRestDiffers, Covered, Done
    <2>7. QED
      BY <1>5, <2>1, <2>2, <2>3, <2>4, <2>5, <2>6 DEF SyncNext
  <1>6. QED
    BY <1>3, <1>4, <1>5, PTL DEF SyncSpec

(* The client's state keeps its shape: its position never passes the end   *)
(* of v2_journal, whatever pages and slices it was sent.                   *)
THEOREM MirrorTypeCorrect == SyncSpec => []SyncTypeOK
  <1>1. SyncInv => SyncTypeOK
    BY DEF SyncInv
  <1>2. QED
    BY <1>1, SyncInvHolds, PTL

(* A client that pages through fabric_v2_snapshot while commits go on and  *)
(* then applies what fabric_v2_changes sends it from the first page's      *)
(* last_seq ends with exactly v2_entries, for every namespace, page size   *)
(* and response size.                                                      *)
THEOREM ClientsConverge == SyncSpec => []MirrorConverges
  <1>1. ASSUME SyncInv, phase = "following", Done = Len(journal)
        PROVE  view = entries
    <2>1. ASSUME NEW p \in Paths
          PROVE  view[p] = entries[p]
      <3>1. \A k \in Len(journal)+1..Len(journal) : FALSE
        BY <1>1 DEF SyncInv, FeedInv, TypeOK
      <3>2. QED
        BY <1>1, <3>1 DEF SyncInv, OnlyTheRestDiffers, Covered
    <2>2. view \in [Paths -> Entry \cup {None}] /\ entries \in [Paths -> Entry \cup {None}]
      BY <1>1 DEF SyncInv, SyncTypeOK, FeedInv, TypeOK
    <2>3. QED
      BY <2>1, <2>2
  <1>2. SyncInv => MirrorConverges
    BY <1>1 DEF MirrorConverges
  <1>3. QED
    BY <1>2, SyncInvHolds, PTL

-----------------------------------------------------------------------------
(* The copy of a client is a namespace of the past.                        *)

(* The namespace of this moment is what the whole journal left. *)
LEMMA EntriesAreLeft ==
  ASSUME FeedInv, NEW p \in Paths
  PROVE  LeftThere(entries[p], p, Len(journal))
  BY DEF FeedInv, NamespaceIsJournal, LeftThere

(* A record adds nothing to what the records before it left. *)
LEMMA PastIsKept ==
  ASSUME TypeOK, NEW c \in Changes, Publish(c), NEW p \in Paths,
         NEW n \in Nat, n <= Len(journal),
         NEW e \in Entry \cup {None}, LeftThere(e, p, n)
  PROVE  LeftThere(e, p, n)'
  <1>1. PICK l \in Nat : l = Len(journal)
    BY DEF TypeOK
  <1>2. n \in 0..l
    BY <1>1
  <1>3. /\ \A k \in 1..l : journal'[k] = journal[k]
        /\ \A i \in Nat : LeftAt(i, p, n)' <=> LeftAt(i, p, n)
    BY <1>1, <1>2, LeftAtAfterPublish
  <1>4. CASE e = None
    BY <1>3, <1>4 DEF LeftThere
  <1>5. CASE e # None
    <2>1. PICK s \in Nat : s = e.seq
      BY <1>5 DEF Entry
    <2>2. LeftAt(s, p, n) /\ s \in 1..l
      BY <1>2, <1>5, <2>1 DEF LeftThere, LeftAt
    <2>3. LeftAt(e.seq, p, n)'
      BY <1>3, <2>1, <2>2 DEF LeftAt
    <2>4. QED
      BY <1>3, <1>5, <2>1, <2>2, <2>3 DEF LeftThere
  <1>6. QED
    BY <1>4, <1>5

(* A record that says nothing of a path leaves it as it was. *)
LEMMA UntouchedIsLeft ==
  ASSUME NEW p \in Paths, NEW n \in Nat, ~ Touches(journal[n + 1], p),
         NEW e \in Entry \cup {None}, LeftThere(e, p, n)
  PROVE  LeftThere(e, p, n + 1)
  <1>1. ~ Fills(journal[n + 1], p)
    BY DEF Fills, Touches
  <1>2. \A i \in Nat : LeftAt(i, p, n + 1) <=> LeftAt(i, p, n)
    BY <1>1 DEF LeftAt
  <1>3. CASE e = None
    <2>1. \A i \in 1..n : ~ LeftAt(i, p, n)
      BY <1>3 DEF LeftThere
    <2>2. \A i \in Nat : ~ LeftAt(i, p, n)
      BY <2>1 DEF LeftAt
    <2>3. QED
      BY <1>2, <1>3, <2>2 DEF LeftThere
  <1>4. CASE e # None
    BY <1>2, <1>4 DEF LeftThere, Entry
  <1>5. QED
    BY <1>3, <1>4

(* A record that names a path is the last word on it. *)
LEMMA AppliedIsLeft ==
  ASSUME NEW p \in Paths, NEW n \in Nat, journal[n + 1] \in Change,
         Touches(journal[n + 1], p), NEW ns
  PROVE  LeftThere(Applied(ns, journal[n + 1], n + 1)[p], p, n + 1)
  <1>1. CASE Fills(journal[n + 1], p)
    <2>1. Applied(ns, journal[n + 1], n + 1)[p] =
            [kind |-> journal[n + 1].kind, digest |-> journal[n + 1].digest, seq |-> n + 1]
      BY <1>1 DEF Applied
    <2> DEFINE e == Applied(ns, journal[n + 1], n + 1)[p]
    <2>2. /\ journal[n + 1].kind \in Kinds
          /\ journal[n + 1].digest \in Digests \cup {None}
      BY DEF Change
    <2>3. e \in Entry
      BY <2>1, <2>2 DEF Entry
    <2>4. (n + 1)+1..n+1 = {}
      OBVIOUS
    <2>5. LeftAt(n + 1, p, n + 1)
      BY <1>1, <2>4 DEF LeftAt
    <2>6. /\ e.seq = n + 1
          /\ journal[n + 1].kind = e.kind
          /\ journal[n + 1].digest = e.digest
      BY <2>1
    <2> HIDE DEF e
    <2>7. e # None
      BY <2>3, FeedAssumption
    <2>8. LeftThere(e, p, n + 1)
      BY <2>5, <2>6, <2>7 DEF LeftThere
    <2>9. QED
      BY <2>8 DEF e
  <1>2. CASE ~ Fills(journal[n + 1], p)
    <2>1. Applied(ns, journal[n + 1], n + 1)[p] = None
      BY <1>2 DEF Applied
    <2>2. \A i \in 1..n+1 : ~ LeftAt(i, p, n + 1)
      BY <1>2 DEF LeftAt
    <2>3. QED
      BY <2>1, <2>2 DEF LeftThere
  <1>3. QED
    BY <1>1, <1>2

(* What is left at a path is what NamespaceAt has there. *)
LEMMA LeftIsNamespaceAt ==
  ASSUME NEW p \in Paths, NEW n \in Nat, NEW e \in Entry \cup {None}, LeftThere(e, p, n)
  PROVE  e = NamespaceAt(n)[p]
  <1>1. CASE e = None
    BY <1>1 DEF LeftThere, NamespaceAt
  <1>2. CASE e # None
    <2> DEFINE i == CHOOSE k \in 1..n : LeftAt(k, p, n)
    <2>1. e.seq \in 1..n /\ LeftAt(e.seq, p, n) /\ e \in Entry
      BY <1>2 DEF LeftThere, LeftAt
    <2>2. i \in 1..n /\ LeftAt(i, p, n)
      BY <2>1
    <2>3. i = e.seq
      <3> HIDE DEF i
      <3>1. QED
        BY <2>1, <2>2, LeftAtUnique
    <2>4. NamespaceAt(n)[p] = [kind |-> journal[i].kind, digest |-> journal[i].digest, seq |-> i]
      BY <2>1 DEF NamespaceAt
    <2>5. e = [kind |-> journal[e.seq].kind, digest |-> journal[e.seq].digest, seq |-> e.seq]
      BY <1>2, <2>1 DEF LeftThere, Entry
    <2>6. QED
      BY <2>3, <2>4, <2>5
  <1>3. QED
    BY <1>1, <1>2

MomentInv == SyncInv /\ EachPathIsOfAMoment

(* The moment a path is of. *)
LEMMA MomentOf ==
  ASSUME MomentInv, NEW p \in Paths, Covered(p)
  PROVE  \E n \in Nat : /\ Done <= n /\ n <= Len(journal)
                        /\ n <= horizon \/ n = Done
                        /\ LeftThere(view[p], p, n)
  <1>1. Done \in Nat /\ Len(journal) \in Nat
    BY DEF MomentInv, SyncInv, SyncTypeOK, FeedInv, TypeOK, Done
  <1>2. QED
    BY <1>1 DEF MomentInv, EachPathIsOfAMoment

LEMMA CommitKeepsMoments ==
  ASSUME MomentInv, NEW c \in Changes, Commit(c)
  PROVE  EachPathIsOfAMoment'
  <1>1. TypeOK /\ Publish(c) /\ UNCHANGED reader
    BY DEF MomentInv, SyncInv, FeedInv, Commit
  <1>2. PICK l \in Nat : l = Len(journal) /\ Len(journal') = l + 1
    BY <1>1 DEF TypeOK, Publish
  <1>3. Done' = Done /\ horizon' = horizon /\ view' = view /\ Done \in Nat
    BY <1>1 DEF reader, Done, MomentInv, SyncInv, SyncTypeOK
  <1> SUFFICES ASSUME NEW p \in Paths, Covered(p)'
               PROVE  \E n \in Done..l+1 : /\ n <= horizon \/ n = Done
                                           /\ LeftThere(view[p], p, n)'
    BY <1>2, <1>3 DEF EachPathIsOfAMoment
  <1>4. Covered(p)
    BY <1>1 DEF Covered, reader
  <1>5. PICK n \in Nat : /\ Done <= n /\ n <= l
                         /\ n <= horizon \/ n = Done
                         /\ LeftThere(view[p], p, n)
    BY <1>2, <1>4, MomentOf
  <1>6. PICK e \in Entry \cup {None} : e = view[p]
    BY DEF MomentInv, SyncInv, SyncTypeOK
  <1>7. LeftThere(e, p, n)'
    BY <1>1, <1>2, <1>5, <1>6, PastIsKept
  <1>8. LeftThere(view[p], p, n)'
    BY <1>3, <1>6, <1>7
  <1>9. QED
    BY <1>3, <1>5, <1>8

(* What is left at a path is a matter of the journal alone. *)
LEMMA LeftThereIsOfTheFeed ==
  ASSUME UNCHANGED journal, NEW p, NEW n, NEW e
  PROVE  LeftThere(e, p, n)' <=> LeftThere(e, p, n)
  BY DEF LeftThere, LeftAt

(* The paths of a page are of its moment, and no moment is later. *)
LEMMA PageKeepsMoments ==
  ASSUME MomentInv, SnapshotPage
  PROVE  EachPathIsOfAMoment'
  <1>1. PICK l \in Nat : l = Len(journal)
    BY DEF MomentInv, SyncInv, FeedInv, TypeOK
  <1>2. UNCHANGED <<entries, journal, pending, restarts>> /\ pending = <<>>
    BY DEF SnapshotPage, MomentInv, SyncInv, PendingIsJournal
  <1>3. PICK last \in Nat :
          /\ view' = [p \in Paths |->
               IF Rank[p] > at /\ (last = 0 \/ Rank[p] <= last) THEN entries[p] ELSE view[p]]
          /\ at' = last
          /\ phase' = IF last = 0 THEN "following" ELSE "paging"
    BY SyncAssumption DEF SnapshotPage
  <1>4. /\ phase \in {"start", "paging"}
        /\ horizon' = l
        /\ since' = IF phase = "start" THEN l ELSE since
    BY <1>1 DEF SnapshotPage
  <1>5. since \in Nat /\ since <= l /\ since' \in Nat /\ since' <= l
    BY <1>1, <1>4 DEF MomentInv, SyncInv, SyncTypeOK
  <1>6. Done = since /\ Done' = since'
    BY PageAppliesNothing DEF MomentInv
  <1> SUFFICES ASSUME NEW p \in Paths, Covered(p)'
               PROVE  \E n \in since'..l : n <= l /\ LeftThere(view[p], p, n)'
    BY <1>1, <1>2, <1>4, <1>6 DEF EachPathIsOfAMoment
  <1>7. Rank[p] \in Nat \ {0} /\ at \in Nat
    BY SyncAssumption DEF MomentInv, SyncInv, SyncTypeOK
  <1>8. CASE Rank[p] > at
    <2>1. view'[p] = entries[p]
      BY <1>3, <1>7, <1>8 DEF Covered
    <2>2. PICK e : e = entries[p]
      OBVIOUS
    <2>3. LeftThere(e, p, l)
      BY <1>1, <2>2, EntriesAreLeft DEF MomentInv, SyncInv
    <2>4. LeftThere(view[p], p, l)'
      BY <1>2, <2>1, <2>2, <2>3, LeftThereIsOfTheFeed
    <2>5. QED
      BY <1>5, <2>4
  <1>9. CASE ~ (Rank[p] > at)
    <2>1. phase = "paging" /\ Rank[p] <= at
      BY <1>4, <1>7, <1>9 DEF MomentInv, SyncInv, PendingIsJournal
    <2>2. PICK n \in Nat : since <= n /\ n <= l /\ LeftThere(view[p], p, n)
      BY <1>1, <1>6, <2>1, MomentOf DEF Covered
    <2>3. PICK e : e = view[p] /\ e = view'[p]
      BY <1>3, <1>9
    <2>4. LeftThere(view[p], p, n)'
      BY <1>2, <2>2, <2>3, LeftThereIsOfTheFeed
    <2>5. since' = since
      BY <1>4, <2>1
    <2>6. QED
      BY <1>5, <2>2, <2>4, <2>5
  <1>10. QED
    BY <1>8, <1>9

LEMMA FetchKeepsMoments ==
  ASSUME MomentInv, FetchChanges
  PROVE  EachPathIsOfAMoment'
  <1>1. /\ pending = <<>>
        /\ pending' = Response
        /\ since' = since + Len(Response)
        /\ UNCHANGED <<entries, journal, phase, at, view, horizon, restarts>>
    BY DEF FetchChanges, NextSince
  <1>2. Response \in Seq(Change) /\ since \in Nat
    BY ResponseIsSlice DEF MomentInv, SyncInv, FeedInv, SyncTypeOK
  <1>3. Done' = Done
    BY <1>1, <1>2 DEF Done
  <1>4. QED
    BY <1>1, <1>3 DEF MomentInv, EachPathIsOfAMoment, Covered, LeftThere, LeftAt

(* A record moves the paths it names to its own moment, and the others     *)
(* that were of the moment before it to the next one.                      *)
LEMMA ApplyKeepsMoments ==
  ASSUME MomentInv, ApplyChange
  PROVE  EachPathIsOfAMoment'
  <1>1. PICK l \in Nat : l = Len(journal)
    BY DEF MomentInv, SyncInv, FeedInv, TypeOK
  <1>2. /\ pending # <<>>
        /\ pending' = Tail(pending)
        /\ view' = Applied(view, Head(pending), Done + 1)
        /\ UNCHANGED <<entries, journal, phase, at, since, horizon, restarts>>
    BY DEF ApplyChange
  <1>3. /\ pending \in Seq(Change) /\ Len(pending) \in Nat \ {0} /\ Len(pending) <= since
        /\ since \in Nat /\ since <= l
    BY <1>1, <1>2 DEF MomentInv, SyncInv, SyncTypeOK
  <1>4. PICK d \in Nat : d = Done /\ d + Len(pending) = since
    BY <1>3 DEF Done
  <1>5. Done' = d + 1 /\ d + 1 <= l
    BY <1>2, <1>3, <1>4 DEF Done
  <1>6. Head(pending) = journal[d + 1] /\ journal[d + 1] \in Change
    <2>1. 1 \in 1..Len(pending)
      BY <1>3
    <2>2. pending[1] = journal[d + 1]
      BY <1>4, <2>1 DEF MomentInv, SyncInv, PendingIsJournal
    <2>3. d + 1 \in 1..l
      BY <1>5
    <2>4. QED
      BY <1>1, <1>3, <2>2, <2>3 DEF MomentInv, SyncInv, FeedInv, TypeOK
  <1> SUFFICES ASSUME NEW p \in Paths, Covered(p)
               PROVE  \E n \in d+1..l : /\ n <= horizon \/ n = d + 1
                                        /\ LeftThere(view[p], p, n)'
    BY <1>1, <1>2, <1>5 DEF EachPathIsOfAMoment, Covered
  <1>7. CASE Touches(journal[d + 1], p)
    <2>1. PICK e : e = Applied(view, journal[d + 1], d + 1)[p]
      OBVIOUS
    <2>2. e = view'[p]
      BY <1>2, <1>4, <1>6, <2>1
    <2>3. LeftThere(e, p, d + 1)
      BY <1>6, <1>7, <2>1, AppliedIsLeft
    <2>4. LeftThere(view[p], p, d + 1)'
      BY <1>2, <2>2, <2>3, LeftThereIsOfTheFeed
    <2>5. QED
      BY <1>5, <2>4
  <1>8. CASE ~ Touches(journal[d + 1], p)
    <2>1. PICK e \in Entry \cup {None} : e = view[p]
      BY DEF MomentInv, SyncInv, SyncTypeOK
    <2>2. e = view'[p]
      <3>1. ~ Fills(journal[d + 1], p)
        BY <1>8 DEF Fills, Touches
      <3>2. QED
        BY <1>2, <1>4, <1>6, <1>8, <2>1, <3>1 DEF Applied
    <2>3. PICK n \in Nat : /\ d <= n /\ n <= l
                           /\ n <= horizon \/ n = d
                           /\ LeftThere(e, p, n)
      BY <1>1, <1>4, <2>1, MomentOf
    <2>4. CASE n = d
      <3>1. LeftThere(e, p, d + 1)
        BY <1>8, <2>3, <2>4, UntouchedIsLeft
      <3>2. LeftThere(view[p], p, d + 1)'
        BY <1>2, <2>2, <3>1, LeftThereIsOfTheFeed
      <3>3. QED
        BY <1>5, <3>2
    <2>5. CASE n # d
      <3>1. n \in d+1..l /\ n <= horizon
        BY <2>3, <2>5
      <3>2. LeftThere(view[p], p, n)'
        BY <1>2, <2>2, <2>3, LeftThereIsOfTheFeed
      <3>3. QED
        BY <3>1, <3>2
    <2>6. QED
      BY <2>4, <2>5
  <1>9. QED
    BY <1>7, <1>8

LEMMA MomentInvHolds == SyncSpec => []MomentInv
  <1>1. SyncInit => EachPathIsOfAMoment
    BY DEF SyncInit, EachPathIsOfAMoment, Covered
  <1>2. ASSUME MomentInv, [SyncNext]_vars
        PROVE  EachPathIsOfAMoment'
    <2>1. CASE \E c \in Changes : Commit(c)
      BY <1>2, <2>1, CommitKeepsMoments
    <2>2. CASE SnapshotPage
      BY <1>2, <2>2, PageKeepsMoments
    <2>3. CASE FetchChanges
      BY <1>2, <2>3, FetchKeepsMoments
    <2>4. CASE ApplyChange
      BY <1>2, <2>4, ApplyKeepsMoments
    <2>5. CASE Restart
      BY <2>5 DEF Restart, EachPathIsOfAMoment, Covered
    <2>6. CASE UNCHANGED vars
      BY <1>2, <2>6 DEF vars, reader, MomentInv, EachPathIsOfAMoment, Covered, Done,
                        LeftThere, LeftAt
    <2>7. QED
      BY <1>2, <2>1, <2>2, <2>3, <2>4, <2>5, <2>6 DEF SyncNext
  <1>3. QED
    BY <1>1, <1>2, SyncInvHolds, PTL DEF SyncSpec, MomentInv

(* Once it has applied the records up to the last page's last_seq, the     *)
(* copy of a client is at every moment a namespace the fabric really had,  *)
(* the one its last applied record left, for every namespace, page size    *)
(* and response size.                                                      *)
THEOREM MirrorsAreOfThePast == SyncSpec => []MirrorIsPastState
  <1>1. ASSUME MomentInv, phase = "following", Done >= horizon
        PROVE  view = NamespaceAt(Done)
    <2>1. Done \in Nat /\ Len(journal) \in Nat /\ horizon \in Nat
      BY <1>1 DEF MomentInv, SyncInv, SyncTypeOK, FeedInv, TypeOK, Done
    <2>2. ASSUME NEW p \in Paths
          PROVE  view[p] = NamespaceAt(Done)[p]
      <3>1. LeftThere(view[p], p, Done)
        BY <1>1, <2>1, MomentOf DEF Covered
      <3>2. view[p] \in Entry \cup {None}
        BY <1>1 DEF MomentInv, SyncInv, SyncTypeOK
      <3>3. QED
        BY <2>1, <3>1, <3>2, LeftIsNamespaceAt
    <2>3. view = [p \in Paths |-> view[p]]
      BY <1>1 DEF MomentInv, SyncInv, SyncTypeOK
    <2>4. NamespaceAt(Done) = [p \in Paths |-> NamespaceAt(Done)[p]]
      BY DEF NamespaceAt
    <2>5. QED
      BY <2>2, <2>3, <2>4
  <1>2. MomentInv => MirrorIsPastState
    BY <1>1 DEF MirrorIsPastState
  <1>3. QED
    BY <1>2, MomentInvHolds, PTL
(* What a client at record n or beyond has at a path of that record: never *)
(* anything older, and what the record left there unless it is overtaken.  *)
LEMMA ReachedIsShown ==
  ASSUME MomentInv, phase = "following", NEW n \in 1..Done,
         NEW p \in Paths, Touches(journal[n], p)
  PROVE  /\ view[p] # None => view[p].seq >= n
         /\ view[p] = Applied(view, journal[n], n)[p] \/ Overtaken(p, n)
  <1>1. PICK m \in Nat : /\ Done <= m /\ m <= Len(journal)
                         /\ m <= horizon \/ m = Done
                         /\ LeftThere(view[p], p, m)
    BY MomentOf DEF Covered
  <1>2. /\ n \in Nat /\ n >= 1 /\ n <= m /\ n <= Done
        /\ Len(journal) \in Nat /\ Done \in Nat /\ horizon \in Nat
    BY <1>1 DEF MomentInv, SyncInv, SyncTypeOK, FeedInv, TypeOK, Done
  <1>3. view[p] \in Entry \cup {None}
    BY DEF MomentInv, SyncInv, SyncTypeOK
  <1>4. CASE \E k \in n+1..m : Touches(journal[k], p)
    <2>1. PICK k \in n+1..m : Touches(journal[k], p)
      BY <1>4
    <2>2. k \in n+1..Len(journal) /\ (k <= Done \/ k <= horizon)
      BY <1>1, <1>2
    <2>3. Overtaken(p, n)
      BY <2>1, <2>2 DEF Overtaken
    <2>4. ASSUME view[p] # None
          PROVE  view[p].seq >= n
      <3>1. LeftAt(view[p].seq, p, m)
        BY <1>1, <2>4 DEF LeftThere
      <3>2. view[p].seq \in Nat
        BY <1>3, <2>4 DEF Entry
      <3>3. ~ (n \in view[p].seq + 1 .. m)
        BY <3>1 DEF LeftAt
      <3>4. QED
        BY <1>1, <1>2, <3>2, <3>3
    <2>5. QED
      BY <2>3, <2>4
  <1>5. CASE \A k \in n+1..m : ~ Touches(journal[k], p)
    <2>1. CASE view[p] = None
      <3>1. ~ LeftAt(n, p, m)
        BY <1>1, <1>2, <2>1 DEF LeftThere
      <3>2. ~ Fills(journal[n], p)
        BY <1>2, <1>5, <3>1 DEF LeftAt
      <3>3. QED
        BY <2>1, <3>2 DEF Applied
    <2>2. CASE view[p] # None
      <3>1. PICK s \in Nat : s = view[p].seq
        BY <1>3, <2>2 DEF Entry
      <3>2. /\ LeftAt(s, p, m)
            /\ journal[s].kind = view[p].kind
            /\ journal[s].digest = view[p].digest
        BY <1>1, <2>2, <3>1 DEF LeftThere
      <3>3. s \in 1..m /\ Fills(journal[s], p) /\ Touches(journal[s], p)
        BY <3>2 DEF LeftAt, Fills, Touches
      <3>4. ~ (n \in s + 1 .. m) /\ ~ (s \in n + 1 .. m)
        BY <1>5, <3>2, <3>3 DEF LeftAt
      <3>5. s = n
        BY <1>1, <1>2, <3>1, <3>3, <3>4
      <3>6. view[p] = [kind |-> journal[n].kind, digest |-> journal[n].digest, seq |-> n]
        BY <1>3, <2>2, <3>1, <3>2, <3>5 DEF Entry
      <3>7. view[p] = Applied(view, journal[n], n)[p]
        BY <3>3, <3>5, <3>6 DEF Applied
      <3>8. QED
        BY <1>2, <3>1, <3>5, <3>7
    <2>3. QED
      BY <2>1, <2>2
  <1>6. QED
    BY <1>4, <1>5
=============================================================================
