-------------------------- MODULE ChangeFeed_proofs --------------------------
(* Theorems about the change feed, for every namespace, every set of       *)
(* records and every length of the journal.                                *)
EXTENDS ChangeFeed, TLAPS

USE FeedAssumption

TypeOK == /\ entries \in [Paths -> Entry \cup {None}]
          /\ journal \in Seq(Change)

(* What each record leaves behind once record c has become number n + 1.   *)
LEMMA LeftAtAfterPublish ==
  ASSUME TypeOK, NEW c \in Changes, Publish(c), NEW p \in Paths,
         NEW n \in Nat, n = Len(journal)
  PROVE  /\ Len(journal') = n + 1
         /\ \A k \in 1..n : journal'[k] = journal[k]
         /\ journal'[n + 1] = c
         /\ \A m \in 0..n, i \in Nat : LeftAt(i, p, m)' <=> LeftAt(i, p, m)
         /\ \A i \in 1..n : LeftAt(i, p, n + 1)' <=> LeftAt(i, p, n) /\ ~ Touches(c, p)
         /\ LeftAt(n + 1, p, n + 1)' <=> Fills(c, p)
  <1>1. /\ Len(journal') = n + 1
        /\ \A k \in 1..n : journal'[k] = journal[k]
        /\ journal'[n + 1] = c
    BY DEF Publish, TypeOK
  <1>2. ASSUME NEW m \in 0..n, NEW i \in Nat
        PROVE  LeftAt(i, p, m)' <=> LeftAt(i, p, m)
    <2>1. \A k \in 1..m : journal'[k] = journal[k]
      BY <1>1
    <2>2. QED
      BY <1>1, <2>1 DEF LeftAt, Fills, Touches
  <1>3. ASSUME NEW i \in 1..n
        PROVE  LeftAt(i, p, n + 1)' <=> LeftAt(i, p, n) /\ ~ Touches(c, p)
    <2>1. i+1..n+1 = (i+1..n) \cup {n + 1}
      OBVIOUS
    <2>2. QED
      BY <1>1, <2>1 DEF LeftAt, Fills, Touches
  <1>4. LeftAt(n + 1, p, n + 1)' <=> Fills(c, p)
    <2>1. (n+1)+1..n+1 = {}
      OBVIOUS
    <2>2. QED
      BY <1>1, <2>1 DEF LeftAt, Fills
  <1>5. QED
    BY <1>1, <1>2, <1>3, <1>4

(* At most one record is the latest word on a path. *)
LEMMA LeftAtUnique ==
  ASSUME NEW p \in Paths, NEW n \in Nat, NEW i \in Nat, NEW k \in Nat,
         LeftAt(i, p, n), LeftAt(k, p, n)
  PROVE  i = k
  BY DEF LeftAt, Fills, Touches

(* Publishing keeps the types. *)
LEMMA PublishType ==
  ASSUME TypeOK, NEW c \in Changes, Publish(c)
  PROVE  TypeOK'
  <1>1. c \in Change
    OBVIOUS
  <1>2. [kind |-> c.kind, digest |-> c.digest, seq |-> Len(journal) + 1] \in Entry
    BY <1>1 DEF Entry, Change, TypeOK
  <1>3. QED
    BY <1>1, <1>2 DEF Publish, Applied, TypeOK

(* Publishing a record keeps the namespace the one the journal describes. *)
LEMMA PublishKeepsNamespace ==
  ASSUME TypeOK, NamespaceIsJournal, NEW c \in Changes, Publish(c)
  PROVE  NamespaceIsJournal'
  <1>1. PICK n \in Nat : n = Len(journal)
    BY DEF TypeOK
  <1>2. /\ Len(journal') = n + 1
        /\ \A k \in 1..n : journal'[k] = journal[k]
        /\ journal'[n + 1] = c
    BY <1>1 DEF Publish, TypeOK
  <1>3. entries' = Applied(entries, c, n + 1)
    BY <1>1 DEF Publish
  <1> SUFFICES ASSUME NEW p \in Paths
               PROVE  IF entries'[p] = None
                      THEN \A i \in 1..n+1 : ~ LeftAt(i, p, n+1)'
                      ELSE /\ LeftAt(entries[p].seq, p, n+1)'
                           /\ journal'[entries'[p].seq].kind = entries'[p].kind
                           /\ journal'[entries'[p].seq].digest = entries'[p].digest
    BY <1>2 DEF NamespaceIsJournal, LeftAt
  <1>4. /\ \A i \in 1..n : LeftAt(i, p, n+1)' <=> LeftAt(i, p, n) /\ ~ Touches(c, p)
        /\ LeftAt(n+1, p, n+1)' <=> Fills(c, p)
    BY <1>1, LeftAtAfterPublish
  <1>5. CASE Fills(c, p)
    <2>1. c \in Change
      OBVIOUS
    <2>2. entries'[p] = [kind |-> c.kind, digest |-> c.digest, seq |-> n + 1]
      BY <1>3, <1>5 DEF Applied
    <2>3. entries'[p] \in Entry
      BY <2>1, <2>2 DEF Change, Entry
    <2>4. entries'[p].seq = n + 1
      BY <2>2
    <2>5. LeftAt(entries[p].seq, p, n+1)'
      BY <1>4, <1>5, <2>4 DEF LeftAt
    <2>6. QED
      BY <1>2, <2>2, <2>3, <2>4, <2>5
  <1>6. CASE Touches(c, p) /\ ~ Fills(c, p)
    <2>1. entries'[p] = None
      BY <1>3, <1>6 DEF Applied
    <2>2. QED
      BY <1>4, <1>6, <2>1
  <1>7. CASE ~ Touches(c, p)
    <2>1. ~ Fills(c, p)
      BY <1>7 DEF Touches, Fills
    <2>2. entries'[p] = entries[p]
      BY <1>3, <1>7, <2>1 DEF Applied
    <2>3. CASE entries[p] = None
      <3>1. \A i \in 1..n : ~ LeftAt(i, p, n)
        BY <1>1, <2>3 DEF NamespaceIsJournal
      <3>2. QED
        BY <1>4, <2>1, <2>2, <2>3, <3>1
    <2>4. CASE entries[p] # None
      <3>1. PICK i \in Nat : i = entries[p].seq
        BY <2>4 DEF TypeOK, Entry
      <3>2. /\ LeftAt(i, p, n)
            /\ journal[i].kind = entries[p].kind
            /\ journal[i].digest = entries[p].digest
        BY <1>1, <2>4, <3>1 DEF NamespaceIsJournal
      <3>3. i \in 1..n
        BY <3>2 DEF LeftAt
      <3>4. LeftAt(i, p, n+1)'
        BY <1>4, <1>7, <3>2, <3>3
      <3>5. entries'[p].seq = i
        BY <2>2, <3>1
      <3>6. LeftAt(entries[p].seq, p, n+1)'
        BY <3>4, <3>5 DEF LeftAt
      <3>7. QED
        BY <1>2, <2>2, <2>4, <3>2, <3>3, <3>5, <3>6
    <2>5. QED
      BY <2>3, <2>4
  <1>8. QED
    BY <1>5, <1>6, <1>7

(* In terms of the journal, what the namespace holds at p. *)
LEMMA NamespaceLookup ==
  ASSUME TypeOK, NamespaceIsJournal, NEW p \in Paths, NEW n \in Nat, n = Len(journal)
  PROVE  /\ \A i \in 1..n : LeftAt(i, p, n) =>
                 entries[p] # None /\ journal[i].digest = entries[p].digest
         /\ entries[p] # None =>
              \E i \in 1..n : LeftAt(i, p, n) /\ journal[i].digest = entries[p].digest
  <1>1. ASSUME NEW i \in 1..n, LeftAt(i, p, n)
        PROVE  entries[p] # None /\ journal[i].digest = entries[p].digest
    <2>1. entries[p] # None
      BY <1>1 DEF NamespaceIsJournal
    <2>2. entries[p].seq \in Nat /\ LeftAt(entries[p].seq, p, n)
      BY <2>1 DEF NamespaceIsJournal, TypeOK, Entry
    <2>3. entries[p].seq = i
      BY <1>1, <2>2, LeftAtUnique
    <2>4. QED
      BY <2>1, <2>3 DEF NamespaceIsJournal
  <1>2. ASSUME entries[p] # None
        PROVE  \E i \in 1..n : LeftAt(i, p, n) /\ journal[i].digest = entries[p].digest
    <2>1. LeftAt(entries[p].seq, p, n) /\ journal[entries[p].seq].digest = entries[p].digest
      BY <1>2 DEF NamespaceIsJournal
    <2>2. entries[p].seq \in 1..n
      BY <2>1 DEF LeftAt
    <2>3. QED
      BY <2>1, <2>2
  <1>3. QED
    BY <1>1, <1>2

(* Publishing a record loses no update. *)
LEMMA PublishLosesNothing ==
  ASSUME TypeOK, NamespaceIsJournal, NoLostUpdate, NEW c \in Changes, Publish(c)
  PROVE  NoLostUpdate'
  <1>1. PICK n \in Nat : n = Len(journal)
    BY DEF TypeOK
  <1>2. /\ Len(journal') = n + 1
        /\ \A k \in 1..n : journal'[k] = journal[k]
        /\ journal'[n + 1] = c
    BY <1>1 DEF Publish, TypeOK
  <1>3. /\ c \in Change
        /\ c.path \in Paths
        /\ c.dest \in Paths \cup {None}
        /\ c.source \in Paths \cup {None}
    BY DEF Change
  <1>4. \A p \in Paths : \A m \in 0..n, i \in Nat : LeftAt(i, p, m)' <=> LeftAt(i, p, m)
    BY <1>1, LeftAtAfterPublish
  <1>5. ASSUME NEW j \in 1..n
        PROVE  PredecessorsHeld(j)'
    <2>1. /\ journal[j] \in Change
          /\ journal'[j] = journal[j]
          /\ \A k \in 1..j-1 : journal'[k] = journal[k]
      BY <1>1, <1>2 DEF TypeOK
    <2>2. /\ journal[j].path \in Paths
          /\ journal[j].source \in Paths \cup {None}
          /\ journal[j].dest \in Paths \cup {None}
      BY <2>1 DEF Change
    <2>3. \A p \in Paths, i \in 1..j-1 : LeftAt(i, p, j-1)' <=> LeftAt(i, p, j-1)
      BY <1>4
    <2>4. PredecessorsHeld(j)
      BY <1>1 DEF NoLostUpdate
    <2>5. journal[j].dest = None => \A i \in 1..j-1 : LeftAt(i, None, j-1)' <=> LeftAt(i, None, j-1)
      BY <2>1 DEF LeftAt, Fills, Touches
    <2>6. QED
      BY <2>1, <2>2, <2>3, <2>4, <2>5 DEF PredecessorsHeld
  <1>6. PredecessorsHeld(n + 1)'
    <2>1. \A p \in Paths, i \in 1..n : /\ LeftAt(i, p, n)' <=> LeftAt(i, p, n)
                                       /\ journal'[i] = journal[i]
      BY <1>2, <1>4
    <2>2. Permitted(entries, c)
      BY DEF Publish
    <2>3. \A p \in Paths :
            /\ \A i \in 1..n : LeftAt(i, p, n) =>
                 entries[p] # None /\ journal[i].digest = entries[p].digest
            /\ entries[p] # None =>
                 \E i \in 1..n : LeftAt(i, p, n) /\ journal[i].digest = entries[p].digest
      BY <1>1, NamespaceLookup
    <2>4. \A i \in 1..n : LeftAt(i, c.path, n) =>
            /\ journal[i].digest = c.prev
            /\ c.op = "put" => c.prev # None
      BY <1>3, <2>2, <2>3 DEF Permitted, DigestOf
    <2>5. c.prev # None => \E i \in 1..n : LeftAt(i, c.path, n)
      BY <1>3, <2>2, <2>3 DEF Permitted, DigestOf
    <2>6. c.op = "rename" => \A i \in 1..n : ~ LeftAt(i, c.dest, n)
      BY <1>3, <2>2, <2>3 DEF Permitted
    <2>7. c.source # None =>
            \E i \in 1..n : LeftAt(i, c.source, n) /\ journal[i].digest = c.sprev
      BY <1>3, <2>2, <2>3 DEF Permitted, IsFile
    <2>8. c.op = "rename" => c.dest \in Paths
      BY <2>2 DEF Permitted
    <2>9. (n + 1) - 1 = n
      OBVIOUS
    <2>10. QED
      BY <1>2, <1>3, <2>1, <2>4, <2>5, <2>6, <2>7, <2>8, <2>9 DEF PredecessorsHeld
  <1>7. QED
    BY <1>2, <1>5, <1>6 DEF NoLostUpdate

(* What the feed guarantees, for every namespace and every journal. *)
FeedInv == TypeOK /\ NamespaceIsJournal /\ NoLostUpdate

LEMMA FeedInvHolds == Spec => []FeedInv
  <1>1. Init => FeedInv
    BY DEF Init, FeedInv, TypeOK, NamespaceIsJournal, NoLostUpdate
  <1>2. FeedInv /\ [Next]_feed => FeedInv'
    <2> SUFFICES ASSUME FeedInv, [Next]_feed
                 PROVE  FeedInv'
      OBVIOUS
    <2>1. ASSUME NEW c \in Changes, Publish(c)
          PROVE  FeedInv'
      BY <2>1, PublishType, PublishKeepsNamespace, PublishLosesNothing DEF FeedInv
    <2>2. CASE UNCHANGED feed
      BY <2>2 DEF feed, FeedInv, TypeOK, NamespaceIsJournal, NoLostUpdate, PredecessorsHeld,
                  LeftAt
    <2>3. QED
      BY <2>1, <2>2 DEF Next
  <1>3. QED
    BY <1>1, <1>2, PTL DEF Spec

(* A snapshot of the namespace is what the journal describes. *)
THEOREM FeedNamespaceIsJournal == Spec => []NamespaceIsJournal
  BY FeedInvHolds, PTL DEF FeedInv

(* No record overwrites a version it did not name. *)
THEOREM FeedLosesNoUpdate == Spec => []NoLostUpdate
  BY FeedInvHolds, PTL DEF FeedInv
=============================================================================
