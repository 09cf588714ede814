---------------------------- MODULE FabricV2_proofs ----------------------------
(* Theorems about FabricV2, and at the end about FabricMirror, for every   *)
(* set of hosts, paths, versions and op lists and every bound.             *)
EXTENDS FabricMirror, TLAPS

USE FabricAssumption

(* What a request that passes the normalisation loop looks like. *)
LEMMA BatchesAreOps ==
  \A ops \in Batches : /\ ops \in Seq(Op) /\ ops # <<>>
                       /\ \A i \in DOMAIN ops : ops[i] \in Op /\ WellFormedOp(ops[i])
  BY DEF WellFormed

(* The operation the loop is at. *)
LEMMA CurrentOpType ==
  ASSUME TypeOK, OpPending
  PROVE  /\ work \in Commit
         /\ CurrentOp \in Op
         /\ WellFormedOp(CurrentOp)
         /\ work.key \in Key
         /\ CurrentOp.op = "rename" => CurrentOp.dest \in Paths
         /\ CurrentOp.op = "put" => CurrentOp.kind \in Kinds
  <1>1. work \in Commit
    BY DEF TypeOK, OpPending
  <1>2. CurrentOp \in Op /\ WellFormedOp(CurrentOp)
    BY <1>1, BatchesAreOps DEF OpPending, CurrentOp, Commit
  <1>3. work.key \in Key
    BY <1>1 DEF Commit
  <1>4. QED
    BY <1>1, <1>2, <1>3 DEF WellFormedOp, Op

LEMMA EntryFields ==
  ASSUME TypeOK, NEW p \in Paths
  PROVE  /\ DigestAt(p) \in Digests \cup {None}
         /\ entries[p] # None => entries[p] \in Entry /\ entries[p].kind \in Kinds
  BY DEF TypeOK, DigestAt, Entry

LEMMA RecordType ==
  ASSUME TypeOK, OpPending
  PROVE  RecordOf(CurrentOp, work.key.mutation) \in Change
  <1>1. /\ CurrentOp \in Op
        /\ work.key \in Key
    BY CurrentOpType
  <1>2. KindOf(CurrentOp) \in Kinds
    BY <1>1, EntryFields DEF KindOf, Op, Kinds
  <1>3. DigestAt(CurrentOp.path) \in Digests \cup {None}
    BY <1>1, EntryFields DEF Op
  <1>4. legacy[CurrentOp.path] \in Digests \cup {None}
    BY <1>1 DEF TypeOK, Op
  <1>5. BlocksSent(CurrentOp) \in Digests \cup {None}
    BY <1>1 DEF BlocksSent, Op
  <1>6. QED
    BY <1>1, <1>2, <1>3, <1>4, <1>5 DEF RecordOf, Change, Op, Key

LEMMA NextOpType ==
  ASSUME TypeOK, OpPending, NEW v \in Verdict, NextOp(v)
  PROVE  work' \in Commit
  <1>1. work \in Commit
    BY CurrentOpType
  <1>2. Append(work.verdicts, v) \in Seq(Verdict)
    BY <1>1 DEF Commit
  <1>3. QED
    BY <1>1, <1>2 DEF NextOp, Commit

(* What Journalled does to the types of the variables it changes. *)
LEMMA JournalledType ==
  ASSUME TypeOK, OpPending, Journalled
  PROVE  /\ journal' \in Seq(Change)
         /\ author' \in Seq(Author \cup {None})
         /\ Len(author') = Len(journal')
         /\ work' \in Commit
  <1>1. work \in Commit /\ work.key \in Key
    BY CurrentOpType
  <1>2. RecordOf(CurrentOp, work.key.mutation) \in Change
    BY RecordType
  <1>3. [key |-> work.key, attached |-> work.attached, index |-> work.next] \in Author
    BY <1>1 DEF Author, Commit
  <1>4. [status |-> "applied", seq |-> NextSeq] \in Verdict
    BY DEF TypeOK, NextSeq, Verdict
  <1>5. work' \in Commit
    BY <1>4, NextOpType DEF Journalled
  <1>6. QED
    BY <1>2, <1>3, <1>5 DEF Journalled, TypeOK

(* What a legacy request leaves alone, and what it needs. *)
LEMMA LegacyStepKeeps ==
  ASSUME NEW r \in LegacyRequests, LegacyStep(r)
  PROVE  /\ UNCHANGED <<gen, status, lease, entries, journal, receipts, work, author>>
         /\ work = None
  BY DEF LegacyStep, LegacyPut, LegacyDelete, LegacyRename, LegacyPublish, LegacyServed,
         LockFree, hostVars

(* The types of what it writes. *)
LEMMA LegacyStepType ==
  ASSUME TypeOK, NEW r \in LegacyRequests, LegacyStep(r)
  PROVE  /\ legacy' \in [Paths -> Digests \cup {None}]
         /\ cas' \subseteq Digests
         /\ strayed' \subseteq Paths
  <1>1. r \in LegacyRequest /\ WellFormedLegacy(r) /\ r.path \in Paths
    BY DEF LegacyRequest
  <1>2. CASE LegacyPut(r)
    <2>1. r.digest \in Digests
      BY <1>1, <1>2 DEF LegacyPut, LegacyRequest, WellFormedLegacy
    <2>2. QED
      BY <1>1, <1>2, <2>1 DEF LegacyPut, TypeOK
  <1>3. CASE LegacyDelete(r)
    BY <1>1, <1>3 DEF LegacyDelete, TypeOK
  <1>4. CASE LegacyRename(r)
    <2>1. r.dest \in Paths
      BY <1>1, <1>4 DEF LegacyRename, LegacyRequest, WellFormedLegacy
    <2>2. QED
      BY <1>1, <1>4, <2>1 DEF LegacyRename, TypeOK
  <1>5. CASE LegacyPublish(r)
    <2>1. r.digest \in Digests
      BY <1>1, <1>5 DEF LegacyPublish, LegacyRequest, WellFormedLegacy
    <2>2. QED
      BY <1>1, <1>5, <2>1 DEF LegacyPublish, TypeOK
  <1>6. QED
    BY <1>2, <1>3, <1>4, <1>5 DEF LegacyStep

(* Every variable keeps its type. *)
THEOREM TypeCorrect == Spec => []TypeOK
  <1>1. Init => TypeOK
    BY DEF Init, TypeOK
  <1>2. TypeOK /\ [Next]_vars => TypeOK'
    <2> SUFFICES ASSUME TypeOK, [Next]_vars
                 PROVE  TypeOK'
      OBVIOUS
    <2>1. ASSUME NEW h \in Hosts, Attach(h)
          PROVE  TypeOK'
      BY <2>1 DEF Attach, TypeOK, fabricVars
    <2>2. ASSUME NEW h \in Hosts, LeaseLapses(h) \/ Heartbeat(h)
          PROVE  TypeOK'
      BY <2>2 DEF LeaseLapses, Heartbeat, TypeOK, fabricVars
    <2>3. ASSUME NEW h \in Hosts, NEW to \in {"disconnected", "revoked"}, Transition(h, to)
          PROVE  TypeOK'
      BY <2>3 DEF Transition, TypeOK, fabricVars
    <2>4. ASSUME NEW d \in Digests, Upload(d)
          PROVE  TypeOK'
      BY <2>4 DEF Upload, TypeOK, hostVars
    <2>5. ASSUME NEW x \in Seeds, Seed(x[1], x[2])
          PROVE  TypeOK'
      <3>1. x[1] \in Paths /\ x[2] \in Digests
        BY <2>5
      <3>2. SeedRecord(x[1], x[2]) \in Change
        BY <3>1 DEF SeedRecord, Change, Kinds
      <3>3. [kind |-> "file", digest |-> x[2], seq |-> NextSeq] \in Entry
        BY <3>1 DEF Entry, Kinds, NextSeq, TypeOK
      <3>4. QED
        BY <2>5, <3>1, <3>2, <3>3 DEF Seed, TypeOK, hostVars
    <2>6. ASSUME NEW h \in Hosts, CommitRequest(h)
          PROVE  TypeOK'
      <3>0. PICK g \in 1..MaxGen, m \in Mutations, ops \in Batches :
              \E inline \in SUBSET FileDigests(ops) :
                \/ CommitStagesOnly(h, g, m, ops, inline)
                \/ CommitBegin(h, g, m, ops, inline)
        BY <2>6 DEF CommitRequest
      <3>1. PICK inline \in SUBSET FileDigests(ops) :
              \/ CommitStagesOnly(h, g, m, ops, inline)
              \/ CommitBegin(h, g, m, ops, inline)
        BY <3>0
      <3>2. inline \subseteq Digests
        BY BatchesAreOps DEF FileDigests, IsFilePut, WellFormedOp, Op
      <3>3. CASE CommitStagesOnly(h, g, m, ops, inline)
        BY <3>2, <3>3 DEF CommitStagesOnly, TypeOK, hostVars
      <3>4. CASE CommitBegin(h, g, m, ops, inline)
        <4>1. KeyOf(h, m) \in Key
          BY DEF KeyOf, Key, TypeOK
        <4>2. work' \in Commit
          BY <3>4, <4>1 DEF CommitBegin, Commit
        <4>3. QED
          BY <3>2, <3>4, <4>2 DEF CommitBegin, TypeOK, hostVars
      <3>5. QED
        BY <3>1, <3>3, <3>4
    <2>7. CASE RejectOp
      <3>1. work' \in Commit
        BY <2>7, NextOpType DEF RejectOp, Verdict
      <3>2. QED
        BY <2>7, <3>1 DEF RejectOp, TypeOK, hostVars
    <2>8. CASE ApplyPut
      <3>1. CurrentOp \in Op /\ CurrentOp.kind \in Kinds /\ WellFormedOp(CurrentOp)
        BY <2>8, CurrentOpType DEF ApplyPut
      <3>2. [kind |-> CurrentOp.kind, digest |-> CurrentOp.digest, seq |-> NextSeq] \in Entry
        BY <3>1 DEF Entry, Op, NextSeq, TypeOK
      <3>3. entries' \in [Paths -> Entry \cup {None}]
        BY <2>8, <3>2 DEF ApplyPut, TypeOK
      <3>4. legacy' \in [Paths -> Digests \cup {None}]
        BY <2>8, <3>1 DEF ApplyPut, TypeOK, Op
      <3>5. strayed' \subseteq Paths
        BY <2>8 DEF ApplyPut, TypeOK
      <3>6. QED
        BY <2>8, <3>3, <3>4, <3>5, JournalledType DEF ApplyPut, Journalled, TypeOK, hostVars
    <2>9. CASE ApplyDelete
      <3>1. QED
        BY <2>9, JournalledType DEF ApplyDelete, Journalled, TypeOK, hostVars
    <2>10. CASE DeleteUnsupported
      BY <2>10 DEF DeleteUnsupported, TypeOK, hostVars
    <2>11. ASSUME OpPending, CurrentOp.op = "rename", ~ Diverged(CurrentOp)
           PROVE  /\ Moved(CurrentOp) \in [Paths -> Entry \cup {None}]
                  /\ StrayedMoved(CurrentOp) \subseteq Paths
      <3>1. CurrentOp \in Op /\ CurrentOp.dest \in Paths
        BY <2>11, CurrentOpType
      <3>2. entries[CurrentOp.path] \in Entry
        BY <2>11, <3>1 DEF Diverged, FileAt, TypeOK, Op
      <3>3. [kind |-> entries[CurrentOp.path].kind, digest |-> entries[CurrentOp.path].digest,
             seq |-> NextSeq] \in Entry
        BY <3>2 DEF Entry, NextSeq, TypeOK
      <3>4. QED
        BY <3>1, <3>3 DEF Moved, StrayedMoved, TypeOK
    <2>12. CASE ApplyRename
      <3>1. entries' \in [Paths -> Entry \cup {None}]
        BY <2>11, <2>12 DEF ApplyRename
      <3>2. CurrentOp.path \in Paths
        BY <2>12, CurrentOpType DEF ApplyRename, Op
      <3>3. legacy' \in [Paths -> Digests \cup {None}]
        BY <2>12, <3>2 DEF ApplyRename, TypeOK
      <3>4. strayed' \subseteq Paths
        BY <2>11, <2>12 DEF ApplyRename
      <3>5. QED
        BY <2>12, <3>1, <3>3, <3>4, JournalledType
           DEF ApplyRename, Journalled, TypeOK, hostVars
    <2>13. CASE RenameFault
      BY <2>11, <2>13 DEF RenameFault, TypeOK, hostVars
    <2>14. CASE CommitFinish
      <3>1. work \in Commit
        BY <2>14 DEF CommitFinish, TypeOK
      <3>2. [ops |-> work.ops, verdicts |-> work.verdicts, seq |-> Len(journal)] \in Receipt
        BY <3>1 DEF Commit, Receipt, TypeOK
      <3>3. QED
        BY <2>14, <3>1, <3>2 DEF CommitFinish, TypeOK, hostVars
    <2>15. ASSUME NEW r \in LegacyRequests, LegacyStep(r)
           PROVE  TypeOK'
      BY <2>15, LegacyStepKeeps, LegacyStepType DEF TypeOK
    <2>16. CASE UNCHANGED vars
      BY <2>16 DEF vars, TypeOK
    <2>17. QED
      BY <2>1, <2>2, <2>3, <2>4, <2>5, <2>6, <2>7, <2>8, <2>9, <2>10, <2>12, <2>13,
         <2>14, <2>15, <2>16
         DEF Next, HostStep, CommitStep
  <1>3. QED
    BY <1>1, <1>2, PTL DEF Spec

-----------------------------------------------------------------------------
(* Stored content: StorageInv is inductive. *)

(* A file put of the commit under way carries a whole, stored version. *)
LEMMA PutIsStored ==
  ASSUME TypeOK, StorageInv, OpPending, IsFilePut(CurrentOp)
  PROVE  /\ CurrentOp.digest \in Digests
         /\ CurrentOp.digest \in cas
         /\ CurrentOp.digest \notin SparseDigests
  <1>1. work \in Commit /\ WellFormedOp(CurrentOp) /\ CurrentOp \in Op
    BY CurrentOpType
  <1>2. CurrentOp.digest \in FileDigests(work.ops)
    BY DEF FileDigests, OpPending, CurrentOp
  <1>3. QED
    BY <1>1, <1>2 DEF StorageInv, OpPending, TypeOK

(* What StorageInv says of one path, and of the journal. *)
StoredAt(p) ==
  /\ FileAt(p) => entries[p].digest \in cas /\ entries[p].digest # None
  /\ FileAt(p) /\ entries[p].digest \notin SparseDigests /\ p \notin strayed
       => legacy[p] = entries[p].digest
  /\ legacy[p] \notin SparseDigests
  /\ legacy[p] # None => legacy[p] \in cas

RecordStored(c) ==
  /\ c.op # "delete" /\ c.digest # None => c.digest \in cas
  /\ c.blocks # None => c.blocks \in cas

JournalStored == \A i \in DOMAIN journal : RecordStored(journal[i])

WorkStored == work # None => FileDigests(work.ops) \subseteq cas \ SparseDigests

LEMMA StorageByPath ==
  StorageInv <=> (\A p \in Paths : StoredAt(p)) /\ JournalStored /\ WorkStored
  BY DEF StorageInv, LegacyServesVersion, ContentStored, StoredAt, JournalStored, RecordStored,
         WorkStored

(* The loop keeps the operations it works on. *)
LEMMA WorkStoredKept ==
  ASSUME WorkStored, OpPending, NEW v, NextOp(v), cas' = cas
  PROVE  WorkStored'
  <1>1. work'.ops = work.ops
    BY DEF NextOp
  <1>2. QED
    BY <1>1 DEF WorkStored, OpPending, FileDigests

(* A record whose versions are stored keeps the journal's versions stored. *)
LEMMA JournalStoredKept ==
  ASSUME TypeOK, JournalStored, NEW r, journal' = Append(journal, r), cas \subseteq cas',
         r.op # "delete" /\ r.digest # None => r.digest \in cas',
         r.blocks # None => r.blocks \in cas'
  PROVE  JournalStored'
  BY DEF JournalStored, RecordStored, TypeOK

(* What a legacy request stores and serves is stored, and of its own path. *)
LEMMA LegacyStepStores ==
  ASSUME TypeOK, \A p \in Paths : StoredAt(p), NEW r \in LegacyRequests, LegacyStep(r),
         NEW p \in Paths
  PROVE  StoredAt(p)' /\ cas \subseteq cas'
  <1>1. /\ r \in LegacyRequest /\ WellFormedLegacy(r) /\ r.path \in Paths
        /\ None \notin SparseDigests
    BY DEF LegacyRequest
  <1>2. StoredAt(p) /\ StoredAt(r.path) /\ entries'[p] = entries[p]
    BY <1>1, LegacyStepKeeps
  <1>3. CASE LegacyPut(r)
    <2>1. r.digest \notin SparseDigests
      BY <1>1, <1>3 DEF LegacyPut, LegacyRequest, WellFormedLegacy
    <2>2. QED
      BY <1>1, <1>2, <1>3, <2>1 DEF LegacyPut, StoredAt, FileAt, TypeOK
  <1>4. CASE LegacyDelete(r)
    BY <1>1, <1>2, <1>4 DEF LegacyDelete, StoredAt, FileAt, TypeOK
  <1>5. CASE LegacyRename(r)
    BY <1>1, <1>2, <1>5 DEF LegacyRename, StoredAt, FileAt, TypeOK
  <1>6. CASE LegacyPublish(r)
    <2>1. r.digest \notin SparseDigests
      BY <1>1, <1>6 DEF LegacyPublish, LegacyRequest, WellFormedLegacy
    <2>2. QED
      BY <1>1, <1>2, <1>6, <2>1 DEF LegacyPublish, StoredAt, FileAt, TypeOK
  <1>7. QED
    BY <1>3, <1>4, <1>5, <1>6 DEF LegacyStep

LEMMA StorageStep ==
  ASSUME TypeOK, StorageInv, [Next]_vars
  PROVE  StorageInv'
  <1>0. (\A p \in Paths : StoredAt(p)) /\ JournalStored /\ WorkStored
    BY StorageByPath
  <1> SUFFICES (\A p \in Paths : StoredAt(p)') /\ JournalStored' /\ WorkStored'
    BY DEF StorageInv, LegacyServesVersion, ContentStored, StoredAt, JournalStored,
           RecordStored, WorkStored
  <1>1. ASSUME NEW h \in Hosts, HostStep(h)
        PROVE  (\A p \in Paths : StoredAt(p)') /\ JournalStored' /\ WorkStored'
    <2>1. UNCHANGED fabricVars
      BY <1>1 DEF HostStep, Attach, LeaseLapses, Heartbeat, Transition
    <2>2. QED
      BY <1>0, <2>1 DEF fabricVars, StoredAt, FileAt, JournalStored, RecordStored,
           WorkStored
  <1>2. ASSUME NEW d \in Digests, Upload(d)
        PROVE  (\A p \in Paths : StoredAt(p)') /\ JournalStored' /\ WorkStored'
    BY <1>0, <1>2 DEF Upload, StoredAt, FileAt, JournalStored, RecordStored,
           WorkStored
  <1>3. ASSUME NEW x \in Seeds, Seed(x[1], x[2])
        PROVE  (\A p \in Paths : StoredAt(p)') /\ JournalStored' /\ WorkStored'
    <2>1. x[1] \in Paths /\ x[2] \in Digests /\ x[2] # None
      BY <1>3
    <2>2. ASSUME NEW p \in Paths
          PROVE  StoredAt(p)'
      <3>1. CASE p = x[1]
        <4>1. entries'[p] = [kind |-> "file", digest |-> x[2], seq |-> NextSeq]
          BY <1>3, <3>1 DEF Seed, TypeOK
        <4>2. entries'[p] \in Entry
          BY <2>1, <4>1 DEF Entry, Kinds, NextSeq, TypeOK
        <4>3. StoredAt(p) /\ cas \subseteq cas'
          BY <1>0, <1>3 DEF Seed
        <4>4. legacy'[p] = IF x[2] \in SparseDigests THEN legacy[p] ELSE x[2]
          BY <1>3, <3>1 DEF Seed, TypeOK
        <4>5. entries'[p] # None /\ entries'[p].digest = x[2] /\ x[2] \in cas'
          BY <1>3, <4>1, <4>2 DEF Seed
        <4>6. QED
          BY <2>1, <4>3, <4>4, <4>5 DEF StoredAt
      <3>2. CASE p # x[1]
        <4>1. /\ entries'[p] = entries[p] /\ legacy'[p] = legacy[p] /\ cas \subseteq cas'
              /\ p \in strayed' <=> p \in strayed
          BY <1>3, <3>2 DEF Seed, TypeOK
        <4>2. StoredAt(p)
          BY <1>0
        <4>3. QED
          BY <4>1, <4>2 DEF StoredAt, FileAt
      <3>3. QED
        BY <3>1, <3>2
    <2>3. JournalStored'
      BY <1>0, <1>3, <2>1, JournalStoredKept DEF Seed, SeedRecord
    <2>4. WorkStored'
      BY <1>0, <1>3 DEF Seed, WorkStored
    <2>5. QED
      BY <2>2, <2>3, <2>4
  <1>4. ASSUME NEW h \in Hosts, CommitRequest(h)
        PROVE  (\A p \in Paths : StoredAt(p)') /\ JournalStored' /\ WorkStored'
    <2>1. PICK g \in 1..MaxGen, m \in Mutations, ops \in Batches :
            \E inline \in SUBSET FileDigests(ops) :
              \/ CommitStagesOnly(h, g, m, ops, inline)
              \/ CommitBegin(h, g, m, ops, inline)
      BY <1>4 DEF CommitRequest
    <2>2. PICK inline \in SUBSET FileDigests(ops) :
            \/ CommitStagesOnly(h, g, m, ops, inline)
            \/ CommitBegin(h, g, m, ops, inline)
      BY <2>1
    <2>3. CASE CommitStagesOnly(h, g, m, ops, inline)
      BY <1>0, <2>3 DEF CommitStagesOnly, StoredAt, FileAt, JournalStored, RecordStored,
           WorkStored
    <2>4. CASE CommitBegin(h, g, m, ops, inline)
      <3>1. WorkStored'
        BY <2>4 DEF CommitBegin, Fresh, WorkStored, FileDigests
      <3>2. QED
        BY <1>0, <2>4, <3>1 DEF CommitBegin, StoredAt, FileAt, JournalStored, RecordStored
    <2>5. QED
      BY <2>2, <2>3, <2>4
  <1>5. CASE RejectOp
    <2>1. WorkStored'
      BY <1>0, <1>5, WorkStoredKept DEF RejectOp
    <2>2. QED
      BY <1>0, <1>5, <2>1 DEF RejectOp, StoredAt, FileAt, JournalStored, RecordStored
  <1>6. CASE ApplyPut
    <2>1. /\ OpPending /\ Journalled
          /\ CurrentOp \in Op /\ WellFormedOp(CurrentOp) /\ CurrentOp.op = "put"
          /\ cas' = cas
      BY <1>6, CurrentOpType DEF ApplyPut, Journalled
    <2>2. CurrentOp.kind = "file" => /\ CurrentOp.digest \in Digests \cap cas
                                     /\ CurrentOp.digest \notin SparseDigests
      BY <2>1, PutIsStored DEF IsFilePut
    <2>3. CurrentOp.digest # None => CurrentOp.kind = "file"
      BY <2>1 DEF WellFormedOp, IsFilePut
    <2>4. JournalStored'
      <3>1. /\ RecordOf(CurrentOp, work.key.mutation).digest = CurrentOp.digest
            /\ RecordOf(CurrentOp, work.key.mutation).blocks = BlocksSent(CurrentOp)
        BY <2>1 DEF RecordOf
      <3>2. BlocksSent(CurrentOp) # None => BlocksSent(CurrentOp) \in cas
        BY <2>1, <2>2 DEF BlocksSent, IsFilePut
      <3>3. QED
        BY <1>0, <2>1, <2>2, <2>3, <3>1, <3>2, JournalStoredKept DEF Journalled
    <2>5. ASSUME NEW p \in Paths
          PROVE  StoredAt(p)'
      <3>1. StoredAt(p)
        BY <1>0
      <3>2. CASE p = CurrentOp.path
        <4>0. p # CurrentOp.source
          BY <2>1, <3>2 DEF WellFormedOp, Related
        <4>1. entries'[p] = [kind |-> CurrentOp.kind, digest |-> CurrentOp.digest, seq |-> NextSeq]
          BY <1>6, <3>2, <4>0 DEF ApplyPut
        <4>2. [kind |-> CurrentOp.kind, digest |-> CurrentOp.digest, seq |-> NextSeq] \in Entry
          BY <2>1 DEF Entry, Op, WellFormedOp, NextSeq, TypeOK
        <4>3. entries'[p] # None /\ entries'[p].kind = CurrentOp.kind
                                 /\ entries'[p].digest = CurrentOp.digest
          BY <4>1, <4>2
        <4>4. CASE CurrentOp.kind = "file"
          <5>1. legacy'[p] = CurrentOp.digest
            BY <1>6, <3>2, <4>0, <4>4 DEF ApplyPut
          <5>2. QED
            BY <2>1, <2>2, <4>3, <4>4, <5>1 DEF StoredAt, FileAt
        <4>5. CASE CurrentOp.kind # "file"
          <5>1. legacy'[p] = legacy[p]
            BY <1>6, <3>2, <4>0, <4>5 DEF ApplyPut
          <5>2. QED
            BY <2>1, <3>1, <4>3, <4>5, <5>1 DEF StoredAt, FileAt
        <4>6. QED
          BY <4>4, <4>5
      <3>3. CASE p # CurrentOp.path /\ p = CurrentOp.source
        <4>1. entries'[p] = None /\ legacy'[p] = None
          BY <1>6, <3>3 DEF ApplyPut
        <4>2. QED
          BY <4>1 DEF StoredAt, FileAt
      <3>4. CASE p # CurrentOp.path /\ p # CurrentOp.source
        <4>1. /\ entries'[p] = entries[p] /\ legacy'[p] = legacy[p]
              /\ p \in strayed' <=> p \in strayed
          BY <1>6, <3>4 DEF ApplyPut
        <4>2. QED
          BY <2>1, <3>1, <4>1 DEF StoredAt, FileAt
      <3>5. QED
        BY <3>2, <3>3, <3>4
    <2>6. WorkStored'
      BY <1>0, <2>1, WorkStoredKept DEF Journalled
    <2>7. QED
      BY <2>4, <2>5, <2>6
  <1>7. CASE ApplyDelete
    <2>1. OpPending /\ Journalled /\ CurrentOp.op = "delete" /\ cas' = cas
      BY <1>7 DEF ApplyDelete, Journalled
    <2>2. JournalStored'
      <3>1. /\ RecordOf(CurrentOp, work.key.mutation).op = "delete"
            /\ RecordOf(CurrentOp, work.key.mutation).blocks = None
        BY <2>1 DEF RecordOf, BlocksSent, IsFilePut
      <3>2. QED
        BY <1>0, <2>1, <3>1, JournalStoredKept DEF Journalled
    <2>3. \A p \in Paths : StoredAt(p)'
      BY <1>0, <1>7, <2>1 DEF ApplyDelete, StoredAt, FileAt, TypeOK
    <2>4. WorkStored'
      BY <1>0, <2>1, WorkStoredKept DEF Journalled
    <2>5. QED
      BY <2>2, <2>3, <2>4
  <1>8. CASE DeleteUnsupported
    BY <1>0, <1>8 DEF DeleteUnsupported, StoredAt, FileAt, JournalStored, RecordStored,
           WorkStored
  <1>9. ASSUME OpPending, CurrentOp.op = "rename", ~ Diverged(CurrentOp),
               entries' = Moved(CurrentOp), cas' = cas,
               strayed' = StrayedMoved(CurrentOp),
               \/ legacy' = [legacy EXCEPT ![CurrentOp.dest] = legacy[CurrentOp.path],
                                           ![CurrentOp.path] = None]
               \/ legacy' = legacy /\ legacy[CurrentOp.path] = None
        PROVE  \A p \in Paths : StoredAt(p)'
    <2>1. PICK p \in Paths, q \in Paths : p = CurrentOp.path /\ q = CurrentOp.dest
      BY <1>9, CurrentOpType DEF Op
    <2>2. p # q
      BY <1>9, <2>1, CurrentOpType DEF WellFormedOp, Related
    <2>0. StoredAt(q)
      BY <1>0
    <2>3. FileAt(p) /\ entries[p] \in Entry /\ StoredAt(p)
      BY <1>0, <1>9, <2>1 DEF Diverged, FileAt, TypeOK
    <2>4. StoredAt(q)'
      <3>1. entries'[q] = [kind |-> entries[p].kind, digest |-> entries[p].digest, seq |-> NextSeq]
        BY <1>9, <2>1, <2>2 DEF Moved
      <3>2. entries'[q] \in Entry
        BY <2>3, <3>1 DEF Entry, NextSeq, TypeOK
      <3>3. /\ entries'[q] # None /\ entries'[q].kind = entries[p].kind
            /\ entries'[q].digest = entries[p].digest
        BY <3>1, <3>2
      <3>4. q \notin strayed' => p \notin strayed
        BY <1>9, <2>1, <2>2 DEF StrayedMoved
      <3>5. CASE legacy'[q] = legacy[p]
        BY <1>9, <2>3, <3>3, <3>4, <3>5 DEF StoredAt, FileAt
      <3>6. CASE legacy' = legacy /\ legacy[p] = None
        BY <1>9, <2>0, <2>3, <3>3, <3>4, <3>6 DEF StoredAt, FileAt
      <3>7. QED
        BY <1>9, <2>1, <2>2, <3>5, <3>6 DEF TypeOK
    <2>5. StoredAt(p)'
      <3>1. entries'[p] = None /\ legacy'[p] = None
        BY <1>9, <2>1, <2>2 DEF Moved, TypeOK
      <3>2. QED
        BY <3>1 DEF StoredAt, FileAt
    <2>6. ASSUME NEW r \in Paths, r # p, r # q
          PROVE  StoredAt(r)'
      <3>1. /\ entries'[r] = entries[r] /\ legacy'[r] = legacy[r]
            /\ r \in strayed' <=> r \in strayed
        BY <1>9, <2>1, <2>6 DEF Moved, StrayedMoved, TypeOK
      <3>2. QED
        BY <1>0, <1>9, <3>1 DEF StoredAt, FileAt
    <2>7. QED
      BY <2>4, <2>5, <2>6
  <1>10. CASE ApplyRename
    <2>1. /\ OpPending /\ Journalled /\ CurrentOp.op = "rename" /\ ~ Diverged(CurrentOp)
          /\ cas' = cas
      BY <1>10 DEF ApplyRename, Journalled
    <2>2. CurrentOp.path \in Paths
      BY <2>1, CurrentOpType DEF Op
    <2>3. JournalStored'
      <3>1. /\ RecordOf(CurrentOp, work.key.mutation).digest = entries[CurrentOp.path].digest
            /\ RecordOf(CurrentOp, work.key.mutation).blocks = legacy[CurrentOp.path]
        BY <2>1, <2>2 DEF RecordOf, DigestAt, Diverged, FileAt
      <3>2. /\ entries[CurrentOp.path].digest \in cas
            /\ legacy[CurrentOp.path] # None => legacy[CurrentOp.path] \in cas
        BY <1>0, <2>1, <2>2 DEF StoredAt, Diverged
      <3>3. QED
        BY <1>0, <2>1, <3>1, <3>2, JournalStoredKept DEF Journalled
    <2>4. \A p \in Paths : StoredAt(p)'
      BY <1>9, <1>10, <2>1 DEF ApplyRename
    <2>5. WorkStored'
      BY <1>0, <2>1, WorkStoredKept DEF Journalled
    <2>6. QED
      BY <2>3, <2>4, <2>5
  <1>11. CASE RenameFault
    <2>1. /\ OpPending /\ CurrentOp.op = "rename" /\ ~ Diverged(CurrentOp)
          /\ legacy[CurrentOp.path] = None /\ cas' = cas /\ legacy' = legacy
      BY <1>11 DEF RenameFault
    <2>2. \A p \in Paths : StoredAt(p)'
      BY <1>9, <1>11, <2>1 DEF RenameFault
    <2>3. QED
      BY <1>0, <1>11, <2>2 DEF RenameFault, JournalStored, RecordStored, WorkStored
  <1>12. CASE CommitFinish
    BY <1>0, <1>12 DEF CommitFinish, StoredAt, FileAt, JournalStored, RecordStored,
           WorkStored
  <1>13. ASSUME NEW r \in LegacyRequests, LegacyStep(r)
         PROVE  (\A p \in Paths : StoredAt(p)') /\ JournalStored' /\ WorkStored'
    <2>1. journal' = journal /\ work' = None
      BY <1>13, LegacyStepKeeps
    <2>2. Paths = {} => UNCHANGED cas
      BY <1>13 DEF LegacyRequest
    <2>3. cas \subseteq cas'
      BY <1>0, <1>13, <2>2, LegacyStepStores
    <2>4. QED
      BY <1>0, <1>13, <2>1, <2>3, LegacyStepStores DEF JournalStored, RecordStored, WorkStored
  <1>14. CASE UNCHANGED vars
    BY <1>0, <1>14 DEF vars, StoredAt, FileAt, JournalStored, RecordStored,
           WorkStored
  <1>15. QED
    BY <1>1, <1>2, <1>3, <1>4, <1>5, <1>6, <1>7, <1>8, <1>10, <1>11, <1>12, <1>13, <1>14
       DEF Next, CommitStep

LEMMA RoomLeftStep ==
  ASSUME TypeOK, RoomLeft, [Next]_vars
  PROVE  RoomLeft'
  <1>1. ASSUME NEW h \in Hosts, HostStep(h)
        PROVE  RoomLeft'
    BY <1>1 DEF HostStep, Attach, LeaseLapses, Heartbeat, Transition, fabricVars, RoomLeft
  <1>2. ASSUME NEW d \in Digests, Upload(d)
        PROVE  RoomLeft'
    BY <1>2 DEF Upload, RoomLeft
  <1>3. ASSUME NEW x \in Seeds, Seed(x[1], x[2])
        PROVE  RoomLeft'
    BY <1>3 DEF Seed, LockFree, RoomLeft
  <1>4. ASSUME NEW h \in Hosts, CommitRequest(h)
        PROVE  RoomLeft'
    <2>1. PICK g \in 1..MaxGen, m \in Mutations, ops \in Batches :
            \E inline \in SUBSET FileDigests(ops) :
              \/ CommitStagesOnly(h, g, m, ops, inline)
              \/ CommitBegin(h, g, m, ops, inline)
      BY <1>4 DEF CommitRequest
    <2>2. Len(ops) \in Nat
      BY BatchesAreOps
    <2>3. QED
      BY <2>1, <2>2 DEF CommitStagesOnly, CommitBegin, Fresh, LockFree, RoomLeft, TypeOK
  <1>5. CASE RejectOp \/ ApplyPut \/ ApplyDelete \/ ApplyRename
    <2>1. work \in Commit /\ work.ops \in Seq(Op) /\ work.next \in Nat
      BY <1>5, CurrentOpType, BatchesAreOps
         DEF RejectOp, ApplyPut, ApplyDelete, ApplyRename, Commit
    <2>2. work # None /\ work'.ops = work.ops /\ work'.next = work.next + 1
      BY <1>5 DEF RejectOp, ApplyPut, ApplyDelete, ApplyRename, Journalled, NextOp, OpPending
    <2>3. Len(journal') <= Len(journal) + 1 /\ Len(journal') \in Nat
      BY <1>5 DEF RejectOp, ApplyPut, ApplyDelete, ApplyRename, Journalled, TypeOK
    <2>4. QED
      BY <2>1, <2>2, <2>3 DEF RoomLeft, TypeOK
  <1>6. CASE DeleteUnsupported \/ RenameFault \/ CommitFinish
    BY <1>6 DEF DeleteUnsupported, RenameFault, CommitFinish, RoomLeft
  <1>7. ASSUME NEW r \in LegacyRequests, LegacyStep(r)
        PROVE  RoomLeft'
    BY <1>7, LegacyStepKeeps DEF RoomLeft
  <1>8. CASE UNCHANGED vars
    BY <1>8 DEF vars, RoomLeft
  <1>9. QED
    BY <1>1, <1>2, <1>3, <1>4, <1>5, <1>6, <1>7, <1>8 DEF Next, CommitStep

(* A clean rename never finds its bytes missing. *)
LEMMA NoRenameFault ==
  ASSUME CleanRenames, TypeOK, RenamesFindBytes
  PROVE  ~ RenameFault
  <1> SUFFICES ASSUME RenameFault
               PROVE  FALSE
    OBVIOUS
  <1>1. PICK o : o = CurrentOp
    OBVIOUS
  <1>2. /\ OpPending /\ o.op = "rename" /\ ~ Diverged(o) /\ legacy[o.path] = None
        /\ o \in Op /\ o.path \in Paths
    BY <1>1, CurrentOpType DEF RenameFault, Op
  <1>3. o \in BatchOps
    <2>1. work.ops \in Batches /\ o \in {work.ops[i] : i \in DOMAIN work.ops}
      BY <1>1, <1>2, CurrentOpType DEF Commit, CurrentOp, OpPending
    <2>2. QED
      BY <2>1 DEF BatchOps
  <1>4. /\ FileAt(o.path) /\ entries[o.path].digest = o.prev /\ o.prev \notin SparseDigests
        /\ o.path \notin LegacyRemoves
    BY <1>2, <1>3 DEF Diverged, DigestAt, FileAt, CleanRenames
  <1>5. QED
    BY <1>2, <1>4 DEF RenamesFindBytes

(* A path that no legacy request may empty keeps the bytes of its file.    *)
LEMMA FindBytesStep ==
  ASSUME CleanRenames, TypeOK, StorageInv, RenamesFindBytes, [Next]_vars
  PROVE  RenamesFindBytes'
  <1> SUFFICES ASSUME NEW p \in Paths \ LegacyRemoves,
                      FileAt(p)', entries'[p].digest \notin SparseDigests
               PROVE  legacy'[p] # None
    BY DEF RenamesFindBytes
  <1>1. FileAt(p) /\ entries[p].digest \notin SparseDigests => legacy[p] # None
    BY DEF RenamesFindBytes
  <1>2. CASE UNCHANGED <<entries, legacy>>
    BY <1>1, <1>2 DEF FileAt
  <1>3. ASSUME NEW h \in Hosts, HostStep(h) \/ CommitRequest(h)
        PROVE  UNCHANGED <<entries, legacy>>
    BY <1>3 DEF HostStep, Attach, LeaseLapses, Heartbeat, Transition, fabricVars,
                CommitRequest, CommitStagesOnly, CommitBegin
  <1>4. ASSUME NEW d \in Digests, Upload(d)
        PROVE  UNCHANGED <<entries, legacy>>
    BY <1>4 DEF Upload
  <1>5. ASSUME NEW x \in Seeds, Seed(x[1], x[2])
        PROVE  legacy'[p] # None
    <2>1. x[1] \in Paths /\ x[2] \in Digests /\ x[2] # None
      BY <1>5
    <2>2. CASE p = x[1]
      <3>1. entries'[p] = [kind |-> "file", digest |-> x[2], seq |-> NextSeq]
        BY <1>5, <2>2 DEF Seed, TypeOK
      <3>2. x[2] \notin SparseDigests
        BY <3>1
      <3>3. QED
        BY <1>5, <2>1, <2>2, <3>2 DEF Seed, TypeOK
    <2>3. CASE p # x[1]
      <3>1. entries'[p] = entries[p] /\ legacy'[p] = legacy[p]
        BY <1>5, <2>3 DEF Seed, TypeOK
      <3>2. QED
        BY <1>1, <3>1 DEF FileAt
    <2>4. QED
      BY <2>2, <2>3
  <1>6. CASE ApplyPut
    <2>1. OpPending /\ CurrentOp \in Op /\ CurrentOp.op = "put" /\ WellFormedOp(CurrentOp)
      BY <1>6, CurrentOpType DEF ApplyPut
    <2>2. CASE p = CurrentOp.path
      <3>0. p # CurrentOp.source
        BY <2>1, <2>2 DEF WellFormedOp, Related
      <3>1. entries'[p] = [kind |-> CurrentOp.kind, digest |-> CurrentOp.digest, seq |-> NextSeq]
        BY <1>6, <2>2, <3>0 DEF ApplyPut
      <3>2. CurrentOp.kind = "file"
        BY <3>1 DEF FileAt
      <3>3. CurrentOp.digest # None
        BY <2>1, <3>2 DEF WellFormedOp, IsFilePut
      <3>4. QED
        BY <1>6, <2>2, <3>0, <3>2, <3>3 DEF ApplyPut
    <2>3. CASE p # CurrentOp.path /\ p # CurrentOp.source
      <3>1. entries'[p] = entries[p] /\ legacy'[p] = legacy[p]
        BY <1>6, <2>3 DEF ApplyPut
      <3>2. QED
        BY <1>1, <3>1 DEF FileAt
    <2>4. CASE p # CurrentOp.path /\ p = CurrentOp.source
      BY <1>6, <2>4 DEF ApplyPut, FileAt
    <2>5. QED
      BY <2>2, <2>3, <2>4
  <1>7. CASE ApplyDelete
    BY <1>1, <1>7 DEF ApplyDelete, FileAt, TypeOK
  <1>8. CASE ApplyRename
    <2>1. CurrentOp.path \in Paths /\ CurrentOp.dest \in Paths /\ CurrentOp.path # CurrentOp.dest
      BY <1>8, CurrentOpType DEF ApplyRename, Op, WellFormedOp, Related
    <2>2. CASE p = CurrentOp.dest
      BY <1>8, <2>1, <2>2 DEF ApplyRename, TypeOK
    <2>3. CASE p = CurrentOp.path
      BY <1>8, <2>1, <2>3 DEF ApplyRename, Moved, FileAt
    <2>4. CASE p # CurrentOp.dest /\ p # CurrentOp.path
      BY <1>1, <1>8, <2>1, <2>4 DEF ApplyRename, Moved, FileAt, TypeOK
    <2>5. QED
      BY <2>2, <2>3, <2>4
  <1>9. CASE RejectOp \/ DeleteUnsupported \/ CommitFinish
    BY <1>2, <1>9 DEF RejectOp, DeleteUnsupported, CommitFinish
  <1>10. ASSUME NEW r \in LegacyRequests, LegacyStep(r)
         PROVE  legacy'[p] # None
    <2>1. /\ r \in LegacyRequest /\ WellFormedLegacy(r) /\ FileAt(p)
          /\ legacy[p] # None
      BY <1>1, <1>10, LegacyStepKeeps DEF FileAt
    <2>2. r.op \in {"delete", "rename"} => r.path # p
      BY DEF LegacyRemoves
    <2>3. QED
      BY <1>10, <2>1, <2>2
         DEF LegacyStep, LegacyPut, LegacyDelete, LegacyRename, LegacyPublish, WellFormedLegacy,
             TypeOK
  <1>11. QED
    BY <1>2, <1>3, <1>4, <1>5, <1>6, <1>7, <1>8, <1>9, <1>10, NoRenameFault
       DEF Next, CommitStep, vars

(* The inductive invariant. *)
IInv == TypeOK /\ StorageInv /\ RoomLeft /\ (CleanRenames => RenamesFindBytes)

LEMMA IInvHolds == Spec => []IInv
  <1>1. Init => StorageInv /\ RoomLeft /\ RenamesFindBytes
    BY DEF Init, StorageInv, RoomLeft, RenamesFindBytes, LegacyServesVersion, ContentStored, FileAt
  <1>2. IInv /\ [Next]_vars => StorageInv' /\ RoomLeft' /\ (CleanRenames => RenamesFindBytes')
    BY StorageStep, RoomLeftStep, FindBytesStep DEF IInv
  <1>.  DEFINE FindBytes == CleanRenames => RenamesFindBytes
  <1>3. Init => FindBytes
    BY <1>1
  <1>4. IInv /\ [Next]_vars => FindBytes'
    BY <1>2 DEF CleanRenames
  <1>5. IInv <=> TypeOK /\ StorageInv /\ RoomLeft /\ FindBytes
    BY DEF IInv
  <1>. HIDE DEF FindBytes
  <1>6. QED
    BY <1>1, <1>2, <1>3, <1>4, <1>5, TypeCorrect, PTL DEF Spec

(* Beside the legacy writers of the same plane: every path the v2 handlers *)
(* wrote last serves the v2 version of its file in the legacy namespace,   *)
(* and no path ever serves the stored prefix of a sparse one.              *)
THEOREM LegacyIsV2 == Spec => []LegacyServesVersion
  BY IInvHolds, PTL DEF IInv, StorageInv

(* Every version a client may be told to fetch is stored. *)
THEOREM ContentIsStored == Spec => []ContentStored
  BY IInvHolds, PTL DEF IInv, StorageInv

-----------------------------------------------------------------------------
(* FabricV2 implements ChangeFeed. *)

LEMMA PublishedAre ==
  \A c : c \in Published <=> \/ \E o \in BatchOps, m \in Mutations : c \in RecordsFor(o, m)
                            \/ \E x \in Seeds : c = SeedRecord(x[1], x[2])
  BY DEF Published

LEMMA RecordIsOfItsOp ==
  ASSUME TypeOK, OpPending, ~ Diverged(CurrentOp),
         CurrentOp.op = "rename" => legacy[CurrentOp.path] # None
  PROVE  RecordOf(CurrentOp, work.key.mutation) \in RecordsFor(CurrentOp, work.key.mutation)
  <1>1. CurrentOp \in Op
    BY CurrentOpType
  <1>2. KindOf(CurrentOp) \in IF CurrentOp.kind = None THEN Kinds ELSE {CurrentOp.kind}
    BY <1>1, EntryFields DEF KindOf, Op, Kinds
  <1>3. PICK blocks : blocks = IF CurrentOp.op = "rename" THEN legacy[CurrentOp.path]
                               ELSE BlocksSent(CurrentOp)
    OBVIOUS
  <1>4. blocks \in IF CurrentOp.op = "rename" THEN Digests ELSE {BlocksSent(CurrentOp)}
    BY <1>1, <1>3 DEF TypeOK, Op
  <1>5. RecordOf(CurrentOp, work.key.mutation)
          = RecordFor(CurrentOp, KindOf(CurrentOp), blocks, work.key.mutation)
    BY <1>3 DEF RecordOf, RecordFor, Diverged
  <1>6. QED
    BY <1>2, <1>4, <1>5 DEF RecordsFor

LEMMA RecordIsPublished ==
  ASSUME TypeOK, OpPending, ~ Diverged(CurrentOp),
         CurrentOp.op = "rename" => legacy[CurrentOp.path] # None
  PROVE  RecordOf(CurrentOp, work.key.mutation) \in Published
  <1>1. /\ work \in Commit /\ work.key \in Key /\ CurrentOp \in Op
    BY CurrentOpType
  <1>2. work.ops \in Batches /\ CurrentOp \in {work.ops[i] : i \in DOMAIN work.ops}
    BY <1>1 DEF Commit, CurrentOp, OpPending
  <1>3. CurrentOp \in BatchOps
    BY <1>2 DEF BatchOps
  <1>4. work.key.mutation \in Mutations
    BY <1>1 DEF Key
  <1>5. QED
    BY <1>3, <1>4, RecordIsOfItsOp, PublishedAre

LEMMA RoomForOne ==
  ASSUME TypeOK, RoomLeft, OpPending
  PROVE  Len(journal) < MaxJournal
  <1>1. /\ work # None /\ work.next \in Nat /\ Len(work.ops) \in Nat
        /\ work.next <= Len(work.ops)
    BY CurrentOpType, BatchesAreOps DEF OpPending, Commit
  <1>2. QED
    BY <1>1 DEF RoomLeft, TypeOK

LEMMA PutPublishes ==
  ASSUME TypeOK, RoomLeft, ApplyPut
  PROVE  Feed!Publish(RecordOf(CurrentOp, work.key.mutation))
  <1>1. PICK o : o = CurrentOp
    OBVIOUS
  <1>2. PICK c : c = RecordOf(o, work.key.mutation)
    OBVIOUS
  <1>3. /\ OpPending /\ Journalled /\ o.op = "put" /\ ~ Diverged(o)
        /\ o \in Op /\ WellFormedOp(o)
    BY <1>1, CurrentOpType DEF ApplyPut
  <1>4. /\ c.op = "put" /\ c.path = o.path /\ c.kind = o.kind /\ c.digest = o.digest
        /\ c.prev = o.prev /\ c.dest = None /\ c.source = o.source /\ c.sprev = o.sprev
    BY <1>2, <1>3 DEF RecordOf, KindOf, WellFormedOp, Op
  <1>5. Feed!Permitted(entries, c)
    BY <1>3, <1>4 DEF Feed!Permitted, Feed!DigestOf, Feed!IsFile, Diverged, DigestAt, FileAt, Op
  <1>6. ASSUME NEW p \in Paths
        PROVE  entries'[p] = Feed!Applied(entries, c, Len(journal) + 1)[p]
    <2>1. o.path # o.source
      BY <1>3 DEF WellFormedOp, Related, Op
    <2>2. CASE p = o.path
      BY <1>1, <1>4, <2>1, <2>2 DEF ApplyPut, Feed!Applied, Feed!Fills, NextSeq
    <2>3. CASE p # o.path /\ p = o.source
      BY <1>1, <1>4, <2>1, <2>3 DEF ApplyPut, Feed!Applied, Feed!Fills, Feed!Touches
    <2>4. CASE p # o.path /\ p # o.source
      BY <1>1, <1>4, <2>4 DEF ApplyPut, Feed!Applied, Feed!Fills, Feed!Touches
    <2>5. QED
      BY <2>2, <2>3, <2>4
  <1>7. entries' = Feed!Applied(entries, c, Len(journal) + 1)
    BY <1>6 DEF ApplyPut, Feed!Applied
  <1>8. QED
    BY <1>1, <1>2, <1>3, <1>5, <1>7, RoomForOne DEF Feed!Publish, Journalled

LEMMA DeletePublishes ==
  ASSUME TypeOK, RoomLeft, ApplyDelete
  PROVE  Feed!Publish(RecordOf(CurrentOp, work.key.mutation))
  <1>1. PICK o : o = CurrentOp
    OBVIOUS
  <1>2. PICK c : c = RecordOf(o, work.key.mutation)
    OBVIOUS
  <1>3. /\ OpPending /\ Journalled /\ o.op = "delete" /\ ~ Diverged(o)
        /\ o \in Op /\ WellFormedOp(o) /\ ~ HasChildren(o.path)
    BY <1>1, CurrentOpType DEF ApplyDelete
  <1>4. /\ c.op = "delete" /\ c.path = o.path /\ c.prev = o.prev
        /\ c.dest = None /\ c.source = None
    BY <1>2, <1>3 DEF RecordOf, WellFormedOp, IsFilePut
  <1>5. Feed!Permitted(entries, c)
    BY <1>3, <1>4 DEF Feed!Permitted, Feed!DigestOf, Diverged, DigestAt, HasChildren
  <1>6. entries' = Feed!Applied(entries, c, Len(journal) + 1)
    <2>1. /\ entries' = [entries EXCEPT ![o.path] = None]
          /\ entries \in [Paths -> Entry \cup {None}]
          /\ o.path \in Paths
      BY <1>1, <1>3 DEF ApplyDelete, TypeOK, Op
    <2>2. \A p \in Paths : /\ ~ Feed!Fills(c, p)
                           /\ Feed!Touches(c, p) <=> p = o.path
      BY <1>4 DEF Feed!Fills, Feed!Touches
    <2>3. QED
      BY <2>1, <2>2 DEF Feed!Applied
  <1>7. QED
    BY <1>1, <1>2, <1>3, <1>5, <1>6, RoomForOne DEF Feed!Publish, Journalled

LEMMA RenamePublishes ==
  ASSUME CleanRenames, TypeOK, RoomLeft, ApplyRename
  PROVE  Feed!Publish(RecordOf(CurrentOp, work.key.mutation))
  <1>1. PICK o : o = CurrentOp
    OBVIOUS
  <1>2. PICK c : c = RecordOf(o, work.key.mutation)
    OBVIOUS
  <1>3. /\ OpPending /\ Journalled /\ o.op = "rename" /\ ~ Diverged(o)
        /\ o \in Op /\ WellFormedOp(o) /\ o.path \in Paths /\ o.dest \in Paths
    BY <1>1, CurrentOpType DEF ApplyRename, Op
  <1>4. o \in BatchOps
    <2>1. work.ops \in Batches /\ o \in {work.ops[i] : i \in DOMAIN work.ops}
      BY <1>1, <1>3, CurrentOpType DEF Commit, CurrentOp, OpPending
    <2>2. QED
      BY <2>1 DEF BatchOps
  <1>5. FileAt(o.path) /\ entries[o.path].digest = o.prev /\ entries[o.dest] = None
    BY <1>3 DEF Diverged, DigestAt, FileAt
  <1>6. KindOf(o) = "file"
    BY <1>3, <1>4, <1>5 DEF CleanRenames, KindOf, FileAt
  <1>7. /\ c.op = "rename" /\ c.path = o.path /\ c.kind = "file" /\ c.digest = o.prev
        /\ c.prev = o.prev /\ c.dest = o.dest /\ c.source = None
    BY <1>2, <1>3, <1>5, <1>6 DEF RecordOf, WellFormedOp, IsFilePut, DigestAt, FileAt
  <1>8. Feed!Permitted(entries, c)
    BY <1>3, <1>5, <1>7 DEF Feed!Permitted, Feed!DigestOf, Feed!IsFile, FileAt
  <1>9. o.path # o.dest
    BY <1>3 DEF WellFormedOp, Related
  <1>10. ASSUME NEW p \in Paths
         PROVE  entries'[p] = Feed!Applied(entries, c, Len(journal) + 1)[p]
    <2>1. entries[o.path].kind = "file" /\ entries[o.path].digest = o.prev
      BY <1>5 DEF FileAt
    <2>2. CASE p = o.dest
      BY <1>1, <1>7, <1>9, <2>1, <2>2 DEF ApplyRename, Moved, Feed!Applied, Feed!Fills, NextSeq
    <2>3. CASE p # o.dest /\ p = o.path
      BY <1>1, <1>7, <2>3 DEF ApplyRename, Moved, Feed!Applied, Feed!Fills, Feed!Touches
    <2>4. CASE p # o.dest /\ p # o.path
      BY <1>1, <1>7, <2>4 DEF ApplyRename, Moved, Feed!Applied, Feed!Fills, Feed!Touches
    <2>5. QED
      BY <2>2, <2>3, <2>4
  <1>11. entries' = Feed!Applied(entries, c, Len(journal) + 1)
    BY <1>10 DEF ApplyRename, Moved, Feed!Applied
  <1>12. QED
    BY <1>1, <1>2, <1>3, <1>8, <1>11, RoomForOne DEF Feed!Publish, Journalled

LEMMA SeedPublishes ==
  ASSUME TypeOK, NEW x \in Seeds, Seed(x[1], x[2])
  PROVE  Feed!Publish(SeedRecord(x[1], x[2]))
  <1>1. x[1] \in Paths
    OBVIOUS
  <1>2. PICK c : c = SeedRecord(x[1], x[2])
    OBVIOUS
  <1>3. /\ c.op = "put" /\ c.path = x[1] /\ c.kind = "file" /\ c.digest = x[2]
        /\ c.prev = None /\ c.dest = None /\ c.source = None
    BY <1>2 DEF SeedRecord
  <1>4. Feed!Permitted(entries, c)
    BY <1>1, <1>3 DEF Feed!Permitted, Feed!DigestOf, Seed
  <1>5. ASSUME NEW p \in Paths
        PROVE  entries'[p] = Feed!Applied(entries, c, Len(journal) + 1)[p]
    BY <1>1, <1>3 DEF Seed, Feed!Applied, Feed!Fills, Feed!Touches, NextSeq, TypeOK
  <1>6. entries' = Feed!Applied(entries, c, Len(journal) + 1)
    BY <1>1, <1>5 DEF Seed, Feed!Applied, TypeOK
  <1>7. QED
    BY <1>2, <1>4, <1>6 DEF Feed!Publish, Seed

LEMMA StepRefines ==
  ASSUME CleanRenames, IInv, [Next]_vars
  PROVE  [Feed!Next]_<<entries, journal>>
  <1> USE DEF IInv
  <1>1. ASSUME NEW h \in Hosts, HostStep(h)
        PROVE  UNCHANGED <<entries, journal>>
    BY <1>1 DEF HostStep, Attach, LeaseLapses, Heartbeat, Transition, fabricVars
  <1>2. ASSUME NEW h \in Hosts, CommitRequest(h)
        PROVE  UNCHANGED <<entries, journal>>
    BY <1>2 DEF CommitRequest, CommitStagesOnly, CommitBegin
  <1>3. ASSUME NEW d \in Digests, Upload(d)
        PROVE  UNCHANGED <<entries, journal>>
    BY <1>3 DEF Upload
  <1>4. ASSUME NEW x \in Seeds, Seed(x[1], x[2])
        PROVE  Feed!Next
    <2>1. SeedRecord(x[1], x[2]) \in Published
      BY PublishedAre
    <2>2. QED
      BY <1>4, <2>1, SeedPublishes DEF Feed!Next
  <1>5. CASE ApplyPut
    BY <1>5, PutPublishes, RecordIsPublished DEF Feed!Next, ApplyPut
  <1>6. CASE ApplyDelete
    BY <1>6, DeletePublishes, RecordIsPublished DEF Feed!Next, ApplyDelete
  <1>7. CASE ApplyRename
    BY <1>7, RenamePublishes, RecordIsPublished DEF Feed!Next, ApplyRename
  <1>8. CASE RejectOp \/ DeleteUnsupported \/ CommitFinish
    BY <1>8 DEF RejectOp, DeleteUnsupported, CommitFinish
  <1>9. ASSUME NEW r \in LegacyRequests, LegacyStep(r)
        PROVE  UNCHANGED <<entries, journal>>
    BY <1>9, LegacyStepKeeps
  <1>10. CASE UNCHANGED vars
    BY <1>10 DEF vars
  <1>11. QED
    BY <1>1, <1>2, <1>3, <1>4, <1>5, <1>6, <1>7, <1>8, <1>9, <1>10, NoRenameFault
       DEF Next, CommitStep

(* The commit handler and the seeds implement the change feed, whatever    *)
(* legacy requests write beside them, for clients that rename only whole   *)
(* files whose legacy bytes no legacy request takes away.                  *)
THEOREM FabricImplementsFeed == CleanRenames => (Spec => ImplementsFeed)
  <1> SUFFICES ASSUME CleanRenames
               PROVE  Spec => ImplementsFeed
    OBVIOUS
  <1>1. Init => Feed!Init
    BY DEF Init, Feed!Init
  <1>2. IInv /\ [Next]_vars => [Feed!Next]_(Feed!feed)
    BY StepRefines DEF Feed!feed
  <1>3. QED
    BY <1>1, <1>2, IInvHolds, PTL DEF Spec, ImplementsFeed, Feed!Spec

(* What is proved of the feed holds of the fabric. *)
FeedFacts == INSTANCE ChangeFeed_proofs WITH
  Ids <- Mutations \cup {SeedId},
  Changes <- Published

LEMMA FeedAssumptionHolds == FeedFacts!FeedAssumption
  <1>1. Published \subseteq Feed!Change
    <2>1. ASSUME NEW o \in BatchOps
          PROVE  o \in Op
      BY <2>1, BatchesAreOps DEF BatchOps
    <2>2. ASSUME NEW o \in BatchOps, NEW m \in Mutations, NEW c \in RecordsFor(o, m)
          PROVE  c \in Feed!Change
      <3>1. PICK kind \in IF o.kind = None THEN Kinds ELSE {o.kind},
                 blocks \in IF o.op = "rename" THEN Digests ELSE {BlocksSent(o)} :
                   c = RecordFor(o, kind, blocks, m)
        BY DEF RecordsFor
      <3>2. o \in Op /\ kind \in Kinds /\ blocks \in Digests \cup {None}
        BY <2>1, <3>1 DEF Op, BlocksSent
      <3>3. QED
        BY <3>1, <3>2 DEF RecordFor, Op, Feed!Change, Feed!Kinds, Kinds
    <2>3. ASSUME NEW x \in Seeds
          PROVE  SeedRecord(x[1], x[2]) \in Feed!Change
      BY DEF SeedRecord, Feed!Change, Feed!Kinds
    <2>4. QED
      BY <2>2, <2>3, PublishedAre
  <1>2. QED
    BY <1>1 DEF FeedFacts!FeedAssumption, Feed!Change, FeedFacts!Change, Feed!Kinds, FeedFacts!Kinds, FeedFacts!Entry, Entry, Kinds

(* The two instances of ChangeFeed say the same. *)
LEMMA SameFeed ==
  /\ Feed!Init <=> FeedFacts!Init
  /\ [Feed!Next]_(Feed!feed) <=> [FeedFacts!Next]_(FeedFacts!feed)
  /\ NamespaceIsJournal <=> FeedFacts!NamespaceIsJournal
  /\ NoLostUpdate <=> FeedFacts!NoLostUpdate
  <1>1. Feed!Init <=> FeedFacts!Init
    BY DEF Feed!Init, FeedFacts!Init
  <1>2. ASSUME NEW c \in Published
        PROVE  Feed!Publish(c) <=> FeedFacts!Publish(c)
    <2>1. Feed!Applied(entries, c, Len(journal) + 1) = FeedFacts!Applied(entries, c, Len(journal) + 1)
      BY DEF Feed!Applied, FeedFacts!Applied, Feed!Fills, FeedFacts!Fills,
             Feed!Touches, FeedFacts!Touches
    <2>2. Feed!Permitted(entries, c) <=> FeedFacts!Permitted(entries, c)
      BY DEF Feed!Permitted, FeedFacts!Permitted, Feed!DigestOf, FeedFacts!DigestOf,
             Feed!IsFile, FeedFacts!IsFile
    <2>3. QED
      BY <2>1, <2>2 DEF Feed!Publish, FeedFacts!Publish
  <1>3. [Feed!Next]_(Feed!feed) <=> [FeedFacts!Next]_(FeedFacts!feed)
    BY <1>2 DEF Feed!Next, FeedFacts!Next, Feed!feed, FeedFacts!feed
  <1>4. ASSUME NEW i, NEW p, NEW n
        PROVE  Feed!LeftAt(i, p, n) <=> FeedFacts!LeftAt(i, p, n)
    BY DEF Feed!LeftAt, FeedFacts!LeftAt, Feed!Fills, FeedFacts!Fills,
           Feed!Touches, FeedFacts!Touches
  <1>5. NamespaceIsJournal <=> FeedFacts!NamespaceIsJournal
    BY <1>4 DEF NamespaceIsJournal, Feed!NamespaceIsJournal, FeedFacts!NamespaceIsJournal
  <1>6. NoLostUpdate <=> FeedFacts!NoLostUpdate
    BY <1>4 DEF NoLostUpdate, Feed!NoLostUpdate, FeedFacts!NoLostUpdate,
                Feed!PredecessorsHeld, FeedFacts!PredecessorsHeld
  <1>7. QED
    BY <1>1, <1>3, <1>5, <1>6

(* What a snapshot serves is what the journal describes, for clients that  *)
(* rename only whole files that have their bytes.                          *)
THEOREM SnapshotIsJournal == CleanRenames => (Spec => []NamespaceIsJournal)
  <1>1. FeedFacts!Spec => []FeedFacts!NamespaceIsJournal
    BY FeedFacts!FeedNamespaceIsJournal, FeedAssumptionHolds
  <1>2. QED
    BY <1>1, SameFeed, FabricImplementsFeed, PTL DEF ImplementsFeed, Feed!Spec, FeedFacts!Spec

(* No commit overwrites a version it did not name. *)
THEOREM CommitsLoseNoUpdate == CleanRenames => (Spec => []NoLostUpdate)
  <1>1. FeedFacts!Spec => []FeedFacts!NoLostUpdate
    BY FeedFacts!FeedLosesNoUpdate, FeedAssumptionHolds
  <1>2. QED
    BY <1>1, SameFeed, FabricImplementsFeed, PTL DEF ImplementsFeed, Feed!Spec, FeedFacts!Spec

-----------------------------------------------------------------------------
(* The generation fence and exact replay. *)

LEMMA WorkFencedStep ==
  ASSUME TypeOK, WorkFenced, [Next]_vars
  PROVE  WorkFenced'
  <1>1. ASSUME NEW h \in Hosts, HostStep(h)
        PROVE  WorkFenced'
    <2>1. CASE work = None
      BY <1>1, <2>1 DEF HostStep, Attach, LeaseLapses, Heartbeat, Transition, fabricVars, WorkFenced
    <2>2. CASE work # None
      BY <1>1, <2>2 DEF HostStep, Attach, LeaseLapses, Heartbeat, Transition, LockFree,
                        fabricVars, WorkFenced
    <2>3. QED
      BY <2>1, <2>2
  <1>2. ASSUME NEW d \in Digests, Upload(d)
        PROVE  WorkFenced'
    BY <1>2 DEF Upload, hostVars, WorkFenced
  <1>3. ASSUME NEW x \in Seeds, Seed(x[1], x[2])
        PROVE  WorkFenced'
    BY <1>3 DEF Seed, LockFree, WorkFenced
  <1>4. ASSUME NEW h \in Hosts, CommitRequest(h)
        PROVE  WorkFenced'
    <2>1. PICK g \in 1..MaxGen, m \in Mutations, ops \in Batches :
            \E inline \in SUBSET FileDigests(ops) :
              \/ CommitStagesOnly(h, g, m, ops, inline)
              \/ CommitBegin(h, g, m, ops, inline)
      BY <1>4 DEF CommitRequest
    <2>2. PICK inline \in SUBSET FileDigests(ops) :
            \/ CommitStagesOnly(h, g, m, ops, inline)
            \/ CommitBegin(h, g, m, ops, inline)
      BY <2>1
    <2>3. CASE CommitStagesOnly(h, g, m, ops, inline)
      BY <2>3 DEF CommitStagesOnly, Fresh, LockFree, WorkFenced
    <2>4. CASE CommitBegin(h, g, m, ops, inline)
      <3>1. /\ work'.key = KeyOf(h, m) /\ work'.attached = g
            /\ UNCHANGED <<gen, status, receipts>>
        BY <2>4 DEF CommitBegin, hostVars
      <3>2. /\ KeyOf(h, m).host = h /\ KeyOf(h, m).gen = gen[h]
            /\ gen[h] = g /\ status[h] = "connected" /\ receipts[KeyOf(h, m)] = None
        BY <2>4 DEF CommitBegin, Fresh, Authority, KeyOf
      <3>3. QED
        BY <3>1, <3>2 DEF WorkFenced
    <2>5. QED
      BY <2>2, <2>3, <2>4
  <1>5. CASE RejectOp \/ ApplyPut \/ ApplyDelete \/ ApplyRename
    <2>1. /\ work # None /\ work'.key = work.key /\ work'.attached = work.attached
          /\ UNCHANGED <<gen, status, receipts>>
      BY <1>5 DEF RejectOp, ApplyPut, ApplyDelete, ApplyRename, Journalled, NextOp, OpPending,
                  hostVars
    <2>2. QED
      BY <2>1 DEF WorkFenced
  <1>6. CASE DeleteUnsupported \/ RenameFault \/ CommitFinish
    BY <1>6 DEF DeleteUnsupported, RenameFault, CommitFinish, WorkFenced
  <1>7. ASSUME NEW r \in LegacyRequests, LegacyStep(r)
        PROVE  WorkFenced'
    BY <1>7, LegacyStepKeeps DEF WorkFenced
  <1>8. CASE UNCHANGED vars
    BY <1>8 DEF vars, WorkFenced
  <1>9. QED
    BY <1>1, <1>2, <1>3, <1>4, <1>5, <1>6, <1>7, <1>8 DEF Next, CommitStep

LEMMA WorkFencedHolds == Spec => [](TypeOK /\ WorkFenced)
  <1>1. Init => WorkFenced
    BY DEF Init, WorkFenced
  <1>2. TypeOK /\ WorkFenced /\ [Next]_vars => WorkFenced'
    BY WorkFencedStep
  <1>3. QED
    BY <1>1, <1>2, TypeCorrect, PTL DEF Spec

(* Only a seed or the commit that holds the lock writes records. *)
LEMMA WhoWrites ==
  ASSUME TypeOK, [Next]_vars, NEW n \in NewRecords, author'[n] # None
  PROVE  /\ work # None
         /\ author'[n].key = work.key /\ author'[n].attached = work.attached
  <1>1. CASE Journalled /\ OpPending
    <2>1. n = Len(author) + 1
      BY <1>1 DEF Journalled, NewRecords, TypeOK
    <2>2. author'[n] = [key |-> work.key, attached |-> work.attached, index |-> work.next]
      BY <1>1, <2>1 DEF Journalled, TypeOK
    <2>3. QED
      BY <1>1, <2>2 DEF OpPending
  <1>2. ASSUME NEW x \in Seeds, Seed(x[1], x[2])
        PROVE  author'[n] = None
    <2>1. n = Len(author) + 1
      BY <1>2 DEF Seed, NewRecords, TypeOK
    <2>2. QED
      BY <1>2, <2>1 DEF Seed, TypeOK
  <1>3. CASE UNCHANGED journal
    BY <1>3 DEF NewRecords, TypeOK
  <1>4. ASSUME NEW r \in LegacyRequests, LegacyStep(r)
        PROVE  UNCHANGED journal
    BY <1>4, LegacyStepKeeps
  <1>5. QED
    BY <1>1, <1>2, <1>3, <1>4
       DEF Next, HostStep, CommitRequest, CommitStep, Attach, LeaseLapses, Heartbeat, Transition,
           Upload, CommitStagesOnly, CommitBegin, RejectOp, ApplyPut, ApplyDelete, ApplyRename,
           DeleteUnsupported, RenameFault, CommitFinish, fabricVars, vars

(* The generation fence. *)
THEOREM OnlyCurrentGenerationWrites == Spec => GenerationFence
  <1>1. TypeOK /\ WorkFenced /\ [Next]_vars =>
          \A n \in NewRecords : author'[n] # None =>
            /\ author'[n].attached = gen[author'[n].key.host]
            /\ author'[n].key.gen = gen[author'[n].key.host]
            /\ status[author'[n].key.host] = "connected"
    BY WhoWrites DEF WorkFenced
  <1>2. QED
    BY <1>1, WorkFencedHolds, PTL DEF Spec, GenerationFence

LEMMA ReceiptsStay ==
  ASSUME TypeOK, WorkFenced, [Next]_vars, NEW k \in Key, receipts[k] # None
  PROVE  receipts'[k] = receipts[k]
  <1>1. CASE CommitFinish
    <2>1. work \in Commit /\ work.key \in Key /\ work.key # k
      BY <1>1 DEF CommitFinish, TypeOK, Commit, WorkFenced
    <2>2. QED
      BY <1>1, <2>1 DEF CommitFinish, TypeOK
  <1>2. CASE UNCHANGED receipts
    BY <1>2
  <1>3. ASSUME NEW h \in Hosts, HostStep(h) \/ CommitRequest(h)
        PROVE  UNCHANGED receipts
    BY <1>3 DEF HostStep, Attach, LeaseLapses, Heartbeat, Transition, fabricVars,
                CommitRequest, CommitStagesOnly, CommitBegin
  <1>4. CASE \/ \E d \in Digests \ SparseDigests : Upload(d)
             \/ \E x \in Seeds : Seed(x[1], x[2])
    BY <1>2, <1>4 DEF Upload, Seed
  <1>5. CASE CommitStep
    BY <1>1, <1>2, <1>5
       DEF CommitStep, RejectOp, ApplyPut, ApplyDelete, ApplyRename, Journalled,
           DeleteUnsupported, RenameFault
  <1>6. ASSUME NEW r \in LegacyRequests, LegacyStep(r)
        PROVE  UNCHANGED receipts
    BY <1>6, LegacyStepKeeps
  <1>7. QED
    BY <1>2, <1>3, <1>4, <1>5, <1>6 DEF Next, vars

(* Exact replay: an answered request keeps its answer and never writes     *)
(* again.                                                                  *)
THEOREM AnsweredRequestsAreReplayed == Spec => ReplayWritesNothing
  <1>1. TypeOK /\ WorkFenced /\ [Next]_vars =>
          /\ \A k \in Key : receipts[k] # None => receipts'[k] = receipts[k]
          /\ \A n \in NewRecords : author'[n] # None => receipts[author'[n].key] = None
    BY WhoWrites, ReceiptsStay DEF WorkFenced
  <1>2. QED
    BY <1>1, WorkFencedHolds, PTL DEF Spec, ReplayWritesNothing

-----------------------------------------------------------------------------
(* Receipts. *)

(* The journal and its authors are only appended to. *)
Extended ==
  /\ Len(journal) <= Len(journal')
  /\ \A n \in 1..Len(journal) : journal'[n] = journal[n] /\ author'[n] = author[n]

LEMMA JournalGrows ==
  ASSUME TypeOK, [Next]_vars
  PROVE  Extended
  <1>1. CASE UNCHANGED <<journal, author>>
    BY <1>1 DEF Extended, TypeOK
  <1>2. CASE \E r, a : journal' = Append(journal, r) /\ author' = Append(author, a)
    <2>1. PICK r, a : journal' = Append(journal, r) /\ author' = Append(author, a)
      BY <1>2
    <2>2. QED
      BY <2>1 DEF Extended, TypeOK
  <1>3. ASSUME NEW h \in Hosts, HostStep(h) \/ CommitRequest(h)
        PROVE  UNCHANGED <<journal, author>>
    BY <1>3 DEF HostStep, Attach, LeaseLapses, Heartbeat, Transition, fabricVars,
                CommitRequest, CommitStagesOnly, CommitBegin
  <1>4. CASE \E d \in Digests \ SparseDigests : Upload(d)
    BY <1>1, <1>4 DEF Upload
  <1>5. CASE (\E x \in Seeds : Seed(x[1], x[2])) \/ ApplyPut \/ ApplyDelete \/ ApplyRename
    BY <1>2, <1>5 DEF Seed, ApplyPut, ApplyDelete, ApplyRename, Journalled
  <1>6. CASE RejectOp \/ DeleteUnsupported \/ RenameFault \/ CommitFinish
    BY <1>1, <1>6 DEF RejectOp, DeleteUnsupported, RenameFault, CommitFinish
  <1>7. ASSUME NEW r \in LegacyRequests, LegacyStep(r)
        PROVE  UNCHANGED <<journal, author>>
    BY <1>7, LegacyStepKeeps
  <1>8. QED
    BY <1>1, <1>3, <1>4, <1>5, <1>6, <1>7 DEF Next, CommitStep, vars

(* True verdicts stay true. *)
LEMMA TruthfulKept ==
  ASSUME TypeOK, TypeOK', Extended, NEW k, NEW ops, NEW vs, NEW upto \in Nat,
         Truthful(k, ops, vs, upto)
  PROVE  Truthful(k, ops, vs, upto)'
  <1>1. Len(journal) \in Nat /\ Len(journal') \in Nat
    BY DEF TypeOK
  <1>2. upto <= Len(journal')
    BY <1>1 DEF Truthful, Extended
  <1>3. ASSUME NEW i \in DOMAIN vs, vs[i].status = "applied"
        PROVE  /\ vs[i].seq \in 1..upto
               /\ author'[vs[i].seq] = author[vs[i].seq]
               /\ journal'[vs[i].seq] = journal[vs[i].seq]
    <2>1. vs[i].seq \in 1..upto
      BY <1>3 DEF Truthful
    <2>2. vs[i].seq \in 1..Len(journal)
      BY <1>1, <2>1 DEF Truthful
    <2>3. QED
      BY <2>1, <2>2 DEF Extended
  <1>4. QED
    BY <1>2, <1>3 DEF Truthful

(* A verdict "rejected" adds nothing to prove. *)
LEMMA RejectedIsTruthful ==
  ASSUME NEW k, NEW ops, NEW vs \in Seq(Verdict), NEW v \in Verdict, v.status = "rejected",
         NEW upto \in Nat, Truthful(k, ops, vs, upto)
  PROVE  Truthful(k, ops, Append(vs, v), upto)
  <1>1. PICK ws : ws = Append(vs, v)
    OBVIOUS
  <1>2. /\ DOMAIN ws = 1..Len(vs) + 1 /\ DOMAIN vs = 1..Len(vs) /\ Len(vs) \in Nat
        /\ \A i \in DOMAIN vs : ws[i] = vs[i]
        /\ ws[Len(vs) + 1] = v
    BY <1>1
  <1>3. \A i \in DOMAIN ws : ws[i].status = "applied" => i \in DOMAIN vs /\ ws[i] = vs[i]
    BY <1>2
  <1>4. QED
    BY <1>1, <1>3 DEF Truthful

(* The verdict of the operation whose record was just written. *)
LEMMA AppliedIsTruthful ==
  ASSUME NEW k, NEW ops, NEW vs \in Seq(Verdict), NEW n \in Nat, Truthful(k, ops, vs, n)',
         Len(journal') = n + 1,
         author'[n + 1] # None, author'[n + 1].key = k, author'[n + 1].index = Len(vs) + 1,
         journal'[n + 1] \in RecordsFor(ops[Len(vs) + 1], k.mutation)
  PROVE  Truthful(k, ops, Append(vs, [status |-> "applied", seq |-> n + 1]), n + 1)'
  <1>1. PICK v : v = [status |-> "applied", seq |-> n + 1]
    OBVIOUS
  <1>2. v \in Verdict /\ v.seq = n + 1
    BY <1>1 DEF Verdict
  <1>3. PICK ws : ws = Append(vs, v)
    OBVIOUS
  <1>4. /\ DOMAIN ws = 1..Len(vs) + 1 /\ DOMAIN vs = 1..Len(vs) /\ Len(vs) \in Nat
        /\ \A i \in DOMAIN vs : ws[i] = vs[i]
        /\ ws[Len(vs) + 1] = v
    BY <1>2, <1>3
  <1>5. ASSUME NEW i \in DOMAIN ws, ws[i].status = "applied"
        PROVE  /\ ws[i].seq \in 1..n + 1
               /\ i \in DOMAIN vs => ws[i].seq \in 1..n
               /\ author'[ws[i].seq] # None
               /\ author'[ws[i].seq].key = k
               /\ author'[ws[i].seq].index = i
               /\ journal'[ws[i].seq] \in RecordsFor(ops[i], k.mutation)
    <2>1. CASE i \in DOMAIN vs
      BY <1>4, <1>5, <2>1 DEF Truthful
    <2>2. CASE i = Len(vs) + 1
      <3>1. ws[i].seq = n + 1
        BY <1>2, <1>4, <2>2
      <3>2. i \notin DOMAIN vs
        BY <1>4, <2>2
      <3>3. QED
        BY <2>2, <3>1, <3>2
    <2>3. QED
      BY <1>4, <2>1, <2>2
  <1>6. ASSUME NEW i \in DOMAIN ws, NEW j \in DOMAIN ws, i < j,
               ws[i].status = "applied", ws[j].status = "applied"
        PROVE  ws[i].seq < ws[j].seq
    <2>1. CASE j \in DOMAIN vs
      BY <1>4, <1>6, <2>1 DEF Truthful
    <2>2. CASE j = Len(vs) + 1
      <3>1. i \in DOMAIN vs
        BY <1>4, <1>6, <2>2
      <3>2. ws[i].seq \in 1..n
        BY <1>5, <1>6, <3>1
      <3>3. ws[j].seq = n + 1
        BY <1>2, <1>4, <2>2
      <3>4. QED
        BY <3>2, <3>3
    <2>3. QED
      BY <1>4, <2>1, <2>2
  <1>7. QED
    BY <1>1, <1>3, <1>5, <1>6 DEF Truthful

LEMMA VerdictsStep ==
  ASSUME TypeOK, TypeOK', VerdictsSoFar, [Next]_vars
  PROVE  VerdictsSoFar'
  <1>1. Extended
    BY JournalGrows
  <1>2. PICK n \in Nat : n = Len(journal)
    BY DEF TypeOK
  <1>3. CASE UNCHANGED <<work, journal, author>>
    BY <1>3 DEF VerdictsSoFar, Truthful
  <1>4. CASE work' = None
    BY <1>4 DEF VerdictsSoFar
  <1>5. ASSUME NEW h \in Hosts, HostStep(h)
        PROVE  UNCHANGED <<work, journal, author>>
    BY <1>5 DEF HostStep, Attach, LeaseLapses, Heartbeat, Transition, fabricVars
  <1>6. CASE \E d \in Digests \ SparseDigests : Upload(d)
    BY <1>3, <1>6 DEF Upload
  <1>7. CASE \E x \in Seeds : Seed(x[1], x[2])
    BY <1>4, <1>7 DEF Seed, LockFree
  <1>8. ASSUME NEW h \in Hosts, CommitRequest(h)
        PROVE  VerdictsSoFar'
    <2>1. PICK g \in 1..MaxGen, m \in Mutations, ops \in Batches :
            \E inline \in SUBSET FileDigests(ops) :
              \/ CommitStagesOnly(h, g, m, ops, inline)
              \/ CommitBegin(h, g, m, ops, inline)
      BY <1>8 DEF CommitRequest
    <2>2. PICK inline \in SUBSET FileDigests(ops) :
            \/ CommitStagesOnly(h, g, m, ops, inline)
            \/ CommitBegin(h, g, m, ops, inline)
      BY <2>1
    <2>3. CASE CommitStagesOnly(h, g, m, ops, inline)
      BY <1>3, <2>3 DEF CommitStagesOnly
    <2>4. CASE CommitBegin(h, g, m, ops, inline)
      <3>1. Len(ops) \in Nat
        BY BatchesAreOps
      <3>2. work'.next = 1 /\ work'.verdicts = <<>> /\ work'.ops = ops
        BY <2>4 DEF CommitBegin
      <3>3. Len(journal') \in Nat
        BY DEF TypeOK
      <3>4. QED
        BY <3>1, <3>2, <3>3 DEF VerdictsSoFar, Truthful
    <2>5. QED
      BY <2>2, <2>3, <2>4
  <1>9. ASSUME OpPending
        PROVE  /\ work # None /\ work \in Commit /\ work.next \in Nat
               /\ Len(work.ops) \in Nat /\ work.next <= Len(work.ops)
               /\ work.verdicts \in Seq(Verdict) /\ Len(work.verdicts) = work.next - 1
               /\ Truthful(work.key, work.ops, work.verdicts, Len(journal))
    BY <1>9, CurrentOpType, BatchesAreOps DEF OpPending, Commit, VerdictsSoFar
  <1>10. CASE RejectOp
    <2>1. PICK v : v = [status |-> "rejected", seq |-> 0]
      OBVIOUS
    <2>2. /\ v \in Verdict /\ v.status = "rejected"
          /\ OpPending /\ NextOp(v) /\ UNCHANGED <<journal, author>>
      BY <1>10, <2>1 DEF RejectOp, Verdict
    <2>3. Truthful(work.key, work.ops, Append(work.verdicts, v), Len(journal))
      BY <1>2, <1>9, <2>2, RejectedIsTruthful
    <2>4. Truthful(work.key, work.ops, work.verdicts, Len(journal))'
      BY <2>2, <2>3 DEF NextOp, Truthful
    <2>5. /\ work'.ops = work.ops /\ work'.next = work.next + 1
          /\ Len(work'.verdicts) = Len(work.verdicts) + 1
      BY <1>9, <2>2 DEF NextOp
    <2>6. QED
      BY <1>9, <2>2, <2>4, <2>5 DEF VerdictsSoFar
  <1>11. ASSUME OpPending, ~ Diverged(CurrentOp), Journalled,
                CurrentOp.op = "rename" => legacy[CurrentOp.path] # None
         PROVE  VerdictsSoFar'
    <2>1. PICK k, ops, vs : k = work.key /\ ops = work.ops /\ vs = work.verdicts
      OBVIOUS
    <2>2. vs \in Seq(Verdict) /\ Len(vs) = work.next - 1 /\ Truthful(k, ops, vs, n)
      BY <1>2, <1>9, <1>11, <2>1
    <2>3. Truthful(k, ops, vs, n)'
      BY <1>1, <1>2, <2>2, TruthfulKept
    <2>4. /\ Len(journal') = n + 1
          /\ journal'[n + 1] = RecordOf(CurrentOp, k.mutation)
          /\ author'[n + 1] = [key |-> k, attached |-> work.attached, index |-> work.next]
      BY <1>2, <1>11, <2>1 DEF Journalled, TypeOK
    <2>5. journal'[n + 1] \in RecordsFor(ops[Len(vs) + 1], k.mutation)
      <3>1. RecordOf(CurrentOp, work.key.mutation) \in RecordsFor(CurrentOp, work.key.mutation)
        BY <1>11, RecordIsOfItsOp
      <3>2. CurrentOp = ops[Len(vs) + 1]
        BY <1>9, <1>11, <2>1, <2>2 DEF CurrentOp
      <3>3. QED
        BY <2>1, <2>4, <3>1, <3>2
    <2>6. /\ author'[n + 1] # None
          /\ author'[n + 1].key = k
          /\ author'[n + 1].index = Len(vs) + 1
      <3>1. author'[n + 1] \in Author
        BY <1>9, <1>11, <2>1, <2>4 DEF Author, Commit
      <3>2. QED
        BY <1>9, <1>11, <2>2, <2>4, <3>1
    <2>7. Truthful(k, ops, Append(vs, [status |-> "applied", seq |-> n + 1]), n + 1)'
      BY <1>2, <2>2, <2>3, <2>4, <2>5, <2>6, AppliedIsTruthful
    <2>8. /\ work'.key = k /\ work'.ops = ops /\ work'.next = work.next + 1
          /\ work'.verdicts = Append(vs, [status |-> "applied", seq |-> n + 1])
      BY <1>2, <1>11, <2>1 DEF Journalled, NextOp, NextSeq
    <2>9. Len(work'.verdicts) = Len(vs) + 1
      BY <2>2, <2>8
    <2>10. QED
      BY <1>9, <1>11, <2>1, <2>2, <2>4, <2>7, <2>8, <2>9 DEF VerdictsSoFar
  <1>12. CASE ApplyPut \/ ApplyDelete \/ ApplyRename
    BY <1>11, <1>12 DEF ApplyPut, ApplyDelete, ApplyRename
  <1>13. CASE DeleteUnsupported \/ RenameFault \/ CommitFinish
    BY <1>4, <1>13 DEF DeleteUnsupported, RenameFault, CommitFinish
  <1>14. ASSUME NEW r \in LegacyRequests, LegacyStep(r)
         PROVE  UNCHANGED <<work, journal, author>>
    BY <1>14, LegacyStepKeeps
  <1>15. QED
    BY <1>3, <1>5, <1>6, <1>7, <1>8, <1>10, <1>12, <1>13, <1>14 DEF Next, CommitStep, vars

LEMMA ReceiptsStep ==
  ASSUME TypeOK, TypeOK', WorkFenced, VerdictsSoFar, ReceiptsNameRecords, [Next]_vars
  PROVE  ReceiptsNameRecords'
  <1> SUFFICES ASSUME NEW k \in Key, receipts'[k] # None
               PROVE  /\ Len(receipts'[k].verdicts) = Len(receipts'[k].ops)
                      /\ Truthful(k, receipts[k].ops, receipts[k].verdicts, receipts[k].seq)'
    BY DEF ReceiptsNameRecords
  <1>1. Extended
    BY JournalGrows
  <1>2. CASE receipts[k] # None
    <2>1. receipts'[k] = receipts[k]
      BY <1>2, ReceiptsStay
    <2>2. PICK r : r = receipts[k]
      OBVIOUS
    <2>3. r \in Receipt /\ r.seq \in Nat
      BY <1>2, <2>2 DEF TypeOK, Receipt
    <2>4. Len(r.verdicts) = Len(r.ops) /\ Truthful(k, r.ops, r.verdicts, r.seq)
      BY <1>2, <2>2 DEF ReceiptsNameRecords
    <2>5. Truthful(k, r.ops, r.verdicts, r.seq)'
      BY <1>1, <2>3, <2>4, TruthfulKept
    <2>6. QED
      BY <2>1, <2>2, <2>4, <2>5 DEF Truthful
  <1>3. CASE receipts[k] = None
    <2>1. CommitFinish /\ k = work.key
      <3>1. CASE UNCHANGED receipts
        BY <1>3, <3>1
      <3>2. ASSUME NEW h \in Hosts, HostStep(h) \/ CommitRequest(h)
            PROVE  UNCHANGED receipts
        BY <3>2 DEF HostStep, Attach, LeaseLapses, Heartbeat, Transition, fabricVars,
                    CommitRequest, CommitStagesOnly, CommitBegin
      <3>3. CASE \/ \E d \in Digests \ SparseDigests : Upload(d)
                 \/ \E x \in Seeds : Seed(x[1], x[2])
        BY <3>1, <3>3 DEF Upload, Seed
      <3>4. CASE CommitFinish
        BY <1>3, <3>4 DEF CommitFinish, TypeOK
      <3>5. CASE CommitStep /\ ~ CommitFinish
        BY <3>1, <3>5
           DEF CommitStep, RejectOp, ApplyPut, ApplyDelete, ApplyRename, Journalled,
               DeleteUnsupported, RenameFault
      <3>6. ASSUME NEW r \in LegacyRequests, LegacyStep(r)
            PROVE  UNCHANGED receipts
        BY <3>6, LegacyStepKeeps
      <3>7. QED
        BY <3>1, <3>2, <3>3, <3>4, <3>5, <3>6 DEF Next, vars
    <2>2. /\ receipts'[k].ops = work.ops /\ receipts'[k].verdicts = work.verdicts
          /\ receipts'[k].seq = Len(journal)
      BY <2>1 DEF CommitFinish, TypeOK
    <2>3. /\ work \in Commit /\ work.next \in Nat /\ Len(work.ops) \in Nat
          /\ work.next > Len(work.ops)
      BY <2>1, BatchesAreOps DEF CommitFinish, TypeOK, Commit
    <2>4. /\ Len(work.verdicts) = work.next - 1 /\ work.next <= Len(work.ops) + 1
          /\ Truthful(work.key, work.ops, work.verdicts, Len(journal))
      BY <2>1 DEF CommitFinish, VerdictsSoFar
    <2>5. UNCHANGED <<journal, author>>
      BY <2>1 DEF CommitFinish
    <2>6. Len(work.verdicts) = Len(work.ops)
      BY <2>3, <2>4
    <2>7. QED
      BY <2>1, <2>2, <2>4, <2>5, <2>6 DEF Truthful
  <1>4. QED
    BY <1>2, <1>3

(* Every receipt tells the truth. *)
THEOREM ReceiptsAreTrue == Spec => []ReceiptsNameRecords
  <1>1. Init => VerdictsSoFar /\ ReceiptsNameRecords
    BY DEF Init, VerdictsSoFar, ReceiptsNameRecords
  <1>2. TypeOK /\ TypeOK' /\ WorkFenced /\ VerdictsSoFar /\ ReceiptsNameRecords /\ [Next]_vars
          => VerdictsSoFar' /\ ReceiptsNameRecords'
    BY VerdictsStep, ReceiptsStep
  <1>3. QED
    BY <1>1, <1>2, WorkFencedHolds, PTL DEF Spec
-----------------------------------------------------------------------------
(* The fabric and its mirroring client together. *)

(* What is proved of the client holds of this one. *)
SyncFacts == INSTANCE V2Sync_proofs WITH
  Ids <- Mutations \cup {SeedId},
  Changes <- Published

LEMMA SyncAssumptionHolds == SyncFacts!FeedAssumption /\ SyncFacts!SyncAssumption
  <1>1. SyncFacts!FeedAssumption
    BY FeedAssumptionHolds
       DEF FeedFacts!FeedAssumption, FeedFacts!Change, FeedFacts!Kinds, FeedFacts!Entry,
           SyncFacts!FeedAssumption, SyncFacts!Change, SyncFacts!Kinds, SyncFacts!Entry
  <1>2. SyncFacts!SyncAssumption
    BY MirrorAssumption DEF SyncFacts!SyncAssumption
  <1>3. QED
    BY <1>1, <1>2

LEMMA SameRecords ==
  ASSUME NEW c, NEW ns, NEW n
  PROVE  /\ \A p : Sync!Touches(c, p) <=> SyncFacts!Touches(c, p)
         /\ \A p : Sync!Fills(c, p) <=> SyncFacts!Fills(c, p)
         /\ Sync!Applied(ns, c, n) = SyncFacts!Applied(ns, c, n)
         /\ Feed!Applied(ns, c, n) = SyncFacts!Applied(ns, c, n)
  BY DEF Sync!Touches, SyncFacts!Touches, Sync!Fills, SyncFacts!Fills,
         Sync!Applied, SyncFacts!Applied, Feed!Applied, Feed!Touches, Feed!Fills

LEMMA SamePublish ==
  ASSUME NEW c \in Published
  PROVE  /\ Feed!Publish(c) <=> SyncFacts!Publish(c)
         /\ Sync!Publish(c) <=> SyncFacts!Publish(c)
  <1>1. Sync!Permitted(entries, c) <=> SyncFacts!Permitted(entries, c)
    BY DEF Sync!Permitted, SyncFacts!Permitted, Sync!DigestOf, SyncFacts!DigestOf,
           Sync!IsFile, SyncFacts!IsFile
  <1>2. Feed!Permitted(entries, c) <=> SyncFacts!Permitted(entries, c)
    BY DEF Feed!Permitted, SyncFacts!Permitted, Feed!DigestOf, SyncFacts!DigestOf,
           Feed!IsFile, SyncFacts!IsFile
  <1>3. QED
    BY <1>1, <1>2, SameRecords DEF Feed!Publish, Sync!Publish, SyncFacts!Publish

(* The two instances of V2Sync say the same. *)
LEMMA SameCardinality ==
  ASSUME NEW S
  PROVE  Sync!Cardinality(S) = SyncFacts!Cardinality(S)
  BY Zenon DEF Sync!Cardinality, SyncFacts!Cardinality

LEMMA SamePage == Sync!SnapshotPage <=> SyncFacts!SnapshotPage
  <1>1. Sync!Rest = SyncFacts!Rest
    BY DEF Sync!Rest, SyncFacts!Rest
  <1>2. Sync!FullPage <=> SyncFacts!FullPage
    BY <1>1, SameCardinality DEF Sync!FullPage, SyncFacts!FullPage
  <1>3. \A r : Sync!NextAfter(r) <=> SyncFacts!NextAfter(r)
    BY <1>1, <1>2, SameCardinality DEF Sync!NextAfter, SyncFacts!NextAfter
  <1>4. QED
    BY <1>3 DEF Sync!SnapshotPage, SyncFacts!SnapshotPage

LEMMA SameFetch == Sync!FetchChanges <=> SyncFacts!FetchChanges
  BY DEF Sync!FetchChanges, SyncFacts!FetchChanges, Sync!Response, SyncFacts!Response,
         Sync!SliceEnd, SyncFacts!SliceEnd, Sync!NextSince, SyncFacts!NextSince

LEMMA SameDone == Sync!Done = SyncFacts!Done
  BY DEF Sync!Done, SyncFacts!Done

LEMMA SameApply == Sync!ApplyChange <=> SyncFacts!ApplyChange
  <1>1. Sync!Applied(view, Head(pending), Sync!Done + 1)
          = SyncFacts!Applied(view, Head(pending), SyncFacts!Done + 1)
    BY SameRecords, SameDone
  <1>2. QED
    BY <1>1 DEF Sync!ApplyChange, SyncFacts!ApplyChange

LEMMA SameSync ==
  /\ Sync!SyncInit <=> SyncFacts!SyncInit
  /\ [Sync!SyncNext]_(Sync!vars) <=> [SyncFacts!SyncNext]_(SyncFacts!vars)
  <1>1. Sync!SyncInit <=> SyncFacts!SyncInit
    BY DEF Sync!SyncInit, SyncFacts!SyncInit, Sync!Init, SyncFacts!Init
  <1>2. \A c \in Published : Sync!Commit(c) <=> SyncFacts!Commit(c)
    BY SamePublish DEF Sync!Commit, SyncFacts!Commit, Sync!reader, SyncFacts!reader
  <1>3. Sync!Restart <=> SyncFacts!Restart
    BY DEF Sync!Restart, SyncFacts!Restart
  <1>4. Sync!SyncNext <=> SyncFacts!SyncNext
    BY <1>2, <1>3, SamePage, SameFetch, SameApply DEF Sync!SyncNext, SyncFacts!SyncNext
  <1>5. QED
    BY <1>1, <1>4 DEF Sync!vars, SyncFacts!vars, Sync!reader, SyncFacts!reader

(* The client leaves the fabric alone. *)
LEMMA MirrorIsFabric == MirrorSpec => Spec
  <1>1. MirrorInit => Init
    BY DEF MirrorInit
  <1>2. [MirrorNext]_mirrored => [Next]_vars
    BY DEF MirrorNext, mirrored
  <1>3. QED
    BY <1>1, <1>2, PTL DEF MirrorSpec, Spec

LEMMA MirrorStepRefines ==
  ASSUME CleanRenames, IInv, [MirrorNext]_mirrored
  PROVE  [SyncFacts!SyncNext]_(SyncFacts!vars)
  <1>1. CASE Next /\ UNCHANGED reader
    <2>1. [Feed!Next]_<<entries, journal>>
      BY <1>1, StepRefines
    <2>2. ASSUME NEW c \in Published, Feed!Publish(c)
          PROVE  SyncFacts!SyncNext
      BY <1>1, <2>2, SamePublish
         DEF SyncFacts!SyncNext, SyncFacts!Commit, SyncFacts!reader, reader
    <2>3. QED
      BY <1>1, <2>1, <2>2
         DEF Feed!Next, reader, SyncFacts!vars, SyncFacts!reader
  <1>2. CASE Reads
    BY <1>2, SamePage, SameFetch, SameApply
       DEF Reads, SyncFacts!SyncNext, Sync!Restart, SyncFacts!Restart
  <1>3. CASE UNCHANGED mirrored
    BY <1>3 DEF mirrored, vars, reader, SyncFacts!vars, SyncFacts!reader
  <1>4. QED
    BY <1>1, <1>2, <1>3 DEF MirrorNext

LEMMA MirrorIsSync == CleanRenames => (MirrorSpec => SyncFacts!SyncSpec)
  <1> SUFFICES ASSUME CleanRenames
               PROVE  MirrorSpec => SyncFacts!SyncSpec
    OBVIOUS
  <1>1. MirrorInit => SyncFacts!SyncInit
    BY SameSync DEF MirrorInit
  <1>2. IInv /\ [MirrorNext]_mirrored => [SyncFacts!SyncNext]_(SyncFacts!vars)
    BY MirrorStepRefines
  <1>3. QED
    BY <1>1, <1>2, MirrorIsFabric, IInvHolds, PTL DEF MirrorSpec, SyncFacts!SyncSpec

(* To its client the fabric is the change feed, whatever requests, faults  *)
(* and host events there are, for clients that rename only whole files.    *)
THEOREM MirrorImplementsSync == CleanRenames => (MirrorSpec => ImplementsSync)
  BY MirrorIsSync, SameSync, PTL DEF ImplementsSync, Sync!SyncSpec, SyncFacts!SyncSpec
(* Only a seeding writes a record that is of no request. *)
SeedsWrite ==
  \A n \in 1..Len(journal) : author[n] = None =>
    \E x \in Seeds : journal[n] = SeedRecord(x[1], x[2])

LEMMA SeedsWriteStep ==
  ASSUME TypeOK, SeedsWrite, [Next]_vars
  PROVE  SeedsWrite'
  <1>1. PICK l \in Nat : l = Len(journal)
    BY DEF TypeOK
  <1>2. ASSUME NEW r, NEW a, journal' = Append(journal, r), author' = Append(author, a),
               a = None => \E x \in Seeds : r = SeedRecord(x[1], x[2])
        PROVE  SeedsWrite'
    <2>1. /\ Len(journal') = l + 1
          /\ \A n \in 1..l : journal'[n] = journal[n] /\ author'[n] = author[n]
          /\ journal'[l + 1] = r
          /\ author'[l + 1] = a
      BY <1>1, <1>2 DEF TypeOK
    <2>2. ASSUME NEW n \in 1..l + 1, author'[n] = None
          PROVE  \E x \in Seeds : journal'[n] = SeedRecord(x[1], x[2])
      <3>1. CASE n = l + 1
        BY <1>2, <2>1, <2>2, <3>1
      <3>2. CASE n \in 1..l
        BY <1>1, <2>1, <2>2, <3>2 DEF SeedsWrite
      <3>3. QED
        BY <3>1, <3>2
    <2>3. QED
      BY <2>1, <2>2 DEF SeedsWrite, SeedRecord
  <1>3. CASE UNCHANGED <<journal, author>>
    BY <1>3 DEF SeedsWrite
  <1>4. CASE \E x \in Seeds : Seed(x[1], x[2])
    BY <1>2, <1>4 DEF Seed
  <1>5. ASSUME OpPending, Journalled
        PROVE  SeedsWrite'
    <2>1. PICK a : a = [key |-> work.key, attached |-> work.attached, index |-> work.next]
      OBVIOUS
    <2>2. a \in Author
      BY <1>5, <2>1, CurrentOpType DEF Author, Commit
    <2>3. a # None
      BY <2>2
    <2>4. author' = Append(author, a)
      BY <1>5, <2>1 DEF Journalled
    <2>5. QED
      BY <1>2, <1>5, <2>3, <2>4 DEF Journalled
  <1>6. CASE ApplyPut \/ ApplyDelete \/ ApplyRename
    BY <1>5, <1>6 DEF ApplyPut, ApplyDelete, ApplyRename
  <1>7. ASSUME NEW h \in Hosts, HostStep(h) \/ CommitRequest(h)
        PROVE  UNCHANGED <<journal, author>>
    BY <1>7 DEF HostStep, Attach, LeaseLapses, Heartbeat, Transition, fabricVars,
                CommitRequest, CommitStagesOnly, CommitBegin
  <1>8. CASE \/ \E d \in Digests \ SparseDigests : Upload(d)
             \/ RejectOp \/ DeleteUnsupported \/ RenameFault \/ CommitFinish
    BY <1>3, <1>8 DEF Upload, RejectOp, DeleteUnsupported, RenameFault, CommitFinish
  <1>9. ASSUME NEW r \in LegacyRequests, LegacyStep(r)
        PROVE  UNCHANGED <<journal, author>>
    BY <1>9, LegacyStepKeeps
  <1>10. QED
    BY <1>3, <1>4, <1>6, <1>7, <1>8, <1>9 DEF Next, CommitStep, vars

LEMMA SeedsWriteHolds == Spec => []SeedsWrite
  <1>1. Init => SeedsWrite
    BY DEF Init, SeedsWrite
  <1>2. TypeOK /\ SeedsWrite /\ [Next]_vars => SeedsWrite'
    BY SeedsWriteStep
  <1>3. QED
    BY <1>1, <1>2, TypeCorrect, PTL DEF Spec

(* What a path shows of a record, it shows of the operation that wrote it. *)
LEMMA RecordShows ==
  ASSUME NEW o, NEW c \in Change, NEW n \in Nat, NEW p \in Paths,
         c.op = o.op, c.path = o.path, c.dest = o.dest, o.kind \in {None, c.kind},
         c.digest = IF o.op = "rename" THEN o.prev ELSE o.digest,
         o.op = "rename" <=> o.dest # None,
         view[p] = Sync!Applied(view, c, n)[p],
         Sync!Touches(c, p)
  PROVE  Shows(p, o, n)
  <1>1. p # None
    OBVIOUS
  <1>2. Sync!Fills(c, p) <=> p = o.dest \/ (o.op = "put" /\ p = o.path)
    BY <1>1 DEF Sync!Fills
  <1>3. CASE Sync!Fills(c, p)
    <2>1. view[p] = [kind |-> c.kind, digest |-> c.digest, seq |-> n]
      BY <1>3 DEF Sync!Applied
    <2>2. c.kind \in Kinds /\ c.digest \in Digests \cup {None}
      BY DEF Change
    <2>3. view[p] # None
      BY <2>1, <2>2 DEF Entry
    <2>4. QED
      BY <1>2, <1>3, <2>1, <2>3 DEF Shows
  <1>4. CASE ~ Sync!Fills(c, p)
    <2>1. view[p] = None
      BY <1>4 DEF Sync!Applied
    <2>2. QED
      BY <1>2, <1>4, <2>1 DEF Shows
  <1>5. QED
    BY <1>3, <1>4
LEMMA SeenByRecord ==
  ASSUME SyncFacts!MomentInv, phase = "following", NEW n \in 1..Sync!Done, TypeOK,
         NEW o, NEW p \in Paths,
         journal[n].op = o.op, journal[n].path = o.path, journal[n].dest = o.dest,
         o.kind \in {None, journal[n].kind},
         journal[n].digest = IF o.op = "rename" THEN o.prev ELSE o.digest,
         o.op = "rename" <=> o.dest # None,
         Sync!Touches(journal[n], p)
  PROVE  SeenFrom(p, o, n)
  <1>1. /\ view[p] # None => view[p].seq >= n
        /\ \/ view[p] = SyncFacts!Applied(view, journal[n], n)[p]
           \/ SyncFacts!Overtaken(p, n)
    BY SyncAssumptionHolds, SameDone, SameRecords, SyncFacts!ReachedIsShown
  <1>2. n \in Nat /\ journal[n] \in Change
    <2>1. /\ since \in Nat /\ since <= Len(journal) /\ pending \in Seq(SyncFacts!Change)
          /\ Len(journal) \in Nat
      BY DEF TypeOK, SyncFacts!MomentInv, SyncFacts!SyncInv, SyncFacts!SyncTypeOK
    <2>2. n \in 1..Len(journal)
      BY <2>1 DEF Sync!Done
    <2>3. QED
      BY <2>2 DEF TypeOK
  <1>3. SyncFacts!Overtaken(p, n) => Sync!Overtaken(p, n)
    BY SameDone, SameRecords DEF Sync!Overtaken, SyncFacts!Overtaken
  <1>4. CASE view[p] = SyncFacts!Applied(view, journal[n], n)[p]
    <2>1. view[p] = Sync!Applied(view, journal[n], n)[p]
      BY <1>4, SameRecords
    <2>2. Shows(p, o, n)
      BY <1>2, <2>1, RecordShows
    <2>3. QED
      BY <1>1, <2>2 DEF SeenFrom
  <1>5. CASE SyncFacts!Overtaken(p, n)
    BY <1>1, <1>3, <1>5 DEF SeenFrom
  <1>6. QED
    BY <1>1, <1>4, <1>5

LEMMA CommittedAreSeen ==
  ASSUME SyncFacts!MomentInv, phase = "following", TypeOK, ReceiptsNameRecords
  PROVE  CommittedIsSeen
  <1> SUFFICES ASSUME NEW k \in Key, receipts[k] # None,
                      NEW i \in DOMAIN receipts[k].verdicts,
                      receipts[k].verdicts[i].status = "applied",
                      receipts[k].verdicts[i].seq <= Sync!Done,
                      NEW p \in OpPaths(receipts[k].ops[i])
               PROVE  SeenFrom(p, receipts[k].ops[i], receipts[k].verdicts[i].seq)
    BY DEF CommittedIsSeen
  <1>1. PICK r \in Receipt : r = receipts[k]
    BY DEF TypeOK
  <1>2. PICK n, o : n = r.verdicts[i].seq /\ o = r.ops[i]
    OBVIOUS
  <1>3. Len(r.verdicts) = Len(r.ops) /\ Truthful(k, r.ops, r.verdicts, r.seq)
    BY <1>1 DEF ReceiptsNameRecords
  <1>4. n \in Nat /\ n >= 1 /\ n <= Sync!Done /\ journal[n] \in RecordsFor(o, k.mutation)
    BY <1>1, <1>2, <1>3 DEF Truthful, Receipt
  <1>5. o \in Op /\ WellFormedOp(o)
    <2>1. r.ops \in Batches /\ r.verdicts \in Seq(Verdict)
      BY <1>1 DEF Receipt
    <2>2. r.ops \in Seq(Op)
      BY <2>1, BatchesAreOps
    <2>3. i \in DOMAIN r.ops
      BY <1>1, <1>3, <2>1, <2>2
    <2>4. QED
      BY <1>2, <2>1, <2>3, BatchesAreOps
  <1>6. PICK kind \in IF o.kind = None THEN Kinds ELSE {o.kind},
             blocks \in IF o.op = "rename" THEN Digests ELSE {BlocksSent(o)} :
          journal[n] = RecordFor(o, kind, blocks, k.mutation)
    BY <1>4 DEF RecordsFor
  <1>7. /\ journal[n].op = o.op /\ journal[n].path = o.path /\ journal[n].dest = o.dest
        /\ journal[n].source = o.source
        /\ o.kind \in {None, journal[n].kind}
        /\ journal[n].digest = IF o.op = "rename" THEN o.prev ELSE o.digest
    BY <1>6 DEF RecordFor
  <1>8. p \in Paths /\ Sync!Touches(journal[n], p)
    BY <1>1, <1>2, <1>5, <1>7 DEF OpPaths, Related, Op, Sync!Touches
  <1>9. o.op = "rename" <=> o.dest # None
    BY <1>5 DEF WellFormedOp
  <1>10. n \in 1..Sync!Done
    BY <1>4 DEF SyncFacts!MomentInv, SyncFacts!SyncInv, SyncFacts!SyncTypeOK, Sync!Done
  <1>11. SeenFrom(p, o, n)
    BY <1>7, <1>8, <1>9, <1>10, SeenByRecord
  <1>12. QED
    BY <1>1, <1>2, <1>11

LEMMA SeededAreSeen ==
  ASSUME SyncFacts!MomentInv, phase = "following", TypeOK, SeedsWrite
  PROVE  SeededIsSeen
  <1> SUFFICES ASSUME NEW n \in 1 .. Sync!Done, author[n] = None
               PROVE  SeenFrom(journal[n].path, journal[n], n)
    BY DEF SeededIsSeen
  <1>1. n \in 1..Len(journal)
    <2>1. /\ since \in Nat /\ since <= Len(journal) /\ pending \in Seq(SyncFacts!Change)
          /\ Len(journal) \in Nat
      BY DEF TypeOK, SyncFacts!MomentInv, SyncFacts!SyncInv, SyncFacts!SyncTypeOK
    <2>2. QED
      BY <2>1 DEF Sync!Done
  <1>2. PICK x \in Seeds : journal[n] = SeedRecord(x[1], x[2])
    BY <1>1 DEF SeedsWrite
  <1>3. /\ journal[n].op = "put" /\ journal[n].dest = None
        /\ journal[n].path = x[1] /\ x[1] \in Paths
    BY <1>2 DEF SeedRecord
  <1>4. Sync!Touches(journal[n], x[1])
    BY <1>3 DEF Sync!Touches
  <1>5. QED
    BY <1>3, <1>4, SeenByRecord

(* Once a mirroring client has reached the number of an answer, a commit's *)
(* or a seed's, it shows what the answer was about, unless a later change  *)
(* has undone it, and never anything from before it: for every client that *)
(* renames only whole files that have their bytes, every set of paths,     *)
(* hosts, versions and batches, every page and response size.              *)
THEOREM ReachedIsWhatIsShown == CleanRenames => (MirrorSpec => []ReachedIsSeen)
  <1> SUFFICES ASSUME CleanRenames
               PROVE  MirrorSpec => []ReachedIsSeen
    OBVIOUS
  <1>1. SyncFacts!MomentInv /\ TypeOK /\ SeedsWrite /\ ReceiptsNameRecords => ReachedIsSeen
    BY CommittedAreSeen, SeededAreSeen DEF ReachedIsSeen
  <1>2. SyncFacts!SyncSpec => []SyncFacts!MomentInv
    BY SyncAssumptionHolds, SyncFacts!MomentInvHolds
  <1>3. QED
    BY <1>1, <1>2, MirrorIsSync, MirrorIsFabric, TypeCorrect, SeedsWriteHolds, ReceiptsAreTrue, PTL
=============================================================================
