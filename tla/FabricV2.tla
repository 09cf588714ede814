------------------------------- MODULE FabricV2 -------------------------------
(***************************************************************************)
(* The v2 namespace of the acceptance control plane (fixture_v2.py):       *)
(* v2_entries, v2_journal, the commit handler with its replay receipts,    *)
(* and the fixture's own seeding, under the host and attachment fence of   *)
(* fixture_plane.py.                                                       *)
(*                                                                         *)
(* Every handler of this module holds _state_lock from its first read to   *)
(* its last write, so a handler is one action, except fabric_v2_commit:    *)
(* it may stop part way, by a Rejected or a KeyError raised inside its     *)
(* loop over the operations.  The loop is modelled one iteration per       *)
(* action; `work` is the frame of the handler that holds the lock, and     *)
(* every other action waits for it.                                        *)
(*                                                                         *)
(* fabric_files is shared with the legacy namespace of the same plane.     *)
(* Its requests are modelled as far as they write there; their manifests,  *)
(* receipts and expectations are the subject of LegacyFabric, and a client *)
(* can always send one that is accepted.                                   *)
(*                                                                         *)
(* Abstracted: sizes and timestamps, and the block list of an entry (they  *)
(* follow the digest; the list of a journal record need not);              *)
(* permissions (every accepted profile may write the workspace); the       *)
(* verification operations a commit discards, which it never requires.     *)
(***************************************************************************)
EXTENDS Naturals, Sequences, FiniteSets

CONSTANTS
  Hosts,          \* connected hosts
  Paths,          \* the workspace paths
  Below,          \* Below[p]: the paths p + '/' is a prefix of
  Digests,        \* file versions
  SparseDigests,  \* versions larger than their stored bytes and than 4 MiB: only seeded
  Mutations,      \* mutation_id values of the clients
  SeedId,         \* stands for the random mutation_id of every seeding
  Batches,        \* the op lists clients send
  Seeds,          \* the <<path, version>> pairs the harness seeds
  LegacyRequests, \* what clients send to fabric_mutate and fabric_publish
  None,           \* Python's None
  MaxGen,         \* bound on a host's generation
  MaxJournal      \* bound on the length of the journal

VARIABLES
  gen,            \* host.generation
  status,         \* host.status
  lease,          \* the active attachment of the generation: none, live, lapsed
  entries,        \* v2_entries
  journal,        \* v2_journal
  legacy,         \* fabric_files: the bytes served by the legacy namespace
  cas,            \* fabric_cas: the versions whose bytes are stored
  receipts,       \* v2_receipts
  work,           \* the commit that holds _state_lock, None when it is free
  author,         \* auxiliary: which request wrote each journal record
  strayed         \* auxiliary: the paths whose legacy bytes a legacy request wrote last

hostVars == <<gen, status, lease>>
fabricVars == <<entries, journal, legacy, cas, receipts, work, author, strayed>>
vars == <<gen, status, lease, entries, journal, legacy, cas, receipts, work, author, strayed>>

-----------------------------------------------------------------------------
(* Records. *)

Kinds == {"file", "dir"}

Entry == [kind : Kinds, digest : Digests \cup {None}, seq : Nat]

(* One element of the "ops" of a commit; absent fields are None. *)
Op == [op : {"put", "delete", "rename"}, path : Paths, kind : Kinds \cup {None},
       digest : Digests \cup {None}, prev : Digests \cup {None},
       dest : Paths \cup {None}, source : Paths \cup {None},
       sprev : Digests \cup {None}]

(* `blocks` is the version whose block list the record carries. *)
Change == [op : {"put", "delete", "rename"}, path : Paths, kind : Kinds,
           digest : Digests \cup {None}, prev : Digests \cup {None},
           dest : Paths \cup {None}, source : Paths \cup {None},
           sprev : Digests \cup {None}, blocks : Digests \cup {None},
           mutation : Mutations \cup {SeedId}]

(* The identity a receipt is stored under. *)
Key == [host : Hosts, gen : 1..MaxGen, mutation : Mutations]

Verdict == [status : {"applied", "rejected"}, seq : Nat]

Receipt == [ops : Batches, verdicts : Seq(Verdict), seq : Nat]

(* The commit handler's frame: its receipt key, the generation of the      *)
(* attachment the request named, its operations, the next one (from 1)     *)
(* and the verdicts so far.                                                *)
Commit == [key : Key, attached : 1..MaxGen, ops : Batches, next : Nat \ {0},
           verdicts : Seq(Verdict)]

Author == [key : Key, attached : 1..MaxGen, index : Nat \ {0}]

(* A mutation or a publication of the legacy namespace. *)
LegacyRequest == [op : {"put", "delete", "rename", "publish"}, path : Paths,
                  digest : (Digests \ SparseDigests) \cup {None}, dest : Paths \cup {None}]

WellFormedLegacy(r) ==
  /\ r.op \in {"put", "publish"} <=> r.digest # None
  /\ r.op = "rename" <=> r.dest # None
  /\ r.dest # r.path

IsFilePut(o) == o.op = "put" /\ o.kind = "file"

(* What the normalisation loop of fabric_v2_commit accepts. *)
Related(o) == {o.dest, o.source} \ {None}

OpPaths(o) == {o.path} \cup Related(o)

WellFormedOp(o) ==
  /\ o.op = "rename" <=> o.dest # None
  /\ o.source # None <=> o.sprev # None
  /\ o.source # None => IsFilePut(o)
  /\ IsFilePut(o) <=> o.op = "put" /\ o.digest # None
  /\ o.op = "put" => o.kind # None
  /\ \A r \in Related(o) : /\ r # o.path
                           /\ r \notin Below[o.path]
                           /\ o.path \notin Below[r]

WellFormed(ops) ==
  /\ ops # <<>>
  /\ \A i \in DOMAIN ops : ops[i] \in Op /\ WellFormedOp(ops[i])
  /\ \A i, j \in DOMAIN ops : i # j => OpPaths(ops[i]) \cap OpPaths(ops[j]) = {}

ASSUME FabricAssumption ==
  /\ None \notin Paths \cup Digests \cup Kinds
  /\ None \notin Entry
  /\ None \notin Commit
  /\ None \notin Receipt
  /\ None \notin Author
  /\ SeedId \notin Mutations
  /\ Below \in [Paths -> SUBSET Paths]
  /\ SparseDigests \subseteq Digests
  /\ Batches \subseteq Seq(Op)
  /\ Seeds \subseteq Paths \X Digests
  /\ \A ops \in Batches : WellFormed(ops)
  /\ LegacyRequests \subseteq LegacyRequest
  /\ \A r \in LegacyRequests : WellFormedLegacy(r)
  /\ MaxGen \in Nat \ {0}
  /\ MaxJournal \in Nat

-----------------------------------------------------------------------------
(* The host and its attachment: fixture_plane.py.  At most one attachment  *)
(* of a host is active, and it is of the host's current generation.        *)

LockFree == work = None

(* attach: reuses the active attachment or creates one, and connects the   *)
(* host.  It does not look at host.status: the signature check that does   *)
(* ran before, without the lock.                                           *)
Attach(h) ==
  /\ LockFree
  /\ gen[h] > 0
  /\ status' = [status EXCEPT ![h] = "connected"]
  /\ lease' = [lease EXCEPT ![h] = "live"]
  /\ UNCHANGED <<gen, fabricVars>>

(* The lease runs out, and a heartbeat revives it.                         *)
LeaseLapses(h) ==
  /\ lease[h] = "live"
  /\ lease' = [lease EXCEPT ![h] = "lapsed"]
  /\ UNCHANGED <<gen, status, fabricVars>>

Heartbeat(h) ==
  /\ lease[h] = "lapsed"
  /\ lease' = [lease EXCEPT ![h] = "live"]
  /\ UNCHANGED <<gen, status, fabricVars>>

(* _transition: disconnect and revoke end the generation. *)
Transition(h, to) ==
  /\ LockFree
  /\ gen[h] < MaxGen
  /\ status[h] # "revoked"
  /\ to = "disconnected" => status[h] = "connected"
  /\ status' = [status EXCEPT ![h] = to]
  /\ gen' = [gen EXCEPT ![h] = @ + 1]
  /\ lease' = [lease EXCEPT ![h] = "none"]
  /\ UNCHANGED fabricVars

(* Variant with a fault: the attachment's generation is not compared. *)
Authority_AnyGeneration(h, g) ==
  /\ lease[h] = "live"
  /\ status[h] = "connected"

(* _require_fabric_attachment and _v2_authority, for a request that names  *)
(* the attachment of generation g.                                         *)
Authority(h, g) ==
  /\ lease[h] = "live"
  /\ gen[h] = g
  /\ status[h] = "connected"

-----------------------------------------------------------------------------
(* Stored bytes and seeding. *)

(* fabric_direct_put: the client's direct upload of one version. *)
Upload(d) ==
  /\ LockFree
  /\ d \notin cas
  /\ cas' = cas \cup {d}
  /\ UNCHANGED <<hostVars, entries, journal, legacy, receipts, work, author, strayed>>

(* The next journal sequence number. *)
NextSeq == Len(journal) + 1

SeedRecord(p, d) ==
  [op |-> "put", path |-> p, kind |-> "file", digest |-> d, prev |-> None,
   dest |-> None, source |-> None, sprev |-> None, blocks |-> d, mutation |-> SeedId]

(* Variant with a fault: the stored prefix of a sparse version is exposed  *)
(* as its legacy bytes.                                                    *)
Seed_ExposesPrefix(p, d) ==
  /\ LockFree
  /\ Len(journal) < MaxJournal
  /\ entries[p] = None
  /\ cas' = cas \cup {d}
  /\ entries' = [entries EXCEPT ![p] = [kind |-> "file", digest |-> d, seq |-> NextSeq]]
  /\ legacy' = [legacy EXCEPT ![p] = d]
  /\ strayed' = strayed \ {p}
  /\ journal' = Append(journal, SeedRecord(p, d))
  /\ author' = Append(author, None)
  /\ UNCHANGED <<hostVars, receipts, work>>

(* seed_cold_file and seed_canonical_raw_file: a new path only.  A sparse  *)
(* version exists in the v2 namespace alone.                               *)
Seed(p, d) ==
  /\ LockFree
  /\ Len(journal) < MaxJournal
  /\ entries[p] = None
  /\ cas' = cas \cup {d}
  /\ entries' = [entries EXCEPT ![p] = [kind |-> "file", digest |-> d, seq |-> NextSeq]]
  /\ legacy' = IF d \in SparseDigests THEN legacy ELSE [legacy EXCEPT ![p] = d]
  /\ strayed' = IF d \in SparseDigests THEN strayed ELSE strayed \ {p}
  /\ journal' = Append(journal, SeedRecord(p, d))
  /\ author' = Append(author, None)
  /\ UNCHANGED <<hostVars, receipts, work>>

-----------------------------------------------------------------------------
(* fabric_v2_commit, up to its loop. *)

FileDigests(ops) == {ops[i].digest : i \in {j \in DOMAIN ops : IsFilePut(ops[j])}}

KeyOf(h, m) == [host |-> h, gen |-> gen[h], mutation |-> m]

(* Variant with a fault: no receipt is looked up. *)
Fresh_ForgetsReceipt(h, g, m, ops) ==
  /\ LockFree
  /\ Authority(h, g)
  /\ FileDigests(ops) \cap SparseDigests = {}

(* A request the handler has not answered before: a repeated identity is   *)
(* answered from its receipt, or refused when the payload differs, and     *)
(* changes nothing.  A file above the fixture's size limit of 4 MiB is     *)
(* refused; a smaller one with holes is stored with its zeros written out. *)
Fresh(h, g, m, ops) ==
  /\ LockFree
  /\ Authority(h, g)
  /\ receipts[KeyOf(h, m)] = None
  /\ FileDigests(ops) \cap SparseDigests = {}

(* Inline blocks are stored before the blocks of the whole batch are       *)
(* verified; when one is still missing the commit is refused there.        *)
CommitStagesOnly(h, g, m, ops, inline) ==
  /\ Fresh(h, g, m, ops)
  /\ ~ FileDigests(ops) \subseteq cas \cup inline
  /\ ~ inline \subseteq cas
  /\ cas' = cas \cup inline
  /\ UNCHANGED <<hostVars, entries, journal, legacy, receipts, work, author, strayed>>

(* Variant with a fault: the inline blocks are verified, not stored. *)
CommitBegin_StagesNothing(h, g, m, ops, inline) ==
  /\ Fresh(h, g, m, ops)
  /\ Len(journal) + Len(ops) <= MaxJournal
  /\ FileDigests(ops) \subseteq cas \cup inline
  /\ work' = [key |-> KeyOf(h, m), attached |-> g, ops |-> ops, next |-> 1,
              verdicts |-> <<>>]
  /\ UNCHANGED <<hostVars, entries, journal, legacy, cas, receipts, author, strayed>>

CommitBegin(h, g, m, ops, inline) ==
  /\ Fresh(h, g, m, ops)
  /\ Len(journal) + Len(ops) <= MaxJournal
  /\ FileDigests(ops) \subseteq cas \cup inline
  /\ cas' = cas \cup inline
  /\ work' = [key |-> KeyOf(h, m), attached |-> g, ops |-> ops, next |-> 1,
              verdicts |-> <<>>]
  /\ UNCHANGED <<hostVars, entries, journal, legacy, receipts, author, strayed>>

-----------------------------------------------------------------------------
(* The loop of fabric_v2_commit, one operation per action. *)

DigestAt(p) == IF entries[p] = None THEN None ELSE entries[p].digest

FileAt(p) == entries[p] # None /\ entries[p].kind = "file"

OpPending == work # None /\ work.next \in DOMAIN work.ops

CurrentOp == work.ops[work.next]

(* Variant with a fault: a moved source's version is not compared. *)
Diverged_AnySource(o) ==
  \/ DigestAt(o.path) # o.prev
  \/ o.op = "put" /\ o.prev = None /\ entries[o.path] # None
  \/ o.op = "rename" /\ ~ (FileAt(o.path) /\ entries[o.dest] = None)

(* The predecessors an operation names do not hold: it is rejected alone. *)
Diverged(o) ==
  \/ DigestAt(o.path) # o.prev
  \/ o.op = "put" /\ o.prev = None /\ entries[o.path] # None
  \/ o.op = "rename" /\ ~ (FileAt(o.path) /\ entries[o.dest] = None)
  \/ o.source # None /\ ~ (FileAt(o.source) /\ DigestAt(o.source) = o.sprev)

(* Variant with a fault: the namespace is taken to be flat. *)
HasChildren_Never(p) == FALSE

HasChildren(p) == \E q \in Below[p] : entries[q] # None

(* Variant with a fault: only the operation's own kind is recorded. *)
KindOf_AsSent(o) == o.kind

KindOf(o) == IF o.kind # None THEN o.kind
             ELSE IF entries[o.path] # None THEN entries[o.path].kind
             ELSE "file"

BlocksSent(o) == IF IsFilePut(o) THEN o.digest ELSE None

(* The record of a rename announces the v2 version with the block list of  *)
(* the legacy bytes that moved with it.                                    *)
RecordOf(o, m) ==
  [op |-> o.op, path |-> o.path, kind |-> KindOf(o),
   digest |-> IF o.op = "rename" THEN DigestAt(o.path) ELSE o.digest,
   prev |-> o.prev, dest |-> o.dest, source |-> o.source, sprev |-> o.sprev,
   blocks |-> IF o.op = "rename" THEN legacy[o.path] ELSE BlocksSent(o),
   mutation |-> m]

NextOp(verdict) ==
  work' = [key |-> work.key, attached |-> work.attached, ops |-> work.ops,
           next |-> work.next + 1, verdicts |-> Append(work.verdicts, verdict)]

(* Variant with a fault: the verdict carries the previous record's number. *)
Journalled_OffByOne ==
  /\ journal' = Append(journal, RecordOf(CurrentOp, work.key.mutation))
  /\ author' = Append(author, [key |-> work.key, attached |-> work.attached,
                               index |-> work.next])
  /\ NextOp([status |-> "applied", seq |-> Len(journal)])
  /\ UNCHANGED <<hostVars, cas, receipts>>

(* What every applied operation ends with: its record and its verdict. *)
Journalled ==
  /\ journal' = Append(journal, RecordOf(CurrentOp, work.key.mutation))
  /\ author' = Append(author, [key |-> work.key, attached |-> work.attached,
                               index |-> work.next])
  /\ NextOp([status |-> "applied", seq |-> NextSeq])
  /\ UNCHANGED <<hostVars, cas, receipts>>

RejectOp ==
  /\ OpPending
  /\ Diverged(CurrentOp)
  /\ NextOp([status |-> "rejected", seq |-> 0])
  /\ UNCHANGED <<hostVars, entries, journal, legacy, cas, receipts, author, strayed>>

ApplyPut ==
  LET o == CurrentOp IN
  /\ OpPending
  /\ o.op = "put"
  /\ ~ Diverged(o)
  /\ entries' = [p \in Paths |->
       CASE p = o.path   -> [kind |-> o.kind, digest |-> o.digest, seq |-> NextSeq]
         [] p = o.source -> None
         [] OTHER        -> entries[p]]
  /\ legacy' = [p \in Paths |->
       CASE p = o.path /\ o.kind = "file" -> o.digest
         [] p = o.source                  -> None
         [] OTHER                         -> legacy[p]]
  /\ strayed' = IF o.kind = "file" THEN strayed \ {o.path, o.source} ELSE strayed \ {o.source}
  /\ Journalled

ApplyDelete ==
  LET o == CurrentOp IN
  /\ OpPending
  /\ o.op = "delete"
  /\ ~ Diverged(o)
  /\ ~ HasChildren(o.path)
  /\ entries' = [entries EXCEPT ![o.path] = None]
  /\ legacy' = [legacy EXCEPT ![o.path] = None]
  /\ strayed' = strayed \ {o.path}
  /\ Journalled

(* FIXTURE_DIRECTORY_DELETE_UNSUPPORTED leaves the handler here: what the  *)
(* earlier operations did stays, and no receipt is stored.                 *)
DeleteUnsupported ==
  LET o == CurrentOp IN
  /\ OpPending
  /\ o.op = "delete"
  /\ ~ Diverged(o)
  /\ HasChildren(o.path)
  /\ work' = None
  /\ UNCHANGED <<hostVars, entries, journal, legacy, cas, receipts, author, strayed>>

(* Variant with a fault: the moved entry keeps its sequence number. *)
Moved_KeepsSeq(o) ==
  [p \in Paths |->
    CASE p = o.dest -> entries[o.path]
      [] p = o.path -> None
      [] OTHER      -> entries[p]]

(* The v2 entry moved by a rename. *)
Moved(o) ==
  [p \in Paths |->
    CASE p = o.dest -> [kind |-> entries[o.path].kind, digest |-> entries[o.path].digest,
                        seq |-> NextSeq]
      [] p = o.path -> None
      [] OTHER      -> entries[p]]

(* A path that is renamed takes its history with it. *)
StrayedMoved(o) ==
  (strayed \ {o.path, o.dest}) \cup IF o.path \in strayed THEN {o.dest} ELSE {}

ApplyRename ==
  LET o == CurrentOp IN
  /\ OpPending
  /\ o.op = "rename"
  /\ ~ Diverged(o)
  /\ legacy[o.path] # None
  /\ entries' = Moved(o)
  /\ legacy' = [legacy EXCEPT ![o.dest] = legacy[o.path], ![o.path] = None]
  /\ strayed' = StrayedMoved(o)
  /\ Journalled

(* A file with no legacy bytes: fabric_files.pop raises KeyError after the *)
(* v2 entry has moved, and the handler leaves without a journal record.    *)
RenameFault ==
  LET o == CurrentOp IN
  /\ OpPending
  /\ o.op = "rename"
  /\ ~ Diverged(o)
  /\ legacy[o.path] = None
  /\ entries' = Moved(o)
  /\ work' = None
  /\ strayed' = StrayedMoved(o)
  /\ UNCHANGED <<hostVars, journal, legacy, cas, receipts, author>>

(* After the loop: the receipt every repetition will be answered with. *)
CommitFinish ==
  /\ work # None
  /\ work.next > Len(work.ops)
  /\ receipts' = [receipts EXCEPT ![work.key] =
       [ops |-> work.ops, verdicts |-> work.verdicts, seq |-> Len(journal)]]
  /\ work' = None
  /\ UNCHANGED <<hostVars, entries, journal, legacy, cas, author, strayed>>

-----------------------------------------------------------------------------
(* The legacy namespace: fabric_mutate and fabric_publish.  They ask for a *)
(* live attachment alone, and write fabric_files without v2_entries.       *)

LegacyServed == LockFree /\ \E h \in Hosts : lease[h] = "live"

(* No path of ps is a directory of another. *)
Portable(ps) == \A p \in ps : Below[p] \cap ps = {}

Live == {p \in Paths : legacy[p] # None}

(* A mutation puts what has been uploaded and verified. *)
LegacyPut(r) ==
  /\ LegacyServed
  /\ r.op = "put"
  /\ r.digest \in cas
  /\ Portable(Live \cup {r.path})
  /\ legacy' = [legacy EXCEPT ![r.path] = r.digest]
  /\ strayed' = strayed \cup {r.path}
  /\ UNCHANGED <<hostVars, entries, journal, cas, receipts, work, author>>

LegacyDelete(r) ==
  /\ LegacyServed
  /\ r.op = "delete"
  /\ legacy[r.path] # None
  /\ legacy' = [legacy EXCEPT ![r.path] = None]
  /\ strayed' = strayed \cup {r.path}
  /\ UNCHANGED <<hostVars, entries, journal, cas, receipts, work, author>>

LegacyRename(r) ==
  /\ LegacyServed
  /\ r.op = "rename"
  /\ legacy[r.path] # None
  /\ Portable((Live \ {r.path}) \cup {r.dest})
  /\ legacy' = [legacy EXCEPT ![r.dest] = legacy[r.path], ![r.path] = None]
  /\ strayed' = strayed \cup {r.path, r.dest}
  /\ UNCHANGED <<hostVars, entries, journal, cas, receipts, work, author>>

(* fabric_publish brings the bytes with it. *)
LegacyPublish(r) ==
  /\ LegacyServed
  /\ r.op = "publish"
  /\ cas' = cas \cup {r.digest}
  /\ legacy' = [legacy EXCEPT ![r.path] = r.digest]
  /\ strayed' = strayed \cup {r.path}
  /\ UNCHANGED <<hostVars, entries, journal, receipts, work, author>>

-----------------------------------------------------------------------------
Init ==
  /\ gen = [h \in Hosts |-> 1]
  /\ status = [h \in Hosts |-> "connected"]
  /\ lease = [h \in Hosts |-> "none"]
  /\ entries = [p \in Paths |-> None]
  /\ journal = <<>>
  /\ legacy = [p \in Paths |-> None]
  /\ cas = {}
  /\ receipts = [k \in Key |-> None]
  /\ work = None
  /\ author = <<>>
  /\ strayed = {}

HostStep(h) ==
  \/ Attach(h)
  \/ LeaseLapses(h)
  \/ Heartbeat(h)
  \/ \E to \in {"disconnected", "revoked"} : Transition(h, to)

CommitRequest(h) ==
  \E g \in 1..MaxGen, m \in Mutations, ops \in Batches :
    \E inline \in SUBSET FileDigests(ops) :
      \/ CommitStagesOnly(h, g, m, ops, inline)
      \/ CommitBegin(h, g, m, ops, inline)

CommitStep ==
  \/ RejectOp
  \/ ApplyPut
  \/ ApplyDelete
  \/ DeleteUnsupported
  \/ ApplyRename
  \/ RenameFault
  \/ CommitFinish

LegacyStep(r) ==
  \/ LegacyPut(r)
  \/ LegacyDelete(r)
  \/ LegacyRename(r)
  \/ LegacyPublish(r)

Next ==
  \/ \E h \in Hosts : HostStep(h) \/ CommitRequest(h)
  \/ \E d \in Digests \ SparseDigests : Upload(d)
  \/ \E x \in Seeds : Seed(x[1], x[2])
  \/ \E r \in LegacyRequests : LegacyStep(r)
  \/ CommitStep

Spec == Init /\ [][Next]_vars

-----------------------------------------------------------------------------
(* The records this fabric may publish, and the specification its journal  *)
(* implements.                                                             *)

BatchOps == UNION {{ops[i] : i \in DOMAIN ops} : ops \in Batches}

RecordFor(o, kind, blocks, m) ==
  [op |-> o.op, path |-> o.path, kind |-> kind,
   digest |-> IF o.op = "rename" THEN o.prev ELSE o.digest,
   prev |-> o.prev, dest |-> o.dest, source |-> o.source, sprev |-> o.sprev,
   blocks |-> blocks, mutation |-> m]

(* An operation that names no kind is recorded with its path's, a rename   *)
(* with the blocks it found.                                               *)
RecordsFor(o, m) ==
  {RecordFor(o, kind, blocks, m) :
     kind \in IF o.kind = None THEN Kinds ELSE {o.kind},
     blocks \in IF o.op = "rename" THEN Digests ELSE {BlocksSent(o)}}

Published ==
  (UNION {RecordsFor(o, m) : o \in BatchOps, m \in Mutations})
    \cup {SeedRecord(x[1], x[2]) : x \in Seeds}

Feed == INSTANCE ChangeFeed WITH
  Ids <- Mutations \cup {SeedId},
  Changes <- Published

-----------------------------------------------------------------------------
(* Properties. *)

(* The type of every variable. *)
TypeOK ==
  /\ gen \in [Hosts -> 1..MaxGen]
  /\ status \in [Hosts -> {"connected", "disconnected", "revoked"}]
  /\ lease \in [Hosts -> {"none", "live", "lapsed"}]
  /\ entries \in [Paths -> Entry \cup {None}]
  /\ journal \in Seq(Change)
  /\ legacy \in [Paths -> Digests \cup {None}]
  /\ cas \subseteq Digests
  /\ receipts \in [Key -> Receipt \cup {None}]
  /\ work \in Commit \cup {None}
  /\ author \in Seq(Author \cup {None})
  /\ Len(author) = Len(journal)
  /\ strayed \subseteq Paths

(* The paths whose legacy bytes a legacy request may take away. *)
LegacyRemoves == {r.path : r \in {x \in LegacyRequests : x.op \in {"delete", "rename"}}}

(* The clients of the acceptance rename, in the v2 namespace, files whose  *)
(* bytes are all stored and which no legacy request takes away, and name   *)
(* no other kind in a rename: the handler checks none of it.               *)
CleanRenames ==
  \A o \in BatchOps : o.op = "rename" => /\ o.prev \notin SparseDigests
                                         /\ o.kind \in {None, "file"}
                                         /\ o.path \notin LegacyRemoves

(* A commit admitted under the bound has room for the rest of its records. *)
RoomLeft ==
  work # None => Len(journal) + Len(work.ops) + 1 <= MaxJournal + work.next

(* The commit handler and the seeds implement the change feed: the         *)
(* namespace only ever changes together with its journal, one record at a  *)
(* time, each a compare-and-set of the path it names.                      *)
ImplementsFeed == Feed!Spec

(* A snapshot serves what the journal describes (ChangeFeed). *)
NamespaceIsJournal == Feed!NamespaceIsJournal

(* Every record's predecessor was in place when it was written (ChangeFeed). *)
NoLostUpdate == Feed!NoLostUpdate

(* The verdicts vs on the operations ops of request k are true: each       *)
(* "applied" names the record that this operation of this request wrote,   *)
(* which says what the operation said, and later operations wrote later    *)
(* records.                                                                *)
Truthful(k, ops, vs, upto) ==
  /\ upto <= Len(journal)
  /\ \A i \in DOMAIN vs : vs[i].status = "applied" =>
       LET n == vs[i].seq IN
       /\ n \in 1..upto
       /\ author[n] # None
       /\ author[n].key = k
       /\ author[n].index = i
       /\ journal[n] \in RecordsFor(ops[i], k.mutation)
  /\ \A i, j \in DOMAIN vs :
       i < j /\ vs[i].status = "applied" /\ vs[j].status = "applied" => vs[i].seq < vs[j].seq

(* A receipt answers for every operation of its request, and tells the     *)
(* truth.                                                                  *)
ReceiptsNameRecords ==
  \A k \in Key : receipts[k] # None =>
    LET r == receipts[k] IN
    /\ Len(r.verdicts) = Len(r.ops)
    /\ Truthful(k, r.ops, r.verdicts, r.seq)

(* What makes it inductive: so do the verdicts of the commit under way.    *)
VerdictsSoFar ==
  work # None =>
    /\ Len(work.verdicts) = work.next - 1
    /\ work.next <= Len(work.ops) + 1
    /\ Truthful(work.key, work.ops, work.verdicts, Len(journal))

(* Whatever a client may be told to fetch is stored: the bytes of every    *)
(* file entry, of every version a put or rename in the journal announces,  *)
(* and of every block list a record carries, also where it is the list of  *)
(* legacy bytes that a legacy request wrote there.                         *)
ContentStored ==
  /\ \A p \in Paths : FileAt(p) => entries[p].digest \in cas
  /\ \A i \in DOMAIN journal :
       /\ journal[i].op # "delete" /\ journal[i].digest # None => journal[i].digest \in cas
       /\ journal[i].blocks # None => journal[i].blocks \in cas

(* The legacy namespace serves the v2 version of every file whose bytes    *)
(* the v2 handlers wrote last, through all moves and renames of it, and    *)
(* never the physical prefix of a sparse one as if it were the whole file. *)
(* A path that a legacy request has written since (strayed) is of two      *)
(* versions in the code: fixture_control_plane.py:2843, 2864, 2908, 3024.  *)
LegacyServesVersion ==
  \A p \in Paths :
    /\ FileAt(p) /\ entries[p].digest \notin SparseDigests /\ p \notin strayed
         => legacy[p] = entries[p].digest
    /\ legacy[p] \notin SparseDigests

(* What makes the two properties above inductive: legacy bytes are stored, *)
(* and the commit under way has only whole, stored versions.               *)
StorageInv ==
  /\ LegacyServesVersion
  /\ ContentStored
  /\ \A p \in Paths :
       /\ legacy[p] # None => legacy[p] \in cas
       /\ FileAt(p) => entries[p].digest # None
  /\ work # None => FileDigests(work.ops) \subseteq cas \ SparseDigests

(* What makes a clean rename find its bytes: no path that a rename may     *)
(* name loses those of a whole file.                                       *)
RenamesFindBytes ==
  \A p \in Paths \ LegacyRemoves :
    FileAt(p) /\ entries[p].digest \notin SparseDigests => legacy[p] # None

(* The records a step appends. *)
NewRecords == Len(journal) + 1 .. Len(journal')

(* Exact replay: once a request has its receipt, the receipt stays and no  *)
(* repetition of the request writes to the journal again.                  *)
ReplayWritesNothing ==
  [][ /\ \A k \in Key : receipts[k] # None => receipts'[k] = receipts[k]
      /\ \A n \in NewRecords :
           author'[n] # None => receipts[author'[n].key] = None ]_vars

(* The generation fence: a record is written only for a request that named *)
(* the attachment of the generation its host still has, while the host is  *)
(* connected, however long the request was under way.                      *)
GenerationFence ==
  [][ \A n \in NewRecords : author'[n] # None =>
        LET a == author'[n] IN
        /\ a.attached = gen[a.key.host]
        /\ a.key.gen = gen[a.key.host]
        /\ status[a.key.host] = "connected" ]_vars

(* What makes the two properties above inductive: the lock keeps the host  *)
(* and the receipts as the commit under way found them.                    *)
WorkFenced ==
  work # None =>
    /\ work.attached = gen[work.key.host]
    /\ work.key.gen = gen[work.key.host]
    /\ status[work.key.host] = "connected"
    /\ receipts[work.key] = None

(* A commit that ends without a receipt has applied none of its            *)
(* operations.  The code does not do this.                                 *)
RejectedCommitLeavesNothing ==
  [][ work # None /\ work' = None /\ receipts' = receipts =>
        \A i \in DOMAIN work.verdicts : work.verdicts[i].status = "rejected" ]_vars

(* The namespace changes only together with the journal.  The code does    *)
(* not do this when a file is renamed that has no legacy bytes.            *)
ChangesAreJournalled ==
  [][ entries' # entries => Len(journal') = Len(journal) + 1 ]_vars
=============================================================================
