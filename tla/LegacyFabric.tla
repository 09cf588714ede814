----------------------------- MODULE LegacyFabric -----------------------------
(***************************************************************************)
(* The legacy fabric: files under numbered manifests, a log of changes     *)
(* between the manifests, and mutations with receipts                      *)
(* (fixture_control_plane.py: fabric_manifest, fabric_read,                *)
(* fabric_changes, fabric_mutate, fabric_mutation_status, fabric_publish). *)
(*                                                                         *)
(* The v2 handlers and the seeds write fabric_files as well, but neither   *)
(* advance the manifest nor touch the tombstones (Elsewhere).  The client  *)
(* is the node of the account: it reads the manifest page by page, follows *)
(* the changes, and makes its mutations from what it has read; it may send *)
(* them any number of times, at any later moment.                          *)
(*                                                                         *)
(* Abstracted: a file is the set of its blocks, a digest is what it is a   *)
(* digest of.  Paths are numbers, in the order of their names.  Every      *)
(* request is one step: all handlers hold _state_lock throughout.  A       *)
(* refused request changes nothing and is no step.                         *)
(***************************************************************************)
EXTENDS Integers, Sequences

CONSTANTS
  Paths,          \* the paths of the namespace, in sorted order
  Clashes,        \* pairs of paths that are not portable together
  Contents,       \* files, as sets of blocks
  Blocks,         \* blocks, by their digests
  Mutations,      \* mutation_id values
  Puts,           \* what mutations put: pairs of a path and a file
  Publications,   \* what is published
  Bypasses,       \* what is written elsewhere; no file for a removal
  None,           \* Python's None
  MaxGen,         \* bound on the host's generation
  MaxManifest,    \* bound on fabric_generation
  MaxElsewhere    \* bound on the writes that bypass the manifest

VARIABLES
  files,          \* fabric_files and fabric_file_blocks
  tombstones,     \* fabric_tombstones
  history,        \* fabric_change_history, _fabric_digests, _fabric_block_snapshots
  receipts,       \* fabric_mutation_receipts
  proofs,         \* fabric_verification_operations
  gen,            \* host.generation
  attached,       \* whether the generation has a live attachment
  requests,       \* the request the client made for each mutation
  cursor,         \* the client: the manifest it has, None when it has none
  view,           \* the client: the files of that manifest
  page,           \* the client: the manifest it is reading, page by page
  part,           \* the client: the range of a file it read last
  elsewhere,      \* the number of writes that bypassed the manifest
  proved          \* auxiliary: what this generation ever proved for each mutation

plane == <<files, tombstones, history, receipts>>
host == <<gen, attached>>
client == <<cursor, view, page, part>>
vars == <<files, tombstones, history, receipts, proofs, gen, attached, requests, cursor, view,
          page, part, elsewhere, proved>>

Fence == INSTANCE UploadFence WITH Authorities <- 1..MaxGen

-----------------------------------------------------------------------------
(* Records. *)

(* What a manifest says of a path; None when it says nothing. *)
Mark == [kind : {"file", "tombstone"}, of : Contents]
Digest == [Paths -> Mark \cup {None}]

FileMark(c) == [kind |-> "file", of |-> c]
Tombstone(c) == [kind |-> "tombstone", of |-> c]

Change == [prev : Digest, digest : Digest, entries : [Paths -> Mark \cup {None}],
           by : Mutations \cup {None}]

Cursor == [gen : Nat, digest : Digest]
Page == [gen : Nat, digest : Digest, after : Paths, got : [Paths -> Contents \cup {None}]]

(* "expect" and "expectDest" are marks, or None for "absent"; "base" is a  *)
(* cursor, or None for the base of generation zero.                        *)
Request == [op : {"put", "delete", "rename"}, path : Paths, dest : Paths \cup {None},
            content : Contents \cup {None}, expect : Mark \cup {None},
            expectDest : Mark \cup {None}, base : Cursor \cup {None}]

Receipt == [gen : 1..MaxGen, manifest : Nat]

ASSUME LegacyAssumption ==
  /\ Paths \subseteq Nat
  /\ Clashes \subseteq Paths \X Paths
  /\ Contents \subseteq SUBSET Blocks
  /\ Puts \cup Publications \subseteq Paths \X Contents
  /\ Bypasses \subseteq Paths \X (Contents \cup {None})
  /\ None \notin Paths
  /\ None \notin Contents
  /\ None \notin Mutations
  /\ None \notin Mark
  /\ None \notin Cursor
  /\ None \notin Page
  /\ None \notin Request
  /\ None \notin Receipt
  /\ None \notin Fence!Proof
  /\ MaxGen \in Nat \ {0}
  /\ MaxManifest \in Nat
  /\ MaxElsewhere \in Nat

-----------------------------------------------------------------------------
(* Helpers. *)

Generation == Len(history)

NoFiles == [p \in Paths |-> None]

DigestOf(f, t) ==
  [p \in Paths |-> IF f[p] # None THEN FileMark(f[p])
                   ELSE IF t[p] # None THEN Tombstone(t[p]) ELSE None]

ManifestDigest == DigestOf(files, tombstones)

FilesIn(d) == [p \in Paths |-> IF d[p] # None /\ d[p].kind = "file" THEN d[p].of ELSE None]

(* The files after the entries of a change. *)
Patched(f, entries) ==
  [p \in Paths |-> IF entries[p] = None THEN f[p]
                   ELSE IF entries[p].kind = "file" THEN entries[p].of ELSE None]

Matches(p, expect) ==
  IF expect = None THEN files[p] = None
  ELSE IF expect.kind = "file" THEN files[p] = expect.of
  ELSE files[p] = None /\ tombstones[p] = expect.of

(* The portability of the whole namespace. *)
Portable(ps) == \A p, q \in ps : <<p, q>> \notin Clashes

Live == {p \in Paths : files[p] # None}

(* One more manifest, and the change that leads to it. *)
Advance(entries, m) ==
  history' = Append(history,
    [prev |-> ManifestDigest, digest |-> DigestOf(files', tombstones'), entries |-> entries,
     by |-> m])

Entries(p, mark) == [q \in Paths |-> IF q = p THEN mark ELSE None]

-----------------------------------------------------------------------------
(* The host, and writers that bypass the manifest. *)

(* Attaches again after a lapse of the lease or a transition. *)
Attach ==
  /\ attached' = TRUE
  /\ UNCHANGED <<plane, proofs, gen, requests, client, elsewhere, proved>>

Lapse ==
  /\ attached
  /\ attached' = FALSE
  /\ UNCHANGED <<plane, proofs, gen, requests, client, elsewhere, proved>>

EndGeneration ==
  /\ gen < MaxGen
  /\ attached' = FALSE
  /\ gen' = gen + 1
  /\ proved' = [m \in Mutations |-> {}]
  /\ UNCHANGED <<plane, proofs, requests, client, elsewhere>>

(* A v2 commit or a seed puts or deletes a file. *)
Elsewhere(p, c) ==
  /\ elsewhere < MaxElsewhere
  /\ files[p] # c
  /\ files' = [files EXCEPT ![p] = c]
  /\ elsewhere' = elsewhere + 1
  /\ UNCHANGED <<tombstones, history, receipts, proofs, host, requests, client, proved>>

(* Blocks of a put the client has decided on are verified, under the       *)
(* authority of the moment; an attachment is not asked for.                *)
Verify(m, blocks) ==
  /\ requests[m] # None
  /\ requests[m].op = "put"
  /\ receipts[m] = None
  /\ Fence!Prove(m, gen, blocks)
  /\ proved' = [proved EXCEPT ![m] = @ \cup blocks]
  /\ UNCHANGED <<plane, host, requests, client, elsewhere>>

(* A verification operation expires, or a v2 commit uses it up. *)
Expire(m) ==
  /\ proofs[m] # None
  /\ Fence!Drop({m})
  /\ UNCHANGED <<plane, host, requests, client, elsewhere, proved>>

-----------------------------------------------------------------------------
(* The client makes its requests from what it has read. *)

Known == IF cursor = None THEN [p \in Paths |-> None] ELSE cursor.digest

(* What it may expect of a path: what the manifest says of it, what a read *)
(* of the whole file says it is now, or that it is absent.                 *)
Expectations(p) ==
  {Known[p], None} \cup IF files[p] # None THEN {FileMark(files[p])} ELSE {}

Compose(m, r) ==
  /\ requests[m] = None
  /\ requests' = [requests EXCEPT ![m] = r]
  /\ UNCHANGED <<plane, proofs, host, client, elsewhere, proved>>

ComposePut(m, p, c) ==
  \E e \in Expectations(p) :
    Compose(m, [op |-> "put", path |-> p, dest |-> None, content |-> c, expect |-> e,
                expectDest |-> None, base |-> cursor])

ComposeDelete(m, p) ==
  /\ view[p] # None
  /\ \E e \in Expectations(p) :
       Compose(m, [op |-> "delete", path |-> p, dest |-> None, content |-> None, expect |-> e,
                   expectDest |-> None, base |-> cursor])

ComposeRename(m, p, q) ==
  /\ view[p] # None
  /\ p # q
  /\ \E e \in Expectations(p), f \in Expectations(q) :
       Compose(m, [op |-> "rename", path |-> p, dest |-> q, content |-> None, expect |-> e,
                   expectDest |-> f, base |-> cursor])

-----------------------------------------------------------------------------
(* fabric_mutate. *)

(* Variant with a fault: the receipt is of a generation of the host.       *)
Fresh_PerGeneration(m) == receipts[m] # None => receipts[m].gen # gen

(* No receipt: the request was not carried out before. *)
Fresh(m) == receipts[m] = None

(* A mutation is refused when its base is none of the heads there were.    *)
BaseKnown(base) ==
  base # None => base.gen <= Generation /\ base.digest = history[base.gen].digest

(* Variant with a fault: whatever the base had may be used again.          *)
Reusable_OfBase(r) ==
  IF r.base # None /\ FilesIn(history[r.base.gen].digest)[r.path] # None
  THEN FilesIn(history[r.base.gen].digest)[r.path] ELSE {}

(* The blocks that need no proof: those of the file replaced that were     *)
(* already the file's at the base.                                         *)
Reusable(r) ==
  IF /\ r.base # None
     /\ files[r.path] # None
     /\ FilesIn(history[r.base.gen].digest)[r.path] # None
  THEN files[r.path] \cap FilesIn(history[r.base.gen].digest)[r.path]
  ELSE {}

(* _put_descriptor_locked: the others were verified for this mutation by   *)
(* this authority.                                                         *)
Proven(m, r) ==
  \/ r.content \subseteq Reusable(r)
  \/ /\ proofs[m] # None
     /\ proofs[m].by = gen
     /\ r.content \ Reusable(r) \subseteq {e[2] : e \in proofs[m].blocks}

Put(m, r) ==
  /\ r.op = "put"
  /\ Matches(r.path, r.expect)
  /\ Portable(Live \cup {r.path})
  /\ Proven(m, r)
  /\ files' = [files EXCEPT ![r.path] = r.content]
  /\ tombstones' = [tombstones EXCEPT ![r.path] = None]
  /\ Advance(Entries(r.path, FileMark(r.content)), m)

Delete(m, r) ==
  /\ r.op = "delete"
  /\ Matches(r.path, r.expect)
  /\ files[r.path] # None
  /\ files' = [files EXCEPT ![r.path] = None]
  /\ tombstones' = [tombstones EXCEPT ![r.path] = files[r.path]]
  /\ Advance(Entries(r.path, Tombstone(files[r.path])), m)

RenameEntries(p, q) ==
  [x \in Paths |-> IF x = p THEN Tombstone(files[p])
                   ELSE IF x = q THEN FileMark(files[p]) ELSE None]

Rename(m, r) ==
  /\ r.op = "rename"
  /\ Matches(r.path, r.expect)
  /\ Matches(r.dest, r.expectDest)
  /\ files[r.path] # None
  /\ Portable((Live \ {r.path}) \cup {r.dest})
  /\ files' = [files EXCEPT ![r.path] = None, ![r.dest] = files[r.path]]
  /\ tombstones' = [tombstones EXCEPT ![r.path] = files[r.path], ![r.dest] = None]
  /\ Advance(RenameEntries(r.path, r.dest), m)

(* Variant with a fault: the receipt is made before the manifest advances. *)
ReceiptOf_Before(m) == [gen |-> gen, manifest |-> Generation]

ReceiptOf(m) == [gen |-> gen, manifest |-> Generation + 1]

Mutate(m) ==
  /\ attached
  /\ requests[m] # None
  /\ Fresh(m)
  /\ Generation < MaxManifest
  /\ BaseKnown(requests[m].base)
  /\ Put(m, requests[m]) \/ Delete(m, requests[m]) \/ Rename(m, requests[m])
  /\ receipts' = [receipts EXCEPT ![m] = ReceiptOf(m)]
  /\ Fence!Drop({m})
  /\ UNCHANGED <<host, requests, client, elsewhere, proved>>

(* fabric_publish: no receipt, no expectation, no proof. *)
Publish(p, c) ==
  /\ attached
  /\ Generation < MaxManifest
  /\ files' = [files EXCEPT ![p] = c]
  /\ tombstones' = [tombstones EXCEPT ![p] = None]
  /\ Advance(Entries(p, FileMark(c)), None)
  /\ UNCHANGED <<receipts, proofs, host, requests, client, elsewhere, proved>>

-----------------------------------------------------------------------------
(* fabric_manifest: pages, each bound to the manifest of the first. *)

Manifest == [gen |-> Generation, digest |-> ManifestDigest]

CursorValid == page.gen = Generation /\ page.digest = ManifestDigest

(* The paths a page has still to list. *)
Rest == IF page = None THEN Live ELSE {p \in Live : p > page.after}

Listed(ps) ==
  [p \in Paths |-> IF p \in ps THEN files[p]
                   ELSE IF page = None THEN None ELSE page.got[p]]

ManifestPage ==
  /\ attached
  /\ cursor = None
  /\ Generation > 0
  /\ page # None => CursorValid
  /\ \/ \E p \in Rest :
          /\ \E q \in Rest : q > p
          /\ page' = [gen |-> Generation, digest |-> ManifestDigest, after |-> p,
                      got |-> Listed({q \in Rest : q <= p})]
          /\ UNCHANGED <<cursor, view, part>>
     \/ /\ page' = None
        /\ cursor' = Manifest
        /\ view' = Listed(Rest)
        /\ part' = None
  /\ UNCHANGED <<plane, proofs, host, requests, elsewhere, proved>>

(* FABRIC_MANIFEST_CURSOR_INVALID: the client starts again. *)
PageRefused ==
  /\ attached
  /\ page # None
  /\ ~ CursorValid
  /\ page' = None
  /\ UNCHANGED <<plane, proofs, host, requests, cursor, view, part, elsewhere, proved>>

(* fabric_read of a range, bound to the manifest of the client. *)
ReadRange(p) ==
  /\ attached
  /\ cursor = Manifest
  /\ files[p] # None
  /\ part' = [path |-> p, of |-> files[p]]
  /\ UNCHANGED <<plane, proofs, host, requests, cursor, view, page, elsewhere, proved>>

-----------------------------------------------------------------------------
(* fabric_changes. *)

(* Variant with a fault: each change is taken for the successor of the one *)
(* before.                                                                 *)
Leads_Assumed(g, digest) == digest = history[g].digest

(* The change after manifest g leads on from a digest. *)
Leads(g, digest) == digest = history[g].digest /\ history[g + 1].prev = digest

(* An answer holds any number of changes, each leading on from the one     *)
(* before: it comes to as many answers of one change.                      *)
FollowChanges ==
  /\ attached
  /\ cursor # None
  /\ cursor.gen < Generation
  /\ Leads(cursor.gen, cursor.digest)
  /\ cursor' = [gen |-> cursor.gen + 1, digest |-> history[cursor.gen + 1].digest]
  /\ view' = Patched(view, history[cursor.gen + 1].entries)
  /\ part' = None
  /\ UNCHANGED <<plane, proofs, host, requests, page, elsewhere, proved>>

(* Variant with a fault: only the number of the manifest is compared.      *)
HeadChanged_ByNumber == FALSE

(* The head has another digest than the client was told, under its number. *)
HeadChanged == cursor.digest # ManifestDigest

(* requires_full_manifest: the head is another one than the client's, or   *)
(* the changes that were asked for do not all lead on.                     *)
FullRefresh ==
  /\ attached
  /\ cursor # None
  /\ \/ cursor.gen = Generation /\ HeadChanged
     \/ cursor.gen < Generation /\ ~ Leads(cursor.gen, cursor.digest)
     \/ \E g \in (cursor.gen + 1)..(Generation - 1) : ~ Leads(g, history[g].digest)
  /\ cursor' = None
  /\ view' = NoFiles
  /\ part' = None
  /\ UNCHANGED <<plane, proofs, host, requests, page, elsewhere, proved>>

-----------------------------------------------------------------------------
Init ==
  /\ files = NoFiles
  /\ tombstones = [p \in Paths |-> None]
  /\ history = <<>>
  /\ receipts = [m \in Mutations |-> None]
  /\ Fence!Init
  /\ gen = 1
  /\ attached = TRUE
  /\ requests = [m \in Mutations |-> None]
  /\ cursor = None
  /\ view = NoFiles
  /\ page = None
  /\ part = None
  /\ elsewhere = 0
  /\ proved = [m \in Mutations |-> {}]

Writes ==
  \/ \E m \in Mutations, w \in Puts : ComposePut(m, w[1], w[2])
  \/ \E m \in Mutations, p \in Paths : ComposeDelete(m, p)
  \/ \E m \in Mutations, p, q \in Paths : ComposeRename(m, p, q)
  \/ \E m \in Mutations, c \in Contents : Verify(m, c)
  \/ \E m \in Mutations : Expire(m) \/ Mutate(m)
  \/ \E w \in Publications : Publish(w[1], w[2])
  \/ \E w \in Bypasses : Elsewhere(w[1], w[2])

Reads ==
  \/ ManifestPage
  \/ PageRefused
  \/ \E p \in Paths : ReadRange(p)
  \/ FollowChanges
  \/ FullRefresh

Next == Attach \/ Lapse \/ EndGeneration \/ Writes \/ Reads

Spec == Init /\ [][Next]_vars

(* The client keeps reading: the daemon polls for changes for as long as   *)
(* it runs, and reads the manifest when it has none.                       *)
FairSpec ==
  /\ Spec
  /\ WF_vars(ManifestPage)
  /\ WF_vars(PageRefused)
  /\ WF_vars(FollowChanges)
  /\ WF_vars(FullRefresh)

-----------------------------------------------------------------------------
(* The variables keep their types: receipts name manifests there are.      *)
LegacyTypeOK ==
  /\ files \in [Paths -> Contents \cup {None}]
  /\ tombstones \in [Paths -> Contents \cup {None}]
  /\ history \in Seq(Change)
  /\ receipts \in [Mutations -> [gen : 1..MaxGen, manifest : 1..Generation] \cup {None}]
  /\ proofs \in [Mutations -> Fence!Proof \cup {None}]
  /\ gen \in 1..MaxGen
  /\ attached \in BOOLEAN
  /\ requests \in [Mutations -> Request \cup {None}]
  /\ cursor \in Cursor \cup {None}
  /\ view \in [Paths -> Contents \cup {None}]
  /\ page \in Page \cup {None}
  /\ part \in [path : Paths, of : Contents] \cup {None}
  /\ elsewhere \in 0..MaxElsewhere
  /\ proved \in [Mutations -> SUBSET Blocks]

(* Whatever mixture of pages, changes and ranges the client has read, and  *)
(* whoever wrote meanwhile, it holds exactly the files of the manifest it  *)
(* names: no page of one manifest joins a page of another, the changes it  *)
(* was sent lead from its files to those of the next manifest, and every   *)
(* range it has read is of a file of its manifest.                         *)
ViewIsManifest ==
  cursor # None =>
    /\ view = FilesIn(cursor.digest)
    /\ part # None => view[part.path] = part.of

(* However often a mutation is sent, under whichever generations, it is    *)
(* carried out at most once, and fabric_mutation_status finds a receipt    *)
(* exactly when it was, of the manifest it made.                           *)
AppliedOnce ==
  \A m \in Mutations :
    /\ \A g, h \in 1..Generation : history[g].by = m /\ history[h].by = m => g = h
    /\ receipts[m] # None => history[receipts[m].manifest].by = m
    /\ receipts[m] = None => \A g \in 1..Generation : history[g].by # m

(* A put brings no block that merely happens to be stored: each was proved *)
(* for this mutation by the generation that commits it, or is, at that     *)
(* moment, in the file it replaces.  The code also asks that it was in the *)
(* file of the request's base; that is narrower and is not stated here.    *)
ProvenContent ==
  [][\A m \in Mutations :
       receipts[m] = None /\ receipts'[m] # None /\ requests[m].op = "put" =>
         \A b \in requests[m].content :
           \/ b \in proved[m]
           \/ files[requests[m].path] # None /\ b \in files[requests[m].path]]_vars

(* A client that keeps its attachment and keeps reading ends with the      *)
(* current files, though pages are refused, chains of changes break and    *)
(* writers bypass the manifest.                                            *)
CatchesUp ==
  <>[]attached => <>[](Generation > 0 => cursor = Manifest /\ view = files)
=============================================================================
