-------------------------- MODULE LegacyFabric_proofs --------------------------
(* The safety of the legacy fabric, for all sets of paths, files and       *)
(* mutations and all bounds.                                               *)
EXTENDS LegacyFabric, SequenceTheorems, TLAPS

-----------------------------------------------------------------------------
(* Operators. *)

File == Contents \cup {None}

(* What files and tombstones say is a manifest digest, and tells the files. *)
LEMMA DigestTellsFiles ==
  ASSUME NEW f \in [Paths -> File], NEW t \in [Paths -> File]
  PROVE  /\ DigestOf(f, t) \in Digest
         /\ FilesIn(DigestOf(f, t)) = f
<1> DEFINE d == DigestOf(f, t)
<1>1. ASSUME NEW p \in Paths
      PROVE  /\ d[p] \in Mark \cup {None}
             /\ FilesIn(d)[p] = f[p]
  <2>1. \A c \in Contents : FileMark(c) \in Mark /\ Tombstone(c) \in Mark
    BY DEF FileMark, Tombstone, Mark
  <2>2. \A c \in Contents :
          /\ FileMark(c).kind = "file" /\ FileMark(c).of = c
          /\ Tombstone(c).kind = "tombstone"
          /\ FileMark(c) # None /\ Tombstone(c) # None
    BY <2>1, LegacyAssumption DEF FileMark, Tombstone
  <2>3. d[p] = IF f[p] # None THEN FileMark(f[p])
               ELSE IF t[p] # None THEN Tombstone(t[p]) ELSE None
    BY DEF DigestOf
  <2>4. FilesIn(d)[p] = IF d[p] # None /\ d[p].kind = "file" THEN d[p].of ELSE None
    BY DEF FilesIn
  <2> HIDE DEF d
  <2> QED BY <2>1, <2>2, <2>3, <2>4 DEF File
<1>2. d = [p \in Paths |-> d[p]] /\ FilesIn(d) = [p \in Paths |-> FilesIn(d)[p]]
  BY DEF DigestOf, FilesIn
<1> HIDE DEF d
<1>3. d \in Digest
  BY <1>1, <1>2 DEF Digest
<1>4. FilesIn(d) = f
  BY <1>1, <1>2
<1> QED BY <1>3, <1>4 DEF d

(* The files a digest tells are files. *)
LEMMA FilesInType ==
  ASSUME NEW d \in Digest
  PROVE  FilesIn(d) \in [Paths -> File]
BY DEF Digest, Mark, FilesIn, File

(* The files after some entries are files. *)
LEMMA PatchedType ==
  ASSUME NEW f \in [Paths -> File], NEW e \in [Paths -> Mark \cup {None}]
  PROVE  Patched(f, e) \in [Paths -> File]
BY DEF Patched, Mark, File

(* A file mark and a tombstone are marks. *)
LEMMA MarksAreMarks ==
  ASSUME NEW c \in Contents
  PROVE  /\ FileMark(c) \in Mark /\ FileMark(c).kind = "file" /\ FileMark(c).of = c
         /\ Tombstone(c) \in Mark /\ Tombstone(c).kind = "tombstone"
         /\ FileMark(c) # None /\ Tombstone(c) # None
<1>1. FileMark(c) \in Mark /\ Tombstone(c) \in Mark
  BY DEF FileMark, Tombstone, Mark
<1> QED BY <1>1, LegacyAssumption DEF FileMark, Tombstone

(* The entries of one path. *)
LEMMA EntriesType ==
  ASSUME NEW p \in Paths, NEW mark \in Mark
  PROVE  Entries(p, mark) \in [Paths -> Mark \cup {None}]
BY DEF Entries

-----------------------------------------------------------------------------
(* What every change says of the files before it and after it. *)
Leading(c) == Patched(FilesIn(c.prev), c.entries) = FilesIn(c.digest)

HistoryInv == \A g \in 1..Generation : Leading(history[g])

(* What a client has read of a manifest so far. *)
PageInv ==
  page # None =>
    \A p \in Paths :
      page.got[p] = IF p <= page.after THEN FilesIn(page.digest)[p] ELSE None

(* What a generation proved is remembered for as long as it counts. *)
ProofInv ==
  \A m \in Mutations :
    proofs[m] # None =>
      /\ proofs[m].by <= gen
      /\ proofs[m].by = gen => {e[2] : e \in proofs[m].blocks} \subseteq proved[m]

(* A put has a file, a rename another path to go to. *)
RequestInv ==
  \A m \in Mutations :
    requests[m] # None =>
      /\ requests[m].op = "put" => requests[m].content # None
      /\ requests[m].op = "rename" =>
           requests[m].dest # None /\ requests[m].dest # requests[m].path

LegacyInv ==
  /\ LegacyTypeOK
  /\ RequestInv
  /\ HistoryInv
  /\ PageInv
  /\ ProofInv
  /\ ViewIsManifest
  /\ AppliedOnce

(* A step that advances the manifest adds one change, that leads from the  *)
(* files there were to the files there are.                                *)
LEMMA AdvanceLeads ==
  ASSUME LegacyTypeOK, HistoryInv,
         files' \in [Paths -> File], tombstones' \in [Paths -> File],
         NEW e \in [Paths -> Mark \cup {None}], NEW m \in Mutations \cup {None},
         Advance(e, m), files' = Patched(files, e)
  PROVE  /\ history' \in Seq(Change)
         /\ Len(history') = Len(history) + 1
         /\ \A g \in 1..Len(history) : history'[g] = history[g]
         /\ history'[Len(history) + 1].by = m
         /\ HistoryInv'
<1> DEFINE new == [prev |-> ManifestDigest, digest |-> DigestOf(files', tombstones'),
                   entries |-> e, by |-> m]
<1>1. /\ ManifestDigest \in Digest /\ FilesIn(ManifestDigest) = files
      /\ DigestOf(files', tombstones') \in Digest
      /\ FilesIn(DigestOf(files', tombstones')) = files'
  BY DigestTellsFiles DEF ManifestDigest, LegacyTypeOK, File
<1>2. new \in Change
  BY <1>1 DEF Change
<1>3. Leading(new)
  BY <1>1 DEF Leading
<1>4. history' = Append(history, new)
  BY DEF Advance
<1>5. new.by = m
  OBVIOUS
<1> HIDE DEF new
<1>6. /\ history' \in Seq(Change) /\ Len(history') = Len(history) + 1
      /\ \A g \in 1..Len(history) : history'[g] = history[g]
      /\ history'[Len(history) + 1] = new
      /\ Len(history) \in Nat
  BY <1>2, <1>4 DEF LegacyTypeOK
<1>7. \A g \in 1..(Len(history) + 1) : g \in 1..Len(history) \/ g = Len(history) + 1
  BY <1>6
<1>8. HistoryInv'
  BY <1>3, <1>6, <1>7 DEF HistoryInv, Generation, Leading
<1> QED BY <1>5, <1>6, <1>8

(* Each kind of mutation is an advance by what it does to the files.       *)
LEMMA MutationAdvances ==
  ASSUME LegacyTypeOK, RequestInv, NEW m \in Mutations, requests[m] # None,
         Put(m, requests[m]) \/ Delete(m, requests[m]) \/ Rename(m, requests[m])
  PROVE  /\ files' \in [Paths -> File]
         /\ tombstones' \in [Paths -> File]
         /\ \E e \in [Paths -> Mark \cup {None}] :
              Advance(e, m) /\ files' = Patched(files, e)
<1> DEFINE r == requests[m]
<1>1. r \in Request
  BY DEF LegacyTypeOK
<1>2. /\ r.path \in Paths
      /\ r.op = "put" => r.content \in Contents
      /\ r.op = "rename" => r.dest \in Paths /\ r.dest # r.path
  BY <1>1 DEF Request, RequestInv
<1>3. files \in [Paths -> File] /\ tombstones \in [Paths -> File]
  BY DEF LegacyTypeOK, File
<1> HIDE DEF r
<1>4. CASE Put(m, r)
  <2> DEFINE e == Entries(r.path, FileMark(r.content))
  <2>1. r.content \in Contents
    BY <1>2, <1>4 DEF Put
  <2>2. e \in [Paths -> Mark \cup {None}]
    BY <1>2, <2>1, MarksAreMarks, EntriesType
  <2>3. /\ files' = [files EXCEPT ![r.path] = r.content]
        /\ tombstones' = [tombstones EXCEPT ![r.path] = None]
        /\ Advance(e, m)
    BY <1>4 DEF Put
  <2>4. \A p \in Paths : e[p] = IF p = r.path THEN FileMark(r.content) ELSE None
    BY DEF Entries
  <2> HIDE DEF e
  <2>5. files' \in [Paths -> File] /\ tombstones' \in [Paths -> File]
    BY <1>3, <2>1, <2>3 DEF File
  <2>6. ASSUME NEW p \in Paths PROVE files'[p] = Patched(files, e)[p]
    <3>1. files'[p] = IF p = r.path THEN r.content ELSE files[p]
      BY <1>3, <2>3
    <3> QED BY <2>1, <2>4, <3>1, MarksAreMarks DEF Patched
  <2>7. files' = Patched(files, e)
    BY <1>3, <2>2, <2>5, <2>6, PatchedType
  <2> QED BY <2>2, <2>3, <2>5, <2>7
<1>5. CASE Delete(m, r)
  <2> DEFINE e == Entries(r.path, Tombstone(files[r.path]))
  <2>1. files[r.path] \in Contents
    BY <1>2, <1>3, <1>5 DEF Delete, File
  <2>2. e \in [Paths -> Mark \cup {None}]
    BY <1>2, <2>1, MarksAreMarks, EntriesType
  <2>3. /\ files' = [files EXCEPT ![r.path] = None]
        /\ tombstones' = [tombstones EXCEPT ![r.path] = files[r.path]]
        /\ Advance(e, m)
    BY <1>5 DEF Delete
  <2>4. \A p \in Paths : e[p] = IF p = r.path THEN Tombstone(files[r.path]) ELSE None
    BY DEF Entries
  <2> HIDE DEF e
  <2>5. files' \in [Paths -> File] /\ tombstones' \in [Paths -> File]
    BY <1>3, <2>1, <2>3 DEF File
  <2>6. ASSUME NEW p \in Paths PROVE files'[p] = Patched(files, e)[p]
    <3>1. files'[p] = IF p = r.path THEN None ELSE files[p]
      BY <1>3, <2>3
    <3> QED BY <2>1, <2>4, <3>1, MarksAreMarks DEF Patched
  <2>7. files' = Patched(files, e)
    BY <1>3, <2>2, <2>5, <2>6, PatchedType
  <2> QED BY <2>2, <2>3, <2>5, <2>7
<1>6. CASE Rename(m, r)
  <2> DEFINE e == RenameEntries(r.path, r.dest)
  <2>1. r.dest \in Paths /\ r.dest # r.path /\ files[r.path] \in Contents
    BY <1>2, <1>3, <1>6 DEF Rename, File
  <2>2. e \in [Paths -> Mark \cup {None}]
    BY <2>1, MarksAreMarks DEF RenameEntries
  <2>3. /\ files' = [files EXCEPT ![r.path] = None, ![r.dest] = files[r.path]]
        /\ tombstones' = [tombstones EXCEPT ![r.path] = files[r.path], ![r.dest] = None]
        /\ Advance(e, m)
    BY <1>6 DEF Rename
  <2>4. \A p \in Paths : e[p] = IF p = r.path THEN Tombstone(files[r.path])
                                 ELSE IF p = r.dest THEN FileMark(files[r.path]) ELSE None
    BY DEF RenameEntries
  <2> HIDE DEF e
  <2>5. files' \in [Paths -> File] /\ tombstones' \in [Paths -> File]
    BY <1>3, <2>1, <2>3 DEF File
  <2>6. ASSUME NEW p \in Paths PROVE files'[p] = Patched(files, e)[p]
    <3>1. files'[p] = IF p = r.path THEN None
                      ELSE IF p = r.dest THEN files[r.path] ELSE files[p]
      BY <1>2, <1>3, <2>1, <2>3
    <3> QED BY <2>1, <2>4, <3>1, MarksAreMarks DEF Patched
  <2>7. files' = Patched(files, e)
    BY <1>3, <2>2, <2>5, <2>6, PatchedType
  <2> QED BY <2>2, <2>3, <2>5, <2>7
<1> QED BY <1>4, <1>5, <1>6 DEF r

(* A step that adds a change keeps what receipts say, if the mutation of   *)
(* the change had no receipt and gets one.                                 *)
LEMMA ReceiptsKept ==
  ASSUME LegacyTypeOK, AppliedOnce, NEW m \in Mutations \cup {None},
         history' \in Seq(Change),
         Len(history') = Len(history) + 1,
         \A g \in 1..Len(history) : history'[g] = history[g],
         history'[Len(history) + 1].by = m,
         m # None => /\ receipts[m] = None
                     /\ receipts' = [receipts EXCEPT ![m] = ReceiptOf(m)],
         m = None => receipts' = receipts
  PROVE  /\ AppliedOnce'
         /\ receipts' \in [Mutations -> [gen : 1..MaxGen, manifest : 1..Len(history')] \cup {None}]
<1> DEFINE n == Len(history)
<1>1. n \in Nat /\ Len(history') = n + 1
  BY DEF LegacyTypeOK
<1>2. \A g \in 1..(n + 1) : g \in 1..n \/ g = n + 1
  BY <1>1
<1>3. 1..n \subseteq 1..(n + 1) /\ n + 1 \in 1..(n + 1) /\ n + 1 \notin 1..n
  BY <1>1
<1>4. receipts \in [Mutations -> [gen : 1..MaxGen, manifest : 1..n] \cup {None}]
  BY DEF LegacyTypeOK, Generation
<1>5. \A x \in Mutations : receipts[x] # None => receipts[x].manifest \in 1..n
  BY <1>4
<1>6. m # None => /\ m \in Mutations
                  /\ ReceiptOf(m) \in [gen : 1..MaxGen, manifest : 1..(n + 1)]
                  /\ ReceiptOf(m).manifest = n + 1
                  /\ ReceiptOf(m) # None
  <2> SUFFICES ASSUME m # None
               PROVE  /\ m \in Mutations
                      /\ ReceiptOf(m) \in [gen : 1..MaxGen, manifest : 1..(n + 1)]
                      /\ ReceiptOf(m).manifest = n + 1
                      /\ ReceiptOf(m) # None
    OBVIOUS
  <2>1. ReceiptOf(m) = [gen |-> gen, manifest |-> n + 1]
    BY DEF ReceiptOf, Generation
  <2>2. gen \in 1..MaxGen
    BY DEF LegacyTypeOK
  <2>3. ReceiptOf(m) \in [gen : 1..MaxGen, manifest : 1..(n + 1)]
    BY <1>3, <2>1, <2>2
  <2>4. ReceiptOf(m) \in Receipt
    BY <1>1, <2>1, <2>2 DEF Receipt
  <2> QED BY <2>1, <2>3, <2>4, LegacyAssumption
<1>7. \A x \in Mutations : receipts'[x] = IF x = m THEN ReceiptOf(m) ELSE receipts[x]
  BY <1>4, LegacyAssumption
<1>8. \A g \in 1..n : history'[g].by = history[g].by
  OBVIOUS
<1>9. history'[n + 1].by = m
  OBVIOUS
<1>10. \A x \in Mutations :
         /\ \A g, h \in 1..n : history[g].by = x /\ history[h].by = x => g = h
         /\ receipts[x] # None => history[receipts[x].manifest].by = x
         /\ receipts[x] = None => \A g \in 1..n : history[g].by # x
  BY DEF AppliedOnce, Generation
<1> HIDE DEF n
<1>11. ASSUME NEW x \in Mutations
       PROVE  /\ \A g, h \in 1..(n + 1) : history'[g].by = x /\ history'[h].by = x => g = h
              /\ receipts'[x] # None => history'[receipts'[x].manifest].by = x
              /\ receipts'[x] = None => \A g \in 1..(n + 1) : history'[g].by # x
  <2>1. CASE x = m
    <3>1. receipts[x] = None /\ receipts'[x] = ReceiptOf(m)
      BY <1>7, <2>1, LegacyAssumption
    <3>2. \A g \in 1..n : history'[g].by # x
      BY <1>8, <1>10, <3>1
    <3>3. receipts'[x] # None /\ receipts'[x].manifest = n + 1
      BY <1>6, <2>1, <3>1, LegacyAssumption
    <3> QED BY <1>2, <1>9, <2>1, <3>2, <3>3
  <2>2. CASE x # m
    <3>1. receipts'[x] = receipts[x]
      BY <1>7, <2>2
    <3>2. history'[n + 1].by # x
      BY <1>9, <2>2
    <3>3. receipts[x] # None => history'[receipts[x].manifest].by = x
      BY <1>5, <1>8, <1>10
    <3> QED BY <1>2, <1>8, <1>10, <3>1, <3>2, <3>3
  <2> QED BY <2>1, <2>2
<1>12. AppliedOnce'
  BY <1>1, <1>11 DEF AppliedOnce, Generation
<1>13. ASSUME NEW x \in Mutations
       PROVE  receipts'[x] \in [gen : 1..MaxGen, manifest : 1..(n + 1)] \cup {None}
  BY <1>3, <1>4, <1>6, <1>7
<1>14. receipts' = [x \in Mutations |-> receipts'[x]]
  BY <1>4
<1>15. receipts' \in [Mutations -> [gen : 1..MaxGen, manifest : 1..(n + 1)] \cup {None}]
  BY <1>13, <1>14
<1> QED BY <1>1, <1>12, <1>15

(* What a client composes is a request, and nothing else changes. *)
LEMMA ComposeKeeps ==
  ASSUME LegacyInv, NEW m \in Mutations, NEW r \in Request, Compose(m, r),
         r.op = "put" => r.content # None,
         r.op = "rename" => r.dest # None /\ r.dest # r.path
  PROVE  LegacyInv'
<1> USE DEF LegacyInv, plane, host, client
<1>1. LegacyTypeOK'
  BY DEF Compose, LegacyTypeOK, Generation
<1>2. RequestInv'
  BY DEF Compose, LegacyTypeOK, RequestInv
<1> QED BY <1>1, <1>2 DEF Compose, HistoryInv, Leading, Generation, PageInv, ProofInv,
                          ViewIsManifest, AppliedOnce

(* The client knows marks, and expects marks. *)
LEMMA ExpectationsAreMarks ==
  ASSUME LegacyTypeOK, NEW p \in Paths
  PROVE  Expectations(p) \subseteq Mark \cup {None}
<1>1. Known[p] \in Mark \cup {None}
  BY DEF Known, LegacyTypeOK, Cursor, Digest
<1>2. files[p] # None => FileMark(files[p]) \in Mark
  BY MarksAreMarks DEF LegacyTypeOK
<1> QED BY <1>1, <1>2 DEF Expectations

(* The invariant holds at the beginning. *)
LEMMA InitLegacy == Init => LegacyInv
<1> SUFFICES ASSUME Init PROVE LegacyInv
  OBVIOUS
<1>1. history = <<>> /\ Len(history) = 0 /\ history \in Seq(Change)
  BY EmptySeq DEF Init
<1>2. 1 \in 1..MaxGen /\ 0 \in 0..MaxElsewhere
  BY LegacyAssumption
<1>3. proofs = [m \in Mutations |-> None]
  BY DEF Init, Fence!Init
<1>4. LegacyTypeOK
  BY <1>1, <1>2, <1>3 DEF Init, LegacyTypeOK, NoFiles
<1> QED BY <1>1, <1>3, <1>4 DEF Init, LegacyInv, RequestInv, HistoryInv, PageInv, ProofInv,
                                ViewIsManifest, AppliedOnce, Generation

(* A step of the host, of a writer elsewhere or of the uploads. *)
LEMMA HostKeeps ==
  ASSUME LegacyInv,
         \/ Attach \/ Lapse \/ EndGeneration
         \/ \E w \in Bypasses : Elsewhere(w[1], w[2])
         \/ \E m \in Mutations, c \in Contents : Verify(m, c)
         \/ \E m \in Mutations : Expire(m)
  PROVE  LegacyInv'
<1> USE DEF LegacyInv, plane, host, client
<1>r. ASSUME UNCHANGED <<history, receipts, requests, cursor, view, page, part>>
      PROVE  RequestInv' /\ HistoryInv' /\ PageInv' /\ ViewIsManifest' /\ AppliedOnce'
  BY <1>r DEF RequestInv, HistoryInv, Leading, Generation, PageInv, ViewIsManifest, AppliedOnce
<1>1. CASE Attach \/ Lapse
  <2>1. LegacyTypeOK' /\ ProofInv'
    BY <1>1 DEF Attach, Lapse, LegacyTypeOK, Generation, ProofInv
  <2> QED BY <1>1, <1>r, <2>1 DEF Attach, Lapse
<1>2. CASE EndGeneration
  <2>1. gen \in Nat /\ gen' = gen + 1 /\ gen' \in 1..MaxGen
    BY <1>2, LegacyAssumption DEF EndGeneration, LegacyTypeOK
  <2>2. LegacyTypeOK'
    BY <1>2, <2>1 DEF EndGeneration, LegacyTypeOK, Generation
  <2>3. ProofInv'
    <3> SUFFICES ASSUME NEW m \in Mutations, proofs[m] # None
                 PROVE  proofs[m].by <= gen + 1 /\ proofs[m].by # gen + 1
      BY <1>2, <2>1 DEF EndGeneration, ProofInv
    <3>1. proofs[m].by \in Nat
      BY LegacyAssumption DEF LegacyTypeOK, Fence!Proof
    <3>2. proofs[m].by <= gen
      BY DEF ProofInv
    <3> QED BY <2>1, <3>1, <3>2
  <2> QED BY <1>2, <1>r, <2>2, <2>3 DEF EndGeneration
<1>3. ASSUME NEW w \in Bypasses, Elsewhere(w[1], w[2]) PROVE LegacyInv'
  <2>1. w[2] \in Contents \cup {None}
    BY LegacyAssumption
  <2>2. elsewhere' \in 0..MaxElsewhere
    BY <1>3, LegacyAssumption DEF Elsewhere, LegacyTypeOK
  <2>3. LegacyTypeOK' /\ ProofInv'
    BY <1>3, <2>1, <2>2 DEF Elsewhere, LegacyTypeOK, Generation, ProofInv
  <2> QED BY <1>3, <1>r, <2>3 DEF Elsewhere
<1>4. ASSUME NEW m \in Mutations, NEW c \in Contents, Verify(m, c) PROVE LegacyInv'
  <2> DEFINE old == IF proofs[m] = None THEN {} ELSE proofs[m].blocks
             new == [by |-> gen, blocks |-> ({gen} \X c) \cup old]
  <2>1. /\ proofs' = [proofs EXCEPT ![m] = new]
        /\ proofs[m] # None => proofs[m].by = gen
    BY <1>4 DEF Verify, Fence!Prove
  <2>2. proofs[m] # None => proofs[m] \in Fence!Proof
    BY DEF LegacyTypeOK
  <2>3. c \subseteq Blocks /\ gen \in 1..MaxGen
    BY LegacyAssumption DEF LegacyTypeOK
  <2>4. new \in Fence!Proof
    BY <2>2, <2>3 DEF Fence!Proof
  <2>5. {e[2] : e \in new.blocks} \subseteq proved[m] \cup c
    <3>1. {e[2] : e \in old} \subseteq proved[m]
      BY <2>1 DEF ProofInv
    <3>2. {e[2] : e \in {gen} \X c} \subseteq c
      OBVIOUS
    <3>3. new.blocks = ({gen} \X c) \cup old
      OBVIOUS
    <3> HIDE DEF new, old
    <3> QED BY <3>1, <3>2, <3>3
  <2>6. new.by = gen
    OBVIOUS
  <2> HIDE DEF new
  <2>7. proved' = [proved EXCEPT ![m] = proved[m] \cup c] /\ proved \in [Mutations -> SUBSET Blocks]
    BY <1>4 DEF Verify, LegacyTypeOK
  <2>8. LegacyTypeOK'
    BY <1>4, <2>1, <2>3, <2>4, <2>7 DEF Verify, LegacyTypeOK, Generation
  <2>9. ProofInv'
    <3> SUFFICES ASSUME NEW n \in Mutations, proofs'[n] # None
                 PROVE  /\ proofs'[n].by <= gen
                        /\ proofs'[n].by = gen =>
                             {e[2] : e \in proofs'[n].blocks} \subseteq proved'[n]
      BY <1>4 DEF Verify, ProofInv
    <3>1. CASE n = m
      <4>1. proofs'[n] = new /\ proved'[n] = proved[m] \cup c
        BY <2>1, <2>7, <3>1 DEF LegacyTypeOK
      <4>2. gen <= gen
        BY <2>3
      <4> QED BY <2>5, <2>6, <4>1, <4>2
    <3>2. CASE n # m
      BY <2>1, <2>7, <3>2 DEF LegacyTypeOK, ProofInv
    <3> QED BY <3>1, <3>2
  <2> QED BY <1>4, <1>r, <2>8, <2>9 DEF Verify
<1>5. ASSUME NEW m \in Mutations, Expire(m) PROVE LegacyInv'
  <2>1. proofs' = [n \in Mutations |-> IF n \in {m} THEN None ELSE proofs[n]]
    BY <1>5 DEF Expire, Fence!Drop
  <2>2. LegacyTypeOK' /\ ProofInv'
    BY <1>5, <2>1 DEF Expire, LegacyTypeOK, Generation, ProofInv
  <2> QED BY <1>5, <1>r, <2>2 DEF Expire
<1> QED BY <1>1, <1>2, <1>3, <1>4, <1>5

(* The client composes a put, a delete or a rename. *)
LEMMA RequestsKeep ==
  ASSUME LegacyInv,
         \/ \E m \in Mutations, w \in Puts : ComposePut(m, w[1], w[2])
         \/ \E m \in Mutations, p \in Paths : ComposeDelete(m, p)
         \/ \E m \in Mutations, p, q \in Paths : ComposeRename(m, p, q)
  PROVE  LegacyInv'
<1>0. LegacyTypeOK /\ cursor \in Cursor \cup {None}
  BY DEF LegacyInv, LegacyTypeOK
<1>n. None \notin Paths /\ None \notin Contents
  BY LegacyAssumption
<1>1. ASSUME NEW m \in Mutations, NEW w \in Puts, ComposePut(m, w[1], w[2]) PROVE LegacyInv'
  <2>1. w[1] \in Paths /\ w[2] \in Contents
    BY LegacyAssumption
  <2>2. PICK e \in Expectations(w[1]) :
          Compose(m, [op |-> "put", path |-> w[1], dest |-> None, content |-> w[2],
                      expect |-> e, expectDest |-> None, base |-> cursor])
    BY <1>1 DEF ComposePut
  <2>3. e \in Mark \cup {None}
    BY <1>0, <2>1, ExpectationsAreMarks
  <2> DEFINE r == [op |-> "put", path |-> w[1], dest |-> None, content |-> w[2],
                   expect |-> e, expectDest |-> None, base |-> cursor]
  <2>4. r \in Request
    BY <1>0, <2>1, <2>3 DEF Request
  <2> QED BY <1>n, <2>1, <2>2, <2>4, ComposeKeeps
<1>2. ASSUME NEW m \in Mutations, NEW p \in Paths, ComposeDelete(m, p) PROVE LegacyInv'
  <2>1. PICK e \in Expectations(p) :
          Compose(m, [op |-> "delete", path |-> p, dest |-> None, content |-> None,
                      expect |-> e, expectDest |-> None, base |-> cursor])
    BY <1>2 DEF ComposeDelete
  <2>2. e \in Mark \cup {None}
    BY <1>0, ExpectationsAreMarks
  <2> DEFINE r == [op |-> "delete", path |-> p, dest |-> None, content |-> None,
                   expect |-> e, expectDest |-> None, base |-> cursor]
  <2>3. r \in Request
    BY <1>0, <2>2 DEF Request
  <2> QED BY <2>1, <2>3, ComposeKeeps
<1>3. ASSUME NEW m \in Mutations, NEW p \in Paths, NEW q \in Paths, ComposeRename(m, p, q)
      PROVE  LegacyInv'
  <2>1. PICK e \in Expectations(p), f \in Expectations(q) :
          Compose(m, [op |-> "rename", path |-> p, dest |-> q, content |-> None,
                      expect |-> e, expectDest |-> f, base |-> cursor])
    BY <1>3 DEF ComposeRename
  <2>2. e \in Mark \cup {None} /\ f \in Mark \cup {None} /\ p # q
    BY <1>0, <1>3, ExpectationsAreMarks DEF ComposeRename
  <2> DEFINE r == [op |-> "rename", path |-> p, dest |-> q, content |-> None,
                   expect |-> e, expectDest |-> f, base |-> cursor]
  <2>3. r \in Request
    BY <1>0, <2>2 DEF Request
  <2> QED BY <1>n, <2>1, <2>2, <2>3, ComposeKeeps
<1> QED BY <1>1, <1>2, <1>3

(* A mutation is carried out. *)
LEMMA MutateKeeps ==
  ASSUME LegacyInv, NEW m \in Mutations, Mutate(m)
  PROVE  LegacyInv'
<1> USE DEF LegacyInv, host, client
<1>1. /\ files' \in [Paths -> File] /\ tombstones' \in [Paths -> File]
      /\ \E e \in [Paths -> Mark \cup {None}] : Advance(e, m) /\ files' = Patched(files, e)
  BY MutationAdvances DEF Mutate
<1>2. PICK e \in [Paths -> Mark \cup {None}] : Advance(e, m) /\ files' = Patched(files, e)
  BY <1>1
<1>3. /\ history' \in Seq(Change)
      /\ Len(history') = Len(history) + 1
      /\ \A g \in 1..Len(history) : history'[g] = history[g]
      /\ history'[Len(history) + 1].by = m
      /\ HistoryInv'
  BY <1>1, <1>2, AdvanceLeads
<1>4. m # None /\ receipts[m] = None /\ receipts' = [receipts EXCEPT ![m] = ReceiptOf(m)]
  BY LegacyAssumption DEF Mutate, Fresh
<1>5. /\ AppliedOnce'
      /\ receipts' \in [Mutations -> [gen : 1..MaxGen, manifest : 1..Len(history')] \cup {None}]
  BY <1>3, <1>4, ReceiptsKept
<1>6. proofs' = [n \in Mutations |-> IF n \in {m} THEN None ELSE proofs[n]]
  BY DEF Mutate, Fence!Drop
<1>7. UNCHANGED <<gen, attached, requests, cursor, view, page, part, elsewhere, proved>>
  BY DEF Mutate
<1>8. proofs' \in [Mutations -> Fence!Proof \cup {None}] /\ ProofInv'
  BY <1>6, <1>7 DEF LegacyTypeOK, ProofInv
<1>9. LegacyTypeOK'
  BY <1>1, <1>3, <1>5, <1>7, <1>8 DEF LegacyTypeOK, Generation, File
<1>10. RequestInv' /\ PageInv' /\ ViewIsManifest'
  BY <1>7 DEF RequestInv, PageInv, ViewIsManifest
<1> QED BY <1>3, <1>5, <1>8, <1>9, <1>10

(* A file is published. *)
LEMMA PublishKeeps ==
  ASSUME LegacyInv, NEW p \in Paths, NEW c \in Contents, Publish(p, c)
  PROVE  LegacyInv'
<1> USE DEF LegacyInv, host, client
<1> DEFINE e == Entries(p, FileMark(c))
<1>1. e \in [Paths -> Mark \cup {None}]
  BY MarksAreMarks, EntriesType
<1>2. /\ files' = [files EXCEPT ![p] = c]
      /\ tombstones' = [tombstones EXCEPT ![p] = None]
      /\ Advance(e, None)
  BY DEF Publish
<1>3. files \in [Paths -> File] /\ tombstones \in [Paths -> File]
  BY DEF LegacyTypeOK, File
<1>4. files' \in [Paths -> File] /\ tombstones' \in [Paths -> File]
  BY <1>2, <1>3 DEF File
<1>5. \A q \in Paths : e[q] = IF q = p THEN FileMark(c) ELSE None
  BY DEF Entries
<1> HIDE DEF e
<1>6. ASSUME NEW q \in Paths PROVE files'[q] = Patched(files, e)[q]
  <2>1. files'[q] = IF q = p THEN c ELSE files[q]
    BY <1>2, <1>3
  <2> QED BY <1>5, <2>1, MarksAreMarks DEF Patched
<1>7. files' = Patched(files, e)
  BY <1>1, <1>3, <1>4, <1>6, PatchedType
<1>8. /\ history' \in Seq(Change)
      /\ Len(history') = Len(history) + 1
      /\ \A g \in 1..Len(history) : history'[g] = history[g]
      /\ history'[Len(history) + 1].by = None
      /\ HistoryInv'
  BY <1>1, <1>2, <1>4, <1>7, AdvanceLeads
<1>9. UNCHANGED <<receipts, proofs, gen, attached, requests, cursor, view, page, part,
                  elsewhere, proved>>
  BY DEF Publish
<1>10. /\ AppliedOnce'
       /\ receipts' \in [Mutations -> [gen : 1..MaxGen, manifest : 1..Len(history')] \cup {None}]
  BY <1>8, <1>9, ReceiptsKept
<1>11. LegacyTypeOK'
  BY <1>4, <1>8, <1>9, <1>10 DEF LegacyTypeOK, Generation, File
<1>12. RequestInv' /\ PageInv' /\ ProofInv' /\ ViewIsManifest'
  BY <1>9 DEF RequestInv, PageInv, ProofInv, ViewIsManifest
<1> QED BY <1>8, <1>10, <1>11, <1>12

(* A step of a reader keeps what it says nothing about. *)
LEMMA ReaderKeeps ==
  ASSUME LegacyInv, UNCHANGED <<plane, proofs, host, requests, elsewhere, proved>>,
         cursor' \in Cursor \cup {None}, view' \in [Paths -> File],
         page' \in Page \cup {None}, part' \in [path : Paths, of : Contents] \cup {None},
         PageInv', ViewIsManifest'
  PROVE  LegacyInv'
<1> USE DEF LegacyInv, plane, host
<1>1. LegacyTypeOK'
  BY DEF LegacyTypeOK, Generation, File
<1> QED BY <1>1 DEF RequestInv, HistoryInv, Leading, Generation, ProofInv, AppliedOnce

(* A page of the manifest continues the pages before it. *)
LEMMA PagesKeep ==
  ASSUME LegacyInv, ManifestPage
  PROVE  LegacyInv'
<1>1. /\ ManifestDigest \in Digest /\ FilesIn(ManifestDigest) = files
  BY DigestTellsFiles DEF ManifestDigest, LegacyInv, LegacyTypeOK, File
<1>2. Generation \in Nat
  BY DEF LegacyInv, LegacyTypeOK, Generation
<1>3. files \in [Paths -> File] /\ Paths \subseteq Nat
  BY LegacyAssumption DEF LegacyInv, LegacyTypeOK, File
<1>4. page # None => /\ page \in Page /\ page.after \in Paths /\ page.after \in Nat
                     /\ \A x \in Paths : page.got[x] = IF x <= page.after THEN files[x] ELSE None
  BY <1>1, <1>3 DEF ManifestPage, CursorValid, LegacyInv, LegacyTypeOK, PageInv, Page
<1>5. \A x \in Paths : x \in Live <=> files[x] # None
  BY DEF Live
<1>6. UNCHANGED <<plane, proofs, host, requests, elsewhere, proved>>
  BY DEF ManifestPage
<1>7. ASSUME NEW p \in Rest,
             page' = [gen |-> Generation, digest |-> ManifestDigest, after |-> p,
                      got |-> Listed({q \in Rest : q <= p})],
             UNCHANGED <<cursor, view, part>>
      PROVE  LegacyInv'
  <2> DEFINE got == Listed({q \in Rest : q <= p})
  <2>1. p \in Paths /\ p \in Nat
    BY <1>3 DEF Rest, Live
  <2>2. ASSUME NEW x \in Paths PROVE got[x] = IF x <= p THEN files[x] ELSE None
    <3>1. x \in Nat
      BY <1>3
    <3>2. CASE page = None
      <4>1. Rest = Live
        BY <3>2 DEF Rest
      <4>2. got[x] = IF x \in Rest /\ x <= p THEN files[x] ELSE None
        BY <3>2 DEF Listed
      <4> QED BY <1>5, <4>1, <4>2
    <3>3. CASE page # None
      <4>1. got[x] = IF x \in Rest /\ x <= p THEN files[x] ELSE page.got[x]
        BY <3>3 DEF Listed
      <4>2. x \in Rest <=> x \in Live /\ x > page.after
        BY <3>3 DEF Rest, Live
      <4>3. p > page.after
        BY <3>3 DEF Rest
      <4> HIDE DEF got
      <4> QED BY <1>4, <1>5, <2>1, <3>1, <3>3, <4>1, <4>2, <4>3
    <3> QED BY <3>2, <3>3
  <2>3. got \in [Paths -> File]
    <3>1. got = [x \in Paths |-> got[x]]
      BY DEF Listed
    <3>2. \A x \in Paths : got[x] \in File
      BY <1>3, <2>2 DEF File
    <3> HIDE DEF got
    <3> QED BY <3>1, <3>2
  <2>4. page' = [gen |-> Generation, digest |-> ManifestDigest, after |-> p, got |-> got]
    BY <1>7
  <2> HIDE DEF got
  <2>5. page' \in Page
    BY <1>1, <1>2, <2>1, <2>3, <2>4 DEF Page, File
  <2>6. PageInv'
    BY <1>1, <2>2, <2>4 DEF PageInv
  <2>7. ViewIsManifest'
    BY <1>7 DEF LegacyInv, ViewIsManifest
  <2>8. /\ cursor' \in Cursor \cup {None} /\ view' \in [Paths -> File]
        /\ part' \in [path : Paths, of : Contents] \cup {None}
    BY <1>7 DEF LegacyInv, LegacyTypeOK, File
  <2> QED BY <1>6, <2>5, <2>6, <2>7, <2>8, ReaderKeeps
<1>8. ASSUME page' = None, cursor' = Manifest, view' = Listed(Rest), part' = None
      PROVE  LegacyInv'
  <2>1. ASSUME NEW x \in Paths PROVE view'[x] = files[x]
    <3>1. x \in Nat
      BY <1>3
    <3>2. CASE page = None
      BY <1>5, <1>8, <3>2 DEF Rest, Listed
    <3>3. CASE page # None
      <4>1. view'[x] = IF x \in Rest THEN files[x] ELSE page.got[x]
        BY <1>8, <3>3 DEF Listed
      <4>2. x \in Rest <=> x \in Live /\ x > page.after
        BY <3>3 DEF Rest, Live
      <4> QED BY <1>4, <1>5, <3>1, <3>3, <4>1, <4>2
    <3> QED BY <3>2, <3>3
  <2>2. view' = [x \in Paths |-> view'[x]]
    BY <1>8 DEF Listed
  <2>3. view' = files
    BY <1>3, <2>1, <2>2
  <2>4. cursor' \in Cursor /\ cursor'.digest = ManifestDigest
    BY <1>1, <1>2, <1>8 DEF Manifest, Cursor
  <2>5. ViewIsManifest'
    BY <1>1, <1>8, <2>3, <2>4 DEF ViewIsManifest
  <2>6. PageInv'
    BY <1>8 DEF PageInv
  <2> QED BY <1>3, <1>6, <1>8, <2>3, <2>4, <2>5, <2>6, ReaderKeeps
<1> QED BY <1>7, <1>8 DEF ManifestPage

(* The other steps of the client. *)
LEMMA ReadsKeep ==
  ASSUME LegacyInv, Reads
  PROVE  LegacyInv'
<1>t. /\ cursor \in Cursor \cup {None} /\ view \in [Paths -> File]
      /\ page \in Page \cup {None} /\ part \in [path : Paths, of : Contents] \cup {None}
      /\ files \in [Paths -> File] /\ history \in Seq(Change) /\ PageInv /\ ViewIsManifest
  BY DEF LegacyInv, LegacyTypeOK, File
<1>1. CASE PageRefused
  <2>1. /\ UNCHANGED <<plane, proofs, host, requests, elsewhere, proved>>
        /\ page' = None /\ UNCHANGED <<cursor, view, part>>
    BY <1>1 DEF PageRefused
  <2>2. PageInv' /\ ViewIsManifest'
    BY <1>t, <2>1 DEF PageInv, ViewIsManifest
  <2> QED BY <1>t, <2>1, <2>2, ReaderKeeps
<1>2. ASSUME NEW p \in Paths, ReadRange(p) PROVE LegacyInv'
  <2>1. /\ UNCHANGED <<plane, proofs, host, requests, elsewhere, proved>>
        /\ part' = [path |-> p, of |-> files[p]] /\ UNCHANGED <<cursor, view, page>>
        /\ files[p] # None /\ cursor = Manifest
    BY <1>2 DEF ReadRange
  <2>2. FilesIn(ManifestDigest) = files
    BY DigestTellsFiles DEF ManifestDigest, LegacyInv, LegacyTypeOK, File
  <2>3. cursor # None => view = files
    BY <1>t, <2>1, <2>2 DEF ViewIsManifest, Manifest
  <2>4. PageInv' /\ ViewIsManifest'
    BY <1>t, <2>1, <2>3 DEF PageInv, ViewIsManifest
  <2>5. part' \in [path : Paths, of : Contents]
    BY <1>t, <2>1 DEF File
  <2> QED BY <1>t, <2>1, <2>4, <2>5, ReaderKeeps
<1>3. CASE FollowChanges
  <2> DEFINE g == cursor.gen + 1
  <2>1. /\ UNCHANGED <<plane, proofs, host, requests, page, elsewhere, proved>>
        /\ cursor # None /\ cursor.gen < Generation
        /\ Leads(cursor.gen, cursor.digest)
        /\ cursor' = [gen |-> g, digest |-> history[g].digest]
        /\ view' = Patched(view, history[g].entries)
        /\ part' = None
    BY <1>3 DEF FollowChanges
  <2>2. g \in 1..Generation /\ g \in Nat
    BY <1>t, <2>1 DEF Cursor, Generation
  <2>3. history[g] \in Change
    BY <1>t, <2>2 DEF Generation
  <2>4. /\ history[g].prev \in Digest /\ history[g].digest \in Digest
        /\ history[g].entries \in [Paths -> Mark \cup {None}]
    BY <2>3 DEF Change
  <2>5. cursor.digest = history[g].prev
    BY <2>1 DEF Leads
  <2>6. view = FilesIn(history[g].prev)
    BY <1>t, <2>1, <2>5 DEF ViewIsManifest
  <2>7. Patched(FilesIn(history[g].prev), history[g].entries) = FilesIn(history[g].digest)
    BY <2>2 DEF LegacyInv, HistoryInv, Leading
  <2>8. view' = FilesIn(history[g].digest)
    BY <2>1, <2>6, <2>7
  <2>9. view' \in [Paths -> File]
    BY <2>4, <2>8, FilesInType
  <2>10. cursor' \in Cursor /\ cursor'.digest = history[g].digest
    BY <2>1, <2>2, <2>4 DEF Cursor
  <2> HIDE DEF g
  <2>11. PageInv' /\ ViewIsManifest'
    BY <1>t, <2>1, <2>8, <2>10 DEF PageInv, ViewIsManifest
  <2> QED BY <1>t, <2>1, <2>9, <2>10, <2>11, ReaderKeeps
<1>4. CASE FullRefresh
  <2>1. /\ UNCHANGED <<plane, proofs, host, requests, page, elsewhere, proved>>
        /\ cursor' = None /\ view' = NoFiles /\ part' = None
    BY <1>4 DEF FullRefresh
  <2>2. PageInv' /\ ViewIsManifest'
    BY <1>t, <2>1 DEF PageInv, ViewIsManifest
  <2>3. view' \in [Paths -> File]
    BY <2>1 DEF NoFiles, File
  <2> QED BY <1>t, <2>1, <2>2, <2>3, ReaderKeeps
<1> QED BY <1>1, <1>2, <1>3, <1>4, PagesKeep DEF Reads

(* Every step keeps the invariant. *)
LEMMA StepLegacy == LegacyInv /\ [Next]_vars => LegacyInv'
<1> SUFFICES ASSUME LegacyInv, [Next]_vars PROVE LegacyInv'
  OBVIOUS
<1>1. ASSUME NEW w \in Publications, Publish(w[1], w[2]) PROVE LegacyInv'
  <2>1. w[1] \in Paths /\ w[2] \in Contents
    BY LegacyAssumption
  <2> QED BY <1>1, <2>1, PublishKeeps
<1>2. CASE Writes
  BY <1>1, <1>2, HostKeeps, RequestsKeep, MutateKeeps DEF Writes
<1>3. CASE UNCHANGED vars
  BY <1>3 DEF vars, LegacyInv, LegacyTypeOK, RequestInv, HistoryInv, Leading, Generation, PageInv,
              ProofInv, ViewIsManifest, AppliedOnce
<1> QED BY <1>2, <1>3, HostKeeps, ReadsKeep DEF Next

(* A put brings proved blocks, or blocks of the file it replaces. *)
LEMMA StepProves ==
  ASSUME LegacyInv, [Next]_vars, NEW m \in Mutations,
         receipts[m] = None, receipts'[m] # None, requests[m].op = "put",
         NEW b \in requests[m].content
  PROVE  b \in proved[m] \/ (files[requests[m].path] # None /\ b \in files[requests[m].path])
<1> USE DEF host, client, plane
<1>1. \A n \in Mutations : Mutate(n) => receipts' = [receipts EXCEPT ![n] = ReceiptOf(n)]
  BY DEF Mutate
<1>2. receipts \in [Mutations -> [gen : 1..MaxGen, manifest : 1..Generation] \cup {None}]
  BY DEF LegacyInv, LegacyTypeOK
<1>3. receipts' = receipts \/ \E n \in Mutations : Mutate(n)
  BY DEF Next, Writes, Reads, vars, Attach, Lapse, EndGeneration, Elsewhere, Verify, Expire,
         Compose, ComposePut, ComposeDelete, ComposeRename, Publish, ManifestPage, PageRefused,
         ReadRange, FollowChanges, FullRefresh
<1>4. Mutate(m)
  BY <1>1, <1>2, <1>3
<1>5. Put(m, requests[m])
  BY <1>4 DEF Mutate, Put, Delete, Rename
<1>6. Proven(m, requests[m])
  BY <1>5 DEF Put
<1>7. b \in Reusable(requests[m]) =>
        files[requests[m].path] # None /\ b \in files[requests[m].path]
  BY DEF Reusable
<1>8. CASE b \notin Reusable(requests[m])
  <2>1. /\ proofs[m] # None /\ proofs[m].by = gen
        /\ b \in {e[2] : e \in proofs[m].blocks}
    BY <1>6, <1>8 DEF Proven
  <2>2. {e[2] : e \in proofs[m].blocks} \subseteq proved[m]
    BY <2>1 DEF LegacyInv, ProofInv
  <2> QED BY <2>1, <2>2
<1> QED BY <1>7, <1>8

-----------------------------------------------------------------------------
(* The variables of the legacy fabric and of its client keep their types:  *)
(* whatever is written and by whom, a receipt names a manifest there is.   *)
THEOREM LegacyTypeCorrect == FairSpec => []LegacyTypeOK
<1>1. LegacyInv => LegacyTypeOK
  BY DEF LegacyInv
<1> QED BY <1>1, InitLegacy, StepLegacy, PTL DEF FairSpec, Spec

(* A client holds exactly the files of the manifest it names, whatever     *)
(* pages, changes and ranges it read while others wrote.                   *)
THEOREM ViewsAreManifests == FairSpec => []ViewIsManifest
<1>1. LegacyInv => ViewIsManifest
  BY DEF LegacyInv
<1> QED BY <1>1, InitLegacy, StepLegacy, PTL DEF FairSpec, Spec

(* A mutation is carried out once at most, under however many generations  *)
(* it is sent, and its receipt names the change it made.                   *)
THEOREM MutationsApplyOnce == FairSpec => []AppliedOnce
<1>1. LegacyInv => AppliedOnce
  BY DEF LegacyInv
<1> QED BY <1>1, InitLegacy, StepLegacy, PTL DEF FairSpec, Spec

(* A put brings only blocks that the generation that commits it proved for *)
(* it, or that were in the file it replaces.                               *)
THEOREM PutsAreProven == FairSpec => ProvenContent
<1>1. LegacyInv /\ [Next]_vars =>
        [\A m \in Mutations :
           receipts[m] = None /\ receipts'[m] # None /\ requests[m].op = "put" =>
             \A b \in requests[m].content :
               \/ b \in proved[m]
               \/ files[requests[m].path] # None /\ b \in files[requests[m].path]]_vars
  BY StepProves
<1> QED BY <1>1, InitLegacy, StepLegacy, PTL DEF FairSpec, Spec, ProvenContent
=============================================================================
