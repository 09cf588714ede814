----------------------------- MODULE ChangeFeed -----------------------------
(***************************************************************************)
(* What the v2 namespace of the fixture promises its readers: a namespace  *)
(* that only ever changes by appending one self-contained record to one    *)
(* journal, each record a compare-and-set on the path it names.  A client  *)
(* that applies the records in order therefore rebuilds the namespace.     *)
(*                                                                         *)
(* The records are those fixture_v2.py appends to v2_journal.  FabricV2    *)
(* models the code and is checked and proved to implement this module;     *)
(* the readers of the journal are modelled on top of it.                   *)
(***************************************************************************)
EXTENDS Naturals, Sequences

CONSTANTS
  Paths,        \* the workspace paths
  Below,        \* Below[p]: the paths strictly inside p
  Digests,      \* file versions; the size follows the digest
  Ids,          \* mutation identities
  None,         \* Python's None
  Changes,      \* the records that may be published
  MaxJournal    \* bound on the length of the journal

VARIABLES
  entries,      \* v2_entries: what each path holds, None when absent
  journal       \* v2_journal: every change, in order

feed == <<entries, journal>>

Kinds == {"file", "dir"}

Entry == [kind : Kinds, digest : Digests \cup {None}, seq : Nat]

(* `blocks` is the version whose block list the record carries. *)
Change == [op : {"put", "delete", "rename"}, path : Paths, kind : Kinds,
           digest : Digests \cup {None}, prev : Digests \cup {None},
           dest : Paths \cup {None}, source : Paths \cup {None},
           sprev : Digests \cup {None}, blocks : Digests \cup {None}, mutation : Ids]

ASSUME FeedAssumption ==
  /\ None \notin Paths
  /\ None \notin Digests
  /\ None \notin Entry
  /\ Below \in [Paths -> SUBSET Paths]
  /\ Changes \subseteq Change
  /\ MaxJournal \in Nat

-----------------------------------------------------------------------------
DigestOf(e) == IF e = None THEN None ELSE e.digest

IsFile(e) == e # None /\ e.kind = "file"

(* The paths record c says something about, and the one it leaves filled. *)
Touches(c, p) == p \in {c.path, c.dest, c.source}

Fills(c, p) == \/ c.op = "put" /\ p = c.path
               \/ c.op = "rename" /\ p = c.dest

(* Namespace ns after the record c, number seq of the journal. *)
Applied(ns, c, seq) ==
  [p \in Paths |->
     IF Fills(c, p) THEN [kind |-> c.kind, digest |-> c.digest, seq |-> seq]
     ELSE IF Touches(c, p) THEN None
     ELSE ns[p]]

(* The compare-and-set that record c claims to have passed on ns. *)
Permitted(ns, c) ==
  /\ DigestOf(ns[c.path]) = c.prev
  /\ c.op = "put" /\ c.prev = None => ns[c.path] = None
  /\ c.op = "rename" => /\ c.dest \in Paths
                        /\ IsFile(ns[c.path])
                        /\ ns[c.dest] = None
                        /\ c.kind = "file"
                        /\ c.digest = c.prev
  /\ c.op = "delete" => \A q \in Below[c.path] : ns[q] = None
  /\ c.source # None => /\ IsFile(ns[c.source])
                        /\ ns[c.source].digest = c.sprev

-----------------------------------------------------------------------------
Init == /\ entries = [p \in Paths |-> None]
        /\ journal = <<>>

Publish(c) == /\ Len(journal) < MaxJournal
              /\ Permitted(entries, c)
              /\ journal' = Append(journal, c)
              /\ entries' = Applied(entries, c, Len(journal) + 1)

Next == \E c \in Changes : Publish(c)

Spec == Init /\ [][Next]_feed

-----------------------------------------------------------------------------
(* What the feed guarantees. *)

(* Record i of the journal is what its first n records left at p. *)
LeftAt(i, p, n) ==
  /\ i \in 1..n
  /\ Fills(journal[i], p)
  /\ \A k \in i+1..n : ~ Touches(journal[k], p)

(* The namespace a snapshot serves is the one the journal describes: every *)
(* entry is the latest record of its path, with that record's sequence     *)
(* number, kind and digest, and a path is absent only if the journal       *)
(* emptied it or never filled it.                                          *)
NamespaceIsJournal ==
  \A p \in Paths :
    IF entries[p] = None
    THEN \A i \in 1..Len(journal) : ~ LeftAt(i, p, Len(journal))
    ELSE LET e == entries[p] IN
         /\ LeftAt(e.seq, p, Len(journal))
         /\ journal[e.seq].kind = e.kind
         /\ journal[e.seq].digest = e.digest

(* No update is lost: the predecessor each record names is what the        *)
(* records before it had left at its path, whoever wrote them; a rename    *)
(* never lands on a live path and a moved source is the version it names.  *)
PredecessorsHeld(j) ==
  LET c == journal[j] IN
  /\ \A i \in 1..j-1 : LeftAt(i, c.path, j-1) =>
       /\ journal[i].digest = c.prev
       /\ c.op = "put" => c.prev # None
  /\ c.prev # None => \E i \in 1..j-1 : LeftAt(i, c.path, j-1)
  /\ c.op = "rename" => \A i \in 1..j-1 : ~ LeftAt(i, c.dest, j-1)
  /\ c.source # None => \E i \in 1..j-1 :
       LeftAt(i, c.source, j-1) /\ journal[i].digest = c.sprev

NoLostUpdate == \A j \in 1..Len(journal) : PredecessorsHeld(j)
=============================================================================
