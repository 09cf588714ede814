----------------------------- MODULE BlockTransfer -----------------------------
(***************************************************************************)
(* How blocks go to and from the CAS: leases, verification operations,     *)
(* tickets for direct PUTs and GETs, and holds on versions of files        *)
(* (fixture_control_plane.py: fabric_blocks, fabric_direct_put,            *)
(* fabric_direct_get; fixture_v2.py: fabric_blocks, _file_hold, and what   *)
(* fabric_v2_commit does to the operations).                               *)
(*                                                                         *)
(* Times are times left: a deadline that has passed is 0.  A block is its  *)
(* digest and size, a version of a file is the set of its blocks.  Each    *)
(* request is one step, under _state_lock; a refused request that changes  *)
(* nothing is no step.  An attachment lives as long as its generation at   *)
(* most, and a generation has one: it is not told from the generation.     *)
(***************************************************************************)
EXTENDS Integers, FiniteSets

CONSTANTS
  Hosts,          \* the hosts of a session
  Mutations,      \* mutation_id values
  HoldIds,        \* hold_id values
  Paths,          \* paths of the v2 namespace
  Blocks,         \* blocks
  Files,          \* versions of files, as sets of blocks
  Batches,        \* the sets of blocks that are asked for at once
  None,           \* Python's None
  Lease,          \* of an attachment: 90 s
  Margin,         \* between a ticket and what it depends on: 5 s
  MinTicket,      \* the shortest ticket: 30 s
  TicketTTLs,     \* what clients ask for
  HoldTTLs,       \* what clients ask for
  OperationTTL,   \* FABRIC_VERIFICATION_OPERATION_TTL_SECONDS
  MaxOperations,  \* FABRIC_MAX_VERIFICATION_OPERATIONS
  MaxTargets,     \* FABRIC_MAX_MUTATION_BLOCKS
  MaxHolds,       \* 128
  MaxGen,         \* bound on the generations of a host
  MaxTickets      \* bound on the live tickets

VARIABLES
  gen,            \* host.generation
  lease,          \* time left of the attachment of that generation, 0 without one
  operations,     \* fabric_verification_operations
  tickets,        \* _direct_block_tickets, as long as they are live
  cas,            \* fabric_cas
  entries,        \* v2_entries, with their files
  holds           \* v2_file_holds

hosts == <<gen, lease>>
vars == <<gen, lease, operations, tickets, cas, entries, holds>>

Authorities == Hosts \X (1..MaxGen)

(* "verified" also says by whom. *)
Operation == [by : Authorities, left : 0..OperationTTL, targets : SUBSET Blocks,
              verified : SUBSET (Authorities \X Blocks)]

(* "by" and "hold" say what a ticket was granted for. *)
Ticket == [op : {"PUT", "GET"}, block : Blocks, left : Nat, by : Authorities,
           hold : HoldIds \cup {None}]

(* A write hold has no deadline. *)
Hold == [path : Paths, file : Files, mode : {"read", "write"}, gen : 1..MaxGen,
         left : Nat, released : BOOLEAN]

ASSUME TransferAssumption ==
  /\ Files \subseteq SUBSET Blocks
  /\ Batches \subseteq SUBSET Blocks
  /\ {Lease, Margin, MinTicket, OperationTTL, MaxGen} \subseteq Nat \ {0}
  /\ {MaxOperations, MaxTargets, MaxHolds, MaxTickets} \subseteq Nat
  /\ TicketTTLs \cup HoldTTLs \subseteq Nat \ {0}
  /\ None \notin Files
  /\ None \notin HoldIds
  /\ None \notin Operation
  /\ None \notin [by : Authorities, blocks : SUBSET (Authorities \X Blocks)]
  /\ None \notin Hold

-----------------------------------------------------------------------------
(* Helpers. *)

Current(h) == <<h, gen[h]>>

Attached(h) == lease[h] > 0

Live(op) == op # None /\ op.left > 0

Least(x, y) == IF x < y THEN x ELSE y
Most(x, y) == IF x > y THEN x ELSE y

(* The attachment may still back a ticket. *)
Backs(left) == left - Margin >= MinTicket

(* _mint_direct_ticket_locked, for each block of a batch. *)
Mint(op, bs, left, h, hold) ==
  /\ Cardinality(tickets) + Cardinality(bs) <= MaxTickets
  /\ tickets' = tickets \cup
       {[op |-> op, block |-> b, left |-> left, by |-> Current(h), hold |-> hold] : b \in bs}

-----------------------------------------------------------------------------
(* The host and the clock. *)

(* attach, and every heartbeat. *)
Renew(h) ==
  /\ lease' = [lease EXCEPT ![h] = Lease]
  /\ UNCHANGED <<gen, operations, tickets, cas, entries, holds>>

EndGeneration(h) ==
  /\ gen[h] < MaxGen
  /\ gen' = [gen EXCEPT ![h] = @ + 1]
  /\ lease' = [lease EXCEPT ![h] = 0]
  /\ UNCHANGED <<operations, tickets, cas, entries, holds>>

Less(left) == IF left > 0 THEN left - 1 ELSE 0

(* What is left of a ticket, an operation and a hold a moment later. *)
Aged(t) ==
  [op |-> t.op, block |-> t.block, left |-> t.left - 1, by |-> t.by, hold |-> t.hold]

AgedOperation(op) ==
  [by |-> op.by, left |-> Less(op.left), targets |-> op.targets, verified |-> op.verified]

Changed(x, left, released) ==
  [path |-> x.path, file |-> x.file, mode |-> x.mode, gen |-> x.gen, left |-> left,
   released |-> released]

(* Time passes; an operation that has expired stays until the next upload. *)
Tick ==
  /\ lease' = [h \in Hosts |-> Less(lease[h])]
  /\ operations' = [m \in Mutations |->
       IF operations[m] = None THEN None ELSE AgedOperation(operations[m])]
  /\ tickets' = {Aged(t) : t \in {u \in tickets : u.left > 1}}
  /\ holds' = [h \in Hosts |-> [x \in HoldIds |->
       IF holds[h][x] = None THEN None
       ELSE Changed(holds[h][x], Less(holds[h][x].left), holds[h][x].released)]]
  /\ UNCHANGED <<gen, cas, entries>>

-----------------------------------------------------------------------------
(* Uploads. *)

(* The operations, without those that have expired. *)
Pruned == [m \in Mutations |-> IF Live(operations[m]) THEN operations[m] ELSE None]

Active(h) == {m \in Mutations : Live(operations[m]) /\ operations[m].by = Current(h)}

(* Variant with a fault: naming more blocks renews the operation.          *)
Targeted_Renewed(h, m, bs, verified) ==
  [by |-> Current(h), left |-> OperationTTL,
   targets |-> bs \cup IF Live(operations[m]) THEN operations[m].targets ELSE {},
   verified |-> verified \cup IF Live(operations[m]) THEN operations[m].verified ELSE {}]

(* The operation of a mutation that names blocks bs, with more verified. *)
Targeted(h, m, bs, verified) ==
  IF Live(operations[m])
  THEN [by |-> operations[m].by, left |-> operations[m].left,
        targets |-> operations[m].targets \cup bs,
        verified |-> operations[m].verified \cup verified]
  ELSE [by |-> Current(h), left |-> OperationTTL, targets |-> bs, verified |-> verified]

(* Variant with a fault: another authority may join. *)
MayTarget_Anyone(h, m, bs) == Cardinality(Targeted(h, m, bs, {}).targets) <= MaxTargets

(* _target_verification_blocks_locked: whether the authority may. *)
MayTarget(h, m, bs) ==
  /\ IF Live(operations[m]) THEN operations[m].by = Current(h)
     ELSE Cardinality(Active(h)) < MaxOperations
  /\ Cardinality(Targeted(h, m, bs, {}).targets) <= MaxTargets

Target(h, m, bs, verified) ==
  /\ MayTarget(h, m, bs)
  /\ operations' = [Pruned EXCEPT ![m] = Targeted(h, m, bs, verified)]

(* write_batch: the lease caps the tickets. *)
WriteBatch(h, m, bs, ttl) ==
  /\ Attached(h)
  /\ Backs(lease[h])
  /\ Target(h, m, bs, {})
  /\ Mint("PUT", bs, Least(ttl, lease[h] - Margin), h, None)
  /\ UNCHANGED <<hosts, cas, entries, holds>>

(* CONNECTED_HOST_FABRIC_BLOCKS_FAILED: the request is refused, but has    *)
(* pruned.                                                                 *)
TargetRefused(h, m, bs) ==
  /\ ~ MayTarget(h, m, bs)
  /\ operations' = Pruned
  /\ UNCHANGED <<hosts, tickets, cas, entries, holds>>

(* Variant with a fault: the blocks count as verified before each is found. *)
Found_Named(bs) == bs

Found(bs) == IF bs \subseteq cas THEN bs ELSE {}

(* verify: all blocks or none; when one is missing they are targets even   *)
(* so.  No attachment is asked for.                                        *)
VerifyBatch(h, m, bs) ==
  /\ Target(h, m, bs, {Current(h)} \X Found(bs))
  /\ UNCHANGED <<hosts, tickets, cas, entries, holds>>

(* fabric_direct_put, whether or not its answer arrives.  A block that is  *)
(* there already is left alone.                                            *)
DirectPut(t) ==
  /\ t.op = "PUT"
  /\ t.block \notin cas
  /\ cas' = cas \cup {t.block}
  /\ UNCHANGED <<hosts, operations, tickets, entries, holds>>

(* fabric_v2_commit of one path: the operation that is named must be the   *)
(* authority's and live, or gone, and is used up.                          *)
Commit(h, p, f, m) ==
  /\ Attached(h)
  /\ entries[p] # f
  /\ f # None => f \subseteq cas
  /\ m # None => \/ operations[m] = None
                 \/ Live(operations[m]) /\ operations[m].by = Current(h)
  /\ entries' = [entries EXCEPT ![p] = f]
  /\ operations' = [n \in Mutations |-> IF n = m THEN None ELSE operations[n]]
  /\ UNCHANGED <<hosts, tickets, cas, holds>>

(* fabric_mutate, as far as it is about operations (LegacyFabric has the   *)
(* rest): it uses up the operation of its mutation, whoever's that is.     *)
Mutate(h, m) ==
  /\ Attached(h)
  /\ operations[m] # None
  /\ operations' = [operations EXCEPT ![m] = None]
  /\ UNCHANGED <<hosts, tickets, cas, entries, holds>>

-----------------------------------------------------------------------------
(* Holds and reads. *)

(* A hold that may be used: of this generation, not released, not late. *)
Holding(h, x) ==
  /\ holds[h][x] # None
  /\ holds[h][x].gen = gen[h]
  /\ ~ holds[h][x].released
  /\ holds[h][x].mode = "read" => holds[h][x].left > 0

Held(h) == {x \in HoldIds : holds[h][x] # None}

Acquire(h, x, p, mode, ttl) ==
  /\ Attached(h)
  /\ holds[h][x] = None
  /\ entries[p] # None
  /\ Cardinality(UNION {{<<g, y>> : y \in Held(g)} : g \in Hosts}) < MaxHolds
  /\ holds' = [holds EXCEPT ![h][x] =
       [path |-> p, file |-> entries[p], mode |-> mode, gen |-> gen[h],
        left |-> IF mode = "read" THEN ttl ELSE 0, released |-> FALSE]]
  /\ UNCHANGED <<hosts, operations, tickets, cas, entries>>

(* Variant with a fault: a shorter renewal shortens the hold. *)
Extended_Replaced(left, ttl) == ttl

Extended(left, ttl) == Most(left, ttl)

(* renew, or acquire again with the same identity. *)
RenewHold(h, x, ttl) ==
  /\ Attached(h)
  /\ Holding(h, x)
  /\ holds[h][x].mode = "read"
  /\ holds' = [holds EXCEPT ![h][x] =
       Changed(holds[h][x], Extended(holds[h][x].left, ttl), FALSE)]
  /\ UNCHANGED <<hosts, operations, tickets, cas, entries>>

(* A hold of an ended generation can no longer be released. *)
Release(h, x) ==
  /\ Attached(h)
  /\ holds[h][x] # None
  /\ holds[h][x].gen = gen[h]
  /\ holds' = [holds EXCEPT ![h][x] = Changed(holds[h][x], holds[h][x].left, TRUE)]
  /\ UNCHANGED <<hosts, operations, tickets, cas, entries>>

(* read_batch and read_batch_v2: blocks of the current version. *)
ReadBatch(h, p, bs, ttl) ==
  /\ Attached(h)
  /\ Backs(lease[h])
  /\ entries[p] # None
  /\ bs \subseteq entries[p]
  /\ Mint("GET", bs, Least(ttl, lease[h] - Margin), h, None)
  /\ UNCHANGED <<hosts, operations, cas, entries, holds>>

(* read_batch_v2 under a hold: blocks of the version held, even when the   *)
(* path has another or none; a read hold caps the tickets.                 *)
ReadHeld(h, x, bs, ttl) ==
  /\ Attached(h)
  /\ Holding(h, x)
  /\ Backs(lease[h])
  /\ bs \subseteq holds[h][x].file
  /\ IF holds[h][x].mode = "read"
     THEN /\ Backs(holds[h][x].left)
          /\ Mint("GET", bs, Least(Least(ttl, lease[h] - Margin), holds[h][x].left - Margin), h, x)
     ELSE Mint("GET", bs, Least(ttl, lease[h] - Margin), h, x)
  /\ UNCHANGED <<hosts, operations, cas, entries, holds>>

-----------------------------------------------------------------------------
Init ==
  /\ gen = [h \in Hosts |-> 1]
  /\ lease = [h \in Hosts |-> 0]
  /\ operations = [m \in Mutations |-> None]
  /\ tickets = {}
  /\ cas = {}
  /\ entries = [p \in Paths |-> None]
  /\ holds = [h \in Hosts |-> [x \in HoldIds |-> None]]

Uploads(h) ==
  \/ \E m \in Mutations, bs \in Batches, ttl \in TicketTTLs :
       WriteBatch(h, m, bs, ttl)
  \/ \E m \in Mutations : Mutate(h, m)
  \/ \E m \in Mutations, bs \in Batches : VerifyBatch(h, m, bs) \/ TargetRefused(h, m, bs)
  \/ \E p \in Paths, f \in Files \cup {None}, m \in Mutations \cup {None} : Commit(h, p, f, m)

Reads(h) ==
  \/ \E x \in HoldIds, p \in Paths, mode \in {"read", "write"}, ttl \in HoldTTLs :
       Acquire(h, x, p, mode, ttl)
  \/ \E x \in HoldIds, ttl \in HoldTTLs : RenewHold(h, x, ttl)
  \/ \E x \in HoldIds : Release(h, x)
  \/ \E p \in Paths, bs \in Batches, ttl \in TicketTTLs : ReadBatch(h, p, bs, ttl)
  \/ \E x \in HoldIds, bs \in Batches, ttl \in TicketTTLs : ReadHeld(h, x, bs, ttl)

Next ==
  \/ Tick
  \/ \E h \in Hosts : Renew(h) \/ EndGeneration(h) \/ Uploads(h) \/ Reads(h)
  \/ \E t \in tickets : DirectPut(t)

Spec == Init /\ [][Next]_vars

(* Time passes. *)
FairSpec == Spec /\ WF_vars(Tick)

-----------------------------------------------------------------------------
(* The variables keep their types; what counts as verified was named by    *)
(* the mutation and is stored, also when one block of a batch is missing   *)
(* or bytes arrive for an authority that has ended.                        *)
TransferTypeOK ==
  /\ gen \in [Hosts -> 1..MaxGen]
  /\ lease \in [Hosts -> 0..Lease]
  /\ operations \in [Mutations -> Operation \cup {None}]
  /\ tickets \subseteq Ticket
  /\ cas \subseteq Blocks
  /\ entries \in [Paths -> Files \cup {None}]
  /\ holds \in [Hosts -> [HoldIds -> Hold \cup {None}]]
  /\ \A m \in Mutations : operations[m] # None =>
       {e[2] : e \in operations[m].verified} \subseteq operations[m].targets \cap cas

(* A ticket ends before everything it was granted under: the lease of the  *)
(* attachment, unless its generation has been ended, and a read hold,      *)
(* however they are renewed; and whoever has a ticket to read finds the    *)
(* block, even when nothing but a hold names it any more.                  *)
TicketsAreCovered ==
  \A t \in tickets :
    /\ t.by = Current(t.by[1]) => t.left + Margin <= lease[t.by[1]]
    /\ t.hold # None /\ holds[t.by[1]][t.hold].mode = "read" =>
         t.left + Margin <= holds[t.by[1]][t.hold].left
    /\ t.op = "GET" => t.block \in cas

(* Whether host h cannot upload for mutation m. *)
Blocked(h, m) ==
  IF Live(operations[m]) THEN operations[m].by # Current(h)
  ELSE Cardinality(Active(h)) >= MaxOperations

(* No host is kept from a mutation for good: not by a generation that has  *)
(* ended while it was uploading, not by another host, and not by other     *)
(* mutations at the limit, however long their clients keep asking.         *)
FenceOpens == \A h \in Hosts, m \in Mutations : []<> ~ Blocked(h, m)

(* The operations, as far as they have not expired, are an upload fence.   *)
Fence == INSTANCE UploadFence WITH
  proofs <- [m \in Mutations |->
    IF Live(operations[m])
    THEN [by |-> operations[m].by, blocks |-> operations[m].verified] ELSE None]

(* Uploads keep the fence of UploadFence: nobody's blocks count for the    *)
(* mutation of another authority until it has expired or been used up.     *)
ImplementsFence == Fence!Spec
=============================================================================
