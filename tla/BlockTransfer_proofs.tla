------------------------- MODULE BlockTransfer_proofs -------------------------
(* The safety of uploads, tickets and holds, for all sets of hosts, blocks *)
(* and versions, all times and all bounds; and that the verification       *)
(* operations are an upload fence.                                         *)
EXTENDS BlockTransfer, TLAPS

-----------------------------------------------------------------------------
(* Operators. *)

(* The authority of the moment is one. *)
LEMMA CurrentIsAuthority ==
  ASSUME TransferTypeOK, NEW h \in Hosts
  PROVE  Current(h) \in Authorities
BY DEF TransferTypeOK, Current, Authorities

(* A time that is left shrinks by one, down to zero. *)
LEMMA LessIsLess ==
  ASSUME NEW n \in Nat
  PROVE  /\ Less(n) \in Nat
         /\ Less(n) <= n
         /\ n > 0 => Less(n) = n - 1
         /\ n = 0 => Less(n) = 0
BY DEF Less

(* What becomes of an operation with time. *)
LEMMA AgedOperationType ==
  ASSUME NEW op \in Operation
  PROVE  /\ AgedOperation(op) \in Operation
         /\ AgedOperation(op).by = op.by
         /\ AgedOperation(op).left = Less(op.left)
         /\ AgedOperation(op).targets = op.targets
         /\ AgedOperation(op).verified = op.verified
<1>1. op.left \in Nat /\ op.left \in 0..OperationTTL
  BY TransferAssumption DEF Operation
<1>2. Less(op.left) \in 0..OperationTTL
  BY <1>1, LessIsLess, TransferAssumption
<1> QED BY <1>2 DEF AgedOperation, Operation

(* The parts of a hold that a renewal, a release and the clock keep. *)
LEMMA ChangedType ==
  ASSUME NEW x \in Hold, NEW left \in Nat, NEW released \in BOOLEAN
  PROVE  /\ Changed(x, left, released) \in Hold
         /\ Changed(x, left, released).file = x.file
         /\ Changed(x, left, released).mode = x.mode
         /\ Changed(x, left, released).left = left
BY DEF Changed, Hold

(* The operation that a request of an upload leaves. *)
LEMMA TargetedType ==
  ASSUME TransferTypeOK, NEW h \in Hosts, NEW m \in Mutations, NEW bs \in SUBSET Blocks,
         NEW verified \in SUBSET (Authorities \X Blocks)
  PROVE  Targeted(h, m, bs, verified) \in Operation
<1>1. Current(h) \in Authorities
  BY CurrentIsAuthority
<1>2. CASE Live(operations[m])
  <2>1. operations[m] \in Operation
    BY <1>2 DEF TransferTypeOK, Live
  <2> QED BY <1>2, <2>1 DEF Targeted, Operation
<1>3. CASE ~ Live(operations[m])
  <2>1. OperationTTL \in 0..OperationTTL
    BY TransferAssumption
  <2> QED BY <1>1, <1>3, <2>1 DEF Targeted, Operation
<1> QED BY <1>2, <1>3

(* Only verified blocks that are named and stored stay verified ones. *)
Backed(op) == {e[2] : e \in op.verified} \subseteq op.targets \cap cas

(* A request of an upload leaves well-formed operations. *)
LEMMA TargetKeepsType ==
  ASSUME TransferTypeOK, NEW h \in Hosts, NEW m \in Mutations, NEW bs \in SUBSET Blocks,
         NEW found \in SUBSET (bs \cap cas), Target(h, m, bs, {Current(h)} \X found)
  PROVE  /\ operations' \in [Mutations -> Operation \cup {None}]
         /\ \A n \in Mutations : operations'[n] # None =>
              {e[2] : e \in operations'[n].verified} \subseteq operations'[n].targets \cap cas
<1> DEFINE verified == {Current(h)} \X found
           new == Targeted(h, m, bs, verified)
<1>1. verified \in SUBSET (Authorities \X Blocks)
  BY CurrentIsAuthority
<1>2. new \in Operation
  BY <1>1, TargetedType
<1>3. Backed(new)
  <2>1. {e[2] : e \in verified} \subseteq bs \cap cas
    OBVIOUS
  <2>2. CASE Live(operations[m])
    <3>1. Backed(operations[m])
      BY <2>2 DEF TransferTypeOK, Live, Backed
    <3>2. new.targets = operations[m].targets \cup bs
      BY <2>2 DEF Targeted
    <3>3. new.verified = operations[m].verified \cup verified
      BY <2>2 DEF Targeted
    <3> HIDE DEF new, verified
    <3> QED BY <2>1, <3>1, <3>2, <3>3 DEF Backed
  <2>3. CASE ~ Live(operations[m])
    <3>1. new.targets = bs /\ new.verified = verified
      BY <2>3 DEF Targeted
    <3> HIDE DEF new, verified
    <3> QED BY <2>1, <3>1 DEF Backed
  <2> QED BY <2>2, <2>3
<1>4. operations' = [Pruned EXCEPT ![m] = new]
  BY DEF Target
<1> HIDE DEF new
<1>5. ASSUME NEW n \in Mutations
      PROVE  /\ operations'[n] \in Operation \cup {None}
             /\ operations'[n] # None => Backed(operations'[n])
  <2>1. CASE n = m
    BY <1>2, <1>3, <1>4, <2>1 DEF Pruned
  <2>2. CASE n # m
    <3>1. operations'[n] \in {operations[n], None}
      BY <1>4, <2>2 DEF Pruned
    <3> QED BY <3>1 DEF TransferTypeOK, Backed
  <2> QED BY <2>1, <2>2
<1>6. DOMAIN operations' = Mutations /\ operations' = [n \in Mutations |-> operations'[n]]
  BY <1>4 DEF Pruned
<1> QED BY <1>5, <1>6 DEF Backed

(* What is minted for a batch are tickets. *)
LEMMA MintType ==
  ASSUME TransferTypeOK, NEW h \in Hosts, NEW op \in {"PUT", "GET"}, NEW bs \in SUBSET Blocks,
         NEW left \in Nat, NEW hold \in HoldIds \cup {None}, Mint(op, bs, left, h, hold)
  PROVE  tickets' \subseteq Ticket
<1>1. Current(h) \in Authorities
  BY CurrentIsAuthority
<1> QED BY <1>1 DEF Mint, Ticket, TransferTypeOK

(* A ticket lives as long as asked for, or as its cap allows. *)
LEMMA CapIsTime ==
  ASSUME NEW ttl \in Nat \ {0}, NEW cap \in Nat, Backs(cap)
  PROVE  /\ Least(ttl, cap - Margin) \in Nat \ {0}
         /\ Least(ttl, cap - Margin) + Margin <= cap
<1>1. Margin \in Nat /\ MinTicket \in Nat /\ MinTicket > 0
  BY TransferAssumption
<1> QED BY <1>1 DEF Least, Backs

-----------------------------------------------------------------------------
(* Types. *)

(* The operations after the clock, and after uses. *)
LEMMA OperationsShrink ==
  ASSUME TransferTypeOK,
         \A m \in Mutations : \/ operations'[m] = operations[m]
                              \/ operations'[m] = None
                              \/ /\ operations[m] # None
                                 /\ operations'[m] = AgedOperation(operations[m]),
         operations' = [m \in Mutations |-> operations'[m]],
         cas \subseteq cas'
  PROVE  /\ operations' \in [Mutations -> Operation \cup {None}]
         /\ \A m \in Mutations : operations'[m] # None =>
              {e[2] : e \in operations'[m].verified} \subseteq operations'[m].targets \cap cas'
<1> SUFFICES ASSUME NEW m \in Mutations
             PROVE  /\ operations'[m] \in Operation \cup {None}
                    /\ operations'[m] # None =>
                         {e[2] : e \in operations'[m].verified}
                           \subseteq operations'[m].targets \cap cas'
  OBVIOUS
<1>1. operations[m] \in Operation \cup {None}
  BY DEF TransferTypeOK
<1>2. operations[m] # None =>
        {e[2] : e \in operations[m].verified} \subseteq operations[m].targets \cap cas
  BY DEF TransferTypeOK
<1>3. CASE operations'[m] \in {operations[m], None}
  BY <1>1, <1>2, <1>3
<1>4. CASE operations[m] # None /\ operations'[m] = AgedOperation(operations[m])
  BY <1>1, <1>2, <1>4, AgedOperationType
<1> QED BY <1>3, <1>4

(* Init has the types. *)
LEMMA InitTyped == Init => TransferTypeOK
<1> SUFFICES ASSUME Init PROVE TransferTypeOK
  OBVIOUS
<1>1. 1 \in 1..MaxGen /\ 0 \in 0..Lease
  BY TransferAssumption
<1> QED BY <1>1 DEF Init, TransferTypeOK

(* Every step keeps the types. *)
LEMMA StepTyped == TransferTypeOK /\ [Next]_vars => TransferTypeOK'
<1> SUFFICES ASSUME TransferTypeOK, [Next]_vars PROVE TransferTypeOK'
  OBVIOUS
<1> USE DEF hosts
<1>1. CASE Tick
  <2>1. lease' \in [Hosts -> 0..Lease]
    <3>1. ASSUME NEW h \in Hosts PROVE Less(lease[h]) \in 0..Lease
      <4>1. lease[h] \in 0..Lease /\ Lease \in Nat
        BY TransferAssumption DEF TransferTypeOK
      <4> QED BY <4>1, LessIsLess
    <3> QED BY <1>1, <3>1 DEF Tick
  <2>2. /\ operations' \in [Mutations -> Operation \cup {None}]
        /\ \A m \in Mutations : operations'[m] # None =>
             {e[2] : e \in operations'[m].verified} \subseteq operations'[m].targets \cap cas'
    <3>1. \A m \in Mutations : \/ operations'[m] = None
                               \/ /\ operations[m] # None
                                  /\ operations'[m] = AgedOperation(operations[m])
      BY <1>1 DEF Tick
    <3>2. operations' = [m \in Mutations |-> operations'[m]] /\ cas' = cas
      BY <1>1 DEF Tick
    <3> QED BY <3>1, <3>2, OperationsShrink
  <2>3. tickets' \subseteq Ticket
    <3>1. SUFFICES ASSUME NEW t \in tickets, t.left > 1 PROVE Aged(t) \in Ticket
      BY <1>1 DEF Tick
    <3>2. t \in Ticket
      BY DEF TransferTypeOK
    <3>3. t.left - 1 \in Nat
      BY <3>1, <3>2 DEF Ticket
    <3> QED BY <3>2, <3>3 DEF Aged, Ticket
  <2>4. holds' \in [Hosts -> [HoldIds -> Hold \cup {None}]]
    <3>1. ASSUME NEW h \in Hosts, NEW x \in HoldIds, holds[h][x] # None
          PROVE  Changed(holds[h][x], Less(holds[h][x].left), holds[h][x].released) \in Hold
      <4>1. holds[h][x] \in Hold
        BY <3>1 DEF TransferTypeOK
      <4>2. holds[h][x].left \in Nat /\ holds[h][x].released \in BOOLEAN
        BY <4>1 DEF Hold
      <4> QED BY <4>1, <4>2, LessIsLess, ChangedType
    <3> QED BY <1>1, <3>1 DEF Tick
  <2> QED BY <1>1, <2>1, <2>2, <2>3, <2>4 DEF Tick, TransferTypeOK
<1>2. ASSUME NEW h \in Hosts, Renew(h) \/ EndGeneration(h) PROVE TransferTypeOK'
  <2>1. lease' \in [Hosts -> 0..Lease]
    <3>1. Lease \in 0..Lease /\ 0 \in 0..Lease
      BY TransferAssumption
    <3> QED BY <1>2, <3>1 DEF Renew, EndGeneration, TransferTypeOK
  <2>2. gen' \in [Hosts -> 1..MaxGen]
    <3>1. MaxGen \in Nat
      BY TransferAssumption
    <3> QED BY <1>2, <3>1 DEF Renew, EndGeneration, TransferTypeOK
  <2> QED BY <1>2, <2>1, <2>2 DEF Renew, EndGeneration, TransferTypeOK
<1>3. ASSUME NEW h \in Hosts, Uploads(h) PROVE TransferTypeOK'
  <2>1. ASSUME NEW m \in Mutations, NEW bs \in Batches, NEW ttl \in TicketTTLs,
               WriteBatch(h, m, bs, ttl)
        PROVE  TransferTypeOK'
    <3>1. bs \in SUBSET Blocks /\ ttl \in Nat \ {0} /\ {} \in SUBSET (bs \cap cas)
      BY TransferAssumption
    <3>2. {} = {Current(h)} \X {}
      OBVIOUS
    <3>3. Target(h, m, bs, {Current(h)} \X {})
      BY <2>1, <3>2 DEF WriteBatch
    <3>4. /\ operations' \in [Mutations -> Operation \cup {None}]
          /\ \A n \in Mutations : operations'[n] # None =>
               {e[2] : e \in operations'[n].verified} \subseteq operations'[n].targets \cap cas
      BY <3>1, <3>3, TargetKeepsType
    <3>5. lease[h] \in Nat
      BY TransferAssumption DEF TransferTypeOK
    <3>6. Least(ttl, lease[h] - Margin) \in Nat
      BY <2>1, <3>1, <3>5, CapIsTime DEF WriteBatch
    <3>7. tickets' \subseteq Ticket
      BY <2>1, <3>1, <3>6, MintType DEF WriteBatch
    <3> QED BY <2>1, <3>4, <3>7 DEF WriteBatch, TransferTypeOK
  <2>2. ASSUME NEW m \in Mutations, NEW bs \in Batches, VerifyBatch(h, m, bs)
        PROVE  TransferTypeOK'
    <3>1. bs \in SUBSET Blocks /\ Found(bs) \in SUBSET (bs \cap cas)
      BY TransferAssumption DEF Found
    <3>2. /\ operations' \in [Mutations -> Operation \cup {None}]
          /\ \A n \in Mutations : operations'[n] # None =>
               {e[2] : e \in operations'[n].verified} \subseteq operations'[n].targets \cap cas
      BY <2>2, <3>1, TargetKeepsType DEF VerifyBatch
    <3> QED BY <2>2, <3>2 DEF VerifyBatch, TransferTypeOK
  <2>3. ASSUME NEW m \in Mutations, NEW bs \in Batches, TargetRefused(h, m, bs)
        PROVE  TransferTypeOK'
    <3>1. /\ \A n \in Mutations : operations'[n] = operations[n] \/ operations'[n] = None
          /\ operations' = [n \in Mutations |-> operations'[n]]
          /\ cas' = cas
      BY <2>3 DEF TargetRefused, Pruned
    <3> QED BY <2>3, <3>1, OperationsShrink DEF TargetRefused, TransferTypeOK
  <2>4. ASSUME NEW m \in Mutations, Mutate(h, m)
        PROVE  TransferTypeOK'
    <3>1. /\ \A n \in Mutations : operations'[n] = operations[n] \/ operations'[n] = None
          /\ operations' = [n \in Mutations |-> operations'[n]]
          /\ cas' = cas
      BY <2>4 DEF Mutate, TransferTypeOK
    <3> QED BY <2>4, <3>1, OperationsShrink DEF Mutate, TransferTypeOK
  <2>5. ASSUME NEW p \in Paths, NEW f \in Files \cup {None}, NEW m \in Mutations \cup {None},
               Commit(h, p, f, m)
        PROVE  TransferTypeOK'
    <3>1. /\ \A n \in Mutations : operations'[n] = operations[n] \/ operations'[n] = None
          /\ operations' = [n \in Mutations |-> operations'[n]]
          /\ cas' = cas
      BY <2>5 DEF Commit
    <3>2. entries' \in [Paths -> Files \cup {None}]
      BY <2>5 DEF Commit, TransferTypeOK
    <3> QED BY <2>5, <3>1, <3>2, OperationsShrink DEF Commit, TransferTypeOK
  <2> QED BY <1>3, <2>1, <2>2, <2>3, <2>4, <2>5 DEF Uploads
<1>4. ASSUME NEW t \in tickets, DirectPut(t) PROVE TransferTypeOK'
  <2>1. cas' \subseteq Blocks /\ cas \subseteq cas'
    BY <1>4 DEF DirectPut, TransferTypeOK, Ticket
  <2>2. \A m \in Mutations : operations[m] # None =>
          {e[2] : e \in operations[m].verified} \subseteq operations[m].targets \cap cas'
    BY <2>1 DEF TransferTypeOK
  <2> QED BY <1>4, <2>1, <2>2 DEF DirectPut, TransferTypeOK
<1>5. ASSUME NEW h \in Hosts, Reads(h) PROVE TransferTypeOK'
  <2>1. ASSUME NEW x \in HoldIds, NEW p \in Paths, NEW mode \in {"read", "write"},
               NEW ttl \in HoldTTLs, Acquire(h, x, p, mode, ttl)
        PROVE  TransferTypeOK'
    <3> DEFINE left == IF mode = "read" THEN ttl ELSE 0
               new == [path |-> p, file |-> entries[p], mode |-> mode, gen |-> gen[h],
                       left |-> left, released |-> FALSE]
    <3>1. left \in Nat
      BY TransferAssumption
    <3>2. entries[p] \in Files /\ gen[h] \in 1..MaxGen
      BY <2>1 DEF Acquire, TransferTypeOK
    <3>3. new \in Hold
      BY <3>1, <3>2 DEF Hold
    <3>4. holds' = [holds EXCEPT ![h][x] = new]
      BY <2>1 DEF Acquire
    <3> HIDE DEF new
    <3>5. holds' \in [Hosts -> [HoldIds -> Hold \cup {None}]]
      BY <3>3, <3>4 DEF TransferTypeOK
    <3> QED BY <2>1, <3>5 DEF Acquire, TransferTypeOK
  <2>2. ASSUME NEW x \in HoldIds, NEW left \in Nat, NEW released \in BOOLEAN,
               holds[h][x] # None,
               holds' = [holds EXCEPT ![h][x] = Changed(holds[h][x], left, released)]
        PROVE  holds' \in [Hosts -> [HoldIds -> Hold \cup {None}]]
    <3>1. Changed(holds[h][x], left, released) \in Hold
      BY <2>2, ChangedType DEF TransferTypeOK
    <3> QED BY <2>2, <3>1 DEF TransferTypeOK
  <2>3. ASSUME NEW x \in HoldIds, NEW ttl \in HoldTTLs, RenewHold(h, x, ttl)
        PROVE  TransferTypeOK'
    <3>1. holds[h][x] # None
      BY <2>3 DEF RenewHold, Holding
    <3>2. Extended(holds[h][x].left, ttl) \in Nat
      <4>1. holds[h][x] \in Hold
        BY <3>1 DEF TransferTypeOK
      <4>2. holds[h][x].left \in Nat /\ ttl \in Nat
        BY <4>1, TransferAssumption DEF Hold
      <4> QED BY <4>2 DEF Extended, Most
    <3>3. holds' \in [Hosts -> [HoldIds -> Hold \cup {None}]]
      BY <2>2, <2>3, <3>1, <3>2 DEF RenewHold
    <3> QED BY <2>3, <3>3 DEF RenewHold, TransferTypeOK
  <2>4. ASSUME NEW x \in HoldIds, Release(h, x)
        PROVE  TransferTypeOK'
    <3>1. holds[h][x] # None /\ holds[h][x] \in Hold
      BY <2>4 DEF Release, TransferTypeOK
    <3>2. holds[h][x].left \in Nat
      BY <3>1 DEF Hold
    <3>3. holds' \in [Hosts -> [HoldIds -> Hold \cup {None}]]
      BY <2>2, <2>4, <3>1, <3>2 DEF Release
    <3> QED BY <2>4, <3>3 DEF Release, TransferTypeOK
  <2>5. lease[h] \in Nat
    BY TransferAssumption DEF TransferTypeOK
  <2>6. ASSUME NEW p \in Paths, NEW bs \in Batches, NEW ttl \in TicketTTLs,
               ReadBatch(h, p, bs, ttl)
        PROVE  TransferTypeOK'
    <3>1. bs \in SUBSET Blocks /\ ttl \in Nat \ {0}
      BY TransferAssumption
    <3>2. Least(ttl, lease[h] - Margin) \in Nat
      BY <2>5, <2>6, <3>1, CapIsTime DEF ReadBatch
    <3>3. tickets' \subseteq Ticket
      BY <2>6, <3>1, <3>2, MintType DEF ReadBatch
    <3> QED BY <2>6, <3>3 DEF ReadBatch, TransferTypeOK
  <2>7. ASSUME NEW x \in HoldIds, NEW bs \in Batches, NEW ttl \in TicketTTLs,
               ReadHeld(h, x, bs, ttl)
        PROVE  TransferTypeOK'
    <3> DEFINE short == Least(ttl, lease[h] - Margin)
    <3>1. bs \in SUBSET Blocks /\ ttl \in Nat \ {0}
      BY TransferAssumption
    <3>2. short \in Nat \ {0}
      BY <2>5, <2>7, <3>1, CapIsTime DEF ReadHeld
    <3> HIDE DEF short
    <3>3. holds[h][x].left \in Nat
      BY <2>7 DEF ReadHeld, Holding, TransferTypeOK, Hold
    <3>4. CASE holds[h][x].mode = "read"
      <4>1. Backs(holds[h][x].left) /\ Mint("GET", bs, Least(short, holds[h][x].left - Margin), h, x)
        BY <2>7, <3>4 DEF ReadHeld, short
      <4>2. Least(short, holds[h][x].left - Margin) \in Nat
        BY <3>2, <3>3, <4>1, CapIsTime
      <4>3. tickets' \subseteq Ticket
        BY <3>1, <4>1, <4>2, MintType
      <4> QED BY <2>7, <4>3 DEF ReadHeld, TransferTypeOK
    <3>5. CASE holds[h][x].mode # "read"
      <4>1. Mint("GET", bs, short, h, x)
        BY <2>7, <3>5 DEF ReadHeld, short
      <4>2. tickets' \subseteq Ticket
        BY <3>1, <3>2, <4>1, MintType
      <4> QED BY <2>7, <4>2 DEF ReadHeld, TransferTypeOK
    <3> QED BY <3>4, <3>5
  <2> QED BY <1>5, <2>1, <2>3, <2>4, <2>6, <2>7 DEF Reads
<1>6. CASE UNCHANGED vars
  BY <1>6 DEF vars, TransferTypeOK
<1> QED BY <1>1, <1>2, <1>3, <1>4, <1>5, <1>6 DEF Next

(* What counts as verified for a mutation was named by it and is stored,   *)
(* and everything keeps its type, for any number of hosts and blocks.      *)
THEOREM TransferTypeCorrect == FairSpec => []TransferTypeOK
BY InitTyped, StepTyped, PTL DEF FairSpec, Spec

-----------------------------------------------------------------------------
(* Tickets. *)

(* What keeps tickets covered: a ticket is of a generation there has been  *)
(* and for a hold there is, it has time left, and what entries and holds   *)
(* name is stored.                                                         *)
Sound(t) ==
  /\ t.left > 0
  /\ t.by[2] <= gen[t.by[1]]
  /\ t.hold # None => holds[t.by[1]][t.hold] # None

Stored ==
  /\ \A p \in Paths : entries[p] # None => entries[p] \subseteq cas
  /\ \A h \in Hosts, x \in HoldIds : holds[h][x] # None => holds[h][x].file \subseteq cas

Covered(t) ==
  /\ t.by = Current(t.by[1]) => t.left + Margin <= lease[t.by[1]]
  /\ t.hold # None /\ holds[t.by[1]][t.hold].mode = "read" =>
       t.left + Margin <= holds[t.by[1]][t.hold].left
  /\ t.op = "GET" => t.block \in cas

TicketInv == TransferTypeOK /\ Stored /\ \A t \in tickets : Sound(t) /\ Covered(t)

(* A ticket is of a host that there is. *)
LEMMA TicketParts ==
  ASSUME TransferTypeOK, NEW t \in tickets
  PROVE  /\ t \in Ticket
         /\ t.by[1] \in Hosts
         /\ t.by[2] \in 1..MaxGen
         /\ t.by = <<t.by[1], t.by[2]>>
         /\ t.left \in Nat
         /\ t.hold \in HoldIds \cup {None}
BY DEF TransferTypeOK, Ticket, Authorities

(* A step that leaves the hosts, the holds and the stored blocks as they   *)
(* are, or grows the latter, keeps the old tickets covered.                *)
LEMMA OldTicketsKept ==
  ASSUME TicketInv, UNCHANGED <<gen, lease, holds>>, cas \subseteq cas', NEW t \in tickets
  PROVE  Sound(t)' /\ Covered(t)'
BY DEF TicketInv, Sound, Covered, Current

(* A ticket minted now is covered. *)
LEMMA MintedCovered ==
  ASSUME TicketInv, UNCHANGED <<gen, lease, holds, cas>>, NEW h \in Hosts,
         NEW op \in {"PUT", "GET"}, NEW bs, NEW left \in Nat \ {0},
         NEW x \in HoldIds \cup {None}, Mint(op, bs, left, h, x),
         left + Margin <= lease[h],
         x # None => /\ holds[h][x] # None
                     /\ holds[h][x].mode = "read" => left + Margin <= holds[h][x].left,
         op = "GET" => bs \subseteq cas
  PROVE  \A t \in tickets' : Sound(t)' /\ Covered(t)'
<1> SUFFICES ASSUME NEW t \in tickets' PROVE Sound(t)' /\ Covered(t)'
  OBVIOUS
<1>1. CASE t \in tickets
  BY <1>1, OldTicketsKept
<1>2. CASE t \notin tickets
  <2>1. PICK b \in bs : t = [op |-> op, block |-> b, left |-> left, by |-> Current(h), hold |-> x]
    BY <1>2 DEF Mint
  <2>2. /\ t.op = op /\ t.block = b /\ t.left = left /\ t.by = <<h, gen[h]>> /\ t.hold = x
        /\ t.by[1] = h /\ t.by[2] = gen[h]
    BY <2>1 DEF Current
  <2>3. gen[h] \in Nat
    BY DEF TicketInv, TransferTypeOK
  <2>4. Sound(t)'
    BY <2>2, <2>3 DEF Sound
  <2>5. Covered(t)'
    BY <2>2 DEF Covered, Current
  <2> QED BY <2>4, <2>5
<1> QED BY <1>1, <1>2

(* Nothing is stored, held or granted at the beginning. *)
LEMMA InitCovered == Init => TicketInv
BY InitTyped DEF Init, TicketInv, Stored

(* Every step keeps the tickets covered. *)
LEMMA StepCovered == TicketInv /\ [Next]_vars => TicketInv'
<1> SUFFICES ASSUME TicketInv, [Next]_vars PROVE TicketInv'
  OBVIOUS
<1> USE DEF hosts
<1>t. TransferTypeOK /\ TransferTypeOK'
  BY StepTyped DEF TicketInv
<1>m. Margin \in Nat /\ MinTicket \in Nat \ {0} /\ Lease \in Nat
  BY TransferAssumption
<1>1. CASE Tick
  <2>1. Stored'
    <3>1. ASSUME NEW h \in Hosts, NEW x \in HoldIds, holds'[h][x] # None
          PROVE  holds'[h][x].file \subseteq cas'
      <4>1. holds[h][x] # None /\ holds[h][x] \in Hold
        BY <1>1, <1>t, <3>1 DEF Tick, TransferTypeOK
      <4>2. holds'[h][x] = Changed(holds[h][x], Less(holds[h][x].left), holds[h][x].released)
        BY <1>1, <4>1 DEF Tick
      <4>3. holds'[h][x].file = holds[h][x].file
        BY <4>2 DEF Changed
      <4> QED BY <1>1, <4>1, <4>3 DEF Tick, TicketInv, Stored
    <3> QED BY <1>1, <3>1 DEF Tick, TicketInv, Stored
  <2>2. ASSUME NEW t \in tickets' PROVE Sound(t)' /\ Covered(t)'
    <3>1. PICK u \in tickets : u.left > 1 /\ t = Aged(u)
      BY <1>1 DEF Tick
    <3>2. /\ t.op = u.op /\ t.block = u.block /\ t.by = u.by /\ t.hold = u.hold
          /\ t.left = u.left - 1
      BY <3>1 DEF Aged
    <3>3. Sound(u) /\ Covered(u)
      BY DEF TicketInv
    <3>4. /\ u.left \in Nat /\ u.by[1] \in Hosts /\ u.by[2] \in Nat
          /\ u.hold \in HoldIds \cup {None}
      BY <1>t, TicketParts
    <3> DEFINE h == u.by[1]
    <3>5. gen' = gen /\ cas' = cas /\ lease'[h] = Less(lease[h]) /\ lease[h] \in Nat
      BY <1>1, <1>m, <1>t, <3>4 DEF Tick, TransferTypeOK
    <3>6. u.hold # None => /\ holds[h][u.hold] # None
                           /\ holds[h][u.hold] \in Hold
                           /\ holds[h][u.hold].left \in Nat
      BY <1>t, <3>3, <3>4 DEF Sound, TransferTypeOK, Hold
    <3>7. u.hold # None =>
            holds'[h][u.hold] =
              Changed(holds[h][u.hold], Less(holds[h][u.hold].left), holds[h][u.hold].released)
      BY <1>1, <3>4, <3>6 DEF Tick
    <3>8. u.hold # None => /\ holds'[h][u.hold] # None
                           /\ holds'[h][u.hold].mode = holds[h][u.hold].mode
                           /\ holds'[h][u.hold].left = Less(holds[h][u.hold].left)
      <4> SUFFICES ASSUME u.hold # None
                   PROVE  /\ holds'[h][u.hold] # None
                          /\ holds'[h][u.hold].mode = holds[h][u.hold].mode
                          /\ holds'[h][u.hold].left = Less(holds[h][u.hold].left)
        OBVIOUS
      <4>1. Less(holds[h][u.hold].left) \in Nat /\ holds[h][u.hold].released \in BOOLEAN
        BY <3>6, LessIsLess DEF Hold
      <4>2. holds'[h][u.hold] \in Hold
        BY <3>6, <3>7, <4>1, ChangedType
      <4> QED BY <3>7, <4>2, TransferAssumption DEF Changed
    <3> HIDE DEF h
    <3>9. Sound(t)'
      <4>1. t.left > 0 /\ t.by[2] <= gen'[t.by[1]]
        BY <3>1, <3>2, <3>3, <3>4, <3>5 DEF Sound
      <4>2. t.hold # None => holds'[t.by[1]][t.hold] # None
        BY <3>2, <3>8 DEF h
      <4> QED BY <4>1, <4>2 DEF Sound
    <3>10. t.by = Current(t.by[1])' => t.left + Margin <= lease'[t.by[1]]
      <4> SUFFICES ASSUME u.by = Current(h) PROVE u.left - 1 + Margin <= lease'[h]
        BY <3>2, <3>5 DEF Current, h
      <4>1. u.left + Margin <= lease[h]
        BY <3>3 DEF Covered, h
      <4>2. lease'[h] = lease[h] - 1
        BY <1>m, <3>1, <3>4, <3>5, <4>1, LessIsLess
      <4> QED BY <1>m, <3>4, <3>5, <4>1, <4>2
    <3>11. t.hold # None /\ holds'[t.by[1]][t.hold].mode = "read" =>
             t.left + Margin <= holds'[t.by[1]][t.hold].left
      <4> SUFFICES ASSUME u.hold # None, holds[h][u.hold].mode = "read"
                   PROVE  u.left - 1 + Margin <= holds'[h][u.hold].left
        BY <3>2, <3>8 DEF h
      <4> DEFINE old == holds[h][u.hold].left
      <4>1. u.left + Margin <= old /\ old \in Nat
        BY <3>3, <3>6 DEF Covered, h
      <4>2. holds'[h][u.hold].left = Less(old)
        BY <3>8
      <4> HIDE DEF old
      <4>3. Less(old) = old - 1
        BY <1>m, <3>1, <3>4, <4>1, LessIsLess
      <4> QED BY <1>m, <3>4, <4>1, <4>2, <4>3
    <3>12. t.op = "GET" => t.block \in cas'
      BY <3>2, <3>3, <3>5 DEF Covered
    <3> QED BY <3>9, <3>10, <3>11, <3>12 DEF Covered
  <2> QED BY <1>t, <2>1, <2>2 DEF TicketInv
<1>2. ASSUME NEW g \in Hosts, Renew(g) \/ EndGeneration(g) PROVE TicketInv'
  <2>1. Stored'
    BY <1>2 DEF Renew, EndGeneration, TicketInv, Stored
  <2>2. ASSUME NEW t \in tickets' PROVE Sound(t)' /\ Covered(t)'
    <3>1. t \in tickets /\ holds' = holds /\ cas' = cas
      BY <1>2 DEF Renew, EndGeneration
    <3>2. Sound(t) /\ Covered(t)
      BY <3>1 DEF TicketInv
    <3>3. /\ t.by[1] \in Hosts /\ t.by[2] \in Nat /\ t.left \in Nat
          /\ t.by = <<t.by[1], t.by[2]>>
      BY <1>t, <3>1, TicketParts
    <3> DEFINE h == t.by[1]
    <3>4. /\ gen[h] \in Nat /\ lease[h] \in 0..Lease /\ lease[h] \in Nat /\ gen[g] \in Nat
      BY <1>t, <3>3, <1>m DEF TransferTypeOK
    <3>5. CASE Renew(g)
      <4>1. gen' = gen /\ lease'[h] \in {lease[h], Lease}
        BY <1>t, <3>3, <3>5 DEF Renew, TransferTypeOK
      <4>2. t.by = Current(h) => t.left + Margin <= lease[h]
        BY <3>2 DEF Covered
      <4>3. t.by = Current(h)' => t.left + Margin <= lease'[h]
        <5>1. lease[h] <= Lease /\ lease[h] <= lease'[h]
          BY <1>m, <3>4, <4>1
        <5>2. lease'[h] \in Nat
          BY <1>m, <3>4, <4>1
        <5> HIDE DEF h
        <5> QED BY <1>m, <3>3, <3>4, <4>1, <4>2, <5>1, <5>2 DEF Current
      <4> QED BY <3>1, <3>2, <4>1, <4>3 DEF Sound, Covered
    <3>6. CASE EndGeneration(g)
      <4>1. gen'[h] = IF h = g THEN gen[h] + 1 ELSE gen[h]
        BY <1>t, <3>3, <3>6 DEF EndGeneration, TransferTypeOK
      <4>2. t.by[2] <= gen[h]
        BY <3>2 DEF Sound
      <4>3. t.by[2] <= gen'[h]
        BY <3>3, <3>4, <4>1, <4>2
      <4>4. t.by = Current(h)' => t.left + Margin <= lease'[h]
        <5> SUFFICES ASSUME t.by = Current(h)' PROVE t.left + Margin <= lease'[h]
          OBVIOUS
        <5>1. t.by[2] = gen'[h]
          BY DEF Current
        <5>2. h # g
          BY <3>3, <3>4, <4>1, <4>2, <5>1
        <5>3. t.by = Current(h) /\ lease'[h] = lease[h]
          BY <1>t, <3>3, <3>6, <4>1, <5>2 DEF EndGeneration, TransferTypeOK, Current
        <5> QED BY <3>2, <5>3 DEF Covered
      <4> QED BY <3>1, <3>2, <4>3, <4>4 DEF Sound, Covered
    <3> QED BY <1>2, <3>5, <3>6
  <2> QED BY <1>t, <2>1, <2>2 DEF TicketInv
<1>3. ASSUME NEW h \in Hosts, Uploads(h) PROVE TicketInv'
  <2>1. ASSUME NEW m \in Mutations, NEW bs \in Batches, NEW ttl \in TicketTTLs,
               WriteBatch(h, m, bs, ttl)
        PROVE  TicketInv'
    <3>1. ttl \in Nat \ {0} /\ lease[h] \in Nat
      BY <1>m, <1>t, TransferAssumption DEF TransferTypeOK
    <3>2. /\ Least(ttl, lease[h] - Margin) \in Nat \ {0}
          /\ Least(ttl, lease[h] - Margin) + Margin <= lease[h]
      BY <2>1, <3>1, CapIsTime DEF WriteBatch
    <3>3. /\ UNCHANGED <<gen, lease, holds, cas, entries>>
          /\ Mint("PUT", bs, Least(ttl, lease[h] - Margin), h, None)
      BY <2>1 DEF WriteBatch
    <3>4. \A t \in tickets' : Sound(t)' /\ Covered(t)'
      BY <3>2, <3>3, MintedCovered
    <3> QED BY <1>t, <3>3, <3>4 DEF TicketInv, Stored
  <2>2. CASE /\ UNCHANGED <<gen, lease, holds, cas, tickets>>
             /\ entries' = entries \/ \E p \in Paths, f \in Files \cup {None}, m \in Mutations \cup {None} :
                                      Commit(h, p, f, m)
    <3>1. Stored'
      <4>1. CASE entries' = entries
        BY <2>2, <4>1 DEF TicketInv, Stored
      <4>2. CASE entries' # entries
        BY <1>t, <2>2, <4>2 DEF TicketInv, Stored, Commit, TransferTypeOK
      <4> QED BY <4>1, <4>2
    <3>2. \A t \in tickets' : Sound(t)' /\ Covered(t)'
      BY <2>2, OldTicketsKept
    <3> QED BY <1>t, <3>1, <3>2 DEF TicketInv
  <2>3. ASSUME NEW m \in Mutations, NEW bs \in Batches,
               VerifyBatch(h, m, bs) \/ TargetRefused(h, m, bs) \/ Mutate(h, m)
        PROVE  TicketInv'
    BY <2>2, <2>3 DEF VerifyBatch, TargetRefused, Mutate
  <2>4. ASSUME NEW m \in Mutations, Mutate(h, m) PROVE TicketInv'
    BY <2>2, <2>4 DEF Mutate
  <2>5. ASSUME NEW p \in Paths, NEW f \in Files \cup {None}, NEW m \in Mutations \cup {None},
               Commit(h, p, f, m)
        PROVE  TicketInv'
    <3>1. UNCHANGED <<gen, lease, holds, cas, tickets>>
      BY <2>5 DEF Commit
    <3> QED BY <2>2, <2>5, <3>1
  <2> QED BY <1>3, <2>1, <2>3, <2>4, <2>5 DEF Uploads
<1>4. ASSUME NEW t \in tickets, DirectPut(t) PROVE TicketInv'
  <2>1. /\ UNCHANGED <<gen, lease, holds, entries, tickets>>
        /\ cas \subseteq cas'
    BY <1>4 DEF DirectPut
  <2>2. \A u \in tickets : Sound(u)' /\ Covered(u)'
    BY <2>1, OldTicketsKept
  <2>3. Stored'
    BY <2>1 DEF TicketInv, Stored
  <2> QED BY <1>t, <2>1, <2>2, <2>3 DEF TicketInv
<1>5. ASSUME NEW h \in Hosts, Reads(h) PROVE TicketInv'
  <2>l. lease[h] \in Nat /\ TicketTTLs \cup HoldTTLs \subseteq Nat \ {0}
    BY <1>m, <1>t, TransferAssumption DEF TransferTypeOK
  (* A step that changes one hold, to one that lasts as long at least. *)
  <2>h. ASSUME NEW x \in HoldIds, NEW new \in Hold, new.file \subseteq cas,
               holds' = [holds EXCEPT ![h][x] = new],
               UNCHANGED <<gen, lease, tickets, cas, entries>>,
               holds[h][x] # None => /\ new.mode = holds[h][x].mode
                                     /\ new.left >= holds[h][x].left
        PROVE  TicketInv'
    <3>1. \A g \in Hosts, y \in HoldIds :
            holds'[g][y] = IF g = h /\ y = x THEN new ELSE holds[g][y]
      BY <1>t, <2>h DEF TransferTypeOK
    <3>2. Stored'
      BY <2>h, <3>1 DEF TicketInv, Stored
    <3>3. ASSUME NEW t \in tickets' PROVE Sound(t)' /\ Covered(t)'
      <4>1. t \in tickets /\ Sound(t) /\ Covered(t)
        BY <2>h DEF TicketInv
      <4>2. t.by[1] \in Hosts /\ t.left \in Nat /\ t.hold \in HoldIds \cup {None}
        BY <1>t, <4>1, TicketParts
      <4>3. CASE t.by[1] = h /\ t.hold = x
        <5>1. holds[h][x] # None
          BY <4>1, <4>3, TransferAssumption DEF Sound
        <5>2. holds'[h][x] = new /\ new # None
          BY <3>1, TransferAssumption
        <5>3. Sound(t)'
          BY <2>h, <4>1, <4>3, <5>2 DEF Sound
        <5>4. new.left \in Nat /\ holds[h][x].left \in Nat
          BY <1>t, <5>1 DEF TransferTypeOK, Hold
        <5>5. new.mode = "read" => t.left + Margin <= new.left
          <6> SUFFICES ASSUME new.mode = "read" PROVE t.left + Margin <= new.left
            OBVIOUS
          <6>1. t.left + Margin <= holds[h][x].left
            BY <2>h, <4>1, <4>3, <5>1, TransferAssumption DEF Covered
          <6>2. new.left >= holds[h][x].left
            BY <2>h, <5>1
          <6> QED BY <1>m, <4>2, <5>4, <6>1, <6>2
        <5>6. Covered(t)'
          BY <2>h, <4>1, <4>3, <5>2, <5>5 DEF Covered, Current
        <5> QED BY <5>3, <5>6
      <4>4. CASE ~ (t.by[1] = h /\ t.hold = x)
        <5>1. t.hold # None => holds'[t.by[1]][t.hold] = holds[t.by[1]][t.hold]
          BY <3>1, <4>2, <4>4
        <5> QED BY <2>h, <4>1, <5>1 DEF Sound, Covered, Current
      <4> QED BY <4>3, <4>4
    <3> QED BY <1>t, <3>2, <3>3 DEF TicketInv
  <2>1. ASSUME NEW x \in HoldIds, NEW p \in Paths, NEW mode \in {"read", "write"},
               NEW ttl \in HoldTTLs, Acquire(h, x, p, mode, ttl)
        PROVE  TicketInv'
    <3> DEFINE left == IF mode = "read" THEN ttl ELSE 0
               new == [path |-> p, file |-> entries[p], mode |-> mode, gen |-> gen[h],
                       left |-> left, released |-> FALSE]
    <3>1. new \in Hold
      BY <1>t, <2>1, <2>l DEF Acquire, TransferTypeOK, Hold
    <3>2. new.file \subseteq cas
      BY <2>1 DEF Acquire, TicketInv, Stored
    <3>3. /\ holds' = [holds EXCEPT ![h][x] = new] /\ holds[h][x] = None
          /\ UNCHANGED <<gen, lease, tickets, cas, entries>>
      BY <2>1 DEF Acquire
    <3> HIDE DEF new
    <3> QED BY <2>h, <3>1, <3>2, <3>3
  <2>2. ASSUME NEW x \in HoldIds, NEW ttl \in HoldTTLs, RenewHold(h, x, ttl)
        PROVE  TicketInv'
    <3>1. holds[h][x] # None /\ holds[h][x] \in Hold
      BY <1>t, <2>2 DEF RenewHold, Holding, TransferTypeOK
    <3>2. holds[h][x].left \in Nat /\ ttl \in Nat
      BY <2>l, <3>1 DEF Hold
    <3> DEFINE left == Extended(holds[h][x].left, ttl)
               new == Changed(holds[h][x], left, FALSE)
    <3>3. left \in Nat /\ left >= holds[h][x].left
      BY <3>2 DEF Extended, Most
    <3>4. new \in Hold /\ new.file = holds[h][x].file /\ new.mode = holds[h][x].mode
          /\ new.left = left
      BY <3>1, <3>3, ChangedType
    <3>5. new.file \subseteq cas
      BY <3>1, <3>4 DEF TicketInv, Stored
    <3>6. /\ holds' = [holds EXCEPT ![h][x] = new]
          /\ UNCHANGED <<gen, lease, tickets, cas, entries>>
      BY <2>2 DEF RenewHold
    <3> HIDE DEF new, left
    <3> QED BY <2>h, <3>3, <3>4, <3>5, <3>6
  <2>3. ASSUME NEW x \in HoldIds, Release(h, x) PROVE TicketInv'
    <3>1. holds[h][x] # None /\ holds[h][x] \in Hold
      BY <1>t, <2>3 DEF Release, TransferTypeOK
    <3>2. holds[h][x].left \in Nat
      BY <3>1 DEF Hold
    <3> DEFINE new == Changed(holds[h][x], holds[h][x].left, TRUE)
    <3>3. new \in Hold /\ new.file = holds[h][x].file /\ new.mode = holds[h][x].mode
          /\ new.left = holds[h][x].left
      BY <3>1, <3>2, ChangedType
    <3>4. new.file \subseteq cas
      BY <3>1, <3>3 DEF TicketInv, Stored
    <3>5. /\ holds' = [holds EXCEPT ![h][x] = new]
          /\ UNCHANGED <<gen, lease, tickets, cas, entries>>
      BY <2>3 DEF Release
    <3> HIDE DEF new
    <3>6. new.left >= holds[h][x].left
      BY <3>2, <3>3
    <3> QED BY <2>h, <3>3, <3>4, <3>5, <3>6
  <2>4. ASSUME NEW p \in Paths, NEW bs \in Batches, NEW ttl \in TicketTTLs,
               ReadBatch(h, p, bs, ttl)
        PROVE  TicketInv'
    <3>1. /\ Least(ttl, lease[h] - Margin) \in Nat \ {0}
          /\ Least(ttl, lease[h] - Margin) + Margin <= lease[h]
      BY <2>4, <2>l, CapIsTime DEF ReadBatch
    <3>2. /\ UNCHANGED <<gen, lease, holds, cas, entries>>
          /\ Mint("GET", bs, Least(ttl, lease[h] - Margin), h, None)
          /\ bs \subseteq cas
      BY <2>4 DEF ReadBatch, TicketInv, Stored
    <3>3. \A t \in tickets' : Sound(t)' /\ Covered(t)'
      BY <3>1, <3>2, MintedCovered
    <3> QED BY <1>t, <3>2, <3>3 DEF TicketInv, Stored
  <2>5. ASSUME NEW x \in HoldIds, NEW bs \in Batches, NEW ttl \in TicketTTLs,
               ReadHeld(h, x, bs, ttl)
        PROVE  TicketInv'
    <3> DEFINE short == Least(ttl, lease[h] - Margin)
    <3>1. short \in Nat \ {0} /\ short + Margin <= lease[h]
      BY <2>5, <2>l, CapIsTime DEF ReadHeld
    <3>2. /\ UNCHANGED <<gen, lease, holds, cas, entries>>
          /\ holds[h][x] # None /\ bs \subseteq cas
      BY <2>5 DEF ReadHeld, Holding, TicketInv, Stored
    <3>3. holds[h][x].left \in Nat
      BY <1>t, <3>2 DEF TransferTypeOK, Hold
    <3>4. CASE holds[h][x].mode = "read"
      <4> DEFINE left == Least(short, holds[h][x].left - Margin)
      <4>1. Backs(holds[h][x].left) /\ Mint("GET", bs, left, h, x)
        BY <2>5, <3>4 DEF ReadHeld
      <4> HIDE DEF short
      <4>2. left \in Nat \ {0} /\ left + Margin <= holds[h][x].left
        BY <3>1, <3>3, <4>1, CapIsTime
      <4>3. left + Margin <= lease[h]
        BY <1>m, <2>l, <3>1, <3>3, <4>2 DEF Least
      <4> HIDE DEF left
      <4>4. \A t \in tickets' : Sound(t)' /\ Covered(t)'
        BY <3>2, <4>1, <4>2, <4>3, MintedCovered
      <4> QED BY <1>t, <3>2, <4>4 DEF TicketInv, Stored
    <3>5. CASE holds[h][x].mode # "read"
      <4>1. Mint("GET", bs, short, h, x)
        BY <2>5, <3>5 DEF ReadHeld
      <4> HIDE DEF short
      <4>2. \A t \in tickets' : Sound(t)' /\ Covered(t)'
        BY <3>1, <3>2, <3>5, <4>1, MintedCovered
      <4> QED BY <1>t, <3>2, <4>2 DEF TicketInv, Stored
    <3> QED BY <3>4, <3>5
  <2> QED BY <1>5, <2>1, <2>2, <2>3, <2>4, <2>5 DEF Reads
<1>6. CASE UNCHANGED vars
  BY <1>6, <1>t DEF vars, TicketInv, Stored, Sound, Covered, Current
<1> QED BY <1>1, <1>2, <1>3, <1>4, <1>5, <1>6 DEF Next

(* However leases and holds are renewed, lapse or end, a ticket ends       *)
(* before what it was granted under, and a ticket to read finds its block. *)
THEOREM TicketsCovered == FairSpec => []TicketsAreCovered
<1>1. TicketInv => TicketsAreCovered
  BY DEF TicketInv, Covered, TicketsAreCovered
<1> QED BY <1>1, InitCovered, StepCovered, PTL DEF FairSpec, Spec

-----------------------------------------------------------------------------
(* The fence. *)

(* The operations as the fence sees them. *)
Proofs == [m \in Mutations |->
  IF Live(operations[m])
  THEN [by |-> operations[m].by, blocks |-> operations[m].verified] ELSE None]

(* What a request of an upload does is a step of the fence. *)
LEMMA TargetProves ==
  ASSUME TransferTypeOK, NEW h \in Hosts, NEW m \in Mutations, NEW bs \in SUBSET Blocks,
         NEW found \in SUBSET Blocks, Target(h, m, bs, {Current(h)} \X found)
  PROVE  Fence!Prove(m, Current(h), found)
<1> DEFINE verified == {Current(h)} \X found
           new == Targeted(h, m, bs, verified)
<1>1. operations' = [Pruned EXCEPT ![m] = new]
  BY DEF Target
<1>2. new \in Operation
  BY CurrentIsAuthority, TargetedType
<1>3. new # None
  BY <1>2, TransferAssumption
<1>4. CASE Live(operations[m])
  <2>1. new = [by |-> operations[m].by, left |-> operations[m].left,
               targets |-> operations[m].targets \cup bs,
               verified |-> operations[m].verified \cup verified]
    BY <1>4 DEF Targeted
  <2>2. operations[m].by = Current(h)
    BY <1>4 DEF Target, MayTarget
  <2> HIDE DEF new
  <2>3. /\ new.by = Current(h) /\ Live(new)
        /\ new.verified = verified \cup operations[m].verified
    BY <1>3, <1>4, <2>1, <2>2 DEF Live
  <2> HIDE DEF verified
  <2>4. ASSUME NEW n \in Mutations
        PROVE  Proofs'[n] = IF n = m
                            THEN [by |-> Current(h),
                                  blocks |-> verified \cup Proofs[m].blocks]
                            ELSE Proofs[n]
    <3>1. CASE n = m
      <4>1. operations'[m] = new
        BY <1>1 DEF Pruned
      <4> QED BY <1>4, <2>3, <3>1, <4>1 DEF Proofs
    <3>2. CASE n # m
      BY <1>1, <3>2 DEF Proofs, Pruned, Live
    <3> QED BY <3>1, <3>2
  <2>5. Proofs[m] # None /\ Proofs[m].by = Current(h)
    <3>1. operations[m] \in Operation
      BY <1>4 DEF TransferTypeOK, Live
    <3>2. Proofs[m] \in [by : Authorities, blocks : SUBSET (Authorities \X Blocks)]
      BY <1>4, <3>1 DEF Proofs, Operation
    <3> QED BY <1>4, <2>2, <3>2, TransferAssumption DEF Proofs
  <2> QED BY <2>4, <2>5 DEF Fence!Prove, Proofs, verified
<1>5. CASE ~ Live(operations[m])
  <2>1. new = [by |-> Current(h), left |-> OperationTTL, targets |-> bs, verified |-> verified]
    BY <1>5 DEF Targeted
  <2> HIDE DEF new
  <2>2. new.by = Current(h) /\ new.verified = verified
    BY <2>1
  <2>3. Live(new)
    BY <1>3, <2>1, TransferAssumption DEF Live
  <2> HIDE DEF verified
  <2>4. ASSUME NEW n \in Mutations
        PROVE  Proofs'[n] = IF n = m THEN [by |-> Current(h), blocks |-> verified]
                            ELSE Proofs[n]
    <3>1. CASE n = m
      <4>1. operations'[m] = new
        BY <1>1 DEF Pruned
      <4> QED BY <2>2, <2>3, <3>1, <4>1 DEF Proofs
    <3>2. CASE n # m
      BY <1>1, <3>2 DEF Proofs, Pruned, Live
    <3> QED BY <3>1, <3>2
  <2>5. Proofs[m] = None
    BY <1>5 DEF Proofs
  <2> QED BY <2>4, <2>5 DEF Fence!Prove, Proofs, verified
<1> QED BY <1>4, <1>5

(* Operations that go are dropped. *)
LEMMA GoneIsDropped ==
  ASSUME TransferTypeOK,
         \A m \in Mutations : \/ operations'[m] = operations[m]
                              \/ operations'[m] = None
                              \/ /\ operations[m] # None
                                 /\ operations'[m] = AgedOperation(operations[m])
  PROVE  \E ms \in SUBSET Mutations : Fence!Drop(ms)
<1> DEFINE ms == {m \in Mutations : ~ Live(operations'[m])}
<1>1. ASSUME NEW m \in Mutations
      PROVE  Proofs'[m] = IF m \in ms THEN None ELSE Proofs[m]
  <2>1. CASE operations'[m] \in {operations[m], None}
    <3>1. CASE Live(operations'[m])
      <4>1. operations'[m] = operations[m]
        BY <2>1, <3>1 DEF Live
      <4> QED BY <3>1, <4>1 DEF Proofs
    <3>2. CASE ~ Live(operations'[m])
      BY <3>2 DEF Proofs
    <3> QED BY <3>1, <3>2
  <2>2. CASE operations[m] # None /\ operations'[m] = AgedOperation(operations[m])
    <3>1. operations[m] \in Operation
      BY <2>2 DEF TransferTypeOK
    <3>2. /\ operations'[m] \in Operation
          /\ operations'[m].by = operations[m].by
          /\ operations'[m].left = Less(operations[m].left)
          /\ operations'[m].verified = operations[m].verified
          /\ operations[m].left \in Nat
      BY <2>2, <3>1, AgedOperationType DEF Operation
    <3>3. Live(operations'[m]) => Live(operations[m])
      BY <2>2, <3>2, LessIsLess DEF Live
    <3>4. CASE Live(operations'[m])
      <4>1. /\ Proofs'[m] = [by |-> operations'[m].by, blocks |-> operations'[m].verified]
            /\ Proofs[m] = [by |-> operations[m].by, blocks |-> operations[m].verified]
        BY <3>3, <3>4 DEF Proofs
      <4> QED BY <3>2, <3>4, <4>1
    <3>5. CASE ~ Live(operations'[m])
      BY <3>5 DEF Proofs
    <3> QED BY <3>4, <3>5
  <2> QED BY <1>1, <2>1, <2>2
<1>2. Fence!Drop(ms)
  BY <1>1 DEF Fence!Drop, Proofs
<1>3. ms \in SUBSET Mutations
  OBVIOUS
<1> HIDE DEF ms
<1> QED BY <1>2, <1>3 DEF Fence!Drop

(* There are no operations at the beginning. *)
LEMMA InitFence == Init => Fence!Init
BY DEF Init, Fence!Init, Live

(* Every step is one of the fence, or a stutter. *)
LEMMA StepFence ==
  ASSUME TransferTypeOK, [Next]_vars
  PROVE  Fence!Next \/ Proofs' = Proofs
<1> USE DEF hosts
<1>p. ASSUME NEW h \in Hosts, NEW m \in Mutations, NEW bs \in SUBSET Blocks,
             NEW found \in SUBSET Blocks, Target(h, m, bs, {Current(h)} \X found)
      PROVE  Fence!Next
  BY <1>p, CurrentIsAuthority, TargetProves DEF Fence!Next
<1>d. ASSUME \A m \in Mutations : \/ operations'[m] = operations[m]
                                  \/ operations'[m] = None
                                  \/ /\ operations[m] # None
                                     /\ operations'[m] = AgedOperation(operations[m])
      PROVE  Fence!Next
  BY <1>d, GoneIsDropped DEF Fence!Next
<1>1. CASE Tick
  BY <1>1, <1>d DEF Tick
<1>2. ASSUME NEW h \in Hosts, Renew(h) \/ EndGeneration(h) \/ Reads(h) PROVE Proofs' = Proofs
  BY <1>2 DEF Renew, EndGeneration, Reads, Acquire, RenewHold, Release, ReadBatch, ReadHeld,
              Proofs, Live
<1>3. ASSUME NEW h \in Hosts, Uploads(h) PROVE Fence!Next
  <2>1. ASSUME NEW m \in Mutations, NEW bs \in Batches, NEW ttl \in TicketTTLs,
               WriteBatch(h, m, bs, ttl)
        PROVE  Fence!Next
    <3>1. bs \in SUBSET Blocks /\ {} \in SUBSET Blocks /\ {} = {Current(h)} \X {}
      BY TransferAssumption
    <3>2. Target(h, m, bs, {Current(h)} \X {})
      BY <2>1, <3>1 DEF WriteBatch
    <3> QED BY <1>p, <3>1, <3>2
  <2>2. ASSUME NEW m \in Mutations, NEW bs \in Batches, VerifyBatch(h, m, bs)
        PROVE  Fence!Next
    <3>1. bs \in SUBSET Blocks /\ Found(bs) \in SUBSET Blocks
      BY TransferAssumption DEF Found
    <3> QED BY <1>p, <2>2, <3>1 DEF VerifyBatch
  <2>3. ASSUME NEW m \in Mutations, NEW bs \in Batches,
               TargetRefused(h, m, bs)
        PROVE  Fence!Next
    BY <1>d, <2>3 DEF TargetRefused, Pruned
  <2>4. ASSUME NEW m \in Mutations, Mutate(h, m)
        PROVE  Fence!Next
    BY <1>d, <2>4 DEF Mutate, TransferTypeOK
  <2>5. ASSUME NEW p \in Paths, NEW f \in Files \cup {None}, NEW m \in Mutations \cup {None},
               Commit(h, p, f, m)
        PROVE  Fence!Next
    BY <1>d, <2>5 DEF Commit
  <2> QED BY <1>3, <2>1, <2>2, <2>3, <2>4, <2>5 DEF Uploads
<1>4. ASSUME NEW t \in tickets, DirectPut(t) PROVE Proofs' = Proofs
  BY <1>4 DEF DirectPut, Proofs, Live
<1>5. CASE UNCHANGED vars
  BY <1>5 DEF vars, Proofs, Live
<1> QED BY <1>1, <1>2, <1>3, <1>4, <1>5 DEF Next

(* Uploads, verifications, commits, refusals and the clock keep the fence: *)
(* a mutation is one authority's until its operation has expired or been   *)
(* used up, and only that authority's blocks count for it.                 *)
THEOREM TransferKeepsFence == FairSpec => ImplementsFence
<1>1. TransferTypeOK /\ [Next]_vars => [Fence!Next]_Proofs
  BY StepFence
<1> QED BY <1>1, InitFence, InitTyped, StepTyped, PTL DEF FairSpec, Spec, ImplementsFence, Fence!Spec, Proofs
=============================================================================
