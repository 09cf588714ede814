------------------------- MODULE HostAuthority_proofs -------------------------
(* Theorems about the hosts and their attachments, for every number of     *)
(* hosts, workspaces, server threads and requests.                         *)
EXTENDS HostAuthority, FiniteSetTheorems, TLAPS

(* A host that has not proven itself has no generation yet. *)
PendingHasNoGeneration == \A h \in Hosts : status[h] = "pending_proof" => gen[h] = 0

(* The uses of a pair are what consumed says of it. *)
UsesAreConsumed ==
  \A h \in Hosts : \A x \in Pairs : uses[h][x] = IF x \in consumed[h] THEN 1 ELSE 0

(* A signed request past the unlocked check is of a host that has proven   *)
(* itself, and no generation is ever taken back.                           *)
VerifiedHaveGeneration ==
  \A t \in Threads :
    threads[t] # None /\ threads[t].step # "arrived" /\ threads[t].req.op # "prove"
      => gen[threads[t].req.host] >= 1

HostInv ==
  /\ HostTypeOK
  /\ PendingHasNoGeneration
  /\ VerifiedHaveGeneration
  /\ UsesAreConsumed
  /\ UniqueActiveAttachment
  /\ OwnerGrantKept

(* What a thread works on. *)
LEMMA FrameType ==
  ASSUME HostTypeOK, NEW t \in Threads, threads[t] # None
  PROVE  /\ threads[t] \in Frame
         /\ threads[t].req \in Requests
         /\ threads[t].req \in Request
         /\ threads[t].req.host \in Hosts
         /\ threads[t].req.sessions \subseteq Sessions
  BY AuthorityAssumption DEF HostTypeOK, Frame, Request

(* Handlers change frames only in the one way. *)
LEMMA ThreadEnds ==
  ASSUME HostTypeOK, NEW t \in Threads, NEW ops, Handles(t, ops)
  PROVE  /\ threads' \in [Threads -> Frame \cup {None}]
         /\ UNCHANGED <<consumed, uses>>
         /\ \A u \in Threads : threads'[u] \in {threads[u], None}
  BY DEF HostTypeOK, Handles

(* The image of a finite set. *)
LEMMA ImageFinite ==
  ASSUME NEW S, IsFiniteSet(S), NEW f, f = [x \in S |-> f[x]]
  PROVE  IsFiniteSet({f[x] : x \in S})
  <1>1. f \in Surjection(S, {f[x] : x \in S})
    BY DEF Surjection
  <1>2. QED
    BY <1>1, FS_Surjection

(* A step that takes no generation back and verifies no frame but with one. *)
LEMMA VerifiedStays ==
  ASSUME HostInv, gen' \in [Hosts -> Nat], \A h \in Hosts : gen'[h] >= gen[h],
         \A t \in Threads : threads'[t] \in {threads[t], None}
  PROVE  VerifiedHaveGeneration'
  <1> SUFFICES ASSUME NEW t \in Threads, threads'[t] # None,
                      threads'[t].step # "arrived", threads'[t].req.op # "prove"
               PROVE  gen'[threads'[t].req.host] >= 1
    BY DEF VerifiedHaveGeneration
  <1>1. threads'[t] = threads[t] /\ threads[t].req.host \in Hosts
    BY FrameType DEF HostInv
  <1>2. gen[threads[t].req.host] >= 1 /\ gen[threads[t].req.host] \in Nat
    BY <1>1 DEF HostInv, VerifiedHaveGeneration, HostTypeOK
  <1>3. QED
    BY <1>1, <1>2

LEMMA InitHolds == Init => HostInv
  <1> SUFFICES ASSUME Init PROVE HostInv
    OBVIOUS
  <1>1. HostTypeOK
    BY AuthorityAssumption, FS_EmptySet DEF Init, HostTypeOK, Statuses, Modes
  <1>2. QED
    BY <1>1 DEF Init, HostInv, PendingHasNoGeneration, VerifiedHaveGeneration, UsesAreConsumed,
                UniqueActiveAttachment, OwnerGrantKept

(* Ending a generation keeps everything: no attachment of it stays active. *)
LEMMA TransitionHolds ==
  ASSUME HostInv, NEW h \in Hosts, NEW to \in {"disconnected", "revoked"}, Transition(h, to),
         threads' \in [Threads -> Frame \cup {None}], UNCHANGED <<consumed, uses>>,
         \A t \in Threads : threads'[t] \in {threads[t], None}
  PROVE  HostInv'
  <1>1. attachments' \subseteq Attachment
    BY DEF Transition, Ended, HostInv, HostTypeOK, Attachment
  <1>2. IsFiniteSet(attachments')
    <2> DEFINE end(a) == IF Active(a, h)
                         THEN [serial |-> a.serial, host |-> h, gen |-> a.gen,
                               session |-> a.session, status |-> to, mode |-> a.mode]
                         ELSE a
               f == [a \in attachments |-> end(a)]
    <2>1. attachments' = {f[a] : a \in attachments}
      BY DEF Transition, Ended
    <2>2. f = [a \in attachments |-> f[a]]
      OBVIOUS
    <2>3. IsFiniteSet(attachments)
      BY DEF HostInv, HostTypeOK
    <2> HIDE DEF f
    <2>4. QED
      BY <2>1, <2>2, <2>3, ImageFinite
  <1>3. /\ status' \in [Hosts -> Statuses]
        /\ gen' \in [Hosts -> 0..MaxGen]
        /\ accessMode' \in Modes
    BY AuthorityAssumption DEF Transition, HostInv, HostTypeOK, Statuses
  <1>4. HostTypeOK'
    BY <1>1, <1>2, <1>3 DEF HostInv, HostTypeOK
  <1>5. PendingHasNoGeneration'
    BY DEF Transition, HostInv, HostTypeOK, PendingHasNoGeneration
  <1>6. UsesAreConsumed'
    BY DEF HostInv, UsesAreConsumed
  <1>7. ASSUME NEW a \in attachments', a.status = "active"
        PROVE  a \in attachments /\ a.host # h
    <2>1. PICK b \in attachments :
            a = IF Active(b, h)
                THEN [serial |-> b.serial, host |-> h, gen |-> b.gen, session |-> b.session,
                      status |-> to, mode |-> b.mode]
                ELSE b
      BY DEF Transition, Ended
    <2>2. ~ Active(b, h) /\ a = b
      BY <1>7, <2>1
    <2>3. b.host = h => b.gen = gen[h]
      BY <1>7, <2>2 DEF HostInv, UniqueActiveAttachment
    <2>4. QED
      BY <1>7, <2>2, <2>3 DEF Active
  <1>8. UniqueActiveAttachment'
    BY <1>7 DEF Transition, HostInv, HostTypeOK, UniqueActiveAttachment, Attachment
  <1>9. OwnerGrantKept'
    BY DEF Transition, Ended, Active, HostInv, OwnerGrantKept
  <1>10. VerifiedHaveGeneration'
    BY VerifiedStays DEF Transition, HostInv, HostTypeOK
  <1>11. QED
    BY <1>4, <1>5, <1>6, <1>8, <1>9, <1>10 DEF HostInv

(* An attachment is made only for a workspace that has no active one. *)
LEMMA AttachHolds ==
  ASSUME HostInv, NEW t \in Threads, Attach(t)
  PROVE  HostInv'
  <1> DEFINE r == threads[t].req
             h == r.host
             made(s) == [serial |-> Cardinality(attachments), host |-> h, gen |-> gen[h],
                         session |-> s, status |-> "active", mode |-> Granted(r, s)]
  <1>1. r \in Request /\ h \in Hosts /\ r.sessions \subseteq Sessions
    BY FrameType DEF Attach, Handles, HostInv
  <1>0. gen[h] >= 1
    BY DEF Attach, Handles, HostInv, VerifiedHaveGeneration
  <1>2. /\ attachments' = attachments \cup {made(s) : s \in Missing(r)}
        /\ status' = [status EXCEPT ![h] = "connected"]
        /\ UNCHANGED <<gen, accessMode>>
    BY DEF Attach
  <1>3. /\ threads' \in [Threads -> Frame \cup {None}]
        /\ UNCHANGED <<consumed, uses>>
        /\ \A u \in Threads : threads'[u] \in {threads[u], None}
    BY ThreadEnds DEF Attach, HostInv
  <1>4. IsFiniteSet(attachments) /\ Cardinality(attachments) \in Nat
    BY FS_CardinalityType DEF HostInv, HostTypeOK
  <1>5. Missing(r) \subseteq Sessions
    BY <1>1 DEF Missing
  <1>6. ASSUME NEW s \in Missing(r)
        PROVE  made(s) \in Attachment
    <2>1. gen[h] \in 1..MaxGen /\ Granted(r, s) \in Modes
      BY <1>0, <1>1, <1>6, AuthorityAssumption DEF HostInv, HostTypeOK, Granted, Modes
    <2>2. QED
      BY <1>1, <1>4, <1>5, <1>6, <2>1 DEF Attachment
  <1>7. IsFiniteSet(attachments')
    <2>1. IsFiniteSet(r.sessions)
      BY AuthorityAssumption, FrameType DEF Attach, Handles, HostInv
    <2>2. IsFiniteSet(Missing(r))
      BY <2>1, FS_Subset DEF Missing
    <2>3. IsFiniteSet({made(s) : s \in Missing(r)})
      <3> DEFINE f == [s \in Missing(r) |-> made(s)]
      <3>1. f = [s \in Missing(r) |-> f[s]]
        OBVIOUS
      <3>2. {made(s) : s \in Missing(r)} = {f[s] : s \in Missing(r)}
        OBVIOUS
      <3> HIDE DEF f
      <3>3. QED
        BY <2>2, <3>1, <3>2, ImageFinite
    <2>4. QED
      BY <1>2, <1>4, <2>3, FS_Union
  <1>8. HostTypeOK'
    BY <1>1, <1>2, <1>3, <1>6, <1>7 DEF HostInv, HostTypeOK, Statuses
  <1>9. PendingHasNoGeneration' /\ UsesAreConsumed'
    BY <1>1, <1>2, <1>3 DEF HostInv, HostTypeOK, PendingHasNoGeneration, UsesAreConsumed
  <1>10. UniqueActiveAttachment'
    <2> SUFFICES ASSUME NEW a \in attachments', NEW b \in attachments',
                        a.status = "active", b.status = "active",
                        a.host = b.host, a.session = b.session
                 PROVE  a = b /\ a.gen = gen[a.host]
      BY <1>2 DEF UniqueActiveAttachment
    <2>1. ASSUME NEW s \in Missing(r), NEW c \in attachments, c.status = "active"
          PROVE  ~ (c.host = h /\ c.session = s)
      BY <2>1 DEF Missing, Active, HostInv, UniqueActiveAttachment
    <2>2. \A s \in Missing(r) : made(s).host = h /\ made(s).session = s /\ made(s).gen = gen[h]
      OBVIOUS
    <2>3. a \in attachments \/ \E s \in Missing(r) : a = made(s)
      BY <1>2
    <2>4. b \in attachments \/ \E s \in Missing(r) : b = made(s)
      BY <1>2
    <2> HIDE DEF made, h
    <2>5. QED
      BY <2>1, <2>2, <2>3, <2>4 DEF HostInv, UniqueActiveAttachment
  <1>11. OwnerGrantKept'
    <2>1. \A s \in Missing(r) : made(s).mode = Granted(r, s) /\ made(s).host = h
                                /\ made(s).session = s
      OBVIOUS
    <2>2. \A a \in attachments' : a \in attachments \/ \E s \in Missing(r) : a = made(s)
      BY <1>2
    <2> HIDE DEF made
    <2>3. QED
      BY <1>2, <2>1, <2>2 DEF HostInv, OwnerGrantKept, Granted
  <1>12. VerifiedHaveGeneration'
    BY <1>2, <1>3, VerifiedStays DEF HostInv, HostTypeOK
  <1>13. QED
    BY <1>8, <1>9, <1>10, <1>11, <1>12 DEF HostInv

(* A first proof makes the first generation, when there is nothing yet     *)
(* that an attachment could hang on.                                       *)
LEMMA ProveHolds ==
  ASSUME HostInv, NEW t \in Threads, Prove(t)
  PROVE  HostInv'
  <1> DEFINE h == threads[t].req.host
  <1>1. h \in Hosts
    BY FrameType DEF Prove, Handles, HostInv
  <1>2. /\ status[h] = "pending_proof"
        /\ gen' = [gen EXCEPT ![h] = @ + 1]
        /\ status' = [status EXCEPT ![h] = "connected"]
        /\ UNCHANGED <<attachments, accessMode>>
    BY DEF Prove
  <1>3. /\ threads' \in [Threads -> Frame \cup {None}]
        /\ UNCHANGED <<consumed, uses>>
        /\ \A u \in Threads : threads'[u] \in {threads[u], None}
    BY ThreadEnds DEF Prove, HostInv
  <1>4. gen[h] = 0
    BY <1>1, <1>2 DEF HostInv, PendingHasNoGeneration
  <1>5. HostTypeOK'
    BY <1>1, <1>2, <1>3, <1>4, AuthorityAssumption DEF HostInv, HostTypeOK, Statuses
  <1>6. PendingHasNoGeneration' /\ UsesAreConsumed' /\ OwnerGrantKept'
    BY <1>1, <1>2, <1>3 DEF HostInv, HostTypeOK, PendingHasNoGeneration, UsesAreConsumed,
                            OwnerGrantKept
  <1>7. UniqueActiveAttachment'
    <2>1. ASSUME NEW a \in attachments, a.status = "active"
          PROVE  a.host # h
      BY <1>4, <2>1 DEF HostInv, HostTypeOK, Attachment, UniqueActiveAttachment
    <2>2. \A a \in attachments : a.host \in Hosts
      BY DEF HostInv, HostTypeOK, Attachment
    <2>3. \A g \in Hosts : g # h => gen'[g] = gen[g]
      BY <1>2 DEF HostInv, HostTypeOK
    <2>4. QED
      BY <1>2, <2>1, <2>2, <2>3 DEF HostInv, UniqueActiveAttachment
  <1>8. VerifiedHaveGeneration'
    BY <1>1, <1>2, <1>3, VerifiedStays DEF HostInv, HostTypeOK
  <1>9. QED
    BY <1>5, <1>6, <1>7, <1>8 DEF HostInv

(* The steps of a frame before its handler change nothing but the frame    *)
(* and, when the sequence number is consumed, its pair.                    *)
LEMMA FrameStepHolds ==
  ASSUME HostInv, NEW t \in Threads, NEW r \in Requests, UNCHANGED <<authority, consumed, uses>>,
         \/ Arrive(t, r)
         \/ Leave(t)
         \/ Verify(t)
  PROVE  HostInv'
  <1>1. \A u \in Threads : u # t => threads'[u] = threads[u]
    BY DEF HostInv, HostTypeOK, Arrive, Leave, Verify
  <1>2. \/ threads'[t] = None
        \/ threads'[t] = [req |-> r, step |-> "arrived"]
        \/ /\ threads[t] # None /\ threads[t].step = "arrived"
           /\ Current(threads[t].req)
           /\ threads'[t] = [req |-> threads[t].req,
                             step |-> IF threads[t].req.op = "prove" THEN "admitted" ELSE "verified"]
    BY DEF HostInv, HostTypeOK, Arrive, Leave, Verify
  <1>3. threads' \in [Threads -> Frame \cup {None}]
    <2>1. threads'[t] \in Frame \cup {None}
      BY <1>2, FrameType DEF HostInv, Frame
    <2>2. DOMAIN threads' = Threads /\ threads' = [u \in Threads |-> threads'[u]]
      BY DEF HostInv, HostTypeOK, Arrive, Leave, Verify
    <2>3. QED
      BY <1>1, <2>1, <2>2 DEF HostInv, HostTypeOK
  <1>4. HostTypeOK'
    BY <1>3 DEF HostInv, HostTypeOK, authority
  <1>5. VerifiedHaveGeneration'
    BY <1>1, <1>2 DEF HostInv, VerifiedHaveGeneration, Current, authority
  <1>6. QED
    BY <1>4, <1>5 DEF HostInv, PendingHasNoGeneration, UsesAreConsumed,
                      UniqueActiveAttachment, OwnerGrantKept, authority

LEMMA ConsumeHolds ==
  ASSUME HostInv, NEW t \in Threads, Consume(t)
  PROVE  HostInv'
  <1> DEFINE r == threads[t].req
             h == r.host
             pair == <<gen[h], r.seq>>
  <1>1. /\ threads[t] # None /\ threads[t].step = "verified"
        /\ pair \notin consumed[h]
        /\ consumed' = [consumed EXCEPT ![h] = @ \cup {pair}]
        /\ uses' = [uses EXCEPT ![h] = [x \in Pairs |-> IF x = pair THEN @[x] + 1 ELSE @[x]]]
        /\ threads' = [threads EXCEPT ![t] = [req |-> r, step |-> "admitted"]]
        /\ UNCHANGED <<status, gen, attachments, accessMode>>
    BY DEF Consume, authority
  <1>2. r \in Requests /\ h \in Hosts
    BY <1>1, FrameType DEF HostInv
  <1>3. pair \in Pairs
    BY <1>2 DEF HostInv, HostTypeOK, Pairs
  <1>4. threads' \in [Threads -> Frame \cup {None}]
    BY <1>1, <1>2 DEF HostInv, HostTypeOK, Frame
  <1>5. consumed' \in [Hosts -> SUBSET Pairs] /\ uses' \in [Hosts -> [Pairs -> Nat]]
    <2> HIDE DEF pair
    <2>1. uses[h] \in [Pairs -> Nat]
      BY <1>2 DEF HostInv, HostTypeOK
    <2>2. [x \in Pairs |-> IF x = pair THEN uses[h][x] + 1 ELSE uses[h][x]] \in [Pairs -> Nat]
      BY <2>1
    <2>3. consumed' \in [Hosts -> SUBSET Pairs]
      BY <1>1, <1>2, <1>3 DEF HostInv, HostTypeOK
    <2>4. QED
      BY <1>1, <1>2, <2>2, <2>3 DEF HostInv, HostTypeOK
  <1>6. HostTypeOK'
    BY <1>1, <1>4, <1>5 DEF HostInv, HostTypeOK
  <1>7. UsesAreConsumed'
    <2> SUFFICES ASSUME NEW g \in Hosts, NEW x \in Pairs
                 PROVE  uses'[g][x] = IF x \in consumed'[g] THEN 1 ELSE 0
      BY DEF UsesAreConsumed
    <2> HIDE DEF pair
    <2>1. uses[g][x] = IF x \in consumed[g] THEN 1 ELSE 0
      BY DEF HostInv, UsesAreConsumed
    <2>2. CASE g # h
      BY <1>1, <2>1, <2>2 DEF HostInv, HostTypeOK
    <2>3. CASE g = h
      <3>1. consumed'[g] = consumed[g] \cup {pair}
        BY <1>1, <2>3 DEF HostInv, HostTypeOK
      <3>2. uses'[g][x] = IF x = pair THEN uses[g][x] + 1 ELSE uses[g][x]
        BY <1>1, <2>3 DEF HostInv, HostTypeOK
      <3>3. QED
        BY <1>1, <2>1, <2>3, <3>1, <3>2
    <2>4. QED
      BY <2>2, <2>3
  <1>8. VerifiedHaveGeneration'
    <2>1. r.op # "prove" => gen[h] >= 1
      BY <1>1 DEF HostInv, VerifiedHaveGeneration
    <2>2. QED
      BY <1>1, <2>1 DEF HostInv, HostTypeOK, VerifiedHaveGeneration
  <1>9. QED
    BY <1>1, <1>6, <1>7, <1>8 DEF HostInv, PendingHasNoGeneration, UniqueActiveAttachment,
                                  OwnerGrantKept

(* The owner's choice reaches every attachment of a host's own workspace,  *)
(* and makes none active that was not.                                     *)
LEMMA SelectHolds ==
  ASSUME HostInv, NEW mode \in Modes, SelectAccessMode(mode)
  PROVE  HostInv'
  <1> DEFINE set(a) == IF a.session = Home[a.host]
                       THEN [serial |-> a.serial, host |-> a.host, gen |-> a.gen,
                             session |-> a.session, status |-> a.status, mode |-> mode]
                       ELSE a
             f == [a \in attachments |-> set(a)]
  <1>1. /\ attachments' = {f[a] : a \in attachments}
        /\ accessMode' = mode
        /\ UNCHANGED <<status, gen, consumed, uses, threads>>
    BY DEF SelectAccessMode
  <1>2. IsFiniteSet(attachments')
    <2>1. f = [a \in attachments |-> f[a]] /\ IsFiniteSet(attachments)
      BY DEF HostInv, HostTypeOK
    <2> HIDE DEF f
    <2>2. QED
      BY <1>1, <2>1, ImageFinite
  <1>3. attachments' \subseteq Attachment
    BY <1>1 DEF HostInv, HostTypeOK, Attachment
  <1>4. HostTypeOK'
    BY <1>1, <1>2, <1>3 DEF HostInv, HostTypeOK
  <1>5. \A a \in attachments : /\ f[a].host = a.host /\ f[a].gen = a.gen
                               /\ f[a].session = a.session /\ f[a].status = a.status
    OBVIOUS
  <1>6. UniqueActiveAttachment'
    <2> HIDE DEF f
    <2> SUFFICES ASSUME NEW a \in attachments, NEW b \in attachments,
                        f[a].status = "active", f[b].status = "active",
                        f[a].host = f[b].host, f[a].session = f[b].session
                 PROVE  f[a] = f[b] /\ f[a].gen = gen[f[a].host]
      BY <1>1 DEF UniqueActiveAttachment
    <2>1. QED
      BY <1>5 DEF HostInv, UniqueActiveAttachment
  <1>7. OwnerGrantKept'
    BY <1>1 DEF HostInv, OwnerGrantKept
  <1>8. QED
    BY <1>1, <1>4, <1>6, <1>7 DEF HostInv, PendingHasNoGeneration, UsesAreConsumed,
                                  VerifiedHaveGeneration

LEMMA HostInvHolds == Spec => []HostInv
  <1>1. Init => HostInv
    BY InitHolds
  <1>2. ASSUME HostInv, [Next]_vars
        PROVE  HostInv'
    <2>1. CASE \E t \in Threads : \/ \E r \in Requests : Arrive(t, r)
                                  \/ Leave(t)
                                  \/ Verify(t)
      <3>1. PICK t \in Threads : \/ \E r \in Requests : Arrive(t, r)
                                 \/ Leave(t)
                                 \/ Verify(t)
        BY <2>1
      <3>2. UNCHANGED <<authority, consumed, uses>>
        BY <3>1 DEF Arrive, Leave, Verify
      <3>3. threads[t] # None => threads[t].req \in Requests
        BY <1>2, FrameType DEF HostInv
      <3>4. PICK r \in Requests : Arrive(t, r) \/ Leave(t) \/ Verify(t)
        BY <3>1, <3>3 DEF Leave, Verify
      <3>5. QED
        BY <1>2, <3>2, <3>4, FrameStepHolds
    <2>2. CASE \E t \in Threads : Consume(t)
      BY <1>2, <2>2, ConsumeHolds
    <2>3. CASE \E t \in Threads : Prove(t)
      BY <1>2, <2>3, ProveHolds
    <2>4. CASE \E t \in Threads : Attach(t)
      BY <1>2, <2>4, AttachHolds
    <2>5. ASSUME NEW t \in Threads, Disconnect(t)
          PROVE  HostInv'
      <3>1. /\ threads[t].req.host \in Hosts
            /\ threads' \in [Threads -> Frame \cup {None}]
            /\ UNCHANGED <<consumed, uses>>
            /\ \A u \in Threads : threads'[u] \in {threads[u], None}
        BY <1>2, <2>5, FrameType, ThreadEnds DEF Disconnect, Handles, HostInv
      <3>2. QED
        BY <1>2, <2>5, <3>1, TransitionHolds DEF Disconnect
    <2>6. ASSUME NEW t \in Threads, Forget(t)
          PROVE  HostInv'
      <3>1. /\ threads[t].req.host \in Hosts
            /\ threads' \in [Threads -> Frame \cup {None}]
            /\ UNCHANGED <<consumed, uses>>
            /\ \A u \in Threads : threads'[u] \in {threads[u], None}
        BY <1>2, <2>6, FrameType, ThreadEnds DEF Forget, Handles, HostInv
      <3>2. QED
        BY <1>2, <2>6, <3>1, TransitionHolds DEF Forget
    <2>7. ASSUME NEW h \in Hosts, Revoke(h)
          PROVE  HostInv'
      <3>1. threads' \in [Threads -> Frame \cup {None}]
        BY <1>2, <2>7 DEF Revoke, HostInv, HostTypeOK
      <3>2. QED
        BY <1>2, <2>7, <3>1, TransitionHolds DEF Revoke
    <2>8. CASE \E mode \in Modes : SelectAccessMode(mode)
      BY <1>2, <2>8, SelectHolds
    <2>9. CASE UNCHANGED vars
      BY <1>2, <2>9 DEF vars, HostInv, HostTypeOK, PendingHasNoGeneration, UsesAreConsumed,
                        VerifiedHaveGeneration, UniqueActiveAttachment, OwnerGrantKept
    <2>10. QED
      BY <1>2, <2>1, <2>2, <2>3, <2>4, <2>5, <2>6, <2>7, <2>8, <2>9 DEF Next, Serve
  <1>3. QED
    BY <1>1, <1>2, PTL DEF Spec

(* Generations, attachments and frames keep their shape; only a first      *)
(* proof and _transition make a generation.                                *)
THEOREM HostTypeCorrect == Spec => []HostTypeOK
  <1>1. HostInv => HostTypeOK
    BY DEF HostInv
  <1>2. QED
    BY <1>1, HostInvHolds, PTL

(* However requests and transitions interleave, a workspace of a host has  *)
(* one active attachment at most, of the host's generation                 *)
(* (NativeAcceptancePlane.attach, attach_workspaces and _transition).      *)
THEOREM OneActiveAttachment == Spec => []UniqueActiveAttachment
  <1>1. HostInv => UniqueActiveAttachment
    BY DEF HostInv
  <1>2. QED
    BY <1>1, HostInvHolds, PTL

(* No request changes what the owner granted with select_access_mode.      *)
THEOREM OwnerGrantHolds == Spec => []OwnerGrantKept
  <1>1. HostInv => OwnerGrantKept
    BY DEF HostInv
  <1>2. QED
    BY <1>1, HostInvHolds, PTL

(* authenticate spends a sequence number of a generation once.             *)
THEOREM NumbersAreSpentOnce == Spec => []NumbersSpentOnce
  <1>1. HostInv => NumbersSpentOnce
    BY DEF HostInv, UsesAreConsumed, NumbersSpentOnce
  <1>2. QED
    BY <1>1, HostInvHolds, PTL

(* What one step does to a frame: it ends, begins, or stays with its       *)
(* request, and leaves the first place only by the unlocked check.         *)
LEMMA FrameSteps ==
  ASSUME HostInv, Next, NEW t \in Threads
  PROVE  \/ threads'[t] \in {threads[t], None}
         \/ threads'[t].step = "arrived"
         \/ /\ threads[t] # None
            /\ threads'[t].req = threads[t].req
            /\ threads[t].step = "arrived" => Current(threads[t].req)
  <1>1. ASSUME NEW u \in Threads, Serve(u)
        PROVE  \/ threads'[u] = None
               \/ threads'[u].step = "arrived"
               \/ /\ threads[u] # None
                  /\ threads'[u].req = threads[u].req
                  /\ threads[u].step = "arrived" => Current(threads[u].req)
    BY <1>1 DEF Serve, Arrive, Leave, Verify, Consume, Prove, Attach, Disconnect, Forget,
                Handles, HostInv, HostTypeOK
  <1>2. ASSUME NEW u \in Threads, Serve(u), u # t
        PROVE  threads'[t] = threads[t]
    BY <1>2 DEF Serve, Arrive, Leave, Verify, Consume, Prove, Attach, Disconnect, Forget,
                Handles, HostInv, HostTypeOK
  <1>3. QED
    BY <1>1, <1>2 DEF Next, Revoke, SelectAccessMode

(* Only a handler of a request that has passed the unlocked check, or a    *)
(* first proof, takes a host out of its status.                            *)
LEMMA RevokedStays ==
  ASSUME HostInv, Next, NEW h \in Hosts, status[h] = "revoked", InFlight(h) = {}
  PROVE  status'[h] = "revoked"
  <1>1. ASSUME NEW t \in Threads, Serve(t)
        PROVE  status'[h] = "revoked"
    <2>1. CASE UNCHANGED status
      BY <2>1
    <2>2. CASE Prove(t)
      BY <2>2 DEF Prove, HostInv, HostTypeOK
    <2>3. CASE Attach(t)
      <3>1. threads[t].req.host # h
        BY <2>3 DEF Attach, Handles, InFlight
      <3>2. QED
        BY <2>3, <3>1 DEF Attach, HostInv, HostTypeOK
    <2>4. CASE Disconnect(t) \/ Forget(t)
      BY <2>4 DEF Disconnect, Forget, Transition, HostInv, HostTypeOK
    <2>5. QED
      BY <1>1, <2>1, <2>2, <2>3, <2>4 DEF Serve, Arrive, Leave, Verify, Consume, authority
  <1>2. ASSUME NEW g \in Hosts, Revoke(g)
        PROVE  status'[h] = "revoked"
    BY <1>2 DEF Revoke, Transition, HostInv, HostTypeOK
  <1>3. QED
    BY <1>1, <1>2 DEF Next, SelectAccessMode

LEMMA NothingIsAdmitted ==
  ASSUME HostInv, Next, NEW h \in Hosts, status[h] = "revoked", InFlight(h) = {}
  PROVE  InFlight(h)' = {}
  <1>1. ASSUME NEW t \in Threads, threads'[t] # None, threads'[t].req.host = h,
               threads'[t].req.op # "prove", threads'[t].step # "arrived"
        PROVE  FALSE
    <2>1. CASE threads'[t] = threads[t]
      BY <1>1, <2>1 DEF InFlight
    <2>2. CASE /\ threads[t] # None
               /\ threads'[t].req = threads[t].req
               /\ threads[t].step = "arrived" => Current(threads[t].req)
      <3>1. threads[t].step = "arrived"
        BY <1>1, <2>2 DEF InFlight
      <3>2. status[h] \in Allowed(threads[t].req.op)
        BY <1>1, <2>2, <3>1 DEF Current
      <3>3. threads[t].req.op \in {"prove", "attach", "attach_workspaces", "disconnect",
                                   "forget", "other"}
        BY <2>2, FrameType DEF HostInv, Request
      <3>4. QED
        BY <3>2, <3>3 DEF Allowed
    <2>3. QED
      BY <1>1, <2>1, <2>2, FrameSteps
  <1>2. QED
    BY <1>1 DEF InFlight

(* Once nothing of a revoked host is under way, it is revoked for good:    *)
(* authenticate admits nothing of it again.                                *)
THEOREM RevocationIsFinal == Spec => RevocationSettles
  <1>1. HostInv /\ [Next]_vars =>
          \A h \in Hosts :
            status[h] = "revoked" /\ InFlight(h) = {}
              => status'[h] = "revoked" /\ InFlight(h)' = {}
    <2>1. UNCHANGED vars => \A h \in Hosts : status'[h] = status[h] /\ InFlight(h)' = InFlight(h)
      BY DEF vars, InFlight
    <2>2. QED
      BY <2>1, RevokedStays, NothingIsAdmitted
  <1>2. QED
    BY <1>1, HostInvHolds, PTL DEF Spec, RevocationSettles
=============================================================================
