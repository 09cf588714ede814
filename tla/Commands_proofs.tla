---------------------------- MODULE Commands_proofs ----------------------------
(* The safety of the commands and the grants, for all sets of jobs, apps,  *)
(* instances and threads and for all bounds.                               *)
EXTENDS Commands, SequenceTheorems, TLAPS

(* A completion the node sends is an Item about a command that exists. *)
LEMMA AnswersAreItems ==
  ASSUME CommandTypeOK
  PROVE  /\ Answers \subseteq Item
         /\ \A x \in Answers : x.id \in DOMAIN commands /\ \E d \in given : d.id = x.id
<1> SUFFICES ASSUME NEW d \in given,
                    NEW x \in [id : {d.id}, token : {d.token, None}, result : Results]
             PROVE  x \in Item /\ x.id = d.id /\ d.id \in DOMAIN commands
  BY DEF Answers
<1>1. d \in Document /\ d.id \in DOMAIN commands
  BY DEF CommandTypeOK
<1> QED BY <1>1 DEF Item, Document

(* The items of a completion are one answer or several. *)
LEMMA CompletionsAreRequests ==
  ASSUME CommandTypeOK, NEW r \in Completions
  PROVE  /\ r \in Request
         /\ r.op = "complete"
         /\ r.items # <<>>
         /\ \A i \in DOMAIN r.items : r.items[i] \in Answers
<1> USE CommandAssumption
<1>1. PICK n \in 1..MaxItems : \E y \in [1..n -> Answers] :
        r = [op |-> "complete", active |-> {}, items |-> y]
  BY DEF Completions
<1> PICK y \in [1..n -> Answers] : r = [op |-> "complete", active |-> {}, items |-> y]
  BY <1>1
<1>2. y \in Seq(Item) /\ Len(y) = n /\ DOMAIN y = 1..n
  BY AnswersAreItems, SeqDef
<1>3. y # <<>>
  BY <1>2
<1> QED BY <1>2, <1>3 DEF Request

(* What the node reports are well-formed reports. *)
LEMMA AppClaimsAreRequests ==
  ASSUME CommandTypeOK, NEW r \in AppClaims
  PROVE  r \in Request /\ r.op = "claim_apps" /\ r.items = <<>>
<1> USE CommandAssumption
<1>1. Reports \subseteq Active
  <2> SUFFICES ASSUME NEW d \in given, NEW n \in Instances,
                      commands[d.id].job.op = "register"
               PROVE  [app |-> commands[d.id].job.app, instance |-> n,
                       gen |-> d.gen, revision |-> d.revision] \in Active
    BY DEF Reports
  <2>1. d \in Document /\ d.id \in DOMAIN commands
    BY DEF CommandTypeOK
  <2>2. commands[d.id] \in Command
    BY <2>1 DEF CommandTypeOK
  <2>3. commands[d.id].job.app \in Apps
    BY <2>2 DEF Command, Job
  <2> QED BY <2>1, <2>3 DEF Active, Document
<1>2. PICK x \in SUBSET Reports : r = [op |-> "claim_apps", active |-> x, items |-> <<>>]
  BY DEF AppClaims
<1>3. << >> \in Seq(Item)
  OBVIOUS
<1> QED BY <1>1, <1>2, <1>3 DEF Request

(* The supervision leaves well-formed grants. *)
LEMMA SupervisedType ==
  ASSUME CommandTypeOK, NEW active \in SUBSET Active
  PROVE  Supervised(active) \in [Apps -> Grant \cup {None}]
<1> SUFFICES ASSUME NEW a \in Apps PROVE Supervised(active)[a] \in Grant \cup {None}
  BY DEF Supervised
<1>1. CASE \E x \in active : x.app = a /\ Binds(x)
  <2> DEFINE x == CHOOSE y \in active : y.app = a /\ Binds(y)
  <2>1. x \in active /\ x.app = a /\ Binds(x)
    BY <1>1
  <2>2. x.instance \in Instances
    BY <2>1 DEF Active
  <2>3. grants[a] \in Grant
    BY <2>1 DEF Binds, Granted, CommandTypeOK
  <2>4. Supervised(active)[a] =
          [gen |-> grants[a].gen, revision |-> grants[a].revision, mode |-> grants[a].mode,
           live |-> grants[a].live, instance |-> x.instance]
    BY <1>1 DEF Supervised
  <2> HIDE DEF x
  <2> QED BY <2>2, <2>3, <2>4 DEF Grant
<1>2. CASE ~ \E x \in active : x.app = a /\ Binds(x)
  BY <1>2 DEF Supervised, CommandTypeOK
<1> QED BY <1>1, <1>2

(* A claim of command i keeps the commands a sequence of commands. *)
LEMMA ClaimedType ==
  ASSUME CommandTypeOK, NEW i \in DOMAIN commands, NEW rev \in Nat, Claimed(i), Gives(i, rev)
  PROVE  /\ commands' \in Seq(Command)
         /\ DOMAIN commands' = DOMAIN commands
         /\ minted' \in Nat
         /\ given' \subseteq Document
         /\ \A d \in given' : d.id \in DOMAIN commands' /\ d.token <= minted'
<1> USE CommandAssumption
<1>1. i \in Nat \ {0} /\ commands[i] \in Command
  BY DEF CommandTypeOK
<1>2. minted' = minted + 1 /\ minted \in Nat /\ minted' \in Nat
  BY DEF Claimed, CommandTypeOK
<1>3. [job |-> commands[i].job, status |-> "claimed", token |-> minted', result |-> None]
        \in Command
  BY <1>1, <1>2 DEF Command
<1>4. commands' \in Seq(Command) /\ DOMAIN commands' = DOMAIN commands
  BY <1>3 DEF Claimed, CommandTypeOK
<1>5. PICK doc : doc = [id |-> i, token |-> minted', gen |-> gen, revision |-> rev]
  OBVIOUS
<1>6. doc \in Document /\ doc.id = i /\ doc.token = minted'
  BY <1>1, <1>2, <1>5 DEF Document, CommandTypeOK
<1>7. given' = given \cup {doc}
  BY <1>5 DEF Gives
<1>8. \A d \in given : d \in Document /\ d.id \in DOMAIN commands /\ d.token <= minted
  BY DEF CommandTypeOK
<1>9. \A d \in given : d.token <= minted'
  BY <1>2, <1>8 DEF Document
<1> QED BY <1>2, <1>4, <1>6, <1>7, <1>8, <1>9

THEOREM CommandTypeCorrect == Spec => []CommandTypeOK
<1> USE CommandAssumption
<1>1. Init => CommandTypeOK
  <2> SUFFICES ASSUME Init PROVE CommandTypeOK
    OBVIOUS
  <2>1. 1 \in 1..MaxGen /\ "full" \in Modes
    BY DEF Modes
  <2>2. commands \in Seq(Command) /\ given \subseteq Document
    BY DEF Init
  <2>3. grants \in [Apps -> Grant \cup {None}] /\ origin \in [Apps -> [by : Nat, epoch : Nat]]
    BY DEF Init
  <2>4. threads \in [Threads -> Request \cup {None}]
    BY DEF Init
  <2> QED BY <2>1, <2>2, <2>3, <2>4 DEF Init, CommandTypeOK
<1>2. CommandTypeOK /\ [Next]_vars => CommandTypeOK'
  <2> SUFFICES ASSUME CommandTypeOK, [Next]_vars PROVE CommandTypeOK'
    OBVIOUS
  <2>1. ASSUME NEW job \in Jobs, Enqueue(job) PROVE CommandTypeOK'
    <3>1. [job |-> job, status |-> "queued", token |-> 0, result |-> None] \in Command
      BY DEF Command
    <3>2. commands' \in Seq(Command) /\ DOMAIN commands \subseteq DOMAIN commands'
      BY <2>1, <3>1 DEF Enqueue, CommandTypeOK
    <3> QED BY <2>1, <3>2 DEF Enqueue, host, owner, CommandTypeOK
  <2>2. ASSUME NEW mode \in Choices, SelectAccessMode(mode) \/ BeginAccessTransition(mode)
        PROVE CommandTypeOK'
    <3>1. epoch + 1 \in Nat /\ revision + 1 \in Nat
      BY DEF CommandTypeOK
    <3>2. accessMode' \in Modes /\ epoch' \in Nat /\ selecting' \in BOOLEAN /\ revision' \in Nat
      BY <2>2, <3>1 DEF SelectAccessMode, BeginAccessTransition, CommandTypeOK
    <3>3. UNCHANGED <<host, work, threads>>
      BY <2>2 DEF SelectAccessMode, BeginAccessTransition
    <3> QED BY <3>2, <3>3 DEF host, work, CommandTypeOK
  <2>3. CASE RaiseRevision
    <3>1. revision \in Nat /\ revision' = revision + 1 /\ selecting' = FALSE
      BY <2>3 DEF RaiseRevision, CommandTypeOK
    <3>2. revision' \in Nat
      BY <3>1
    <3>3. UNCHANGED <<host, accessMode, epoch, work, threads>>
      BY <2>3 DEF RaiseRevision
    <3> QED BY <3>1, <3>2, <3>3 DEF host, work, CommandTypeOK
  <2>4. CASE Attach
    BY <2>4 DEF Attach, owner, work, CommandTypeOK
  <2>5. ASSUME NEW to \in {"disconnected", "revoked"}, Transition(to) PROVE CommandTypeOK'
    <3>1. \A c \in Command : Canceled(c) \in Command
      BY DEF Canceled, Command
    <3>2. commands' \in Seq(Command) /\ DOMAIN commands' = DOMAIN commands
      BY <2>5, <3>1, SeqDef DEF Transition, CommandTypeOK
    <3>3. status' \in {"connected", "disconnected", "revoked"} /\ attached' \in BOOLEAN
          /\ gen' \in 1..MaxGen
      <4>1. gen \in 1..MaxGen /\ gen < MaxGen /\ gen' = gen + 1
        BY <2>5 DEF Transition, CommandTypeOK
      <4>2. gen' \in 1..MaxGen
        BY <4>1
      <4> QED BY <2>5, <4>2 DEF Transition
    <3>4. UNCHANGED <<owner, given, minted, grants, origin, threads>>
      BY <2>5 DEF Transition
    <3> QED BY <3>2, <3>3, <3>4 DEF owner, CommandTypeOK
  <2>6. ASSUME NEW a \in Apps, Expire(a) PROVE CommandTypeOK'
    <3>1. grants[a] \in Grant
      BY <2>6 DEF Expire, CommandTypeOK
    <3>2. grants' \in [Apps -> Grant \cup {None}]
      BY <2>6, <3>1 DEF Expire, CommandTypeOK, Grant
    <3> QED BY <2>6, <3>2 DEF Expire, host, owner, CommandTypeOK
  <2>7. ASSUME NEW t \in Threads, Admit(t) PROVE CommandTypeOK'
    <3>1. PICK r \in Claims \cup AppClaims \cup Completions :
            threads' = [threads EXCEPT ![t] = r]
      BY <2>7 DEF Admit
    <3>2. /\ r \in Request
          /\ \A i \in DOMAIN r.items : r.items[i].id \in DOMAIN commands
          /\ r.op = "complete" => r.items # <<>>
      <4>1. CASE r \in Claims
        <5>1. r = [op |-> "claim", active |-> {}, items |-> <<>>]
          BY <4>1 DEF Claims
        <5>2. << >> \in Seq(Item)
          OBVIOUS
        <5> QED BY <5>1, <5>2 DEF Request
      <4>2. CASE r \in AppClaims
        BY <4>2, AppClaimsAreRequests
      <4>3. CASE r \in Completions
        BY <4>3, CompletionsAreRequests, AnswersAreItems
      <4> QED BY <4>1, <4>2, <4>3
    <3> QED BY <2>7, <3>1, <3>2 DEF Admit, host, owner, work, CommandTypeOK
  <2>8. ASSUME NEW t \in Threads, Claim(t) PROVE CommandTypeOK'
    <3>1. threads' = [threads EXCEPT ![t] = None]
      BY <2>8 DEF Claim, Ends
    <3>2. CASE UNCHANGED <<commands, given, minted>>
      BY <2>8, <3>1, <3>2 DEF Claim, host, owner, CommandTypeOK
    <3>3. ASSUME NEW i \in DOMAIN commands, Claimed(i), Gives(i, 0) PROVE CommandTypeOK'
      BY <2>8, <3>1, <3>3, ClaimedType DEF Claim, host, owner, CommandTypeOK
    <3> QED BY <2>8, <3>2, <3>3 DEF Claim
  <2>9. ASSUME NEW t \in Threads, ClaimApps(t) PROVE CommandTypeOK'
    <3> DEFINE supervised == Supervised(threads[t].active)
    <3>1. threads' = [threads EXCEPT ![t] = None] /\ threads[t] \in Request
      BY <2>9 DEF ClaimApps, Handles, Ends, CommandTypeOK
    <3>2. supervised \in [Apps -> Grant \cup {None}]
      BY <3>1, SupervisedType DEF Request
    <3>3. NewGrant \in Grant
      BY DEF NewGrant, Grant, CommandTypeOK
    <3>4. CASE grants' = supervised /\ UNCHANGED <<commands, given, minted, origin>>
      BY <2>9, <3>1, <3>2, <3>4 DEF ClaimApps, host, owner, CommandTypeOK
    <3>5. ASSUME NEW i \in DOMAIN commands, Claimed(i), Gives(i, revision),
                 IF commands[i].job.op = "register"
                 THEN /\ grants' = [supervised EXCEPT ![commands[i].job.app] = NewGrant]
                      /\ origin' = [origin EXCEPT ![commands[i].job.app] =
                                      [by |-> i, epoch |-> epoch]]
                 ELSE grants' = supervised /\ origin' = origin
          PROVE CommandTypeOK'
      <4>1. i \in Nat /\ epoch \in Nat
        BY DEF CommandTypeOK
      <4>2. grants' \in [Apps -> Grant \cup {None}]
        BY <3>2, <3>3, <3>5
      <4>3. origin' \in [Apps -> [by : Nat, epoch : Nat]]
        <5>1. [by |-> i, epoch |-> epoch] \in [by : Nat, epoch : Nat]
          BY <4>1
        <5>2. \/ origin' = origin
              \/ origin' = [origin EXCEPT ![commands[i].job.app] = [by |-> i, epoch |-> epoch]]
          BY <3>5
        <5>3. origin \in [Apps -> [by : Nat, epoch : Nat]]
          BY DEF CommandTypeOK
        <5> QED BY <5>1, <5>2, <5>3
      <4>4. revision \in Nat
        BY DEF CommandTypeOK
      <4> QED BY <2>9, <3>1, <3>5, <4>2, <4>3, <4>4, ClaimedType
              DEF ClaimApps, host, owner, CommandTypeOK
    <3> QED BY <2>9, <3>4, <3>5 DEF ClaimApps
  <2>10. ASSUME NEW t \in Threads, Complete(t) PROVE CommandTypeOK'
    <3> DEFINE r == threads[t]
               x == Head(r.items)
    <3>1. /\ r \in Request
          /\ r.items \in Seq(Item)
          /\ r.items # <<>>
          /\ \A i \in DOMAIN r.items : r.items[i].id \in DOMAIN commands
      BY <2>10 DEF Complete, Handles, CommandTypeOK, Request
    <3>2. x = r.items[1] /\ x \in Item /\ x.id \in DOMAIN commands
      BY <3>1
    <3>3. threads' = [threads EXCEPT ![t] = Rest(r)]
      BY <2>10 DEF Complete
    <3>4. Rest(r) # None =>
            /\ Rest(r) \in Request
            /\ Rest(r).items # <<>>
            /\ \A i \in DOMAIN Rest(r).items : Rest(r).items[i].id \in DOMAIN commands
      <4> SUFFICES ASSUME Rest(r) # None
                   PROVE  /\ Rest(r) \in Request
                          /\ Rest(r).items # <<>>
                          /\ \A i \in DOMAIN Rest(r).items :
                               Rest(r).items[i].id \in DOMAIN commands
        OBVIOUS
      <4>1. Len(r.items) # 1
            /\ Rest(r) = [op |-> r.op, active |-> r.active, items |-> Tail(r.items)]
        BY DEF Rest
      <4>2. /\ Tail(r.items) \in Seq(Item)
            /\ Len(Tail(r.items)) = Len(r.items) - 1
            /\ \A i \in 1..Len(Tail(r.items)) : Tail(r.items)[i] = r.items[i + 1]
        BY <3>1
      <4>3. Tail(r.items) # <<>>
        <5>1. Len(r.items) \in Nat \ {0} /\ Len(r.items) # 1
          BY <3>1, <4>1, EmptySeq
        <5>2. Len(Tail(r.items)) # 0
          BY <5>1, <4>2
        <5>3. Len(<<>>) = 0
          OBVIOUS
        <5> QED BY <5>2, <5>3
      <4>4. \A i \in DOMAIN Tail(r.items) : Tail(r.items)[i].id \in DOMAIN commands
        BY <3>1, <4>2
      <4> QED BY <3>1, <4>1, <4>2, <4>3, <4>4 DEF Request
    <3>5. DOMAIN commands' = DOMAIN commands /\ commands' \in Seq(Command)
      <4>1. commands[x.id].job \in Jobs /\ x.token \in Nat \cup {None} /\ x.result \in Results
        <5> HIDE DEF x
        <5>1. commands[x.id] \in Command
          BY <3>2 DEF CommandTypeOK
        <5> QED BY <3>2, <5>1 DEF Command, Item
      <4>2. [job |-> commands[x.id].job, status |-> "completed", token |-> x.token,
             result |-> x.result] \in Command
        BY <4>1 DEF Command
      <4>3. \/ UNCHANGED commands
            \/ commands' = [commands EXCEPT ![x.id] =
                 [job |-> commands[x.id].job, status |-> "completed", token |-> x.token,
                  result |-> x.result]]
        BY <2>10 DEF Complete
      <4>4. commands \in Seq(Command) /\ x.id \in DOMAIN commands
        BY <3>2 DEF CommandTypeOK
      <4> HIDE DEF x, r
      <4> QED BY <4>2, <4>3, <4>4
    <3>6. grants' \in [Apps -> Grant \cup {None}]
      BY <2>10 DEF Complete, CommandTypeOK
    <3>7. threads' \in [Threads -> Request \cup {None}]
      BY <3>3, <3>4 DEF CommandTypeOK
    <3>8. \A u \in Threads : threads'[u] # None =>
            /\ \A i \in DOMAIN threads'[u].items : threads'[u].items[i].id \in DOMAIN commands'
            /\ threads'[u].op = "complete" => threads'[u].items # <<>>
      <4> SUFFICES ASSUME NEW u \in Threads, threads'[u] # None
                   PROVE  /\ \A i \in DOMAIN threads'[u].items :
                               threads'[u].items[i].id \in DOMAIN commands'
                          /\ threads'[u].op = "complete" => threads'[u].items # <<>>
        OBVIOUS
      <4>1. CASE u = t
        <5>1. threads'[u] = Rest(r)
          BY <3>3, <4>1 DEF CommandTypeOK
        <5> QED BY <5>1, <3>4, <3>5
      <4>2. CASE u # t
        <5>1. threads'[u] = threads[u]
          BY <3>3, <4>2 DEF CommandTypeOK
        <5> QED BY <5>1, <3>5 DEF CommandTypeOK
      <4> QED BY <4>1, <4>2
    <3> QED BY <2>10, <3>5, <3>6, <3>7, <3>8 DEF Complete, host, owner, CommandTypeOK
  <2>11. CASE UNCHANGED vars
    BY <2>11 DEF vars, CommandTypeOK
  <2> QED BY <2>1, <2>2, <2>3, <2>4, <2>5, <2>6, <2>7, <2>8, <2>9, <2>10, <2>11
          DEF Next, Owner, Serve
<1> QED BY <1>1, <1>2, PTL DEF Spec

-----------------------------------------------------------------------------
(* The commands. *)

(* What the node holds an answer for has left the queue, and a canceled    *)
(* command has no token.                                                   *)
ClaimsInPlace ==
  /\ \A d \in given : commands[d.id].status # "queued"
  /\ \A i \in DOMAIN commands : commands[i].status = "canceled" => commands[i].token = None
  /\ \A t \in Threads : threads[t] # None =>
       \A i \in DOMAIN threads[t].items : commands[threads[t].items[i].id].status # "queued"

CommandInv == ClaimsInPlace /\ HandedOutOnce /\ ClaimsOfThisGeneration /\ OldestFirst

(* A thread that ends its request leaves nothing to complete. *)
LEMMA EndedThreads ==
  ASSUME CommandTypeOK, NEW t \in Threads, Ends(t), NEW u \in Threads, threads'[u] # None
  PROVE  threads'[u] = threads[u]
BY DEF Ends, CommandTypeOK

(* The claim of the next command of a lane. *)
LEMMA ClaimKeepsInv ==
  ASSUME CommandTypeOK, CommandInv, NEW i \in DOMAIN commands, NEW apps \in BOOLEAN,
         NEW rev \in Nat, NEW t \in Threads,
         NextInLane(i, apps), Claimed(i), Gives(i, rev), gen' = gen, Ends(t)
  PROVE  CommandInv'
<1> DEFINE doc == [id |-> i, token |-> minted', gen |-> gen, revision |-> rev]
<1>1. /\ DOMAIN commands' = DOMAIN commands
      /\ commands'[i].status = "claimed"
      /\ commands'[i].job = commands[i].job
      /\ \A k \in DOMAIN commands : k # i => commands'[k] = commands[k]
  BY DEF Claimed, CommandTypeOK
<1>2. given' = given \cup {doc} /\ doc.id = i /\ doc.gen = gen
  BY DEF Gives
<1>3. \A d \in given : d.id # i /\ d.id \in DOMAIN commands
  BY DEF CommandInv, ClaimsInPlace, NextInLane, CommandTypeOK
<1>4. ClaimsInPlace'
  <2>1. \A d \in given' : commands'[d.id].status # "queued"
    BY <1>1, <1>2, <1>3 DEF CommandInv, ClaimsInPlace
  <2>2. \A k \in DOMAIN commands' :
          commands'[k].status = "canceled" => commands'[k].token = None
    BY <1>1 DEF CommandInv, ClaimsInPlace
  <2>3. ASSUME NEW u \in Threads, threads'[u] # None, NEW k \in DOMAIN threads'[u].items
        PROVE  commands'[threads'[u].items[k].id].status # "queued"
    <3>1. threads'[u] = threads[u]
      BY <2>3, EndedThreads
    <3>2. /\ threads[u].items[k].id \in DOMAIN commands
          /\ commands[threads[u].items[k].id].status # "queued"
      BY <2>3, <3>1 DEF CommandInv, ClaimsInPlace, CommandTypeOK
    <3> QED BY <1>1, <3>1, <3>2
  <2> QED BY <2>1, <2>2, <2>3 DEF ClaimsInPlace
<1>5. HandedOutOnce'
  BY <1>2, <1>3 DEF CommandInv, HandedOutOnce
<1>6. ClaimsOfThisGeneration'
  <2> HIDE DEF doc
  <2> QED BY <1>1, <1>2, <1>3 DEF CommandInv, ClaimsOfThisGeneration
<1>7. OldestFirst'
  <2> SUFFICES ASSUME NEW j \in DOMAIN commands, NEW k \in DOMAIN commands, j < k,
                      AppLane(commands'[j]) = AppLane(commands'[k]),
                      commands'[k].status # "queued"
               PROVE  commands'[j].status # "queued"
    BY <1>1 DEF OldestFirst
  <2>1. AppLane(commands[j]) = AppLane(commands[k])
    BY <1>1 DEF AppLane
  <2>2. CASE k = i
    BY <1>1, <2>1, <2>2 DEF NextInLane
  <2>3. CASE k # i
    BY <1>1, <2>1, <2>3 DEF CommandInv, OldestFirst
  <2> QED BY <2>2, <2>3
<1> QED BY <1>4, <1>5, <1>6, <1>7 DEF CommandInv

LEMMA CommandInvStep ==
  ASSUME CommandTypeOK, CommandInv, [Next]_vars
  PROVE  CommandInv'
<1> USE CommandAssumption
<1>1. ASSUME UNCHANGED <<commands, given, gen, threads>> PROVE CommandInv'
  BY <1>1 DEF CommandInv, ClaimsInPlace, HandedOutOnce, ClaimsOfThisGeneration, OldestFirst
<1>2. ASSUME NEW job \in Jobs, Enqueue(job) PROVE CommandInv'
  <2> DEFINE n == Len(commands) + 1
  <2>1. /\ DOMAIN commands' = DOMAIN commands \cup {n}
        /\ \A k \in DOMAIN commands : k < n /\ commands'[k] = commands[k]
        /\ commands'[n].status = "queued"
        /\ n \in Nat /\ DOMAIN commands \subseteq Nat
    BY <1>2 DEF Enqueue, CommandTypeOK
  <2>2. UNCHANGED <<given, gen, threads>>
    BY <1>2 DEF Enqueue, host
  <2>3. ClaimsInPlace'
    <3> HIDE DEF n
    <3>1. \A d \in given' : commands'[d.id].status # "queued"
      BY <2>1, <2>2 DEF CommandInv, ClaimsInPlace, CommandTypeOK
    <3>2. \A k \in DOMAIN commands' :
            commands'[k].status = "canceled" => commands'[k].token = None
      BY <2>1 DEF CommandInv, ClaimsInPlace
    <3>3. \A t \in Threads : threads'[t] # None =>
            \A k \in DOMAIN threads'[t].items :
              commands'[threads'[t].items[k].id].status # "queued"
      BY <2>1, <2>2 DEF CommandInv, ClaimsInPlace, CommandTypeOK
    <3> QED BY <3>1, <3>2, <3>3 DEF ClaimsInPlace
  <2>4. HandedOutOnce'
    BY <2>2 DEF CommandInv, HandedOutOnce
  <2>5. ClaimsOfThisGeneration'
    BY <2>1, <2>2 DEF CommandInv, ClaimsOfThisGeneration, CommandTypeOK
  <2>6. OldestFirst'
    <3> HIDE DEF n
    <3> SUFFICES ASSUME NEW j \in DOMAIN commands', NEW k \in DOMAIN commands', j < k,
                        AppLane(commands'[j]) = AppLane(commands'[k]),
                        commands'[k].status # "queued"
                 PROVE  commands'[j].status # "queued"
      BY DEF OldestFirst
    <3>1. k \in DOMAIN commands
      BY <2>1
    <3>2. j \in DOMAIN commands
      BY <2>1, <3>1
    <3> QED BY <2>1, <3>1, <3>2 DEF CommandInv, OldestFirst, AppLane
  <2> QED BY <2>3, <2>4, <2>5, <2>6 DEF CommandInv
<1>3. ASSUME NEW to \in {"disconnected", "revoked"}, Transition(to) PROVE CommandInv'
  <2>1. /\ DOMAIN commands' = DOMAIN commands
        /\ \A k \in DOMAIN commands :
             /\ commands'[k].job = commands[k].job
             /\ commands'[k].status \notin {"queued", "claimed"}
             /\ commands'[k].status = "completed" => commands[k].status = "completed"
             /\ commands'[k].status = "canceled" => commands'[k].token = None
    <3> SUFFICES ASSUME NEW k \in DOMAIN commands
                 PROVE  /\ commands'[k].job = commands[k].job
                        /\ commands'[k].status \notin {"queued", "claimed"}
                        /\ commands'[k].status = "completed" => commands[k].status = "completed"
                        /\ commands'[k].status = "canceled" => commands'[k].token = None
      BY <1>3 DEF Transition
    <3>1. CASE Open(commands[k])
      BY <1>3, <3>1 DEF Transition, Canceled
    <3>2. CASE ~ Open(commands[k])
      BY <1>3, <3>2 DEF Transition, Open, CommandInv, ClaimsInPlace
    <3> QED BY <3>1, <3>2
  <2>2. UNCHANGED <<given, threads>>
    BY <1>3 DEF Transition
  <2>3. ClaimsInPlace'
    BY <2>1, <2>2 DEF ClaimsInPlace, CommandTypeOK
  <2>4. HandedOutOnce' /\ ClaimsOfThisGeneration'
    BY <2>1, <2>2 DEF CommandInv, HandedOutOnce, ClaimsOfThisGeneration, CommandTypeOK
  <2>5. OldestFirst'
    BY <2>1 DEF OldestFirst
  <2> QED BY <2>3, <2>4, <2>5 DEF CommandInv
<1>4. ASSUME NEW t \in Threads, Admit(t) PROVE CommandInv'
  <2>1. PICK r \in Claims \cup AppClaims \cup Completions :
          threads' = [threads EXCEPT ![t] = r]
    BY <1>4 DEF Admit
  <2>2. UNCHANGED <<commands, given, gen>>
    BY <1>4 DEF Admit, host, work
  <2>3. \A k \in DOMAIN r.items : commands[r.items[k].id].status # "queued"
    <3>1. CASE r \in Claims
      BY <3>1 DEF Claims
    <3>2. CASE r \in AppClaims
      BY <3>2, AppClaimsAreRequests
    <3>3. CASE r \in Completions
      <4>1. \A x \in Answers : commands[x.id].status # "queued"
        BY AnswersAreItems DEF CommandInv, ClaimsInPlace
      <4> QED BY <3>3, <4>1, CompletionsAreRequests
    <3> QED BY <2>1, <3>1, <3>2, <3>3
  <2>4. \A u \in Threads : threads'[u] = IF u = t THEN r ELSE threads[u]
    BY <2>1 DEF CommandTypeOK
  <2> QED BY <2>2, <2>3, <2>4
          DEF CommandInv, ClaimsInPlace, HandedOutOnce, ClaimsOfThisGeneration, OldestFirst
<1>5. ASSUME NEW t \in Threads, Ends(t), UNCHANGED <<commands, given, gen>> PROVE CommandInv'
  <2>1. \A u \in Threads : threads'[u] # None => threads'[u] = threads[u]
    BY <1>5, EndedThreads
  <2> QED BY <1>5, <2>1
          DEF CommandInv, ClaimsInPlace, HandedOutOnce, ClaimsOfThisGeneration, OldestFirst
<1>6. ASSUME NEW t \in Threads, Claim(t) PROVE CommandInv'
  <2>1. Ends(t) /\ gen' = gen
    BY <1>6 DEF Claim, host
  <2>2. ASSUME NEW i \in DOMAIN commands, NextInLane(i, FALSE), Claimed(i), Gives(i, 0)
        PROVE  CommandInv'
    BY <2>1, <2>2, ClaimKeepsInv
  <2> QED BY <1>5, <1>6, <2>1, <2>2 DEF Claim
<1>7. ASSUME NEW t \in Threads, ClaimApps(t) PROVE CommandInv'
  <2>1. Ends(t) /\ gen' = gen
    BY <1>7 DEF ClaimApps, host
  <2>2. ASSUME NEW i \in DOMAIN commands, NextInLane(i, TRUE), Claimed(i), Gives(i, revision)
        PROVE  CommandInv'
    <3>1. revision \in Nat
      BY DEF CommandTypeOK
    <3> QED BY <2>1, <2>2, <3>1, ClaimKeepsInv
  <2> QED BY <1>5, <1>7, <2>1, <2>2 DEF ClaimApps
<1>8. ASSUME NEW t \in Threads, Complete(t) PROVE CommandInv'
  <2> DEFINE r == threads[t]
             x == Head(r.items)
  <2>1. /\ r \in Request /\ r # None
        /\ r.items \in Seq(Item) /\ r.items # <<>>
    BY <1>8 DEF Complete, Handles, CommandTypeOK, Request
  <2>2. x = r.items[1] /\ 1 \in DOMAIN r.items
    BY <2>1
  <2>3. x.id \in DOMAIN commands /\ commands[x.id].status # "queued"
    <3> HIDE DEF x
    <3> QED BY <2>1, <2>2 DEF CommandInv, ClaimsInPlace, CommandTypeOK
  <2>4. UNCHANGED <<given, gen>>
    BY <1>8 DEF Complete, host
  <2>5. /\ DOMAIN commands' = DOMAIN commands
        /\ \A k \in DOMAIN commands :
             \/ commands'[k] = commands[k]
             \/ /\ k = x.id
                /\ commands'[k].job = commands[k].job
                /\ commands'[k].status = "completed"
                /\ commands[k].status # "queued"
    <3>1. CASE Accepted(x)
      <4>1. commands' = [commands EXCEPT ![x.id] =
               [job |-> commands[x.id].job, status |-> "completed", token |-> x.token,
                result |-> x.result]]
        BY <1>8, <3>1 DEF Complete
      <4> HIDE DEF x
      <4> QED BY <2>3, <4>1 DEF CommandTypeOK
    <3>2. CASE ~ Accepted(x)
      BY <1>8, <3>2 DEF Complete
    <3> QED BY <3>1, <3>2
  <2>6. \A u \in Threads : threads'[u] # None =>
          \A k \in DOMAIN threads'[u].items :
            \E m \in DOMAIN threads[u].items :
              threads[u] # None /\ threads'[u].items[k] = threads[u].items[m]
    <3> SUFFICES ASSUME NEW u \in Threads, threads'[u] # None,
                        NEW k \in DOMAIN threads'[u].items
                 PROVE  \E m \in DOMAIN threads[u].items :
                          threads[u] # None /\ threads'[u].items[k] = threads[u].items[m]
      OBVIOUS
    <3>1. threads' = [threads EXCEPT ![t] = Rest(r)]
      BY <1>8 DEF Complete
    <3>2. CASE u # t
      BY <3>1, <3>2 DEF CommandTypeOK
    <3>3. CASE u = t
      <4>1. threads'[u].items = Tail(r.items)
        BY <3>1, <3>3 DEF CommandTypeOK, Rest
      <4>2. k + 1 \in DOMAIN r.items /\ Tail(r.items)[k] = r.items[k + 1]
        BY <2>1, <4>1
      <4> QED BY <2>1, <3>3, <4>1, <4>2
    <3> QED BY <3>2, <3>3
  <2> HIDE DEF x, r
  <2>7. ClaimsInPlace'
    <3>1. \A d \in given' : commands'[d.id].status # "queued"
      BY <2>4, <2>5 DEF CommandInv, ClaimsInPlace, CommandTypeOK
    <3>2. \A k \in DOMAIN commands' :
            commands'[k].status = "canceled" => commands'[k].token = None
      BY <2>5 DEF CommandInv, ClaimsInPlace
    <3>3. ASSUME NEW u \in Threads, threads'[u] # None, NEW k \in DOMAIN threads'[u].items
          PROVE  commands'[threads'[u].items[k].id].status # "queued"
      <4>1. PICK m \in DOMAIN threads[u].items :
              threads[u] # None /\ threads'[u].items[k] = threads[u].items[m]
        BY <2>6, <3>3
      <4>2. /\ threads[u].items[m].id \in DOMAIN commands
            /\ commands[threads[u].items[m].id].status # "queued"
        BY <4>1 DEF CommandInv, ClaimsInPlace, CommandTypeOK
      <4> QED BY <2>5, <4>1, <4>2
    <3> QED BY <3>1, <3>2, <3>3 DEF ClaimsInPlace
  <2>8. HandedOutOnce' /\ ClaimsOfThisGeneration'
    BY <2>4, <2>5 DEF CommandInv, HandedOutOnce, ClaimsOfThisGeneration, CommandTypeOK
  <2>9. OldestFirst'
    <3> SUFFICES ASSUME NEW j \in DOMAIN commands, NEW k \in DOMAIN commands, j < k,
                        AppLane(commands'[j]) = AppLane(commands'[k]),
                        commands'[k].status # "queued"
                 PROVE  commands'[j].status # "queued"
      BY <2>5 DEF OldestFirst
    <3>1. commands[j].status # "queued" \/ commands'[j] = commands[j]
      BY <2>5
    <3>2. AppLane(commands[j]) = AppLane(commands[k])
      BY <2>5 DEF AppLane
    <3>3. commands[k].status # "queued"
      <4>1. commands[k].status \in {"queued", "claimed", "canceled", "completed"}
        <5>1. commands[k] \in Command
          BY DEF CommandTypeOK
        <5> QED BY <5>1 DEF Command
      <4> QED BY <2>5, <4>1
    <3>4. commands[j].status # "queued"
      BY <3>2, <3>3 DEF CommandInv, OldestFirst
    <3> QED BY <2>5, <3>4
  <2> QED BY <2>7, <2>8, <2>9 DEF CommandInv
<1>9. ASSUME NEW mode \in Choices, SelectAccessMode(mode) \/ BeginAccessTransition(mode)
      PROVE CommandInv'
  BY <1>1, <1>9 DEF SelectAccessMode, BeginAccessTransition, host, work
<1>10. CASE RaiseRevision \/ Attach \/ (\E a \in Apps : Expire(a)) \/ UNCHANGED vars
  BY <1>1, <1>10 DEF RaiseRevision, Attach, Expire, host, owner, work, vars
<1> QED BY <1>2, <1>3, <1>4, <1>6, <1>7, <1>8, <1>9, <1>10 DEF Next, Owner, Serve

LEMMA CommandInvInit == Init => CommandInv
BY DEF Init, CommandInv, ClaimsInPlace, HandedOutOnce, ClaimsOfThisGeneration, OldestFirst

(* There is one claim document of a command, under one token, whatever is  *)
(* lost, repeated or overtaken.                                            *)
THEOREM CommandsRunOnce == Spec => []HandedOutOnce
<1>1. CommandInv => HandedOutOnce
  BY DEF CommandInv
<1> QED BY <1>1, CommandInvInit, CommandInvStep, CommandTypeCorrect, PTL DEF Spec

(* No claim stays open across a change of the generation. *)
THEOREM OpenClaimsAreCurrent == Spec => []ClaimsOfThisGeneration
<1>1. CommandInv => ClaimsOfThisGeneration
  BY DEF CommandInv
<1> QED BY <1>1, CommandInvInit, CommandInvStep, CommandTypeCorrect, PTL DEF Spec

(* Each lane is first in, first out. *)
THEOREM LanesKeepOrder == Spec => []OldestFirst
<1>1. CommandInv => OldestFirst
  BY DEF CommandInv
<1> QED BY <1>1, CommandInvInit, CommandInvStep, CommandTypeCorrect, PTL DEF Spec

(* The only step that changes a command that has ended is the completion   *)
(* of a canceled one that carries no token.                                *)
LEMMA EndedStays ==
  ASSUME CommandTypeOK, CommandInv, [Next]_vars, NEW i \in DOMAIN commands,
         commands'[i] # commands[i]
  PROVE  /\ commands[i].status # "completed"
         /\ commands[i].status = "canceled" =>
              \E t \in Threads : Tokenless(t, i) /\ threads'[t] # threads[t]
<1> USE CommandAssumption
<1>1. UNCHANGED commands => FALSE
  OBVIOUS
<1>2. ASSUME NEW job \in Jobs, Enqueue(job) PROVE FALSE
  BY <1>2 DEF Enqueue, CommandTypeOK
<1>3. ASSUME NEW to \in {"disconnected", "revoked"}, Transition(to)
      PROVE  commands[i].status \in {"queued", "claimed"}
  BY <1>3 DEF Transition, Open
<1>4. ASSUME NEW k \in DOMAIN commands, commands[k].status = "queued", Claimed(k)
      PROVE  commands[i].status = "queued"
  BY <1>4 DEF Claimed, CommandTypeOK
<1>5. ASSUME NEW t \in Threads, Claim(t) PROVE commands[i].status = "queued"
  BY <1>1, <1>4, <1>5 DEF Claim, NextInLane
<1>6. ASSUME NEW t \in Threads, ClaimApps(t) PROVE commands[i].status = "queued"
  BY <1>1, <1>4, <1>6 DEF ClaimApps, NextInLane
<1>7. ASSUME NEW t \in Threads, Complete(t)
      PROVE  /\ commands[i].status # "completed"
             /\ commands[i].status = "canceled" =>
                  Tokenless(t, i) /\ threads'[t] # threads[t]
  <2> DEFINE r == threads[t]
             x == Head(r.items)
  <2>1. /\ r \in Request /\ r # None /\ Handles(t, "complete")
        /\ r.items \in Seq(Item) /\ r.items # <<>>
    BY <1>7 DEF Complete, Handles, CommandTypeOK, Request
  <2>2. Accepted(x)
    BY <1>1, <1>7 DEF Complete
  <2>3. commands' = [commands EXCEPT ![x.id] =
           [job |-> commands[x.id].job, status |-> "completed", token |-> x.token,
            result |-> x.result]]
    BY <1>7, <2>2 DEF Complete
  <2>4. x.id = i
    <3> HIDE DEF x
    <3> QED BY <2>3 DEF CommandTypeOK
  <2>5. commands[i].status = "canceled" => x.token = None
    <3> HIDE DEF x
    <3> QED BY <2>2, <2>4 DEF Accepted, CommandInv, ClaimsInPlace
  <2>6. threads'[t] # r
    <3>1. threads'[t] = Rest(r)
      BY <1>7 DEF Complete, CommandTypeOK
    <3>2. Len(Tail(r.items)) # Len(r.items)
      BY <2>1
    <3> HIDE DEF r
    <3> QED BY <2>1, <3>1, <3>2 DEF Rest
  <2> QED BY <2>1, <2>2, <2>4, <2>5, <2>6 DEF Accepted, Tokenless
<1>8. ASSUME NEW t \in Threads, Admit(t) PROVE FALSE
  BY <1>1, <1>8 DEF Admit, work
<1>9. ASSUME NEW mode \in Choices, SelectAccessMode(mode) \/ BeginAccessTransition(mode)
      PROVE  FALSE
  BY <1>1, <1>9 DEF SelectAccessMode, BeginAccessTransition, work
<1>10. CASE RaiseRevision \/ Attach \/ (\E a \in Apps : Expire(a)) \/ UNCHANGED vars
  BY <1>1, <1>10 DEF RaiseRevision, Attach, Expire, work, vars
<1> QED BY <1>2, <1>3, <1>5, <1>6, <1>7, <1>8, <1>9, <1>10 DEF Next, Owner, Serve

(* No claim document, however late, changes a command that has ended: only *)
(* a completion without a token completes a canceled one, and nothing      *)
(* completes a command twice.                                              *)
THEOREM EndsAreFinal == Spec => AnswersAreFinal
<1>1. CommandTypeOK /\ CommandInv /\ [Next]_vars =>
        [ \A i \in DOMAIN commands : commands'[i] # commands[i] =>
            /\ commands[i].status # "completed"
            /\ commands[i].status = "canceled" =>
                 \E t \in Threads : Tokenless(t, i) /\ threads'[t] # threads[t] ]_vars
  BY EndedStays
<1> QED BY <1>1, CommandInvInit, CommandInvStep, CommandTypeCorrect, PTL
        DEF Spec, AnswersAreFinal

-----------------------------------------------------------------------------
(* The grants. *)

(* How far the revision of a grant is from the owner's choice: a grant of  *)
(* the current revision is of the last choice, except that it may be of    *)
(* the one before, and then of another mode, until the revision is raised. *)
GrantsBehindOwner ==
  \A a \in Apps : grants[a] # None =>
    /\ grants[a].revision <= revision
    /\ grants[a].revision = revision =>
         \/ origin[a].epoch = epoch /\ grants[a].mode = accessMode
         \/ selecting /\ grants[a].mode # accessMode

LEMMA GrantsBehindOwnerStep ==
  ASSUME CommandTypeOK, GrantsBehindOwner, [Next]_vars
  PROVE  GrantsBehindOwner'
<1> USE CommandAssumption
<1>1. revision \in Nat /\ \A a \in Apps : grants[a] # None => grants[a].revision \in Nat
  BY DEF CommandTypeOK, Grant
<1>2. ASSUME UNCHANGED <<owner, origin>>,
             \A a \in Apps : grants'[a] # None =>
               grants[a] # None /\ grants'[a].revision = grants[a].revision
                                /\ grants'[a].mode = grants[a].mode
      PROVE  GrantsBehindOwner'
  BY <1>2 DEF GrantsBehindOwner, owner
<1>3. CASE UNCHANGED <<owner, grants, origin>>
  BY <1>3 DEF GrantsBehindOwner, owner
<1>4. ASSUME NEW mode \in Choices, SelectAccessMode(mode) PROVE GrantsBehindOwner'
  <2>1. ~ selecting /\ selecting' /\ accessMode' = mode /\ mode # accessMode
        /\ UNCHANGED <<revision, grants>>
    BY <1>4 DEF SelectAccessMode, work
  <2> QED BY <2>1 DEF GrantsBehindOwner
<1>5. ASSUME NEW mode \in Choices, BeginAccessTransition(mode) PROVE GrantsBehindOwner'
  BY <1>1, <1>5 DEF BeginAccessTransition, work, GrantsBehindOwner
<1>6. CASE RaiseRevision
  BY <1>1, <1>6 DEF RaiseRevision, work, GrantsBehindOwner
<1>7. ASSUME NEW a \in Apps, Expire(a) PROVE GrantsBehindOwner'
  <2>1. UNCHANGED <<owner, origin>>
    BY <1>7 DEF Expire
  <2>2. \A b \in Apps : grants'[b] # None =>
          /\ grants[b] # None
          /\ grants'[b].revision = grants[b].revision
          /\ grants'[b].mode = grants[b].mode
    BY <1>7 DEF Expire, CommandTypeOK
  <2> QED BY <1>2, <2>1, <2>2
<1>8. ASSUME NEW t \in Threads, Complete(t) PROVE GrantsBehindOwner'
  <2>1. UNCHANGED <<owner, origin>>
    BY <1>8 DEF Complete
  <2>2. \A b \in Apps : grants'[b] # None => grants'[b] = grants[b]
    BY <1>8 DEF Complete, CommandTypeOK
  <2> QED BY <2>1, <2>2 DEF GrantsBehindOwner, owner
<1>9. ASSUME NEW t \in Threads, ClaimApps(t) PROVE GrantsBehindOwner'
  <2> DEFINE supervised == Supervised(threads[t].active)
  <2>1. \A b \in Apps : supervised[b] # None =>
          /\ grants[b] # None
          /\ supervised[b].revision = grants[b].revision
          /\ supervised[b].mode = grants[b].mode
    BY DEF Supervised, Binds, Granted
  <2>2. UNCHANGED owner
    BY <1>9 DEF ClaimApps
  <2>3. CASE grants' = supervised /\ origin' = origin
    BY <2>1, <2>2, <2>3 DEF GrantsBehindOwner, owner
  <2>4. ASSUME NEW i \in DOMAIN commands,
               grants' = [supervised EXCEPT ![commands[i].job.app] = NewGrant],
               origin' = [origin EXCEPT ![commands[i].job.app] = [by |-> i, epoch |-> epoch]]
        PROVE  GrantsBehindOwner'
    <3> SUFFICES ASSUME NEW b \in Apps, grants'[b] # None
                 PROVE  /\ grants'[b].revision <= revision
                        /\ grants'[b].revision = revision =>
                             \/ origin'[b].epoch = epoch /\ grants'[b].mode = accessMode
                             \/ selecting /\ grants'[b].mode # accessMode
      BY <2>2 DEF GrantsBehindOwner, owner
    <3>1. DOMAIN supervised = Apps
      BY DEF Supervised
    <3>2. CASE b = commands[i].job.app
      <4>1. grants'[b] = NewGrant
        BY <2>4, <3>1, <3>2
      <4>2. origin'[b] = [by |-> i, epoch |-> epoch]
        BY <2>4, <3>2 DEF CommandTypeOK
      <4> QED BY <1>1, <4>1, <4>2 DEF NewGrant
    <3>3. CASE b # commands[i].job.app
      <4>1. grants'[b] = supervised[b]
        BY <2>4, <3>1, <3>3
      <4>2. origin'[b] = origin[b]
        BY <2>4, <3>3 DEF CommandTypeOK
      <4> HIDE DEF supervised
      <4> QED BY <2>1, <4>1, <4>2 DEF GrantsBehindOwner
    <3> QED BY <3>2, <3>3
  <2> QED BY <1>9, <2>3, <2>4 DEF ClaimApps
<1>10. ASSUME NEW t \in Threads, Admit(t) \/ Claim(t) PROVE GrantsBehindOwner'
  BY <1>3, <1>10 DEF Admit, Claim, work
<1>11. CASE (\E job \in Jobs : Enqueue(job)) \/ Attach
            \/ (\E to \in {"disconnected", "revoked"} : Transition(to)) \/ UNCHANGED vars
  BY <1>3, <1>11 DEF Enqueue, Attach, Transition, work, owner, vars
<1> QED BY <1>4, <1>5, <1>6, <1>7, <1>8, <1>9, <1>10, <1>11 DEF Next, Owner, Serve

(* The owner's change of the access mode withdraws every grant, although   *)
(* the revision follows it under another hold of the lock.                 *)
THEOREM WithdrawalIsFinal == Spec => []WithdrawnGrantsStop
<1>1. Init => GrantsBehindOwner
  BY DEF Init, GrantsBehindOwner
<1>2. GrantsBehindOwner => WithdrawnGrantsStop
  BY DEF GrantsBehindOwner, WithdrawnGrantsStop, Granted
<1> QED BY <1>1, <1>2, GrantsBehindOwnerStep, CommandTypeCorrect, PTL DEF Spec

(* What a grant rests on: the claim of a registration of its app, which    *)
(* has not failed as long as the generation of the grant lasts.            *)
GrantsInPlace ==
  \A a \in Apps : grants[a] # None =>
    LET c == commands[origin[a].by] IN
    /\ origin[a].by \in DOMAIN commands
    /\ c.job.op = "register" /\ c.job.app = a
    /\ c.status # "queued"
    /\ grants[a].gen <= gen
    /\ grants[a].gen = gen =>
         c.status = "claimed" \/ (c.status = "completed" /\ c.result = "succeeded")

LEMMA GrantsInPlaceStep ==
  ASSUME CommandTypeOK, CommandInv, GrantsInPlace, [Next]_vars
  PROVE  GrantsInPlace'
<1> USE CommandAssumption
<1>1. gen \in Nat /\ \A a \in Apps : grants[a] # None => grants[a].gen \in Nat
  BY DEF CommandTypeOK, Grant
<1>2. CASE UNCHANGED <<gen, commands, grants, origin>>
  BY <1>2 DEF GrantsInPlace
<1>3. ASSUME NEW job \in Jobs, Enqueue(job) PROVE GrantsInPlace'
  <2>1. /\ DOMAIN commands \subseteq DOMAIN commands'
        /\ \A k \in DOMAIN commands : commands'[k] = commands[k]
    BY <1>3 DEF Enqueue, CommandTypeOK
  <2> QED BY <1>3, <2>1 DEF Enqueue, host, GrantsInPlace
<1>4. ASSUME NEW to \in {"disconnected", "revoked"}, Transition(to) PROVE GrantsInPlace'
  <2>1. /\ DOMAIN commands' = DOMAIN commands
        /\ \A k \in DOMAIN commands :
             /\ commands'[k].job = commands[k].job
             /\ commands[k].status # "queued" => commands'[k].status # "queued"
    BY <1>4 DEF Transition, Canceled
  <2>2. gen' = gen + 1 /\ UNCHANGED <<grants, origin>>
    BY <1>4 DEF Transition
  <2> QED BY <1>1, <2>1, <2>2 DEF GrantsInPlace
<1>5. ASSUME NEW a \in Apps, Expire(a) PROVE GrantsInPlace'
  <2>1. \A b \in Apps : grants'[b] # None => grants[b] # None /\ grants'[b].gen = grants[b].gen
    BY <1>5 DEF Expire, CommandTypeOK
  <2> QED BY <1>5, <2>1 DEF Expire, host, GrantsInPlace
<1>6. ASSUME NEW i \in DOMAIN commands, commands[i].status = "queued", Claimed(i)
      PROVE  /\ DOMAIN commands' = DOMAIN commands
             /\ commands'[i].job = commands[i].job
             /\ commands'[i].status = "claimed"
             /\ \A k \in DOMAIN commands : commands[k].status # "queued" =>
                  commands'[k] = commands[k]
  BY <1>6 DEF Claimed, CommandTypeOK
<1>7. ASSUME NEW t \in Threads, Claim(t) PROVE GrantsInPlace'
  <2>1. UNCHANGED <<gen, grants, origin>>
    BY <1>7 DEF Claim, host
  <2>2. ASSUME NEW i \in DOMAIN commands, NextInLane(i, FALSE), Claimed(i)
        PROVE  GrantsInPlace'
    BY <1>6, <2>1, <2>2 DEF NextInLane, GrantsInPlace
  <2> QED BY <1>2, <1>7, <2>1, <2>2 DEF Claim
<1>8. ASSUME NEW t \in Threads, ClaimApps(t) PROVE GrantsInPlace'
  <2> DEFINE supervised == Supervised(threads[t].active)
  <2>1. \A b \in Apps : supervised[b] # None =>
          grants[b] # None /\ supervised[b].gen = grants[b].gen
    BY DEF Supervised, Binds, Granted
  <2>2. gen' = gen
    BY <1>8 DEF ClaimApps, host
  <2>3. CASE grants' = supervised /\ UNCHANGED <<commands, origin>>
    BY <2>1, <2>2, <2>3 DEF GrantsInPlace
  <2>4. ASSUME NEW i \in DOMAIN commands, NextInLane(i, TRUE), Claimed(i),
               grants' = supervised, origin' = origin
        PROVE  GrantsInPlace'
    <3>1. commands[i].status = "queued"
      BY <2>4 DEF NextInLane
    <3> HIDE DEF supervised
    <3> QED BY <1>6, <2>1, <2>2, <2>4, <3>1 DEF GrantsInPlace
  <2>5. ASSUME NEW i \in DOMAIN commands, NextInLane(i, TRUE), Claimed(i),
               commands[i].job.op = "register",
               grants' = [supervised EXCEPT ![commands[i].job.app] = NewGrant],
               origin' = [origin EXCEPT ![commands[i].job.app] = [by |-> i, epoch |-> epoch]]
        PROVE  GrantsInPlace'
    <3>1. commands[i].status = "queued"
      BY <2>5 DEF NextInLane
    <3>2. DOMAIN supervised = Apps
      BY DEF Supervised
    <3> SUFFICES ASSUME NEW b \in Apps, grants'[b] # None
                 PROVE  LET c == commands'[origin'[b].by] IN
                        /\ origin'[b].by \in DOMAIN commands'
                        /\ c.job.op = "register" /\ c.job.app = b
                        /\ c.status # "queued"
                        /\ grants'[b].gen <= gen
                        /\ grants'[b].gen = gen =>
                             \/ c.status = "claimed"
                             \/ c.status = "completed" /\ c.result = "succeeded"
      BY <2>2 DEF GrantsInPlace
    <3>3. CASE b = commands[i].job.app
      <4>1. grants'[b].gen = gen
        BY <2>5, <3>2, <3>3 DEF NewGrant
      <4>2. origin'[b].by = i
        BY <2>5, <3>3 DEF CommandTypeOK
      <4> QED BY <1>1, <1>6, <2>5, <3>1, <3>3, <4>1, <4>2
    <3>4. CASE b # commands[i].job.app
      <4>1. grants'[b] = supervised[b]
        BY <2>5, <3>2, <3>4
      <4>2. origin'[b] = origin[b]
        BY <2>5, <3>4 DEF CommandTypeOK
      <4> HIDE DEF supervised
      <4> QED BY <1>6, <2>1, <2>5, <3>1, <4>1, <4>2 DEF GrantsInPlace
    <3> QED BY <3>3, <3>4
  <2> QED BY <1>8, <2>3, <2>4, <2>5 DEF ClaimApps
<1>9. ASSUME NEW t \in Threads, Complete(t) PROVE GrantsInPlace'
  <2> DEFINE x == Head(threads[t].items)
  <2>1. gen' = gen /\ origin' = origin
    BY <1>9 DEF Complete, host
  <2>2. CASE ~ Accepted(x)
    BY <1>2, <1>9, <2>1, <2>2 DEF Complete
  <2>3. CASE Accepted(x)
    <3>1. commands' = [commands EXCEPT ![x.id] =
             [job |-> commands[x.id].job, status |-> "completed", token |-> x.token,
              result |-> x.result]]
      BY <1>9, <2>3 DEF Complete
    <3>2. grants' = IF EndsGrant(commands[x.id].job, x.result)
                    THEN [grants EXCEPT ![commands[x.id].job.app] = None] ELSE grants
      BY <1>9, <2>3 DEF Complete
    <3> HIDE DEF x
    <3> SUFFICES ASSUME NEW b \in Apps, grants'[b] # None
                 PROVE  LET c == commands'[origin[b].by] IN
                        /\ origin[b].by \in DOMAIN commands'
                        /\ c.job.op = "register" /\ c.job.app = b
                        /\ c.status # "queued"
                        /\ grants'[b].gen <= gen
                        /\ grants'[b].gen = gen =>
                             \/ c.status = "claimed"
                             \/ c.status = "completed" /\ c.result = "succeeded"
      BY <2>1 DEF GrantsInPlace
    <3>3. grants'[b] = grants[b]
      BY <3>2 DEF CommandTypeOK
    <3>4. CASE origin[b].by # x.id
      <4>1. DOMAIN commands' = DOMAIN commands /\ commands'[origin[b].by] = commands[origin[b].by]
        BY <3>1, <3>4
      <4> QED BY <3>3, <4>1 DEF GrantsInPlace
    <3>5. CASE origin[b].by = x.id
      <4>1. /\ x.id \in DOMAIN commands
            /\ commands[x.id].job.op = "register" /\ commands[x.id].job.app = b
            /\ grants[b].gen <= gen
        BY <3>3, <3>5 DEF GrantsInPlace
      <4>2. x.result = "succeeded"
        BY <3>2, <4>1 DEF EndsGrant, CommandTypeOK
      <4> QED BY <3>1, <3>3, <3>5, <4>1, <4>2 DEF CommandTypeOK
    <3> QED BY <3>4, <3>5
  <2> QED BY <2>2, <2>3
<1>10. ASSUME NEW t \in Threads, Admit(t) PROVE GrantsInPlace'
  BY <1>2, <1>10 DEF Admit, host, work
<1>11. ASSUME NEW mode \in Choices, SelectAccessMode(mode) \/ BeginAccessTransition(mode)
       PROVE GrantsInPlace'
  BY <1>2, <1>11 DEF SelectAccessMode, BeginAccessTransition, host, work
<1>12. CASE RaiseRevision \/ Attach \/ UNCHANGED vars
  BY <1>2, <1>12 DEF RaiseRevision, Attach, host, work, vars
<1> QED BY <1>3, <1>4, <1>5, <1>7, <1>8, <1>9, <1>10, <1>11, <1>12 DEF Next, Owner, Serve

LEMMA GrantsInPlaceInit == Init => GrantsInPlace
BY DEF Init, GrantsInPlace

(* No app goes on whose registration has failed or been canceled. *)
THEOREM GrantsAreEarned == Spec => []GrantsAreBacked
<1>1. GrantsInPlace => GrantsAreBacked
  BY DEF GrantsInPlace, GrantsAreBacked, Granted
<1> QED BY <1>1, GrantsInPlaceInit, GrantsInPlaceStep, CommandInvInit, CommandInvStep,
           CommandTypeCorrect, PTL DEF Spec

(* A grant that lasts keeps its instance. *)
LEMMA InstanceStays ==
  ASSUME CommandTypeOK, GrantsInPlace, [Next]_vars, NEW a \in Apps,
         grants[a] # None, grants'[a] # None, origin'[a] = origin[a],
         grants[a].instance # None
  PROVE  grants'[a].instance = grants[a].instance
<1> USE CommandAssumption
<1>1. ASSUME UNCHANGED grants PROVE grants'[a].instance = grants[a].instance
  BY <1>1
<1>2. ASSUME NEW b \in Apps, Expire(b) PROVE grants'[a].instance = grants[a].instance
  BY <1>2 DEF Expire, CommandTypeOK
<1>3. ASSUME NEW t \in Threads, Complete(t) PROVE grants'[a].instance = grants[a].instance
  BY <1>3 DEF Complete, CommandTypeOK
<1>4. ASSUME NEW t \in Threads, ClaimApps(t) PROVE grants'[a].instance = grants[a].instance
  <2> DEFINE supervised == Supervised(threads[t].active)
  <2>1. supervised[a] = grants[a] /\ DOMAIN supervised = Apps
    BY DEF Supervised, Binds
  <2>2. CASE grants' = supervised
    BY <2>1, <2>2
  <2>3. ASSUME NEW i \in DOMAIN commands, NextInLane(i, TRUE),
               grants' = [supervised EXCEPT ![commands[i].job.app] = NewGrant],
               origin' = [origin EXCEPT ![commands[i].job.app] = [by |-> i, epoch |-> epoch]]
        PROVE  grants'[a].instance = grants[a].instance
    <3>1. origin[a].by # i
      BY <2>3 DEF NextInLane, GrantsInPlace
    <3>2. commands[i].job.app # a
      BY <2>3, <3>1 DEF CommandTypeOK
    <3> HIDE DEF supervised
    <3> QED BY <2>1, <2>3, <3>2
  <2> QED BY <1>4, <2>2, <2>3 DEF ClaimApps
<1>5. ASSUME NEW t \in Threads, Admit(t) \/ Claim(t)
      PROVE  grants'[a].instance = grants[a].instance
  BY <1>1, <1>5 DEF Admit, Claim, work
<1>6. CASE \/ \E job \in Jobs : Enqueue(job)
           \/ Attach
           \/ Owner
           \/ UNCHANGED vars
  BY <1>1, <1>6 DEF Enqueue, Attach, Owner, SelectAccessMode, BeginAccessTransition,
                    RaiseRevision, Transition, work, vars
<1> QED BY <1>2, <1>3, <1>4, <1>5, <1>6 DEF Next, Serve

(* No report of another instance takes a grant over. *)
THEOREM GrantsKeepTheirInstance == Spec => OneInstancePerGrant
<1>1. CommandTypeOK /\ GrantsInPlace /\ [Next]_vars =>
        [ \A a \in Apps :
            grants[a] # None /\ grants'[a] # None /\ origin'[a] = origin[a]
              /\ grants[a].instance # None
            => grants'[a].instance = grants[a].instance ]_vars
  BY InstanceStays
<1> QED BY <1>1, GrantsInPlaceInit, GrantsInPlaceStep, CommandInvInit, CommandInvStep,
           CommandTypeCorrect, PTL DEF Spec, OneInstancePerGrant
=============================================================================
