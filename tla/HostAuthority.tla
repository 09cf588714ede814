----------------------------- MODULE HostAuthority -----------------------------
(***************************************************************************)
(* Who may act: the hosts of the control plane, the signed requests they   *)
(* send, and the attachments the owner's grant hangs on                    *)
(* (fixture_control_plane.py, fixture_plane.py).                           *)
(*                                                                         *)
(* The server is threaded: each request has its own thread, and the same   *)
(* request may reach the server again while a copy is under way.           *)
(* authenticate reads the host's status and generation without             *)
(* _state_lock, takes the lock only to consume the sequence number, and    *)
(* the handler takes it again.  Between the three anything may happen, so  *)
(* they are three actions, and `threads` holds the frame of each thread.   *)
(*                                                                         *)
(* The kit runs on CPython 3.12, which changes threads only at calls and   *)
(* backward jumps: the reads of status and generation in authenticate are  *)
(* one step, and so is the check and set in prove, though neither holds    *)
(* the lock.                                                               *)
(*                                                                         *)
(* Abstracted: signatures, timestamps and request bodies are valid or the  *)
(* request is refused, which Leave allows at any point, as it allows what  *)
(* the rate limiter refuses; the lease of an attachment (FabricV2).        *)
(***************************************************************************)
EXTENDS Naturals, FiniteSets

CONSTANTS
  Hosts,
  Sessions,      \* the workspaces of the account
  Home,          \* Home[h]: host.session_id
  Threads,       \* the server's request threads
  Requests,      \* the requests that may arrive, any number of times
  None,
  MaxGen         \* bound on a host's generation

VARIABLES
  status,        \* host.status
  gen,           \* host.generation
  consumed,      \* host.consumed: the (generation, sequence) pairs used up
  uses,          \* signed_requests: how often each pair was recorded
  attachments,   \* the attachments, past and present
  accessMode,    \* access_mode: what the owner has granted
  threads        \* the frame of each thread, None when it has no request

authority == <<status, gen, attachments, accessMode>>
vars == <<status, gen, consumed, uses, attachments, accessMode, threads>>

Modes == {"files", "limited", "full"}

Statuses == {"pending_proof", "connected", "disconnected", "revoked"}

(* serial: how many attachments there were when it was made, which tells   *)
(* it from any other of its workspace, as its uuid does.                   *)
Attachment == [serial : Nat, host : Hosts, gen : 1..MaxGen, session : Sessions,
               status : {"active", "disconnected", "revoked"}, mode : Modes]

(* A request as it was signed; prove is not signed with a generation.      *)
(* sessions: the workspaces it asks to attach; hint: the permissions it    *)
(* asks for.                                                               *)
Request == [op : {"prove", "attach", "attach_workspaces", "disconnect", "forget", "other"},
            host : Hosts, gen : Nat, seq : Nat, sessions : SUBSET Sessions, hint : Modes]

Frame == [req : Requests, step : {"arrived", "verified", "admitted"}]

(* The (generation, sequence) pairs a request can be recorded under. *)
Pairs == (0..MaxGen) \X {r.seq : r \in Requests}

ASSUME AuthorityAssumption ==
  /\ Home \in [Hosts -> Sessions]
  /\ Requests \subseteq Request
  /\ \A r \in Requests : /\ IsFiniteSet(r.sessions)
                         /\ r.op = "attach" => r.sessions = {Home[r.host]}
  /\ None \notin Frame
  /\ MaxGen \in Nat \ {0}

-----------------------------------------------------------------------------
(* authenticate. *)

(* The statuses the route of a request admits. *)
Allowed(op) ==
  CASE op = "prove" -> {"pending_proof", "connected", "disconnected"}
    [] op \in {"attach", "attach_workspaces", "forget"} -> {"connected", "disconnected"}
    [] OTHER -> {"connected"}

Arrive(t, r) ==
  /\ threads[t] = None
  /\ threads' = [threads EXCEPT ![t] = [req |-> r, step |-> "arrived"]]
  /\ UNCHANGED <<authority, consumed, uses>>

(* The thread answers without a further effect: a refusal, or an operation *)
(* that changes nothing of this module.                                    *)
Leave(t) ==
  /\ threads[t] # None
  /\ threads' = [threads EXCEPT ![t] = None]
  /\ UNCHANGED <<authority, consumed, uses>>

(* Variant with a fault: the status is not checked. *)
Current_AnyStatus(r) ==
  r.op # "prove" => gen[r.host] >= 1 /\ r.gen = gen[r.host]

(* What is read without the lock. *)
Current(r) ==
  /\ status[r.host] \in Allowed(r.op)
  /\ r.op # "prove" => gen[r.host] >= 1 /\ r.gen = gen[r.host]

Verify(t) ==
  LET r == threads[t].req IN
  /\ threads[t] # None
  /\ threads[t].step = "arrived"
  /\ Current(r)
  /\ threads' = [threads EXCEPT ![t] =
       [req |-> r, step |-> IF r.op = "prove" THEN "admitted" ELSE "verified"]]
  /\ UNCHANGED <<authority, consumed, uses>>

(* Variant with a fault: a pair used up is not refused. *)
Consume_Again(t) ==
  LET r == threads[t].req IN
  /\ threads[t] # None
  /\ threads[t].step = "verified"
  /\ consumed' = [consumed EXCEPT ![r.host] = @ \cup {<<gen[r.host], r.seq>>}]
  /\ uses' = [uses EXCEPT ![r.host] =
       [x \in Pairs |-> IF x = <<gen[r.host], r.seq>> THEN @[x] + 1 ELSE @[x]]]
  /\ threads' = [threads EXCEPT ![t] = [req |-> r, step |-> "admitted"]]
  /\ UNCHANGED authority

(* The pair is that of the host's generation by now, not of the signature. *)
Consume(t) ==
  LET r == threads[t].req IN
  /\ threads[t] # None
  /\ threads[t].step = "verified"
  /\ <<gen[r.host], r.seq>> \notin consumed[r.host]
  /\ consumed' = [consumed EXCEPT ![r.host] = @ \cup {<<gen[r.host], r.seq>>}]
  /\ uses' = [uses EXCEPT ![r.host] =
       [x \in Pairs |-> IF x = <<gen[r.host], r.seq>> THEN @[x] + 1 ELSE @[x]]]
  /\ threads' = [threads EXCEPT ![t] = [req |-> r, step |-> "admitted"]]
  /\ UNCHANGED authority

-----------------------------------------------------------------------------
(* The handlers. *)

(* The thread t runs a handler of one of the operations ops and ends.      *)
Handles(t, ops) ==
  /\ threads[t] # None
  /\ threads[t].step = "admitted"
  /\ threads[t].req.op \in ops
  /\ threads' = [threads EXCEPT ![t] = None]
  /\ UNCHANGED <<consumed, uses>>

(* Variant with a fault: every proof mints a generation. *)
Prove_Again(t) ==
  LET h == threads[t].req.host IN
  /\ Handles(t, {"prove"})
  /\ gen' = [gen EXCEPT ![h] = @ + 1]
  /\ status' = [status EXCEPT ![h] = "connected"]
  /\ UNCHANGED <<attachments, accessMode>>

(* prove: a repeated proof neither mints a generation nor connects. *)
Prove(t) ==
  LET h == threads[t].req.host IN
  /\ Handles(t, {"prove"})
  /\ status[h] = "pending_proof"
  /\ gen' = [gen EXCEPT ![h] = @ + 1]
  /\ status' = [status EXCEPT ![h] = "connected"]
  /\ UNCHANGED <<attachments, accessMode>>

Active(a, h) == a.host = h /\ a.gen = gen[h] /\ a.status = "active"

(* Variant with a fault: the request's own hint is granted. *)
Granted_Hint(r, s) == r.hint

(* What a new attachment is granted: the owner's choice, on the host's own *)
(* workspace.                                                              *)
Granted(r, s) == IF s = Home[r.host] THEN accessMode ELSE "files"

(* The workspaces of r that have no active attachment of the generation. *)
Missing(r) == {s \in r.sessions :
                 ~ \E a \in attachments : Active(a, r.host) /\ a.session = s}

(* attach and attach_workspaces: an active attachment is reused as it is,  *)
(* a missing one is made, and either way the host is connected.            *)
Attach(t) ==
  LET r == threads[t].req
      h == r.host IN
  /\ Handles(t, {"attach", "attach_workspaces"})
  /\ attachments' = attachments \cup
       {[serial |-> Cardinality(attachments), host |-> h, gen |-> gen[h], session |-> s,
         status |-> "active", mode |-> Granted(r, s)] : s \in Missing(r)}
  /\ status' = [status EXCEPT ![h] = "connected"]
  /\ UNCHANGED <<gen, accessMode>>

(* Variant with a fault: the attachments outlive their generation. *)
Ended_None(h, to) == attachments

(* The attachments once those of the host's generation have ended. *)
Ended(h, to) ==
  {IF Active(a, h) THEN [serial |-> a.serial, host |-> h, gen |-> a.gen, session |-> a.session,
                         status |-> to, mode |-> a.mode]
   ELSE a : a \in attachments}

(* _transition: the generation and its attachments end together. *)
Transition(h, to) ==
  /\ gen[h] < MaxGen
  /\ status[h] # "revoked"
  /\ to = "disconnected" => status[h] = "connected"
  /\ attachments' = Ended(h, to)
  /\ status' = [status EXCEPT ![h] = to]
  /\ gen' = [gen EXCEPT ![h] = @ + 1]
  /\ UNCHANGED accessMode

Disconnect(t) ==
  /\ Handles(t, {"disconnect"})
  /\ Transition(threads[t].req.host, "disconnected")

Forget(t) ==
  /\ Handles(t, {"forget"})
  /\ Transition(threads[t].req.host, "revoked")

-----------------------------------------------------------------------------
(* The owner, who calls the fixture's methods directly. *)

Revoke(h) ==
  /\ Transition(h, "revoked")
  /\ UNCHANGED <<consumed, uses, threads>>

(* select_access_mode: also on the attachments that have ended. *)
SelectAccessMode(mode) ==
  /\ mode # accessMode
  /\ accessMode' = mode
  /\ attachments' =
       {IF a.session = Home[a.host]
        THEN [serial |-> a.serial, host |-> a.host, gen |-> a.gen, session |-> a.session,
              status |-> a.status, mode |-> mode]
        ELSE a : a \in attachments}
  /\ UNCHANGED <<status, gen, consumed, uses, threads>>

-----------------------------------------------------------------------------
Init ==
  /\ status = [h \in Hosts |-> "pending_proof"]
  /\ gen = [h \in Hosts |-> 0]
  /\ consumed = [h \in Hosts |-> {}]
  /\ uses = [h \in Hosts |-> [x \in Pairs |-> 0]]
  /\ attachments = {}
  /\ accessMode = "full"
  /\ threads = [t \in Threads |-> None]

Serve(t) ==
  \/ \E r \in Requests : Arrive(t, r)
  \/ Leave(t)
  \/ Verify(t)
  \/ Consume(t)
  \/ Prove(t)
  \/ Attach(t)
  \/ Disconnect(t)
  \/ Forget(t)

Next ==
  \/ \E t \in Threads : Serve(t)
  \/ \E h \in Hosts : Revoke(h)
  \/ \E mode \in Modes : SelectAccessMode(mode)

Spec == Init /\ [][Next]_vars

-----------------------------------------------------------------------------
(* Properties. *)

(* The type of every variable; the bound on gen is kept because only a     *)
(* first proof and _transition make a generation.                          *)
HostTypeOK ==
  /\ status \in [Hosts -> Statuses]
  /\ gen \in [Hosts -> 0..MaxGen]
  /\ consumed \in [Hosts -> SUBSET Pairs]
  /\ uses \in [Hosts -> [Pairs -> Nat]]
  /\ attachments \subseteq Attachment
  /\ IsFiniteSet(attachments)
  /\ accessMode \in Modes
  /\ threads \in [Threads -> Frame \cup {None}]

(* A workspace has one active attachment of a host at most, and it is of   *)
(* the host's generation: no thread, however late, leaves a second one or  *)
(* one that a disconnect or revoke should have ended.                      *)
UniqueActiveAttachment ==
  \A a, b \in attachments :
    a.status = "active" /\ b.status = "active" /\ a.host = b.host /\ a.session = b.session
      => a = b /\ a.gen = gen[a.host]

(* Every attachment of a host's own workspace has the permissions the      *)
(* owner has chosen, whatever hints the host sent; the others never have   *)
(* more than files.                                                        *)
OwnerGrantKept ==
  \A a \in attachments : a.mode = IF a.session = Home[a.host] THEN accessMode ELSE "files"

(* In any generation a sequence number is spent once, however many copies  *)
(* of the request are under way: signed_requests never records a pair of a *)
(* host twice.  The generation is that of the moment: a request caught by  *)
(* a transition spends a number of the next (fixture_control_plane.py:815).*)
NumbersSpentOnce == \A h \in Hosts : \A x \in Pairs : uses[h][x] <= 1

(* The requests of h that have passed the unlocked check. *)
InFlight(h) ==
  {t \in Threads : /\ threads[t] # None
                   /\ threads[t].req.host = h
                   /\ threads[t].req.op # "prove"
                   /\ threads[t].step # "arrived"}

(* Once the last request that was under way has ended, a revoked host is   *)
(* revoked for good: nothing of it is admitted again.                      *)
RevocationSettles ==
  [][ \A h \in Hosts :
        status[h] = "revoked" /\ InFlight(h) = {}
          => status'[h] = "revoked" /\ InFlight(h)' = {} ]_vars

(* A request signed for a generation has no effect once that generation    *)
(* has ended.  The code does not do this: attach and forget act on the     *)
(* generation of the moment.                                               *)
OldGenerationFenced ==
  [][ \A t \in Threads :
        LET r == threads[t].req IN
        threads[t] # None /\ threads'[t] = None /\ r.op # "prove" /\ authority' # authority
          => r.gen = gen[r.host] ]_vars
=============================================================================
