------------------------------- MODULE Commands -------------------------------
(***************************************************************************)
(* The work of a host: the commands the driver enqueues, the claims and    *)
(* completions of the node, and the grants its apps run under              *)
(* (fixture_control_plane.py, fixture_plane.py).                           *)
(*                                                                         *)
(* A request passes authenticate at one moment (Admit) and its handler     *)
(* takes _state_lock at a later one; `threads` holds the requests between  *)
(* the two.  Revocation, the owner's change of the access mode and other   *)
(* requests come in between.  The node is outside the repository: it may   *)
(* answer any command it was ever given, any number of times, with the     *)
(* token of its claim or without one, or never, which is also what it does *)
(* when the answer to its claim is lost.                                   *)
(*                                                                         *)
(* Abstracted: what a command does; the deadline of a grant, which passes  *)
(* at any moment; identifiers of sessions and attachments, since a host    *)
(* has one attachment of its own workspace in a generation                 *)
(* (HostAuthority).  supervise changes nothing and is no action.           *)
(***************************************************************************)
EXTENDS Naturals, Sequences

CONSTANTS
  Jobs,          \* the commands the driver enqueues
  Apps,          \* app_id values
  Instances,     \* instance_id values
  Threads,       \* the server's request threads
  Choices,       \* the access modes the owner selects
  None,          \* Python's None
  MaxCommands,   \* bound on the number of commands
  MaxGen,        \* bound on the host's generation
  MaxEpoch,      \* bound on the changes of the access mode
  MaxItems,      \* the completions of one complete_app_batch: 4 in the code
  MaxBlank       \* bound on the length of a batch with a completion without token

VARIABLES
  status,        \* host.status
  gen,           \* host.generation
  attached,      \* whether the generation has an active attachment
  accessMode,    \* access_mode
  revision,      \* app_access_revision
  selecting,     \* whether select_access_mode has yet to raise the revision
  commands,      \* commands, with their results
  given,         \* the claim documents handed out
  minted,        \* how many claim tokens, each a new uuid, have been drawn
  grants,        \* app_grants
  threads,       \* the admitted request of each thread, None when it has none
  epoch,         \* auxiliary: how often the access mode has changed
  origin         \* auxiliary: the command and the epoch of each grant

host == <<status, gen, attached>>
owner == <<accessMode, revision, selecting, epoch>>
work == <<commands, given, minted, grants, origin>>
vars == <<status, gen, attached, accessMode, revision, selecting, commands, given, minted,
          grants, threads, epoch, origin>>

-----------------------------------------------------------------------------
(* Records. *)

Modes == {"files", "limited", "full"}

Job == [op : {"exec", "register", "unregister", "app_http"}, app : Apps]

Results == {"succeeded", "failed"}

(* The token of a queued command, '', is 0.                                *)
Command == [job : Jobs, status : {"queued", "claimed", "canceled", "completed"},
            token : Nat \cup {None}, result : Results \cup {None}]

(* A claim document; an app command also carries the access revision. *)
Document == [id : Nat \ {0}, token : Nat, gen : 1..MaxGen, revision : Nat]

(* The instance is bound by the first supervision that matches the grant. *)
Grant == [gen : 1..MaxGen, revision : Nat, mode : Modes, live : BOOLEAN,
          instance : Instances \cup {None}]

(* One of the active_apps of a claim. *)
Active == [app : Apps, instance : Instances, gen : 1..MaxGen, revision : Nat]

(* One of the completions of a request; "canceled" counts as a failure.    *)
(* Its token is None when it is null or, in complete, left out.            *)
Item == [id : Nat \ {0}, token : Nat \cup {None}, result : Results]

Request == [op : {"claim", "claim_apps", "complete"}, active : SUBSET Active, items : Seq(Item)]

ASSUME CommandAssumption ==
  /\ Jobs \subseteq Job
  /\ Choices \subseteq Modes
  /\ None \notin Nat
  /\ None \notin Instances
  /\ None \notin Grant
  /\ None \notin Request
  /\ None \notin Results
  /\ MaxCommands \in Nat
  /\ MaxGen \in Nat \ {0}
  /\ MaxEpoch \in Nat
  /\ MaxItems \in Nat \ {0}
  /\ MaxBlank \in Nat

-----------------------------------------------------------------------------
(* The driver and the owner. *)

(* enqueue: one append, without the lock. *)
Enqueue(job) ==
  /\ Len(commands) < MaxCommands
  /\ commands' = Append(commands,
       [job |-> job, status |-> "queued", token |-> 0, result |-> None])
  /\ UNCHANGED <<host, owner, given, minted, grants, origin, threads>>

(* select_access_mode: the mode changes under the lock, the revision of    *)
(* the app grants after it has been released.                              *)
SelectAccessMode(mode) ==
  /\ ~ selecting
  /\ mode # accessMode
  /\ epoch < MaxEpoch
  /\ accessMode' = mode
  /\ epoch' = epoch + 1
  /\ selecting' = TRUE
  /\ UNCHANGED <<host, revision, work, threads>>

(* Variant with a fault: the revision stays. *)
RaiseRevision_Never ==
  /\ selecting
  /\ selecting' = FALSE
  /\ UNCHANGED <<host, accessMode, revision, epoch, work, threads>>

RaiseRevision ==
  /\ selecting
  /\ selecting' = FALSE
  /\ revision' = revision + 1
  /\ UNCHANGED <<host, accessMode, epoch, work, threads>>

(* begin_access_transition: holds the lock around both. *)
BeginAccessTransition(mode) ==
  /\ ~ selecting
  /\ mode # accessMode
  /\ epoch < MaxEpoch
  /\ accessMode' = mode
  /\ epoch' = epoch + 1
  /\ revision' = revision + 1
  /\ UNCHANGED <<host, selecting, work, threads>>

(* attach, however long after its authentication. *)
Attach ==
  /\ status' = "connected"
  /\ attached' = TRUE
  /\ UNCHANGED <<gen, owner, work, threads>>

(* Variants with a fault: the claim token survives; work is queued again.  *)
Canceled_KeepsToken(c) ==
  [job |-> c.job, status |-> "canceled", token |-> c.token, result |-> None]
Canceled_Requeued(c) ==
  [job |-> c.job, status |-> "queued", token |-> 0, result |-> None]

Canceled(c) == [job |-> c.job, status |-> "canceled", token |-> None, result |-> None]

(* Variant with a fault: only the work not yet claimed is canceled.        *)
Open_QueuedOnly(c) == c.status = "queued"

Open(c) == c.status \in {"queued", "claimed"}

(* _transition: disconnect, revoke and forget. *)
Transition(to) ==
  /\ gen < MaxGen
  /\ status # "revoked"
  /\ to = "disconnected" => status = "connected"
  /\ status' = to
  /\ gen' = gen + 1
  /\ attached' = FALSE
  /\ commands' = [i \in DOMAIN commands |->
                    IF Open(commands[i]) THEN Canceled(commands[i]) ELSE commands[i]]
  /\ UNCHANGED <<owner, given, minted, grants, origin, threads>>

(* The deadline of a grant passes. *)
Expire(a) ==
  /\ grants[a] # None
  /\ grants[a].live
  /\ grants' = [grants EXCEPT ![a] =
       [gen |-> grants[a].gen, revision |-> grants[a].revision, mode |-> grants[a].mode,
        live |-> FALSE, instance |-> grants[a].instance]]
  /\ UNCHANGED <<host, owner, commands, given, minted, origin, threads>>

-----------------------------------------------------------------------------
(* The node: its requests, admitted by authenticate. *)

(* What it may report as running: an app registered by a command it has. *)
Reports == {[app |-> commands[d.id].job.app, instance |-> n, gen |-> d.gen, revision |-> d.revision] :
              d \in {e \in given : commands[e.id].job.op = "register"}, n \in Instances}

(* The id of a command, a uuid, is in its claim documents alone. *)
Answers == UNION {[id : {d.id}, token : {d.token, None}, result : Results] : d \in given}

Claims == {[op |-> "claim", active |-> {}, items |-> <<>>]}

(* At most one report of an app, in a request. *)
AppClaims == {[op |-> "claim_apps", active |-> x, items |-> <<>>] :
                x \in {y \in SUBSET Reports : \A p, q \in y : p.app = q.app => p = q}}

(* complete has one completion, complete_app_batch several. *)
Completions == {[op |-> "complete", active |-> {}, items |-> x] :
                  x \in {y \in UNION {[1..n -> Answers] : n \in 1..MaxItems} :
                           \A i, j \in DOMAIN y :
                             /\ y[i].id = y[j].id => i = j
                             /\ y[i].token = None => Len(y) <= MaxBlank}}

Admit(t) ==
  /\ threads[t] = None
  /\ status = "connected"
  /\ \E r \in Claims \cup AppClaims \cup Completions :
       threads' = [threads EXCEPT ![t] = r]
  /\ UNCHANGED <<host, owner, work>>

-----------------------------------------------------------------------------
(* claim, claim_apps. *)

AppLane(c) == c.job.op # "exec"

(* Variant with a fault: the newest command first. *)
NextInLane_Newest(i, apps) ==
  /\ commands[i].status = "queued"
  /\ AppLane(commands[i]) = apps
  /\ \A k \in DOMAIN commands :
       k > i => ~ (commands[k].status = "queued" /\ AppLane(commands[k]) = apps)

(* Variant with a fault: a claim that was not answered is handed out again. *)
NextInLane_Again(i, apps) ==
  /\ Open(commands[i])
  /\ AppLane(commands[i]) = apps
  /\ \A k \in DOMAIN commands :
       k < i => ~ (Open(commands[k]) /\ AppLane(commands[k]) = apps)

(* The first queued command of a lane. *)
NextInLane(i, apps) ==
  /\ commands[i].status = "queued"
  /\ AppLane(commands[i]) = apps
  /\ \A k \in DOMAIN commands :
       k < i => ~ (commands[k].status = "queued" /\ AppLane(commands[k]) = apps)

(* Command i is claimed under a new token. *)
Claimed(i) ==
  /\ minted' = minted + 1
  /\ commands' = [commands EXCEPT ![i] =
       [job |-> commands[i].job, status |-> "claimed", token |-> minted', result |-> None]]

(* The document of the claim: every claim has one of its own.              *)
Gives(i, rev) ==
  given' = given \cup {[id |-> i, token |-> minted', gen |-> gen, revision |-> rev]}

Ends(t) == threads' = [threads EXCEPT ![t] = None]

Handles(t, op) == threads[t] # None /\ threads[t].op = op

Claim(t) ==
  /\ Handles(t, "claim")
  /\ Ends(t)
  /\ IF \E i \in DOMAIN commands : NextInLane(i, FALSE)
     THEN \E i \in DOMAIN commands : /\ NextInLane(i, FALSE)
                                     /\ Claimed(i)
                                     /\ Gives(i, 0)
     ELSE UNCHANGED <<commands, given, minted>>
  /\ UNCHANGED <<host, owner, grants, origin>>

Allowed == status = "connected" /\ attached /\ accessMode \in {"full", "limited"}

(* The grant of app a holds: `exact`, as far as it is the grant's. *)
Granted(a) ==
  /\ Allowed
  /\ grants[a] # None
  /\ grants[a].live
  /\ grants[a].mode = accessMode
  /\ grants[a].gen = gen
  /\ grants[a].revision = revision

(* Variant with a fault: the last instance reported is the one that runs.  *)
Binds_Latest(x) == Granted(x.app) /\ x.gen = gen /\ x.revision = revision

(* The report x binds the instance of its grant. *)
Binds(x) ==
  /\ Granted(x.app)
  /\ x.gen = gen
  /\ x.revision = revision
  /\ grants[x.app].instance = None

(* The grants after the reports of a request: the supervision. *)
Supervised(active) ==
  [a \in Apps |->
     IF \E x \in active : x.app = a /\ Binds(x)
     THEN LET x == CHOOSE y \in active : y.app = a /\ Binds(y) IN
          [gen |-> grants[a].gen, revision |-> grants[a].revision, mode |-> grants[a].mode,
           live |-> grants[a].live, instance |-> x.instance]
     ELSE grants[a]]

NewGrant == [gen |-> gen, revision |-> revision, mode |-> accessMode, live |-> TRUE,
             instance |-> None]

(* claim_apps: supervises the apps reported, then claims one command; the  *)
(* claim of a registration grants its app.                                 *)
ClaimApps(t) ==
  LET supervised == Supervised(threads[t].active) IN
  /\ Handles(t, "claim_apps")
  /\ Ends(t)
  /\ IF Allowed /\ \E i \in DOMAIN commands : NextInLane(i, TRUE)
     THEN \E i \in DOMAIN commands :
            LET job == commands[i].job IN
            /\ NextInLane(i, TRUE)
            /\ Claimed(i)
            /\ Gives(i, revision)
            /\ IF job.op = "register"
               THEN /\ grants' = [supervised EXCEPT ![job.app] = NewGrant]
                    /\ origin' = [origin EXCEPT ![job.app] = [by |-> i, epoch |-> epoch]]
               ELSE grants' = supervised /\ origin' = origin
     ELSE grants' = supervised /\ UNCHANGED <<commands, given, minted, origin>>
  /\ UNCHANGED <<host, owner>>

-----------------------------------------------------------------------------
(* complete, complete_app_batch: one completion at a time, each under the  *)
(* lock, none keeping the others from being tried.                         *)

(* Variant with a fault: a failed registration keeps its grant. *)
EndsGrant_Unregister(job, result) == job.op = "unregister" /\ result = "succeeded"

(* The result of a job ends the grant of its app. *)
EndsGrant(job, result) ==
  \/ job.op = "unregister" /\ result = "succeeded"
  \/ job.op = "register" /\ result # "succeeded"

(* The tokens are compared as they are, so that the missing token of a     *)
(* completion is that of a canceled command.                               *)
Accepted(x) == commands[x.id].status # "completed" /\ commands[x.id].token = x.token

(* Variant with a fault: the request goes on after its last completion.    *)
Rest_Always(r) == [op |-> r.op, active |-> r.active, items |-> Tail(r.items)]

(* The request after its first completion. *)
Rest(r) ==
  IF Len(r.items) = 1 THEN None
  ELSE [op |-> r.op, active |-> r.active, items |-> Tail(r.items)]

Complete(t) ==
  LET r == threads[t]
      x == Head(r.items)
      job == commands[x.id].job IN
  /\ Handles(t, "complete")
  /\ threads' = [threads EXCEPT ![t] = Rest(r)]
  /\ IF Accepted(x)
     THEN /\ commands' = [commands EXCEPT ![x.id] =
               [job |-> job, status |-> "completed", token |-> x.token, result |-> x.result]]
          /\ grants' = IF EndsGrant(job, x.result) THEN [grants EXCEPT ![job.app] = None]
                       ELSE grants
     ELSE UNCHANGED <<commands, grants>>
  /\ UNCHANGED <<host, owner, given, minted, origin>>

-----------------------------------------------------------------------------
Init ==
  /\ status = "connected"
  /\ gen = 1
  /\ attached = FALSE
  /\ accessMode = "full"
  /\ revision = 1
  /\ selecting = FALSE
  /\ commands = <<>>
  /\ given = {}
  /\ minted = 0
  /\ grants = [a \in Apps |-> None]
  /\ threads = [t \in Threads |-> None]
  /\ epoch = 0
  /\ origin = [a \in Apps |-> [by |-> 0, epoch |-> 0]]

Serve(t) ==
  \/ Admit(t)
  \/ Claim(t)
  \/ ClaimApps(t)
  \/ Complete(t)

Owner ==
  \/ \E mode \in Choices : SelectAccessMode(mode) \/ BeginAccessTransition(mode)
  \/ RaiseRevision
  \/ \E to \in {"disconnected", "revoked"} : Transition(to)

Next ==
  \/ \E job \in Jobs : Enqueue(job)
  \/ Owner
  \/ Attach
  \/ \E a \in Apps : Expire(a)
  \/ \E t \in Threads : Serve(t)

Spec == Init /\ [][Next]_vars

-----------------------------------------------------------------------------
(* Properties. *)

(* The type of every variable; a document is about a command that exists. *)
CommandTypeOK ==
  /\ status \in {"connected", "disconnected", "revoked"}
  /\ gen \in 1..MaxGen
  /\ attached \in BOOLEAN
  /\ accessMode \in Modes
  /\ revision \in Nat
  /\ selecting \in BOOLEAN
  /\ commands \in Seq(Command)
  /\ given \subseteq Document
  /\ minted \in Nat
  /\ \A d \in given : d.id \in DOMAIN commands /\ d.token <= minted
  /\ grants \in [Apps -> Grant \cup {None}]
  /\ threads \in [Threads -> Request \cup {None}]
  /\ \A t \in Threads : threads[t] # None =>
       /\ \A i \in DOMAIN threads[t].items : threads[t].items[i].id \in DOMAIN commands
       /\ threads[t].op = "complete" => threads[t].items # <<>>
  /\ epoch \in Nat
  /\ origin \in [Apps -> [by : Nat, epoch : Nat]]

(* There is one claim document of a command, under one token: no           *)
(* disconnect, no retry after a lost answer and no second thread makes the *)
(* node run it again.                                                      *)
HandedOutOnce == \A d, e \in given : d.id = e.id => d = e

(* A claim that is open is of the host's generation, however late the      *)
(* request that made it, so no completion is accepted across a reconnect.  *)
ClaimsOfThisGeneration ==
  \A d \in given : commands[d.id].status = "claimed" => d.gen = gen

(* The commands of a lane are handed out in the order of enqueue, and none *)
(* leaves the queue for another reason while an older one is still in it.  *)
OldestFirst ==
  \A i, j \in DOMAIN commands :
    /\ i < j
    /\ AppLane(commands[i]) = AppLane(commands[j])
    /\ commands[j].status # "queued"
    => commands[i].status # "queued"

(* No app goes on under a grant the owner has withdrawn: a grant that      *)
(* holds was made since the access mode last changed, although the mode    *)
(* may be the same again and the revision follows the mode late.           *)
WithdrawnGrantsStop == \A a \in Apps : Granted(a) => origin[a].epoch = epoch

(* No app goes on after its registration has failed or been canceled. *)
GrantsAreBacked ==
  \A a \in Apps : Granted(a) =>
    LET c == commands[origin[a].by] IN
    \/ c.status = "claimed"
    \/ c.status = "completed" /\ c.result = "succeeded"

(* Thread t has a completion of command i next that has no token.          *)
Tokenless(t, i) ==
  /\ Handles(t, "complete")
  /\ Head(threads[t].items).id = i
  /\ Head(threads[t].items).token = None

(* A command's end is final: nothing completes a command twice, and no     *)
(* claim document, however late, completes a canceled one.  A completion   *)
(* without a token does (fixture_control_plane.py:1554): its None is the   *)
(* None that _transition leaves (fixture_plane.py:111).                    *)
AnswersAreFinal ==
  [][ \A i \in DOMAIN commands : commands'[i] # commands[i] =>
        /\ commands[i].status # "completed"
        /\ commands[i].status = "canceled" =>
             \E t \in Threads : Tokenless(t, i) /\ threads'[t] # threads[t] ]_vars

(* A grant is for one instance of the app: while it lasts, no report of    *)
(* another instance takes it over.                                         *)
OneInstancePerGrant ==
  [][ \A a \in Apps :
        grants[a] # None /\ grants'[a] # None /\ origin'[a] = origin[a]
          /\ grants[a].instance # None
        => grants'[a].instance = grants[a].instance ]_vars
=============================================================================
