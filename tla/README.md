# Verification of the Meshia Node acceptance fixture

This directory holds TLA+ models of the Meshia Node macOS acceptance kit, the
TLC configurations that check them on small instances, and theorems about them
that TLAPS proves for every value of the constants. `PROJECT.json` lists the
runs, the theorems, the hazards they are aimed at, and for every definition the
lines of the source it stands for.

- [1. The system](#1-the-system): its parts, their state and operations
- [2. The modules](#2-the-modules): how each model corresponds to the code
- [3. The runs](#3-the-runs): what is checked, on which instances
- [4. The proofs](#4-the-proofs): what is proved, from what, along which argument
- [5. Findings](#5-findings)
- [6. Plan](#6-plan) and [7. Not modelled](#7-not-modelled)

## 1. The system

The kit installs a released Meshia Node on a fresh macOS account and drives it
against a *fake control plane*: a threaded HTTP server on the loopback address
that keeps the state of a real account and checks every signed request. What the
acceptance concludes about the node is only worth something if the fixture
itself keeps its promises, so those promises are what is modelled.

The server is a class stack. `FakeControlPlane` (fixture_control_plane.py) has
the routes, hosts, commands, workspaces and the legacy fabric;
`NativeAcceptancePlane` (fixture_plane.py) the access modes and generations of
macOS hosts; `FabricV2Fixture` (fixture_v2.py) the v2 namespace;
`AcceptancePlane` joins the last two and adds apps; `AccessTransitionPlane` adds
a fault that is injected on purpose. `ThreadingHTTPServer` gives every request a
thread of its own. One re-entrant lock, `_state_lock`, protects the state, but
not all of the checks: `authenticate` reads the status and generation of a host
without it, `enroll` and `prove` do not take it at all.

| part | state | operations | what makes it hard | what makes it correct |
|---|---|---|---|---|
| v2 namespace (fixture_v2.py) | `v2_entries`, `v2_journal`, `v2_receipts`, `fabric_cas`, the legacy copy `fabric_files` | `fabric_v2_commit`, `seed_cold_file`, `seed_canonical_raw_file` | a batch may fail half way; retries; writers that race on versions; two copies of one namespace | the journal explains the namespace; no update is lost; retries do nothing; announced bytes are stored |
| v2 readers | the client's position and copy | `fabric_v2_snapshot`, `fabric_v2_changes`, `fabric_v2_lookup` | pages of a snapshot are of different moments; page and slice boundaries | a client that has caught up has the namespace; it does catch up |
| hosts and attachments (fixture_control_plane.py, fixture_plane.py) | status, generation and consumed numbers of each host, attachments, the owner's access mode | `enroll`, `prove`, `attach`, `attach_workspaces`, `disconnect`, `forget`, `revoke`, `select_access_mode` | checks made before the lock and used after it; copies of one request; revocation during a request | one active attachment per workspace, of the current generation; the owner's grant; numbers spent once; a revoked host stays so |
| file holds, block tickets | holds with leases, direct transfer tickets, verification operations | `_file_hold`, `_tree_verify`, `fabric_blocks`, `fabric_direct_put/get` | leases, tickets that outlive the attachment, operations at their limit | a ticket ends before what it was granted under; nobody's proof counts for another; the limit is never for good |
| legacy fabric | manifests, files, tombstones, the log of changes, mutation receipts | `fabric_mutate`, `fabric_publish`, `fabric_changes`, `fabric_manifest`, `fabric_read` | retries over a reconnect, v2 writers that bypass the manifest, reads that take several requests | a mutation is applied once; a client holds one manifest, not a mixture; it catches up |
| commands and apps | `commands`, `completed`, claims, app grants, `app_access_revision` | `claim`, `supervise`, `complete`, `claim_apps`, `complete_app_batch` | claims that a transition cancels; late completions; a revision bumped outside the lock | one completion per claim; no grant under a withdrawn mode |
| workspaces | names and revisions | `workspace_catalog`, `workspace`, `workspace_rename`, `heartbeat_workspaces` | compare and set outside the lock | no rename is lost |
| access transition | one delayed heartbeat | `begin_access_transition`, `_heartbeat_snapshot`, `release`, `stop` | a deadline of 45 s races with the release; heartbeats under way on either side | the reservation comes first; the waits are long enough; the hold ends |
| acceptance run (acceptance.py, app_acceptance.py, native_delta_acceptance.py) | the phase, evidence, what is installed | `acceptance`, `cleanup`, the exercises | failure at any phase, an alarm at any point | cleanup removes what the run made, and only that |
| installer (release/install-1.3.30.sh) | runtimes, the service, an account cutover on disk | `switch_to_candidate`, `rollback_transaction`, recovery | killed between two steps | the next run finishes or undoes the cutover |

How they interact: the node proves its identity, attaches and receives an
attachment; every fabric request names the attachment and is refused unless it
is live and of the host's generation. The owner, in the person of the driver,
calls `select_access_mode`, `revoke` and the seeding methods directly, from
another thread. The driver waits for the node's reports: for the head of its
namespace mirror to reach the number of a seeded entry (acceptance.py:775), for
a completion, for an attachment to appear.

## 2. The modules

    ChangeFeed              what the v2 namespace promises        (abstract)
      ^ implemented by            ^ extended by
    FabricV2                    V2Sync
    the commit handler,         the paging handlers and a client
    seeds, the host's fence       ^ implemented by
      ^ extended by               |
    FabricMirror ----------------'
    the fabric and its client together
    HostAuthority               threads, authentication, attachments
    Commands                    claims, completions, app grants
    AccessTransition            the delayed report, its driver, the clock

    UploadFence             what verification operations promise  (abstract)
      ^ implemented by            ^ its operator used by
    BlockTransfer               LegacyFabric
    leases, tickets, holds,     manifests, changes, mutations,
    the clock                   a client of them
    AcceptanceRun               the job and its cleanup

`X_proofs` holds the theorems about `X` (`FabricV2_proofs` also those about
`FabricMirror`; `Harness_proofs` those about `AccessTransition` and `AcceptanceRun`),
`MCX` the values TLC checks `X` with.
Operators named `X_Something` that a comment calls a *variant with a fault* are
what a plausible mistake in the code would make of `X`; no specification uses
them. They show that a property notices such a mistake.

### ChangeFeed

A namespace and a journal that change together, one self-contained record at a
time. `Permitted` is the compare-and-set a record claims to have passed;
`Applied` is the namespace after it. Two properties say what that buys a reader:
every entry is the last word of the journal on its path (`NamespaceIsJournal`),
and the predecessor a record names is what the records before it had left
(`NoLostUpdate`).

### FabricV2

`fabric_v2_commit` from its authority check to its receipt, the two seeding
methods and the direct upload a commit's blocks come from. The handler holds
`_state_lock` throughout, but it can leave in the middle of its loop, by a
`Rejected` or a `KeyError`, so the loop is one action per operation and `work` is
the frame of the handler:

| actions | code |
|---|---|
| `CommitStagesOnly`, `CommitBegin` | authority, replay, normalisation, inline blocks stored, then the verification of the batch: refused, or the loop begins |
| `RejectOp` | a predecessor that does not hold: a verdict for this operation alone |
| `ApplyPut`, `ApplyDelete`, `ApplyRename` | the change of `v2_entries` and `fabric_files`, the record, the verdict |
| `DeleteUnsupported`, `RenameFault` | the two ways out of the middle of the loop |
| `CommitFinish` | the receipt |
| `Seed`, `Upload` | seeding; the bytes of one version arrive |
| `LegacyPut`, `LegacyDelete`, `LegacyRename`, `LegacyPublish` | `fabric_mutate` and `fabric_publish`, as far as they write `fabric_files` |
| `Attach`, `LeaseLapses`, `Heartbeat`, `Transition` | the host and its attachment as a commit sees them |

A file version stands for its digest, size and block list; *sparse* versions are
those larger than the bytes stored for them and than 4 MiB, which `seed_cold_file`
makes and keeps out of the legacy namespace. A commit of one is refused for its size
(fixture_v2.py:561); a smaller file with holes is stored with its zeros once it is
committed, and is a whole version here. A refused or replayed request changes nothing
and has no action.

The legacy requests run on the same plane, ask for a live attachment alone and change
`fabric_files` without `v2_entries`. Their expectations, receipts and manifests are
the subject of `LegacyFabric`; here a client may always send one that is accepted.
`strayed` is auxiliary: the paths whose legacy bytes such a request wrote last, which
are of two versions until a v2 handler writes them again. The record of a rename
carries the digest of the v2 entry and the block list of the legacy bytes
(fixture_v2.py:637, 654), so `blocks` is a field of its own. `author` is auxiliary too:
the request behind each record.

### V2Sync

Extends the feed, which the commits of `FabricV2` implement, with the two paging
handlers and a client of them. `SnapshotPage` returns the entries after the
cursor *as they are now* and, only for a full page, a `next_after`;
`FetchChanges` a slice of the journal and `next_since_seq`. The client is the
released node, a binary outside the repository, so what it does with the answers
is external: it pages to the end, starts the journal at the `last_seq` of its
*first* page, applies records in order, and may start again with nothing.

### FabricMirror

`FabricV2` with a client of it on one of its hosts: the actions of the client are those
of `V2Sync`, over the namespace of `FabricV2` itself, and a page or a slice is served
only when no commit holds the lock (`LockFree`) and the attachment of the client's host
is live (`Served`, for `_v2_authority`). What the client has is related here to
what others were *told*: `ReachedIsSeen` says that a client in `following` at or past the
`entry_seq` of a seed, or of an applied verdict in a receipt, shows at every path of
that operation what it said, unless a later record has touched the path (`Overtaken`),
and never a version from before it. That is what the driver concludes from the waits
for the head at acceptance.py:775, 808, 826 and 854 before it reads the mounted files.

### HostAuthority

One action for each piece of a request that runs without interruption: `Arrive`
(a thread takes a copy of a request, any number of times), `Verify` (status and
generation, read without the lock), `Consume` (the sequence number, under the
lock), then the handler, which takes the lock again: `Prove`, `Attach` (for
`attach` and `attach_workspaces`), `Disconnect`, `Forget`. `Leave` is any answer
without effect. The owner's `Revoke` and `SelectAccessMode` come in between.
`prove` takes no lock in the code. Its check of the status and the assignments
that follow (fixture_control_plane.py:957-963) are one action because the kit runs
on CPython 3.12 (.github/workflows/macos-acceptance.yml:42), whose interpreter
changes threads only at calls and backward jumps, and there are none between them;
the same holds for the two reads in `Verify` (787-792).

### Commands

The work of one host. `Enqueue` is the driver's; `Admit` is a request that has
passed `authenticate`, and `Claim`, `ClaimApps` and `Complete` are the handlers that
take the lock at a later moment, one completion of a batch at a time. In between,
`Transition` cancels what is open, `Attach` connects the host again, and the owner
changes the access mode: under one hold of the lock (`BeginAccessTransition`) or,
as `AcceptancePlane.select_access_mode` does, with the revision of the grants raised
after the lock has been released (`SelectAccessMode`, `RaiseRevision`).

Each claim draws a new token (`minted` counts them), so a command that is given out
twice has two documents in `given`. `complete` compares the token of a completion as
it is, whatever its type (fixture_control_plane.py:1554): one without a token, or with
`null`, is `None`, and so is the token of a canceled command (fixture_plane.py:111).
The empty token of a queued command is never matched: the id of a command, a uuid, is
told in its claim documents alone, and a claimed command does not return to the queue.

The node is external: it reports any instance of any app it was told to register,
and answers any command it was ever given, with the token or without, again, late or
never, which is also what the server sees when an answer to a claim is lost. A grant names the generation,
the revision and the mode it was made under; `Granted` compares them as
`claim_apps` does. `origin` and `epoch` are auxiliary: the claim a grant came from
and how often the mode had changed by then.

### AccessTransition

`exercise_access_transition` changes the mode while the heartbeats still report the
one before. Its driver is one action per wait or step, with the time left of the
wait; `Expired` is the alarm, which may strike anywhere. A heartbeat is three steps:
its answer is computed under one hold of the lock (`Report`), passes
`_heartbeat_snapshot` under another (`Snapshot`, `SnapshotExpired`), then reaches
the node (`Adopt`). Time is in ticks. The node is external and known by its cadence
alone: it starts a heartbeat within `timing.interval` of the one before, and has its answer
within `timing.latency`. No tick passes while the driver has something to do.

### UploadFence and BlockTransfer

A mutation uploads its blocks first: `write_batch` names them and hands out a
ticket for each, the bytes arrive by a direct PUT, `verify` proves that they are
there, and the mutation uses the proof up. `UploadFence` says what the table of
verification operations is for: the uploads of a mutation belong to one authority
(a host in a generation) until they are used up or expire, and whatever counts as
proved was proved by that authority.

`BlockTransfer` is the machinery that keeps it, with the clock. Deadlines are times
left. `WriteBatch`, `VerifyBatch`, `ReadBatch`, `ReadHeld` and `TargetRefused` are
`fabric_blocks` by its `operation`; `Target` is
`_target_verification_blocks_locked`, which prunes the expired operations even when
it then refuses; `DirectPut` is `fabric_direct_put`, which asks for the ticket only,
not for the attachment. `Commit` and `Mutate` are the two mutations as far as they
use operations up: `fabric_v2_commit` checks whose they are, `fabric_mutate` does
not. `Acquire`, `RenewHold` and `Release` are `_file_hold`. An operation that is
discarded by a mutation, expired or pruned is absent in the abstraction.

### LegacyFabric

The older namespace: numbered manifests, the changes between them, mutations with
receipts. `history` is `fabric_change_history` with the snapshots the code keeps
beside it. The v2 handlers write `fabric_files` too, without a new manifest:
`Elsewhere`. So the current files may differ from the last manifest's, under the
same number, and a change need not lead on from the one before it; `fabric_changes`
compares digests for that reason (`Leads`, `HeadChanged`).

The client is the node. It reads the manifest page by page (`ManifestPage`,
`PageRefused`), reads ranges (`ReadRange`), follows changes (`FollowChanges`,
`FullRefresh`), and composes each mutation from what it has read at that time; it
may then send it at any later moment, again and again, under any generation. An
answer with several changes is as many answers with one. `Fresh`, `BaseKnown`,
`Matches`, `Portable` and `Proven` are the refusals of `fabric_mutate`, in its
order. The proofs are those of `UploadFence`, whose actions are used by name, with
an operation that may end at any time. `proved` is auxiliary.

A replay is answered only to the generation that made the mutation
(fixture_control_plane.py:2773). A client that has reconnected gets
`FABRIC_MUTATION_IDEMPOTENCY_CONFLICT` instead and has to ask
`fabric_mutation_status`; the comment at 2758-2762 is about the digest of the
request only.

### AcceptanceRun

The job of `.github/workflows/macos-acceptance.yml`: `acceptance.py run`, then
`acceptance.py cleanup` in a process of its own, which always runs. `home` is what
the account holds: the CLI, the service definition, the registered and the running
service, the mount, the canary, processes. Each statement of `acceptance` and
`cleanup` that changes or observes it is an action. `Fail` is any exception in the
`try` clause, the alarm and `SIGTERM` included; `Raise` is one in `cleanup`;
`Killed` is the end of the process anywhere else: by the runner, or by a signal that
strikes after `finally` has begun and before its inner `try`, where nothing catches
it and the run ends without any cleanup. The always-run step is what is left then.

The installer, the node and `service stop` and `uninstall` are external and believed
as little as the code believes them. An installer that is ended in the midst of its
rollback leaves any part of an installation, the service without its CLI included;
a service command may fail or succeed and leave anything behind, only that a service
which has been stopped does not start by itself.
Assumed: `run` has ended its process group before the process can be killed, since
the alarm (10 minutes) comes before the runner's limit (12).

## 3. The runs

| run | what it shows | instance |
|---|---|---|
| `fabric` | `TypeOK`, `ContentStored`, `LegacyServesVersion`, `GenerationFence`: commits against seeds, uploads, legacy writers of the same files, re-attachment, lapsed leases and revocation, sparse sources and renames that find no legacy bytes included | paths a, a/b and b, two versions and a sparse one, every well-formed batch of one or two of ten operations, a legacy request of each kind, one mutation identity, two generations, three records |
| `sync` | `MirrorConverges`, `MirrorIsPastState`, `HeadReached`, `SyncTypeOK` | pages of one entry, responses of two records, four records, one restart |
| `mirror` | `NamespaceIsJournal`, `NoLostUpdate`, `ReceiptsNameRecords`, `ReplayWritesNothing`, `ReachedIsSeen`, `ImplementsSync`: the fabric with its client | paths a, a/b and b, two versions, every well-formed batch of one or two of six operations (put, replace, delete, rename, move), one seed, a legacy put, two mutation identities, one generation whose lease lapses and is renewed, four records, pages of two entries, responses of two records, one restart |
| `authority` | `HostTypeOK`, `UniqueActiveAttachment`, `OwnerGrantKept`, `NumbersSpentOnce`, `RevocationSettles` | two threads, one host, six requests of its first two generations, three generations, two workspaces |
| `commands` | `CommandTypeOK`, `HandedOutOnce`, `ClaimsOfThisGeneration`, `OldestFirst`, `AnswersAreFinal`, `WithdrawnGrantsStop`, `GrantsAreBacked`, `OneInstancePerGrant` | two threads, two commands of either lane (tasks, registrations of one app), batches of up to two completions, those without a token in a request of their own, two instances, two changes between the two modes with tasks, two generations |
| `transition` | `ReservedUnderPriorMode`, `AllowancesSuffice`, `HoldIsReleased` | ticks of five seconds, under three timings: the kit's own (interval 6, latency 1, limits 7, 8 and 9), a node too slow for them (9 and 2), so that every wait can time out, and a driver that waits for longer (10) than the hold lasts |
| `legacy` | `LegacyTypeOK`, `ViewIsManifest`, `AppliedOnce`, `ProvenContent`, `CatchesUp` | two paths that clash, two files that share a block, one mutation, two generations, three manifests, two writes that bypass them |
| `blocks` | `TransferTypeOK`, `TicketsAreCovered`, `FenceOpens`, `ImplementsFence` | one host with two generations, two mutations and one operation at a time, two blocks, one hold, one live ticket; a lease of three ticks, operations of two |
| `acceptance` | `CleanupIsHonest` | two processes, an empty account or one with an installation, with or without the marker of another run |
| `fabric_partial`, `fabric_fault`, `authority_fence` | findings (section 5): TLC is expected to find the violation | `fabric_fault`: paths a, a/b and b with a sparse source at a, two mutation identities; the others as `fabric` and `authority` |

**Why the bounds are enough.** Three paths have everything the handlers compare:
a path, one inside it and one apart; two versions tell a held predecessor from a
stale one. Two operations per batch are what it takes to fail after a success.
Three records are a full batch and a change before or after it; a legacy request of
each kind meets every v2 operation of path a and the renames to and from b. In `sync`, pages
of one entry put a boundary between any two paths, and two records of four give
full, partial and empty slices. In `mirror`, four records are a version the client has read, the one
that replaces it, one that overtakes that and the seed; it has one generation, `fabric`
has two. In `authority`, two threads are two copies of one
request, or one request and the one that overtakes it; the third party is the
owner. Three generations let a request of the first find the host in the second
and again in the third. In `commands`, two commands are two of one lane
or one of each; the owner selects between `full` and `limited`, as the harness does
(acceptance.py:519, 897); a completion without a token comes alone, as every completion
of a batch takes the lock by itself; a batch of two is cut in the middle by a transition; two registrations
of one app let the second replace the grant of the first. Removals of an app and longer
lanes are left to the proofs, which have all eight properties; two changes
of the mode are what it takes to come back to the mode of an old grant. In `transition`
five seconds divide all of the kit's limits (35, 40 and 45 s, a cadence of 30 s); the
number of transitions is unbounded. In `legacy`, three manifests are a base, a change
that leads on from it and one that does not; two writes that bypass them change the
files between two manifests and after the last. One mutation is enough because
mutations meet only in the files, which publications and the other writers change as
well; it is sent under both generations. In `blocks`, a tick is half a minute: a lease
of 3 with a margin of 1 leaves tickets of 1 or 2, and operations that last 2 end before
or after the tickets. Two mutations and one operation are the limit and one more.
Tickets are independent of each other, so that one live ticket is as good as many. The limit of
8,192 blocks is out of reach of batches of two. In `acceptance`, one process
can be remembered and another not. The threads are
interchangeable, so their permutations are a symmetry, as are those of the
instances; no run with symmetry has a liveness property. `MaxGen`, `MaxJournal`,
`MaxRestarts`, `MaxCommands`, `MaxItems`, `MaxBlank`, `MaxEpoch`, `MaxManifest`, `MaxElsewhere` and `MaxTickets` bound the counters in the guards of the actions that raise them;
nothing else is bounded.

**Deadlock** is checked in all runs but two: in `sync` the bounded journal ends and a
client that has caught up has nothing left to do, and `acceptance` ends with the job.

**Fairness.** `FairSync` and the `FairSpec`s of `AccessTransition`, `LegacyFabric` and
`BlockTransfer` have some.
`FairSync` has weak fairness of the client's pages, and of
its fetching and applying. The node polls as long as it runs, every handler
answers, and neither action waits for anything the client cannot bring about.
Commits and restarts are never owed. `HeadReached` is then what the driver's
45-second waits rely on: the position of the client reaches every number the
journal has reached, although commits and a restart intervene.
`FairSpec` has weak fairness of the driver's own steps (a wait that times out,
the release, the adoption it sees, the `finally` clause), of the clock, and of the
node's heartbeat, which is a loop that ends only with the node. The reservation, the
end of the app exercise and the alarm are not owed: the time limits have to end the
transition without them. `HoldIsReleased` is checked under it.
The `FairSpec` of `LegacyFabric` has weak fairness of the client's reads alone: its
loop asks for changes, or for pages when it has no manifest, as long as the node runs.
Mutations, publications, attachments and bypassing writes are not owed; `CatchesUp`
asks for a lasting attachment, since without one every read is refused. That of
`BlockTransfer` has weak fairness of the clock and nothing else: `FenceOpens` says that
time alone opens the fence, however often the clients that hold it repeat their
requests.

## 4. The proofs

The prover needs only the named assumptions of each module: the null value is no
path, version or record, the request sets hold well-formed requests, the bounds
are numbers. Hosts, paths, versions, batches, threads and requests may be any sets.

**FabricV2** (`FabricV2_proofs`). `TypeCorrect` is inductive by itself, given the
well-formedness of the batches.
`FabricImplementsFeed` maps each step of the handler: an applied operation is one
`Publish` of the feed, everything else a stutter. It needs two things about
states. `RoomLeft`: a commit admitted under the bound on the journal still has
room. And `CleanRenames`, an assumption of the theorem: the operations that
clients send rename whole files whose legacy bytes no legacy request takes away, and
name no kind but a file's. Without it the theorem is false: such a rename fails after
its entry has moved, which is the finding of `fabric_fault`. Under it `RenamesFindBytes`
is invariant, so that no rename fails there. Legacy requests are stutters of the feed. `SnapshotIsJournal` and
`CommitsLoseNoUpdate` then follow from the same facts about the feed.
`OnlyCurrentGenerationWrites` and `AnsweredRequestsAreReplayed` need `WorkFenced`:
the host and the receipts are as the commit under way found them, because every
other action waits for the lock. `ReceiptsAreTrue` needs `VerdictsSoFar`, the same
statement for the verdicts not yet in a receipt. `ContentIsStored` and `LegacyIsV2`
need `StorageInv`: legacy bytes are stored, and the batch under way has only whole,
stored versions. `LegacyIsV2` asks nothing of the renames and nothing of the legacy
requests: it speaks of the paths that the v2 handlers wrote last.

**FabricMirror** (`FabricV2_proofs`). `MirrorImplementsSync`: a step of the fabric is a
commit of `V2Sync` or nothing to it, by `FabricImplementsFeed`, and so with its
assumption `CleanRenames`; a step of the client is the same step. Everything proved of
`V2Sync` then holds of the client of the code (`SyncFacts` is that instance of its
theorems, `SameSync` that the two instances of the module say the same). `ReachedIsWhatIsShown` joins
three results: the receipt names a record which says what the operation said
(`ReceiptsAreTrue`), a record of no request is a seed's (`SeedsWrite`), and a client at a
record has no path of an earlier moment (`ReachedIsShown`).

**ChangeFeed** (`ChangeFeed_proofs`). Both properties, for every journal length.
`LeftAt` is stable under appending a record that does not touch the path.

**V2Sync** (`V2Sync_proofs`). `ClientsConverge`. The invariant (`SyncInv`) says
that a response is the piece of the journal right after what is applied
(`PendingIsJournal`) and that, on paths the snapshot has covered, the copy differs
from the namespace only where a record still to be applied says so
(`OnlyTheRestDiffers`). The second is why starting the journal at the *first*
page is right although the pages are of different moments. For
`MirrorsAreOfThePast` (`MirrorIsPastState`: a mirror past the horizon of its snapshot
*is* the namespace as of its position) the last fact is too weak: it compares with the
namespace of today. `EachPathIsOfAMoment` says instead that every path of the copy is
as it was after some number of records, no fewer than the client has applied and no
more than the journal had when the last page was read (`horizon`). Once the
client has applied that many, the two ends of the interval meet.
`ReachedIsShown` draws the consequence `FabricMirror` needs: a client at record n has, at
every path of that record, a moment no earlier than n. `LeftThere` names the entry of a path after so many records, and
that later commits do not change it (`PastIsKept`) is what an append-only journal gives.

**HostAuthority** (`HostAuthority_proofs`). All five properties, for any number of
threads, hosts and requests. `UniqueActiveAttachment` rests on `_transition`
ending the attachments and the generation together and on a host having no
generation before its proof; `NumbersSpentOnce` on every recorded use being in
`consumed`.

**Commands** (`Commands_proofs`). All eight properties, for any sets of jobs, apps,
instances and threads. `CommandInv` adds `ClaimsInPlace` to the three invariants of the
commands: what a document or a request under way names has left the queue, a document's token is
its own, and a canceled command has none, so that no claim document matches it.
`EndsAreFinal` is therefore about completions with a token; one without a token
matches, and the theorem names it as the only exception.
`GrantsBehindOwner` is why the revision may follow the mode late: until it has been
raised, a grant of the current revision is either of the new mode and was made since
the change, or of the old mode and does not match. `GrantsInPlace` ties each grant to
the registration it came from.

**AccessTransition** (`Harness_proofs`). The three safety properties, for
any cadence and limits. `ModesInPlace` says which mode is where in each phase of the
driver; `ReservedUnderPriorMode` needs nothing of the clock. `ClocksInTime`, under
`KeepsCadence`, says that the hold outlasts the wait for the reservation, and that
the wait for the adoption outlasts a heartbeat of the old mode and the one after it:
`timing.interval + timing.latency < timing.adoption` is all it takes, beside the bound on the hold.

**AcceptanceRun** (`Harness_proofs`). `CleanupTellsTheTruth`, for any set of process
ids that are not names of things installed (`PidsAssumption`). `CleanupIsHonest` says
nothing of the job between its first step and its receipts, so the proof carries what
each statement of `cleanup` has made sure of when it found nothing wrong
(`EachStepMadeSure`). `NothingOvertaken` has that a service which is not registered does
not run: the node that would mount again and leave its canary is gone once the look
finds it unregistered. `UnclaimedIsSpared` follows an account without the marker to the
end of the job: the installer and the service commands are never reached from it.

**LegacyFabric** (`LegacyFabric_proofs`). Its four safety properties, for any paths,
files, blocks and mutations. `ViewsAreManifests` needs `HistoryInv`: the entries of
each change, applied to the files of the digest it names as the one before, give the
files of its own. Whether that digest is the one of the last manifest is not invariant,
as writers bypass it; `Leads` compares, so the client's files are those of the digest it
leads on from. `PageInv` says that the pages read so far of the manifest under way
hold the files of that manifest up to its path. `MutationsApplyOnce` needs that receipts and
history name each other. `PutsAreProven` needs `ProofInv`: what a verification operation
of this generation holds was proved by it.

**BlockTransfer** (`BlockTransfer_proofs`). The three safety properties, for any
limits and times. `TicketInv` adds that versions that are held or current have their
blocks stored (`Stored`) and that a ticket has not outlasted what covers it
(`Covered`): every deadline ages by the same tick, leases and read holds are only ever
extended, and the margin is subtracted when the ticket is made. `TransferKeepsFence`
is the refinement of `UploadFence`: naming or verifying blocks maps to `Prove`, with
the operations pruned in the same step already absent; a commit, a mutation and a tick
that ends operations map to `Drop`; every other step to a stutter.

**Proved and in no run.** `ImplementsFeed`, the refinement of the fabric alone, which
`MirrorImplementsSync` rests on (the run checks `ImplementsSync`), and
`TransitionTypeOK`, from which the proofs about the transition start.

**Only model-checked.** `HeadReached`, `HoldIsReleased`, `CatchesUp` and `FenceOpens`:
liveness under fairness.

## 5. Findings

1. **A refused commit may have happened by half** (`fabric_partial`,
   fixture_v2.py:627). The refusal of a directory delete is raised from inside the
   loop. The operations before it stay applied and journalled, without a receipt;
   a repetition finds its own first operations diverged. The kit's README
   (line 147) says that unsupported operations fail explicitly, and the tests
   (test_kit.py:526-529) require a refused commit to leave nothing.
2. **Renaming a sparse source moves it without a record** (`fabric_fault`,
   fixture_v2.py:635). The v2 entry has moved when the pop of the legacy bytes,
   which a sparse source does not have, raises `KeyError`. A whole file gets there as
   well, when a legacy delete or rename has taken its bytes away
   (fixture_control_plane.py:2864, 2908); the states of `fabric` contain both.
3. **A request of an ended generation may act on the next** (`authority_fence`,
   fixture_plane.py:54). `attach` does not look at the host again under the lock.
   Authenticated before a revocation and run after it, it connects the revoked
   host at the new generation. A claim in the same position is handed work that was
   enqueued after the revocation. What does hold, and is proved: once the requests
   under way have ended, a revoked host stays revoked (`RevocationSettles`).

Two more things the models show that no document or test of the kit denies, so that
they are no runs:

- A path that a legacy request has written is of two versions: v2 readers see the
  entry, legacy readers the bytes, and a v2 rename of it announces the digest of the one
  with the block list of the other. `LegacyServesVersion` excepts those paths
  (`strayed`).
- A completion without a token completes a canceled command
  (fixture_control_plane.py:1554, fixture_plane.py:111), which `AnswersAreFinal` excepts.

## 6. Plan

Done: the modules of section 2, in the order `FabricV2`, `ChangeFeed`, `V2Sync`,
`HostAuthority`, `Commands`, `AccessTransition`, `LegacyFabric`, `BlockTransfer`,
`AcceptanceRun`: the namespace is what the acceptance is about, the authority what
everything rests on, the legacy fabric and its transfers what the node falls back to,
and the job what reports on all of it.

`FabricMirror` composes the first three. All safety properties that the runs check are
proved.

To come: an abstract
specification of what handlers may assume of a host (`HostFence`), implemented by
`HostAuthority` and used by `FabricV2`, `LegacyFabric` and `BlockTransfer`, whose
`Transition` and `EndGeneration` are that assumption today.

## 7. Not modelled

- Enrolment, which makes the hosts `HostAuthority` begins with. A pairing code is
  minted for one installer.
- Workspaces: one name and its revision per session. `workspace_rename` compares,
  renames and keeps a receipt under one hold of the lock, as `fabric_mutate` does; the
  exercises rename nothing. The older `workspace` handler reads and compares the name
  outside the lock (fixture_control_plane.py:1359), so two renames from one name can
  both succeed: listed as a hazard.
- The installer: its transaction is carried out by the `account-cutover` subcommands of
  a binary outside the source, so neither what they make durable nor the order in which
  they do is there to be translated. `AcceptanceRun` lets it stop anywhere.
- `fabric_v2_mutation_storage`, zero-length blocks, hooks by which tests inject answers.
- `supervise`, `fabric_v2_lookup` and other handlers that only read: what they answer
  is the state of the moment.
- The contents of blocks, Merkle digests and tree verification: data, which no
  state change depends on beyond equal or different.
- The rate limiter, sizes and formats of requests: reasons to refuse, which a
  model whose requests may always be refused already allows.
- The exercises on the mounted workspace, copy-on-write workload, production
  installation (which ends in the cleanup of `AcceptanceRun`), reports and cache probes:
  sequential scripts of I/O, whose outcome is the operating system's.
- The released node and app: binaries outside the repository.
