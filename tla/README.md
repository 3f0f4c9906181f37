# azapptoolkit: a TLA+ verification project

azapptoolkit is a Tauri desktop application that administers Entra ID
applications. One operator runs it against one or more tenants; the back end is
a set of asynchronous commands that share a cache, a session registry, the
operating system's credential store and a handful of counters. Nothing in it is
distributed, but a great deal of it is concurrent: a tenant scan takes minutes,
the operator keeps clicking, and every command is a task of its own on a
multi-threaded runtime. The modules in this directory model the parts whose
correctness depends on the order in which those tasks take their locks, on what
the remote services did with a request whose answer never came, and on where a
long run was cut off.

Paths below are relative to `src/`. `PROJECT.json` is the machine-readable
index: it maps every definition to the lines it translates, and lists the runs,
the mutants, the hazards and the theorems.

## 1. Inventory

| Component | State | Operations | What is hard |
|---|---|---|---|
| Shared cache (`crates/azapptoolkit-core/src/cache.rs`) | one LRU bucket per kind, the watch table, the configuration, each behind its own mutex | get, put, guarded put, patch, invalidate (key, prefix, tenant, kind, all), configure | a fetch that takes seconds races the invalidation of its own key |
| List and corpus caches (`apps/desktop/src-tauri/src/commands/applications/cache.rs`, `applications/mod.rs`, `enterprise_application.rs`, `search.rs`) | cached lists derived from cached indexes | build on a miss, invalidate after a mutation, patch after a mutation | a derived list built from a source that is about to be dropped |
| Authentication service (`crates/azapptoolkit-auth/src/service/mod.rs`) | session registry, session epoch, access-token cache, per-scope refresh locks | sign in, sign out, restore, re-authenticate, interactive consent, silent acquisition | operations that wait for a browser or the token endpoint while another one signs out or in |
| Refresh-token store (`crates/azapptoolkit-auth/src/token_cache.rs`) | a token split over several credential-store entries | save, load, delete, conditional delete | one of several writes fails, a shorter token over a longer one |
| Application state (`apps/desktop/src-tauri/src/state.rs`) | Graph clients per tenant, single-flight gates, cancel flags, preferences | get or build a client, forget a tenant, claim and cancel a run | a cancel that belongs to an earlier run, the gate table at its limit |
| Fan-out (`commands/dispatch.rs`, `commands/throttle.rs`) | in-flight set, adaptive cap, cancellation, dead-session latch | dispatch, drain, cancel, throttle, recover | throttling signals that arrive during recovery |
| HTTP retry (`crates/azapptoolkit-core/src/http_retry.rs`) | attempt counter, delay | classify, back off, give up | a write repeated after its first attempt took effect |
| Graph client (`crates/azapptoolkit-graph`) | paging cursor, batch slots, partitions | page, batch, partitioned scan | a partition failing in the middle of a scan |
| Exchange, Key Vault, ARM clients | none of their own | REST calls | errors in the middle of a sequence of writes |
| Settings (`crates/azapptoolkit-core/src/settings.rs`, `private_file.rs`) | one JSON file | load, save, quarantine | a crash between two file operations |
| Audit, scoring, permissions, scoping verdicts | none (pure functions) | classification and scoring | large decision tables |
| Bulk, remediation and backup commands (`commands/bulk.rs`, `remediation.rs`, `backup.rs`) | a run's progress, its report | delete, grant, sweep, create, assign owners, stage, export | one item of many failing, a task that never comes back |
| Restore (`commands/restore.rs`, `commands/restore/`) | the remap of old ids to new, what the run created or adopted, the report | five passes of writes over a whole backup | run again after being cut off anywhere; apps other people changed meanwhile |
| Credential rotation (`commands/keyvault.rs`) | none between calls | check the owner, mint, store, read back, roll back, remove | a secret minted whose store has an unknown outcome |
| Front end (`apps/desktop/web-rs`) | reactive signals per view | request, apply result, cancel | answers that arrive out of order |

How they interact. A command (a Tauri handler) asks the *application state* for
the Graph client of its tenant. The client asks the *token adapter*, and through
it the *authentication service*, for a bearer token; the service uses the
*refresh-token store* and the token endpoint. Reads of a whole tenant go through
the *list accessors*, which look in the *shared cache*, queue on a
*single-flight gate*, scan Graph and store what they found under a *watch*.
Writes go to Graph first, and when Graph has said yes the command invalidates or
patches the lists that showed the old state. Long runs go through the *fan-out*,
whose tasks are such commands in bulk. The *front end* calls commands and
applies their answers.

What makes each component correct:

| Component | Properties |
|---|---|
| Shared cache | no entry older than a finished invalidation stays; a patch loses no other patch; watches neither leak nor go missing |
| List and corpus caches | what a list shows is as fresh as its sources; one scan per collection; no partial list is cached; gates are given back and never deadlock |
| Authentication service | nothing of an ended session is stored or served later; one account per session; purges and sweeps spare newer sessions; every flow ends |
| Refresh-token store | a load returns a whole token or none; a report says what the next load finds; a deletion that succeeds leaves nothing to load; a crash leaves a session or none |
| Application state | a cancel reaches the run it was meant for and no other; two commands never hold two gates of one key |
| Fan-out and its commands | every landed write is accounted for in the report and the caches; a stop is explained; a result read as complete is complete; the observer slot is its run's; every run ends |
| HTTP retry | a write whose outcome is unknown is not repeated; the budget bounds attempts and delay |
| Graph client | every answer ends at its own request's index; a partial scan is an error or marked partial |
| Settings | a crash leaves the old file or the new one; an update is not lost |
| Restore | a second run repeats nothing and finishes what the first left; other people's apps are left alone; nothing unapproved becomes standing access; the report is true |
| Rotation | one secret minted; the vault never serves a revoked one; what is left behind is named; another app's secret is not overwritten |
| Front end | an answer for an earlier tenant is not shown under the current one |

Of these, the authentication service, the refresh-token store and the restore are
modelled operation by operation. Most of the others are modelled in the part that
carries their properties: the guarded store of the shared cache and not the recency
and TTL of its buckets; the gates and cancel flags of the application state and not
its client map; the transport of one request and not the Graph client's `$batch`
loop, paging and partitioned scan. The settings file and the front end are not
modelled. Section 7 says what is left out; the status of every part is in
`components` in `PROJECT.json`, and the hazards at their lines in `hazards`.

## 2. Modules

| Module | What it is |
|---|---|
| `IndexCache` | the guarded store, invalidation and patch of the shared cache, one action per lock acquisition |
| `IndexCurrency` | what that promises: an abstract specification of a cache that is never behind an acknowledged write |
| `IndexCacheProofs` | its invariants, its action properties and the refinement of `IndexCurrency`, proved |
| `AuthSession` | the flows of the authentication service, one action per critical section |
| `AuthSessionProofs` | its invariants and action properties, proved |
| `KeyringChunks` | the chunked refresh token, one action per call of the credential store |
| `KeyringChunksProofs` | its type, no splice, what a deletion leaves, exact loads, true reports, clean crashes, proved |
| `ListCaches` | the tenant-wide lists: accessors, gates, scans, derived lists, invalidation tiers |
| `ListCachesProofs` | its safety properties, proved |
| `FanOut` | the long-running commands: dispatch, cancellation, throttling, what each reports |
| `FanOutProofs` | its safety properties, proved |
| `Restore` | the disaster-recovery restore, its passes and its re-runs |
| `RestoreProofs` | what the runs may write: three of its safety properties, proved |
| `RestoreReportProofs` | what a run has achieved and says it has: the other two, proved |
| `Rotation` | a credential rotation into Key Vault over the retry loop and the two transports |
| `RotationProofs` | its safety properties, proved |
| `MC*` | constants for TLC (functions from operations to keys, kinds, slots) |

`IndexCache` is the mechanism and `ListCaches` its most important user: it takes
the guarded store and the patch at a coarser grain (a watch is the set of its
keys that were bumped, a patch that lands does so in one step) so that several
keys, several readers and a whole invalidation tier fit in one model.
`KeyringChunks` is likewise below `AuthSession`, in which the keyring is one
variable whose writes may fail and may tear the stored entry; that a failed save
or delete leaves the old token, or none, is what `SaveReportIsTrue` and
`DeletedIsGone` check one level down. `FanOut` and `Restore` are above the
transports: to them a request has one outcome, and a write whose answer was an
error may have landed. `Rotation` opens that up for one sequence of requests: how
often each is sent, and what the service did each time.

A definition that is a plausible slip of the code (its comment begins with
"Fault:", or its name says what the slip is) is never part of `Next`. It stands
before the definition it would replace and shows that the properties notice.

### 2.1 IndexCache

Source: `crates/azapptoolkit-core/src/cache.rs` (`generation_for`,
`store_if_current`, `put_*_if_current`, `IndexWatch`, `invalidate*`,
`bump_watches`, `patch_typed_index_with`, `configure`).

* **State.** `entry` is the buckets (per key: the snapshot, the stamp that
  identifies the insertion, the allocation that identifies the value);
  `watch` is the watch table with its counters and reference counts. The directory
  is the set of writes that landed; a snapshot is the set it reflects. A fetch
  returns any snapshot between the directory at its start and at its end, because
  pages are read one at a time.
* **A fetch**: `GenerationFor` (register a watch, or `WATCH_UNAVAILABLE` when
  the table is full), `Scan` or `Abandon` (the guard is dropped on every way
  out), `Peek` (the first look), `Store` (the bucket's lock) or `Decline` (the
  cache is switched off), `Release` (the second look and the guard's drop),
  `Rollback` (removes only the entry that carries its own stamp). A member of
  `Fetches` is a caller that does this over and over, for any key of its
  `FetchKeys`. Stamps and allocations are named by the operation that made them,
  so a caller begins again only when its name is free (`NameIsFree`): no entry
  carries it and no patch holds it. The names stand for fresh stamps, of which the
  code has 2^64; other callers may go on meanwhile.
* **An invalidation**: `Bump` (watches first; the call picks one of its `Sweeps`,
  or one of its `Patches`), then `DropKind`, one bucket at a time: a sweep is seen
  half done.
* **A patch**: `Bump`, then up to `PATCH_ATTEMPTS` rounds of `PatchRead`, and
  `PatchLand` if the allocation is still the one that was read, else `PatchLost`;
  `PatchRefuse` is a closure that declines.
* **The environment**: `Land` (a directory write) and `Expire` (expiry, eviction
  and clearing, which may take any entry at any time). The switch
  `CacheConfig::enabled` may be flipped between any two steps, and every operation
  reads it once; what it reads is a free choice of the step that acts on it.

### 2.2 AuthSession

Source: `crates/azapptoolkit-auth/src/service/mod.rs`, with the session fence of
`apps/desktop/src-tauri/src/token_adapter.rs`.

* **State.** `epoch`, `registry` (`known_tenants`), `cache` (access tokens per
  scope set), `keyring` (one refresh token per account), and per flow its
  program counter, account, fence, loaded secret and result. Tokens are named by
  the flow that stored them, so that whose a token is and under which epoch it
  was stored can be asked of any state. `deletedAt`, `emptiedAt` and
  `replacedAt` are history variables.
* **Flows.** Sign-in (`SignIn`, `SignInSwitch`, `Save`, `Commit`),
  re-authentication and consent (`Reauthenticate`, `InteractiveForScopes`),
  acquisition (`BuildClient`, `Bearer`, `CheckSlot`, `Lock`, `Capture`, `Load`,
  `Post`, `Save`, `Commit`, `Superseded`, `Purge`, `Unregister`, `Deliver`),
  restore (`RestoreSession` and the acquisition, `DropMismatched`), sign-out
  (`SignOut`, `SignOutDelete`, `Sweep`) and forgetting a previous account
  (`ForgetPrevious`, `ForgetDelete`). Each is one critical section; between two
  the flow waits, and any other flow may run.
* **Failure.** The browser may end without an account, the token endpoint may
  fail or answer `invalid_grant`, the credential store may refuse a save or a
  delete and may lose the entry while doing so.

### 2.3 KeyringChunks

Source: `crates/azapptoolkit-auth/src/token_cache.rs`.

* **State.** `store` (entries by index: marker, declared count, generation,
  payload), `lock` (`CHUNK_SET_LOCK`, one per process), `op` (what each thread
  is doing and how far), and the report of each process's last operation. Two
  history variables: `found`, the session there was when the operation began, and
  `cut`, whether a deletion or a sweep has ever stopped before its end.
* **Actions.** `Save`, `WriteChunk`, `SweepTail`, `Load`, `ReadChunk`, `Delete`,
  `Purge`, `DeleteChunk`, each with a failing twin, and `Crash` of a process
  between any two calls. The two formats an earlier version left behind
  (`azapp1` without generations, and a bare token) may be there at the start.
* A token is a name and a number of parts; a load returns the sequence of parts
  it put together, so a splice of two tokens is visible as such.
* A second instance shares the store and not the lock, so what one instance finds
  after its own operation may be the other's doing. `NoSplice` holds all the same;
  the other properties speak of an instance while no other has run (`Undisturbed`).

### 2.4 ListCaches

Source: `commands/applications/cache.rs`, `commands/applications/mod.rs`
(`scan_app_list`), `commands/enterprise_application.rs`, `commands/search.rs`
and the managed-identity list.

* **State.** `cache` (seven keys), `gate` (three single-flight gates), one
  program counter per node of a reader, one per mutation. A reader is one
  command; its accessors call each other and run concurrently, so it is a tree
  of nodes: `main` (a derived list) with children `sp` and `app`, and under
  `app` the SP-index read that its scan joins.
* **A read**: `Request`, `Look` (the cache), `Enter` (the gate, then the cache
  again), `Scan` or `ScanFails`, `JoinIndexes` or `JoinAborts` (`try_join` drops
  the other accessor half way: its gate and watches go with it), `Put` and
  `Verify` of each key the scan seeds: `todo` is the set of keys still to store,
  and `First` the next one in the order of the code.
* **A mutation**: `Land`, `Resolve` (a deletion looks its appId up), then `Bump`
  and `Apply` for each key of its tier (`lists`, `credentials`, `created`,
  `deleted`, `renamed`), in the order of the code, dropping or patching.
* `tainted` is a history variable: the node, or the entry it stored, was served
  an entry that lacked a write that had landed.
* Assumed of Graph: a scan that starts after a write returned sees it. The
  directory's own replication delay is outside this code.

### 2.5 FanOut

Source: `commands/dispatch.rs`, `commands/throttle.rs`, `state.rs` (`CancelFlag`),
`graph/src/client.rs` (the observer slot), and the commands that use them:
`commands/bulk.rs`, `audit/run.rs`, `sharepoint.rs`, `permission_tester.rs`,
`keyvault.rs` (the vault sweep), `backup.rs`.

* **State.** A plan says which command each run is, over how many items; per run
  its token's generation, its place, its items, its dead-session latch and its
  result; the shared flags (`current`, `cancelled`), the observer slot, and per
  run the cap with its halve window and recovery loop.
* **A run**: `Claim` (a new generation; some commands attach to the slot at
  once), `Prepare` or `PrepareFails`, then `Room`, `Spawn`, `Collect`,
  `EndDispatch` of `dispatch_capped`, and `Finish`, which computes the report and
  the cache tiers the command drops. A sequential command (`run_bulk_seq`) is a
  run of width one.
* **An item** is worked off in one or two parts (`Part`), each a request that may
  be acknowledged, fail with or without landing, or kill the session; `Halt` is a
  task that sees the gate closed between parts, `Lose` a task that panics or is
  aborted.
* **Around them**: `PressLoad` and `PressMark` are the two steps of `cancel()`;
  `OnThrottle`, `Elapse`, `RecoverLook`, `RecoverLoad`, `RecoverStore` are the
  adaptive cap, whose quiet check, load and store are separate steps.

### 2.6 Restore

Source: `commands/restore.rs`, `commands/restore/adoption.rs`, `wire.rs`,
`reconsent.rs`, `enterprise.rs`, `managed_identities.rs`, `plan.rs`,
`principals.rs`.

* **State.** `manifest` is the backup; `tenant` the destination's app
  registrations (whose tag, what of the manifest they have, what somebody else
  did to them); then the locals of the run: `remap`, `created`, the candidate as
  it was read, the principal memo, the withheld apps, and the report.
* **Pass 1** looks an app up by its tag, adopts it if it is what an earlier run
  of this restore left (owners, federated credentials and service principal are
  three further reads), or creates it; adoptions are judged again until none is
  refused, because refusing one changes the remap the others are judged by.
  **Pass 2** wires permissions, pre-authorized clients, federated credentials,
  owners and secrets. **Pass 3** reads the declared permissions again and grants
  consent to exactly those it compared. **Pass 4** is the enterprise apps: the
  service principal is read (`NextEnt`), its settings are written (`ApplySettings`:
  tags and the assignment-required flag, best effort and behind no gate, but a
  failure is a warning and a dead session is noted), then the role assignment and
  the group. **Pass 5** is the managed identity.
* **Around them**: `PressCancel`, `Crash` (the report is gone, the tenant is
  not), and other people: `Delete`, `Tamper`, `Plant`.
* **Assumed.** Runs follow one another; the lookup by tag sees what an earlier
  run created; one federated credential, owner, assignee and group per app;
  names, creation times, certificates and auth settings, which adoption compares
  one by one, are one mark; identifier URIs, scopes and app roles are part of
  one PATCH; what the settings of an enterprise app are is left out, as nothing
  reads them back. A secret of the same name planted by somebody else is the residue
  that the code itself reports and is not among `Tamper`'s choices. `Stranger` is
  a client or an API that the backup does not name (`StrangerAssumption`); the
  apps of a backup are distinct (`ManifestsAssumption`), as the keys of its remap
  are; and no appId in a backup is one the destination gives a new app
  (`NamesAssumption`).

### 2.7 Rotation

Source: `commands/keyvault.rs` (`rotate_app_credential_core`, `store_minted`,
`roll_back`, `vault_holds_key`, `current_owner_if_other`),
`core/src/http_retry.rs`, `graph/src/client/transport.rs`, `keyvault/src/client.rs`.

* **State.** The client secrets on the apps (`creds`), the versions of one vault
  secret and the vault's `clock`, requests that were given up and are yet to land
  (`adrift`), one cached credential entry, and per rotation its call, its retry
  budget and what it knows: the secrets it was told to remove (`listed`), those
  left to try (`todo`) and the one it is removing (`target`).
* **A rotation**: `Begin`, `CheckOwner`, `Mint`, `Store`, `ReadBack`, `Undo`,
  `RemoveListed`, `Finish`. Each step is one attempt of the current call with its
  answer (a body, an unusable body, nothing, 5xx, 429, a claims challenge, a
  refusal, no bearer); whether the loop goes round again is `Again`, from the
  retry class, the budget and the one challenge per call.
* **The services** apply a request that got no answer now, later (`Land`), or
  never. Versions may share a creation second, have no date or have no tags.
* **Assumed.** A listing is one request; the object-id tag stands for both tags;
  the settings binding written after a rotation (best effort) is left out; the
  cache is read and busted in one step, its guarded stores being `IndexCache`.

## 3. Runs

| Run | What it shows | States |
|---|---|---|
| `index` | two callers that fetch again and again, a sweep of two buckets, patches that contend for one entry, one watch to share: no stale entry at rest, rollbacks that spare others, patches that lose nothing, exact watches, the refinement of `IndexCurrency`; under fairness every call ends and stale entries go | 304,115 |
| `auth_switch` | two sign-ins, a sign-out, the forgetting of a replaced account, a client that spans them | 3,475,944 |
| `auth_recover` | restore, re-authentication, consent, refresh with `invalid_grant`; under fairness every started flow ends | 194,152 |
| `auth_signout_token` | violation, section 6 | |
| `chunks` | two instances, one of them with two threads; failing calls, crashes, older formats | 3,353,122 |
| `chunks_retry` | violation, section 6 | |
| `lists_race` | one mutation of every tier against a joining reader and a scanning one | 2,974,896 |
| `lists_gates` | cold readers of every list meet at the gates; a scan may fail; deadlock is checked; under fairness every read returns | 27,921 |
| `lists_order` | violation, section 6 | |
| `fan_out` | every long-running command alone under Cancel, one under a storm of 429s, two on one flag and two in one slot; under fairness every run ends | 219,157 |
| `restore` | three manifests, up to three runs each, any two pieces of trouble | 1,064,032 |
| `rotation` | two rotations of one app or two into one vault secret with four histories, any two requests that are not answered with success | 3,116,820 |

Bounds, and why they are enough:

* `IndexCache`: two callers are needed for a rollback that could hit somebody
  else's entry, two calls for a patch that races a drop or another patch. Both
  calls may patch `k1` while both callers keep replacing its entry, so that patches
  contend, attempts run out (`PatchAttempts = 2` has a retry and a last attempt) and
  a loop without a bound would go on for ever, which is what the mutant of
  `EveryCallEnds` does. Two keys in two kinds are the smallest sweep that can be seen
  half done. `MaxWatches = 1` makes the table full as soon as two keys are watched,
  while two fetches of `k1` share its row. A counter moves only when one of the two
  calls bumps it, so none needs a cap. The proofs remove all of these bounds from the
  safety properties they state.
* `AuthSession`: every race the comments of the source describe involves at most
  three flows; the runs have four and five, two accounts and two scope sets. The
  proofs cover any number of flows.
* `KeyringChunks`: tokens of two and of five parts, so that a shorter one is written
  over a longer, two writes of one token have equal length (the splice), and one
  token is longer than `GAP_TOLERANCE` (4). `MaxWrites = 2` saves after what an
  earlier run left. The second instance saves only: it is by writes
  that it could make a load of the first put two tokens together. Its deletions, and
  any number of instances, are in the proof of `LoadsAreNeverSpliced`. The two threads of the
  first instance are interchangeable, which is the symmetry. An older version left
  the short token or none (`OldTokens`); the proofs have any.
* `ListCaches`: one mutation and two readers. A list can be stale only through
  one write it lacks, and each of the keys is watched by itself; two readers are
  needed to share a gate and to refill an index under the other's join. Two tiers
  interleaved with each other, and any number of readers, are covered by the
  proofs.
* `FanOut`: two items (three for the delete, whose refresh depends on how many
  succeeded, failed and were lost) at width two: one in flight while the other is
  finished, waiting or declined by the gate. Width four and three 429s reach two
  halvings, a recovery, and a halving that falls between the recovery's load and
  store. Two presses of Cancel race two claims. The proofs lift every one of these
  bounds for the five safety properties.
* `Restore`: two apps are the smallest remap in which refusing one adoption
  changes the verdict on the other. `MaxTrouble = 2` allows a run that is cut
  off and one more fault in the run that picks up; `MaxRuns = 3` leaves a third,
  undisturbed run to converge. Three manifests: everything there and approved;
  nothing approved; an ambiguous identity and pre-authorization in one direction.
  The proofs lift all of these bounds.
* `Rotation`: `MAX_RETRIES = 1` (3 in the code) has a first attempt, a retry and
  an exhausted budget, which is all the loop distinguishes; `MaxTrouble = 2` has
  a failed store and a failed read-back or rollback. The rotations are alike, so
  their permutation is a sound symmetry for these invariants.

Deadlock is checked in `chunks`, `lists_race` and `lists_gates`. In the
others the operations that change something run a bounded number of times, so the
model may end when all have; progress there is a liveness property where the run has fairness.

Fairness. `FairSpec` of each module asks weak fairness of the steps of
operations *that have started*, and of nothing else: no command has to be
issued, no scan has to fail, no entry has to expire, nobody has to press Cancel.
The code justifies it: a Graph scan, an item's request and a token request end
because their HTTP client has timeouts and a bounded number of retries, the
browser wait has one of its own, mutexes are held for bounded work, the patch
loop is bounded by `PATCH_ATTEMPTS`, and tokio polls a task that has been woken.
`tokio::sync::Mutex` is first in first out, which is more than the weak fairness
of `Lock` and `Enter` asks. In `FanOut` the fairness is of a claimed run as a
whole (`Continue`): the cap, the recovery loop and the throttling owe nothing,
and a run must end at any cap.

## 4. Proofs

TLC checks the instances above; TLAPS proves the following for every value of
the constants that satisfies the named assumptions.

**IndexCacheProofs** (assumptions: `ConstantsAssumption`, `BoundsAssumption`; the
latter says that `NoEntry` is not a value an entry or a snapshot could have).
`TypeCorrect`, `NoStaleEntry`, `StaleStoreDoomed` and `WatchTableExact` follow
from `Invariance : Spec => []Inv`. `NoStaleEntryAtRest` is not inductive: it
says nothing about a fetch that has not stored yet. `Inv` therefore adds

* `CurrentFetches`: a fetch whose watch has not moved has a result that contains
  every settled write of its key;
* `SoundEntries`: an entry belongs to a fetch that is in flight or was kept,
  contains that fetch's snapshot and, once kept, every settled write;
* `SoundReads`: the allocation decides the content, so a patch that finds the
  allocation it was handed finds the content it was handed;
* `WatchRefsExact`: a row exists exactly as long as somebody holds it, which is
  what makes "the counter has not moved" meaningful, since a row that goes and
  comes back starts again at zero. This is the part that needs cardinalities
  (`RefsGrow`, `RefsShrink`).

That a caller may fetch again is why `GenerationFor` asks for a free name: an entry
or a read of an earlier round would otherwise be taken for one of this round. With
it, what an earlier round left carries another operation's name or is gone.

The action properties `RollbacksSpareOthers` and `PatchesLoseNothing` use the
same invariant: the stamp of an entry is that of its store, and a patch that
finds its allocation finds what it read. `CacheIsCurrent` is the refinement of
`IndexCurrency`. Its mapping shows an entry only once no rollback of it can
follow: a store that is checked and kept is the abstract fill, each bucket a sweep
drops is an invalidation that is over with the keys of that bucket (`LeftInScope`:
what a call has yet to drop is in its scope), an entry that goes is an eviction,
and a step that none of this shows is a stutter.

**AuthSessionProofs** (`AuthAssumption`). `AuthInvariance` proves `AuthInv`;
`AuthTypes`, `LateSavesAreRefused`, `SlotsStayCurrent`,
`ClientsKeepTheirSession` and `OneAccountPerSession` follow, and the action
properties `PurgesSpareNewer` and `SweepsSpareNewer` use it. The strengthening
says that the epoch is at least every fence (`EpochIsLatest`), that the account
and the fence of a flow whose token is stored no longer change
(`StoredIsStable`), and when a slot or a flow can outlive the registration it
came from (`EmptyWasEmptied`, `KeepsTheRegistered`). Most actions move one flow and leave the session alone: the
lemma `QuietKeeps` deals with them at once, and six lemmas with the actions that
do not (`SwitchKeeps`, `CommitKeeps`, `RefreshKeeps`, `UnregisterKeeps`,
`DeleteKeeps`, `SweepKeeps`).

**KeyringChunksProofs** (`ChunkAssumptions`). `ChunkInvariance` ties every chunk
in the store, and every load in progress, to the write whose generation it
carries. From it `LoadsAreNeverSpliced`: with any number of processes that share
no lock, failing calls and crashes, a load that read a current chunk 0 returns
nothing or one whole token. `DeletionsLeaveNoFront` proves `DeletedIsGone` for one process (`Alone`)
with any number of threads, and for tokens of any length: a deletion that reports
success leaves nothing, unless an earlier deletion or sweep was cut short, and then
only entries past the first `GAP_TOLERANCE`. Its invariant, `ClearInv`, says that a
deletion has emptied whatever it has passed, and that the entries are in order
(`Orderly`: no gap ahead of the operation under way) as long as nothing was cut
short. That the exception is needed is the run `chunks_retry` (section 6).
`LoadsAreExact`, `SaveReportsAreTrue` and `CrashesAreClean` are
proved for one process too (a second instance shares no lock, so that its writes may
fall between a save and its report) and for tokens of any length. They follow from `SessionInvariance`. The three
properties speak of a free lock or of the end of an operation; the part of
`SessionInv` that makes them inductive is `Mid`, which reads off the store what
the operation under way has done to it: a write has stored the chunks before its
index and none of its generation after it, a load has put together exactly what
it passed, a deletion that has passed chunk 0 leaves no session, and an operation
before its first write still has the session it found. `Shape` says that a chunk 0
of an older format stands on the set an older version wrote, untouched.

**ListCachesProofs** (`ListsAssumption`). `ListsInvariance` proves `ListsInv`, and
`IndexesStayFresh`, `StalenessIsInherited`, `ColdReadersScanOnce` and
`EntriesAreWhole` follow, for any readers and any number of mutations of any
tiers, interleaved in any way: the runs have one mutation. Between two mutations
an entry may well be behind; `EntryInv` says when: the write it lacks has yet to
treat its key, or the node that stored it is at its second look and its watch has
moved (`Doomed`), or it was made of an entry that was behind. To keep that through
a store the invariant needs `RaceInv`: a write that a scan under way, or a child
that a join waits for, has missed has yet to bump the node's watch or has bumped
it. The rest supports the two: `MutationInv` (a mutation under way has landed and
has keys left), `TreeInv` (when the children of a node run), `TodoInv` (what is
still to be stored is watched and its parts are there), `SeenInv`, `GateInv` (who
holds a gate is at work under it) and `ColdInv`, the argument for one scan per
collection: before the first write and the first failure, a collection that was
scanned has its gate taken or its entries in the cache.

**RotationProofs** (`NamesAssumption`, `HistoriesAssumption`, `BoundsAssumption`).
`RotationInvariance` proves `RotationInv`; `SecretsAreMintedOnce`,
`VaultsServeLiveSecrets`, `EndsSayTheTruth`, `ClaimsAreRespected` and
`CachesHearOfRotation` follow for any number of rotations of any apps into one
vault secret, any history of it, any retry budget and any number of faults. The
properties speak of the ends of a rotation or of what the vault serves. They rest
on

* `StageInv`: what is known at each call. Before and during the mint nothing has
  been minted, because an attempt that may be repeated landed nothing; after it
  exactly one secret has, and the removals begin only when the vault holds it;
* `AdriftInv`: what a request that was given up can still do. A late PUT is of a
  rotation past its first attempt, a late undo of one that ended in an error, a
  late removal of one whose own secret is in the vault;
* `VaultInv`: the versions are in the order of their dates, those of the rotations
  come last, and each of these holds a live secret unless it is late or another
  rotation was told to remove it;
* `CredsInv` and `CacheInv`: the secrets on the apps against what was told of them
  and against the cached ones.

**RestoreProofs** (`ManifestsAssumption`, `StrangerAssumption`,
`BoundsAssumption`). For any backup, any number of runs and any amount of trouble.
`BaseInvariance` proves that the remap, the entries, the candidate being judged
and the app being written to each carry the tag of the source they stand for, and
that a source has at most one entry (Pass 1 makes it when it comes to the source,
which is why the apps of a backup must be distinct). On it rest

* `NothingGoesUnapproved`. `ApprovalInv`: once the approvals have been classified,
  whatever needs one and has none is withheld, and in `grant` the list that was
  compared (`hit`) holds no `Stranger` and is granted as it was read, whatever
  anybody declares meanwhile;
* `RerunsRepeatNothing`. `MadeInv`: `create` is reached only where no live app of
  the restore's own making is tagged. `SecretsInv` counts: an entry knows of at
  least the secrets its app has, and the entry being wired has no more than it
  still knows of and those the loop has passed; so a secret is issued only
  below the number the backup lists;
* `ForeignAppsAreLeftAlone`. `PassedInv`: in Pass 1 only apps whose source was
  reached are written to or known to be changed. `HitInv`: a changed candidate
  still has a check to fail. `CleanInv`: a changed app has an entry only while that
  is pending, or when somebody has deleted the app. `RefusedInv` ties the remap to the entries that were not refused, and
  `RoundInv` says what a round that has refused nobody so far has found, which is
  what the last round ends with.

**RestoreReportProofs** (the same, and `NamesAssumption`) has the two properties
about the end of a run.

* `ReportsAreTrue` proves `ReportIsTrue`. The property speaks of the report when
  the run is done; `ReportInv` says what the report, half made, may claim at every
  moment before. `RowsInv`: the rows are those of the first entries, up to the app
  being wired. `TouchedInv` and `AccountedInv`: whatever was written to, and
  whatever source was passed, has an entry, a failure or a runbook item. `SpInv`
  and `HeldInv`: what an entry says of its service principal and its secrets is so
  when Pass 2 begins. `WireInv`: of each row, what Pass 2 has done or warned of,
  step by step for the app it is at (`Progress`), with what it read of an adopted
  app still true (`ReadBefore`). `GrantedInv` and `EntsInv` do the same for Passes
  3 and 4. Nobody's deletion or change makes a row untrue, because a row claims
  nothing of an app that is gone and other people only add;
* `RerunsConverge` proves `RerunConverges`, by `ConvInv`, which constrains only
  runs that have gone smoothly so far in a tenant nobody else changed.
  `OwnInv`: all there is was made by some run and pre-authorizes only what the
  backup does. `CalmInv`: so nothing refuses an adoption and nothing stops the run.
  `TakenInv`: so Pass 1 takes one source after the other. `FreshInv`: a credential
  or an owner the app has is seen before it is added, so that adding never fails.
  `SettledInv`: so no row has a warning, and the list Pass 3 reads again is the
  plan's. The rest is `ReportInv`: rows without a warning are restored apps.
  The theorem has a hypothesis on the backups, `ApisHavePrincipals`: an API that is
  an app of the backup and is named by an app with consent has a service principal
  there. The code does not guarantee it (`admin_consent_granted` in
  `dto/src/backup.rs` says that the app had some consent, not which), and without
  it the run is right to report the consent as not given; the manifests of the run
  satisfy it.

**FanOutProofs** (`PlansAssumption`, `NobodyAssumption`). `FanInvariance` proves
`FanInv`, and `CancelsAreExact`, `ObserverStaysLive`, `WritesAreAccountedFor`,
`StopsHaveAReason` and `CompleteResultsAre` follow for any runs, presses, items,
width and number of 429s. The invariant has parts that hardly meet:

* `FlagInv`: the generations of a flag are those of the runs it was claimed for,
  and a press that is half done is meant for exactly the claimed runs up to the
  generation it read (`PressesMeantForSeen`). Without that, nothing says which
  runs the second half of the press stops;
* `SlotInv`: the slot against the runs that are attached and running;
* `RunsInv`, for each run by itself: what an item tried, landed and had answered
  (`ItemInv`), why a gate is closed (`StopInv`), what is in flight, collected or
  lost at each stage (`StageInv`), and the three properties of a finished run's
  result (`ResultInv`).

The properties about results speak only of finished runs and are not inductive:
what makes them true at `Finish` is in `ItemInv` and `StopInv`. A step disturbs
`RunInv` of one run at most, and the adaptive cap, its halvings and its recovery
disturb nothing, so the properties do not depend on the throttle at all. The only
induction is that a non-empty set of item numbers has a least one (`NextItem`),
taken from the library's well-foundedness of `<` on the naturals.

Only model-checked: liveness (`EveryCallEnds`, `StaleEntriesGo`, `EveryFlowEnds`,
`EveryReadReturns`, `EveryRunEnds`), since fairness and `ENABLED` are out of the
prover's reach. Every invariant of the passing runs is also a theorem.

## 5. Properties worth knowing

* `NoStaleEntryAtRest`, and `StaleStoreIsDoomed` in the proofs: the reason the cache looks at the
  watch twice. A store may be stale for a moment; it is then certain to be taken
  back.
* `NoLateSave`, `SlotsAreCurrent`: nothing a flow learned before a sign-out is
  stored after it.
* `SlotsOfOneAccount`: cached tokens belong to the registered account, outside
  three named exceptions (a sweep is owed, the registry was emptied in this
  epoch, a sign-in replaced another account in this epoch; section 6 has the
  third).
* `NoSplice`: a load remembers the generation of the chunk 0 it began with, which is
  what makes a torn save harmless even with a second instance. Its mutant compares
  with chunk 0 as it is now, which only a second instance can tell apart.
* `DeletedIsGone`: what a deletion that reports success can leave is never a session,
  and nothing at all unless a deletion was cut short before.
* `OnlyInheritedStaleness`: a derived list can be out of date only because a
  source it was served from was. Its own watch catches every other race. The
  inherited case is the finding `lists_order`.
* `LandedIsAccountedFor`: however a bulk run ends, a write that was acknowledged,
  or whose task was lost, is not served from the caches any more, and one that
  landed without an answer is in a failure row.
* `CompleteIsComplete`: a sweep that would be cached and read as an all-clear has
  seen every item.
* `RerunRepeatsNothing`, `RerunConverges`: together, that running the same backup
  again is always the right thing to do.
* `ForeignIsLeftAlone`: the repeated judgement of Pass 1 is what makes the second
  half true; one round is not enough (its mutant).
* `VaultServesALiveSecret`: a failed vault write is ambiguous, because an earlier
  attempt of the same PUT may have committed, so the rollback asks the vault
  first.

## 6. Findings and observations

Three runs end in a counterexample to what a comment of the source says.

1. `auth_signout_token` (`service/mod.rs:1355`, comment 1336-1340). `sign_out`
   reads the registered account in one critical section and deletes its token in
   another. A sign-in that commits in between is swept, and its refresh token
   stays in the credential store for the next launch to restore.
2. `lists_order` (`commands/applications/cache.rs:131`, comment
   `enterprise_application.rs:141-142`). `invalidate_app_lists` drops the
   Enterprise Applications rows before the SP index they are built from. A read
   in between rebuilds them from the old index under a watch that will not move
   again.
3. `chunks_retry` (`token_cache.rs:649`, comment 645-648). `delete_chunks` stops
   after `GAP_TOLERANCE` missing entries in a row, so that a retried delete does not
   "report success with token fragments still on disk". With a token of five chunks,
   a delete that fails at chunk 4 and is retried finds four missing entries, reports
   success and leaves chunk 4. Nothing bounds the number of chunks, and the tests of
   the file use tokens of five and of seven. What is left is unreadable without
   chunk 0 (`DeletedIsGone`).

Observations the models reach that contradict no stated promise, whose occurrence
depends on the user interface, or that a property exempts by name:

* A restore or re-authentication that begins after a sign-in moved the epoch and
  before it registers has a current fence; an access token it cached is left in a
  slot of the new account (`service/mod.rs:774`; the comment at 1096-1097 speaks
  of the case the check does catch).
* A consent that captures its fence between a sign-out's epoch move and its
  sweep is current and finds nobody registered, so it may store after the sweep
  (`service/mod.rs:887`; the comment at 1080-1083 discusses the neighbouring
  case).
* The `invalid_grant` purge (`service/mod.rs:1264`) and the unregistration
  (1225-1226) are two critical sections; a re-authentication that commits in
  between keeps its token and loses its registration.
* The search corpus and the managed-identity list may be built from an SP index
  whose store is about to be rolled back (`search.rs:150-155`): the tiers that
  change it drop them too, after it, so the window is the one between the two.
* A halving that falls between the recovery loop's load and its store is undone
  (`throttle.rs:93`), and a run that lost the observer slot to a later one does
  not stay "at a fixed cap": its own recovery loop still raises it
  (`throttle.rs:158`).
* The mailbox probe drops a lost task with a warning in the log
  (`permission_tester.rs:726`); the summary "k of N candidates" then counts it
  as not reaching. `CompleteIsComplete` exempts it.
* A bulk run in which every item failed drops no cache, although a failed write
  may have landed; the item is in a failure row. A restore whose only create
  lost its answer does the same.
* A consent whose grants partly fail is a warning: a fatal answer inside the
  per-resource loop does not latch the session, and `consent_granted` is true
  beside the warning that names what was not granted (`reconsent.rs:74`).
* A create whose answer was lost is listed under apps that "failed to create at
  all" (`dto/src/backup.rs:559`) although it exists; the next run adopts it.
* An `addPassword` whose answer was lost leaves a secret on the app that no error
  can name: the rotation never learned its id. It is not minted again
  (`SecretMintedOnce`); `EndSaysTheTruth` and `CacheHearsOfRotation` exempt it as
  `vague`.
* A vault PUT that lands after the read-back looked leaves the vault serving a
  secret that was rolled back (the `late` exemption of
  `VaultServesALiveSecret`); so does a rotation told to remove what a concurrent
  one has just stored.
* Two rotations for two apps that both pass the ownership gate of a secret that
  does not exist yet both write it: `ClaimIsRespected` is about what the gate
  read, which is older than the write.
* A clean rollback "changed nothing a cache holds" (`keyvault.rs:425`) unless a
  reader cached the app's secrets between mint and rollback (`RolledBack`).

## 7. What is not modelled, and the plan

Left out on purpose: request building and decoding (typed Graph endpoints,
Exchange, ARM), records without behaviour, logging, export, diagnostics, the
updater, and the scoring and permission tables, which are pure decision tables.
The details abstracted within the modelled parts: recency and TTL of the buckets
(an entry may go at any time), the lists of detail panes and mail-scope verdicts
(same guarded store, one key each), a chunk 0 whose header does not parse, more
than one configured tenant, the contents of a backup document, and the delays
between retries.

Behaviour that is not modelled and could be, in the order of its worth:

1. the `$batch` loop (`graph/src/client/batch.rs`): only throttled sub-requests
   are sent again, and every answer must end at its own index;
2. the settings file (`settings.rs`, `private_file.rs`): mutate under the process
   lock and the advisory lock, and the crash between write, sync and rename;
3. the front end's `CommandState::land` against a tenant switch;
4. the client map, `forget_tenant` and the gate table at its limit (`state.rs`),
   and the remembered account composed with `AuthSession`;
5. recency, TTL and pinning of the buckets, as a refinement of the "may go at any
   time" of `IndexCache`;
6. the short write sequences of the Exchange and SharePoint scoping commands.

Proofs still worth having: that `ApisHavePrincipals` is not needed for an app
whose consent does not reach such an API (`RerunConverges` would have to say which
consents a backup can keep), and the liveness properties, should a prover for them
be at hand.
