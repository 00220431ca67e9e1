# Verification of the Vaultwarden extension's background worker

This directory holds TLA+ specifications of the concurrent core of the browser
extension: the parts of the MV3 background worker that decide when a vault
write may go out, when an account or a session may be used, and when the vault
locks. The specifications are checked with TLC on small instances. The safety
properties of the mutation coordinator (with its refinement of an abstract
promise), of the session transitions, of the vault timeout, of imports, of
synchronisation, of passkeys and of client events are also proved with TLAPS, for
every size and without the bounds of the runs.

Sections: 1 inventory, 2 modules, 3 runs, 4 fairness, 5 proofs, 6 findings,
7 what is not modelled, 8 plan.

## 1. Inventory

The program is a Chrome extension. A service worker (`src/background`) owns all
secrets and talks to a Vaultwarden server; content scripts and extension pages
send it messages. The browser may stop the worker at any await and start it
again: what is in memory is lost, `chrome.storage.session` survives until the
browser closes, `chrome.storage.local` survives for good. Inside the worker
there is one thread; concurrency is the interleaving of asynchronous functions
at their awaits. That is the unit used throughout: **one TLA+ step is one
synchronous run of the worker, from one await to the next.**

| Component | State | Operations | Talks to | What makes it correct |
| --- | --- | --- | --- | --- |
| Mutation coordinator (`core/vault/vault-mutation-coordinator.ts`) | a lane per account: queue, epoch, active entry, `needsReconcile`, sync slots, terminal state | `requestSync`, `runMutation`, `runTerminal`, `requiresReconcile`, `invalidateAccount`, `resume/reset/retire...` | dirty store, server, account leases | no write without a durable marker; no write over an unseen one; one turn per account; every call answered, truthfully |
| Dirty store (`vault-dirty-store.ts`) | at most 32 markers in local storage | get, set, clear | coordinator | a marker is never lost by eviction |
| Session transitions (`core/session/auth-service.ts`, `runSessionTransition`) | promise chain, current activation attempt, `terminalSessionBlocked` | login, unlock, lock, switch, logout, remove, server change, key rotation | every hook of `background/index.ts`, session manager | transitions are serialized, fences close before and open after, failures do not authorize a half-written session |
| Session gate (`background/session-gate.ts`) | generation, state | transition events, `capture`, `assert` | everything that decrypts | a session lease proves an uninterrupted unlocked session |
| Account lease gate (`core/session/account-gate.ts`) and lifecycle (`background/account-transition.ts`) | server and account generation, snapshot, transition token | start, settle, recover, `capture`, `assert` | everything that handles ciphertext of an account | an account lease proves an unmoved identity |
| Rotation marker (`core/session/rotation-pending-store.ts`) | one durable flag | mark, clear, startup reset | session transitions | credentials of a replaced key are never reused |
| Session manager (`core/session/session-manager.ts`) | registry, active account, tokens, UserKey in two storage areas | several writes per operation | session transitions | a failure between two writes leaves a state that is handled |
| Vault timeout (`background/vault-timeout-controller.ts`) | phase, generation, run with two deadlines, action chain, alarm | `initialize`, `reconfigure`, `recordActivity`, `checkpointRelease`, `assertRelease`, `transitionStarted/Settled`, `handleAlarm`, `handleSystemLocked` | session transitions, alarms, storage | a secret leaves only in time; an expired session gets locked |
| Release gate (`background/vault-release-gate.ts`) | leases and proofs, each for one use | capture, checkpoint, assert | timeout, session gate | as above |
| Sync scheduler (`background/vault-sync-scheduler.ts`) | last success per account, one task per kind, alarm | `startup`, `sessionSettled`, `handleAlarm`, `notification`, `popupOpened`, `manual`, `requestMutationSync` | coordinator, dirty store, vault service | the local copy catches up; syncs are neither lost nor credited to the wrong account |
| Vault service (`core/vault/vault-service.ts`) | the raw vault cache and its generation | `sync`, `rebuildCache`, `runVaultMutation` and its reconciliation | coordinator, server | the cache never outlives its account |
| Client events (`background/client-event-*.ts`) | durable queue with one claim per scope, receipts, alarm, logout markers | prepare, commit, enqueue, claim, acknowledge, release, discard, flush | server, account transitions | every event uploaded at least once, never for another account, never again once gone |
| Vault transfer (`core/vault/vault-transfer-*.ts`, `background/vault-transfer-*.ts`) | durable journal of imports, controller map, maintenance state | upload, preview, confirm, commit, cancel, retry, acknowledge, reconcile, lift a barrier, startup, revoke | server, session transitions | an interrupted import neither loses nor silently doubles items |
| Passkey ceremonies (`background/website-passkey-*.ts`, `passkey-ceremony-registry.ts`, `content/webauthn-bridge.ts`, `content/page-webauthn.ts`) | durable registry, runtimes, channels, bindings of a port, requests of a document | begin, resume, cancel, acknowledge, approve, decline, hand over, expire, recover | page, vault service, release gate | the page is told the truth about a credential; nothing is written or handed out in another session |
| Forced password change (`core/session/forced-password-change-*.ts`) | durable marker | mark, recover | session transitions | a half-finished change is always recovered |
| Others | autofill saves, device login, SSO, Duo, notifications, policies, HTTP auth, stamps | | | see `PROJECT.json` |

Hard behaviours, each listed with its line in `PROJECT.json` under `hazards`:
leases read before an await and used after it; account A, then B, then A again
between two awaits (every fence must notice); a worker that stops between a
remote write and its local record; each of several storage writes failing on
its own; transitions superseding each other while hooks still run; settlements
that await work which itself queues a transition; a wall clock set back;
alarms that fire once at the wrong time; lane objects deleted and re-created
while an older drain still unwinds; a request whose answer is lost and that lands
at any later time; a claim on a batch that lapses while the batch is under way; a
port that is replaced between a question and its answer.

How the modelled parts interact:

    message handlers --> release gate --> session gate <--+
         |                    |                           |
         |                    v                           |
         |              vault timeout ---- lock() -->  session transitions
         |                    ^                       (serialized queue)
         v                    +---- transitionStarted/Settled ---+
    mutation coordinator <--- invalidate / readmit ------- account transition
       ^ |        |                                        coordinator
       | v        v                                            |
       | server   dirty store           account lease gate <---+
       |   ^  ^      ^
       |   |  |      +-- sync scheduler --> raw vault cache
       |   |  +--------- imports (journal), client events (queue)
       |   +------------ passkey ceremonies <-- port -- content script -- page
       +---------------- (createPasskey is a mutation of the vault)

## 2. Modules

| Module | Models | Role |
| --- | --- | --- |
| `VaultMutationCoordinator` | coordinator, its marker, account transitions as its environment | detailed specification, inductive invariant |
| `WriteAheadVault` | what the coordinator promises per account | abstract specification |
| `VaultMutationRefinement` | `Abstract == INSTANCE WriteAheadVault WITH ...` | refinement mapping |
| `MCVaultMutation` | the symmetry set for TLC | runs |
| `VaultMutationCoordinator_proofs` | theorems | TLAPS |
| `VaultMutationRefinement_proofs` | the abstract promise, refinement, answers, fences, barrier | TLAPS |
| `SessionTransitions` | transition queue, session gate, account gate and lifecycle, rotation marker, startup | specification |
| `MCSessionTransitions` | symmetry sets for TLC | runs |
| `SessionTransitions_proofs` | theorems | TLAPS |
| `VaultTimeout` | timeout controller, release gate, transition queue as they are wired | specification and runs |
| `VaultTimeout_proofs` | theorems | TLAPS |
| `VaultSync` | scheduler, lanes seen from outside, marker store with its capacity, the raw cache | composition, runs |
| `VaultSync_proofs` | theorems | TLAPS |
| `ClientEvents` | receipts, durable queue, lanes, uploader, alarm, logout markers | specification and runs |
| `ClientEvents_proofs` | what an operation leaves of a stored scope, theorems | TLAPS |
| `VaultTransferJournal` | one entry of the import journal: what each operation refuses and makes of it | operators |
| `VaultTransfer` | transfer controller, commit, lifecycle over journal, server and session | extends the journal |
| `VaultTransfer_proofs` | what each operation keeps of an entry, theorems | TLAPS |
| `WebsitePasskeys` | page and bridge, port, coordinator, registry, vault adapter | composition, runs |
| `WebsitePasskeys_proofs` | theorems | TLAPS |
| `MCVaultSync`, `MCClientEvents`, `MCVaultTransfer`, `MCWebsitePasskeys` | sets, plans and scripts for TLC | runs |

A definition that is only a plausible bug of another one is marked `Mutant of`
or `mutant:` in its comment; it is used nowhere in a specification and exists so
that each property can be shown to fail when the code has that bug.

### VaultMutationCoordinator

* `lanes` is the `Map` of lanes, `lane[l]` the fields of one lane object. A
  deleted lane keeps its record, so that work left behind on it would show.
  A new lane takes one of the unused lane objects; they differ in name only.
* `pc[t]`, `job[t]`, `outcome[t]` are one call: where it stands, what it captured
  when it was made, what it was answered. A sync slot is named by the call that
  created it; a call merged into it is `joined`.
* `gate`, `transition`, `blocked` are the account gate and the hooks of
  `handleAccountTransition` and `settleVaultAccountAdmission` (`index.ts`): the
  gate closes, the lane is invalidated, storage moves, the gate opens and the
  lane is resumed, reset or retired. A lease is the gate generation it was
  captured in.
* `durable` is the set of accounts with a marker on disk. `out` holds the
  mutations whose request was issued and may still take effect, `landed` those
  that did. Nothing but `CommitLands` or an answer that rules the write out takes
  a request off its way: it stays in `out` when its call is answered with an
  unknown outcome, and when its worker stops, and may land long after.
* `unseen[a]` (a ghost) is what the marker is for: the writes of an account that
  were issued and that no published copy follows. A copy follows the writes that
  were issued when the server answered its request: `ServerAnswers` remembers them
  in `read[t]`, and `Published` takes them out of `unseen`.

One action per synchronous stretch: `Call` covers the admission part of each
public operation, `TurnStep(t)` each await of a turn (load marker, write marker,
commit, reconcile, clear marker, terminal preflight and barrier), `LaneStep(l)`
the drain loop, `Environment` the account transitions. Every await may fail
where the code handles a failure. A remote write may take effect and still
answer with an error: `CommitLands` followed by `CommitFails`, or the other way
round. `Restart` loses everything but `durable`, the writes and what is unseen.

What the marker does not promise. A write whose answer was lost, or whose worker
stopped, may take effect after the server has answered the next sync. That sync
clears the marker (`requestSync`, `vault-mutation-coordinator.ts:405-411`), and from
then on the cache misses a write that no marker tells of. The model has these
behaviours; `WriteAhead`, `NoBlindWrite` and the abstract promise speak of a write
until a later copy is published, and not of what it does afterwards.
`CacheCatchesUp` in `VaultSync` is what is left for such a write: the periodic
alarm's next sync shows it.

### SessionTransitions

* `stored` is what extension storage holds: server, known accounts, active
  account, whether a UserKey is present. A step is one storage write, and each
  may be refused, so an operation may stop half-way.
* `queue` and `stage` are `runSessionTransition`: the immediate start hook at
  the request, the serialized start hook, the action, validation of an
  activation, undoing, settlement, publication. `starting` holds transitions
  whose serialized hook has not returned, because `Promise.all` rejects while
  the other hook still runs.
* `session`, `account`, `lifecycle` are the two gates and
  `AccountTransitionCoordinator`.
* `activation` is the current login or unlock attempt; a newer one, a lock or a
  logout makes it stale. `pinUnlock` differs from `unlock` only in how the key
  is derived and is the same transition here.
* Each lease carries two ghost bits, `moved` and `relocked`, set when the
  identity or the unlocked session it stands for changes in storage. They exist
  because comparing current values cannot see A-B-A.
* Locked, logged out and restricted states of the session gate behave the same
  for leases and are one state, `closed`. After a removal the next active
  account is any remaining one. A login may end locked after one write.

### VaultTimeout

* `wall` and `mono` are `Date.now` and `performance.now`. The user may set the
  wall clock back; the monotonic clock starts at 0 with each worker.
* `ctl` is the controller (phase, generation, run, fail-closed target), `op` the
  operation holding its serializer and how far it has come, `actions` and `act`
  the chain of terminal actions, `alarm` the browser's alarm, which survives a
  restart and fires once, possibly late.
* `queue`, `stage`, `gate` are a small transition queue with unlock and lock,
  enough to close the loop: an expired run requests a lock, and that lock
  suspends the controller and awaits it when it settles.
* `session.binding` numbers the sessions that were opened, as `used.sessions` counts
  them; binding 0 stands for locked and logged out.
* `stale` is true from a change of the timeout until `reconfigure` has applied
  it. `idle` and `high` are ghosts: time since the last recorded activity, and
  the latest wall time at which a release of the session was proved.
* `SystemLocked` may happen under any timeout, which covers every setting of
  `lockOnSystemLock`. Clearing the reset marker after a retry is assumed to
  succeed.

### VaultSync

* A composition: the scheduler's activities (`flows`, one per slot), the lanes of
  the coordinator seen from outside (`lanes`, `suspended`: order, joining,
  suspension, what a turn does to marker, server and cache), the marker store with
  its capacity and eviction (`markers`), and the one raw cache (`cache`).
* `server` counts the changes the server has applied per account; `late` holds the
  writes nobody waits for that may still land. An account is `unseen` from the
  moment a lane sends a change until a copy is published that the server sent
  after that moment (after the change, if it was applied while the lane waited:
  `own`), or the server refuses it. A write in `late` that lands after that copy was
  sent is not `unseen` again, because no marker of the code tells of it:
  `UnseenIsMarked` says so, and `CacheCatchesUp` covers it.
* `age` is the age of the recorded success, as the scheduler's threshold sees it:
  recent, old, or from the future after the clock was set back.
* Every activity awaits at the places the code does: identity, rebuild of the
  cache, marker, age, identity again, and the answer of the lane. Success is
  recorded in the step that answers, for the account the activity began with.
* Abstracted: a lane's memory of the marker is the marker, as `IInv` of the
  coordinator justifies; leaving an account and locking are one step each (their
  interleavings are those of `SessionTransitions`); the alarm is always armed;
  popups use the same threshold as alarms; the eviction of old metadata, `dispose`
  and the restricted state of a session are left out.

### ClientEvents

* `receipt[e]`, `owner[e]`: the receipt of a prepared event and the account it was
  prepared for. `queue[a]` is the stored scope, `lane[a]` its jobs in memory,
  `flight[a]` the flush that holds a claim, `alarm`, `discards`, `calls` the alarm
  and the durable logout markers.
* One operation of the queue is one step: it reads the envelope, cleans it up and
  writes it once, and the queue runs operations one at a time. The worker may stop
  between two.
* What an operation reads of the clock is whether a deadline has passed. A deadline
  is a flag (`aged`, a claim `lapsed`, a `retry` that `waits` or is `due`) that time
  may raise and the next operation acts on. A deadline that passes while an upload
  is under way is a disturbance, like a switch, a logout, a removal, a failed
  write, a worker stop and a clock set back (`MaxDisturbances`).
* `ClockSetBack` sets the clock before every time the envelope holds: no deadline
  has passed any more, and what is stored is `ahead` of the clock until
  `CatchesUp`. `claim` writes the current time next to events of a later one
  (`early`), and the reader then refuses the whole envelope (`Readable`), here as in
  the code, where nothing but a test recovers from it.
* Ghosts: `received`, `gone`, `ended`, `superseded` remember what the server took,
  how an event left the queue, which sessions ended, and whose last flush found
  its claim gone.

### VaultTransferJournal and VaultTransfer

* `VaultTransferJournal` holds one entry of the journal as data: for every
  operation a guard (`...Allowed`) and the new entry, and `Readable`, the
  invariants the reader of the storage demands. Storage that fails them is refused
  as a whole, so an operation that breaks one blocks imports for ever.
* `VaultTransfer` has the controller's map (`live`, `import`), the running commit,
  the revocation of plaintext, the reconciliation and its queue, the lifting of
  barriers, and the startup inspection. `server` is what an import has created,
  `wire` the requests whose answer is lost and that may still land.
* A journal operation is one step; what its caller does when it returns is a step
  of its own wherever another actor could act in between (`JournalFree`).
* Ghosts: `released` (files the user, or a delivered full result, has freed) and
  `completed` (imports the user was told are complete).
* Left out: aliases, timestamps, byte limits, pages of the source, exports, and
  the messages of the port between page and controller.

### WebsitePasskeys

* One document, one request per ceremony. The page and its bridge run in one
  document: the hop between them is merged into the steps of either.
* `port` is both ends of the bridge's current port: `jobs` and `ctl` are the two
  queues of the handler (begin and resume; cancel and acknowledge overtake them),
  `toPage` what was posted, `bind` the binding of each request, which decides what
  may still be answered. `flow` is the one begin in preparation of the document.
* `rec` is the durable registry, `run` the coordinator's runtimes, `task` how far
  an approval has come, `out` deliveries under way.
* `lease[r]` is the security snapshot a ceremony was registered with: a session
  number, which stands for every fence but the vault's, and a generation of the
  vault's cache, which a creation may move.
* `vault` and `writes` are the credential of a creation. A write that waits in its
  lane goes its way whatever becomes of the ceremony, unless the worker stops.
* Abstracted: hello and configuration are part of `Connect`; the awaits of
  `#execute` and of `#openApproval` on a resume are one step each; whether a use
  finds a credential is nondeterministic; the checkpoint of the release gate is
  the await between `Deliver` and `PostSuccess`; recovery after a restart is one
  step, because every operation awaits it. Left out: continuations of a locked
  vault, conditional mediation, capacity and retention, user-verification and
  unsupported fallbacks, switching the feature off.

## 3. Runs

`MaxX` constants bound events that could happen without end; each is named in
the module's CONSTANTS. All runs but `sync`, whose alarm never ends,
set `CHECK_DEADLOCK FALSE`: with those bounds spent, and nothing left to ask for, the
system really is at rest.

| Run | Instance | Checks | Shows |
| --- | --- | --- | --- |
| `writes` | 1 account, 3 calls of sync/mutation/query, 2 lane objects, 1 account transition, 1 restart | `IInv`, `WriteAhead`, `NoBlindWrite`, `AnswersAreHonest`, `MergedAfterWrites`, `ImplementsWriteAhead` | the marker protocol under every failure, an invalidation and a crash, with writes that land after their answer was lost, and that it implements `WriteAheadVault` (0.7 million states) |
| `lanes` | 2 accounts with room for 1 lane, 2 calls of sync/terminal, 2 lane objects, 2 transitions | `OneTurnPerAccount`, `NoStuckAdmission`, `TerminalBarrier`, `EveryCallSettles` | capacity, deletion and re-creation of lanes, the barrier and re-admission, no forgotten caller |
| `identity` | 2 accounts, 2 servers, 2 transitions of seven reasons, 1 restart | `TypeOK`, `AccountLeasesFenced`, `GateNamesStorage`, `RotatedNeverReused`, `BlockedInstallsNothing` | identity fences and the rotation marker under every hook and write failure |
| `queue` | 2 accounts, 1 server, 2 transitions of six reasons | `SessionLeasesFenced`, `FenceFollowsQueue`, `QueueDrains`, `PartialNotActivated` | superseded and overlapping transitions, half-finished activations, and that no failure wedges the queue |
| `release` | timeouts 2 and never, clocks to 3, 1 unlock, 1 client, any 2 of: setting change, clock set back, restart, failure, lock | `TypeOK`, `EffectiveTimeout`, `ReleasesAreProved`, `NeverBehindRelease` | what a released secret proves |
| `timeout_liveness` | timeout 2, clocks to 3, 1 unlock, 1 lock, 1 restart, no failures | `TimeoutLocks` | an expired session is locked, also across a restart |
| `client_events` | 2 accounts, 2 events, batches of 2 against a server that takes 1, any 2 disturbances | `ReaderAcceptsWriter`, `EventsAccountedFor`, `AtLeastOnce` | claims, halved batches, lost answers, logouts and discards, a clock set back (0.3 million states) |
| `transfer` | 2 imports of 2 files, a folder and an item in it each, 1 transition, 1 of: worker stop, failed journal write, manual synchronisation | `JournalReadable`, `EvidenceKept`, `OutcomesAreTrue`, `MaintenanceIsHeld`, `NoSilentDuplicate` | the crash protocol of an import |
| `sync` | 2 accounts with room for 1 marker, 2 activities, 1 change, 1 disturbance | `TypeOK`, `UnseenIsMarked`, `CacheIsTheAccounts`, `ForcedIsFresh`, `CacheCatchesUp` | the local copy follows the server (0.9 million states) |
| `passkeys` | 1 creation, then 1 use, 2 connections, 1 trouble | `ToldIsTrue`, `SameSession` | aborts, expiries, restarts, lost ports and session changes against a ceremony |
| `unlock_race`, `immediate_timeout` | small | `UnlockedNamesStorage`; `NoCircularWait` | the findings of section 6 |

Why these bounds. The coordinator's hazards are between an older and a newer
turn with something in between: three calls give a running, a queued and a
merging one, two lane objects give a deleted lane and its successor. A-B-A needs
two transitions. Two accounts with room for one lane, or one marker, make the
capacity limits real. In `SessionTransitions` two transitions give every pair of
reasons. In `release` a timeout of 2 leaves one tick before the deadline and one
behind it; two disturbances give every pair, such as a clock set back before a
restart. `MaxPause` is the time that passes during one controller operation:
unbounded for safety, one tick for liveness. Two events against a server that takes
one are a batch that is refused, halved and split; two disturbances are a switch
away and back, a logout behind a switch, or a clock set back before a restart. Two imports are one whose evidence is
there and one that would repeat it; a folder and its item are the smallest plan in
which a refusal skips something. In `sync` one change and one disturbance at a time
already gives every ordered pair of "the server moves" and "the scheduler's
account, marker or clock moves" around each await. In `passkeys` the creation comes
first, so that the use meets it prepared, executing, settled or retired; two
connections are a port and its successor, and aborts, expiries and declines are not
counted among the troubles.

Where bounds hide something: larger disturbance budgets no longer fit a run of a
few minutes, so pairs such as "a restart and a lost answer" are covered in
`writes`, `release` and `client_events`, and not in `sync`, `transfer` and
`passkeys`.

Two scope decisions follow from the findings. `identity` leaves unlock out,
because an unlock that races a switch breaks `AccountLeasesFenced`, and so does
an unlock whose failed rollback logs every account out
(`resetAccountsAfterRollbackFailure`): unlock is no identity transition and the
account gate stays open. `timeout_liveness` uses a timeout longer than a
reconciliation and no failures, because otherwise the settlement of an unlock
may find its run expired and wait for itself.

Choice of properties. Type invariants apart, each relates at least two components
or two moments: the marker on disk to what the server holds, an answer to the
effect it claims, a lease to what storage did since, a proof of release to a clock
that was set back, a journal entry to a request that may still land, a claim to the
events appended meanwhile, what a page was told to what the server stored.

## 4. Fairness

* `VaultMutationCoordinator!FairSpec`: weak fairness of each turn step and each
  drain step. A promise the worker awaits settles: fetches have timeouts, storage
  calls return or reject. No fairness for callers, account transitions or restarts.
* `SessionTransitions!FairSpec`: weak fairness of the hooks and of the step of the
  queue's head. Nobody has to request anything. It assumes that the hooks settle;
  the timeout controller is one hook, and section 6 shows a case in which it does
  not.
* `VaultTimeout!FairSpec`: weak fairness of transitions, controller operations,
  actions, startup, of the browser's due alarm, and of a release under way. Not of
  `Tick`, of requests or of restarts: `TimeoutLocks` speaks of a session whose
  deadline is already over.
* `VaultSync!Spec`: weak fairness of the activities and turns under way, of time
  and of the periodic alarm, which the browser fires. Not of users, notifications,
  logins or of a write that lands late. `CacheCatchesUp` therefore rests on the
  alarm alone.
* `ClientEvents!FairSpec`, for the one account the property follows: weak fairness
  of the browser starting the worker and firing the alarm, of the lane, and of time
  (a retry comes due, a claim lapses, the clock reaches what was stored before it
  was set back). Strong fairness of `SendReaches` and
  `Settles`: each may be cut off again and again by a lost answer or a refused
  write, and the claim is only that a server which is reached again and again is
  reached once. An account that never gets through is no promise of the code.

The weak ones are weak because a pending continuation stays pending until it runs:
nothing in a single-threaded worker disables it for ever.

## 5. Proofs

Every theorem holds for every value of the constants that satisfies the module's
assumptions, which TLC evaluates on its runs: the "nothing" values are not elements
of the sets they complete (`NoneAssumption`, `EntryAssumption`), limits are
naturals and kinds, reasons and plans are known ones (`BoundAssumption`,
`SyncAssumption`, `TransferAssumption`). No theorem uses that a set is small;
those that count need that there are finitely many accounts (`SyncTypes`, the client
events). Each
invariant called `IInv` below is proved by Init, by one lemma per action or family
of actions, and by a temporal step. Each was checked by TLC before it was proved:
the coordinator's in the run `writes`, the others on the instances named with
them, which are not among the runs.

### Coordinator: the marker

`VaultMutationCoordinator_proofs` proves for every number of accounts, calls and
lane objects, every queue limit and any number of transitions and restarts:

* `Invariance`: `Spec => []IInv`
* `MarkerAhead`: `Spec => []WriteAhead`
* `NeverBlind`: `Spec => []NoBlindWrite`
* `SingleTurn`: `Spec => []OneTurnPerAccount`

The argument. `WriteAhead` (an account with unseen writes is in `durable`) is not
inductive: a step that clears the marker must know that a copy read after every
unseen write was published, and it knows that only from its own position in the
turn. `MarkerInv` records what each position guarantees: between the marker write
and the end of the commit the marker is there; once the server has answered a sync
or a reconciliation nothing is unseen that the answer does not follow
(`unseen \subseteq read[t]`); and the steps that clear a marker are only reached with
nothing unseen. A write that lands, however late, moves none of this: `unseen` is
about when a write was issued and when a copy was read.
That holds only if no other call of the account can act meanwhile, which is
`TurnInv`: whoever holds a turn is the active entry of the lane that the map has
for its account. Since a lane has one active entry and the map one lane per
account, `OneTurnPerAccount` follows directly. `TurnInv` survives deletion and
re-creation of lanes because `Deletable` refuses a lane with an active entry and
because a queued call is in a lane that is still mapped (`QueueInv`, `MapInv`).
Finally a mutation that passes the dirty check without reconciling relies on the
lane's memory, so `KnowledgeInv` says that a lane that has loaded the marker knows
of every unseen write. This is where a fresh lane must start with
`dirtyLoaded = FALSE`.

The proof of a step splits by action: typing lemmas per family of actions, then
`TurnSafe`, `DrainSafe`, `LaneSafe`, `AdmittedSafe`, `CallSafe`, `AdmissionSafe` and
`EnvironmentSafe`, each on frame lemmas (`TurnFrame`, `RewriteFrame`, `QuietFrame`)
that say what a step which only touches one turn or one lane leaves alone.

The same invariant is checked by TLC in the run `writes`.

### Coordinator: refinement, answers, admission

`VaultMutationRefinement_proofs`, on top of `IInv`:

* `AbstractMarkerCovers`: the abstract promise implies that the marker covers every
  write from its issue until a refresh follows it or it is ruled out, and that an
  account has one such write at most. In `WriteAheadVault`, too, a write may `Land`
  at any time after it was issued; it has no step that gives one up.
* `Implements`: `Spec => ImplementsWriteAhead`. The mapping renames; what is shown is
  that every step of lanes, turns, transitions and restarts is a step of the
  promise or leaves it alone. The proof has one case per action, and `IInv`
  excludes the steps the abstract specification has no counterpart of (a clear
  under an unseen write, an issue over one, two turns of an account). A restart is
  a stutter: it takes nothing off its way.
* `MarkerCoversWrites`: the two together, for the coordinator itself.
* `HonestAnswers`: what a mutation was answered is what became of it, and what will:
  one answered `not_committed` is not in `out` either.
* `BarrierHolds`, `MergesAreLate`: the action properties `TerminalBarrier` and
  `MergedAfterWrites`.
* `LanesReopen`: `NoStuckAdmission`.

They rest on a second inductive invariant, `AnswerInv` (`AnswerInvariance`).
`HonestInv` says for each position whether the call has landed and that it is not
answered before it returns. `FitInv` is the shape of a mapped lane: the tail slot is
the last call queued, the active slot is the sync that runs, a suspended lane is
empty, and an idle suspended one is kept only by a terminal state. `HeldInv` says
that only a committed terminal operation whose transition is not settled bars a
lane: the part that makes `NoStuckAdmission` more than the shape of one lane,
because admission follows the account transition and not the lane. `WaitInv` places
a waiting call in the queue of the mapped lane, `RotationInv` keeps the gate shut
during a key rotation, and `BarrierInv` says that as long as the lease of a committed
terminal operation is good its lane is suspended and nobody waits with that lease.

TLC checked `AnswerInv` on the instances of `writes` (0.7 million states) and `lanes`
(0.3 million).

### Session transitions

`SessionTransitions_proofs` proves `SessionTypes` (`TypeOK`), `FenceIsQueued`
(`FenceFollowsQueue`), `SessionLeasesHold` (`SessionLeasesFenced`), `RotatedStaysClosed`
(`RotatedNeverReused`), `BlockHolds` (`BlockedInstallsNothing`) and `PartialStaysClosed`
(`PartialNotActivated`) for any number of transitions of any reasons, unlocks
included.

The invariant (`SessionInvariant`): ids in the queue rise and the fence has heard of
the last one (`QueueInv`); a start hook that still runs belongs to the head or to a
transition that ended before it (`HookInv`); the stage is the head's (`StageInv`) and
`WriteInv` says what the first of two writes has left in storage; `FenceInv` ties the
session fence to the queue, and the block of new transitions to the queued rotation;
`SessionLeaseInv` says that a lease of another generation never asserts again, which
is what A-B-A would break; `RotationInv` follows a rotation from its first check
until its marker is gone; `LifecycleInv` says that while an account transition writes,
the account gate is closed by its own lifecycle and every account lease is outdated;
`BootInv` says that nothing runs before startup is over.

The account gate is the exception. `AccountLeasesFenced` and `GateNamesStorage` fail
when unlocks race a switch (the finding `unlock_race`), so the two theorems about
them, `AccountLeasesHold` and `GateNames`, have the hypothesis `"unlock" \notin
Reasons`, as the run `identity` has. That hypothesis is the only thing that is in the
way: `OnlyUnlocksMislead`, unconditional, says that of all steps of all actors only a
write of an unlock, or of its rollback, can take `IdentityInv` away.

TLC checked `IInv` with 2 transitions of eight reasons, and `IdentityInv` with 2
servers and 3 transitions of six reasons.

### Vault timeout

`VaultTimeout_proofs` proves `TimeoutTypes` (`TypeOK`), `TimeoutApplies`
(`EffectiveTimeout`), `ReleasesProved` (`ReleasesAreProved`) and `ReleasesAdvance`
(`NeverBehindRelease`).

The invariant (`TimeoutInvariant`) has nine parts. `Types`, `ShapeInv`, `ActionInv` and
`BindingInv` say which combinations of serializer, queue, terminal action and session
exist. `GateInv`: the gate is open only for the unlocked session, and the run is of
that session unless a transition has just changed it. `RunInv`: a run is of its
generation and counts from the stored activity with a timeout in force; this is what
a restart, a reconfiguration and an interrupted settlement each might break.
`ClockInv`: while the clock is not set back, recorded activity plus idle time is not
ahead of the clock. `LeaseInv`: a lease of the current run was captured since the last
transition was requested. `HighInv`: the wall time of the latest release is on disk
and in the run, unless the session it served is gone. A release is proved within the
timeout by `GateInv`, `RunInv` and `ClockInv`; it is never behind an earlier one,
whatever is done to the clock, by `LeaseInv` and `HighInv`.

TLC checked `IInv` on the instance of `release` (2.4 million states) and, because the
hazards of bindings need a third session, with three unlocks, a timeout of one tick, a
clock of two that is not set back and one disturbance (6.7 million).

### Imports

`VaultTransfer_proofs` begins with one entry: every operation the guards allow keeps
it `Sound` (of its type and readable) and unwrites nothing (`Advances`); the
operations of anybody but the commit are `Quiet` too: they leave every outcome, or
give up the request in flight as unknown, and cancel nothing that has a barrier. The
theorems compose them: `JournalStaysReadable`, `EvidenceStays` (`EvidenceKept`),
`OutcomesStayTrue` (`OutcomesAreTrue`), `NothingSentTwice` (`NoSilentDuplicate`) and
`MaintenanceStaysHeld` (`MaintenanceIsHeld`).

The invariant (`TransferInvariant`): `JournalInv`, `MemoryInv` and `GateInv` are the
journal in order and the types of the rest; `LifeInv` says where an import is in its
life, above all that nothing of it exists before its commit has begun. `EvidenceInv`
is the heart: whatever was sent is covered by a barrier with evidence, or was
released, and what an outcome says is true of the server and of the requests that may
still land. It is not inductive without `CommitInv`, which says what the running
commit relies on at each step while other actors cancel, interrupt and clear;
`AckInv`, that only a finished import is acknowledged; and `ReplayInv`, that once the
commit has asked the journal about replays, every other import of the file that sent
anything was released, and that this stays so until its last item.

TLC checked `IInv` on the instance of the run `transfer` (1.3 million states).

### Synchronisation

`VaultSync_proofs` proves `MissingIsMarked` (`UnseenIsMarked`), `CacheStaysTheAccounts`
(`CacheIsTheAccounts`), `ForcedStaysFresh` (`ForcedIsFresh`) and `SyncTypes`
(`TypeOK`), for any finite number of accounts (`SyncAssumption`) and any slots,
capacities and bounds.

The invariant (`SyncInvariant`): a lane runs one entry at a time (`LaneInv`), so a write
knows what its lane has shown. `MarkInv`: the marker is set before the request goes
out and cleared only by a turn that has published a copy sent later, or that knows
the change was refused;
making room in the store takes a clean entry, so nobody else's marker is lost.
`CopyInv`: a published copy stays while its account is active. `WaitInv`: an activity
waits for one entry of one lane. `FreshInv`: a response is no older than the forced
requests that wait for it, because those never join a request on its way.

`SyncTypes` rests on a second invariant, `TInv`, inductive where `IInv` holds: types,
bounds and the two counts of `TypeOK`. The number of changes applied is a cardinality
(`Changes`), so that no version passes `MaxVersion` follows without an induction; the
markers of `Room` are counted through tracking, eviction and clearing; and whoever
waits is in some entry (`Answerable`), by `WaitInv` in exactly one. `TypeOK` alone is
not inductive: it says that a suspended account has a lane, and leaving that account
would cancel the lane if its head had not begun. `Refusing` adds what is true, that
the lane of a suspended account has one entry, a turn under way.

TLC checked `IInv` and `TInv` on the instance of `sync` (0.9 million states) and with
two disturbances (8.3 million).

### Passkeys

`WebsitePasskeys_proofs` proves `PasskeyTypes` (`TypeOK`), `ToldTruth` (`ToldIsTrue`) and
`SessionKept` (`SameSession`) for any calls of the page, any number of connections and
of disturbances. Of the calls it assumes that they are a sequence of requests, each a
creation or a use (`RequestsAssumption`), and of the limits that they are naturals
(`LimitsAssumption`).

The invariant (`PasskeyInvariant`) is `Types`, the shape of the port (`PortInv`: no
request has two jobs in it) and of the one preparation (`FlowInv`), and for each
request `RequestInv`. `BeginInv`: a request begins once; as long as its begin waits in
the port or in the bridge, or is prepared and not registered, nothing of it exists.
The worker remembers nothing of a ceremony it has retired, so this rests on the page
and the bridge, which ask for a request once and after a lost port only ever resume
it. `CreateInv` ties the record of a creation, its task and the credential together: the
write is queued only by a task that has claimed the ceremony, and a claimed ceremony
is never recorded as failed while the write may be on its way. `ToldIsTrue` alone is far
from inductive: a failure that is on its way to the page must stay true whatever is
aborted, expires or restarts before it arrives, so the invariant speaks of every
outcome the page has heard or may still hear (`Heard`).

TLC checked `IInv` with a creation and a use, two connections and one disturbance
(2.7 million states).

### Client events

`ClientEvents_proofs` proves `EnvelopeStaysReadable` (`ReaderAcceptsWriter`) and
`EventsStayAccounted` (`EventsAccountedFor`) for any finite number of accounts, any
number of receipts, transitions and disturbances, and any batch limits of the client
and the server from one up (`EventAssumption`).

It begins with the stored envelope. `Ranks` and `KeptOnce` say what a filter leaves of
a sequence: each position that is kept, once. Every operation then either thins a
scope out (`Thins`: no event is new, no claim is new, and the reader still accepts it),
appends the one event of the running commit (`EnqueueKeeps`), or marks a batch while
nothing else is claimed (`ClaimTakenKeeps`). A smaller batch limit is the one change
that could make a scope malformed, and `ReleasedKeeps` shows that the claim is off by
then.

`EnvelopeStaysReadable` has two parts, as `ReaderAcceptsWriter` has. What the reader
demands of claims, limits and ids (`WellFormed`) holds in every state. That no claim
is older than its event does not: a clock set back breaks it. The second part says
that this is the only way: a step from a readable envelope leads to a readable one
unless the clock is behind something stored before it was set back (`ahead`). It is
`StaysOnTime`, one lemma over every operation that writes events.

The invariant (`EventInvariant`) follows an event from its receipt to the server.
`LaneInv` and `QueueInv`: a committed event is in one place only, in the lane of its
owner or stored in its owner's scope, and what is stored has not left before. So no
event is stored twice, in two scopes or again, which the reader would refuse.
`FlightInv`: what still carries the token of a flight is of its batch, so a late
acknowledgement drops nothing that was appended, claimed again or discarded meanwhile,
and a batch that was taken was received. `ReceiptInv` ties owner, receipt and server
together. `EndInv` is about logouts: once the discard of a scope has begun, no receipt of
the ended session can still be committed, except a commit that has passed its check
of the epoch and is being stored. The lane runs one job at a time, so there is at most
one; that is the exception `EventsAccountedFor` states.

TLC checked `IInv` on the instance of `client_events` (0.3 million states).

### What stays with TLC

Every invariant and every action property of the runs that hold is proved. What is
only model-checked:

* Every liveness property (`EveryCallSettles`, `QueueDrains`, `TimeoutLocks`,
  `CacheCatchesUp`, `AtLeastOnce`): liveness under fairness and ENABLED are beyond
  the prover.
* `UnlockedNamesStorage` and `NoCircularWait` are violated, see section 6.

No module declares a RECURSIVE operator.

## 6. Findings and divergences

Each of the first two is a run that TLC must find violated; `PROJECT.json` quotes
the lines.

* `unlock_race`: `unlock` reads the active account, derives keys, and commits that
  account although a `switchAccount` completed meanwhile. The account is active
  again while the account gate is open on the other one.
* `immediate_timeout`: with the timeout "immediately" the settlement of an unlock
  expires its own run, awaits the terminal action, and that action's `lock()`
  queues behind the unlock. Neither ends. A suspension of the machine during a
  reconciliation, or a transition that fails just after a deadline, reaches the
  same wait with any timeout.

Divergences between code and comments or tests that were met while modelling; they
have no run of their own, and where a property would touch them its statement says
what it leaves open.

* Passkeys. A creation that completes while its port is gone is retired
  (`website-passkey-coordinator.ts:1516-1581`): the page connects again, resumes,
  is told that nothing is known of the request, and its promise rejects although
  the credential is stored. The comment at `vault-service.ts:5327` says that a
  committed registration is never reported as a failure, and
  `content/webauthn-bridge.test.ts:624` is named "recovers an accepted create
  across disconnect without native fallback or an orphan result". TLC finds a
  behaviour of 22 states when asked for it (one creation, one lost port:
  `page[r] = "refused"` with `vault[r] = "stored"`); `ToldIsTrue` speaks of
  `failed` and `fallback` only.
* Passkeys. A resume that finds a completed ceremony delivers the success and then
  answers that nothing is known; the binding refuses that answer and the handler
  closes the port, so the acknowledgement is lost and the next connection starts
  again until the record is retired. A resume of one request while another one is
  being prepared is refused for good.
* Passkeys. An awaiting ceremony whose clock is set back between its registration
  and its claim makes a stored time precede another one, and the reader of the
  registry then refuses its envelope (`passkey-ceremony-registry.ts:1089-1120`).
* Half-finished activation. A login or unlock that fails between its writes is
  meant never to be authorized until a later success (`session-gate.ts:63-67`). A
  later *failed lock* publishes what storage has, which may be that session, and so
  does a switch or a removal that fails before its first write. `PartialNotActivated`
  speaks of activations and key rotations.
* Sync. A success is recorded for the account an activity began with, although the
  sync that answered was requested for whatever account was active after its last
  await (`vault-sync-scheduler.ts:326-365`).
* Client events. A flush that finds its claim gone ends as `superseded` and cancels
  the alarm (`client-event-service.ts:331`): the events still stored wait for the
  next commit, switch or start, where `client-event-queue.ts:133` promises an
  at-least-once queue. With the clock set back, a claim can be written with a time
  before the event's, which the reader refuses (`client-event-queue.ts:288` and
  `:740`), and `recoverCorruptState` (`:416`) has no caller outside tests. Both are
  in the model, and `AtLeastOnce` names them as its two exceptions: a scope whose
  last flush was superseded, and an envelope the reader refuses. TLC finds the
  second in a behaviour of eight states: a receipt, its commit, the event stored,
  the clock set back, an alarm, a claim.
* Coordinator. A write that lands after its answer was lost and after the next sync
  has cleared the marker leaves a cache that no marker calls dirty (section 2). The
  message "A previous vault mutation must be reconciled before another write"
  (`vault-mutation-coordinator.ts:549`) does not reach so far, and neither do
  `WriteAhead` and `NoBlindWrite`.
* Transfer. The end of the inspection of an import that was cancelled or revoked
  meanwhile still sets the active account and its block from what it read
  (`vault-transfer-controller.ts:655-660`).
* The account gate closes only after the asynchronous clears of the serialized
  start hook, although a comment (`auth-service.ts:4266`) says that capture closes
  at once. No caller of `requiresReconcile` exists outside tests. The wiring in
  `index.ts` seems never to reach `resetTerminatedAccount`. The monotonic deadline
  of a run lies later than its wall deadline by the time the observation's write
  takes (`vault-timeout-controller.ts:457`).

## 7. Not modelled

* Corruption of the dirty store, and of the other stores, by anything but the
  program itself.
* Password-change recovery logouts (`settleOnFailure: false`), token refresh,
  PINs, remembered devices, login protocols, close-logout owners.
* A system lock whose worker stops before the reset marker is armed: it is stored
  nowhere.
* The transition queue of `VaultTimeout` has only unlock and lock; the full queue
  is in `SessionTransitions`, where in turn the timeout is a hook that settles.
  `VaultSync`, `ClientEvents`, `VaultTransfer` and `WebsitePasskeys` see a session
  transition as a step that moves the leases.
* Simplifications that a reader of the code will notice, each of them small.
  `VaultSync.Leave` closes the account fence and clears the cache in one step, where
  `account-transition.ts:63` and `auth-service.ts:2600` are separate awaits.
  `VaultTransfer.BarrierBegins` has stricter guards than
  `vault-transfer-controller.ts:1194-1205` and `:1675`: a barrier begins only where
  it can be lifted again, for the account in session. `WebsitePasskeys.Current`
  compares the session number also after a restart, where the code captures the
  permission and the document anew and compares the stored binding alone
  (`website-passkey-coordinator.ts:1540`, `website-passkey-production.ts:656-675`):
  a permission that was revoked and granted again meanwhile fences a ceremony in the
  model and not in the code.
* Exports, the acknowledgement registry of client events, continuations of a
  locked vault for passkeys, autofill capture, notifications, policies, HTTP
  authentication, attachments: state machines of their own, listed in
  `PROJECT.json` and candidates for later modules.
* Cryptography, API shapes, ciphers and their decryption, generators, UI, content
  scripts other than the passkey bridge: pure computation, I/O, or rendering
  without interleaving of their own. They are most of the repository's lines.

## 8. Plan

Modules to come, most important first:

1. Password-change recovery added to `SessionTransitions` (the durable marker and
   the recovery logouts).
2. Autofill capture and pending saves: a submission that outlives its page, its
   prompt and its session.
3. A composition of `VaultTimeout` with `SessionTransitions` on the account-free
   abstraction of the queue, and of account leases with the coordinator, whose
   environment today is a hand-made account transition.
4. An abstract specification of the event queue (an at-least-once log per account)
   with `ClientEvents` shown to implement it.
5. Conditional mediation and locked continuations in `WebsitePasskeys`.

Theorems to come: those of the modules above, and the refinement of item 4.
