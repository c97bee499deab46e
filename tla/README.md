# Verification of cordis

TLA+ models of the concurrent parts of cordis, the TLC runs that check them on
small instances, and TLAPS proofs of the properties that matter most for every
value of the constants. `PROJECT.json` lists the components, runs, mutants,
theorems and hazards, and maps every definition to the lines it models.

```
tlc -workers 2 -config MCDelivery_delivery.cfg MCDelivery   # one run
tlapm DeliveryProofs.tla                                     # one proof module
```

## The system

cordis is a chat backend of Go services that talk over gRPC, keep their data in
PostgreSQL and Redis, and exchange events over Kafka. What a client sees travels
along one pipeline:

```
Guild, Message, User --(transaction)--> outbox table --(relay)--> Kafka
Presence --(best effort)------------------------------------------> Kafka
Kafka --(partition consumer)--> Dispatcher --> Session nodes --> Gateway --> client
Kafka --(partition consumer)--> Guild profile projector, Message mention expander
```

| Part | State | Operations | What makes it hard |
|---|---|---|---|
| Transactional outbox (`pkg/outbox`, `server/outbox.go` of User, Guild, Message) | stream counters and outbox rows in PostgreSQL | reserve sequence numbers and insert rows inside the business transaction, notify | concurrent transactions on one stream, several row locks per transaction, a failing statement inside the transaction |
| Outbox relay (`pkg/outbox/relay`) | shard advisory locks, heads, backoff | list shards, lock, select heads, publish, delete or put off, unlock | several workers, lost database sessions while Kafka is slow, lost acknowledgements, backoff of a head |
| Partition consumer (`pkg/kafka/partitionconsumer`) | one worker, channel and overflow queue per partition, pause reasons, committer | assign, poll, enqueue, handle, retry, mark, commit, revoke, shut down | rebalances between any two steps, commits that fail or are applied late, crashes, three independent pause reasons |
| Session: logical sessions (`connection.go`, `state.go`, `server.go`, `cleanup.go`) | sequence, replay window, binding and epoch, initialisation buffer | IDENTIFY, RESUME, dispatch, heartbeat, checkpoint, detach, drain, clean up | connections that replace each other, state read after a mutex or an RPC, full queues |
| Session: visibility snapshots (`visibility.go`, `dispatch.go`) | per user and guild: generation, required revision, snapshot; the guild index | retain, release, invalidate, reload, reconcile; the guild event and message handlers | a reload by RPC races invalidations, sessions share the state, handlers overlap |
| Session: duplicate filter, watermarks | expiring keys, last sequence per channel | accept, deliver, remove | accepted before delivered, retries of the Dispatcher |
| Session: routes, owners, leases; session registry | Redis keys and an etcd lease with TTLs | publish, refresh, detach, delete | refresh from a stale copy, node restarts, non-atomic deletes |
| Gateway | WebSocket clients, pending checkpoints | handshake, heartbeat, record, flush, detach | checkpoints of replaced connections, timeouts of batches |
| Dispatcher | none of its own (Kafka offsets) | fan a record out to nodes and users | one node of several fails, routes move |
| Presence | preference, snapshot, session hashes, sorted set, lock in Redis | register, refresh, update, remove, resolve, renew | several instances, TTLs, a lock that can expire, unlocked renewals, events in flight |
| Authenticator | sessions and refresh hashes, challenges, tokens, invitations | register, log in, refresh, revoke, two-factor, recovery, tickets | concurrent refreshes with one token, registration across two services, one-use codes |
| Guild | guilds, members, roles, channels, overwrites, invitations, bans, quotas | some forty RPCs, profile projector | layout revisions, quotas at their limit, authority read before a lock |
| Message | messages, revisions, mentions, read states, DM channels | create (idempotent), update, delete, acknowledge, expand mentions | retries with one key, edits during expansion, acknowledgements out of order |
| Media | assets, quotas, objects in two stores | create, complete, abort, clean up | crash between database and object store, cleanup racing completion |
| User | users, profiles, relationships | create, update, befriend, block | both users act at once |
| API, Mailer, limiters, helpers | request counters, buckets, semaphores | protect, translate, send | fallback of the rate limiter, reference-counted keys |

## What is modelled

One module per component. Actions are cut where the code releases a mutex, ends a
statement of a transaction that others can run beside, or calls another process;
everything between two cuts is one step, trailing saves and sorts included. What
is shared with code outside `src/` (Kafka, PostgreSQL, Redis, etcd, the clients) is
modelled from the calls the code makes and marked external in the map. Payloads,
names and wording are left out; identifiers are model values or small numbers.

### From a transaction to Kafka

- **`Outbox`** has the business transactions: advisory pair locks, the row lock
  taken by the reservation of sequence numbers, rows, rollback, and PostgreSQL's
  refusal to commit a transaction in which a statement failed.
- **`OutboxRelay`** extends it with the workers and composes the two: the rows the
  transactions commit are the rows the workers publish.
- **`OrderedLog`** is the promise: streams of accepted events whose next event may
  be published, or a published one repeated. `OutboxRelay` implements it under
  `accepted <- lastSequence`.

### From Kafka to a session

- **`PartitionConsumer`**: one partition; records are their offsets. Variables
  follow the code's structures: the client (`fetchPos`, `fetched`, `paused`),
  `partitionRuntime` (`cur`, `queued`, `pauseReasons`, `stopped`), one
  `partitionWorker` per assignment (`pc`, `rec`, `records`, `active`,
  `lastCompleted`), `partitionCommitter` (`pending`, `uncommitted`,
  `backpressured`, `flushing`). The broker's side is external: `Evict`,
  `OtherMember`, `CommitOutcomes` (applied or not, reported or not).
- **`Dispatch`**: the Dispatcher's fan-out of a record to the nodes of its routes
  with its retries, a rebalance to a second Dispatcher while the first still
  calls, calls that go on after their caller gave up, and the filters of the
  Session nodes (duplicate filter, channel watermark), whose entries expire, in
  front of delivery. A message needs the recipient's visibility snapshot: a node
  that cannot load a dropped one withholds the message and sends a hint instead.
- **`DedupStore`**: the ring of generations behind the duplicate filter, against
  the filter it stands for.
- **`NodeRoutes`**: the indexes of a Session node, the routes it derives from them
  and keeps in Redis, their ticker, and the node's leased entry in etcd.
- **`SessionLeases`**: what a session keeps elsewhere, the owner key and the
  registration with Presence, renewed in batches by a cycle that works on copies.

### A session and its client

- **`LogicalSession`**: one session and the Connect streams that use it, each
  stream once. Every action holds `session.mu`. Events are their sequence numbers.
  A checkpoint may carry any sequence its stream has sent, at any later time, which
  covers lost, repeated and delayed ones.
- **`GuildVisibility`**: what one Session node knows of the channels one user sees
  in one guild. Guild is external; its two reads are split between the statement
  that reads the label and those that read the channels. A handler may start while
  another runs, because the Dispatcher goes on after a call that timed out. A read
  of the guild index and the critical section that follows it are one step, and so
  are the loops over the user's sessions that attach and detach.
- **`Checkpoints`**: a client's acknowledgements through the Gateway's dirty table
  to the binding they belong to, with connections that replace each other.
- **`GatewayDrain`**: the WebSocket handlers of a Gateway, the slots they take and
  give back in deferred calls, and Drain beside them.
- **`Presence`**: one user and any number of calls in all instances, at the
  granularity of Redis commands and pipelines. Time is the expiry of sessions,
  members and locks. A publication that times out may still arrive. `consumed` and
  `overlapped` are history: an on-demand resolution recorded the snapshot's
  transition; the sessions were last listed while a batch renewal was half done.
- **`RateLimiter`**, **`KeyedLimiter`**: the fallback from Redis to the process and
  the probe that leads back (who decides a request, not the counters it is decided
  by); the semaphore per key that exists while somebody refers to it.

### The services that own data

Every RPC is a READ COMMITTED transaction: a statement sees what was committed when
it started, and waits for the rows it wants to change. The models keep the locks a
statement takes, triggers included, and split a transaction where it may wait.

- **`RefreshRotation`**, **`Credentials`**, **`Registration`**: the Authenticator.
  A session row, its refresh tokens and deadlines; password, second factor,
  recovery codes, challenges and resets of one account; registration across the
  Authenticator and the User service with invitations and email verification. The
  `password` and `secret` of a session in `Credentials` are history: the credentials
  in force when its row was inserted, or that the call which kept it put in force.
- **`Idempotency`**: the claim protocol that CreateMessage, the Guild creations and
  CreateUpload share.
- **`Relationships`**: friend requests, friendships and blocks of the User service.
- **`Mentions`**, **`ReadStates`**: expansion of group mentions against edits, and
  the read watermark, of the Message service.
- **`Uploads`**: an asset of the Media service across its row and two object
  stores, with completion, abort, cleanup and the quota of active uploads.
- **`ChannelLayout`**, **`Membership`**: the Guild service. Channels under the layout
  revision; members, owner, bans, an invite, role assignments and the deletion of
  the guild. The sorted slices of `channel_layout.go` are orders: for each channel the
  set of channels ahead of it, whose number is the position. A change of a channel's
  name or topic alone is no step of `ChannelLayout`: it takes no layout lock, and its
  one statement announces the placement it finds under the row's lock.

In `Membership` the last statement of a transaction and its commit are two steps,
so that the lock on the guild's row, which the access revision triggers take, has
to do its work.

## Runs

Every passing property has a mutant, a plausible fault in a mapped definition,
under which TLC finds it violated. Operators that carry such a fault are next to
the definition they change and start their comment with "Fault".

Four runs follow several components. Those components share no state (where they
do, the shared part is in both modules), so the first state chooses one and the
behaviour stays with it: the run explores the sum of their states and not the
product.

| Run | Checks | Bounds and why they are enough |
|---|---|---|
| `consumer_rebalance` | `OnlyCompletedCommitted`: only settled records are passed by the committed offset; `CommittedNeverRegresses`; `PausesHold`: the fetch is paused exactly while a reason stands, and that bounds the backlog | two records, two assignments, one crash: a stale mark, a stale commit and another member's progress all fit |
| `session_replay` | `StreamsContinue`: what a connection receives continues what the client had; `AckedWasDelivered`: a checkpoint of a replaced connection does no harm; `BindingsAreServed`: RESUME never blocks on its own queue, and the current binding is the only open one | two connections, three dispatches over buffers of two: truncation, acknowledgement, takeover and overflow all happen |
| `visibility_cache` | `SnapshotMeetsRequired`: no snapshot older than a required revision is retained, one hint per invalidation, the shared state lives as long as a session holds it | two sessions, one handler beside the reload, three revisions, two events: a reload answered before a change and installed after it, a removal and a re-join, a session that ends while another starts |
| `outbox_relay` | `WritersNeverDeadlock`, `ImplementsOrderedLog`, `NoStaleRedelivery`: only a worker that lost its database session publishes an event older than the latest, whatever statements, transactions and produce calls fail; `OutboxDrains` | two transactions with one or two streams in either order, two workers, a batch with heads of both streams, one lost session |
| `accounts` | `OneSuccessor`, `RevocationIsFinal`, `HonestClientKeepsSession`; `SessionsMatchCredentials`: no session outlives a change of password or factor but those the change keeps; `ProofsSpentOnce`; `InvitePerCredential`, `VerifiedAddressConfirmed` | three requests with one cookie jar, three rotations, every order of deadlines; two calls with one challenge; two registrants, two addresses, a bound and an open invitation |
| `realtime_converges` | what must happen in the end: `KeptPartitionDrains` (with `SerialInOrder`), `SessionEnds`, `DirectoryConverges`, `LeasesFollowSession`, `DrainFinishes` (with `SlotsMatchSockets`), `PrimaryReturns` | six records over a channel of one, so that every queue is used and every pause reason occurs; a RESUME with more to replay than its queue holds; two sessions of one user with one fault; three upgrades for two slots from two addresses; two outages |
| `delivery` | `VersionNamesStatus`, `EveryTransitionPublished`; `CompletedRecordsTold`: what a node was completed for was sent there, or withheld with a hint; `ToldOnce`: a delivery is repeated only when what remembers it has expired; `FilterIsExact`; `AcksReachBinding`; `KeyCapacityKept` | Presence with every call and one fault, and with two sessions and no fault; three records, two of them of one channel, two nodes and two Dispatchers with one mishap, or one node with more; three generations of two keys; two connections; three holders of two semaphores |
| `content` | `KeyCreatesOnce`, `RelationshipsAgree`, `ExpandedRowsAreCurrent`, `ReadEventsFollowRow`, `UploadsConsistent`, `EventsRebuildLayout`, `DeletedGuildIsEmpty` | two transactions at a time (three for a key, whose claim may expire in between), so that each pair of operations meets in every order; three users, since a pair of users can be locked from either end; a category with channels |

The bounded constants (`Records`, `MaxAssignments`, `MaxCrashes`, `MaxEvents`,
`MaxLosses`, `MaxRevision`, `MaxVersion`, `MaxFaults`, `MaxMishaps`, `MaxLost`,
`MaxOutages`, `MaxCancels`, `MaxClock`, `MaxNow`, `MaxTime`, `MaxRotations`,
`MaxMinted`, `MaxPasswords`, `MaxStep`, `MaxSequence`, `LastId`, `MaxLayout`,
`MaxItems`, `MaxID`, the sets of transactions, requests,
workers, connections and calls) are named in each module. `MaxVersion` is also
real: it stands for `math.MaxInt64`. Symmetry is used only over sets of model values
that the properties treat alike, and in no run with a liveness property.

Deadlock is not checked where the model really stops: a finite log, connections
used once, clocks and transactions that have run out.

### Fairness

- `PartitionConsumer`: goroutines keep running, transient handler failures end,
  and a commit that is tried again and again succeeds. The retry loop and the
  flush ticker repeat both for ever.
- `LogicalSession`: handlers and the cleanup ticker keep running, and the resume
  TTL passes.
- `OutboxRelay`: workers poll on a ticker; Kafka does not refuse one event for
  ever; a transaction ends.
- `NodeRoutes`: the goroutines of a session, of handlers and of the ticker go on,
  and a route nobody refreshes expires.
- `SessionLeases`: the same for the life of a session and the renewal cycle; the
  keys of a removed session reach their TTL.
- `GatewayDrain`: handlers return from their reads and writes, which have
  deadlines, once the socket is closed.
- `RateLimiter`: calls return (Redis has a timeout), requests keep coming while
  the limiter is on its fallback, and the retry interval passes.

### Where the code and its documentation disagree

Four runs are expected to end in a violation. Each checks one statement of the
documentation or of a comment; `findings` quotes it.

| Run | What happens |
|---|---|
| `consumer_stale_enqueue` | records polled before a revocation are enqueued after the next assignment, and their commit passes records nobody handled |
| `session_leak` | a RESUME whose lease refresh fails keeps its binding, and the session is never taken for detached |
| `visibility_viewers` | a role event drops a snapshot without reloading it; the next event, which hides the channel, finds no previous viewer and is delivered to nobody |
| `mentions_stale` | an edit of flags or attachments overtakes the event of a group mention: the one is dropped as stale, the other has nothing to expand, and nobody is mentioned |

The passing runs and the theorems leave out the following cases on purpose; in
each, TLC finds the property violated as soon as the restriction is lifted.

- `NoStaleRedelivery` excuses a relay worker that has lost its session, and with it
  its lock: what it is still producing may land behind newer events (`relay.go:214`).
- `StreamsContinue` is about bindings served by their own connection: of two
  overlapping RESUMEs the first may serve the second one's binding
  (`connection.go:113`).
- `VersionNamesStatus` needs `LockMayExpire = FALSE`: a call that outlasts its lock
  lets a version name two statuses (`redis.go:80`).
- `EveryTransitionPublished` follows every call and excuses two things: an on-demand
  resolution records a transition that nobody publishes (`presence.go:323`), and a
  call that lists the sessions while a batch renewal has renewed a session's hash and
  not yet its member of the sorted set may take its user for offline
  (`redis.go:120`).
- `CompletedRecordsTold` excuses a message withheld after a failed reload
  (`dispatch.go:190`). `docs/en/realtime.md:109` announces the hint that stands for
  it; the retry of the record is dropped as seen, so the message itself is not sent
  again. A hint goes out once per dropped snapshot, and neither message nor hint goes
  out when another handler loads the snapshot between the failed reload and
  `markVisibilityReconcile` (the model's `overtaken`).
- `HonestClientKeepsSession` is about requests that reach the server inside their
  token's window and do not overlap a request with a newer token.

Further behaviour that is in the models and that no property denies:

- a RESUME binds a session that `cleanupDetached` removed during the credential
  check, although `docs/en/realtime.md:98` says that resume fails when "the
  detached session has expired" (`connection.go:301`);
- an install overwrites a newer snapshot that an IDENTIFY brought meanwhile, since
  it compares with the required revision only (`visibility.go:274`);
- IDENTIFY loads READY before the session is indexed, so an event handled in
  between reaches neither the READY payload nor the session (`connection.go:191`);
- a node accepts an event (duplicate filter, watermark) before it delivers it, so
  a retry is dropped while the first call still runs;
- a login that verified a password, or found no second factor, inserts its session
  after the change that replaced them and is not undone by it; it ends with the next
  change (`auth.go`, Login). `SessionsMatchCredentials` says what the changes do, and
  that a password change which names no session keeps them all
  (`credentials.go:82`);
- the route ticker works on a copy and may withdraw the route that an IDENTIFY has
  just published, until the next tick (`routes.go:52`);
- a renewal cycle re-creates the owner key and the registration of a session that
  was removed meanwhile, until their TTL (`leases.go:125`);
- a delayed checkpoint overwrites a newer one in the Gateway's table; the next
  heartbeat repairs it (`checkpoint.go:57`);
- a join and the deletion of a guild may wait for each other's rows; PostgreSQL
  aborts one of them.

`ToldOnce` says more than the documentation asks for: `docs/en/services.md:446`
promises delivery at least once and no general deduplication, so a repetition would
be no error. The filters that the nodes do have are what it is about.

In `Outbox`, `CommitRefused` is what becomes of the comment in `NotifyOutbox` that
"a notification failure must not roll back the business transaction": PostgreSQL
rolls a transaction back in which a statement failed, swallowed or not.

## Proofs

The theorems hold for every value of the constants that satisfies the named
`ASSUME` of the module, which TLC evaluates on every run. Each safety property is
proved from an inductive invariant, which TLC checked first, mostly on a larger
instance than the runs use. A proof has one step per action; what an action leaves
alone is covered by a frame lemma per conjunct.

| Proof module | Models | Theorems |
|---|---|---|
| `PartitionConsumerProofs` | `PartitionConsumer` | `TypeCorrect`, `OnlyCompletedIsCommitted` |
| `ConsumerFlowProofs` | `PartitionConsumer` | `PausesAlwaysHold`, `RecordsAreHandledInOrder`, `CommittedOnlyGrows` |
| `LogicalSessionProofs` | `LogicalSession`, `Checkpoints` | `ReplayWindowHolds`, `SessionTypeCorrect`, `StaleCheckpointsAreHarmless`, `BindingsStayServed`, `StreamsAlwaysContinue`, `AcksAlwaysReachBinding` |
| `SharedStateProofs` | `GuildVisibility`, `GatewayDrain`, `KeyedLimiter`, `Uploads` | `VisibilityTypeCorrect`, `NoStaleSnapshotKept`, `OneHint`, `StateIsHeld`, `SlotsAlwaysMatch`, `CapacityHoldsPerKey`, `UploadsStayConsistent` |
| `TransactionProofs` | `Outbox`, `OutboxRelay`, `OrderedLog`, `ChannelLayout` | `ReservationsAreUnique`, `CommittedEventsAreKept`, `EventsArriveInOrder`, `RelayImplementsLog`, `TransactionsNeverDeadlock`, `RedeliveryIsNotStale`, `EventsRebuildTheLayout`, `LayoutTypeCorrect` |
| `DeliveryProofs` | `Dispatch`, `DedupStore`, `Presence` | `CompletedRecordsReachSessions`, `DeliveriesAreNotRepeated`, `DedupIsExact`, `PresenceTypeCorrect`, `VersionsNameStatuses`, `VersionsOnlyGrow`, `TransitionsAreAnnounced`, `LiveUsersHaveStatus` |
| `AuthenticatorProofs` | `RefreshRotation`, `Credentials`, `Registration` | `TokensHaveOneSuccessor`, `RevokedForGood`, `HonestClientIsKept`, `LiveSessionsMatch`, `ProofsAreSpentOnce`, `InvitationsAreKept`, `VerifiedAddressesWereConfirmed` |
| `ContentProofs` | `Idempotency`, `Membership`, `Relationships`, `ReadStates`, `Mentions` | `KeysCreateOnce`, `DeletedGuildsAreEmpty`, `InviteLimitHolds`, `PairsAgree`, `DecisionsAreCurrent`, `ReadEventsAreCurrent`, `ExpandedRowsStayCurrent` |

### The arguments

**Partition consumer.** A commit reads an offset a mark stored, a mark reads the
record a worker holds, the worker got it from a channel `enqueue` filled.
`CommitInv` follows that path back: every offset on its way to the broker ends a
settled prefix (`CommitSourcesInv`), an active worker has everything before its
record settled (`WorkerInv`), channel, overflow queue and poll form one run that
ends at the fetch position (`StreamInv`), and `LifecycleInv` and `HoldInv` say who
may still act for the partition. `PauseInv` adds who may still mark a record (`OwnersAct`:
only the worker in the runtime's map or the one a revocation takes out), that no
reason and no backpressure outlives its assignment (`ReasonsMatch`), and that poll and
client buffer are bounded each on its own (`BacklogBounded`). `SerialInv` adds that a
worker's channel, and for the current one the whole run, starts behind the record it
took last. `ForwardInv` orders the offsets of the one worker whose watermark may still
be committed: committed <= in flight or pending <= watermark < record in hand < the
rest of the run. All theorems but those on types and pauses assume
`~PollSpansRebalance`; the other case is the finding above.

**Logical session.** The replay window (`WindowInv`) and the types need each other:
the prefix an acknowledgement covers exists only in an unbroken run. `EpochInv`
says that epochs grow with every binding, so an old checkpoint matches no newer
one. `BindingsInv` adds how far each connection has come (`ConnStages`): a
binding is created once and served only afterwards, and whoever has none has an empty
queue. `StreamInv` adds how far the session has come (`SessionStages`: nothing is
dispatched before READY) and that no frame, stream or resume position is ahead of it
(`FramesWithin`). Every action is then one of few kinds of move of a binding: it is
offered a frame, one is taken, it closes, or RESUME fills it with a replayed run, and
each kind has one lemma that keeps the stream seamless. **Checkpoints**:
`CheckpointInv` says that what is on its way was acknowledged on a connection of the
epoch it names (`CheckpointsWereTaken`), that a connection's positions are ordered
(`PositionsOrdered`), and that an answered batch has been applied if the session is
still bound to its connection (`AnsweredIsApplied`).

**Visibility.** `ReadsInOrder` says that a label is read before the channels it
labels; with it, `LabelsMeetRequired` (required revision <= label <= revision of the
channels) is kept by IDENTIFY, invalidation and install. `HintRecorded` ties the
hints sent to the entry's flag, and `ReferencesCounted` the counter to the set of
holding sessions.

**Outbox.** `TableInv`: a number is reserved only under its stream's row lock and
continues the committed run. `RelayInv`: what a worker holds is published up to its
predecessor, what it takes for delivered is published, and a missing row has been
published; the refinement of `OrderedLog` follows step by step. `LockInv`: advisory
locks are taken in ascending order (`AscendingLocks`), and a transaction that waits
for a row while it holds one reserves in several streams and has locked all their
users (`SeveralAreCovered`), so no two of those wait for each other, and along a
chain of advisory waits the numbers grow up to `MaxID`. This rests on
`SeveralStreamsAreLocked`: only the relationship calls reserve in several streams,
after `lockUserPair`. `SoleInv`: no row is older than what a worker is publishing,
and while the worker has its session it holds the lock of its shard, so what it is
publishing is still there (`WorksAlone`); no row is older than the event that reached
the topic last either (`LatestIsOldest`). A row that lands is then the latest event
again or a newer one.

**Delivery.** `ServedInv`: a Dispatcher is at most one record past the last one
completed (`AttemptsFollowLog`), what makes a node drop that record shows that it was
delivered or withheld, or that an accepted call will deliver it (`DropsAreServed`),
and so does an answer of the node (`ReachedAreServed`). `OnceInv`: a message that was
accepted is behind the channel's watermark until that expires, and in the duplicate
filter until its entry does, and either keeps it from being accepted again
(`MessagesPassOnce`); other records are remembered by recipient until an entry expires
(`UpdatesAreRemembered`).
`DedupInv`: a live entry is the last addition of its key, the last
addition is in some generation while it lives, and `maxExpiresAt` bounds its
generation, so a rotation drops nothing alive. **Presence**: the lock excludes other
writers (`Exclusive`), so the snapshot and the preference a call works with are
current when it saves (`SnapshotInv`, `PreferenceInv`), and whatever left the
service is the snapshot or older (`ObservedInv`). `VersionsNameStatuses` and
`VersionsOnlyGrow` assume that no mutation outlasts its lock. The last two theorems are
`EveryTransitionPublished` for every set of calls, sessions and versions; they assume
in addition that nothing fails. `AnnounceInv`: the newest public event is the
snapshot's, unless a call is about to publish it or a resolution recorded it.
`StatusInv`: a live session is in the sorted set or about to be put back by a renewal,
which writes outside the lock; the sets a call has read cover the live sessions unless
it listed them during such a renewal; and the snapshot has the status they call for
unless a call is still about to save it. `UnsetInv`: a user without a preference has
no session yet.

**Limits.** `LimiterInv`: all goroutines of a key use the entry the map has for it,
the map has no other entries, and `refs` counts their users (`EntriesAreShared`).
`SlotsInv`: a handler's stage tells its lease (`LeasesFollowHandlers`), and the counts
are the cardinalities of finite sets of sockets. `UploadInv`: while its connection
lives a task holds the lock its step needs, so the status it read is the row's, and
what it writes was decided from that status (`TasksFit`); an upload being created has
no row and no other task (`CreatorsAreAlone`); the holder of the quota's lock leaves
room for what it inserts (`QuotaIsKept`); a ready asset has its object
(`ReadyIsServed`). A task that has lost its connection, and with it its locks, may go
on outside the database, and the theorem covers that.

**Authenticator.** The row's previous token is the one before the current
(`PreviousIsBefore`), and the deadline a request read is still the row's
(`DeadlineIsCurrent`), because it is set once, before any token exists
(`TokensFollowLogin`). `CredentialsInv`: secrets, codes and tokens are given
out once (`SecretsAreFresh`), and what was accepted does not come back: a TOTP counter
is behind the factor's, a code is gone, a reset token was replaced or consumed
(`SpentIsOver`); `SessionsMatchCredentials` is inductive by itself: what a change
keeps takes over the new number, all else is revoked (`SessionsStep`). `RegistrationInv`: a call past the User service has its user, and its
invitation where one is needed (`CallsAreComplete`), an invitation is reserved for an
address it may be used with (`ReservationsFit`), a user redeems one (`RedeemedOnce`),
and verification tokens are those of registered users (`TokensFollowCredentials`).

**Content.** A claim follows the commit or the expiry of the one before, because
the claiming statements wait for the row (`KeyInv`). Whoever decides about a pair of
users holds both advisory locks alone, so the rows it read are still the committed
ones (`RelationInv`). Between the read of the guild and the commit a transaction holds
the guild's row (`MembershipInv`); the same for the row of a read state (`RowLocked`
in `ReadInv`). Every change of a message is one event, numbered by its revision, and
the last one tells whether the present content has mentions to expand
(`EventsFollowRevisions` in `MentionInv`).

**Channel layout.** A request past the guild's advisory lock
holds it, so what it has written was computed from the layout that is still committed
(`LayoutInv`). The placement functions are orders of the channels, given by the
channels ahead of each (`IsOrder`): counting those numbers the channels without a tie
(`OrderRanks`), which takes the finite-set theorems of the library in place of an
induction over sequences, also for the free slots of a reordering (`SlotsAreDistinct`).

### Only model-checked

- The liveness properties `OutboxDrains`, `KeptPartitionDrains`, `SessionEnds`,
  `DirectoryConverges`, `LeasesFollowSession`, `DrainFinishes` and `PrimaryReturns`:
  fairness and ENABLED are outside the prover. `NodeRoutes`, `SessionLeases` and
  `RateLimiter` have no other property.
- `EveryTransitionPublished` by its name: it guards an instance of `Presence` inside
  `MCDelivery`. What it says of that instance is proved of `Presence` itself.
  In the same way `realtime_converges` checks `SerialInOrder` of an instance of
  `PartitionConsumer`, and `RecordsAreHandledInOrder` proves it of the module.
- The four findings, which are counterexamples.

## Not modelled

`components` in `PROJECT.json` lists every part with its status, and `hazards` what
each is exposed to. Two thirds of the lines under `src/` are generated protocol code
(`src/gen`), which holds no logic of the system; the map covers somewhat less than a
quarter of the rest. What stays out:

- payload conversion, validation of fields, cursors and pagination, logging,
  metrics, configuration and process set-up;
- reads that change nothing (lists, searches, READY payloads), except where a
  decision rests on them;
- the API service, which translates requests into calls of the other services, and
  the Mailer, which holds no state;
- gateway tickets: one Redis key written with a TTL and read with GETDEL;
- direct-message channels and the Guild profile projector, whose steps are single
  conditional statements;
- the user's own presence update on its way through a Session node
  (`presence.go:88`), which is one call of the Presence service and is modelled
  there;
- migrations, except the triggers and constraints the models rely on.
