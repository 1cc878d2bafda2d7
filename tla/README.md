# A TLA+ model of regista

regista is an append-only work-item store: a Python kernel (`src/src/regista/kernel.py`) over
one PostgreSQL schema (`src/src/regista/schema.sql`), a command line over the kernel, and the
checks that guard its commits, its pushes and its releases.
A *work item* is moved through the states of a declared *workflow*; every move appends an
event and updates the item's current row, under a lease whose *attempt* number is a fencing
token. This directory models that code in TLA+, checks it with TLC on small instances, and
proves its central safety properties with TLAPS for every instance.

References below are to `kernel.py` unless they name another file.

## The system

| component | state it keeps | operations | what makes it correct |
|---|---|---|---|
| write path | `work_items_current`, `events`, `claims`, `claim_attempts`, `idempotency_keys`; row and advisory locks of open transactions | `create_work_item`, `claim`, `heartbeat`, `release`, `expire_leases`, `transition` | fencing order, one holder per attempt, live leases protected, keys used once and answered alike, history and projection agree, every event legal for its pinned workflow, no lasting deadlock |
| workflow registry | `workflow_definitions` | `register_workflow`, reads of a version | versions are dense and immutable, registering is idempotent, concurrent registrations agree |
| workflow validation, documents | none (the author's file) | `Workflow.validate`, `to_dict`, `from_dict`, `as_document`, YAML and JSON | nothing an author wrote is dropped, an accepted definition is written back unchanged |
| command line | exit status of each process | `init`, `workflow validate`, `workflow register`, reads | what is registered is what was read |
| replay | none (writes a report) | `replay`, `replay_all` | clean exactly when the history reduces to the projection |
| field and JSON gates | none | `_check_json`, `_check_size`, the canonical text | a value that passes is stored, hashed and read back as one value |
| discovery, paging | none | `list_items`, `available`, `owned`, `in_states`, `blocked`, `history`, `list_workflows`, `links_from` | a cursor neither repeats nor skips what was there |
| links | `work_item_links` | `link`, `remove_link` | as paging |
| pool, admission | borrowed connections, admitted connections, closing flag; the schema itself | borrow and return around each operation, `initialize`, `close` | a returned connection has no transaction, no write into a schema that was not admitted, no self-deadlock, initializers agree |
| release guard | the pin ledger and its git history, the package index | `check_published_migrations.py`, the jobs of `publish.yml` | one schema per kernel version for ever, a release installs what was committed |
| publication hooks | commits, branches, the remote, `publication.toml` | `pre-commit`, `commit-msg`, `pre-push` over the identifier gate and the plumbing guard | nothing unscanned is published unless somebody said so |
| health, examples, other tooling | none | reports, evidence, packaging | not models of state |

The operations of the kernel interact through the database only. Each public operation borrows
a connection (`_pooled_operation`, line 333), runs one transaction at READ COMMITTED and returns
the connection, which rolls back whatever is open. What makes the code hard:

* **Concurrency.** Statements of different calls interleave. Three kinds of locks order them:
  `SELECT .. FOR UPDATE` of the item, `pg_advisory_xact_lock` of an idempotency key, and the
  row lock any write to `claims` takes. `expire_leases` takes only the last one.
* **Time.** The database clock decides whether a lease is live. It is read when a statement
  runs, and the result becomes visible when its transaction commits.
* **Retries.** A caller that lost a reply repeats the call, maybe with a stale attempt, maybe
  after other writers moved on, and must be given the first answer.
* **Failure.** A call may end at any statement. It must leave nothing behind, locks included.
* **Versions.** Items stay pinned to the workflow version they were created under. The schema
  has versions too, and a connection that was admitted once is trusted for its life.
* **Two forms of one value.** What is hashed is what Python writes; what is read back is what
  `jsonb` keeps.
* **Checks that judge one thing and release another.** A hook sees an index, a worktree or a
  range of commits; a release job sees the package index some time before it uploads.

## The modules

* **`Contract`**: the data of the write path, and the rules that only look at data. `Merge`,
  `Valid`, `Legal`, `Moved` are the body of `transition` after its fence; `Fenced` and `Holds`
  the fence; `Digest` the request hash; `Rebuilt` what `_idempotency_result` computes from the
  history up to the keyed event. A JSON object of fields is a total function in which `Unset`
  means that the key is absent, different from `Null`.
* **`Kernel`**: the write path. The database tables are variables (`row`, `events`, `claims`,
  `last`, `idem`, `latest` for the registered versions, `now` for the clock), the locks are
  `itemLock`, `keyLock`, `claimLock`, and each client has at most one open transaction (`pc`, its
  request `req`, its uncommitted writes `draft`).
* **`Ledger`**: the abstract promise of the write path, without transactions, locks or a clock:
  each successful call takes effect at one instant, judged against the item as it is then.
* **`Refinement`**: `Kernel` instantiates `Ledger` (`AtomicEffect`).
* **`Registry`**: `register_workflow` run concurrently, step by step. **`Versions`** is what
  it promises, and `Registry` refines it (`Versioned`). `Kernel` sees a registration as one
  step, `Register`, which is what a `Publish` of `Versions` means for the write path.
* **`Documents`**: a workflow in the author's form, the program's and the registry's, the
  conversions between them and the checks on each. **`Authoring`** composes `Documents` with
  `Registry` and the processes of the command line.
* **`Replay`**: `replay` of one item in its REPEATABLE READ transaction, while writers commit
  and after an accident to the stored rows. Writes are atomic here, which `AtomicEffect`
  justifies. **`Drift`**: the operations of the bounded list that a replay reports (`_Drift`).
  **`Json`**: what a field may hold and what the database gives back for it; it gives `Replay`
  its gates and its `Stored`.
* **`Paging`**: a caller that reads rows page by page while others create and change them.
* **`Pool`**: one `Kernel` handle, its connections, the schema and `initialize`.
* **`Guard`**, **`Distribution`**: the checks of `check_published_migrations.py` on a checkout,
  its history and the index, and on the built archives. **`Releases`** composes them with a git
  history, the jobs of `publish.yml` and the index.
* **`Publication`**: the verdicts of the identifier gate and of the plumbing guard. **`Hooks`**
  composes them with a clone, its branches and a remote. **`Lineage`** is a walk over a history
  of commits, which the guard, `git log` and the hooks' ranges have in common.
* **`MCKernel`**, **`MCAuthoring`**, **`MCReplay`**, **`MCPaging`**, **`MCPool`**,
  **`MCReleases`**, **`MCHooks`** and the `MC*.cfg` files: instances for TLC.
* **`KernelProofs`**, **`HistoryProofs`**, **`AuthoringProofs`**, **`ReplayProofs`**,
  **`PagingProofs`**, **`PoolProofs`**, **`ReleasesProofs`**, **`HooksProofs`**: theorems.

A definition whose comment begins with *Bug:* (`Safe_AnyParent`, `Return_Unclean`, ...) is a
plausible mistake in the definition it is named after. No specification uses it; put in the
place of the right one, it must violate a property, which shows that the property can fail.

### State and actions of `Kernel`

| action | code |
|---|---|
| `Call` | a client calls an operation; it borrows a connection and opens a transaction |
| `FastRetry` | `transition`'s first, unlocked look at its key (2493) |
| `LockItem`, `LockNothing` | `SELECT .. FOR UPDATE`, and an item that is not there: a refusal, except in `release`, which does not look at the result |
| `LockKey` | `_transaction_lock` of the idempotency key (1707) |
| `DecideCreate`, `DecideTransition` | the second look at the key, every check, and the drafted event and row |
| `CommitWrite` | the commit of the event, the row and the key |
| `DecideClaim`, `Upsert`, `CommitClaim` | the live lease check and the new attempt; the `INSERT .. ON CONFLICT`; the commit |
| `DecideHeartbeat`, `CommitHeartbeat` | the conditional `UPDATE`; the commit |
| `DecideRelease`, `CommitDelete` | the conditional `DELETE`; the commit (of a sweep too) |
| `ScanPast`, `ScanTake`, `ScanEnd` | a sweep's `DELETE` visits the lease rows one by one in any order, waits for a row another transaction wrote, and rechecks its condition on the committed row after the wait, as READ COMMITTED does |
| `Abort` | a lost connection, an exception or a cancelled statement at any stage; the rollback |
| `BreakDeadlock` | PostgreSQL's deadlock detector |
| `Register`, `Tick` | another client registers the next version; time passes |

What a transaction has written is in its `draft` until the commit, so other transactions see
committed data only. All of a transition's reads after its fence are one step: the item lock
protects the rows they read, or the rows never change (definitions, the target's type, the
existence of an item). The decision and the commit are separate steps, and time, sweeps
and every other call can come between. `Upsert` reads the clock anywhere between the decision
and the moment it gets the row, because the statement fixes its values before it waits.
`BreakDeadlock` rolls back any member of a cycle; which one PostgreSQL chooses does not matter
to a property.

Two constraints of the schema are backstops here and never fire, which the lock discipline
is responsible for: the unique `(work_item_id, event_seq)` of `events` and the primary key of
`idempotency_keys`. The model has no such guard, so `ReplayClean` and `KeyUsedOnce` show that
the locks alone suffice. The attempts of the requests, their keys and their
reviewed sequence numbers are kept in the model's events as history for the properties; the
real event rows do not hold all of them. The variable `told` is also history: the answers that
the successful calls with a key returned. `actor_kind`, payload texts, event hashes and
timestamps other than a lease's end are left out, as nothing the properties tell apart depends on them.

### The other modules

`Registry` has one transaction per client (`pc`, `req`), the table (`registry`, by name and
version), the advisory lock of each name and the version a transaction `choice` has inserted but
not committed. `Lock` is `_transaction_lock` (1804), `Choose` the comparison with the newest
version, the assertion and the insert (1805-1822), `Commit` the commit. The table has a
primary key and no other rule; that versions are dense and no answer is overtaken comes from the
lock alone. A definition is an opaque value, because only its content hash is compared.

In `Documents` a text keeps what a parser may lose: the blocks above the last one of the same
key, anchors, unknown keys. `Parse` is `load_workflow_document` (for YAML, `BadYaml` is
`_NoDuplicateKeyLoader`), `Accepts` is `validate_workflow_document` with `Workflow.validate`
(`Validates`), `Build` is `_build_workflow`, `AsJson` and `FromJson` are `to_dict` and `from_dict`,
`AsDocument` is `as_document`. `Authoring` adds the file, which is edited, and overwritten by
exports, at any time; processes that connect, load, and register or validate; programs that call
`register_workflow` with what they built or read; replies lost after the commit (`Lose`); and
kills. It instantiates the registry's definitions with those that the texts stand for.

`Replay` keeps the stored rows (`events`, `row`) beside what they would be without accidents
(`trueEvents`, `trueRow`). A hash is modelled by the value it is the hash of, so equal hashes
mean equal content. The hash is taken of the values the caller passed, and the row keeps
`Stored` of each. An `Accident` loses, exchanges or alters rows and recomputes no hash; the
documentation says that a rewrite with recomputed hashes, and one that changes history and
projection alike, is beyond the chain, and the model makes none. `ReadProjection` is the first
statement, which fixes the snapshot; `OpenCursor` the second, which streams the events of that
snapshot. `ReadEvent` is one turn of the loop and `EndStream` the comparison after it; each
puts its messages into `pending`, from where `Note` (`append`) and `Lead` (`important`) move them
to the report one by one. `About` names each check per event, in the order of the code, and
`Against` the comparison with the projection. Writers and accidents go on until the cursor is
open; what they do later cannot reach the replay. `notes` and `heads` are history: how many
messages were appended, and which were put in front. In `Drift`, `Summary(n)` stands for the text
that counts what was left out.

In `Json` a value is a tree of words, numbers, lists and objects; a number is a digit times a
power of ten. `CheckJson` and `Size` are the gates, `Reloaded` what `jsonb` and `json.loads` make
of the text. `StoringSettles`, an assumption TLC evaluates on a set of samples, says that a value
that came back once passes the depth and type gate again and comes back the same for ever after.

`Paging` separates `Insert`, where a row gets its place in the order, from `Commit`, where it
becomes visible, so rows become visible behind a cursor that has passed them. `query`, chosen
in `Init`, is what is paged: items by `(created_at, work_item_id)`, `replay_all` by id, a history
from either end, links, or workflow versions. The filter is the set `matching`, which `Change`
alters at any time: what moves an item into a filter or out of it (a transition, a lease, its
expiry), or makes and removes a link, is left open. The events of one item are inserted one
after the other and in order (`Turn`), because their writers hold the item's lock.

`Pool` gives every thread the stage of its operation (`pc`), the connection it `has` and how it
went (`out`). `Get`, `Grow`, `Timeout`, `Check` are `getconn` with its check; `Begin` and `Admit`
`_begin_operation` and `_admit_connection`; `Gate` `_require_writable_schema`; `Lock`, `Look`,
`Create`, `Install` the stages of `initialize`; `Return` the `finally` of `_pooled_operation` with
`reset_connection`; `Nested` the refusal of an operation inside another. `Interrupt`, `Broken`
and `Lose` end an operation anywhere. `Drop`, `Occupy` and `OtherBuild` are other sessions, which
wait where PostgreSQL makes them wait: `DROP SCHEMA` for every transaction that has read a relation
(`touched`), a second build for the advisory lock. `current` and `refused` are history: has this
connection seen the schema as it stands, and did it turn it down.

In `Guard` a tree is its `[project]` table, its package files, the pin ledger and whether a
retired directory exists. `CheckTree`, `CheckPinHistory`, `CheckRelease` are the subcommands;
`Revisions` is what `git log -- <ledger>` names, with its simplification of merges.
`Distribution` has `CheckDist` and what the build backend makes of a tree. In `Releases` a run
is `Verify`, `Build`, then `UploadWheel` and `UploadSdist` in either order, any of which may be the
last thing it does; nothing orders two runs, as `publish.yml` names no concurrency group.
`Dists` says what a build may leave in `dist/` beside the honest result.

In `Publication`, `Visibility` is `_declares_public`, `AbsentIsSafe` is
`_absent_declaration_verdict`, `IdentifierGate` the verdict of any scan, `PlumbingPasses` the
plumbing guard. `Hooks` has the operations of git that run a hook, or that run none where one
might expect it (`Merge` without conflicts runs no `pre-commit`), and those of other clones.
The index, the worktree, the environment and what GitHub answers are inputs of each operation,
since nothing ties them to the last one. `Outgoing` is the range `pre-push` computes. `how`, in a
commit, and `loose` and `strangers` are history: what let a file pass, and which commits a remote
got without a look at their message or their author.

## What TLC checks

| run | question | bounds |
|---|---|---|
| `leases` | Can two actors, or delayed calls, get past the fence of one item, is every retry told the same, and do the transactions implement `Ledger`? | 2 clients, 1 item, clock 0 to 2 (ttl 1 and 2, so a lease can end and be renewed), 2 attempts, 3 events, 2 keys |
| `writes` | Do history and projection agree, is every event legal, and do references resolve with the right type? | 2 clients, 2 items of 2 types that refer to each other, 4 events, 2 workflow versions, a field that is set, null, cleared and required |
| `progress` | Which calls can wait in a circle, does a key take effect once, and does every call end? | 2 clients, 2 items, all kinds of locks, 1 tick, fairness |
| `authoring` | Is anything an author wrote lost on the way to the registry or back, and do concurrent registrations give dense, immutable versions, whatever is killed or lost? | 2 processes, 36 texts, 2 versions |
| `replay` | Is a clean report given exactly for an undamaged item, and is every diagnostic shown or counted, with the projection's on top? | 1 item, 4 events, 1 field, 2 moves, 1 accident at any point of the history, writes before and during the replay, a report of 3 |
| `paging` | Does paging repeat or miss a row, or leave a gap in a history? | 4 rows at 2 instants (so ties), pages of 2, 6 queries |
| `pool` | Is a connection ever shared, inherited with a transaction, or trusted too long; do initializers agree; does every operation end? | 2 threads, 2 connections, 2 schema versions, 1 change by others, 1 lost connection, fairness |
| `releases` | Can two releases disagree, or install something else than was committed? | 2 overlapping runs, 4 commits with merges, trees that keep, append, rewrite and drop a pin, 12 kinds of build |
| `hooks` | Can removing a declaration disarm the hooks, and what can reach a commit or the remote unscanned? | 1 clone, 2 branches, 1 remote, commits and faults in them together 3 |
| `heartbeat` | Is an expired lease dead for good, as documented? (It is not.) | as `leases`, 1 event, clock 0 to 3 |
| `numbers` | Does every value that passes the gate survive storing and hashing? (Not every number.) | as `replay`, no accident, numbers at the limit |
| `depth` | Is the gate on the way in the one on the way back? (Not in depth.) | as `replay`, no accident, a value of 4 levels, limit 4 |

**Why the bounds are enough.** The bounds of `Kernel` are `MaxTime`, `MaxAttempt`, `MaxEvents`
(guards of `Tick` and `Room`), and the number of items. They let each race happen at least once
with something before it and after it: two attempts and three events allow write, takeover, write,
stale write; two ticks allow a grant, a renewal, an expiry and a second grant. Two clients
suffice for a race of two calls, and for a circle of two waits. Clients call anything from
the run's set of requests at any time, so repeated, delayed and stale calls are ordinary
behaviours. Requests that would exceed a bound are not made, and a call that was made always runs
to its end.

In `Registry` and `Authoring`, `MaxVersion` stops new calls; two versions let content be
replaced and offered again. The 36 texts differ from a sound one in one place each, and cover
every clause of `Accepts`, `Validates` and `Parse`. In `Replay`, a creation and three moves leave a
damaged event with a predecessor, a successor and a later write. `MaxDrift` is 3 there (100 in the
code), the least that holds what a replay puts in front; one damaged event raises enough messages
to pass it, so the summary is written, and rewritten, by both operations. The gate admits 4 levels
and 40 bytes there (32 levels in the code): only the distance from the limit matters. In
`Paging`, four rows make two full pages, between which a row commits on either side of the
cursor. In `Pool`, two threads that both need a connection, while one is lost, exhaust the pool; one
change by another session can fall before, between and after any two steps. In `Releases`, four commits
make two lines and a merge. In `Hooks`, `MaxWeight` counts each commit and each thing to find
in it (a name in a file, in a message, a foreign author): three commits make a chain, a fork, an
amendment or a merge with nothing to find, two leave room for one fault, below the tip or
hidden by an amendment; that is where the checks differ from their mutants.

`replay`, `numbers`, `depth`, `paging` and `releases` switch the deadlock check off, since they
stop when the bounds are reached and the caller has ended.
Everywhere else a state without a next step would be reported.

**Symmetry** is used for clients and runs in `authoring` and `releases`, where no property is
temporal beyond a step and no constant tells the members apart.

**Fairness.** `FairSpec` of `Kernel` assumes weak fairness of a transaction's next statement (the
server runs what can run) and of the deadlock detector, and strong fairness of a statement that
waits for a lock: PostgreSQL queues the waiters of a lock, so a waiter is not overtaken for ever.
Nothing is assumed of clients, connections, registrations or time. `FairSpec` of `Pool` assumes
the same of statements and of the advisory lock of `initialize`, and that the pool opens the
connections it may. No timeout is assumed to fire: that every operation ends must not depend on
one.

**Disagreements between code and documentation.** Three have a run.

* `heartbeat`'s docstring (2153) says that expiry is terminal and that a dead lease is never
  revived. The statement decides on a live lease, but the new end becomes visible when the
  transaction commits. In between, the old end may pass, and `lease()`, `available()` and `health()`
  report a dead lease that is live again later under the same attempt (`DeadLeaseStaysDead`). No
  write slips in during the interval, because the heartbeat holds the item lock; that part is
  `LiveLeaseProtected`.
* `_check_json` (378) stands there so that the stored and the hashed bytes cannot disagree. A float
  from 1e16 on, and -0.0, pass it, are hashed as Python writes them and come back from `jsonb` in
  another spelling: the replay of an untouched item reports an altered payload (`numbers`).
* The same gate counts levels from a field's value when a value is written, and from the whole
  payload when an event is read (1337). A value at 31 or 32 levels (30 to 32 at a creation) is
  accepted, replayed as malformed, and an idempotent retry of its write raises
  `InvalidFieldError` (`depth`).

`Kernel` has no such values: its field values stand for portable ones. For the same reason it
does not show that a stored number may be longer than the one that was written, so that a row can
outgrow `MAX_JSON_BYTES` and refuse every transition that does not unset the field, nor that a
string with U+0000 passes the gate and fails with an error of the driver.

Others were met while modelling, and have no run of their own:

* The docstrings of `Workflow` (762) and `register_workflow` (1795) say that a definition read
  back with `get_workflow()` round-trips. The code compares with the newest version only (1817,
  1833): an older version still *is* the version it asserts, and is refused as new content.
* `docs/operations.md:23` says that a connection is admitted before every operation; an
  admitted one is not looked at again (1559, 1618), only the version is, before a write.
  `WriteAdmitted` says what is left of the promise.
* `docs/spec.md:60` refuses duplicate keys; that holds for YAML. `json.loads` (1241) keeps the last, so
  `authoring` has no JSON text with a key twice: `NothingDropped` would not hold for it.
* `as_document`'s docstring (974-985) says that its result loads again; a workflow built in
  Python may hold what the document's schema refuses (a workflow without transitions, for one).
  `ExportsReload` therefore speaks of what came from texts.

**Behaviours to know.** An item is stamped before it commits, so it can appear behind the
cursor of a caller that pages by creation time, who will not see it in this listing.
`NoneMissed` therefore promises the rows that were visible and matched from the start. For
`replay_all` the documentation says so itself.

A write decided under a live lease may commit after the lease
expired and even after a sweep removed its row: a sweep takes no item lock, so it does not
drain a write in flight as `release` does. `WriteNotOvertaken` therefore says that the newest
*attempt* is the write's own, not that the lease row is still there.

Exit status 2 of `workflow register` may follow a registration that was committed and whose
reply was lost. `cmd_workflow_list` and the links of `cmd_show` end at the default page limit and do
not say so.

`git log` follows one parent of a merge that kept that parent's ledger, so a pin made on the other side is not
compared (`check_published_migrations.py:877`); with overlapping runs, two releases can then give one
kernel version two schemas. `Succeeds` speaks of releases the check saw, `OneLine` of overlapping
ones on a line without merges.

The hooks trust what they are told: `GATE_ALLOW_NO_DENYLIST` with a blank denylist passes every
check of the gate, the guard of reserved paths included; `pre-push` reads `publication.toml` from the
worktree, not from the commits that are pushed. `git commit -m` keeps lines that begin with `#`,
which `commit-msg` does not scan (`check_committed_identifiers.py:1000-1003`); `pre-push`
does. A merge without conflicts runs no `pre-commit`. A directory named `publication.toml` makes the
plumbing guard pass and the gate refuse. The messages of annotated tags are not scanned.
`CommitsClean`, `MessagesScanned` and `AuthorsChecked` say what holds beside these.

## What is proved

`KernelProofs` proves, for every set of clients, items, keys, requests and every workflow that satisfy
the named assumptions of `Contract` and `Kernel` (what a request and a definition look like, and that
the null values are none of the others):

* `TypeCorrect`: `Spec => []TypeOK`
* `FencingOrdered`: the tokens in an item's history never go back
* `WritesNotOvertaken`: what a transition decided about the lease still holds at its commit
* `AttemptsFresh`: an attempt number is granted once
* `OneHolder`: all writes under one attempt are one actor's
* `LeasesProtected`: a live lease is never replaced, only its holder's release ends it

All six follow from one inductive invariant, `Inv == TypeInv /\ FenceInv`. The fence holds
because of facts about transactions in flight, which the properties do not mention:

* `Held`: a call past its lock stage holds the item lock, and a written lease row is locked by its writer;
* `Pledged`: a claim between its decision and its commit carries the attempt `last + 1`, and
  the lease it replaces is not live;
  a heartbeat's draft is the committed lease with a later end;
  a sweep or a release only took rows it may take;
* `Newest`: a lease row's attempt is the item's newest, and a transition about to commit has
  that attempt, or none while there is no lease;
* `FencingOrder` and `Attributed`: every attempt in the history was granted, and to whom.

`FencingOrder` alone is not inductive: a transition waiting to commit could hold any attempt;
`Newest` says it is the newest, and `Held` that no claim can change that before the commit. The
proof has one step per action.

`HistoryProofs` builds on `Inv` and proves the rest of the write path's safety, for the same
constants: `ReplaysClean`, `HistoriesLegal`, `ReferencesResolve`, `ContentReviewed`, `KeysUsedOnce`,
`RetriesAgree` and `SweepsOnly`. They follow from one more invariant,
`WriteInv == DataInv /\ TxInv /\ LockInv`:

* `DataInv` is what the commits leave: every history explains its row and every event in it is
  allowed (`Histories`); a key in a history is in the table, for that event and no other
  (`KeysRecorded`), and an entry of the table names an event that is there (`KeysPoint`); what was told
  for a key is what `Rebuilt` gives now (`Answered`). None of these survives a commit unless the
  commit was decided against the tables as they still are.
* `TxInv` says so: a decided write is still the one to make, its key is still unused and
  its draft is what the rules make of the row as it is (`Ready`). The item lock keeps the row, the
  key lock the key (`Keyed`), and a generated id is given once (`Apart`).
* `LockInv` says who holds which lock at which stage, from which `SweepsOnly` follows: a member of a
  circle holds what another waits for, and only a sweep of the whole table waits with a lock that
  others wait for.

What `ReducedState`, `ReducedFields` and `Rebuilt` return is defined by the latest event, or the
latest mention of a field, at or before a sequence number. So no recursion is needed: appending an
event changes a reduction by one merge (`StateUpto`, `FieldsNext`), earlier reductions stay
(`FieldsKept`), and that a latest mention exists is the well-foundedness of the natural numbers.

From both invariants follows `EffectsAtomic` (`Spec => AtomicEffect`), the last theorem of the module: a
commit is one step of `Ledger`, because `Ready` says that the rules give the same answer now as when it was
decided; a retry is answered with what the first call was told; every other step is invisible.

`AuthoringProofs` begins with the registry alone: `RegistryImplements` (`Spec => Versioned`, a
refinement: a `Choose` that finds its content and a `Commit` are steps of `Versions`, all others
stutter) and `AssertionsHonoured`, for every set of clients, names and definitions. The invariant
`Inv` says that whoever has left the lock stage holds the lock of its name (`Held`), and that a
transaction about to commit has chosen the next version and new content (`Chosen`), which the
lock keeps true until the commit. `AuthoringImplements` and `AuthoringAssertions` state the same of
`AuthoringSpec`, where clients are command-line processes and programs that are killed at any
point, and a commit may lose its answer. `AuthoringInv` adds where a process can be in its command
(`Stage`) and that a process in the store registers the definition of the text it read (`Registers`).

On that rest `NothingIsDropped` and `EveryExportReloads`, for any set of texts that are what
parsers return (`TextAssumption`: where a text parses, its states and transitions are lists and its
name is a name; `DefinitionAssumption`: the definitions are those of accepted texts;
`AbsentAssumption`: no document is the value that stands for none). Both follow a text through
the conversions. Whatever was built from an accepted text has the shape `Shaped` (`BuildShaped`). A
workflow of that shape that passes `Validates`, written out as a document, is accepted
(`ExportAccepted`) and builds the same workflow (`RoundTrip`), and so for what the registry stores
(`Reloaded`). `MentionedOnce` and `DocumentKept` say that all a text mentions stands in its
document, and all a document says in the definition. `NothingIsDropped` has the hypothesis `Unrepeated`,
that no JSON text has a key twice: `json.loads` keeps the last one, and without the hypothesis the
statement is false. The texts of `authoring` satisfy it (`SoundTextsAreUnrepeated`). The lists of initial and terminal states are recursive functions (`Selected`),
whose range is proved by induction over the length (`SelectedRange`).

`ReplayProofs` proves three things. Of the report, for every limit of at least three, which is
what a replay puts in front (the code's limit is 100): `EveryMessageCounted` and
`ProjectionVisible`, from `ReportInv`, which adds that messages go in front only after the stream
and are three at most. And `SoundHistoryQuiet` (`Portable => (Spec => []NoFalseAlarm)`), for every
set of moves, fields and states and every length of history. `Portable` is what `numbers` and
`depth` show to be missing in the code: a value that passes the gate comes back as it is, and
passes the gate inside a payload too. The values of `replay` satisfy it (`PlainIsPortable`). `StoreInv` says that without
an accident the events explain the row: event after event is well formed, linked to the one
before and allowed by its move, and there is a list `past` of the fields after each event whose last
is the row's. `Agrees` says of a replay of such a snapshot that after `count` events it stands where
the item stood then, and has said nothing. So no recursion over the history is needed:
writer and reducer are compared one merge at a time.

The third is `EveryDamageReported`: for `Portable` values and at most one accident
(`MaxFaults \in {0, 1}`), a replay of damaged rows says something, however long the history, wherever
the damage is and whatever is written after it. With two accidents it is false: after the last event
is lost and the row's last sequence number set back, nothing contradicts anything. `StoredInv`
says that stored rows are either `Whole`, where the events are the true ones and reduce to the row that
should be there, or `Wounded`, where the row is right and the events are too few or one of them is
`Off`: its number, hash, link or place is wrong. A writer that goes on from damaged rows mends
neither, because what is `Off` depends on an event and the one before it only (`OffStays`). That every
accident leaves such an event rests on hashes being equal for equal content only, and on a chain that
grows with each link (`AccidentShows`). The replay's side is `Quiet`: a replay that has said nothing
so far has seen no event that is off, and has reduced those it saw to what any list of their merges
says. `HashAssumption` says that damage is no hash, and that no chain value is NULL.

`PagingProofs` proves `ItemsNotRepeated`, `ItemsNotMissed` and `HistoryReadWhole` for every set of
rows, page size and query. What was given lies at or before the cursor (`AtCursor`), what is owed
was given or lies behind it (`Owed`); a page is the first part of a strict total order (`Ordered`);
the events of an item come in order (`Ordinal`).

`PoolProofs` proves the six safety properties of `Pool` for any number of threads, connections, schema
versions, changes by others and lost connections (TLC has two, two, two, one and one):
`ConnectionsExclusive`, `NoSelfDeadlock`, `WritesAdmitted`, `RefusalsKept`, `InitializesWhole` and
`InitializersSucceed`. `PoolInv` keeps threads, queue and connections apart: who waits is in the
queue once and has no connection. `SchemaInv` adds what a connection may have seen. An admission that
is still current means a whole baseline, and a refusal that still stands means a schema the connection
cannot write into (`Known`). A thread past admission that is still current saw no half baseline
(`Relies`). While a thread creates, no other does (`Creation`); and if another session put
something into that schema meanwhile, no connection is admitted, so that none can take the result for
the one it knew. `RefusalsKept` rests on that last part.

`ReleasesProofs` proves `ReleasesSucceed` and `ReleasesInstallTheCommit` for any trees, builds,
number of commits and overlapping runs. The invariant `IInv` keeps for a run what its checks found:
its tree passed `CheckTree`, its ledger names the pair of every release it saw (`Checked`), and its
wheel is bound to that tree (`Bound`). Both stay true while the run waits, because commits are never
rewritten and the index never changes a wheel. `OneLineAgrees` adds what a run did *not* see: two
releases agree if one was made from a line without merges that contains the other's commit. `LineInv`
says of the commit of every run and wheel that, if no merge lies behind it, its ledger keeps
every pin ever committed behind it (`Bequeaths`): on such a line `git log` names every revision of
the ledger, so none is left out of the comparison.

`HooksProofs` proves the four safety properties of `Hooks` for any branches, remotes, number of commits
and faults in them: `NeverSilenced`, `CommitsStayClean`, `EveryMessageScanned`, `EveryAuthorChecked`, and
`HooksTypeCorrect`. A walk over a history is defined by recursion over ancestry. `WalkStep` shows that the
definition has a solution (commits come after their parents), `Visits` that it is the least set closed
under the steps of the walk, and `VisitsKept` that later commits do not change it; nothing after
these lemmas mentions the recursion. The invariant is
`HInv == History(graph) /\ Places /\ Clean(graph) /\ AllLooked`. `Clean` says of
each commit whose file is not plain where that comes from (`Origin`): some commit with the same
file was made with the bypass or, if the file only has a name in it, without a denylist in a tree
that is not declared public. `AllLooked` says that all messages and authors reachable from a remote branch *or a
tracking branch* were looked at: the property mentions remotes only and is not inductive, because a
push leaves out what the tracking branches reach. `NeverSilenced` compares the answer of
`_absent_declaration_verdict`, found commit by commit, with where a line of commits without a
declaration leads.

Model-checked only: the liveness properties (out of the provers' reach, as is `ENABLED`), and what is
false (`DeadLeaseStaysDead`). `numbers` and `depth` show what `Portable` excludes.

## Not modelled

* Statements have no duration; a lock timeout is an `Abort`. The server is assumed not
  to lose committed data.
* What each query selects, `health`, `blocked`'s join, and the checks of names, limits and
  arguments before a transaction: one read or none, no state.
* The refusal of a link to an unknown item, or of a second equal one: one constraint of the schema.
* In the pool, connections opened ahead of need (`pool_min_size`), and a `KeyboardInterrupt` in
  the few instructions between `getconn` and the `try` that returns the connection.
* In documents, the rules of a field schema (one flag) and the wording of answers.
* In the release guard, archive containers, member names as text, licences, the rewriting of
  git objects, and the environment the script is started in.
* In the hooks, how a name is found in a text, encodings, unreadable blobs, incomplete clones, tags,
  detached heads and rebases.
* The examples are callers of the kernel, and their calls are among the requests of `MCKernel`.
  Evidence generation (`prove_f1.py`), qualification of a built wheel (`qualify_distribution.py`) and
  the plan's records (`check-conflicts.py`) run external commands in sequence and keep no state.
