# TLA+ verification of Unified Search & Safe Send

The repository (`src/`) is a Python service. A search fans out over Gmail, Slack
and the web as background jobs, and a *safe-send gate* delivers a reply through
Gmail or Slack. The promise worth verifying is the gate's: it "will not let you
send twice or send by accident" (`src/README.md:3`), although workers crash, leases
expire, answers get lost and operators retry by hand. This project models the
gate with the job queue and the sweeper below it, checks it with TLC and proves
its safety properties with TLAPS for any number of workers, requests, retries
and crashes. A second group of modules covers search: the fan-out, what it promises, and
what a client sees of it. A third covers the connections whose tokens both of them use.
All three are proved about; section 4 says what, and what is left to TLC.

## 1. Inventory

Paths are relative to `src/packages/core` unless they start with `apps/`.

| Component | Source | State | Operations |
| --- | --- | --- | --- |
| Send gate | `send/service.py`, `send/claim.py`, `send/digest.py` | `drafts`, `sends`, `send_resolutions` | `create_draft`, `update_draft`, `send_draft`/`claim_send`, `operator_retry`, `resolve_send` |
| Send handler | `send/handler.py` | `sends`, a worker's locals | `run_send`, `reconcile_send`, `_commit_dispatch_attempt`, `_mark_delivered`, `_mark_uncertain`, `_set_terminal`, `_finalize_failure` |
| Send providers | `send/gmail.py`, `send/slack.py`, `providers/*.py` | at Gmail: drafts; at Slack: posted messages | `prepare`, `send`, `probe_by_fingerprint`, `discard` |
| Job queue | `jobs/queue.py`, `jobs/backoff.py` | `jobs` | `enqueue`, `claim`, `succeed`, `fail`, `select_stale`, `requeue`, `park`, `resolve`, `operator_retry` |
| Runtime, sweeper | `jobs/runtime.py`, `jobs/recovery.py`, `apps/worker/main.py` | leases, the advisory lock | `run_once`, `_execute`, `sweep`, `inline_loop` |
| Search fan-out | `adapters/orchestrator.py`, `jobs/handlers.py` | `searches`, `adapter_runs`, `search_results` | `plan_search`, `execute_adapter_run`, `close_search_if_complete`, `load_snapshot` |
| Ranking | `adapters/merge.py` | none | `recency_weight`, `blended_score`, `rank_within_source`, `merge` |
| Event stream | `apps/api/routes_v1.py` | what the generator has seen | `stream_search_events`, over `load_snapshot` |
| Connections | `connections/service.py`, `store.py`, `state.py`, `oauth.py` | `connections`; grants at the provider | `begin`, `complete`, `upsert`, `disconnect`, `mark_success`, `mark_needs_reconnect` |
| Tokens | `connections/tokens.py`, `providers/*.py` | the advisory lock of a connection | `get_token`, `_refresh_google`, `expire_access_token`, the 401 ladder |
| Key rotation | `security/crypto.py`, `scripts/rotate_keys.py` | the mounted keyring, what each process has cached of it, `key_version` | `get_keyring`, `rotate` |
| Error taxonomy | `errors.py` | none | `classify` |
| Adapters | `adapters/*.py` | the mode a run reports | `search`, Slack's `_scan` |
| API, security, web client | `apps/`, `security/` | `api_keys` | routing, sign-in, display |

How they interact. An API request claims a `sends` row and books a job in one
transaction. A worker claims the job (commit), runs `run_send`, which reads and
writes the `sends` row in transactions of its own and calls the provider between
them, and then finishes the job. The sweeper takes jobs whose lease has expired
and runs `reconcile_send` on their sends before it requeues or resolves them.
Operators retry failed sends and resolve uncertain ones by more API requests. All
of this is coordinated through rows only: compare-and-swap updates, one
partition per connection (`jobs_running_partition_uniq`), leases. A search is the same queue
without partitions: `plan_search` books a job per run, each run stores what its source found,
and clients poll or stream a snapshot of it. Adapters and send providers fetch their access
token at the moment of use with `get_token`, which refreshes it under a lock per connection,
while the owner of the account may authorize it again, disconnect it or revoke it.

What is hard. Everything between two transactions: deaths, cancelled handlers,
lost or late answers, a lease that expires on a worker that is merely frozen, an
edit of the draft, an operator who acts on a state that has moved on; and the
budgets (6 attempts, 3 probes), where several mechanisms meet. The list in
`PROJECT.json` under `hazards` gives each with its line.

What makes each part correct:

* gate and handler: one delivery per confirmation, of the confirmed content; a row
  in flight always has something to move it; a row's state never claims more than
  the provider's evidence supports;
* queue and sweeper: one execution per partition, attempts bounded, every job
  eventually at rest;
* search: `finished_at` is written once, when no source will change any more, and
  is eventually written; results are stored whole, once, and labelled with how they were found;
* snapshot, ranking, stream: no payload contradicts itself, no source crowds out another,
  and whoever listens to the end has heard everything;
* connections: a superseded refresh token is never shown again, a healthy connection is not
  marked, a disconnected one holds nothing, and no step loses a token that cannot be had again.

## 2. Modules

| Module | What it is |
| --- | --- |
| `SafeSend` | the system: gate, handler, queue, sweeper and provider around one send |
| `MCSafeSend` | the same for TLC, with its symmetries |
| `SafeSendProofs` | facts about the row updates; `TypeCorrect` |
| `SafeSendSafety` | the inductive invariant and the at-most-once theorems |
| `AbstractSend` | what the gate promises of one send: who may move it, and on what grounds |
| `AbstractDraftSend` | what it promises on Gmail: one draft on record, which leaves once |
| `SafeSendRefinement` | `SafeSend` implements `AbstractSend` on Slack and `AbstractDraftSend` on Gmail, step by step |
| `AbstractSearch` | what a search promises: runs start, store or fail, and the search is closed |
| `SearchFanout` | one search: its runs and jobs, workers, retries, closing; implements `AbstractSearch` |
| `SearchFanoutProofs` | what is proved of `SearchFanout`, the refinement included |
| `SearchView` | snapshot, ranking, merging and event stream on top of `AbstractSearch` |
| `SearchViewProofs` | the snapshot's consistency and the stream's completeness |
| `SearchPageProofs` | the page: sorting, buckets, the deal by rounds, and what a reader of it can rely on |
| `Connections` | the connections of one user: tokens, workers, owner, provider, keys |
| `ConnectionsProofs` | its types, what each action does, `RefreshTokenKept` |
| `ConnectionsSafety` | the lock, the stampede, repair, disconnect, rotation, consent |
| `MCSearchFanout`, `MCSearchView`, `MCConnections` | the same for TLC |

### SafeSend

One draft and the one `sends` row its idempotency key allows; every further send of
the same connection would only take turns with it in the partition. State and code:

| Variable | Code |
| --- | --- |
| `draft` | the content of the `drafts` row; its identity stands for its digest |
| `send` | the `sends` row: state, `confirmed_sha256`, `dispatched_at`, `provider_draft_id`, `provider_message_id`, `reconcile_attempts` |
| `jobs`, `njobs` | the `jobs` rows booked for the send: state, attempts, `max_attempts`, `claimed_by` |
| `loc` | per worker and for the sweeper: where it is in `run_send`/`reconcile_send`, and what it has read and not yet used |
| `call` | per API request: what it read before its write |
| `gdrafts`, `gone`, `delivered`, `wire` | Gmail's drafts, those sent or deleted, messages accepted, requests abandoned but not forgotten |
| `forced`, `requests`, `crashes` | an operator's effective resends; two bounds |

`dispatched_at` is a time that only ever matters against messages, so it is
the number of messages accepted when it was written. Draft and message ids are
positions in `gdrafts` and `delivered`.

Each transaction and each provider call is an action. Between a read and the write
that depends on it anything may happen: `OperatorLoads` and `OperatorRetry` are two
actions because `operator_retry` reads, decides and updates; `CommitDispatchAttempt`
goes on to the call although its update may have matched nothing, because the code
does not look. A cancelled handler skips to `queue.fail` as `asyncio.wait_for` makes it;
a crash forgets the locals and leaves the rows. `queue.claim` is one step: of two
claims racing for one partition the unique index lets one commit. `FinalizeFailure` is
the ladder of `_finalize_failure`, whose last rung runs `reconcile_send` in the
context `"ceiling"`; `After` says where each of the three callers of
`reconcile_send` goes with a verdict.

The faults are a constant, so that a run or a theorem says which ones it admits:
`zombie` (a lease expires under a live worker), `late` (an abandoned request is
accepted later), `busy` (the Slack probe's page is full of newer messages),
`bad_body` (an empty or unreadable answer), `cancel`, `db_error`, and `same_pid` (two
workers are tasks of one process, so `claimed_by` cannot tell them apart). Crashes,
lost answers, refusals, failed probes and racing requests are always possible.

Left out of it: wording, errors recorded for display, `run_at` and backoff (a ready
job may be claimed at any time, which includes every schedule), the deletion of drafts
(nothing in the service deletes one), and sends whose row has vanished.

### AbstractSend

The gate without its machinery, in four variables: the row's `state`; its `dispatch`, which is "none", "open" (on
record) or "answered" (a message was accepted since); how many `messages` the provider accepted and
how many `resends` were ordered. A message arrives only for an open dispatch of a send in flight;
`GiveUp` (`failed_transient`) needs that none has; `Doubt` needs a dispatch on record; `Settle` needs a message,
perhaps an earlier one, as a probe's window reaches back before the dispatch; only `Retry`, `Attest`
and `Resend`, which are the operator's, move a settled send, and only `Resend` forgets a dispatch. `Retry` has no guard on a
delivered send because the code has none (`reopened`). `ImplementsGate` maps `dispatch` to what
`dispatched_at` says against the number of messages (`Shown`) and the rest to itself. It is stated of Slack:
on Gmail an abandoned request may arrive when the send has long been settled, and what bounds deliveries there
is the draft, not the dispatch.

### AbstractDraftSend

The gate as Gmail keeps it, in four variables: the row's `state`; what the draft on record says (`recorded`); whether that
draft was sent or deleted (`spent`); and the `messages` accepted. A draft is recorded once, for a send in flight,
and there is no action that replaces it. `Arrive` has no guard on the state, so a request may arrive as late as it likes, but it
spends the draft and appends what the draft says. `Settle` (delivered or uncertain) needs a draft on record, `GiveUp` does
not. `Reopen` covers retry and resend, which differ in the dispatch only. `ImplementsDraftGate` maps `recorded` to the content of
the draft that `provider_draft_id` names (`Recorded`) and `spent` to whether Gmail still has it. It says nothing
of what makes the recorded draft the right one: a draft is made from the text of the moment (`unconfirmed`).

### AbstractSearch, SearchFanout

`AbstractSearch` is a search without its machinery: `run` (status and count per run),
`results` and `finished`. A run is started, perhaps more than once; once started it stores all that
its source found in place of what was there, or fails; the search is closed at a moment when no
run is outstanding. It is deliberately silent on whether a closed search stays as it is, because it does
not (`closed_early`).

`SearchFanout` is how the code does it. `run`, `results` and `finished` are the `adapter_runs`,
`search_results` and `searches.finished_at`; `jobs` has the job of each run; `loc` is where a worker is in
`run_adapter`; `lost` is a history variable, the runs whose job came to rest
with the handler cut short. Each transaction of `run_adapter` is an action
(`MarkRunStarted`, `StoreResults`, `RecordRunFailure`, `CloseSearch`, `FinishJob`), and the adapter's
call is `Search`, which ends with a result, with none, or with an error of one of the
classes of the taxonomy; Slack's may go on to `Scan`, and what that finds is stored with
`mode = 'degraded'`. `CancelHandler` is the job's deadline: `except Exception`
does not see its `CancelledError`. `DbError` is an exception of the driver;
inside `execute_adapter_run` it is recorded as the source's failure, elsewhere it goes straight
to `queue.fail`. `Sweep` is the RETRY branch of the sweep. The refinement mapping
(`ImplementsSearch`) forgets `mode` and maps the rest to itself, so what it shows is that jobs that are
retried, cut short and executed again still never store twice for one start, nor rows without
their count and status, nor close a search with a run outstanding.

Left out of it: `connections.record_success` (it writes another table, see `Connections`, and
swallows its errors), runs deleted under their job, and a lease that expires on
a live worker (the lease is three times the deadline).

### SearchView

`EXTENDS AbstractSearch`, so its runs are those of any implementation of it. `snap` is a snapshot being
read (`ReadRuns`, then `ReadRows`; `Visible` is the isolation level), and `stream` is what the
generator of `stream_search_events` has `seen`, keyed by source as in the code, and what its client has been
`told`, by run. A result is its age when it was stored and its rank; `Score` is `blended_score`
multiplied out to integers (the weights 0.65 and 0.35, the constant 5 and a half-life of a day), `Merge` is
`merge`'s loop by rounds (round n takes the n-th row of every bucket that has one), and `PageInterleaves` is the reference it is compared with.
`Sorted` is Python's `sort` by a key without ties, stated by counting: the item at place i is the one that i - 1 others go before.

### Connections

`conn` has the rows: status, the access token (by the key version it is encrypted under), the refresh token (by
its number at the provider and its key), freshness, `key_version`; `order` is the order of ids;
`grants` is the provider's side: tokens issued, valid and superseded; `loc` where a
worker is between `get_token`, the call, the 401 ladder and `record_success`; `owner` the
authorization under way in a browser. `Holding` are the places at which a worker holds
`pg_advisory_xact_lock`: nobody else takes that lock, so an upsert, a disconnect, a mark by another path or a
key rotation may come between its statements. `past` records, per account, the races by which the properties
below are delimited; it is history and no guard reads it.

`keys` is the keyring as it is mounted and `ring` what each process has read of it: `get_keyring` is an
`lru_cache` (`crypto.py:146`), so a process started before the new key was added encrypts, decrypts and signs under the
old one until it is replaced (`Restart`). `Processes` are the instances of the API and the worker, `Servers` those that
answer the owner, and `RunsIn` tells in which one a worker runs. A state signed by one server is verified by
another only if both have the same current key (`StateVerifies`). `rotate_keys.py` is a process of its own that reads
the mount when it starts; `Rotate` is what it does to one row, and `Report` its last `SELECT`, which finds
nothing because no row remains or because each that does is locked (`SKIP LOCKED`; `Writing` is where a transaction that updates
the row may be open). `DropKey` follows any such report. Whether the report was `"orderly"`, no row
skipped and no process on the old keyring, is history: `DropKey` does not ask.

The provider is external: it may replace the refresh token at any refresh (Google may, and RFC 6749 asks
for the answer to be kept), treats a superseded one as stolen, gives a refresh token to the first consent and to
forced ones only, may lose any answer and may answer without a token.

Left out: placeholder rows of `dev_login` and their adoption (`upsert` is only ever given the id of the
row with the same natural key, so `_adopt_placeholder` and `ReconnectMismatch` are not reached from the
API), scope hints, Slack's two tokens as two, and the demo helper `invalidate_stored_token`.

## 3. Runs

| Run | Instance | Result |
| --- | --- | --- |
| `slack` | 2 workers, 2 requests, 2 attempts, 2 probes, 2 crashes; cancel, db_error, bad_body | `AtMostOnce`, `NullMeansUnsent`, `AskedBeforeDispatch`, `FailedTransientMeansAbsent`, `EvidenceIsReal`, `OneExecution`, `ImplementsGate`, `TypeOK` hold |
| `gmail` | 1 worker, 2 contents, 2 requests, 1 crash; late, cancel, bad_body | `GmailNeverTwice`, `RecordedDraftOnly`, `ImplementsDraftGate` hold |
| `liveness` | 2 workers of one identity, zombies, 1 crash | `QueueDrains`, `OnlyOperatorReopens` hold |
| `unconfirmed` | 1 worker, 2 contents | `ConfirmedContentOnly` fails |
| `stranded` | the defaults: 6 attempts, 3 probes, no operator, no crash | `NotStranded` fails |
| `zombie` | 2 workers, one frozen past its lease, Gmail | `GmailNeverTwice` fails |
| `reopened` | two operator requests | `DeliveredIsFinal` fails |
| `fanout` | 2 runs (a live source with a fallback, a mocked one), 2 attempts, 1 crash; cancel, db_error | `TypeOK`, `ResultsOnce`, `ModeHonest`, `LastCloses`, `SearchCloses`, `ImplementsSearch` hold |
| `stream` | 3 runs of 2 sources, lists of 0 to 2 results, cap 3, 3 starts, 2 streams | `TypeOK`, `SnapshotHonest`, `PageInterleaves`, `StreamTellsAll` hold |
| `closed_early` | 2 runs, no faults, no crash | `FinishedIsFinal` fails |
| `never_closes` | 2 runs; cancel | `AlwaysFinishes` fails |
| `connections` | a Gmail or a Slack account, a server and a process of 2 workers, 2 refresh tokens, 2 keys | `TypeOK`, `NoReplay`, `RepairHolds`, `DisconnectDrops`, `RotationKeeps`, `ActiveRenewable`, `NeverNulled` hold |

Bounds. Two attempts are enough for a failed one, a last one and the ceiling; two
probes for an inconclusive one and one too many; two requests for a race between
operators and for a forced resend of a resent message; two crashes for a worker dying
and its successor (or the sweeper) dying in the recovery. The Gmail run has one worker
because without zombies a second one never works at the same time: that is
`OneExecution`, checked in `slack` and proved. The proofs remove the bounds. For the
fan-out two runs are enough for one that ends first and one that ends last, in either
order or together, and two attempts for an execution that meets what an earlier one left.
For the view three starts (`MaxStarts`) let each run report, or one of them three times; two runs of one source are
what the cap (`PerSourceCap`) spans, three of their four rows; two streams (`MaxStreams`) are one that times out and
one that completes. For the connections two workers are a stampede, and `MaxTokens` refresh tokens are the one from
a first consent and its replacement by a refresh or by a repair. `MaxRows` is 1: rows of different accounts meet only in
`active_for`, which goes by provider, so a run chooses one of the two accounts to connect, and
what two accounts of one provider do to each other is told below instead. One server is the other process that a rotation
has to reach. Once a process has an older keyring than the mounted one, and after a report, `Scope` lets one worker at a time
be active: the stampede is explored with all processes on one keyring, before and during the rotation of
rows, and its meeting a rotation under way is left to the proofs, which have no such bound.

`CHECK_DEADLOCK FALSE` wherever the system may stop: a send that has been delivered, and nobody
editing or resolving anything, is how the system is meant to end, and so is a search whose
jobs are all at rest. `connections` has no such end and checks for deadlock.

Fairness (`FairSpec`, used by `liveness`, `fanout` and `never_closes`). Weak fairness of each worker's claims and
steps, of the sweep and of API requests under way: Cloud Tasks and the scheduler, or
`inline_loop` locally, keep calling `run_once` and `sweep`, and a handler that neither
dies nor is cancelled goes on to its next statement. Nobody is obliged to send,
edit, retry or resolve, and no provider is obliged to accept or to answer well.

### What the failing runs show

* **`unconfirmed`**: the confirmation is checked when the send is claimed, but the
  worker builds the message from the draft as it is then. An edit in between leaves
  unconfirmed (`handler.py:112`, `service.py:180`; contrast `src/README.md:10`).
* **`stranded`**: at the ceiling, an orphan is requeued with no attempt left, or a job
  is parked after an inconclusive reconciliation, and the send stays `in_flight`, a
  state that both `operator_retry` and `resolve_send` turn away (`runtime.py:321`,
  `handler.py:103`; contrast `service.py:351`, `handler.py:182`).
* **`zombie`**: a worker that resumes after its lease was swept commits nothing and
  sends its own Gmail draft all the same (`handler.py:293`; contrast `handler.py:314`).
  The deadline of 120 s against a lease of 300 s makes this rare, not impossible.
* **`reopened`**: `operator_retry` updates without a state predicate, so a retry decided
  on `failed_transient` reopens a send that another retry has delivered
  (`service.py:455`; contrast `service.py:424`). `AtMostOnce` still holds then:
  `dispatched_at` is kept, and the reopened send is reconciled first.
* **`closed_early`**: `_record_run_failure` does not close the search when a retry is due, but
  the status it writes is `failed`, which no longer counts as outstanding, so a sibling closes
  it; the retry then reports into a search whose client has stopped looking
  (`jobs/handlers.py:137`; contrast `adapters/orchestrator.py:302`).
* **`never_closes`**: the job's deadline equals the adapter's (30 s) and starts earlier, so a
  slow source ends by cancellation; nothing records it, and after the last attempt the run
  stays `running` and the search open (`jobs/handlers.py:94`; contrast
  `adapters/orchestrator.py:303`). A worker that dies on the last attempt has the same effect
  through the sweep's `park`.

### What the properties had to leave out

Some statements hold only outside a race or an input that the code does not handle. They are part of the models, and
TLC refutes the unrestricted property, but they have no run of their own.

Sends and search:

* With `busy`, `AtMostOnce` fails on Slack: the probe reads one page. With `bad_body`,
  `EvidenceIsReal` fails on Gmail: an empty error answer counts as delivery with an
  empty message id.
* With two connections of one source the stream does not tell all: it remembers what it said per source
  name (`apps/api/routes_v1.py:709`), so of two runs with equal status and count only the first is reported,
  although `_source_view` names `(source, connection_id)` as the key. The cap of `merge` likewise is per source, over all its accounts.
* `mode` is only ever overwritten by `degraded` (`COALESCE`), so a run that is executed again and then searches normally
  keeps the label: `ModeHonest` is one-sided. A run that fails when it is executed again keeps the rows and the count of the time
  before; `ResultsOnce` therefore speaks of runs that are done.
* `merge.py` says that position dominates; with the weights as they are (at most 0.108 for rank 1, 0.35 for recency)
  it is the age that does, and a source's own order is not kept by the page.

Connections:

* A refresh that is under way when the owner disconnects stores an access token on the disconnected row
  (`persist_tokens` has no predicate on the status): `DisconnectDrops` excepts it.
* A refusal of an old refresh token that is recorded after the owner has reconnected marks the healthy connection
  (`tokens.py:179`), and a replaced refresh token whose answer was lost, or whose worker died before storing
  it, is gone: `RepairHolds` and `NoReplay` except both.
* Two 401s for one access token can expire its successor as well (`expire_access_token` does not say which token it
  means), so one expiry may cost two refreshes; each shows the refresh token of its time, so `NoReplay` holds.
* Between adding a key and rotating, a refresh or a login writes `key_version` without re-encrypting the
  refresh token it left alone (`store.py:288`). `rotate` selects by version and skips that row, reports nothing
  remaining, and dropping the old key makes the token unreadable: `RotationKeeps` excepts rows patched like this.
  `rotate --apply` also never ends if a row it selects cannot be read.
* The script's 0 is not enough to drop the old key, which is what `rotate_keys.py:8` asks for ("only once this
  reports 0 remaining"), next to "Safe alongside live traffic". First, `get_keyring` is cached per process
  (`crypto.py:146`), although its docstring says that rotating the mount "must not require a redeploy": a process
  that has not been replaced since writes its tokens, with `key_version` of the old key (`store.py:324`), after the script
  has found nothing left. Second, `FOR UPDATE SKIP LOCKED` (`rotate_keys.py:58`) does not count a row that a refresh, a login or a mark
  has locked at that moment; the row is to be "picked up on the next pass", but an empty selection ends the script. In either case dropping
  the old key loses tokens of rows that were not patched. `RotationKeeps` therefore asks for a report that was `"orderly"`; with any report
  in its place TLC finds both losses. The remedy is procedural: replace every process, then run the script until it finds nothing with no writer about.
* While processes differ in their keyrings, an authorization begun at one cannot be completed at the other, and
  a row written under the new key cannot be read by a process on the old ring: its access token is a cache miss and its refresh token an error.
* `_should_force_consent` asks for the first active row of the provider, not for the account (`service.py:146`): with two Google
  accounts the second may be connected without a refresh token, which is why `ActiveRenewable` is about a user of one.
* Nothing marks a Slack connection whose token was revoked: `mark_needs_reconnect` is called by the refresh alone.

Resources: each job holds one database connection while it executes and takes a second one for its bookkeeping.
The pool is sized for that (`db.py:74`) for one batch; two `/work` calls that overlap can use it up and wait for each
other until their deadlines end them, which the models have as `cancel`.

## 4. Proofs

`SafeSendProofs!TypeCorrect`: `Spec => []TypeOK`, for every value of the constants and
under all faults. `TypeOK` includes the schema's CHECK constraints
(`jobs_attempts_bounded`, `sends_uncertain_was_dispatched`,
`sends_delivered_has_evidence`), so it says that no statement of the send path is
rejected by them. It is not inductive: a worker writes a message id it obtained some
steps earlier, and Gmail sends a draft by an id that must exist. `TypeInv` adds what
such local values refer to (`LocalRefs`).

`SafeSendSafety` proves, from `TypeInv /\ SafeInv`:

| Theorem | Assumes |
| --- | --- |
| `OneExecutionAtATime` | no zombies |
| `GmailSendsOnce`, `GmailRecordedDraftOnly` | no zombies, Gmail |
| `SlackAtMostOnce`, `SlackNullMeansUnsent`, `SlackAsksFirst`, `SlackFailureMeansAbsent`, `SlackEvidence` | no zombies, Slack, neither `late` nor `busy` |

The argument. `Exclusive`: whoever is active holds a running job and only one job of the
partition runs, so an execution's steps meet nobody else's, only operators' (lemma
`Moves`: nobody else is active, hence only its own local claims are to be shown). On
Slack `SlackRow` accounts for deliveries: without `dispatched_at` there are at most as many
as forced resends; with it, at most one since, and the dispatch itself came no later than
the resends allow. `SlackLocal` is what keeps it inductive: from building to posting
the dispatch on record has nothing after it, and a probe looks back exactly to that
dispatch, so "absent" re-establishes it. On Gmail `GmailInv` needs less: the row's draft
id is the only one a worker acts upon and Gmail sends it once. That is why Gmail
tolerates late acceptance and forced resends and Slack does not. The assumptions are
sharp: the runs `zombie` above and the remarks on `busy` show what happens without.

`SearchFanoutProofs` proves, for every number of runs, sources, attempts and crashes, and
under both faults:

| Theorem | Inductive invariant, and why the property needs it |
| --- | --- |
| `FanoutTyped` | `TypeInv` adds `Held` (whoever executes a run holds its job, claimed at least once, or a stored row would be labelled with attempt 0) and `Booked` (a run and its job are planned together) |
| `FanoutResultsOnce`, `FanoutModeHonest` | `ResultInv` adds `Labelled`: an unplanned run has no rows, a planned one has its registered mode or "degraded" |
| `FanoutLastCloses` | `ClosingInv`, see below |
| `FanoutImplementsSearch` | `StartedInv`: a run is "running" from the start of its handler until its outcome is written, which is what `AbstractSearch` asks of `Store` and `Fail` |

That the last run closes the search is a race: two runs may end at once, and each decides
after its own commit, from what it then reads of the others. `ClosingInv` says why one of
them succeeds. `EndedAt`: an execution past its own write (`Reported`) has a run that is not
outstanding. `CloseToCome`: an open search has a run that is still going to look
(`ToCome`), or has lost one. The step that matters is `CloseSearch` when it does not close:
some other run is outstanding, so it is neither reported nor at rest, so its own look is
still to come. A retry that is due keeps its run to come although its status already says
failed; the step that ends a job with its handler cut short is the one that breaks the
chain, and `lost` records it.

`OperatorAloneReopens` (in `SafeSendProofs`) is the action property of the `liveness` run, for every instance and all
faults: each write of a worker or of the sweeper is a compare-and-swap that a settled row fails, or touches
the reconciliation counter only. It needs no more than the types.

`SafeSendRefinement` proves that `SafeSend` on Slack implements `AbstractSend`, under the assumptions of
`SlackAtMostOnce`. Most of what a step needs is in `SafeInv`: `SlackLocal` says in front of each write what the
row and the provider then are. `OperatorInv` adds that a request under way was admitted by a confirmed row,
since the code does not look again. `GateAtMostOnce` shows that the outline is not too weak: whatever
implements it delivers at most once per confirmation or resend.

The second half of that module does the same for Gmail and `AbstractDraftSend` (`SendImplementsDraftGate`), with every
fault but zombies, as in `GmailSendsOnce`. Next to `SafeInv` it needs `Drafted`, that a dispatch is on
record only together with a draft, because the code doubts a send by its dispatch and the outline by its draft; and
that reconciliation on Gmail never adopts a message, since a draft that is gone names none (`NoneAdopted`). `DraftGateNeverTwice` gets at most
one message from the outline alone, and `GmailSendsTheRecord` more than that: what the recipient has is
the draft now on record, in the words it was made with.

`ConnectionsProofs` and `ConnectionsSafety` prove, for every number of accounts (at least one), workers, rows and tokens:

| Theorem | Inductive invariant, and why the property needs it |
| --- | --- |
| `ConnectionsTyped`, `RefreshTokenKept` | `TypeOK` is inductive; the second is a step property from the types: `COALESCE` keeps what a response omits |
| `StampedeCollapses` | `LockInv` (`Exclusive`: of the workers at one account one at most is in `Holding`; `InHand`: a worker has a new token only on its way to the row) and `CareInv` (`IssuedAt`: whatever anyone knows was issued; `OwnAt`: the token an owner brings is in nobody else's hands; `StoredAt`: outside a race whoever renews shows the stored token, and a stored token that is superseded is about to be replaced by the lock holder) |
| `RepairLasts`, `DroppedStaysDropped` | `CareInv` again: `RepairAt` keeps a live token stored or in hand after a forced consent, so that the grant is not refused and nobody has a reason to mark it; `DropAt` keeps the lock of a dropped row free, since nobody can renew what is not stored |
| `RotationLosesNothing` | `RotInv`: `RotAt`, a row labelled with the new key has nothing under the old one but a Google access token or a `patched` refresh token, and after an orderly report every row is labelled with the new one; `Adopted`, from then on every process has the new key, so that no write takes the label back |
| `ActiveCanRenew` | `RenewInv`: `RenewableAt` alone is not kept by the owner's return: `ConsentAt` adds that an authorization brings a refresh token if it forced consent, and if not was begun upon one in the row, which only a disconnect can have taken since |

The exceptions (`raced`, `patched`, a report that was not orderly) are those of the properties, listed above: they are histories that no guard reads.

`SearchViewProofs` proves, for every number of runs, sources, starts and streams, and any set of result lists that
has the empty one:

| Theorem | Inductive invariant, and why the property needs it |
| --- | --- |
| `ViewTyped` | none; it needs that the newest of several runs of a source exists, which is the well-foundedness of the order on naturals (`LastRun`) |
| `SnapshotConsistent` | `SnapInv`: what is stored is consistent at every moment, because rows and status are written together, and a snapshot being read holds both from one moment |
| `StreamComplete` | `StreamInv`: of a source with one run the stream's memory is what its client was last told, or is blank after a timeout, when the next poll says everything again (`ToldAt`) |

`SearchPageProofs!PageMerged` proves `PageInterleaves` for every number of runs, sources and rows and every cap. It needs
nothing of the history: whatever a snapshot of the right type holds, the page made of it is right, so `ViewTyped` is the only
invariant. The work is in the functions:

* `Places`: in a finite set with a strict total order, "how many go before" numbers the elements from 0 without gaps; hence `Sorted`
  is a sequence, in order, of all of the set. `BetterOrders` and `HeadsOrder` show that the keys of `merge` are such
  orders: ties in the score are broken by the id and by the source;
* `BucketHolds`: a bucket has the best rows of its source, in order, as many as there are and the cap admits (`Fits`);
* `AllDealt`: the rounds, one after another, hold every row of every bucket once, earlier rounds first and by
  the strength of the heads within a round (`TurnBefore`). The rounds are joined with `FlattenSeq`, whose recursive function is
  followed by induction over the set of the numbers of rounds for which the claim holds (`NatSet`, from the well-foundedness of the order
  on naturals), since the library's induction principle cannot be instantiated here;
* `StrongestLeads`, `BestShown`, `TurnsTaken` are the three parts of `PageInterleaves`, the last two by counting with bijections
  and injections between rows shown and places in a bucket.

Assumed throughout: the named assumptions of the modules (`ConstantsAssumption`, `SearchAssumption`, `FanoutAssumption`, `ViewAssumption`,
`ListsAssumption`, `ConnectionsAssumption`), which TLC evaluates on every run, and for each theorem what its statement says.

Only model-checked:

* the liveness properties `QueueDrains` and `SearchCloses`: fairness and ENABLED are out of the prover's
  reach. No liveness is stated of `Connections`: a refresh may fail for ever;
* the runs that find a violation, which are counterexamples and need no proof.

## 5. Not modelled

Not modelled: the adapters' translation of results (pure functions of strings), sign-in and API keys (single statements;
a key is read on each request and revoked by one update), log redaction, recipient validation and retention labels, migrations,
the fake provider and the fault adapters (test doubles for faults the models have anyway), seeding and smoke scripts, the web
client. Of the queue, batches that mix both kinds, `run_at` and the length of a backoff are left out: any ready job may be claimed at any time,
which includes every schedule.

What would extend the project further: the placeholder rows of `dev_login` and their adoption, if a route ever passes the id that
reaches them; the pool of database connections, which only `cancel` stands for; and two executions of one run past its lease.
