# Formal model of SikaFlow

SikaFlow is a business assistant that small merchants use through WhatsApp and
Telegram: it records sales, expenses and debts, sells and checks event tickets,
sends reminders and reports. It can be run by ZeroClaw, an agent runtime kept in
the same repository. This directory holds TLA+ specifications of the parts of
both whose correctness depends on the order in which things happen, the TLC
configurations that check them on small instances, and TLAPS proofs of the
properties that matter most for every instance.

All paths below are relative to the repository, as `src/...`.

## 1. Inventory

The monorepo has two programs with rules of their own: the NestJS backend
(`src/backend`, TypeScript), and the agent runtime ZeroClaw (`src/zeroclaw-engine`,
Rust, by far the larger), to which SikaFlow adds HTTP client tools and which
`src/zeroclaw` configures. The dashboard (`src/frontend`, Next.js) and the ticket
scanner (`src/scanner`, a PWA) are clients of the backend. PostgreSQL (through
MikroORM) keeps the backend's business state, Redis its conversations, login
tokens and BullMQ queues; ZeroClaw keeps its state in memory, in SQLite and in
`config.toml`.

### How the backend runs

Everything the models assume about concurrency comes from this:

* A WhatsApp or Telegram webhook appends a job to the queue `whatsapp` or
  `telegram`. Each queue has one worker (concurrency 1, three attempts), so two
  messages of one channel never overlap, but messages of different channels do,
  and HTTP requests overlap with everything.
* Each job and each HTTP request works with an `EntityManager` of its own. A row
  that was read stays in its identity map: a second `findOne` by primary key
  returns the same object. `flush()` compares the object with what was loaded and
  issues `UPDATE ... SET <changed columns> WHERE id = ...`. No entity has a
  version column and nothing uses `SELECT ... FOR UPDATE`.
* `em.transactional(...)` makes its writes atomic: they are invisible until
  commit, a thrown exception rolls them back, and every updated row stays locked
  meanwhile, including while messages are sent. Reads are READ COMMITTED.
* Without it every flush commits alone.
* `nativeUpdate` writes rows without touching entities already loaded.

### How ZeroClaw runs

* One process, a multi-threaded Tokio runtime. The daemon (`daemon/mod.rs`) starts
  the gateway, the channels, the scheduler and the heartbeat as tasks of their own
  and restarts one that ends. Between two `await`s a task runs beside all others;
  only what is under one lock is one step.
* Locks are held for a few statements and never across a call of a model. What is
  read under a lock, then changed and stored under another, is two steps in the
  models.
* A handler of the gateway, or a request to a model, that takes too long or whose
  client hangs up is dropped where it waits: the rest of it never runs.
* SQLite commits each statement alone unless a transaction is opened; every
  command and the daemon have connections of their own.
* `config.toml` is written as a whole: a temporary file is renamed over the old
  one, and nothing locks it.

### Components

| Component | State | Operations | Interacts with | What is hard | What makes it correct |
|---|---|---|---|---|---|
| **Seat inventory** (`ticketing`: events, categories) | `event.total_capacity/sold_count`, `ticket_category.capacity/sold_count/is_default` | sell (`IssueTicket`, `GenerateTicketsQR`, `GenerateClaimLink`), create event, create / update / delete category, set default | agent tools and chat (sales), HTTP (administration), messaging providers inside the transactions | lost updates, capacity checks on outdated reads, quantities nobody validates, bulk updates behind loaded entities, providers failing half-way | counters equal seats given, seats within capacity, tickets keep their category, one default category, every request ends |
| **Claims, tickets and the door** (`ticketing`: claims, tickets) | `ticket_claim.status/claimed_by`, `ticket.status/attendee_phone` | claim a ticket, print tickets, validate over HTTP, scan in a chat | guests, scanner app, messaging providers inside the claim's transaction | two presentations of a link, two scans of a ticket, a QR code sent before a rollback, lost answers | a claim and its ticket change together, no ticket of a failed exchange opens the door, entries per ticket are bounded |
| **Ticketing queries** | none | get / list events, categories, statistics | reads the above | – | – |
| **Payment webhooks** | none of their own | Stripe, Wave, Chariow callbacks | subscription, event pass | duplicated, reordered, swallowed events | one effect per payment, no payment without effect |
| **Subscriptions, passes, access** | `user.subscription_*`, `event_pass`, 30 s access cache | subscribe, activate pass, check subscription, check feature | webhooks, guards of every premium use case | stale cache, read-modify-write of the period, two passes | paid periods add up, access follows payment |
| **Contacts and debts** | `contact.total_debt/...`, audit `transaction` rows | add debt, settle debt, reminders | message pipeline, agent tools | lost updates, total and audit in two commits, retried jobs | totals equal the audit trail |
| **Transactions** | `transaction` rows | create, delete, recategorise | message pipeline | retried creation | each message recorded once |
| **Message pipeline** | BullMQ jobs | enqueue, process batch, retry | everything | a batch re-run after one failing message | every message handled, effects not repeated |
| **Conversation and intent routing** | pending action in Redis | read, merge, set, clear, expire | pipeline, two channels, language model | state read before a model call and written after | an answer completes the action it was asked for |
| **Agent tools and orchestrator** | none | tool calls | use cases | which tool is called is the model's choice | – |
| **Onboarding** | `onboarding_progress` (JSON list of steps) | start, complete step, next step, event listener | domain events | concurrent completions overwrite the list | no completed step is forgotten |
| **Organizations and members** | `organization`, `organization_member`, `user.active_organization` | create, add / remove member, switch | HTTP, access checks | several commits per operation | every organization has an owner, active implies member |
| **Magic-link authentication** | token record in Redis | request, verify | HTTP | grace period, non-atomic update | a link is good for one login and its grace |
| **Feedback requests** | `event.feedback_sent` | daily scheduler | messaging | send, then mark | each guest asked once |
| **Reports** | queue `reports` | daily report | LLM, PDF, messaging | retries | – |
| **Incidents and users** | rows | inserts, updates | – | – | – |
| **Provider adapters** | none | LLM, WhatsApp, Telegram calls | external services | failures | – |
| **Dashboard, scanner, prompts** | UI and configuration | – | backend | lost answers (scanner) | – |
| **ZeroClaw: cron scheduler** (`cron/`, the cron tools) | tables `cron_jobs`, `cron_runs`; the batch under way | add, update, pause, resume, remove, force a run; poll, run, record, reschedule, delete or disable | commands and tools on the same database, agent or shell for the job, channels for the announcement | a job changed or removed while it runs, a stop between its run and what settles it, more due jobs than a batch holds | what is due runs; a one-shot job runs once; a pause and a removal last |
| **ZeroClaw: procedures (SOP)** (`sop/`, the sop tools) | active and finished runs, approvals, audit records | match events, start, advance, approve, cancel, time out, reload | agent tools, event sources, memory for the audit | several callers of one run, records written behind the lock | limits hold, steps in order, approvals before what they approve, true records |
| **ZeroClaw: channel message loop** (`channels/mod.rs`) | requests in flight per chat, histories per sender | spawn, register, cancel, wait, process, commands, store turns | messaging services, model, memory | interruption, notification between workers, histories shared by requests | one request of a chat at a time, usable histories, every message worked off |
| **ZeroClaw: agent session** (`agent/loop_.rs`, `approval/`, `providers/reliable.rs`) | history, approvals, the round of tool calls | turn, iterate, ask, retry, fall back, gate, execute, record, compact, trim | model providers, tools, the user | mixed batches, failing providers, cuts of the history | consent, every call answered, bounded turns |
| **ZeroClaw: gateway webhooks** (`gateway/mod.rs`) | rate limiter, idempotency store | receive, check in, finish, time out | model, clients that repeat | repetition, eviction, restart | limits per window, work once per key |
| **ZeroClaw: pairing and configuration** (`security/pairing.rs`, `gateway/`, `config/schema.rs`, `channels/telegram.rs`) | the file, its backup and its copies in memory, the documents editors have open, code, tokens, failed attempts | pair, fetch, edit, bind, save, restart | clients, editors, channels, tools that save the file | several writers of one file and one backup, old documents, dropped requests, failed saves | one token per code, somebody can get in, nothing said to be saved is lost |
| **ZeroClaw: daemon, heartbeat** (`daemon/`, `heartbeat/`) | backoff of each component | supervise, restart | all of the above | restarts | – |
| **ZeroClaw: memory, configuration schema, onboarding, channels, providers, tools, security policy, observability, library agent, skills, peripherals** | rows, files, connections | – | external services, the operating system | – | section 6 |

`PROJECT.json` lists the same components with their files and status, and under
`hazards` the places that are hardest to test, with the properties that cover them or what
stands in for one. Further places, met while modelling and not covered, are listed
in section 6.

## 2. Plan

| Order | Module | Composes / abstracts | State |
|---|---|---|---|
| 1 | `TicketInventory` | selling and administering on the same rows | done, proved |
| 2 | `TicketGate`, `TicketEntry` | `TicketEntry` (claims, tickets, two scan channels) implements the abstract `TicketGate` | done, proved |
| 3 | `CronScheduler` | the scheduler, commands and tools on one table | done, proved |
| 4 | `SopEngine` | callers of one engine, audit records behind its lock | done, proved |
| 5 | `ChannelDispatch` | workers, interruption protocol and shared histories | done, proved |
| 6 | `AgentSession` | turns, tool loop, approval, provider chain, history | done, proved |
| 7 | `GatewayWebhooks` | limiter, idempotency store, dropped requests, restarts | done, proved |
| 8 | `GatewayConfig` | pairing, the configuration and its writers, restarts | done, proved |
| 9 | `PaymentAccess` | webhook deliveries, event passes, subscription periods, access cache; abstract specification: a ledger of paid periods | planned |
| 10 | `DebtLedger` | contact totals against audit transactions, with job retries; abstract specification: one append per debt | planned |
| 11 | `MessagePipeline` | queues of two channels, three attempts, batch re-run, pending action in Redis; composes with `DebtLedger`'s operations | planned |
| 12 | `Onboarding`, `Organization`, `MagicLink`, `Feedback` | small modules, one each | planned |

Each module has one run on its own instance that checks all of its properties,
and at most one run for a statement of the repository that the code contradicts.
Every safety and action property the passing runs check has a theorem (section 5).
Theorems worth proving next: no paid event lost without an error (9), the total
never exceeds the audit trail (10), each pending action executed at most once (11).

## 3. What is modelled

### `TicketInventory` – seats of one event

One event row and its category rows; `Workers` are the requests in flight, each
with a program counter, its request and its snapshot (the entity in its identity
map). Correspondence to the code:

| Model | Code |
|---|---|
| `BeginSale`, `ResolveCategory`, `RefuseSale` | the reads and refusals of `IssueTicketUseCase`, `GenerateTicketsQRUseCase`, `GenerateClaimLinkUseCase`; `Candidates` is the choice of the category |
| `WriteSold` | the first flush of `sold_count` in the transaction: waits for the row lock and keeps it |
| `CommitSale` | commit, after the tickets are inserted and the messages sent: counter and tickets become visible together |
| `WriteVanished` | the category was deleted meanwhile; the foreign key stops the ticket |
| `BeginCreateEvent`, `BeginCreateCategory`, `InsertCategory`, `UnsetDefaults` | `CreateEventUseCase`, `CreateCategoryUseCase` and `unsetDefaultForEvent` (one `nativeUpdate`) |
| `BeginSetDefault`, `UnsetDefaults`, `SetFlag` | `SetDefaultCategoryUseCase`; `SetFlag` writes only what MikroORM sees as changed |
| `BeginUpdateCategory`, `SaveCapacity` | `UpdateCategoryUseCase` |
| `BeginDeleteCategory`, `PickOther`, `PromoteOther`, `DeleteRow` | `DeleteCategoryUseCase`, with the foreign key of `ticket.category_id` |
| `Abort` | an exception or a dying process at any point of a request |

`ver`, `stale` and `lowered` are history variables, read by no guard: `stale[r]`
records that some committed write to row `r` was computed from a read another
write had overtaken, `lowered[r]` by how much sales of negative quantities
have lowered its counter. They let the invariants say precisely what the missing
locks and the missing check cost: `generate-tickets-qr.handler.ts:25` passes
`data.quantity || 1` of a language model's JSON on as it is, `canSell` and
`soldCount` take any number, and only `GenerateClaimLinkUseCase` refuses what is not
positive. So `Quantities` are integers other than 0 (0 becomes 1), and a sale of
a negative quantity commits a lower counter and no ticket. `DeleteCategory` refuses
a positive counter only; the foreign key stops it where the counter was lowered.
`MCInventory` gives TLC such a quantity. Names, prices and ownership checks are abstracted: a request that fails them
writes nothing. A category id that never existed behaves as a deleted one. The
branch of `CreateEvent` that takes a list of categories has no caller; nothing
calls `decrementSold`, so seats are never returned.

### `TicketEntry` – from link to door

| Model | Code |
|---|---|
| `BeginClaim`, `MarkClaimed`, `InsertTicket`, `SendTicket`, `CommitClaim` | `ClaimTicketUseCase`, statement by statement: the status is read without a lock, the UPDATE of the claim waits for the row lock, the QR code is sent before the commit |
| `PrintTicket`, `DeliverPrinted` | `GenerateTicketsQRUseCase`: commit first, delivery by its caller afterwards |
| `BeginApiScan`, `ValidateTicket`, `UseTicket`, `Admit` | `POST /tickets/validate`: the controller executes `ValidateTicketUseCase` twice, without and with marking; the second decides on the entity the first one loaded. A request with `markAsUsed` false is told *Entrée validée* too but marks nothing; it asks about the ticket and is no entry, and the scan ends there (the scanner app always marks) |
| `BeginChatScan`, `UseTicket`, `Admit` | `ScanTicketUseCase`, which checks no date |
| `Tick` | the time window of `ValidateTicketUseCase` (12 hours before to 12 hours after the event) |
| `Abort` | failure of a statement, a message or an answer: the transaction rolls back, what was sent stays sent, and a scan whose answer is lost has used the ticket |

Signatures are taken to be perfect: a ticket is presented only after its QR code
was sent to somebody (`sent`). Ticket ids are fresh. Nothing in the code sets
CANCELLED or EXPIRED tickets, so these do not occur.
The claim links are those of one or more events whose `GenerateClaimLink` has
committed; seats are the business of `TicketInventory`, and the two modules share
no row: a sale writes counters and inserts tickets, claims and scans never touch
a counter.

### `TicketGate` – what a door promises

The abstract specification: a scan can be opened only on a ticket issued and not
yet used; a completed scan uses the ticket for good; a person enters only by a
completed scan; an answer may be lost. The refinement mapping in `TicketEntry`
is `phase` = committed status of the ticket, `open` = requests that have seen it
valid and not written yet, `granted` = requests whose answer is on its way,
`entered` = `admitted`. Being an abstraction it translates no single code line.

### `CronScheduler` – the jobs and those who change them

| Model | Code |
|---|---|
| `AddJob`, `RemoveJob` | `add_shell_job`, `add_agent_job`, `remove_job` with the cascade to `cron_runs` |
| `ReadForUpdate`, `WriteUpdate` | `update_job`: the row is read, patched and written as a whole by two commits |
| `ForceRun`, `ForcedRunEnds` | the tool `cron_run`: runs whatever the schedule says, records, leaves `next_run` |
| `Poll`, `DueJobs` | the poll of the scheduler: `due_jobs` with its order and limit; the batch is a snapshot |
| `StartJob`, `JobEnds` | `process_due_jobs` and `execute_job_with_retry`, at most `max_concurrent` at a time |
| `RecordResult`, `DeleteOneShot`, `DisableOneShotRead`, `DisableOneShotWrite`, `Reschedule` | `persist_job_result`, commit by commit |
| `NextRun`, `ValidSchedules` | `next_run_for_schedule`, `validate_schedule` |
| `Crash`, `Tick` | restart of the daemon; time |

Instants are small numbers and a cron expression is a period; commands, agents and
deliveries succeed or fail. `successes` and `crashes` are counters for the
properties. A kept one-shot job (`delete_after_run` off) stays due after its run
and takes a place in every batch; `DueJobRuns` and `OneShotSettles` name it
(`Blocks`) as the one thing that starves others.

### `SopEngine` – runs of standard operating procedures

| Model | Code |
|---|---|
| `Execute`, `Advance`, `Approve` | the tools `sop_execute`, `sop_advance`, `sop_approve`: each does its work under the engine's mutex, then writes its records |
| `DispatchMatch`, `DispatchStart` | `dispatch_sop_event`: matches under one lock, starts under another, which it keeps for the whole batch |
| `CanStart`, `StartRun`, `MoveOn`, `FinishRun`, `ApproveRuns` | the operations of `SopEngine` those call |
| `CancelRun`, `CheckApprovalTimeouts`, `Reload` | the operations of the same name |
| `WriteAudit` | `SopAuditLogger`, after the lock; storing may fail and is then only logged |

`lock` is only held across steps by a dispatcher. `handed` and `approved` are
history variables: which steps somebody was told to execute, which were approved.
Steps are numbers; what they say and how events match topics is left out, so any
set of procedures may match.

### `ChannelDispatch` – one worker per message

| Model | Code |
|---|---|
| `Spawn`, `Register`, `CancelPrevious`, `Close` | `run_message_dispatch_loop`: the semaphore, the table of requests in flight |
| `CheckDone`, `Listen`, `MarkDone` | `InFlightTaskCompletion`: the flag and the notification are two things |
| `Start`, `Reset`, `Reply`, `AppendUser`, `Ask` | `process_channel_message` and `handle_runtime_command_if_needed` up to the model |
| `Answer`, `Cancel`, `Fail`, `TimeOut` | its outcomes, with what each does to the history |
| `Remember`, `Compact`, `Normalise`, `EndsWithOrphan` | `append_sender_turn`, `compact_sender_history`, `normalize_cached_channel_turns`, `rollback_orphan_user_turn` |

A turn is its role and the messages it is of. Hooks that cancel messages are left
out: the only one the product registers logs and cancels nothing.

### `AgentSession` – a conversation with tools

| Model | Code |
|---|---|
| `Say`, `Clear`, `Quit` | the loop of `run` over the user's input |
| `Iterate`, `CallTools`, `Gate`, `Execute`, `Record` | `run_tool_call_loop`: one iteration, the approval gate over the calls in order, execution in order or concurrently, the round in the history |
| `NeedsApproval`, `Admit`, `Deny` | `ApprovalManager`, the deduplication by signature |
| `Retry`, `MoveOn`, `NextProvider`, `Overflow` | `ReliableProvider`: retries, fallback providers and models, errors nothing heals |
| `Answer`, `Compact`, `Trim` | the end of a turn: `auto_compact_history`, `trim_history` |
| `FailTurn` | the end of a turn in an error, which skips both |

The model is free in its replies and the providers in their errors. A message of
the history is its kind, its round and the call it answers.

### `GatewayWebhooks` – `POST /webhook`

| Model | Code |
|---|---|
| `Arrive`, `MakeRoom`, `Pruned`, `Full` | `SlidingWindowRateLimiter::allow`, with sweep and eviction |
| `CheckIn`, `LiveKeys`, `Stored` | authentication and `IdempotencyStore::record_if_new`, with expiry and eviction |
| `Finish`, `Drop` | the model's answer; the 30 s timeout or a client that hangs up drops the handler |
| `Crash` | both stores are in memory |

`admitted` and `since` remember what the limiter and the store let through since
they last forgot the client or the key. The instants the limiter keeps for a client
are a set: an entry is its instant and the number of the request it was made
for, so that two requests of one instant are two entries; their order plays no part.
`allow` and `record_if_new` read the clock just before they take their lock
(`gateway/mod.rs:117`, `:199`); the model takes both for one instant.

### `GatewayConfig` – pairing and the file

| Model | Code |
|---|---|
| `BeginPair`, `RightCode`, `WrongCode`, `CountFailure`, `Forget` | `handle_pair`, `try_pair_blocking`: lockout, comparison and counting under locks of their own |
| `CopyConfig`, `Listings` | `persist_pairing_tokens`: the gateway's copy of the configuration with the tokens of the guard, in the order of a hash set |
| `Fetch` | `GET /api/config`: an editor gets the document, masked, and may keep it for as long as it likes |
| `Put`, `Sent`, `Restore` | `PUT /api/config`: any document comes back – tokens removed, reordered or typed in, users added or removed – and `restore_vec_secrets` puts the current secret in the place of each mask; where the current list has become shorter the mask stays |
| `Bind`, `Load` | a chat account is bound: the file is loaded, edited and saved without the gateway. The command `bind` and the tools that edit the file do the same |
| `Backup`, `Rename`, `Finish` | `Config::save`: the old file is copied to `config.toml.bak`, the temporary file renamed over it, the directory synced and the copy removed |
| `SaveFails` | `Config::save` fails: before the rename nothing has changed; at the rename the copy is put back, and as all writers share its name it may be another writer's; after the rename the file stays replaced |
| `Sync` | the gateway's copy is replaced and the request answered |
| `Drop`, `Restart` | a dropped handler; a new daemon: `PairingGuard::new` from the file |

The configuration is its paired tokens and allowed users, a token stands for its
hash, and the file is there from the start (onboarding writes it). `known`,
`persisted`, `bound` and `guesses` are what clients and users were told; a token
typed into a document is known to who typed it. Pairing is required
(`require_pairing` is not edited). Documents on a screen (`draft`) and bindings made
from the command line are not the daemon's and outlive its restarts.
`SaveFails` puts the copy back in one step, as if copying a file were atomic. The
daemon restarts a gateway that ends, with the configuration it started with itself
(`daemon/mod.rs:29`), but a gateway that serves never ends: `axum::serve` does not
return, so `run_gateway` can fail only before the first request, when that
configuration is still the file's. A restart is therefore one of the process.

## 4. Runs

Where the number of requests is bounded and nothing is left to do, the system
stops: deadlock checking is off (`CHECK_DEADLOCK FALSE`) in those runs, and that
nothing is ever stuck is what the liveness properties say. In `channel_dispatch`
it is off because of the lost wake-up that `OnlyLostWakeUpsBlock` names. In
`agent_session` it is on: a session at its prompt may stay there (`Quit`).

| Run | Instance | States | Shows |
|---|---|---|---|
| `inventory` (`MCInventory`) | 2 workers, 2 categories, quantities −1, 1 and 2, capacities 1–2, 4 requests, 1 failure, fair | 784,525 | `NoPhantomSeat`, `SeatsAccounted`, `NoOversell`, `NoDanglingTicket`, `RequestsEnd` |
| `entry_door` | 2 workers, 1 link, 4 tickets, 1 guest, 4 requests, 1 failure, fair: more presentations and scans than can overlap, and a ticket for every request | 633,489 | `ClaimsBacked`, `ClaimBound`, `EntryBound`, `ImplementsGate`, `RequestsEnd` |
| `cron_jobs` | 2 jobs, 1 call of a command, batches of 1, times 0–2, 1 restart, fair | 560,235 | `HistoryOfLiveJobs`, `OneShotRunsOnce`, `RemovedForGood`, `RunKeepsPause`, `DueJobRuns`, `OneShotSettles` |
| `sop_runs` | 2 callers (symmetric), 2 procedures of 2 steps, one of which asks before its first step and one before its second, 2 runs, limits of 1 and 2, 1 finished run kept, 1 lost record | 5,859,384 | `ConcurrencyLimits`, `ResultsFollowSteps`, `HandedOutApproved`, `AuditTruthful` |
| `channel_dispatch` | 3 messages of a chat that interrupts or does not, 2 or 3 workers, histories of 5 turns, fair | 1,153,714 | `OneAtATime`, `FreshAfterReset`, `RequestWellFormed`, `OrphansAreUnfinished`, `InterruptedTurnKept`, `OnlyLostWakeUpsBlock` |
| `agent_session` | 2 turns of 2 iterations, replies of up to 2 calls of 2 tools, 2 models, 2 providers, 1 retry, limits of 2 and 4 messages, a context of 6, fair | 2,403,420 | `ExecutedWithConsent`, `CallsAnswered`, `OrphansAtTheCut`, `ForgottenIsSummarised`, `EveryTurnEnds` |
| `gateway_webhooks` | 2 clients, 2 keys, 2 handlers, 3 requests, no limit or a limit of 1, stores of one entry, times 0–4, 1 restart | 1,261,308 | `RateLimited`, `StartedOncePerTtl`, `DuplicateWasBegun`, types |
| `gateway_config` (`MCGateway`) | 2 requests or bindings at a time, 4 in all, 2 editors, 1 user, 1 client, 2 tokens, documents with up to 1 token, lockout after 2, 1 restart; tokens, callers and editors symmetric | 3,824,622 | `OneTokenPerCode`, `SomeoneGetsIn`, `GuessesBounded`, `KeptUnlessStale` |

**Properties.**
`NoPhantomSeat`: a counter never exceeds the seats given, whatever interleaves
and fails. `SeatsAccounted` and `NoOversell`: as long as no write to a row came
from an outdated read, its counter is exact but for what sales of a negative
quantity took off it, and at most that many seats are given beyond its capacity,
capacity updates included. So an oversold event has one of two causes, a lost
update or a negative quantity, and there is no third. `NoDanglingTicket`: deleting a
category races its sale safely, also where its counter was lowered to 0.
`ClaimsBacked`: a pending link has no ticket, a claimed one has a ticket of the
guest the claim names, although the guest named is overwritten by the last of
several racing exchanges. `ClaimBound`, `EntryBound`: a link yields, and a
ticket lets in, at most as many people as there can be requests at the same
time; a late request is refused. `ImplementsGate`: both scan channels together,
with failures, are a door in the sense above. `RequestsEnd`: every request ends,
although requests queue for row locks kept during calls of providers.

`HistoryOfLiveJobs`, `RemovedForGood`: no recording, rescheduling or update that
comes after a removal brings anything of the job back. `OneShotRunsOnce`: success
and settlement are separate commits, and only a stop between them repeats a job.
`RunKeepsPause`: the end of a run writes its own columns and no others.
`DueJobRuns`, `OneShotSettles`: the order of a batch serves every due job.
`ConcurrencyLimits`: asking and starting under one lock keeps all limits although
a dispatcher starts several runs. `ResultsFollowSteps`, `HandedOutApproved`: with
several callers of a run, results stay one per step and in order, and nobody is
told to execute a step before its approval. A caller can report a result for
a step that waits, and the engine takes it: the model has that step
(`MoveOn`), the property is about what is handed out. `AuditTruthful`:
records overtake each other, so one may say *running* for ever, but none claims an
end or an approval that did not happen.
`OneAtATime`: the interruption protocol, whatever the scheduling. `FreshAfterReset`:
what was said before `/new` does not return from a request that was still
running. `RequestWellFormed`, `OrphansAreUnfinished`, `InterruptedTurnKept`: what
seven ways to end a request leave in a shared history. `OnlyLostWakeUpsBlock`:
a worker reads a flag and only then listens; if the flag is set in between it
waits for ever, with its permit. This is possible in the code, and TLC shows it
is the only way for a message to be stuck.
`ExecutedWithConsent`, `CallsAnswered`, `OrphansAtTheCut`, `ForgottenIsSummarised`:
approvals, duplicates, denials and concurrent calls never misplace a result, and
compaction and trimming cut between messages in one place only. `EveryTurnEnds`:
iterations, retries and fallbacks are bounded together.
`RateLimited`: sliding window, sweep, and eviction together; the property counts
what was let in and knows nothing of the limiter's own lists. `StartedOncePerTtl`,
`DuplicateWasBegun`: once per lifetime of the key, and no request uses up the key
of a request that was turned away. `OneTokenPerCode`, `GuessesBounded`: pairing
under several locks. `SomeoneGetsIn`: whatever fails, there is a code, or somebody
holds or is about to be given a token the gateway accepts, unless one of two things
happened. An answer that carried a token was lost; or one editor removed
the tokens while another had the masked document open and sent it back: its mask
finds nothing to be restored from, is saved in spite of `gateway/api.rs:645`
(*Never persist UI placeholders to disk when no safe restore target exists*), and is
after a restart all the guard accepts, so that nobody gets in and there is no
code. TLC reaches both; the property says there is no third.
`KeptUnlessStale`: what was said to be persisted or bound, and not taken out by
an editor since, is in the file as long as every file was replaced by one made from
it: `stale` is set when the document saved was fetched from, restored from or
loaded from anything but the file it replaces, or when a failed save puts back a copy
of another file.

**Bounds.** `MaxRequests`, `MaxAborts`, `MaxCalls`, `MaxCrashes`, `MaxRuns`,
`MaxLost`, `MaxTurns` and `Horizon` bound the length of a behaviour, `MaxTokens` the
length of a document that is sent, and these are the only bounds on counters;
they appear in the guards of the actions that count. A lost
update takes two overlapping sales, an outdated capacity check a sale and an
update; four requests hold both and a further request that sees the result. In
`cron_jobs` a batch of one makes two due jobs compete, and one command is enough to
change or remove a job at every point of its run. In `sop_runs` two callers meet on one
run and on the limit, and a list of one finished run evicts. Three messages in
`channel_dispatch` are one that runs, one that waits for it and one that cancels the
one that waits. A history of five turns overflows with the third answer (1, 2, 3 all
answered); requests made after an overflow are left to the theorems, which hold
for histories of any length. Two iterations in
`agent_session` let a call repeat in a later round, two turns let a failed turn
precede an answered one, and the limits lie below and above what compaction keeps.
The stores of `gateway_webhooks` evict at the second client and key, and its clock
passes window, sweep and lifetime. Two callers of `gateway_config` are a save and
the one it overtakes; four calls are a pairing, the two edits that leave a mask
behind and one request after the restart, or a client that is locked out and returns,
and two editors hold documents of different age. It was also checked with documents
of up to two tokens and three calls. The proofs below need none of these bounds.

**Fairness.** A ticketing request that is in flight and waits for nothing runs on (WF
per worker). A step that waits for a row lock gets it if the lock is free again and
again (SF): PostgreSQL queues waiters of a row in order. In `CronScheduler` time goes
on, the scheduler polls, and each job of a batch is driven to its end, because
commands and deliveries have timeouts (WF of `Tick`, `Poll` and each job's steps).
Tokio runs every task that is ready, and a request to a model times out (WF per
message in `ChannelDispatch`, WF of `Step` in `AgentSession`; there the user is
taken to answer a prompt for approval). No request, command or message is assumed
to arrive, no failure to happen or not to happen. `SopEngine`, `GatewayWebhooks` and
`GatewayConfig` state no liveness: runs wait for people, and what the gateway
promises is safety.

### Where code and documentation part

Each of these runs checks what a message, a comment, a test or a document says, and
TLC shows a behaviour of the code that contradicts it (`findings` in
`PROJECT.json` quotes the line).

| Run | Statement | Behaviour found |
|---|---|---|
| `inventory_oversell` | `NeverOversold` | two overlapping sales of the last seat both pass the check; one increment is lost |
| `entry_double_entry` | `SingleEntry` | two overlapping scans both find the ticket valid |
| `gateway_retry` | `DuplicateMeansProcessed` | a key is recorded before the work and stays when the work fails or is dropped: the retry is told that it was already processed |
| `config_pairing` | `PersistedStays` | a binding that loaded the file before a client paired saves over the token that was said to be persisted |

The first two would disappear with a lock or with an UPDATE that checks what
it overwrites (the first together with a check of the quantity); `EntryBound` and
`NoOversell` say how far they can go. The third
would if the key were taken back on failure, the fourth if the savers of the file
shared a lock; `DuplicateWasBegun` and `KeptUnlessStale` are what holds without.

## 5. Proofs

The theorems hold for every set of workers, categories, claims, tickets, guests, jobs,
procedures, messages, chats, clients, keys, tokens and users, all quantities,
capacities, limits and times, and any bounds. Assumptions are those named in
the modules: `EventRow` is no category, `NoWorker`, `NoClaim`, `NoGuest`, `None` are
none of the real values, `Mask` is no token, quantities are integers other than 0,
capacities and limits are positive naturals where the code makes them so, and what is counted is finite: `Workers` in
`TicketEntry`, `Message` in `ChannelDispatch`, `Caller` in `GatewayConfig` (a process
has finitely many requests in flight; the bounds count them).

Liveness is out of the prover's reach, but what it rests on is often a matter of
safety: `LocksServed` (twice) and `OnlyLostWakeUpsHalt` say that those who wait
never wait for one another in a circle.

**`TicketInventory_proofs`** – `TypeCorrect`, `PhantomFree`,
`CountersExplained`, `OversellExplained`, `TicketsKeepTheirCategory`. The four properties are not
inductive: that a sale's commit keeps the counter accounted for depends on what the sale
read some steps earlier. The inductive invariant `IInv` adds what is true of every
request in flight: the category it is creating is its own and has no row yet; a
snapshot of the current version holds the current counter and capacity, and an
older one was overtaken, so a write from it sets `stale`; a sale past
`WriteSold` owns the lock of its row and that row exists; a snapshot never
counts more seats than have been given. Each action has a lemma of its own.
`LocksServed`: a locked row belongs to a sale that only has to commit.

**`TicketEntry_proofs`** – `TypeCorrect` and `ClaimsAreBacked` follow from
`EInv`: the fields of a request are set where they are used, a transaction's
uncommitted ticket belongs to it alone and carries its claim and guest, scans
past their lookup are of committed tickets, unused tickets come from no claim.
`EntryImplementsGate` is the refinement: a lemma per kind of step (`GateOpens`,
`GateUses`, ...) maps each step of `TicketEntry` to a step of `TicketGate` or a
stutter. `ClaimsBounded` and `EntriesBounded` count: once a link is claimed,
its tickets plus the requests still exchanging it never become more, and there
were at most `Workers` of them at that moment; likewise for a ticket's entries,
granted scans and open scans. The counting lemmas stand at the head of the module, with
`GateBoundsEntries`: the abstract gate alone already bounds entries by the number
of scans. `EntriesBounded` is nevertheless proved directly, as the prover does not
carry a cardinality through the substitution of `INSTANCE`. `LocksServed`: a claim
row is locked by an exchange of that claim that is under way and needs no other row.

**`CronScheduler_proofs`** – any jobs, writers, periods and limits. `HistoryCorrect`
is inductive beside the types; `RemovedCorrect` is an action property that follows
from the type invariant, by cases on who writes the table. `OneShotCorrect` needs
`RunInv`: a job's successes are at most the crashes so far as long as the job
or its place in the batch is there, and one more only from the recording of its
success to its deletion. `PauseCorrect` needs from `RunInv` that the row the
scheduler writes back to disable a job is disabled.

**`SopEngine_proofs`** – any procedures, modes, limits and callers. `StepKinds` sorts
the actions into those that start, end, move and grant; what the numbers and
the active runs do follows once for each kind (`RunsStep`, `NumbersStep`,
`ActiveStep`). `HandedCorrect` needs that nothing is handed out for runs not yet
numbered, `AuditCorrect` that every record still to be written is true when it
is written however late (`AuditInv`: ends are final, numbers are not reused).
`LimitsCorrect` counts a set that grows by one element under the lock.

**`ChannelDispatch_proofs`** – any finite set of messages, any chats and senders.
`OneAtATimeCorrect` follows from `Protocol`: registered workers of an interrupting
chat are ranked; the table holds the last one while it is open; a parked worker
waits for the one ranked just before it; a running worker ranks below every
other that is open. Each conjunct needs the others: that a worker may start when
its predecessor is done takes that everyone before the predecessor is over, which is
so because the predecessor itself ran.

What becomes of the histories is proved from `Histories`, which holds beside
`Protocol`: the request under way ends its history and is nowhere else in it
(`Current`), a history holds messages of its own sender that were stored
(`Own`), what a reset put behind it is over (`Aside`), and workers that are over rank
before those that are not (`Over_first`). `FreshCorrect`, `RequestCorrect` and
`OrphansCorrect` follow. `KeptCorrect` counts: behind the turn of an interrupted
message are at most two turns for every later message that is over and one for the
one under way (`Kept`, `Slack`), so it is still there while those are fewer than
the history holds. `Kinds` sorts the actions by their effect on the histories. The
lemmas on `Normalise` hold for histories of any length: it is a recursive
function on `0 .. Len(turns)`, which `FoldExists` shows to exist by induction on a set
of naturals (`SetInduction`, from the well-foundedness of `<`); `NormaliseFacts`
then gives what every result is: roles alternate, every message comes from the
input, the messages of a last user's turn come from the user's turns the input ends with,
and the last of them is the input's last. `OnlyLostWakeUpsHalt`: unless a wake-up was lost,
some message that is not over has a step; of the workers that wait, the one
registered first would otherwise wait for one that is over and has set its flag.

**`AgentSession_proofs`** – any calls, tools, limits, models and providers.
`OnceCorrect` (a call runs once per turn), `ConsentCorrect`, `UnaskedCorrect`
(concurrent calls need no approval, and approvals given meanwhile do not change
that), `ChainCorrect` (given up means everything was asked), `CapCorrect`,
`SummaryCorrect`, and `CallsAnsweredCorrect`, which rests on lemmas about what
appending, cutting and summarising do to a history whose calls are answered: a cut
may open it in the middle of a round but only takes messages from its front.
`OrphansCorrect` needs that every result is joined to its calls by an unbroken run of
results, or stands with nothing but summaries and results before it (`Placed`): a cut that
parts a result from its calls then takes everything else before it as well.

**`GatewayWebhooks_proofs`** – any clients, keys, handlers, capacities and times.
`RateCorrect`: what was let in within the window is still listed, because lists are
pruned, by a call or a sweep, of older entries only and before anything is added.
`StartCorrect` and `DuplicateCorrect` are action properties: a key that was let
through and is still alive is in the store, and the store holds keys of begun
requests only.

**`GatewayConfig_proofs`** – any clients, editors, tokens and users, documents of any
length, any finite set of callers. `IInv` says what each caller holds by what it is
doing (`Held`). Its centre is that a token on its way to the client that paired is the
only one the guard accepts, and nobody else has it yet: so no editor is
authenticated and no edit is under way beside it, the gateway's copy of the list is empty and
what the request saves is that copy with its token. Such a request is alone
(`OneCarrier`), although a binding may save its own file over it. `OneTokenCorrect`
follows from `Tokens`: while there is a code the guard is empty, nothing was issued
and the gateway's copy lists no token. `AccessCorrect`: every token used is known,
carried or lost with its request (`Traced`), and what the guard accepts is such a
token or the mask. `KeptCorrect` (`KeptUnlessStale`) is inductive with the token
whose save is done but not yet told (`Kept`): a save that is not stale comes from a
document equal to the file, and takes out what its editor took out of that
document. `GuessesCorrect` counts: a client's counted failures plus the requests that
may still count one stay below the limit plus the callers.

**Only model-checked.** Liveness (`RequestsEnd`, `DueJobRuns`, `OneShotSettles`,
`OnlyLostWakeUpsBlock`, `EveryTurnEnds`): fairness and ENABLED are outside the
prover. The violations are counterexamples of TLC. The inductive invariants
were checked by TLC on the instances of the runs before they were proved.

## 6. Not modelled

**The backend.** Everything from *Payment webhooks* to *Feedback requests* in the
table of section 1 awaits its module of the plan. Left out for good: ticketing
queries (no state), the agent (its tool choice is a language model's), provider
adapters (their failures are `Abort`), incidents and users (single-row writes), the
dashboard, prompts and deployment scripts. Of the scanner app only its request and
the fate of the answer are modelled. `IssueTicketUseCase` sells seats in
`TicketInventory`; its tickets are not followed to the door because no product code
calls it.

**ZeroClaw.** The modelled files are those in which tasks share state. They are a
small part of its lines: most of the code are clients of some thirty messaging
services and model providers, tools that wrap a program or an API, the schema of
the configuration with its defaults and validation, a questionnaire that fills it,
drivers of boards, and tests. That code is sequential or keeps its state in the
service it talks to; its effect on the modelled parts is a call that answers, fails
or takes too long. Also left out: the daemon's supervisor and the heartbeat (their
restarts are the crash actions; the backoff decides nothing else), memory backends
(nothing modelled depends on what they return), the security policy (a refused
command is a failed one), the library agent of `agent/agent.rs` (a second, simpler
loop for embedding), and the webhooks of WhatsApp, Linq, WATI and Nextcloud Talk,
which keep no state: a message that is delivered again after the 30 s timeout is
processed again.

**Places met while modelling that no property covers.** In the model, but nothing in
the repository says what should hold: administration of categories may leave an
event with no default category or with two; links and category tickets are counted
against different capacities; `update_job` (`cron/store.rs:188`) writes back every
column it read, so of two overlapping updates one is lost; a cooldown
counts from a finished run that may have been evicted (`sop/engine.rs:109`); an
error in a round loses the record of tools already executed (`agent/loop_.rs`).
Said by a document but left to the note of its hazard, because one run per module
already shows a divergence or the limit of what is kept is clearer: interrupted
messages that had not begun are not preserved (`channels/mod.rs:1520`), and failed
turns leave the history above its limit (`agent/loop_.rs:3166`). Not in the
models: procedures reloaded with fewer steps while they run (`sop/engine.rs:217`),
approval timeouts that no component polls (`sop/dispatch.rs:158`), the routes
of `/model` and `/models` (`channels/mod.rs:1016`), hot reload of a provider
(`channels/mod.rs:662`), API keys that are rotated but not used
(`providers/reliable.rs:360`), the other lists of secrets that are restored by position
(`gateway/api.rs:560`: the API keys; `GatewayConfig` has the paired tokens), and, in the backend, the read-modify-writes of onboarding,
organizations, magic links, conversation state and feedback. Paths in this
paragraph are relative to `src/zeroclaw-engine/src`.
