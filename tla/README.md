# TLA+ development of CivicGate

CivicGate puts a deterministic governance gateway between a model that proposes tool
calls and a public-data API. A proposal is executed only if a policy permits it, exactly
as it was permitted, at most once, and, where a durable journal is configured, only while
the fate of every earlier dispatch is known. These modules say what that means, check it
on small instances with TLC, and prove its safety properties for every instance with
TLAPS.

Paths below are relative to `src/src/civicgate/` unless they start with `src/`.

## The system

| Component | State | Operations | What makes it correct |
|---|---|---|---|
| Execution boundary (`governance/execution.py`) | `_issued`, a dictionary from `id(envelope)` to the retained entry | `evaluate`, `consume` | what is let through is what was permitted, fresh, and once |
| Policy, tripwires, Agent K (`governance/policy.py`, `authority.py`, `agent_k.py`) | none | `evaluate`, `inspect`, `denied_reasons` | denials cannot be annulled; detectors add nothing of their own before containment |
| Request risk (`governance/request_risk.py`) | none | `assess_request_risk`, `literal_proposal_reasons` | no later clause hides a consequential one |
| Gateway (`mcp/tools.py`) | `_lock`, `_denials`, configuration | `call` | serialised calls, containment, no lost lock |
| Local journal (`audit/local_journal.py`) | SQLite table, owner lock, per process `held`, `active`, `denials`, `_sequence` | constructor (replay), `admit`, `begin`, `policy`, `intent`, `finish`, `failed`, `close` | replay, memory and table agree; a hold is final |
| HTTP application (`mcp/http_app.py`) | sessions, initialised sessions, in-flight count | request handling, lifespan | limits hold, owners do not share sessions |
| PostgreSQL journal (`audit/postgres_journal.py`, `postgres_history.py`) | state row, event rows, session lock | as the local journal, with compare-and-set on what was read | one owner; ambiguous commits stop it |
| Transport guard (`audit/postgres_transport_guard_v1.py`) | delegated requests | request verification | one delegation per intent |
| Fencing receivers (`audit/fencing_receiver_experiment_v1.py`) | highest epoch, receipts, effects | `receive` in modes U, F1, F2 | each mode keeps its promise, and answers are true |
| USAspending adapter (`adapters/usaspending.py`) | attempt records of one call | the retry loop | records tell what was sent, within the budget |
| Console executors (`evidence_console/demo_execution_v1.py`, `chat_execution_v1.py`) | jobs, idempotency keys, worker thread and its process | `submit`, worker, `shutdown` | one dispatch per key, outcomes final and never overstated |
| Evidence advisor (`evidence_console/evidence_advisor_v1.py`, `anthropic_advisor_v1.py`) | analyses, analysis thread, reservations | `submit`, `analyze`, `shutdown` | the budget holds; an analysis is of published evidence |
| RQ6 workflow (`rq6/workflow.py`) | state and fixed artifacts of each bundle; the cohort's order, aggregate and review | some fifteen operations on a bundle, six on a cohort | codings are fixed and closed before the mapping is revealed; bundles in order |
| WRITE-01 store and gateway (`src/evals/write01/store_v1.py`, `gateway_v1.py`, `authority_v1.py`) | intents, notes, review state; approvals spent, owner stopped | `reserve`, `commit`, `acknowledge`; `call` | at most one mutation across crashes, truthful responses |
| Attempt budgets (`src/evals/harness/attempt_budget_v2.py`) | attempts, MCP calls, observations and their fences; the fence each controller holds | begin, join, close, `reserve`, `start`, `finish`, `stop`, recovery | limits hold, unknown is never resent |

How they interact. A client's call reaches `Gateway.call`, waits for the gateway's asyncio
lock, asks the journal for admission, then runs `_call`: preflight policy, judge, boundary
`evaluate` (the policy decides and an authority envelope is issued), policy row, intent
row, boundary `consume`, adapter, second evaluation of results that need review, finish
row. The HTTP application creates journal and gateway, and closes the journal when its
lifespan ends. A journal outlives its process: the next process replays it.

Beside the gateway stand five smaller systems. The fencing receivers take requests that
carry an owner and an epoch. The WRITE-01 gateways share one review store. The evaluation
harness counts its provider attempts in one budget file that a parent and its child
processes share. The evidence console runs jobs in worker processes and has their
published evidence analysed. The RQ6 workflow leads reviewers through bundles of frozen
artifacts.

The hard parts are shared state across an await (threshold, credentials, the lock),
writes that commit and still raise, crashes between any two rows, address reuse behind
`id()`, a clock that may regress, and calls that fail at any point with the lock taken;
beside the gateway, deliveries that overlap, owners and controllers that die with
something open, and worker threads that race a deadline and a shutdown.
`PROJECT.json` lists each of these hazards at its line with the properties that cover it.

## Modules

| Module | Models | Notes |
|---|---|---|
| `PermitLedger` | what an issuer of single-use permits promises | abstract; implemented by `ExecutionBoundary` |
| `ExecutionBoundary` | `governance/execution.py` | `Issue` and `RefuseIssue` are `evaluate`, `Consume` and `Reject` are `consume`; `Copy`, `Overwrite`, `Release`, `SetClock`, `Drift` are what callers, the allocator and the host do around it |
| `ExecutionBoundaryProofs` | | the theorems about it |
| `Policy` | `policy.py`, `agent_k.py`, `authority.py` | operators only; used by the next and the last module |
| `GovernedSession` | `_call` without a journal | one action per stretch of `_call`: `Receive`, `SkipJudge` or `Assess`, `Decide`, `ReviewResult` or `RefuseExecution`, `EndCall` |
| `GovernedSessionProofs` | | the theorems about it |
| `DispatchLedger` | what durable dispatch accounting promises | abstract; implemented by `LocalGateway` and `GuardedGateway` |
| `LocalJournal` | `audit/local_journal.py` | the handlers of the journal as actions on table, lock and objects |
| `LocalGateway` | `Gateway.call` and `_call` with that journal, over several processes | composes `LocalJournal` and `Policy` |
| `LocalGatewayProofs` | | the theorems about it |
| `AttemptLoop` | `USAspending._request` in `adapters/usaspending.py` | one request with its retries; what `AdapterReturns` abstracts in `LocalGateway` |
| `PostgresJournal` | `audit/postgres_journal.py`, `audit/postgres_history.py` | rows, advisory lock, sessions, COMMITs on their way, and the handlers of the journal objects |
| `GuardedGateway` | the call of `mcp/tools.py` with that journal and the guard of `audit/postgres_transport_guard_v1.py` | composes `PostgresJournal`; implements `DispatchLedger` too |
| `GuardedGatewayProofs` | | the theorems about both |
| `EffectLedger` | what each mode of a fencing receiver promises | abstract; implemented by `FencingReceiver` |
| `FencingReceiver` | `PostgresReceiver` in `audit/fencing_receiver_experiment_v1.py` | one action per statement between which others may come |
| `DeliveryProofs` | | the theorems about it and `AttemptLoop` |
| `ReviewStore` | the transactions of `src/evals/write01/store_v1.py` | used by the next |
| `WriteGateway` | the write call of `gateway_v1.py` and `authority_v1.py`, for several owners | composes `ReviewStore` |
| `AttemptBudget` | `src/evals/harness/attempt_budget_v2.py` and how its callers use it | one action per method |
| `AttemptBudgetProofs` | | the theorems about it |
| `Executor` | `evidence_console/demo_execution_v1.py` and `chat_execution_v1.py` | one action per section under the lock |
| `Advisor` | `evidence_advisor_v1.py` and `anthropic_advisor_v1.py` over `Executor` | composes the two services and their shutdown |
| `ConsoleProofs` | | the theorems about both |
| `BundleWorkflow` | `BundleWorkflow` of `rq6/workflow.py` | one action per operation |
| `CohortWorkflow` | `CohortWorkflow` of `rq6/workflow.py` over several bundles | composes `BundleWorkflow` |
| `ReviewProofs` | | the theorems about the workflows and `WriteGateway` |
| `MC...` | | constants for TLC |

**ExecutionBoundary.** An envelope is an object with an address and fields, because the
code compares object identity and keys its dictionary by `id()`. `object` remembers every
object ever made, `held` which ones a caller still refers to; an address is free when
neither a caller nor the dictionary refers to an object there. A tool with its normalised
arguments is one `Invocations` value and a digest is the value it is taken of, so schema
drift is the flag `drifted`. Four history variables record what was presented, permitted,
used and let through; no guard reads them. `Copy` and `Overwrite` come from the adversarial tests, which
replace and corrupt envelopes; they never rewrite a request id, and neither does
the model. Two things the code checks are not told apart: an envelope corrupted beyond
serialisation is refused like one that differs, and a facts object without arguments
(which the gateway never builds) is not modelled.

**Policy.** A request is abstracted to what the policy reads of it. Reasons are a set.
The judge's six classifications are represented by the three the code distinguishes: in
scope, ambiguous (which Agent K reads), and any other.

**GovernedSession.** `facts` is built by `NewFacts` from the text and arguments as
`_call` does it, so that invalid combinations cannot arise. `EndCall` is both the return and an exception.

**LocalJournal.** Each write has one of three outcomes: acknowledged (`ok`), not committed
(`lost`), or committed although it raised (`kept`). The constructor is two steps, replay
and boot row, since the process may die in between. Replay is said twice: once of the
whole table (`HeldByRows`, `Pending`, `OpenGeneration`, `ReplayedDenials`), used by the
model, and once as the loop of the constructor (`Replay`); `ReplayIsLoop` checks that
they agree on every reachable table.

**LocalGateway.** A call is at one of thirteen points, between which the code awaits,
writes or traces. A call whose snapshot is no longer read forgets it (`Past`, `Blank`),
which keeps the state space small and hides nothing. `Fault` is any exception outside
the handled ones: an unwritable trace, a cancelled task. Consumption and dispatch are
one step because there is no await between them; `Reconfigure` and `Shutdown` happen
only where the event loop gives way (`Yielding`).

**PostgresJournal.** A transaction locks the state row (`FOR UPDATE`), replays all rows,
validates the new one by replaying it too, and updates under what it has read, so it is
one step. `_load()` raises unless the state row is what the rows replay to; row and
state row are written together, so `domain` is kept in step with `log` by one `Apply`
per row, and a transaction reads it instead of replaying. `Accepts` is what the replay
lets pass, `CanRun` what a transaction of an object must find, and `known` the state the
object remembers. `commit` holds the row of a COMMIT
whose answer never came: the server may apply it until it ends the session
(`SessionEnds`). The advisory lock can also be lost while its session goes on
(`LockLost`), which the guard looks for. A constructor that is refused leaves nothing
behind and is not a step. Denials are left out; `LocalGateway` follows them.

**GuardedGateway.** What a call decides is a choice here, since `LocalGateway` models it;
what matters is the order of rows, guard, network and crashes. Between `Verify` and
`Send` (the G2 window of the guard's comments) sessions and locks may go, credentials
expire and the server may shut down. A request that has left arrives at any later time
or never. `Retry` stands for an adapter configured with several attempts, which the
guard does not rely on. An expired credential at admission stops this journal for good,
unlike the local one (`Admit`, `Refuse` in `LocalGateway`).

**AttemptLoop.** A response is told apart by what the loop does next: status 429 or 5xx
(`unavailable`), another status or content that is refused, or status 200 with JSON
content (`accepted`). An attempt that was answered may still time out or break while its
response is read or closed, whatever the status. Time is counted in units from the start of the call; a timeout or
a sleep ends up to `Lag` late, as timers do on a busy event loop. `requests` and
`headers` are histories. The flag `retryable` of a raised error is left out: it is always
false when an error leaves the loop.

**FencingReceiver.** A delivery is one arrival of a request and runs a transaction of its
own, so deliveries overlap as far as the row locks let them: the scope row from
`LockScope` on, in F2 the authority row, shared, from `CheckAuthority` on. A COMMIT that
was sent is the server's (`Commit`, `Abort`), whether its receiver still lives or not.
`Publish` is external: it follows the rule of the receiver's docstring, that all
publishers update the one authority row. A fingerprint is the request it is taken of.

**ReviewStore, WriteGateway.** Each transaction is acknowledged (`ok`), undone (`lost`) or
committed although the call raises (`kept`). `commit` is two transactions, the attempt
and the mutation. `Valid` is `_validate`, which every transaction runs first, so a file
it refuses would stop every owner for good. An operation id is fresh for each call; an
approval is the query it approves. An error of the store or of the trace, and any other that
the handlers of `_call` name, stops its owner (`Stop`), which answers all later calls
without doing anything; an award that the store does not know is no such error but a fact
the policy denies, and an exception of another class is assumed not to occur. The READ tool changes nothing and is left out.

**AttemptBudget.** A method is one transaction; one that raises without having committed
changes nothing and is no step, and one whose acknowledgement is lost leaves its caller
without the fence or the reservation (`~acked`). `Spawn` hands a child the fence of its
parent, as `run_offline_observation` does; `Send` and the guard of `Finish` are how the transport of
`bounded_provider_v3.py` uses what it reserved: `Send` takes the last look at the file
(`assert_active_observation`) and the entry into the delegate as one step, although the
PRE_DELEGATE guard comes between them; the plan has a module of its own for this transport. The eight outcomes that stop a run are one, `UNKNOWN`.

**Executor, Advisor.** A job is named by its idempotency key. Every record that a section
writes is acknowledged, lost or kept; a kept one leaves its number taken, since a file is
never overwritten. Whether receipt and evidence verify is a choice (`Raise`). A receipt is
assumed to be a JSON object, and so are, in the chat executor, the projection and the
parts of it that are looked into (`request`, `proposal`, `policy`, `binding`, `backend`,
`result`): with another shape the worker thread would leave by an `AttributeError` that its
handler does not name, after `finally`, and its job would stay `RUNNING`. The workers of
the repository write objects only. `JobsAccountedFor` and `EverythingEnds` rest on this. The chat
executor differs from the demo's in what it records only. The two executors and the
advisor are separate objects; the model has one executor and the advisor over it, which
sees what `evidence_entries` publishes. `Close` comes after the executor's shutdown, as
in the application's lifespan.

**BundleWorkflow, CohortWorkflow.** An operation validates what it is given and what was
fixed before, then changes its bundle; a refused one changes nothing and is no step. An
artifact is what a later operation compares of it; the schema's answer is a choice, but
for the rules of a closure that depend on the state. `reveal_mapping` and
`_close_common` verify the frozen artifacts once more after the change, and may therefore
raise although the change stays. Two consequences of the code are worth knowing. A bundle
in the deferred state has no operation left, so it holds up its cohort; and a bundle that
loses its evidence after it was opened but before an alias commitment is fixed cannot be
closed as insufficient, because the schema wants the commitment from all but the
custody-only workflows. `begun` and `judging` are histories.

## Checks

| Run | Module | Instance | Distinct states | Properties |
|---|---|---|---|---|
| `boundary` | `MCExecutionBoundary` | 2 envelopes, 2 addresses, 2 request ids and a third of each to exceed the capacity of 2, 2 invocations, 2 contexts, clock 0..2, lifetime 1; symmetric | about 594,000 | `TypeOK`, `ExactBinding`, `FreshWhenUsed`, `OneAuthorizationPerRequest`, `PresentedIsSpent`, `OnlyOwnerOrExpiryRemoves`, `ImplementsLedger` |
| `governance` | `MCGovernedSession` | 3 calls, all request facts, all configurations | about 218,000 | `PreflightSound`, `ContainedSession`, `AgentKOnlyContains`, `ReviewedNotPermitted` |
| `gateway` | `MCLocalGateway` | 2 processes, 3 requests, 14 rows, time 0..1; symmetric | about 630,000 | `ReplayIsLoop`, `MemoryMatchesTable`, `HoldIsPermanent`, `DurableContainment`, `ImplementsLedger` |
| `gateway_live` | `MCLocalGateway` | 1 process, 2 requests, 9 rows, time 0..1 | about 17,000 | `EveryCallEnds` |
| `guarded` | `MCGuardedGateway` | 3 owners, 3 requests, 13 rows; symmetric | about 334,000 | `TypeOK`, `OwnerKnowsHistory`, `SentUnderIntent`, `ServedInOwnEpoch`, `ImplementsLedger` |
| `attempts` | `MCAttemptLoop` | 3 attempts of 3 units, backoffs 1 and 2, budget 12, advices 0, 5, 20, lag 1 | about 119,000 | `RecordedAreRequested`, `RecordsAreTheirOwn`, `AnnouncedRetriesHappen`, `OverInBudget` |
| `attempt_records` | `MCAttemptLoop` | the same | violated | `OneRecordPerRequest` |
| `fencing` | `MCFencingReceiver` | 3 deliveries, 5 requests of 2 owners under 2 ids, epochs 1 and 2, 5 authority rows, all modes; symmetric | about 327,000 | `OutcomesTrue`, `ImplementsLedger` |
| `review` | `MCWriteGateway` | 2 owners, 3 operations, 2 awards, 4 queries; symmetric | about 80,000 | `StoreValid`, `ResponsesTrue`, `OpenIntentFences` |
| `budget` | `MCAttemptBudget` | 2 controllers, 3 observations of which 2 are admitted, 1 role with 2 attempts; symmetric | about 252,000 | `AccountedFor`, `OrphanedFenceBlocks` |
| `console` | `MCConsole` | 2 jobs, 2 analyses, 1 provider call | about 81,000 | `JobsAccountedFor`, `AdviceAccountedFor`, `HoldIsFinal`, `EverythingEnds` |
| `workflow` | `MCCohortWorkflow` | 3 workflows, one custody-only, 2 units, 2 codings, a cohort of 2; symmetric | about 2,015,000 | `CodedBlind`, `CohortInOrder`, `HistoryIsFinal` |

What they show.

- `boundary`: an envelope is bound to the call that was permitted (`ExactBinding`), fresh
  when used in spite of a clock that regresses and of a forged `expires_at`
  (`FreshWhenUsed`), spent by its first presentation even if that failed
  (`PresentedIsSpent`), and cannot be evicted or inherited through a reused address
  (`OnlyOwnerOrExpiryRemoves`). All of it together refines `PermitLedger`, whose
  capacity is never exceeded.
- `governance`: skipping the paid judge call never changes a decision
  (`PreflightSound`); two tripwire denials contain the session (`ContainedSession`);
  Agent K alone changes nothing before that (`AgentKOnlyContains`); a result that needs
  review comes out as review (`ReviewedNotPermitted`).
- `gateway`: two tripwire denials on record stop dispatch in this and every later process
  (`DurableContainment`); a hold on record is followed by hold rows only
  (`HoldIsPermanent`); the object in service knows exactly what a replay would say
  (`MemoryMatchesTable`). `ImplementsLedger`: an intent is committed before the adapter
  is entered, and while the fate of one intent is unknown nothing else is intended.
- `gateway_live`: every waiting call ends, whatever write, trace, judge or adapter fails.
- `guarded`: locks, sessions and late COMMITs notwithstanding, whoever is in service knows
  the whole history and is its open owner (`OwnerKnowsHistory`). The G2 window exposes
  less than it may seem: lock, session and credential can go in it, but the intent that
  was verified is still the last row when the request leaves (`SentUnderIntent`), and no
  successor has booted when it is served, however late (`ServedInOwnEpoch`), because an
  open or unknown dispatch keeps every successor out. `ImplementsLedger` is the same
  promise as in `gateway`, here of the requests that really left.
- `attempts`: attempts on record are the attempts that were sent (`RecordedAreRequested`),
  no record borrows a confirmation or a Retry-After from an earlier attempt
  (`RecordsAreTheirOwn`), an announced retry takes place (`AnnouncedRetriesHappen`), and
  the call is over within its budget but for one late timer (`OverInBudget`).
- `attempt_records` is a finding. A body with status 200 that is announced as JSON and is not leaves two
  records for one request, the first of them a success, because the success is recorded
  before the body is parsed. `attempt_count` is then 2 for one request; the test of a
  malformed body expects 1, with a body that is JSON of the wrong shape. The history of
  the PostgreSQL journal accepts one record only, so there such an answer stops the domain
  (`contradictory` in `GuardedGateway`).
- `fencing`: what a receiver tells is true for good, with `UNKNOWN` the only answer that
  leaves an effect open (`OutcomesTrue`), and each mode keeps its promise
  (`ImplementsLedger`): U applies every delivery at most once, F1 a request id at most
  once and never after a newer epoch, F2 only while the authority is the sender's. The
  lock on the authority row must last until COMMIT for that; the mutant shows it.
- `review`: no interleaving, failure or death makes a file that `_validate` refuses
  (`StoreValid`); `CLOSED`, `OPEN`, `COMMITTED` and `NOT_DISPATCHED` in a response are
  true when it is given and ever after (`ResponsesTrue`); and once a call has ended with
  its intent open, neither that intent nor its award changes (`OpenIntentFences`).
- `budget`: counts, limits and outcomes on file agree with what was sent
  (`AccountedFor`), and an open fence that no living controller holds lets nothing begin,
  be sent or be admitted (`OrphanedFenceBlocks`).
- `console`: a key is dispatched once and one process runs at a time, even if it could not
  be ended (`JobsAccountedFor`); a hold, a deadline and an outcome are final
  (`HoldIsFinal`); the advisor stays within its budget and analyses only what stays
  published (`AdviceAccountedFor`); and jobs and analyses end (`EverythingEnds`).
- `workflow`: whoever knows a mapping finds every unit coded and closed before, and
  closures and assessments repeat these codings (`CodedBlind`); what is fixed stays
  (`HistoryIsFinal`); and recorded bundles were worked on one after another, with a judge
  chosen only on a reviewed aggregate of the whole cohort (`CohortInOrder`), although
  every workflow can be used without the cohort.

Why the bounds are enough. Interference between envelopes needs two of them at one
address, which two addresses and two envelopes reach; an envelope issued at the first
clock reading expires exactly at the second, and the third is past its life. Two
authorizations fill the dictionary, and a third envelope, address and request id are left
to exceed it: the constraint `SpareExceeds` explores them only as a third outstanding
authorization, which the code must refuse (`Full`), and the mutant, which refuses one too
late, reaches it. Containment needs two denials and a third call. In
`gateway` 14 rows let one process do two complete calls, close, and a second process boot
and start the third; the store also fills up in the middle of calls. In `guarded` 13 rows hold two complete generations of one call each, or one of two calls and
the start of its successor, with a third owner always left to interfere. In `attempts` the budget is that of the code in small units, all timeouts and backoffs
together, so that it is exhausted only with the help of an advice or of late timers, as in
the code; one advice is below the backoff, one above, one beyond the budget. `MaxCalls`, `MaxTime`
and `MaxEvents` cap counters; `MaxEvents` is also a limit of the code, at a smaller value.
In `fencing` three deliveries allow a duplicate next to a conflict, each
epoch has its owner, and one request claims an epoch that is not its owner's. In `review`
an award is wanted under two keys, a key for two awards, and once with a version that
holds only after the first review. In `budget` two attempts make a first one and its
retry or that of another observation, and the third observation is beyond the limit. In
`console` one call within the budget and two analyses exhaust it. In `workflow` two units
(three in the code) are the first and the last, and a cohort of two (six in the code)
has a bundle before another and one that is left over.
`CHECK_DEADLOCK FALSE` is set in every run: requests, envelopes, calls and attempts are
finite in an instance, and what is held, stopped, closed or deferred is meant to stay so.

Fairness. `FairSpec` asks weak fairness of `CallStep(r, p)`, the steps of a call's own
code: the event loop runs what it can run, the judge has a timeout of 30 seconds and the
adapter a retry budget. Nothing is asked of arrivals, crashes, faults, restarts,
reconfiguration or time. `console` asks weak fairness of the sections of the worker
threads, which are started and never wait for ever, since the process is awaited with a timeout, and
of the clock that reaches a deadline (`Expire`), on which that timeout rests; the process
itself need not end, nor need anybody shut down.

## Proofs

Every theorem is of the form `Spec => ...` and holds for every value of the constants
that the named assumptions of its module allow: any number of calls, owners, rows,
requests, jobs, bundles. Each specification has one inductive invariant, in named parts,
which TLC has confirmed on the instance of the run; a lemma for each action preserves
it, and a lemma `Invariance` (or `Invariant`) combines them. It is called `IInv`, in
`ReviewProofs` `GatewayInv` and `CohortInv`, in `DeliveryProofs` `IInv` and `LoopInv`, and
in `ConsoleProofs` `ConsoleInv`.

| Module | Assumptions | Theorems |
|---|---|---|
| `ExecutionBoundaryProofs` | `TimeAssumption`, `MemoryAssumption` | `TypeOK`, `ExactBinding`, `FreshWhenUsed`, `OneAuthorizationPerRequest`, `PresentedIsSpent`, `OnlyOwnerOrExpiryRemoves`, `ImplementsLedger` |
| `GovernedSessionProofs` | `SessionAssumption` | `PreflightSound`, `ContainedSession`, `AgentKOnlyContains`, `ReviewedNotPermitted` |
| `LocalGatewayProofs` | `StoreAssumption`, `ClockAssumption` | `TypeOK`, `MemoryMatchesTable`, `HoldIsPermanent`, `DurableContainment`, `ReplayIsLoop`, `ImplementsLedger` |
| `GuardedGatewayProofs` | `DomainAssumption`, `RowAssumption` | `TypeOK`, `OwnerKnowsHistory`, `SentUnderIntent`, `ServedInOwnEpoch`, `ImplementsLedger` |
| `DeliveryProofs` | `EpochAssumption`, `AttemptAssumption` | `TypeOK`, `OutcomesTrue`, `ImplementsLedger` of the receiver; `RecordedAreRequested`, `RecordsAreTheirOwn`, `AnnouncedRetriesHappen`, `OverInBudget` of the loop |
| `ReviewProofs` | `QueryAssumption`, `BundleAssumption`, `CohortAssumption` | `StoreValid`, `ResponsesTrue`, `OpenIntentFences`; `CodedBlind`, `CohortInOrder`, `HistoryIsFinal` |
| `AttemptBudgetProofs` | `BudgetAssumption` | `AccountedFor`, `OrphanedFenceBlocks` |
| `ConsoleProofs` | `ExecutorAssumption`, `AdvisorAssumption` | `JobsAccountedFor`, `AdviceAccountedFor`, `HoldIsFinal` |

**ExecutionBoundaryProofs.** The safety properties speak of history
variables and are not inductive: that a used envelope was permitted needs that every
retained entry describes the permit of its own envelope and that this envelope was never
presented (`EntriesIntact`), and that in turn needs that the entry found under `id(e)` is
the one of `e`. This is `AddressesDiffer`: the dictionary keeps its objects alive, so no
two live objects share an address. `HistoryOfObjects` says that histories speak of
objects that exist, so a new object has none. For the refinement, an issuance is `Grant`
(with the purged permits lapsing), a successful consumption is `Use`, a refused one and a
refused issuance are `Void`, and everything else stutters; that the capacity carries over
from dictionary keys to permits is a lemma on cardinalities (`KeptAreFew`).

**GovernedSessionProofs.** The lemmas say in propositional form what `Evaluate` and
`Inspect` return (`Decision`, `Denies`, `Reviews`, `Inspected`), and that what denies does
not depend on the judge (`JudgeCannotAnnul`). With them the properties follow from
`CallConsistent`: a judge is heard only where the policy will read it, Agent K has seen
what the judge said, and a skipped judge means a preflight that denies.

**LocalGatewayProofs.** The table is read through a few operators only (`Recorded`,
`Pending`, `HeldByRows`, `OpenGeneration`, `ReplayedDenials` and the count of tripwire
rows); lemmas say how one more row changes each, and the actions are then reasoned about
without looking at rows. `TableInv` says that, unless something in the table forbids a
restart, the count in the last finish row is the number of tripwire denials: this is why
a count in memory survives restarts. `MemoryInv` says that only the owner's object is in
use and knows the table unless it holds, `CallInv` that the rows of a call are as far as
the call is. In the refinement the intent row is `Intend`, `Dispatch` is `Dispatch`, the
finish row of a known outcome is `Settle`, and everything else stutters.

`ReplayIsLoop` compares that reading with a recursion over the rows, and the library's
induction theorems are out of the prover's reach. They are not needed: a natural number
at which something fails has a least one (`LeastNumber`, from the well-foundedness of
`<`), and at the least one the turn before it gives a contradiction. This shows that the
recursion has a solution (`LoopExists`), so that `Replay` may be unfolded, and that a
further row leaves the turns before it as they were (`AppendedReplay`). What one turn
does to `held`, `open`, `pending` and `denials` is then compared with what one row does
to their readings, and `LoopReads` is inductive together with `IInv`, which supplies that
no request is begun again after its finish row (`Growth`); without it the loop and the
reading would disagree on who is pending.

**GuardedGatewayProofs.** The state row and the rows agree (`DomainInv`, `RequestInv`):
this is what lets the theorems, which are about rows, be proved from a state row that is
updated one row at a time (`RowInv`). An object that was not stopped knows the state row
and nothing is on its way (`JournalInv`); the one COMMIT that may be on its way will be
accepted when it arrives (`PendingInv`), and then nobody is in service. So while a call
is between its begin and its finish row (`CallInv`), only its own rows change the domain,
and what the guard has found in the history still holds when the request leaves: lock,
session and credential are nowhere needed for it. `SentInv` carries this over to requests
whose sender is gone: one that may still arrive has all its intents in the present epoch,
because a boot needs a domain without an active request or a hold.

**DeliveryProofs.** The scope row makes transactions exclusive
(`OneTransaction`), so what one of them found there still holds when it commits
(`FoundNoReceipt`, `FoundNotOlder`); in F2 the shared lock on the authority row does the
same for the authority (`FoundAuthority`). `EffectsCommitted`, `ReceiptsExact` and
`HighestApplied` tie receipts and epochs to effects, and `Told` is what makes answers
true for good. Of the attempt loop, `LoopConsistent` says for each point of it how many
requests entered the transport, how many are on record, and that what is bound in an
attempt is its own; until the loop ends every record announces a retry (`AllRetried`),
and ending it adds records of the last attempt only, which announce none (`EndStep`).
`InTime` adds that no deadline is set beyond the budget.

**ReviewProofs.** In the gateway, each transaction keeps `Valid` and at most one open intent per
award (`OneOpen`), and the row of an operation is as far as its call (`RowMatches`);
what a step does for one operation leaves the rows of the others alone (`SameRow`).
In the workflows, an operation on a bundle keeps `Sound` (how far its units are in each
state, the mapping after the last unit, assessments and closures as coded) and only
`Continues` its history; the cohort's part is that recorded bundles are final, the
current one is next in the manifest, and the aggregate comes last.

**AttemptBudgetProofs.** `WithinLimits` counts rows, `HeldOnce` says that an attempt has
one holder and that what is cleared to be sent was not sent, `StatesTell` what each state
says of what was sent. That an orphaned fence blocks needs `OneFence`: an open fence
leaves no room for a second one, so whoever acts must hold it.

**ConsoleProofs.** A worker that has not left keeps its service to itself (`OneWorker`),
so almost everything can be said of one key: where its worker is tells whether anything
was started (`Started`) and what is on record (`OnRecord`), whatever writes were lost or
committed unacknowledged, and although `shutdown()` may call a job unknown while its
worker is anywhere. A process may outlive its worker only if the executor is held. That a
process is alone (`OneProcess`) follows, since a held executor starts nothing. The analyses
read the executor's jobs, and need of them only that a completed job stays so, which is
part of what `HoldIsFinal` says of a step (`HoldStep`).

**What the ledgers come to.** From the refinements, and from the ledgers alone, follow
facts that need no knowledge of rows or locks: in both gateways at most one request is in
doubt across all processes, none is dispatched without an intent or twice, and a settled
one stays settled (`OneInDoubt`); the receiver applies a request id once in F1 and F2 and
undoes nothing (`AppliedOnce`).

Every invariant and every action property the runs check is a theorem. Only
model-checked are

- the liveness of `gateway_live` and `console`, `EveryCallEnds` and `EverythingEnds`:
  leads-to under weak fairness needs ENABLED, which is out of the prover's reach;
- `OneRecordPerRequest`, which is refuted (the finding of `attempt_records`).

## Not modelled, and why

- Text matching (tripwire, risk and planner patterns), JSON canonicalisation, SHA-256,
  signatures, the digest chain and source manifest of the journal: data, abstracted to
  what the properties tell apart. `request_risk.py` in particular is regular expressions
  and the order of clauses in a text; a model that keeps what can go wrong in it would
  be the text itself.
- The sessions of `mcp/http_app.py`: their limit is checked when a request arrives and
  the session is registered when its response starts. It bounds memory and has no effect
  on calls, and sessions over the gateway are beyond what TLC explores.
- The client of `mcp/client.py` that times out while its call is dispatched: what it
  knows of the call is its timeout only; `LocalGateway` has the call that goes on.
- The schemas and validators of `rq6/`, its storage, cryptography and command lines:
  they accept or refuse artifacts, which is an input of `BundleWorkflow`.
- The READ tool, MCP server and dataset of WRITE-01; the other versions of the harness's
  attempt budget, its provider transports, live compositions, captures and metrics.
  They are drivers around what `AttemptBudget` models, or copies of it.
- Provider clients, prompts, response schemas, FAA parsing, scoring, the console's reader
  and views, configuration, scripts: I/O, formatting or one-off drivers.

By lines, most of the repository is of these kinds.

## Plan

1. `BoundedProvider`: the transport of `src/evals/harness/bounded_provider_v3.py` over
   `AttemptBudget`, with its own deadline, in place of the present `Send` and `Finish`.
2. A theorem that `BoundedProvider` keeps `AccountedFor`, from the lemmas on the rows of
   the budget file.
