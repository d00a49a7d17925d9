# Intentra in TLA+

Intentra lets a customer hire a provider and keeps the money in an escrow until
the work is accepted or a dispute is settled. This directory holds TLA+ modules
of its parts, the TLC configurations that check them, and TLAPS proofs about
them. Paths below are relative to `src/intentra-monorepo/`; `B/` stands for
`backend/app/`.

## The system

| Part | State it keeps | Operations | Correct when |
|---|---|---|---|
| Escrow contract `contracts/src/IntentraEscrow.sol` | intents, proposals, appeal stakes, one pooled balance per token, ether | create, fund, dispute, propose, two-signature execution, appeal, ruling, abandonment, stake withdrawal | an intent takes its total in once and pays it out once, by the route its history allows; the pool covers what is owed; silence does not lock money |
| Transaction machine `B/core/states.py`, `B/domains/transactions` | `transactions.state`, `version`, `escrow_intent_id` | `lock`, `apply`, `note`; select quote, cancel, fund, deliver | the state never contradicts the chain; terminal states are final |
| Policy `B/core/policy`, `B/domains/transactions/policy.py` | none; refusals go to the audit trail | evaluate, enforce, note out of band | no step with effect outside passes that was not signed; a refusal reaches its caller |
| Authorization `B/domains/authorization` | offer and signed authorization | build offer, verify, record | what is signed is what is paid, and a signature stands |
| Intents and quotes `B/domains/intents` | the structured request, one quote per provider | capture, refine, recommend, quote, select | a request that answers late binds nobody to what was not signed |
| Payments `B/domains/payments` | reported hashes and observed payments | fund calls, release, report | a job is funded by exactly its amount, once, and one that is told to fund stays open |
| Resolver outbox `B/domains/payments/outbox.py`, `B/workers/blockchain.py` | `chain_txs`: QUEUED, SENT, MINED, FAILED, STUCK | queue, send oldest, confirm, recheck | a row goes out once, its verdict is the chain's, none is forgotten |
| Chain watcher `B/orchestration/chain_events.py` | cursor, `chain_events`, payments, job states | poll, handle log, fast path for reported hashes, webhook | every log is applied once, none is lost |
| Disputes `B/domains/disputes` | dispute, proposal, acceptances, deadlines | complain, respond, ladder, accept, reject, expire | one settlement per dispute; a late answer does not undo a newer decision |
| Reconciliation `B/workers/reconciliation.py` | none of its own | deadlines, abandonment, pending ladders, rechecks | what was lost in a crash is picked up again |
| Leader election `B/workers/leader.py`, `runner.py` | an advisory lock on one connection | try, release | one instance runs the workers |
| Idempotency `B/core/idempotency.py` | key rows IN_PROGRESS, COMPLETED | completed, reserve, run | a retried request takes effect once and gets the answer of that effect |
| Connection pool `B/core/db.py` | 15 connections, row locks in Postgres | session_scope | nobody waits for ever, nothing leaks |
| Money `B/core/money.py`, `remedies.py` | none | split, tolerance, conversion | splits add up |
| Audit `B/domains/audit` | hash chain per job | append, verify | sequence without gaps or forks |
| Fulfilment, evidence `B/domains/fulfillment`, `B/domains/evidence` | checklist, coverage, evidence by hash | start, upload, deliver | what is delivered is covered by photos, each counted once |
| Identity `B/domains/identity`, `B/integrations/privy.py`, `backend/scripts/seed.py` | users, provider profiles, a cached profile per account | session, claim, onboard, seed | an account keeps its owner; who acts for a provider was vouched for |
| Providers, ranking and trust `B/domains/providers`, `B/integrations/graph.py` | a cached snapshot of the subgraph | score, rank, explain | a standing is earned, and silence excludes nobody |
| Subgraph `backend/subgraph` | provider counters | handlers | counters follow the log order |
| Integrations, migrations, scripts, frontend | none that the rules read | calls, rendering | see "Not modelled" |

How they interact. A route handler opens one database transaction
(`session_scope`), locks the row of the job, checks policy, applies an event of
the machine and perhaps queues an outbox row, all committed together. The
sender task takes outbox rows to the chain. The watcher reads the contract's logs
and applies them to the same rows. Reconciliation looks at deadlines and locks
the rows it acts on. Wallets call the contract directly and report their hashes
to the API afterwards. All backend tasks share one event loop, one connection
pool and Postgres; the contract shares nothing with them but its logs.

What is hard: four ways to resolve an intent out of one pooled balance; a
crash between sending and committing; two workers rechecking one row; logs that
arrive before the hash that identifies them, or after the job was cancelled;
decisions taken from a row read before it was locked; timeouts that race late
answers; a request that reads, waits for a signature, a photo or a model, and then
writes; and database locks held across an `await`. `PROJECT.json` lists each
of these with its line under "hazards".

## Modules and the code

### IntentraEscrow: the contract

One action per external function. A call that reverts leaves no trace, so each
`require` is a guard, and the assignments of the function are the primed
variables. `createIntent` writes `terms`; `state`, `proposal`, `appealStakes`,
`appellants`, `appealFee` and `nextIntentId` are the contract's storage;
`pool` and `ether` its balances. `ExecuteSplit` is `_executeSplit`, and also the
body `resolveHumanAppeal` repeats. Who signed is abstracted to a pair of
signers, which may be any two valid ones because a signature over a split never
expires. `RefundStake` has the three ways the refund can go: nothing due, sent,
refused and recorded again.

`block.timestamp` appears only in two differences, so the model keeps ages
saturated at their timeouts; time is unbounded while the states are finite. At
the exact end of the appeal window execution opens and escalation closes, as in
the code. `ledger`, `settledBy` and `stakeSentTo` are history variables the
properties read. `spendable` is external: what an ERC-20 lets the escrow pull.

Assumed of the outside: a token moves the exact amount it is asked to (no fee on
transfer), and the owner does not change (the inherited two-step ownership
transfer is left out). Arithmetic does not overflow: amounts are bounded by
balances that exist.

### EscrowPromise: what the contract promises

Per job: open, holding, settled; money in once, all of it out once, to the two
parties. `IntentraEscrow` instantiates it with a refinement mapping (`Stage`,
`ledger`), and `ImplementsPromise` says that every behaviour of the contract is
one of the promise for each intent.

### RunningTotals

States "this balance is the sum of that function" without recursion, as the last
value of a running total, so that it can be both checked and proved about.

### Outbox: rows of `chain_txs` and the tasks that move them

A step ends where the code awaits the chain or commits, so crashes, failed calls
and interleavings fall between two steps. `Queue` is `queue`; `Retire`, `Refuse`,
`Build`, `Send`, `SendFails`, `CommitSent` are `send_next` in its order: choose the
oldest QUEUED row nobody holds, fail a retired kind or a call that reverts in
estimation, build with the pending nonce, broadcast, commit SENT. `Confirm` and
`ConfirmGivesUp` are `confirm`. `BeginRecheck` to `EndRecheck` are `recheck_sent`,
run once by the sender at start and on every pass of reconciliation; a row is
decided from what was read before the write. `RecheckFails` is an error there:
reconciliation's loop catches it, the sender's startup call is outside its `try`
and ends the task. The chain (`txs`, `accepts`) is external: a transaction may be
mined, dropped or stay pending for ever, and a call takes effect once.

### RequestLocks: what tasks wait for

Tasks compete for connections of the pool and for the FOR UPDATE lock of a row.
`CloseSession` is the exit of `session_scope`. A refusal is noted by
`note_out_of_band` on a second connection while the first still holds the row;
the foreign key of the audit row makes the insert wait for that lock
(`InsertNote`). `Terminate` is a database that ends an idle transaction.

### Machine: the table of a job's life

`TRANSITIONS` is the table of `B/core/states.py` as triples, `NextState` and `Can` the
two questions `machine.py` asks of it. The modules of the backend extend it, so a job
moves only by an event the table has for its state.

### ChainEvents: from a reported hash to a funded job

The funding half of payments, transactions, the watcher and reconciliation.
`FundCalls` is the fund route when it hands out calls, `Cancel` and
`ExpireAuthorization` are the two ways to close a job before money moves. A route, a log
handler and a reconciliation item are one database transaction under the row lock
each, and one action here. `BeginPoll`, `SweepLog`, `EndPoll` are `poll_once` with a
commit per log; `PollFails` is any error or crash in it and `SkipPruned` its branch for
pruned history. `ObserveReported` is the fast path for reported hashes, `Webhook` the
one that is told of a log.
`HandleFundingLog` records the log first and then runs `IntentCreated` or `IntentFunded`; one
whose job is unknown or refuses stays recorded, as in the code.

Three routes take a hash and file it in a direction of its own: fund (FUND), release
(RELEASE) and deliver (SUBMIT). None of them asks what the hash is of or what state the
job is in, so `Report` has the direction as a parameter. A row of any direction binds an
intent to its job (`JobsReporting`); only a pending FUND row stands against cancel and
expiry (`HasPendingFunding`).

The wallets and the chain are external. A customer may send the createIntent it was
handed, again if it likes; anybody may send one of other terms, and fund any intent
(`CreateIntent`, `FundIntent`). A log's `terms` say whose customer, provider and token
it has; nothing in the code reads them, and the handlers compare the amount only
(`AmountMatches`). Hashes are reported late, never, or for another job. A transaction
that was sent enters the chain at once or not at all (`SendFails`): until its log exists
nobody can read anything of it, so a pending time would add nothing. Blocks are final, as
they are on Arc; confirmations then only delay the sweep. `FUNDED` stands for itself and
all later states; the age and the number of hashes the fast path reads are left out,
since nothing relies on it. `offered`, `fundedBy` and `skipped` are history variables.

`Terms`, `Released` and `Submitted` are bounds: whose terms a createIntent has, and which
hashes may be reported by the release and the deliver route.

### Disputes: a delivered job from complaint to settlement

`FileComplaint`, `Respond`, `Accept` and `Reject` are the parties' routes. The last
three load the job (`Load`) before they lock its row (`Acquire`), and the lock is a
SELECT that leaves the object the session already has as it is: the model keeps that
state in `seen`, and the checks and `Apply` go by it, while the proposal and the answers
are read under the lock. What a route writes then overwrites the row. `BeginLadder`,
`Decide` and `LadderFails` are `run_ladder`: look, decide outside the database, look
again under the lock. `schedule_ladder` starts it per process; two processes may run two.
Reconciliation reads a list (`ReadDueResponses`, ...) and acts on an item under the lock
later (`TimeOutResponse`, ...); one item is on its way at a time, the rest are lists read
later. `DisputeRaised`, `AIProposalSubmitted`, `AppealEscalated` and `IntentResolved`
are the handlers of the watcher, in one transaction per log (`HandleLog`); a state that
refuses the event keeps what the handler wrote before.

A split is the provider's share; `Whole` is everything. A deadline is not started,
running or passed. The contract is external: `escrow` says which log can be next, with
any split, so a complaint may be frozen, proposed, appealed, settled, abandoned or
released in any order the contract has. Which calls the backend itself queues, and
whether the contract takes them, is the subject of `Settlement`. A refusal is answered
here; what it waits for is in `RequestLocks`.

### Settlement: the contract under the backend

From a funded job to the end of its money: decisions of the backend, outbox rows, the
contract and the logs that come back. The contract's actions are those of
`IntentraEscrow`, with one intent (`Contract!RaiseDispute`, ...). A row of the outbox is
what `Outbox` shows of it: `Send` is refused by gas estimation or sent, `Mine` takes
effect or reverts, `Lose` is a receipt that never appears. A newer row of a kind stands
for an older one that ended; `Relay` sends what is signed from elsewhere, so the effect
of an older row is not lost. `ReadAbandoned` and `ForceAbandoned`, `ReadDueAcceptance`
and `ExpireProposal` are items of reconciliation, read first and done under the lock
later. The watcher may handle the logs in any order.

### Policy and Money: the rules and the amounts

`Policy` has the ten rules of `B/core/policy/rules.py` as predicates over an action and
a context, in the order of `RULES`; `Evaluate` is the first that speaks, `Allows` is
ALLOW. The actions of `JobLife` call it with what their callers pass, and leave out what
they leave out. `Money` has the split, the tolerance and the conversion with their
rounding, and the table of remedies.

### JobLife: a job from the request to its delivery

Intents, quotes, the selection, the approval, the fund route, fulfilment and evidence.
A request that reads before it locks the row is two actions: `BeginSelect` has read the
quote, `BeginApprove` has verified the signature, `BeginUpload` has checked the rules
and stored the file, `BeginRecommend` has read the request. `End...` is what happens
under the lock. `Drop` ends a request without effect. A scope stands for its hash. The
escrow's two logs arrive in order here; late and repeated ones are in `ChainEvents`.
`SignIn` gives a provider another wallet at any time.

### Identity: whose account and whose profile

`Session` is `start_session` and `claim_for_user` in one transaction: the row of the
Privy account, or the seeded one with its email, and the unlinked profile with the same
email. `FetchIdentity` may answer from the profile cached for a minute. `Seed` is the
seeding script, which may run before or after. `Link` is a person who adds an email or
a wallet at Privy, or moves it to another account. The unique columns are guards: a
transaction that breaks one fails and changes nothing.

### Reputation: what the next customer is told

The escrow's logs, the subgraph that handles each once, in order and late, the cached
query, `compute` and the exclusion by trust. The score is computed as one fraction and
rounded half up; the code rounds binary fractions, which may differ by one at a half.

### Posts: one POST of many

`Completed`, `Prepare`, `Reserve`, `Lock`, `Commit` and `Fail` are the places where a
request with an Idempotency-Key can be overtaken: the answer on file is looked up, the
work outside the database is done, the key is inserted, the row of the job is locked,
the audit row is written and all of it commits. An inserted key is invisible until then
and makes the next insert wait. A trail entry holds a mark of the one before, as the
hash does.

### Leader: which instance works

The advisory lock (`holder`), what an instance believes (`connection`), its campaign and
its loops. `LoseConnection` is the hazard: the database frees the lock and nothing in
the instance notices. `Stop`, `LoopsFinish`, `Release`, `Start` are a deploy in the order
of `stop`; `Die` is a crash.

### Ladder: how a dispute is decided

`ReadInput` takes the evidence; `AfterCoverage` and `Judge` are levels one and two with
the checks on what the model proposes; `CallAnswers`, `CallRefused` and `CallFails` are
the client's two attempts within one budget of time. `Finish` is the second transaction
of `run_ladder`, `Crash` the process or the task ending in between. The first level's rule
never applies: a dispute starts from a delivered job, which has photos of the provider.

### Conventions

`MC*.tla` extends a module with model values and symmetry; `MC*.cfg` are its instances.
`MCContract`, `MCWatcher`, `MCJobLife` and `MCParts` hold several modules side by side,
or one in two sizes (`MCWatcher` narrows each step to the size of its part): a variable
`part` says from the first state on which of them runs, the others keep their first
values, and the state graph is the disjoint union of theirs. So that one module can
extend several components, each of `ChainEvents`, `Leader`, `Ladder`, `Identity` and
`Reputation` has names of its own (`LeaderSpec`, `IdentityInit`, `Ranked` for the
providers of `Reputation`, `Addresses` for the wallets of `Identity`); the contract
alone, `RequestLocks` and, for its liveness, the funding are instances. Their properties
are those of the components, and nothing of one depends on another. `*Proofs.tla` extend
the modules they prove about. An operator whose comment begins with "Fault:" is a
plausible error of the function after it. It is no part of the specification; it is
there to show that a property notices the error. Modules that are only instantiated name
their assumptions on constants as plain definitions, which the module that instantiates
them assumes.

## Runs

| Run | Checks | Shows | Bounds |
|---|---|---|---|
| `escrow_pool` | TypeOK, Solvent, StakesBacked, SettledInFull, StakeSentOnce, SettlementRoute, ImplementsPromise | two intents over one pool through every order of calls: balances equal what open intents and stakes add up to, and each intent is settled once, in full and by its route | 2 intents, amounts 1 and 2, 4 accounts, timeouts of 1 tick: every pair of intents in every pair of states; unequal amounts so that a mix-up shows |
| `escrow_life` (contract) | SilenceReleasesFunds | one intent through every order of calls: silence does not lock its money | amounts to 3, timeouts of 2 and 3 ticks, so before, at and after each boundary |
| `escrow_life` (settlement) | BooksAreTheEscrows, DisputedIsFrozen, ForgottenMoneyLeaves | what the backend says became of the money is what the escrow did, in whatever order logs are read; a disputed job is frozen; forgotten money leaves unless a human was asked | 1 job of 10 units, all four remedies, 2 ticks to abandonment and 1 to the end of the appeal |
| `outbox` | OneTransactionPerLoss, VerdictMatchesChain, QueueDrains, SentRowsAreJudged | two processes drain and recheck the same rows; the queue drains while a sender lives, and every sent row is judged by whichever task is left | 2 processes with both tasks, 2 rows of which the older is of a retired kind, 1 failed call and 1 crash, so that the failure can hit the repair |
| `watcher` (logs) | FundedIsBacked, OfferedStands, NoLogLost | a funded job has one funding of exactly its amount behind it, of an intent that was reported for it and funds no other job; a job that was told to fund stays open, unless the hash was reported by another route; the sweep passes over no log | 2 jobs, so that reports can be for the wrong one, 2 amounts, 2 transactions of which 1 may fail and the first may be reported by the release route; and 1 job with 3 transactions (two creates and a fund), of which the first may be reported by the deliver route; 2 logs per poll so that one can fail half way |
| `watcher` (dispute) | TypeOK, ExecutedOnceByBoth, ProposalIsFinal | whatever the parties send at once, from whatever state they saw, the money is paid out once at most and by both answers; no ladder replaces a split on file | 2 requests in 2 processes: two parties, or one twice, at once; ladders of both processes; splits nothing and everything |
| `dispute_silence` | SilenceEnds, LaddersEnd, LateComplaintsClose | missing answers are timed out, lost ladders run again, late complaints closed | 1 request at a time, 1 process, 1 crash or failed ladder, which can hit any step |
| `job_life` (job) | CallsAreSigned, ApprovalStands, DeliverableIsComplete, CoverageCountsPhotos | what the wallet is asked to send was signed, a signature stands, a delivery has photos of its whole checklist | 2 readings of the request (one room, two rooms), 2 providers, 2 wallets, 2 files, 2 requests in flight: one request overtakes the other between any two steps |
| `job_life` (accounts) | AccountsAreVouched, AccountKeepsOwner | who acts for a provider was vouched for, and an account keeps its owner | 2 Privy accounts, 2 emails of which one is seeded, 1 wallet, 2 rows each: an email or a wallet can move from one account to the other |
| `job_life` (reputation) | StandingIsEarned | the subgraph's history is the escrow's, the score a percentage, and silence excludes nobody | 2 intents of one provider with a seeded history, a rival without one, 2 logs of lag |
| `parts` (posts) | KeysAreIdempotent, TrailIsChained | one effect per key and its answer to everybody; a trail without gap or fork | 4 requests: three with one key, of which one has another payload, and one without |
| `parts` (locks) | TasksFinish | every task finishes unless a refusal waits for its own row | 3 tasks, 2 connections, 2 rows, 1 terminated connection: waits for either resource, and for both |
| `parts` (leader) | DoubledByLossOnly, SomebodyWorks | two instances work only after a lost connection; some instance works again and again | 3 instances, 1 lost connection, 3 deploys or deaths |
| `parts` (ladder) | ProposalIsSound, LadderIsPrompt | a proposal rests on all the evidence of its job and on nothing else; its calls take twice the budget at most | 2 files of the job and a foreign one, amounts below and above the limit, confidences below and at it, 4 ticks per call, 1 crash |
| `parts` (funding) | FundingIsRecorded, ReportedIntentIsBound | money for the bound intent is noticed; an intent reported in time gets bound | 1 job, 3 transactions, reported by the fund route |
| `locks_refusal` | RefusalsAreRaised, violated | a refusal waits for itself | 1 request, connections to spare |
| `chain_cancel` | UnfundedCanBeCancelled, violated | a reported transaction that failed blocks cancel and expiry for ever | 1 job, 2 transactions |
| `chain_agreed` | FundedAsAgreed, violated | the intent that funds a job may have another customer, provider or token | 1 job, 2 transactions, createIntents of the job's terms and of others |
| `dispute_end` | TerminalIsFinal, violated | a stale rejection moves a settled job to ESCALATED | 1 request, 2 processes |
| `settlement_end` | AcceptedIsSettled, violated | a proposal both parties accepted is not executed | the settlement of `escrow_life` |

Deadlock is not checked where a run may really end: all rows judged, all
requests answered, the dispute over, or the bound on faults used up. It is checked for the
contract (`escrow_pool`).

Fairness. *Contract*: time passes, and `executeAbandonment` is called when it is
enabled, because anyone may call it and `B/workers/reconciliation.py:34-59` does.
Nobody owes a dispute, a signature, an appeal or a ruling. *Outbox*: the event loop
runs a task that can go on, and time passes; the chain owes nothing. *Locks*: the
event loop again, and strong fairness for getting a connection and a row, because
the pool and Postgres serve their waiters in order. *ChainEvents*: the watcher's
loop polls for ever and catches what a poll raises, and from some time on polls
finish; wallets, customers, the fast path and the webhook owe nothing. *Disputes*: the
event loop runs a request that has its row and a scheduled ladder, and time passes;
strong fairness for what waits for the row, which serves its waiters in order, and for
the lists of reconciliation, whose loop catches every error and reads each again. The
parties, the contract and the start of a request owe nothing. *Settlement*: time,
reconciliation, the sender and the watcher go on; a transaction that can take effect
again and again does at some time (strong fairness of `Mine`: force_abandoned queues a new
row after each failure, and not every one gets lost), and the customer does not ask for
one release after the other for ever, since a row on its way holds reconciliation back.
*Leader*: an instance that can take the lock, finish its loops, let go or start again
does. `Identity`, `Reputation`, `Posts`, `Ladder` and `JobLife` have safety properties
only and need none.

## Findings

1. A policy refusal under the row lock waits for that lock on a second connection
   and is never raised (`locks_refusal`).
2. Every reported hash becomes a PENDING funding, and only the `IntentFunded` log of
   that hash confirms it: a transaction that failed, or only created the intent,
   blocks cancel and expiry for ever (`chain_cancel`). The same rows are what makes
   `OfferedStands` hold for a funding that was never reported, so the guard is too
   strong in one case and needed in the other.
3. The dispute routes go by the state they read before the lock: a rejection that
   waited while the escrow settled the job moves it from SETTLED to ESCALATED, although
   nothing may leave an end state (`dispute_end`). For the same reason a response can
   set a job that has a proposal back to RESOLVING (`B/domains/disputes/service.py:159`),
   where no ladder runs for it again; `LaddersEnd` therefore speaks of jobs without a
   proposal.
4. The second acceptance queues `executeWithSignatures` while the intent is IN_DISPUTE,
   because nobody submits the proposal to the escrow first (`queue_ai_proposal` has no
   caller): the row is refused, and the proposal stays SETTLING, where it can be neither
   accepted, rejected nor expired (`settlement_end`). `ForgottenMoneyLeaves` says how it
   ends: the intent is abandoned after fourteen days and the customer gets everything.
   `DisputesAreRefunded` and `SettlementsAreRefunds` prove that this is the only end of a
   frozen intent, and that SETTLED is reached with a split that gives the provider nothing.
5. The watcher applies FUNDED when the amount of the logs is the job's, and compares no
   other field (`B/orchestration/chain_events.py:42,51`), although `backend/README.md:60-61`
   says that every field of the event is checked: an intent of another customer, provider
   or token, or the createIntent of another job, funds a job that reports its hash
   (`chain_agreed`). `FundedIsBacked` says what is left: the amount is right, the
   hash was reported for the job, and no intent funds two.

Smaller ones the models show without a run of their own:

- Contract. `executeAbandonment` accepts FUNDED and IN_DISPUTE only, where no proposal
  can exist; its comment (sol:394-395) says that an active proposal is executed. A
  TIMELOCKED or APPEALED intent stays so unless two signers or the human act.
  `resolveHumanAppeal` refunds the appellant; its comment (sol:341-342) says the winner.
  `withdrawStuckStake` pays the owner any recorded stake, also one of an open appeal.
- Outbox. One failed call in the sender's startup recheck ends the sender for the life
  of the process (`RecheckFails`); `QueueDrains` asks for a sender that lives.
  `recheck_sent` writes STUCK without another look at the row (outbox.py:138), so a
  receipt that was recorded meanwhile is overwritten; its docstring (outbox.py:123) is
  about SENT rows.
- Watcher. A createIntent whose log the sweep reads before its hash is reported is never
  bound: `ReportedIntentIsBound` asks for the report first, and for one job only. A
  second createIntent binds a job anew, also while the fundIntent of the first is under
  way; the log of that funding finds no job. For the same reason money that was sent
  before the job was bound is not noticed: `FundingIsRecorded` asks for a log that is read
  while the job is bound to its intent.
- Cancelling. A createIntent whose hash is reported by the release or the deliver route
  binds the job like any other, so its fundIntent is handed out, but no FUND row stands
  against cancel or expiry: the escrow can take the money of a closed job, although
  `B/domains/transactions/service.py:139` says "Only before money moves, and never while a
  funding transaction is still confirming". `OfferedStands` excepts exactly these intents.
- Deadlines. `acceptance_timeouts` does not look at the proposal again: one that became
  SETTLING after the list was read is expired while its execution is queued.
  `funded_since_before` leaves ESCALATED out although its docstring
  (`B/domains/transactions/service.py:179`) speaks of every job that still holds money.
- Settlement. A release can be queued any number of times, and a resolution that pays
  everything to the provider leaves a proposal open: RELEASED_ONCHAIN is refused in
  PROPOSED, and what was written before the refusal is kept. `BooksAreTheEscrows` still
  holds, since the payments are the log's.
- Jobs. The checklist is made from the quote as it is when the escrow is funded, not
  from the scope that was signed (`ChecklistIsSigned` in `JobLife` is false:
  a recommendation that ran meanwhile rewrites the quote, intents/service.py:61).
  IN_PROGRESS offers "deliver" (`B/domains/transactions/service.py:35`), which the table
  refuses. Two answers to a clarifying question overwrite each other (intents/service.py:115).
- Identity. A second Privy account with an email that is taken cannot sign in: its
  session fails on the unique column.
- Reputation. Evidence is never anchored, so the speed of every provider is the assumed
  one (`hours or 24`, which also takes an average below one hour for none); an open job
  lowers the completion rate; the history follows the wallet, not the account.
- Ladder. The rule of level one cannot apply, as said above.
- Leader. The connection with the lock stays idle in a transaction; a database that ends
  such sessions frees the lock, and `DoubledByLossOnly` says what follows.

## Proofs

Checked by TLAPS for every value of the constants that satisfies the assumptions of its
module. `IntentraEscrow`: accounts differ from the zero address and from tokens, amounts
are positive, timeouts and `MaxIntents` are naturals. `Disputes`: `NoRequest` is no
request, each request comes to a process, splits are between nothing and everything.
`ChainEvents`, `JobLife`: no row is none of the rows, bounds are naturals, terms are a
job's or nobody's, a poll reads at least one log, a reading has finitely many rooms. `Posts`: no row is no request. `Leader`: finitely many instances.
`Ladder`: times are positive, amounts are naturals. `Settlement`: the total is positive
and a remedy gives the provider a part of it. `Identity`: no column is none of its values,
and no Privy account is called "seed:". `Reputation`: finitely many intents of an equal
positive amount, seeded jobs are counts, and `TRUST_MIN` is at most 50, the score without
a history (the setting is 40); with a higher one every newcomer would be excluded.

Every safety invariant and every action property that a passing run checks is proved.

- `IntentraEscrowProofs` proves `TypeCorrect`, `SettlementCorrect`, `StakeCorrect`
  and `RouteCorrect`. None of these properties is inductive alone: that an
  abandoned intent was refunded whole needs that FUNDED and IN_DISPUTE intents have
  no proposal; that an appealed one is settled by the human needs that an appellant
  exists exactly from APPEALED on. `IInv` conjoins the type with `Sound(i)`, the life
  of one intent: what its state says about its proposal, appellant, ledger and
  stake. Every action writes the entries of one intent, so a frame lemma
  (`FrameSound`) disposes of the others and `ExecuteSplitSound` of the three
  callers of the split. `MoneyCorrect` and `StakesCorrect` follow in the same module: the
  pool of each token is the sum of what unresolved intents hold, and the ether the sum of
  the stakes. An action changes one summand and the balance by the same amount. So no
  payout reverts for lack of balance (`PayoutsCovered`). `Refinement` proves that the
  contract implements `EscrowPromise`, each step mapping to a step of one job or a
  stutter. Its lemmas are about totals: growing or shrinking one summand changes the total
  by that much. The library's induction rules take an operator as parameter and cannot be
  used here, so the argument is by the least element where a running total would
  decrease, from `LeastElement`.
- `SettlementProofs` proves `BooksAgree` and `DisputedStaysFrozen`, for any total,
  remedies and timeouts. The argument goes from the contract outwards. `StepOfEscrow` says
  that a step leaves the escrow alone, freezes the intent or pays it, once; hence a log
  that is read late still tells the truth (`LogsInv`), and what the backend files about a
  payment comes from such a log (`PaidInv`). `OnlyCallsMoveMoney` proves that the contract
  inside `Settlement` takes the steps of `IntentraEscrow` and no others. With the same
  invariant, `DisputesAreRefunded` and `SettlementsAreRefunds` make finding 4 exact.
- `DisputesProofs` proves `PaidOnceByBoth`, `DisputesTyped` and `ProposalStands`, for any
  number of requests, processes and failures and any splits. That a dispute is paid once is
  not inductive: that an acceptance is the first of its party is checked when the row is
  locked and used when the answer is committed. `IInv` adds that the row has one holder
  (`OneHolder`) and that whoever is past the lock with an answer has not given one
  (`NotYetAnswered`); `AnswerIsFirst` draws the conclusion, and `QuietStep` disposes of
  every step that touches neither answers nor the row. `NothingLeavesTerminal` proves of
  `Machine` that no event is legal in an end state: finding 4 needs a state that is no
  longer the job's.

- `ChainEventsProofs` proves `FundingIsBacked`, `ToldToFundStands`, `SweepLosesNothing`
  and `ChainTypeOK`, for any jobs, amounts, terms, reports by any route and failures.
  `ChainInv` follows an intent from the one createIntent that made it to the one
  fundIntent that filled it. What holds it together is finding 2: a hash that was
  reported as a funding and bound an intent stays unconfirmed for ever (`Stands`), so
  a job that was told to fund is not closed. A hash reported by another route binds as
  well but stands against nothing, which is the exception in `OfferedStands`; nothing is
  proved of whose money an intent holds or whom it will pay, since nothing checks it. The
  sweep needs that the cursor is behind everything not handled, across polls that end
  half way.
- `JobLifeProofs` proves `FundingIsSigned`, `SignedStands`, `DeliveryIsComplete`,
  `PhotosCountOnce` and `JobTypeOK`, for any readings, prices, wallets, photos and
  requests in flight. `FundingIsWhatWasSigned` says first what policy lets through, from
  the ten rules and their order. `ApprovalInv` says how far the choice of a provider has
  come in each state: a quote can be selected only before the offer, and an offer is
  replaced only before it is signed. `WorkInv` counts the photos of each room and knows
  that a delivered job takes no more. `DeliveryIsComplete` speaks of the checklist, which
  is made from the quote at funding and may differ from the scope that was signed.
- `PartsProofs` has three components. *Posts*: `KeyTakesEffectOnce` and `TrailIsOneChain`,
  for any number of requests, keys and payloads. `PostInv` says who holds what: an
  inserted key has no committed row yet and belongs to one request, the row of the job to
  the request that is locked, and what that one read is still the last row of the trail.
  *Leader*: `NoDoubleWithoutLoss`, for any number of instances, losses and deploys.
  `LockInv` counts the instances that believe they hold the lock without holding it
  (`Mistaken`): each stands for a lost connection. *Ladder*: `ProposalsAreSound` and
  `LadderKeepsTime`, for any evidence, amounts, limits, answers and budget. `LadderInv`
  says that what the ladder read is all there is as long as it works, because the job
  stays in RESOLVING and nobody adds evidence there (`Sees`), that what came back from the
  model passed its checks (`Judged`), and how much time each call has used (`Prompt`).
- `ProvidersProofs` has two. *Identity*: `Vouched` and `OwnersStay`, for any number of
  accounts, emails, wallets and rows. A seeded row belongs to nobody until it is claimed,
  and the profiles linked to it come with it; so `IdentityInv` says that such a profile
  has the row's email, by which it is claimed, and that the row has no wallet. The claim
  by email alone would break it, as the mutant `EmailFirst` shows. *Reputation*: `Earned`,
  for any providers, jobs and lag. What it promises of the history speaks of a subgraph
  that has caught up and is not inductive. `StandingInv` speaks of every moment: a log
  still to be handled tells of what happened, once, and after the funding of its intent
  (`LogsAreSound`), and the numbers of a provider count what happened less what those logs
  tell (`Tallied`). A score is bounded because disputed and completed jobs are among the
  funded ones in the order of the logs (`SharesOfJobs`, `ScoreBound`), and a snapshot only
  lacks jobs (`CacheIsOlder`), so a newcomer is one by the snapshot, too. A sum is the
  cardinality of a set of marks (`Total`), and its laws those of finite sets.
- `OutboxProofs` proves `SentOncePerLoss`, `VerdictIsTheChains` and `OutboxTypeOK`, for
  any number of processes, rows, failed calls and crashes. `OutboxInv` says that a row
  being sent is QUEUED, has one sender and no hash on record (`SendersOK`), that whoever
  judges a row has a hash of it (`JudgesOK`), and counts: a row has at most one
  transaction beyond those that were lost, and none beyond them while it has neither a
  hash nor a broadcast under way (`CountOK`). A row recorded FAILED keeps the verdict
  because its only transaction reverted.

Only model-checked: liveness (`SilenceReleasesFunds`, `ForgottenMoneyLeaves`,
`QueueDrains`, `SentRowsAreJudged`, `TasksFinish`, `SomebodyWorks`,
`FundingIsRecorded`, `ReportedIntentIsBound` and the three of `dispute_silence`), which
is out of the prover's reach under fairness.

## Not modelled

- Wording and encoding: EIP-712 digests, hashes of decisions, prompts, explanations and
  the release challenge's text. Who signed what is kept; the bytes are not.
- The first-level filters and the order of cards in the ranking that only change what
  is shown (distance, text fit, weights), and `micro_usdc_to_kobo`, `queue_ai_proposal`
  and the anchoring of the audit trail and the evidence, which nothing calls.
- World ID: the human check is one insert that a unique index guards.
- Health and the wiring of the application, migrations (generated), the demo and export
  scripts (one-off tools), and the frontend, which keeps no state the rules read.
- Time as such: a deadline is not started, running or passed, an age saturates.
- Fee-on-transfer tokens, a change of the contract's owner and overflow of amounts.

`PROJECT.json` gives the status of each part and the reason.

## What is left

1. `Outbox` in place of the rows of `Settlement`, as a refinement of them.
2. The safety part of the liveness properties: that a job which waits is always in the
   list of reconciliation that ends the wait.
3. `RequestLocks`: that no two tasks hold a row, for any number of them.
