# A TLA+ model of the Arclya A2A server

The repository is a Python server for agents that sell to agents: a FastAPI
process (`src/arclya2a/server/app.py`), file stores under `data/` and `audit/`, an
orchestrator that runs chains of role agents, and a few operator scripts. This
directory holds TLA+ modules of the parts that carry state, the TLC
configurations that check them and TLAPS proofs.

## How the program runs, and what that means for the models

- One server process (`render.yaml` starts one uvicorn worker). Handlers are
  `async def` with synchronous bodies: between two `await`s a handler runs
  alone. `POST /orchestrate/handoff-chain` is the exception: it runs
  `Orchestrator.run_chain` in a worker thread (`asyncio.to_thread`, app.py:993),
  which interleaves with every handler at the granularity of file operations.
- State is in files. Two disciplines exist: append-only JSONL files of snapshots
  that readers collapse (payments, intents, referrals, hangouts), and files that
  are read whole and written whole (partner registry, key stores, accounts,
  verification tokens). Neither takes a lock.
- A process may die between any two file operations. Nothing is resumed.
- Operator scripts either call the server (`confirm_crypto_payment.py`) or work
  on the files themselves (`graduate_partner.py`), as another process.

So a handler is modelled as a first step that decides and makes the first file
operation, and a list (or set) of operations still due; crashes and other actors
come in between.

## Inventory

| Component | State | Operations | Hard part | What makes it correct |
|---|---|---|---|---|
| Crypto payments (`payments/crypto.py`, `server/crypto_checkout.py`, `payments/x402_store.py`) | payment file, intent file, x402 file, audit log | checkout, intent, submit, confirm, deferred, batch, library updates | several appends per handler, time stamps, retries | files agree; confirmations are audited once; what is confirmed was looked up |
| Partner graduation (`partners/*`, parts of `server/app.py`, `tools/executor.py`) | registry, sandbox and production keys, event and graduation logs | register, validate, hand off, offend, graduate | three kinds of actors rewriting whole files | readiness is earned, graduation is final and issues one key |
| Accounts and terms (`agents/accounts.py`, `agents/terms.py`) | accounts file, production keys | register, update profile, rotate key, set status, list | account, key and referral written separately | the directory lists only agents that may join |
| Email verification (`agents/email_verification.py`) | tokens, accounts | issue, send, resend, verify | background thread, token and account written separately | a token verifies one address once |
| Referrals and reputation (`agents/referrals.py`, `agents/reputation.py`) | referral rows, score events | register, complete, payout | payout before the row that remembers it; a refused payout leaves the referral open | one payout per referral, one credit per completion on record |
| Moderation, feedback, preferences | reports, flags, preference rows | report, review, suspend | suspension against live keys and requests under way | suspended agents are out of the directory |
| Hangouts, deal rooms, marketplace (`agents/deal_rooms.py`, `marketplace.py`, `hangouts.py`, `hangout_guardrails.py`, `reputation.py`) | append-only rows of rooms, listings, hubs, reputation events | open, talk, close, pay, list, complete, join | a handler awaits its body after the caller was looked up; the close and the rewards are separate rows; anyone who takes part may close again | a commitment on show was verified; a reward for a close has its row on record |
| Orchestrator (`orchestrator/*`, `handoff/validators.py`) | the record of a deal (SSOT), plan and trail of a chain, profile template | route, scan, prompt, infer, validate, hand on, stop, report | chains in threads share files; an answer may break the schema after its tools have acted | one hand-off per planned agent, none after a stop, no thin margin past the guardrail |
| Tools (`tools/*`, `connectors/*`) | gate audit, tool log | gate, dry run, call, retry | a service acts and its answer is lost | nothing acts that the gate did not allow; every act is in the log |
| Learning (`learning/*`, `security/*`) | signals, patch files, index, prompts, outcomes, scheduler state | analyse, merge, generate, store, apply, settle | background cycles against chains and a script; files emptied before they are written | no sandbox issue in a prompt, overlay or learned file; prompts hold only what is low risk or reviewed; applied changes stay; deals are looked at |
| Server middleware (`server/auth.py`, `server/rate_limit.py`) | windows per client | authenticate, limit | clock, keys revoked meanwhile | the limit holds |
| Billing (`billing/tracker.py`) | closed deals | record | search and append are two steps | a request sent again bills no second time for the same close type and link; only deals of onboarded sellers are billed |
| Observability, dashboards | logs | append, summarise | none for decisions | - |
| Settings, catalogues, cards, prompts, MCP servers | constant data | format | - | not modelled |

## Modules

| Module | Models |
|---|---|
| `PaymentLedger` | what the checkout promises: one status and transaction per payment, settlements, attestations |
| `CryptoPayments` | the payment and intent files, the routes and library calls, the operator, crashes, the clock |
| `MCCryptoPayments` | the instances TLC checks |
| `CryptoPayments_proofs` | the inductive invariant and the theorems |
| `CryptoLedger_proofs` | theorems on the audit records, the agreement of the two files, and the refinement of `PaymentLedger` |
| `PartnerLifecycle` | what the sandbox promises its partners: join, be admitted, get a key, leave the sandbox, graduate |
| `PartnerGraduation` | registry, key stores and logs, and the three kinds of actors |
| `MCPartnerGraduation` | its instances |
| `PartnerGraduation_proofs` | types and earned readiness, whoever interleaves |
| `GraduationSerial_proofs` | clean histories, final graduations and their keys, and the refinement of `PartnerLifecycle`, when the event loop is the only writer |
| `AgentAccounts` | accounts, terms, verification links and mail, keys, referrals, and the requests of agents and the operator |
| `MCAgentAccounts` | its instances |
| `AgentAccounts_proofs` | the inductive invariant and the theorems about accounts |
| `HandoffProtocol` | what a chain of hand-offs promises: the plan, the trail, the stop, the veto of thin margins |
| `HandoffChain` | the orchestrator, its validators, tools and connectors, billing, the profile template |
| `MCHandoffChain` | its instance |
| `HandoffChain_proofs` | the inductive invariant, the theorems, and the refinement of `HandoffProtocol` |
| `LearningSignals` | what the loop makes of the logs: issues, recommendations, attribution, changes; no state |
| `PromptLearning` | scheduler, jobs, stores and application of changes, on top of `LearningSignals` |
| `MCPromptLearning` | its instance |
| `PromptLearning_proofs` | the inductive invariants and the theorems about prompts and types |
| `Rooms` | deal rooms, marketplace, hubs, verification of closes, trust score and reputation |
| `MCRooms` | its instance |
| `Rooms_proofs` | commitments on show were verified, rewards for closes are no more than the closes on record |

### CryptoPayments

`payments` and `intents` are the two files, row by row: a row carries the fields
the properties tell apart (status, transaction, stamp, time of confirmation,
whether an intent is linked, whether the terms are deferred). `IsLatest` is
`_latest_by_key`; time stamps are readings of `clock`. A handler that has begun
leaves the appends it has still to make in `due` and its snapshot in `row`; they
follow in the order of the code (intent, deferred; payment, sync, audit). While
`due` is not empty no other handler starts, because handlers do not await in
between. `Crash` forgets `due`; `lost` remembers for the properties which appends
that prevented. `SetBack` corrects the wall clock backwards.

`Submit` has no guard on the status, as in the code, and takes a hash of blanks
(`NoTx`), which marks a payment submitted without a transaction anybody could look
up (`crypto_checkout.py:345`). `Confirm` is the operator's
request, sent with the transaction that was looked up (`NamesTx`, the `--tx-hash`
option), possibly more than once. `Retire` and `RetireIntent` are the library
calls `update_crypto_payment` and `update_crypto_payment_intent`, which no route
uses; `Retire` gives any status but confirmed, which `confirm_crypto_payment` gives;
they are switched off with `Retirements = {}`. `ReviewList` is the head of the open
payments that the dashboard shows (`ReviewLimit`, ten in `crypto.py:616`; that only the
newest 500 rows are read is left out). Amounts, networks, memos and
packages are left out: no state change depends on them after validation.
`expires_at` is never enforced by the code and so not modelled. Lines cut short
by a crash in the middle of an append are not modelled yet.

### PartnerGraduation

`disk` holds the three files that are rewritten whole. A rewrite is three steps,
`Read` (the file is read and changed in memory), `Open` (opening for writing
empties the file) and `Write`; a crash between the last two leaves the file empty
(`wiped`), and a reader in between sees no partner. `todo[a]` lists the steps of
actor `a` in the order of the code: `Registration`, `SecurityEvent`, `Aftermath`
and `Graduation` translate the handlers. A row has the counters, flags and
milestones of the registry; `Refreshed`, `Graded` and `Applied` compute them as the
code does. Scores are exact. Small rows are written with one flush, so a file is
either empty or whole; registries larger than the buffer are not modelled.
A request is authenticated and started in one step: the short time a handler
spends reading its body is left out. A production key of a graduated partner is
not used for requests on the registry: the handlers that change a row ask for
sandbox mode.

`PartnerLifecycle` is the same life without handlers, logs and rewrites: a known partner
joins, is admitted, gets a key, is expelled from the sandbox and graduates, each under the
conditions the order of the code secures, and a crash loses at most one file. It is mapped
through `View`: a file the loop has opened counts as what it is about to hold
(`ImplementsLifecycle`).

### AgentAccounts

Accounts, links, keys and referrals are one module, because the handlers write
their files one after the other and the properties relate them: `accounts`
(`accounts.jsonl`), `tokens` (`email_verification_tokens.jsonl`), `keys` (the agents'
part of `production_keys.json`: how many were issued, which still work),
`referral`, and counts of the payments and reputation events a referral led to.
A handler is a first action that decides (`Register`, `PatchProfile`,
`VerifyEmail`, `ResendLink`, `RotateOwn`, `RotateForced`) and leaves in `due` the
writes still to come, which follow in the order of the code; `hand` is what it
works on. No handler starts while one is under way, but mail goes out, links
expire and the process may die (`Restart`), and the new process may have other
terms or other settings. `try_complete_referral` is part of `MarkVerified` and of
`PatchProfile`, as in the code; it leaves the payout, the referral row and the
credit to be written.

A request is authenticated by the middleware (`Authenticate`) before its handler
runs, and the handler of PATCH looks the account up (`Resolve`) before it awaits
the body: `waiting` holds both kinds, and everything else may happen in between.
Mail is what a worker thread does after the answer (`Deliver`, `MailFails`): only
delivery by SMTP is modelled, since the outbox used in development gives the link
away in the answer.

One write of a file is one step: that `_write_all` empties the file first is
modelled for the partner registry only (see the hazards). A suspended account and
one pending review are both `active = FALSE`. Preferences, the audit log, filters
and pages of the directory, the daily limits of registration, and the command
line that rewrites `production_keys.json` from another process (in
PartnerGraduation) are left out. A payment and its intent are one write here;
what happens between the two is in CryptoPayments.

### HandoffProtocol and HandoffChain

`run[c]` is one call of `run_chain` in its thread: `pc` names the function it is in,
`req` and `record` are the request and the deal's SSOT as far as a guard reads them,
`plan` the agents, `trail` the recorded hand-offs, `handoff` the answer being worked
on, `tries` the attempts of the current call. Shared are `template`
(`config/product_profile.json`) and `billing` (`closed_deals.jsonl`); `acted` is what
the services behind the tools did, `logged` the attempts in `tool_executions.jsonl`,
`gates` and `reported` the audit log.

| Action | Code |
|---|---|
| `Start` | the route, `build_initial_ssot`, `route_entry_agent`, `resolve_flow_chain` |
| `Scan`, `ReadPrompt` | `run_registry_agent` up to the model call; a template that is no JSON fails the chain |
| `Infer`, `Misinfer` | `_infer_xai`, `execute_with_error_policy`, `handoff_from_policy_error` |
| `Gate`, `Send` | `execute_tool_requests`, `evaluate_tool_gate`, `_execute_connector_with_retry`, the four connectors |
| `Validate` | the validator of the agent (`OnboardingChecked`, `CloserChecked`, ...) |
| `LoadTemplate`, `TruncateTemplate`, `WriteTemplate` | `save_agent_profile`, with overlapping writers |
| `ReadDeals`, `AppendDeal` | `record_closed_deal` |
| `Finish`, `Report` | `validate_handoff`, the audit row, the next agent; the route after the thread |
| `Crash` | the process dies with all its chains |

A hop does its work before `validate_handoff` looks at the answer, and the model
keeps that order: tools act, deals are billed and profiles are saved by answers that
then fail the schema. What the model and the services answer is left open
(`Replies`, `Calls`): each call may act or not, answer, lose the answer, or raise.
An answer is a record of the booleans the validators look at; the texts of prompts
and answers, costs and caching are left out. An answer may have SSOT updates of its own,
which take the place of the validator's (`Updated`, `merge_ssot`): they may call the seller
onboarded, or not, and replace profile and draft, even when the scan or a guardrail rejects
the answer. A scan is a verdict on the request
(`hostile`) or the answer (`clean`). The error of a prompt that cannot be built, the
two forms of template damage (empty, or a longer text behind a shorter one) and the
difference between a rejection and an exception are kept.

`HandoffProtocol` knows neither models nor files: a chain hands on along its plan,
one recorded hand-off per agent; an emergency stop is the last; the guardrail stops
every thin margin. `Planned`, `Thin`, `Trails` and `Outcome` are the refinement
mapping. A chain counts as complete when its trail is as long as its plan, even if
the process dies before the report.

### LearningSignals and PromptLearning

`log` is what the loop reads (tool runs, deals, scans, gate and sandbox events), with the
number of times each row occurs. `LearningSignals` computes from it what
`execution_analyzer.py`, `security_analyzer.py` and `demo_analyzer.py` do: issues by their
thresholds, recommendations, patterns, the attribution of `cross_agent_isolation.py`, the
merge of signals, and the concrete changes. `Filtered` is the filter of recommendations with
its fallback: where no recommendation has the words of a global issue, the first ones stay,
whoever they are from. The merge for the `meta_optimizer` adds the recommendations from the
campaign's figures (`Campaign`) and the model's own (`OwnWords`), and takes the model's
target if no signal has one. `Line` is how long a recommendation is: what a change without
an issue says is under 150 characters or not (`Short`), which decides whether it is sure
enough to be applied alone.

In `PromptLearning` a worker is the event loop (scheduler's cycles and `/learning`
routes, one at a time) or a thread: a chain of the `meta_optimizer` or
`apply_prompt_patches.py`. `work[w]` holds the job and its stage, in the order of the
code: `Analyse`/`Settle` once per signal (outcomes are read, then rewritten),
`Generate`, `Store`/`WriteIndex` per change, `Consider`, `ReadPrompt`, `EmptyPrompt`,
`WritePrompt`, `Record`, `Track` per applied change, `Merge`, `Save`. `Learn` overwrites
`<agent>_learned.md` (`learned`), `Merge` and `Record` write `<agent>_effective.md`
(`effective`); both are the sets of the recommendations in them. Files are read,
changed in memory and written back, so two workers can undo each other, and `Crash`
cuts what is open; `spoiled` records for the properties which files two writers had
open at once or a crash cut. `Stop` is an exception: the scheduler catches it and
tries again at the next check.

A recommendation is named by its issue; patch files that say the same are one; the order in
which the changes of one signal are stored is one fixed order. A chain runs on `<agent>.md`
as long as that file exists (`agent_runner.py:161`); the overlay is served by
`/prompt/assembly` and used where the base is missing, and the learned file of the outreach
worker is part of its prompt (`agent_runner.py:109`). So all three are looked at, and only
the first is held to what was reviewed. Left out: the windows of the logs, ids made in the
same second, `rollback_prompt` (nothing calls it), the dashboards.

### Rooms

`rooms`, `listings` and `hubs` are the latest rows of their files: rows of one room
are never stamped backwards here (what a clock set back does to such a file is in
CryptoPayments). `events` is the bag of reputation events, `audit` the rows a chain
leaves in the audit log of its day, `due` the events the handler under way has still
to write, `waiting` the callers whose handlers await the body. `stored` counts, as
history, the closes on record that earn a reward.

`CloseDealRoom` and `CompleteListing` are the whole handlers: confidence against the
strictness of the caller's trust score, `Verification` (an audited chain: the newest day, in
it the oldest row; if there is none, the figures, with the cost multiplier of a watched
agent), the row, the rewards. The guards that are missing in the code are missing in the
model: a closed room can be closed again and a completed listing completed again, by anyone
who takes part or by anyone at all; any run may be cited; runs of the sandbox count.
`JoinHub` and `CreateHub` keep the search by part of a topic. `CompleteReferral` writes the
6 points of a referral into the same file of events (`referrals.py:156`): when, and how
often, is in AgentAccounts; here it may happen at any time, so that trust grows by it as
well. Figures are in cents and margins compared as products, as exact as the code's
decimals; prices and figures pass through `float()` and may be no number (`NaN`) or too
large for one (`Infinite`). The code refuses a margin below a threshold, and such a margin
is below none (`Unmeasured`, `MarginApproved`). Left out: titles and texts beyond equality,
capabilities, pages of lists, lists longer than their page; a `service_agreement` closes
like an `exploratory` talk and is merged with it.

## Runs

| Run | Result | Shows |
|---|---|---|
| `payments_safety` | pass | file consistency, audit, deferred store, and the refinement of `PaymentLedger`, with library calls and one crash |
| `payments_fair` | pass | with a list of one entry for two payments, every payment submitted with a transaction is in the end confirmed, unless newer payments nobody paid bury it |
| `payments_settled` | violation | a submission after the confirmation reopens the payment |
| `graduation_serial` | pass | with the event loop as only writer, graduation is earned, final, completed, and issues one key per uninterrupted graduation; the refinement of `PartnerLifecycle` |
| `graduation_threads` | pass | under all interleavings of loop, chain and command line a ready row has earned it |
| `graduation_clean` | violation | a chain thread's offence is lost and the partner becomes ready |
| `accounts_mail` | pass | addresses stay unique and proved, only the last link works, and nobody is listed against the operator's decision, whatever is delayed, lost or cut by a crash |
| `accounts_referral` | pass | rotations against requests under way, and the reward of a referral across a crash, payouts that are refused included |
| `accounts_payout` | violation | with the default settings the completed referral is not paid |
| `chain` | pass | two chains with failing tools, misfitting answers, a shared template and billing file and a crash: acts are earned and logged, requests sent again bill no second time for the same close type and link, the protocol implemented, every chain ends |
| `learning` | pass | cycles on the loop beside a chain or script and a crash: no sandbox issue in a prompt, overlay or learned file, prompts change only by what is low risk and short or reviewed; applied changes stay; deals are looked at |
| `rooms` | pass | late bodies, suspensions, repeated closes, figures that are no numbers, chains of two days, a referral and a crash: commitments on show were verified, rewards for closes are no more than the closes on record |

Bounds. Two payments suffice for every pair of rows, intents or handlers to meet, because
handlers are serial and rows of different payments interact only through the review list;
`MaxRows` stops payers and library calls, not the operator, so confirmations are never cut
off. Two transactions let a payer replace one. `payments_safety` keeps the clock monotonic,
since with a clock set back `IntentMirrorsPayment` and the refinement do fail (an update is
then overtaken by an older row); the proofs of the other invariants cover every clock. In
`payments_fair` the list is cut: it shows one of two open payments, the payer may replace
its transaction, hand in a blank one or stop half-way, and the clock is set back once. A
payment behind another that is going to be settled waits; one behind a newer one without a
transaction is `Buried`, which the property allows and the findings name. `payments_safety`
needs no cut list, since it asks for no progress. In the graduation runs the thresholds are
2 and the burst size 4, so that every flag is reached with two offences; one partner
suffices for the properties, which speak of one row, and one chain gives a thread to race
with.

In the account runs two agents compete for two addresses (or one refers the other), two
links let one replace the other, and one request under way meets every handler; `MaxKeys =
3` lets the operator rotate between an agent's request and its rotation; `MaxCredits` stops
the handlers that complete a referral after its second credit, so that a refused payout is
followed by another completion. The links and the keys are split over two runs because they
meet only in `waiting`; the invariants are proved for all of it together.
`accounts_referral` starts the server with a wallet and payments of the reward allowed, with
the default amounts, which refuse them, without a wallet, and without the program. A refused
payout leaves the referral open, and every profile update completes it again:
`referral.refused` counts these completions, as rows of the file do, and `RewardedOnce`
allows one credit for each.

`chain` runs two chains, so that every pair of steps on the template and the billing file
meets; the first may get any of twelve requests (every entry of the router, with and without
the seller's profile, another deal, hostile, thin, rehearsals, sellers that are not
onboarded), the second closes a deal or onboards a seller. Two tools, one without
credentials, two attempts and one crash reach every branch of `Gate` and `Send`. The answers
are fixed per agent, up to three each, some with updates of their own; the proofs cover
every set of answers.

`learning` has two partners, the number `ARCLYA_ISOLATION_MIN_ACTORS` asks for, one pattern
and one thread beside the loop. The loop starts with empty logs, with logs that name issues
of every kind of risk (a deal without attribution, a pattern one partner repeated, a blocked
sandbox tool), or with two partners suspected twice each. Two of the campaign's figures
recommend something in 45 characters, every other recommendation has 90: two with
one of the former among them are short enough to be applied alone, two of the others and any
three are not. One more deal, one
job besides the cycles or one crash: what the properties fear needs one writer beside
the loop. The scheduler's own cycles are not bounded.

`rooms` starts from three histories, because a trust score moves slowly: nothing yet;
unproven agents with an abandoned commitment (the strict level); trusted agents with a
commitment closed twice; in the second an agent has its referral on record already. From
there two requests, one referral for each agent, one more chain on the same or the next day
and one crash. One of the prices and some of the figures are no number, too large for one,
or missing. `waiting` and `due` are empty at the end: the run checks no deadlock because
requests are bounded.

Fairness. `FairSpec` of `CryptoPayments` asks that a handler that has begun goes
on (the event loop does not drop it; the process may still die, at most
`MaxCrashes` times) and that the operator works the list. `FairSpec` of
`PartnerGraduation` adds strong fairness for the operator's request, because the
loop may be busy again and again: requests are served in order, so one that is
repeated gets its turn. `FairSpec` of `HandoffChain` asks that the thread of a chain
that has begun is scheduled: each model or tool call it makes has a timeout, so no
step waits for ever; nothing is asked of new requests. `FairSpec` of `PromptLearning`
asks that the loop finishes the job it is at, that time passes, and strong fairness
for the scheduler's check, which is interrupted by requests but whose timer comes
round; nothing is asked of the threads.

## Proofs

`CryptoPayments_proofs` proves, for every value of the constants:

- `LatestIsUnique`, `AppendHasLatest`, `LatestIsARow`: the view of an append-only
  file is well defined and one of its rows, whatever the stamps are.
- `Invariant`: `Spec => []IInv`. The checked invariants are not inductive:
  `TypeOK` needs that `Latest` picks a row (`HasLatest`) and that intents and the
  running handler have a payment (`Rooted`); `ConfirmedIsAudited` needs that the
  unaudited confirmation is exactly the one at work (`AuditDue`) and that the
  handler that appends a payment row late never confirms (`PaymentDue`);
  `DeferredIsRecorded` needs the same of the running handler (`Recorded`).
- From it `TypeCorrect`, `ConfirmedAudited`, `DeferredRecorded`.
- `NamedTransactionChecked`: with `NamesTx`, `[]ConfirmedAsChecked`. The
  assumption is needed: a confirm request without `--tx-hash` confirms whatever
  transaction the payer has put there meanwhile.

`CryptoLedger_proofs` goes on from that invariant:

- `AuditEarned`: `[]AuditIsEarned`, for every clock. Each audit record, the one that
  is due included, belongs to a confirmation in the file of its own.
- `FilesImplementLedger` (`ImplementsLedger`) and `IntentsMirror`
  (`IntentMirrorsPayment`), for a clock that is never set back (`MaxBack = 0`; with a
  clock set back both fail). `Stamped` says that no row of the payment file is stamped
  later than the clock, so an appended row becomes the latest one; then every step of a
  handler opens, claims, settles, retires or attests a payment of the ledger, or is a
  stutter. `Mirrored` adds that all intents of a payment carry one stamp, so the one
  appended last is the latest, that a running handler works on the latest row of its
  payment or is about to append it, and that the files agree but for the update that is
  due or lost.

`AgentAccounts_proofs` proves, for any number of agents, addresses, links, keys,
requests and restarts, and for all settings, those with refused payouts included:

- `Invariant`: `Spec => []IInv`. The checked invariants are not inductive in the
  middle of a handler. `JobOK` adds what the handler knows between two writes: a
  registration under way still has a free address and no account
  (`RegistrationOK`, for `EmailsAreUnique`); a verification under way is about a
  link that was spent for the address the account has (`VerificationOK`, for
  `VerifiedIsProven`); any other handler works for an account that exists, with an
  address if it is going to issue a link. `KeysOK` adds that no key works while
  one is about to be issued. `RowChange` is the lemma all rewrites of an account
  share.
- From it `TypeCorrect`, `UniqueEmails`, `ProvenAddresses`, `LastLinkOnly`,
  `SuspendedIsHidden`.
- `LastKeyIsTheOne`: `[]LastKeyWorks`, with `KeyLives` (a working key before the
  first crash, but for the agent whose key is being rotated).
- `HolderRevokes`: `RevokedByHolder`. Only `RotateOwn` both ends a request and
  revokes keys, and by `KeysOK` there is only one key it can revoke.
- `PayoutEarned`: `PayoutIsEarned`, with `PayoutOK` (an account is complete until
  its payout is created). That the account is active, which the code does not
  check, comes from `ListedIsActive`; that it has an address from
  `VerifiedIsProven`.
- `ShownByTheAgent`: `ShownByOwnAct`. Reactivation shows nobody, because by
  `ListedIsActive` an account that is not active is not listed.
- `ReferralsRewardedOnce`: `[]RewardedOnce`, for all settings. `Rewards` says that the
  credits of a referral are those of the completions on record, less what is still owed, and
  that an open one has no payout but those whose row a crash kept from being recorded.

`PartnerGraduation_proofs` proves, for any number of partners and chains and any
overlap of the rewrites, `TypeCorrect` (`TypeOK`) and `ReadyEarned` (`ReadyIsEarned`).
The invariant speaks of what each file holds and of each copy in memory: every row of
either has earned its readiness (`EarnedRow`), since a row is graded after its score is
refreshed (`GradedEarned`), and whoever writes last writes rows of that kind.

`GraduationSerial_proofs` goes on from that invariant under the assumption `Serial`: the
operator graduates through the server, and no chain meets a tool the gate refuses, so the
event loop is the only one that writes. That is what `graduation_serial` checks, for any
number of partners, chains, requests and crashes here; without it `CleanHistory` is false
(the run `graduation_clean`). `HistoryClean` (`CleanHistory`), `FinalGraduation`
(`GraduatedIsFinal`), `GraduatedKeyed` (`GraduatedHoldsKey`) and `OneKey` (`NoSecondKey`)
follow from `SerialInvariant`. The argument has three parts:

- A rewrite counts as done when the file is opened: `View` is what a file will hold when
  the loop has finished what it is at, `Rest` the steps after it. `Alone` says that the
  loop's copy was computed from the file as it is, so that every step of the model is one
  atomic step on the views (`Linear`: `Rewrites`, `Appends`, `Notes`, `Assesses`, ...) or
  changes none of them (`NextLinear`).
- `Course` says where the loop is. A list of steps either registers or graduates, and then
  each stage knows what the ones before have secured (`OnCourse`: who is about to be marked
  is no longer let in and has a key), or it is `Plain`: it grants and takes away no key,
  writes no graduation, and charges a bad event in the step after its note.
- `PartnerOK` is the properties with what is still under way: `CleanOK` adds the charge
  that is owed to the counters of the row, `KeysOK` that the one key above the number of
  crashes belongs to a graduated partner, to one whose row is lost, or to the graduation
  under way.

`LoopImplementsLifecycle` (`Spec => ImplementsLifecycle`, again under `Serial`) takes each of
these atomic steps to a step of `PartnerLifecycle` or a stutter. `AppendsLives` is a partner
joining; `RewritesLives` the four rewrites that admit, issue, expel and graduate, whose
conditions `OnCourse` and `KeysOK` give; every other rewrite leaves the stage of the partner
alone, because a graduated row stays graduated however it is graded; `DiesLives` needs that
a crash loses at most the one file that was open.

`HandoffChain_proofs` proves, for any number of chains, tools, deals and sellers, for
every set of requests, answers and available tools, and for all settings:

- `Invariant`: `Spec => []IInv`. Per chain, `Begun` and `OnCourse` tie the step a
  chain is at to its plan and its trail (an agent is at work, and none after a stop);
  `Vetted` says that a scanned agent at work has not been sent what the scan blocks;
  `Asking` that a tool at the connector has its audited decision and its agent;
  `Selling` that who bills is a closer whose seller is onboarded, outside the sandbox.
  `Paid`, `Earned` and `Accounted` are the properties with what is still under way:
  the bill between search and append, the attempts whose row is still to come. An answer's
  own updates may change the record at any hop, so what is billed is tied to the request
  instead: the first agent sees the record as the request gave it (`Fresh`), and the
  agents that scan, the closer among them, are only ever first in a plan (`Begun`). `Offered` says that a request with a
  profile is billed with the link of its seller, and `Owned` says, for every billed row,
  that its chain's request could be billed and that its key was not in the file when the
  chain began. There is one lemma per action; `OneChain`, `MovesWith`, `Moves` and `Fails` are
  what they share.
- `WalkReached`: following the targets of the registry stands still after two rounds, so
  a plan never repeats an agent, with the recursive function given by an explicit
  witness and not assumed to exist.
- From the invariant `TypesHold`, `ActsEarned`, `ActsLogged`, `BilledEarned`,
  `RetriesBillOnce`, `ClosesBilled`.
- `ChainsImplementProtocol`: `Spec => Protocol!Spec`. Most steps leave the mapped
  variables alone (`Quiet`); `StartBegins`, `FinishHandsOn` and `CrashBreaks` map the
  others; a thin margin meets a guardrail whose answer is replaced by a veto before it
  is recorded.

`PromptLearning_proofs` proves, for any logs, reports, answers, jobs, threads and crashes,
`SandboxKeptOut` (`NothingFromSandbox`), `RisksReviewed` (`OnlyReviewed`) and `AppliedKept`
(`AppliedIsKept`). The invariant gives the records their shapes and says, for the stored
changes and for what each worker has in hand, that isolation and review were looked at
before a change goes on; that no recommendation in a signal, an overlay or a learned file is
one of the sandbox comes from the types of the signals (`TypeInv`, below), which both
analysers, all merges and the filter keep; `FilesSafe` says that a prompt nobody spoiled is
open in at most one worker, whose text holds everything that is to stay. `TypeCorrect`
(`TypeOK`) has an invariant of its own, `TypeInv`: `JobTyped` says what a job has in hand at
each stage, `SignalsBuilt`, `SignalsMerged` and `ItemsBuilt` that the analysers, the merges
and the generator name only issues, targets and changes there are. Counts are cardinalities,
of finitely many rows in every log.

`Rooms_proofs` proves `CommitmentChecked` (`[]CommitmentIsChecked`), for any number of
agents, rooms, chains and requests. `RunFoundIsOne`: the search finds one chain, because
no chain is of a day to come and days and rows are well ordered. `MarginLeft`: who is
watched pays more in the calculation, never less, and no tier asks for more than all of
the revenue, so figures that are approved leave the margin of the tier, or are such that
no margin can be told. `RestsKept`: the audit
log only grows, so what a check rested on stays. `RoomStored`, `ListingStored` and
`PaymentStored` are what the handlers share. `BonusEarned` (`[]BonusIsEarned`) rests on
`RewardsOK`: for every agent and close, the rewards in the file and those the running
handler has still to write are together no more than the closes on record. The handler
that closes a room owes each participant one reward, and nobody takes part twice
(`PartiesOK`), so counting the positions of the list counts agents (`ParticipantsOnce`). An
event is added to the bag once (`EventWritten`), and one for a referral is no reward of a
close (`ReferralRewards`).

The only assumptions are those the modules state and TLC evaluates: `ConstantsAssumption` of
each module (`SignalsAssumption` and `LearningAssumption` in the learning loop,
`RoomsAssumption` in the rooms); for the accounts and for graduation `NoneAssumption` (the
value that stands for a missing row, or for no copy of a file, is none); for the chains
`RequestsAssumption` and `RepliesAssumption` (requests and answers have their fields); for
the rooms `HistoriesAssumption` (what is stored when the server starts are rows the program
wrote, with commitments that were checked, participants named once and rewards for closes on
record). `SignalsAssumption` says that a log has finitely many kinds of rows. The two
theorems about the ledger, `NamedTransactionChecked` and those of `GraduationSerial_proofs`
have the further assumption their statement names. Each invariant was checked with TLC
before it was proved, or has the checked property as its core. Every invariant, action
property and refinement that a passing run checks is proved. Only model-checked: the four
liveness properties (`SubmittedIsConfirmed`, `ReadyIsGraduated`, `ChainsEnd`,
`DealsAreLearned`), because fairness is out of the prover's reach; and that the model of the
graduation does go wrong without `Serial`, which is a counterexample and not a theorem.

## Findings

- A confirmed payment is reopened by a late submission
  (`crypto_checkout.py:353`, against `docs/first-crypto-sale-runbook.md:376`).
- A chain thread's security event is lost when the event loop rewrites the
  registry (`test_registry.py:173`, against the criterion at line 43).
- The default referral reward, 5 USD, is below the default minimum of a payment,
  10 USD: the payout is refused and the refusal swallowed (`referrals.py:175`,
  against `docs/production-readiness-checklist.md:48`).

Read, and visible in the models, but without a run of their own:

- The operator's list is cut at ten, pending payments included: ten newer payments nobody
  paid hide one that waits for its confirmation (`crypto.py:616`). The runbook knows two other
  reasons only (`docs/first-crypto-sale-runbook.md:374`: "Payment not in pending list | Wrong
  instance or not submitted"). A hash of blanks marks a payment submitted without a
  transaction to look up (`crypto_checkout.py:345`).
- A referral whose payout is refused stays open, and every later profile update and
  verification credits the referrer with 6 points again (`referrals.py:131`, 156). Nothing
  limits these points, which count for the trust score like those of closes.
- The closer bills before the guardrail and the arbiter have seen the deal, and a veto
  takes nothing back (`agent_runner.py:691`, against
  `docs/partner-integration-guide.md:120`). Its tools act before the check that the
  seller is onboarded (`agent_runner.py:802` and 591).
- `record_closed_deal` is documented as "idempotent per deal_id + close_type"
  (`tracker.py:41`), but it compares the link too (`tracker.py:49`). The request of the
  integration guide (`docs/partner-integration-guide.md:237`) has no profile, so the link is
  the model's own (`agent_runner.py:600`), and the same request sent again is billed again
  when the model thinks of another. Two overlapping chains both append. A close
  with status `IN_PROGRESS` is logged as a close and not billed.
- Chains of different sellers share one profile template: a seller's prompt may show
  another's profile, and a load in the middle of a save fails the chain
  (`product_profile.py:66`, 107).
- The router is content with one objection of a profile, the validator wants three; the
  route of qualified prospects to the recruiter in the guide (line 225) is missing in
  `router.py:54`.
- Each analyzer settles all outcomes with its own issues, so outcomes of the other kind
  become "resolved" for good (`patch_outcomes.py:198`). The merged cycle keeps the
  isolation record of the execution signal: with a healthy execution every security
  change is blocked, and changes about several partners never pass, which
  `docs/security/cross_agent_isolation.md:25` lets pass. The merge for the
  `meta_optimizer` drops the record altogether.
- A pattern that a single partner used twice, one of the sandbox included, is appended to the
  patterns everyone shares: its issue is not among those that ask for several partners
  (`cross_agent_isolation.py:20`, against `docs/security/cross_agent_isolation.md:13`:
  "blocked when signal is sandbox-only or single-partner attributed").
- When no recommendation has the words of a global issue, the filter keeps the first ones,
  that of a single partner included (`cross_agent_isolation.py:197`).
- All recommendations of a signal are written to the learned file, and to the overlay when
  there is none or a change was applied, without a review (`prompt_updater.py:120`, 144).
- A crash in the middle of a rewrite of an index or of the outcomes fails every later
  cycle (`patch_generator.py:364`, `patch_outcomes.py:132`); overlapping writers of a
  prompt may leave only the text of the change (`patch_generator.py:511`).
- Deals closed while a cycle runs are counted as learned from
  (`learning_scheduler.py:168`).
- A closed room can be closed again and a completed listing completed again, and one
  confirmed payment without a deal completes any number of listings
  (`marketplace.py:197`); each time is rewarded again. The limit of hubs per
  agent holds for creating, not for joining (`hangouts.py:47`). The account is not looked at again after the body has arrived.
- `check_margin_guardrail` is documented as "Fail closed on veto" (`margin.py:39`), but it
  refuses a margin that is below a threshold, and one that is no number is below none
  (`margin.py:47`, 55). Revenue and cost come from the body through `float()`
  (`hangout_guardrails.py:189`), so such figures are approved, and so is a revenue too large
  for a number with any finite cost.

## Not modelled

- The rate limiter and the middleware beyond authentication: windows in memory, no state
  other parts read; its effect (a rate limit event in the sandbox) is in
  PartnerGraduation.
- Reports, feedback, preferences, observability and dashboards: appended, summarised,
  read by people; what an operator decides from them (a status) is an action of
  AgentAccounts and Rooms.
- Settings, catalogues, cards, prompts, schemas, MCP servers, deployment scripts:
  constant data and formatting, or wrappers around the modelled operations.
- Lines torn by a crash in the middle of an append, and `accounts.jsonl` caught between
  emptying and writing: see the hazards without a property.

## Plan

Done: the ledger and the payments, graduation with its lifecycle, accounts with verification
and referrals, the chains with their protocol, the learning loop, the rooms, and the proofs
above. What would come next:

1. An abstract directory (who is listed, who may be) that `AgentAccounts` implements.
2. Rewrites of the account files in two steps, as in PartnerGraduation, and lines torn
   by a crash in the append-only files.
3. Proofs: the refinement of that directory, and what remains true of graduations when
   the command line or chains write beside the loop.
