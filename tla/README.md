# Verification of the Hacash L2 hub

TLA+ models of the hub in `src/src/*.rs`, TLC configurations that check them on
small instances, and TLAPS proofs of what holds for every instance. Paths and
line numbers refer to the repository; "the hub" is one process, "the origin"
the hub at which a cross-hub payment is created, "participants" the other hubs
that own hops of its route.

## 1. The system

| Part | State it keeps | Operations | Correct when |
|---|---|---|---|
| Transaction manager, `distributed_tx.rs` 689-1942 | one async lock per transaction; no other memory | `prepare_origin`, `commit_origin_if_ready`, `abort_origin`, `deliver_abort`, `handle_participant_request`, `retry_pending`, `recover_local` | one decision; everybody follows it; decisions complete; nobody is locked for good |
| Transaction journal, `distributed_tx.rs` 223-650 | append-only file of hash-chained records; latest record per transaction | `append`, `replay_journal`, `validate_journal_transition` | what was acknowledged survives; replay gives the same states; no illegal step is stored |
| Payment sessions and reservations, `state.rs` 1396-1720, 3064-3800, 4679-4939 | sessions, reservations, `applied_settlements`, channel balances | create, sign, fail, cancel, expire, reserve, release, apply, settle | balances conserved and moved exactly once; reservations never exceed liquidity |
| Bills, `state.rs` 3798-4230 | draft and active bill per channel | propose, sign, restore, export | an active bill agrees with what the hub has settled |
| Snapshots, `persist.rs`, `state.rs` 2142-2420, `main.rs` | the snapshot file, its temporary and its backup | `save_from`, `load_into`, periodic and per-request checkpoints | a crash at any point leaves a loadable snapshot that the journal can bring up to date |
| HTTP orchestration, `api.rs`, `agent_api.rs` | none | order of hub and transaction-manager calls per request | errors leave a session that recovery understands |
| Agent payments, `agent_pay.rs`, `agent_api.rs`, `policy.rs`, `invoice.rs` | idempotency records, invoices, budgets | pay, sign, cancel | a retried request pays once; an invoice follows its payment |
| Agent identities and intents, `agent_id.rs`, `state.rs` 656-700, 2575-2766 | identities, challenges, claimed nonces | register, challenge, verify, scope, revoke; claim and release of a nonce | only a proved key is verified; a revocation is final; one intent pays once |
| Micro streams, `micro.rs`, `state.rs` 2768-3062 | cap, spending, sequence and last entries of a stream | open, push, close | spending stays within the cap and covers every entry; no sequence is used twice |
| Deferred payments, `state.rs` 4339-4479, `net.rs` 765-779 | orders with a status | create, promote by hand or by the loop, cancel | an order is paid once; a cancelled one is not paid |
| Channel state V2, `channel_state_store.rs`, `channel_state.rs`, `channel_activation.rs` | observations, equivocation proofs, activations | observe, prove, activate, bind to the L1 | two conflicting states are proved; the activated chain has no gap and no rival; evidence survives a restart |
| Peers, `net.rs`, `discover.rs`, `state.rs` 1132-1362 | peer table, pinned identities, seeds | hello in both directions, seeds, gossip | a pinned identity is not replaced; a transaction is answered by one identity |
| Routing and amounts, `route.rs`, `amounts.rs` | none | path search, signers, hops; parsing and formatting | a path is found exactly when there is one; participants accept the plan; conversions are exact |
| Cryptography, L1 formats and exit report, configuration, metrics, webhooks, rate limit, SSRF guard, escrow and rebalance records, SDKs | - | - | not modelled, see section 7 |

Parts interact as follows. A create request inserts a session and reserves the
origin's hops under the state lock, then runs `prepare_origin` under the
transaction lock: journal, one signed request per participant, journal. The last
signature makes the session `Committing` under the state lock; the handler then
takes the transaction lock and commits. Fail requests, and the retry loop every
few seconds, take the same transaction lock. The TTL loop, evictions and
signatures do not. Snapshots are taken of the memory at any time; on start the
hub loads the snapshot, replays the journal over it, and only then serves.

What is hard: the two locks protect different things, and every network wait
happens under one but not the other; three durable things (snapshot, journal,
the other hubs' journals) are written at different times; requests may be lost,
repeated or late; every handler can end between any two steps.

## 2. Modules

`AtomicCommitment.tla` says what a cross-hub payment promises: one decision, a
commit only when every participant is ready, nobody moves against the decision,
the origin reports only when all have moved or undone.

`CrossHubPayment.tla` models one payment in full. One payment is enough because
locks and journal entries are per transaction; payments meet only at channel
liquidity, which appears as the freedom of a participant to refuse a prepare
(then `PrepareFailed`, as after a lost answer).

| Variable | Code |
|---|---|
| `cj` | the origin's latest journal record: state, recovery image (`coordinator_payment`), acknowledgement flags |
| `pj` | each participant's journal state |
| `snap`, `paySnap` | last snapshot file of each hub: its ledger view, the origin's session |
| `up` | the process serves requests |
| `ledger` | reservation, membership in `applied_settlements`, and how often this image of the balances was moved |
| `pay` | the `PaymentSession`: status and number of ordered signatures |
| `op` | the coordinator handler inside the transaction lock and how far it is |
| `failing` | a create handler that got an error and will call `fail_payment` |
| `reqs`, `acks` | every signed message ever sent; a message is received any number of times, or never, or late |
| `expired` | the clock has passed `expires_unix` |

Each action is one stretch of a handler between two points where another task,
a crash or the network may intervene: a journal append, an await, or a separate
acquisition of the state lock. Names follow the functions: `PrepareBegin`,
`JournalPreparing`, `Contact`, `PrepareAcknowledged`, `PrepareFailed`,
`PrepareFinish` are `prepare_origin`; `CommitDecide`, `ApplyLocal`,
`CommitAcknowledged`, `Unanswered`, `CommitPending`, `CommitFinish`,
`MarkSettled` are `commit_origin_locked`; `AbortOrigin`, `AbortAcknowledged`,
`AbortFinish` are `abort_origin` and `deliver_abort`; `HandlePrepare` to
`AbortDiskFault` are `handle_participant_request`; `Reconcile` and `RetryAbort`
are the rest of `retry_pending`; `Restart` is `recover_local`; `GiveUp` is a
handler that ends at a `?` or because its HTTP caller is gone.

The number of participants is a constant; the code contacts them in the order of
the list, the model in any order, which includes it. `status |-> "collecting"`
stands for `Pending` and `CollectingSignatures`, which every guard treats alike.
The verification of signatures and descriptors is modelled by what it
guarantees: only requests the origin sent are in `reqs`, only answers a
participant gave are in `acks`, and a commit is accepted only with all the
signatures. `require_sig_verify` is taken to be on (its default): without it,
recovery images lack the `verified` mark that `restore_distributed_payment_inner`
demands. Clocks of hubs are taken to agree on `expired`, which only refuses
prepares.

`MCCrossHubPayment.tla` adds the symmetry of participants, used for safety only.
`CrossHubPaymentProofs.tla` holds the proofs.

`CrossHubPayment` takes three things for granted which modules of their own look
at: an append is one durable step (`TxJournal`), a payment is alone on its
channels (`HubRecovery`), a snapshot appears in one step (`SnapshotFile`).

`TxJournal.tla` models `DurableTxJournal` (`distributed_tx.rs` 223-650) and the
file under it. `file`, `torn` and `synced` are the complete lines, the line
without its newline at the end, and how many lines a power cut cannot take;
`mem` is `JournalState`; `writer` the append inside the mutex; `queue` the
appends handed to the blocking pool, which run even when their handler, and with
it the transaction lock, is gone. `BeginAppend`, `WriteRecord`, `WriteFails`,
`SyncRecord`, `SyncFails`, `ReplayAfterFailure`, `ReplayFails` are the stretches
of `append`; `Valid` is `validate_journal_transition`, `Replayable` and `Replay`
are `replay_journal`. The hash chain repeats what the sequence numbers say and
is left out, as are the fields that may never change. Transactions have one
participant, whose three flags matter. The file system is POSIX as the code
assumes it: a successful sync makes all earlier lines certain, a power cut
leaves a prefix that holds them. `FilesProofs.tla` holds the proofs.

`ChannelLedger.tla` has the ledger of one hub as functions: `Reserve`,
`Release`, `Apply`, `Prepare` and their guards are `reserve_payment_liquidity`,
the two `apply_*_settlement` functions and `prepare_distributed_reservation`
(`state.rs` 3290-3384, 4679-4939). The amount is one of HAC and satoshi, which
the code checks and moves side by side.

`HubRecovery.tla` puts local payments, payments this hub coordinates and
payments it takes part in on that ledger, with snapshots and a crash between any
two steps. `journal` keeps the states and the two parts of the order in which
`DurableTxJournal::list` returns them: commit decisions as decided, the others
by last record. `BeginSave` and `EndSave` are the two ends of a save, with the
sign request that waits for it in `saving.for`. `Recovered` folds
`recover_local` over that order; it yields no ledger where the code returns an
error and `main` exits (`status = "refused"`). The answers of other hubs are
free choices. `HubRecoveryProofs.tla` holds the proofs.

`ChannelBills.tla` puts reconciliation bills on the same ledger.
`BeginPropose` is `propose_bill` up to the point where it drops its lock,
`FinishPropose` the rest under the write lock, `SignBill` is `sign_bill`,
`Register` is `register_channel`. The bill of `auto_bill_after_settle` is a
proposal with sequence 0; the balances of every proposal are a free choice. A
bill's hash is modelled by the text it covers, of which sequence and balances
can differ. Crashes are left out: bills are part of the snapshot.
`ChannelBillsProofs.tla` holds the proofs.

`SnapshotFile.tla` models `save_from`, `replace_snapshot` and `load_into`
(`persist.rs` 44-263) over names, files and syncs. A file has two halves, so
that a write can be interrupted; the state is a version number. `target` is the
build: Unix renames the temporary file over the snapshot and syncs the
directory, Windows rotates through a backup. `past` has the directories a power
cut may bring back. `lock` is `persist_lock`, which a dropped caller releases
although its save goes on (`Drop`). Power cuts are modelled for the Unix build,
the only one that syncs its directory. `load_into` is `Loaded`; the ignored
error of `sync_parent` is left out. `acked` and `exposed` are history: what
clients were told, and whether the rotation has removed the only snapshot.
`FilesProofs.tla` holds the proofs.

`AgentPay.tla` models `agent_create_payment_ex_mode` and what it calls
(`state.rs` 1396-1628, 1892-2140, 4548-4592, `policy.rs` 157-196), with the
handler and the checkpoint around it. `hub` is the part of the memory that a
snapshot keeps, `disk` the snapshot; `calls` are requests in progress and the
lock section that is next: `Accept` and `ReplayInvoice` look at the invoice,
`Lookup`, `Admit`, `Refuse` at the key and the budget, `Create` stores the
session, `Record`, `RecordReplays`, `RecordConflicts` bind the key, `Answer`
writes the checkpoint. `owner` is `payment_meta`, `reserved` the reservations,
`applied` `applied_settlements`. Payments are local: remote hops are the matter
of `CrossHubPayment`. Refusals for reasons outside (identity, route, hourly
limit) are `Refuse` and `CreateFails`; expiry is `Fail`; the oldest records of
a prune are any records. Intent nonces are in `AgentAuthority`; receipts, the
cap on invoices and the HTTP create, which has the same two lookups, are left
out. `asked`, `answers` and `forgotten` are history. `AgentPayProofs.tla` holds the
proofs.

`ChannelEvidence.tla` models one channel's V2 evidence
(`channel_state_store.rs`, with `state.rs` 239-383, 798-1018, 4481-4507). `entry`
is the registered channel with its L1 anchor, `store` the observation of each
party, the proofs and the activation. A request reads the entry under one lock
and the evidence under another, so `BeginObserve`/`FinishObserve`,
`BeginActivate`/`FinishActivate` and `AskHeight`/`CheckAnchor`/`ApplyAnchor` are
separate. A state is a model value with a sequence, a predecessor and the
incarnation it is funded by; a signed state is a state with the parties that
signed it. `Life` says what the L1 holds at each height, so that a closed
channel's id can be opened again. A snapshot is three exports
(`SaveObservations`, `SaveProofs`, `SaveActivations`), each under the evidence
lock by itself; `Restart` is `load_into`, which refuses the start at the first
record that does not fit. `ChannelEvidenceProofs.tla` holds the proofs.

`MicroStreams.tla` models one stream: `ReservePush`, `VerifyPush`, `PayPush`,
`UndoPush`, `RecordPush` are the stretches of `push_micro` between its lock
sections; `CloseStream`, `SaveStream` and `RestartStream` may come in between.
The payment is a key and an amount, as far as a stream can see it.

`DeferredPayments.tla` models orders, `tasks` being promotions in progress: of
a request (`BeginPromote`) or of the loop (`ListDue`, `TryDue`, `MarkFailed`),
each of which creates the payment and marks the order under separate locks
(`CreateForOrder`, `MarkPromoted`). `raced` and `reopened` are history,
`reboots` counts restarts. `ServicesProofs.tla` holds the proofs.

`AgentAuthority.tla` models one agent's identity, its challenges, and pay
requests under signed intents: `CheckIntent` is the signature and the first look
at the identity, `ClaimIntent` the nonce, `AdmitPayment` the second look,
`CreateUnderIntent` and `PrepareUnderIntent` the payment, `ReleaseIntent` what a
failed request gives back. The mode is `require_verified_agent`.
`AgentAuthorityProofs.tla` holds the proofs.

`PeerTable.tla` models the table, `upsert_peer_from_hello` with everything it
checks (`Valid`, `EntryOf`, `Replaces`, `RoomFor`), hellos received and answered,
gossip rounds with their late answers, seeds, answers of participants, and what
snapshots keep. Another hub may change its key at any time (`ChangeHub`,
external). URLs are left out: a seed moves the URL even of a pinned peer.
`ServicesProofs.tla` holds the proofs.

`Routing.tla` takes a request through graph, search or given route, signers and
hops; `VisitNext` is one turn of the loop of `find_path_for_amount`, with the
order in which a hash map is read left open. `DescriptorValid` and
`CoverageExact` are what a participant checks of the result. `Amounts.tla` has
`HacAmount::parse` and `format_zhu` over a word of `MaxWord` and units up to
`MaxUnit`, scaled down. `ServicesProofs.tla` has the proofs of both.

`MCServices.tla` puts these six parts next to one another; they share no state,
and each behaviour takes the steps of one of them. `MCFiles.tla` does the same
with the two files of a hub.

## 3. Runs

| Run | Instance | Shows |
|---|---|---|
| `ledger` | 2 participants, 2 signers, 1 crash, 1 early end | exactly-once application over any snapshot; "settled" only when every hub has applied; recovery images restorable; a decided commit can always be applied locally; a finished abort leaves no participant reservation |
| `agreement` | 2 participants, 1 signer, 1 crash, 1 early end, 1 ambiguous disk write | no split decision; commit only if unanimous and signed; the inductive invariant of the proofs; no append the journal refuses; the refinement of `AtomicCommitment` |
| `liveness` | 1 participant, 2 crashes, 2 early ends | commits complete and are reported; aborts reach everyone; prepared participants learn the outcome |
| `stuck_committing` | 1 participant, no fault at all | counterexample, see section 5 |
| `files` | journal: 1 coordinated and 1 participated transaction, 5 records, 2 queued appends, 2 failing operations, 1 failing re-read, 1 crash or power cut; snapshot: both builds, 2 requests and the loop, 2 changes, 2 failing operations, 2 crashes | the journal always replays; the map between appends is what a restart reads; no record whose append returned Ok is lost; no decision is reversed; a hub always finds a snapshot to start from, and it holds what clients were told is durable |
| `hub_recovery` | 4 payments (1 local, 1 coordinated, 2 participated) on 2 channels, 1 crash | reservations covered and balances explained after any recovery; prepared and committed transactions kept; acknowledged local settlements survive; no reservation without an owner; a hub without sessions of its own always starts |
| `recovery_refused` | 1 local and 2 participated payments, 1 crash | counterexample, see section 5 |
| `bills` | 1 channel, a payment in each direction, 2 proposals at once, 3 sequence numbers, 1 further registration | bills form a chain; drafts can always be promoted; sums kept; the inductive invariant of the proofs |
| `bill_moves_reserved` | 1 channel, 1 payment, 1 bill | counterexample, see section 5 |
| `agent_pay` | 2 calls at once, 2 keys, 2 contents, 1 invoice, 2 payments, 1 restart | a key keeps its content and its payment; no leaked reservation; answered payments survive; an invoice follows its payment |
| `evidence` | 4 states of 2 incarnations (two rivals of one sequence), 2 parties, 2 calls at once, 5 requests of which 2 overlap, 1 proof, 1 further registration, 1 save, 1 crash | stored states of two parties agree; the activated head descends from its certificate and has no unproved rival; evidence answered for survives; a start is refused only for two reasons |
| `services` | streams: 3 requests, 2 pushers, cap 3; deferred: 1 order, 2 promoters and the loop; authority: 2 keys, 3 intents with one nonce (two of them for one key), 2 payers; peers: 2 providers, 2 keys, a table of 1; routes: every subset of 5 channels in a diamond of 4 addresses and 3 hubs, with the balances and advertisements of `MCServices`; amounts: numbers around the limits of a 9-bit word and 5 units | the properties of the six modules |

Bounds. Two participants are enough for every disagreement (one committed, one
aborted) and for one answer present while another is missing; two signers give a
session with some but not all signatures, which is what a stale snapshot can
hold; one crash separates any two steps of any hub, and messages already sent
survive it, so a second crash adds only repetition (the liveness run takes two,
which also lets a hub crash again while it recovers the first). `MaxGiveUps` and
`MaxDiskFaults` bound the handlers that end early and the appends that report an
error after the record is durable. Deadlock is not checked: a payment that is
settled, with the crashes used up, has nothing left to do, and the services rest
when no request comes.

Properties of one component that belong together are checked as one conjunction,
whose parts have names and comments of their own: `LedgerSound` (`HubRecovery`),
`AnswersKept` and `SessionsReserve` (`AgentPay`), `JournalMirrored`,
`SnapshotDurable`, `EvidenceAgrees`, `StreamCovered`, `OrdersPaidOnce`,
`IdentityProved` and `IntentsPayOnce` (`AgentAuthority`), `PinsStand`,
`RouteSound`, `AmountExact`. The type invariant of a module is part of the first,
and of `InductiveInv` where there is one. Below and in section 5 the parts are
named.

In `files`, one transaction of each role gives every transition, and two
queued appends are what is needed for one to become stale; `MaxRecords` is also
the size cap of the code, which the run reaches. In `hub_recovery` the first
channel has room for two of the three payments from its left side and a payment
back, so that refused reservations, and commits that only fit in the order in
which they were decided, occur. In `bills` two proposals overtake one another
and a third sequence number follows both. For the snapshot two requests and the
loop wait for one lock, and the second crash hits a start or the first save
after one. `MaxAbandoned = 0` there: with one save that goes on without its
caller `Loadable` fails (section 5). `MaxIoFaults = 2` lets an activation fail
together with the restore that follows it, so that the backup is the only copy
without a crash; `AckedDurable` leaves out what was lost when the rotation removed
such a copy (section 5).

`ledger` sets `MaxDiskFaults = 0`. With an ambiguous write `CommitApplicable`
and `AbortReleases` do not hold (section 5, left out of the runs): a
participant whose append failed after the fact has released its reservation but
answers a repeated prepare with Prepared, and a repeated abort finds `Aborted`
and releases nothing. A restart repairs both.

In `agent_pay` two calls are enough for a lost race, and the second payment is
the one a retry must not be given. Two sessions are also the limit, so that
evictions occur, though with every payment id used an eviction makes room for
none; a key whose session is gone is reached through a restart, which loses
failed sessions and settled ones beyond `KeptSettled`. The second record prunes
down to one. Keys, calls and payments are symmetric.

In `evidence` two requests overlap at most twice (`Overlap`): the second overlap
is what lets a state be observed between the check of an anchor and its
application, after another such pair. `MaxProofs = 1` is the smallest bound that
one request with two conflicting signers can exceed.

In `services` the cap lets two of three pushes pass and a roll-back be
overtaken. One order suffices for promotions that overlap, and three payments
for one that is paid twice after a failure. The second key and the
second intent are what a nonce, a key or a verification could be confused with,
the third intent repeats the first with a later expiry; `FewAuthority` keeps payments and challenges apart, which meet only in the
identity. The table of one peer is full as soon as one is known. `FewPeers`
bounds the events of a behaviour at five, which is a pin, a transaction, a
second identity, an answer and a restart. The diamond has routes of one to three
hops, a detour that only the liquidity forces, an edge in either direction, and
a channel that two hubs claim.

Fairness, in `FairSpec`: crashed hubs are started again; a running handler goes
on, because the HTTP client gives up after 8 seconds (`net.rs` 77); the retry
loop ticks (`recovery_loop`); a delivered request is handled. An answer that is
offered again and again is received in the end (strong fairness on the two
acknowledgements): the retry loop repeats a request for ever, and without it no
protocol over a network completes. Nothing is assumed of users or operators: a
payment that is never signed expires.

The liveness run sets `CanEvict = FALSE`. When the session table is full,
`create_payment_mode` (state.rs 1545) drops finished sessions, including that of
an expired payment whose transaction is still prepared; `retry_pending` then
reports "coordinator payment missing during recovery" for ever, and the
participants stay prepared until the origin restarts and restores the session
from the recovery image.

## 4. Proofs

`CrossHubPaymentProofs.tla` proves, for every set of participants, every number
of signers and any number of crashes and faults: `TypeOK`, `DecisionAgreement`,
`CommitNeedsEveryone`, `ExactlyOnce`, `ImageRestorable`, `SettledEverywhere`,
`JournalStepsValid` and the refinement `ImplementsAtomicCommitment`, and for
`MaxDiskFaults = 0`, as in the run (section 3), `CommitApplicable` and
`AbortReleases`. The assumptions are those of `CrossHubPayment.tla`: the origin is
not a participant and there is at least one signer.

None of these is inductive. Types alone do not exclude a signature more than
there are signers, and agreement depends on what messages in flight prove.
`InductiveInv` adds: a fully signed session or image is `committing` or
`settled` (`SignatureInv`); the handler in the lock knows the journal state,
because nobody else writes it (`HandlerInv`); a commit or abort request proves
the origin's decision and an acknowledgement the participant's, however late it
arrives (`MessageInv`); journals of the two sides agree, and while a prepare or
commit is running everybody already ticked off is prepared or committed
(`VoteInv`); the image is complete from the decision on (`ImageInv`). Each part
has a lemma with one step per action, and `OneAppend` reduces every step of the
program to one journal append or none, from which the journal discipline and the
refinement follow.

What is held and moved needs three more invariants, each proved on top of
`InductiveInv`: the origin applies before it asks for commits, and who has journaled
`Committed` has applied (`MovedInv`); a session that is open stands for a reservation
from the creation to the decision, unless the prepares were cut off, in memory and
in a snapshot from before the first append, and after the decision no step finds the
session failable (`OriginHolds`); a participant holds what it has prepared
(`ParticipantsHold`, the only one that needs `MaxDiskFaults = 0`).

`HubRecoveryProofs.tla` proves all that run `hub_recovery` checks, `LedgerSound`,
`JournalHonoured`, `AckedSurvives`, `NoLeakedReservation` and `ParticipantRestarts`, for
any channels, routes, amounts, kinds of payments, saves and crashes. It assumes that
routes repeat no channel (`HopsAssumption`), that amounts are positive and openings not
negative, that a payment is of one kind, and that there are finitely many payments
(`PaymentsAssumption`), since what is reserved on a channel is a sum over them. The
sums are functions on finite sets; that they exist and add up (`SumsExist`, `TotalAdd`,
`TotalUnion`) is proved by a least counterexample on the cardinality. `InductiveInv`
says which journal states go with which sessions and reservations (`EntryInv`); that
the ledger in memory is covered and explained by the payments applied (`MemoryInv`);
the same, as of when it was taken, of the snapshot and of the save in progress
(`FilesInv`); and that the snapshot can be replayed (`ReplayableInv`): registered
balances and what arrives cover all that is taken (`Room`), and each decision finds its
money in the order of the journal (`Replays`). `recover_local` is a fold, which
`ReplayStep` takes one transaction at a time; `RecoverySound` says what it yields and
`RecoverySucceeds` when it yields something, and both need that a reservation which is
prepared can be applied wherever it stands in the order (`ReservedApplicable`).

`ChannelBillsProofs.tla` proves, for all channels, payments, amounts and numbers
of proposals: `TypeOK`, `DraftFollows`, `SumKept`, `BillChain`. They assume of
routes that none repeats a channel (`HopsAssumption`, refused at `state.rs`
1510, 3310 and `distributed_tx.rs` 1788): a settlement then takes from one side
of a channel what it gives to the other (`ApplyFacts`). `DraftFollows` is not
inductive because a proposal is stored long after it was checked.
`InductiveInv` adds `ProposalFollows`: what a proposal was hashed over is the
active bill, or one with a lower sequence, and then `Current` refuses it; and
`NamedSums`: all drafts and proposals name the sum of the channel. `StoreStep`
is the one lemma about the three ways a bill is stored.

`ServicesProofs.tla` proves of `PeerTable`, for all providers, keys, table sizes and
message numbers, the four parts of `PinsStand`. The inductive invariant says that
whoever is pinned in the table is the identity recorded in history, that a
snapshot's pins are among them, and that every answer taken for an open
transaction was of the pinned identity. `Replaces` is the step that matters: a
hello of another identity is refused before anything is written.

Of `DeferredPayments` it proves the three parts of `OrdersPaidOnce`, and `CancelHolds`.
`PaidOnceAlone` needs `OnePromotion`: an order that was never raced or reopened,
in a hub that was not restarted, is in the hands of at most one promotion, and its one payment is the
one that promotion, or the order itself, holds. `PromotedNamesPayment` needs the
same of the snapshot (`KeptNamesPayment`). `CancelHolds` is about a step:
`CancelledOut` orders have no promotion in progress, and only `Promotable`
orders can get one.

Of `MicroStreams` it proves the four parts of `StreamCovered`, for any requests,
amounts, keys and any finite number of pushers at once. `StreamInv` says of the
snapshot what it says of memory, but for one difference: after a restart `recorded` no
longer explains all payments, so that the bound on them needs room for those still to
be made (`Unpaid`). Sums over pushers and over payments are taken along sets of sets
(`SubsetsOf`), which `SumWithout` and `SumChange` turn into what one push adds or takes
back.

Of `Amounts` it proves `AmountExact`, for any widths, units and texts. `AmountInv` says
that the text in hand is worth what the text of the request was, so that it does not
matter how often it is formatted and parsed again. `StrippedIs` is what a formatted
amount rests on: as many tens as possible are taken out and the worth stays the same;
`ParseExact` then says that a mantissa without tens and a unit below Zhu is no whole
number of Zhu. `Power` is a recursive function, and that it exists and adds up
(`PowersExist`, `PowerSum`) is proved by a least counterexample.

Of `Routing` it proves `RouteSound`, for any finite set of channels, any request and
any limit on hops. `RoutingInv` says of a search (`SearchOk`) that the queue is ordered
by distance and spans at most two layers, that each path is one of the shortest, with
liquidity at each hop, and that the neighbours of whatever left the queue were seen.
From that `Covered` concludes that every address of a layer was seen once the queue has
moved past the layer: so an empty queue means that there is no path, and a new path
is a shortest one. `WalkClimbs` goes up by a layer with each edge, so that a shortest
path visits no address twice and is never refused (`ShortestIsSimple`). `SignersAre`
says that along a simple path the signers are its addresses in reverse, which is what a
participant takes them for. `Walk`, `Layers` and the loop of `OrderedSigners` are
recursive functions; `IterationExists` says once that such a function exists, again by a
least counterexample. The proof assumes of the channels what a registry gives: there are
finitely many, and a hub has each identifier once.

`AgentAuthorityProofs.tla` proves `IdentityProved`, `IntentsPayOnce` and
`RevocationStops`, for any keys, challenges, intents, requests at once and
restarts. `AuthorityInv` says of the snapshot what it says of the identity, since
a restart brings it back; that a claim of a nonce, of a request or of a payment
made, is in the table until it lapses, is given back or lost, and that two claims
of different keys were never current at once (`ClaimsInv`); and that a key which is
paid for, or about to be, is bound unless its record was dropped (`OnceInv`).

`AgentPayProofs.tla` proves `AnswersKept`, `SessionsReserve` and
`InvoiceExplained`, for any numbers of keys, payments, invoices, requests at once,
evictions, prunings and crashes. `AgentPayInv` states everything of the memory and
of the snapshot alike (`HubInv`), so that `Restart` has nothing to show, and of a
request that is about to be answered what holds of the answered ones
(`CallInv`, `Answerable`). The steps that open no session, bind no key and touch no
invoice share `NarrowedKeeps`; `RecordKeeps` is the step the property hangs on: the
second lookup is under the lock of the binding, so a payment the key was answered
with before is already gone.

`FilesProofs.tla` proves of the journal `JournalMirrored`, `ServesConfirmed` and
`DecisionFinal`, for any numbers of transactions, records, queued appends, failing
operations, crashes and power cuts. None is inductive: `JournalInv` adds where the
file stands while an append is under way (`WriterInv`: the record that waits for
its sync is the last line and a valid successor of what the map holds;
`MirrorInv`: the map is the replay of the lines before it), that what was
confirmed is a synced line (`ConfirmedInv`), and that the map knows at least that
and keeps its decision (`ServedInv`). The last two hold after a failed replay too,
when the map has lost a line that the file still has. `EntryAt` looks for first
and last lines, so `MinOf` and `MaxOf` rest on the well-foundedness of the
naturals; `EntryOfNext` and `ReplayOfNext` say what one more line changes.

Of the snapshot it proves `SnapshotDurable`, for both builds and any requests,
failing operations, crashes and power cuts. It assumes `MaxAbandoned = 0`, as in the
run: with a save that goes on without its caller the property does not hold (section
5). `SnapshotInv` says of every directory that a power cut may bring back what
`Loadable` and `AckedDurable` say of the hub that loads it (`Fits`): its snapshot and
its backup are whole and synced and not the file being written, and the one that is
loaded covers every answer. The version of a save covers what its request asked for
and every answer so far, because only the holder of the lock is at work (`OneHolder`,
`VersionInv`); so the switch may happen at any later point (`Switched`), and the answer
at any point after the directory is synced (`Promised`). `PowerCutStep` is the step the
two syncs are for. `UnixKeepsWhatItAnswered` says that the exception of `AckedDurable`
is one of the Windows build alone.

`ChannelEvidenceProofs.tla` proves all that run `evidence` checks: `EvidenceAgrees`,
`AckedStands` and `RefusalExplained`, for any states, incarnations, terms, numbers of
requests at once, registrations, saves and crashes. They assume that a channel has two
parties (`PartiesAssumption`; with more, a third could have signed both sides of
`Unresolved`) and `SignersAssumption`. `EvidenceInv` says of the snapshot what it says
of memory (`StoryInv`), so that `Restart` has only `RestoredSame` to show, and
compares the half-made bundle of a save with what was in memory when it began
(`SaveInv`); as long as no evidence changed under the save, the head that is exported
last is held by the observations that were exported first (`TornInv`). `observe` and
`activate` only ever make the evidence `Better`: `MergedAgrees` and `MergedHolds` say
so of the observations, `AdvanceFits` of the head. `Descends` is stated as membership
in every set closed under successors, which needs no induction.

Only model-checked: the liveness properties of `CrossHubPayment` (liveness under fairness
is out of the prover's reach), and the three runs that end in a violation.

## 5. Where documents and code differ

1. `CommittingIsRetried`. `abort_origin` and a failed `prepare_origin` journal
   `AbortDecided`, wait for the network, and then call `fail_payment`
   (`distributed_tx.rs` 1112-1113, 883-887), which refuses a `Committing`
   session (`state.rs` 3751). A last signature accepted meanwhile leaves the
   session `Committing`, with its reservation, while the transaction becomes
   `CoordinatorAborted` and is never looked at again. `api.rs` 2077 and
   `NETWORK-GLOBAL.md` 252 say that committing means the durable decision is
   being retried.
2. `RestartServes`. `recover_local` (`distributed_tx.rs` 1379) returns the error
   of a prepared transaction that cannot be reserved again, and `main` exits.
   A snapshot that still holds the reservation of a local payment, cancelled
   since, or that misses a local settlement whose money the prepared
   transaction relied on, is enough. `SECURITY.md` 88-89 says that unresolved
   acknowledgements are retried after restart.
3. `ReservedStaysLocked`. `propose_bill` refuses a channel with reservations, but
   neither its second half nor `sign_bill` (`state.rs` 3995-4053) looks again:
   a bill drafted before a reservation takes the reserved balance away.
   `NETWORK-GLOBAL.md` 256-257 says it remains locked.

Met while modelling, left out of the runs:

- `agent_create_payment_ex_mode` finds an invoice Open under the read lock
  (`state.rs` 1929-1955) and sets it to Paying, with its own payment, under the
  write lock (2124-2132), without looking again. Two requests with different
  keys are both given a payment, and both can settle.
  `HARDENING-REPORT-2026-07-26.md` 40 claims protection against such a race. Two
  open payments allowed in `agent_pay` show it.
- `promote_due_deferred` writes Failed over an order that was promoted or
  cancelled after it was listed (`state.rs` 4465-4473), and a Failed order can be
  promoted again: a second payment, or one for a cancelled order. Two promotions
  at once both create a payment (4417-4439). `PaidOnceAlone` and `CancelHolds`
  leave these out.
- A micro push that fails after a later one has begun leaves its amount spent
  (`state.rs` 2951); a retried push with the same user key is charged again
  although its payment is replayed; entries are added to a closed stream.
- `verify_identity` marks the identity it finds at the end (`state.rs` 2719); a
  key registered meanwhile is verified without a proof. `VerifiedKeyProved`
  without `swapped` shows it.
- `release_agent_intent` frees a nonce although another request with the same
  key uses it or was paid (`state.rs` 689); it can then be claimed for another
  key. `NonceBinds` without `freed` shows it.
- `claim_agent_intent` answers a repeated nonce and key without looking at the
  expiry (`state.rs` 672-677): an intent that repeats both and expires later does
  not prolong the claim, and when the first has lapsed the nonce is free for
  another key while the later intent is still valid. `NonceBinds` says `Lapsed` of
  the earliest such intent.
- The three exports of the evidence (`state.rs` 2251-2253) are not one: a state
  observed in between leaves an activated head without its observation, and
  after a restart a rival of the head is stored as new instead of proved.
  `HeadUncontradicted` without `torn` shows it.
- `validate_successor_against_activation` (`channel_state_store.rs` 438-462) compares
  the sequence and the previous hash of a successor, not its funding incarnation,
  while `validate_activation_record` (418-426) wants head and certificate to share
  it. A channel registered anew has no anchor and takes a state of any incarnation
  with its terms; one that both parties signed over the old head would become the
  head, after which every observation and every start fails. Drafts never bind such
  a predecessor (`state.rs` 470-490). `SignersAssumption` says that signers do not
  either, and `HeadDescends` rests on it.
- A proof for each of two signers is held against the number of proofs before
  (`channel_state_store.rs` 138-152), so one more than the bound is stored, and
  `restore_proof` (237-246) refuses it at the next start. `RefusalExplained`
  without `Overfull` shows it.
- `apply_l1_channel_observation` checks the evidence before it takes the write
  lock (`state.rs` 935-937), and re-registration leaves the evidence of the old
  terms in place; either way the snapshot may not load, although the comment at
  921-924 speaks of an explicit new lifecycle.
- An equivocation over a sequence that both parties have passed is only stale;
  a gap or a wrong predecessor is refused before it is compared.
- Hellos are not checkpointed (`api.rs` 342-367): a pin that no snapshot holds is
  lost in a crash. `SavedPinsStand` speaks of pins in a snapshot.
- A channel registered at two hubs makes the participants refuse the plan;
  advertisements ignore reservations; a satoshi payment is searched without
  liquidity; a given route is not held to `max_hops`. `PlanAccepted` and
  `HopsFunded` say what is left.
- When a participant's append reports an error after the record is durable,
  `handle_participant_request` (`distributed_tx.rs` 1258-1264) releases the
  reservation while the journal says `Prepared`; `NETWORK-GLOBAL.md` 255-257
  says it remains locked. `MaxDiskFaults = 1` in `ledger` shows it.
- On Windows `replace_snapshot` removes an existing backup first (`persist.rs`
  235-238), also when that is the only copy: after a crash in the middle of a
  rotation, or after a failed activation whose restore fails too and is ignored
  (243-246). A crash before the save has put its own snapshot leaves neither, and
  the hub starts empty, which `main.rs` 104 calls unsafe. `AckedDurable` without
  `exposed` shows it.
- The payment of a key is remembered as long as its session. Sessions are
  evicted at their limit, and a snapshot keeps 500 settled ones; after that the
  same key and content make a new payment (`state.rs` 2025, 1559), where
  `agent_pay.rs` 4 says "same key never double-spends a session".
- An invoice that is Paying answers a retry of its key before contents are
  compared (`state.rs` 1931-1952); a different fee or route is then no conflict.
- An invoice whose payment fails, or settles just before a crash, stays Paying.
- A checkpoint whose HTTP client has gone releases `persist_lock` while its save
  goes on (`api.rs` 299-304); two saves then share the temporary file.
  `MaxAbandoned = 1` in `SnapshotFile` shows a snapshot that does not load.
- After a failed sync whose re-read fails too, `append` keeps the old map and
  sequence number (`distributed_tx.rs` 332-341); the next record repeats a
  number and the hub refuses its next start.
- A line that was written but not synced before a crash of the process is
  replayed and answered for; only the next append syncs it.
- A peer that publishes in whole Mei has nothing to show for a side below one Mei. Where
  both sides are, but not their sum, `edge_from_advertised` (`route.rs` 63-69) takes the
  sum to be available on both sides, as it does for a total without sides, so a hop may
  be planned that neither side can pay; the prepare of its hub then refuses it. Elsewhere
  whole Mei are a lower bound (`SidesPublished` in `HopsFunded`).
- A route given by the caller has no limit of hops when it is planned (`state.rs`
  1446-1480), while participants accept at most 32 (`distributed_tx.rs` 1757-1829). Such
  a payment is planned and then refused by all; `PlanAccepted` leaves it out.
- `SumKept` is stated while a channel is registered once: a bill checked against
  one registration may be signed after the next.

## 6. Plan

| Order | Module | Question |
|---|---|---|
| done | `AtomicCommitment`, `CrossHubPayment`, `CrossHubPaymentProofs` | agreement, exactly-once, completion; proofs |
| done | `TxJournal`, `SnapshotFile`, `FilesProofs` | the two files under crashes and failing operations; proofs |
| done | `ChannelLedger`, `HubRecovery`, `HubRecoveryProofs` | several payments, snapshot and journal, start-up; proofs |
| done | `ChannelBills`, `ChannelBillsProofs` | bills beside payments; proofs |
| done | `AgentPay`, `AgentAuthority`, `AgentPayProofs`, `AgentAuthorityProofs` | a retried request is one payment; identities, intents; proofs |
| done | `ChannelEvidence`, `ChannelEvidenceProofs` | equivocation, activation, anchor, snapshot; proofs |
| done | `PeerTable`, `DeferredPayments`, `MicroStreams`, `ServicesProofs` | pinning over hellos, seeds, gossip, restarts; promotions, roll-backs; proofs |
| done | `Amounts`, `ServicesProofs` | conversions against their reference definition; proofs |
| done | `Routing`, `ServicesProofs` | search and plan against reference definitions; proofs |

## 7. Not modelled

- `crypto.rs`, `hacash_keys.rs`: signatures, hashes and addresses, taken to be
  sound; who signed what is a choice of the environment.
- `l1_exit.rs`, the parsing in `l1_anchor.rs`, and `fullnode.rs` beyond its
  channel query: formats of another program, and a report that changes no state.
- Escrows and rebalance proposals (`state.rs` 720-749, 4232-4335): records with a
  status that no other part reads.
- Notifications of payments to remote hubs (`state.rs` 538-652, `net.rs`
  674-762): mirrors for an inbox that nothing decides on.
- Receipts, the agent ledger, inbox, manifest, metrics, dashboards: views.
- `config.rs`, `ratelimit.rs`, `ssrf.rs`, `webhook.rs`, `auth.rs`, `discover.rs`,
  `smart.rs`, `hvm_stub.rs`: options, I/O, and filters of one step.
- SDKs, scripts and deployment: outside the hub.
