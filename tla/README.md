# A TLA+ verification of the Telegram ads market

The program is a marketplace for advertisements in Telegram channels. A lessor
(who owns a channel) and a lessee (who wants to advertise) negotiate a deal,
both sign it, the lessee pays into an escrow wallet on the TON network, a
userbot posts the advertisement and watches it, and the escrow is paid out to
the lessor or back to the lessee. Three Go processes (`market`, `userbot`,
`blockchain_observer`) and a bot work on shared Postgres tables, Redis keys and
streams, Vault secrets, Telegram channels and the TON network. No process ever
waits for another: each polls the rows, so what is correct has to be correct
under every interleaving of statements, crash and retry. That is what is
modelled here.

## 1. Inventory

| Component | State | Operations | Talks to |
|---|---|---|---|
| Deal negotiation (`market/service/deal`, `application/market/http/deal.go`, `repository/deal`) | `market.deal`: terms, payout addresses, two signatures, status | create, update the draft, set a payout address, sign, reject | wallets; notifications |
| User wallets (`http/auth.go`, `service/user`) | `market.user.wallet_address` | set, disconnect, log in | signing |
| Escrow creation (`service/escrow`) | `escrow_address`, Vault seed, Redis key with a TTL of one hour | creator worker, expiry at start-up | observer, by Redis key events |
| Block observer (`blockchain_observer/workers.go`, `liteclient`) | the last block recorded of each shard, two unbuffered channels | poll for masters, walk back from their tips, read transactions | deposits |
| Deposits (`blockchain_observer`, `escrow/deposit_worker.go`) | watched addresses, `depositEvents` channel, stream `events:escrow_deposit` | key events, filter, notifier, deposit worker | market, by the stream |
| Post sender and checker (`userbot/deal_post_workers.go`) | `market.deal_post_message`, `market.deal_action_lock`, the channel | post, recover, create the row, check every hour | settlement, by the row's status |
| Escrow release and refund (`service/escrow`, `deal_post_message/worker.go`) | statuses, locks, escrow wallet | passed worker, payout worker with recovery, completed worker | TON network, deal chat |
| Deal chat (`service/deal_chat`) | forum topics on both sides | open, mirror a message, delete | bot updates |
| Listings and prices (`service/listing`, `http/listing.go`, `domain/listing_prices.go`) | `market.listing` | create, update, delete; price match of a deal | deals refer to them; admins of a channel may list it |
| Channels and admins (`userbot/handle_channel.go`, `service/channel`) | `market.channel`, `market.channel_admin`, `market.channel_stats` | synchronise row, statistics, admins and photo; refresh statistics under a cooldown | stream `channel_update_stats`; listings |
| Updates and notifications (`bot/service/updates`) | two streams with consumer groups | read, claim pending, acknowledge, trim | everything that notifies |
| Escrow amounts (`escrow/calculations.go`, `domain/price.go`) | none | TON to nanoton, commission and gas, and back | deals, payouts |
| Analytics | `analytics.snapshot` | daily snapshot | all tables, read only |
| Rate limiter | a counter per window | allow, reset | Telegram client |
| Server, middleware, JWT, database and API clients, web app | none of their own | wiring, I/O | |

What is hard in it: handlers that read a row in one statement and write it in
another; three systems (Vault, Postgres, Redis) written one after the other; a
transfer or a post that cannot be undone and whose confirmation may be lost; a
lock with an expiry that is compared with two clocks; an in-memory channel that
its only reader also writes; a stream whose pending entries nobody claims; two
readings of the clock that decide which check is the last; a JSON document that
two processes read and write back as a whole; rows that are deleted and inserted
one by one while others check them; a chain of blocks that splits and merges
while it is walked. `PROJECT.json` lists each hazard at its line with the
properties that would catch it.

What makes each part correct:

* negotiation: a deal is approved only on terms both sides signed, and not
  changed after that;
* funding: the key of the shown address is kept, a deal is confirmed on real
  money only, expires only after its hour, and does not wait for ever;
* posting: the advertisement appears once, is judged in the end, and the verdict
  is true and final;
* settlement: the escrow is paid out exactly once, to the right side;
* lifecycle: statuses only move forward, in the documented order;
* streams: every entry is handled or given up, and repeated only after a fault;
* block observer: every block is found, whatever masters were skipped, and sent
  twice only where the walk must;
* chat: all links of a deal lead into one pair of topics, no topic is forgotten,
  a message is copied to the partner's topic only;
* channels: the rows follow Telegram, statistics are lost to a crossing write
  only, the cooldown holds;
* listings: a channel is offered by its admins, and keeps its owner;
* deals on listings: sides, channel and price are as offered, and the escrow pays
  out the price to the nanoton.

## 2. Modules

| Module | Models |
|---|---|
| `ChannelData` | what the market keeps of a channel: admins, statistics, photo |
| `Catalogue` | extends it by the listing, the deals made on it, and the amounts |
| `CatalogueProofs` | the theorems of both |
| `DealSigning` | negotiation of one deal: draft, wallets, payout addresses, signatures |
| `DealSigningProofs` | its theorems |
| `DealLifecycle` | abstract specification: the order of the statuses, and one payout to the side it is owed to |
| `EscrowFunding`, `EscrowFundingProofs` | creation of the escrow wallet, observer, deposit, expiry; its theorems |
| `BlockTraversal`, `BlockTraversalProofs` | how the observer finds the blocks whose transactions `EscrowFunding` filters; its theorems |
| `DealActionLock` | the statements on `market.deal_action_lock`, used by the next two |
| `DealPost`, `DealPostProofs` | post, recovery, hourly checks, verdict; its theorems |
| `EscrowSettlement`, `EscrowSettlementProofs` | verdict to payout; its theorems |
| `DealChat`, `DealChatProofs` | the two forum topics of a deal: creation, mirroring, deletion; its theorems |
| `EventStream`, `EventStreamProofs` | a stream and its consumer group: Telegram updates, notifications, channel statistics; its theorems |
| `MC...` | values of the constants for TLC |

The modules follow a deal, from the channel that is listed to the payout: each
starts in the states the one before leaves. The
statuses are the interface; `EscrowFunding` and `EscrowSettlement` both refine
`DealLifecycle`, the first from `approved`, the second from `in_progress`, and
`DealPost` covers the two statuses in between.

### DealSigning

`deal` is the row, `wallet` the wallets, `req[r]` what a handler goroutine holds
between two statements. `UpdateDealDraft` (read the row, merge, write all
fields) and `SignDeal` (read, compute the signature, then `SignDealInTx`) are
two steps each, so requests interleave inside them; the one-statement requests
are one step. `SignDealInTx` is one step because its transaction is
`SERIALIZABLE` and updates the row it has read. A signature stands for the text
that is hashed: SHA-256 is taken to be injective, but nothing separates the fields
in the text, so they are joined as in the code. Type, duration and price are
joined digit by digit (`Decimal`), because "1hr", 1, 12 and "11hr", 11, 2 end in
the same digits; so are the user's id and the two payout addresses (`UserId`,
`PayoutText`), which are texts of any length, for the handlers only ask that they
are not empty. The details in between are a JSON object and mark their own end.
`attested` is a history variable: what a user put their signature under, and with
which wallet.
`Options` obeys what `DealPriceMatchesListing` accepts (`OptionsAssumption`).

### EscrowFunding

`CreateEscrow` generates a wallet; seed, address and key are stored in separate
steps, any of which may fail, cleanly or after having taken effect, or be cut
off by a crash. A key event makes the observer watch the address, another makes
it stop and expire the deal. A deposit in a block goes through the filter, the
bounded channel, the notifier and the stream to the deposit worker. The hour is
a Boolean (`overdue`), since only before and after matter. The walk over master
and shard blocks is abstracted to the set `unseen`; `BlockTraversal` is about it.

### DealPost

`sender[w]` and `checker[w]` are the two goroutines of each userbot instance.
The sender's steps are those of `runDealPostSenderOnce`: last lock, search of
the channel if it is locked and expired, take the lock (SELECT and INSERT
apart), send, create the row and set the deal in progress, release. The checker
reads the due row, looks, and writes. Time is in ticks with `Hour` ticks per
hour, because the comparison of `next_check` with `until_ts` needs it. The two are
computed from two readings of the clock, with up to `MaxDrift` ticks in between,
in every post and not as a fault. `listing` is the type of the deal's listing: a
lessee's has no channel, and the sender passes its deals over.

### EscrowSettlement

`listed[w]` is what a passed worker has read, `job[w]` where a payout worker is
in `ReleaseOrRefundEscrow`: last lock, `HasOutgoingTxTo` if it has expired, take
the lock, transfer, confirm, delete the forum topics, deferred release. The
escrow wallet has a sequence number: of several messages with the same one the
network applies at most one, and a message may be applied late or dropped. A
transfer is modelled as valid as long as its lock lives: wallet messages expire
after a few minutes. `payable` says, from the start, of which side the payout
address parses: nothing checked it when it was stored, and a round ends at one
that does not (`PrepareAction`). The other reasons to end a round there, Vault
and the wallet's key, pass and are the fault "prepare".

### BlockTraversal

`chain` is the workchain, a function from each block to its parents that grows,
splits and merges. The poller hands the tips of a newer master over to the
walker (the channel is unbuffered, so the hand-over is one step of both), which
walks back from each tip to what `workchain` has recorded, puts the blocks on a
stack and sends them to the workers, deepest first. The recursion of
`handleShardBlock` is a loop here: `walker.todo` holds the blocks it has yet to
look at, in its order, and each step looks at one, or sends one. An error is
dropped or leaves the tip out of the new map, as in the code. A map from shards
to sequence numbers is the set of the blocks it names. History variables state
the properties: `behind` holds what lies behind each block, so that no definition
recurses; `sent`, `repeated` and `scanned` count what happened to a block;
`excused` holds the blocks that a fault, or the start of the process, leaves out,
and only those; `rewalked` says that a tip was left out or the process restarted,
after which blocks are sent again by design.

### DealChat

`req[r]` is a handler of a request for the link: it looks for the row, creates a
topic on either side, inserts the row, and deletes its topics if one of these
fails. The primary key of `row` alone decides between two of them. `settler` is
the worker that has confirmed the payout and deletes the chat, `copying` are the
messages the bot has looked up and not yet copied. Cancellation of the HTTP
request makes every later call of its handler fail. `answered`, `copied`,
`leaked` and `broken` are history: the links given out, the copies made, the
topics whose owner a fault took away, and the one case in which a handler deletes
the topics of a row it has written (an insert that reports an error).

### ChannelData and Catalogue

`sync` is `handleChannelUpdate` at one of its statements: the row of the channel
is written without its photo, statistics fetched and stored, admins deleted and
inserted one by one, the photo added. `refresh[r]` is a request for fresh
statistics in the market, which checks the admin and the cooldown, reads the
document, writes it back with `requested_at`, and adds an event; `job` are the
userbot's two consumers of those events. Statistics are a version number.
`RestartUserbot` loses what is under way and, by `SetState`, the updates from
before.

`Catalogue` adds `listing`, `deals` and the handlers of requests about them,
`requests[q]`: each reads the listing, carries what it will write, and writes it
later, in the code's order of checks: a PATCH reads for the merge, reads again for
the owner, asks for the admin, and writes, in four steps. Money is in whole
nanotons, `Round` is `math.Round`, and the commission is the fraction `Num / Den`.
Asked prices are in parts of a nanoton, so the first conversion rounds too.

History variables name what the properties speak of or excuse, and nothing else:
`missed` (the latest update was given up or skipped),
`stored` (the highest version stored), `crossed` (who has seen another write since
it read), `raced` (refreshes let through beside one that had not yet written
`requested_at`), `dropped` (events acknowledged on an error), `offers` (the states
the listing has been in), and in each of them `vetted` (the request that wrote it
found the owner among the admins).

All activities at once are too many states for TLC. `scene` picks, once per
behaviour, a set of activities that write the same rows: time, refreshes and
growing statistics; refreshes and updates; listings and updates; listings and
deals. The theorems hold for every `Scenes`, the full set included.

### EventStream

Three streams are worked off by the same design, so one module models them and
`kind` says which one a behaviour is about. `pending` is the group's pending
list with the idle time of each entry, counted in periods of the claimer (15 s),
`MinIdle` of which (30 s) make an entry claimable. `job[g]` is the batch of the
reader or the claimer: entries still to handle, and those to acknowledge at the
end. The handlers differ in what they do with an error: `ProcessUpdate` retries
or gives up, `SendNotification` retries for ever, `UpdateStats` gives up a
channel it cannot read and retries the rest. `Poison` are the entries whose
Telegram call never succeeds. The fourth stream, of escrow deposits, has no
claimer and is part of `EscrowFunding`.

### Faults

In all modules but `DealSigning` every failure is an alternative of the step it
happens in, enabled by its kind in `Faults` and counted by `MaxFaults`. A run
therefore says exactly which failures it covers; `FaultKinds` in each module
explains them.

## 3. Runs

"States" is the number of distinct states, roughly.

| Run | Result | Bounds | What it shows |
|---|---|---|---|
| `DealSigning` | pass | the 2 sides, 2 options, 2 details, 2 addresses of different lengths, 2 requests in flight, 7 in all; 2.9M | `TypeOK`, `ApprovedOnSameTerms`, `ApprovedIsExecutable`, `ClosedDealFrozen` |
| `EscrowFunding` | pass | 1 instance, 4 wallets, 3 deposits, channel of 1, 3 faults of any kind; 290k | `KeyMatchesAddress`, `ConfirmedIsFunded`, `ExpiredIsOverdue`, refinement of `DealLifecycle`, `WaitingEnds` |
| `EscrowFundingLate` | violated | no faults | `DepositHonoured` fails: the key expires while a deposit is on its way |
| `DealPost` | pass | 1 instance, listings of both types, a tick between the two readings of the clock, two faults neither `Misleading` nor `Repeating` ("crash", "send", "unlock", "write", "stall"), an earlier message with the same text; 950k | `PostedOnce`, `VerdictTrue`, `Judged` |
| `DealPostReplicas` | pass | 2 instances, a tick between the readings, one fault of any kind; 10.3M | `RowMatchesDeal`, `PassedWithinHour`, `RowKept` |
| `DealPostLessee` | violated | no faults | `FundedIsPosted` fails: the deal of a lessee's listing is never posted |
| `EscrowSettlement` | pass | 1 instance, payout addresses that parse or not, 3 benign faults; 17k | `TypeOK`, `PaidOnce`, refinement of `DealLifecycle`, `Settled` |
| `EscrowSettlementReplicas` | pass | 2 instances, one fault of any kind; 4.2M | `PaidByVerdict` |
| `EventStream` | pass | 4 entries, 2 of which fail for ever, limit 2, 3 faults of any kind; 540k | `NothingForgotten`, `RepeatedByFaultOnly`, `EventuallyHandled` |
| `BlockTraversal` | pass | 1 worker, sequence numbers to 3, one fault of any kind; 1.6M | `RecordedIsSent`, `RepeatedBySplitOnly`, `EventuallyScanned` |
| `DealChat` | pass | 2 requests of either side or a stranger, 2 copies, 2 faults of any kind; 420k | `OneConversation`, `RowHasTopics`, `NoStrayTopic`, `MirroredToPartner`, `ChatClosed` |
| `Catalogue` | pass | 2 users, 2 refreshes, 2 requests, cooldown of 2 ticks, 1 change of the admins, 4 prices, 1 fault of any kind, 4 scenes; 750k | `CooldownKept`, `StatisticsKept`, `ChannelSynced`, `RefreshServed`, `ListedByAdmin`, `OwnerAndChannelKept`, `DealAsOffered`, `PayoutIsPrice` |

Every module defines `TypeOK`, which is part of its inductive invariants; two runs
check it by itself. The two violated runs are the findings of `PROJECT.json`, each
with the line of the repository it disagrees with. A passing run claims what it
claims for the faults and the number of instances it names. The next table says
where the claim ends: change the configuration, or the property, as given, and TLC
shows the counterexample.

| Property | Run | Fails with | Because |
|---|---|---|---|
| `KeyMatchesAddress` | `EscrowFunding` | two instances | the later seed replaces the earlier one in Vault |
| `ApprovedOnSameTerms` | `DealSigning` | `c.payout = deal.payout` for the text of both (`ApprovedOnSamePayouts`) | two pairs of addresses may be written the same one after the other |
| `WaitingEnds` | `EscrowFunding` | `ExpiryMissed` not excused | the key was not set, or its one event was missed; only a restart of the market then expires the deal |
| `PostedOnce` | `DealPost` | "create", "commit" or "ambiguous" | the message is out, and the lock closed as failed or never stored: the next round does not search |
| `PostedOnce` | `DealPost` | "history" or "scroll", after a crash | the search does not find the post, and the sender posts again |
| `PostedOnce` | `DealPost` | "skew", after a crash | the lock is live for the sender's clock and expired for `NOW()` |
| `PostedOnce` | `DealPost` | two instances | SELECT and INSERT of the lock are not serialised |
| `VerdictTrue` | `DealPost` | "history" | a history that cannot be read is taken for one without the post |
| `VerdictTrue` | `DealPost` | "passed" only at or after `until_ts` | `next_check` is computed a moment after `until_ts`; the check an hour before the end is then the last |
| `Judged` | `DealPost` | `listing = "lessor"` not asked | the sender takes the channel from the listing, and a lessee's has none (the run `DealPostLessee`) |
| `PaidOnce` | `EscrowSettlement` | "crash" and "skew" | the lock is live for the worker's clock and expired for `NOW()` |
| `PaidOnce` | `EscrowSettlement` | "crash" and "probe" | `HasOutgoingTxTo` fails, or twenty newer transactions hide the payout |
| `PaidOnce` | `EscrowSettlement` | "ambiguous" or "confirm" | an error after the message is out closes the lock as failed |
| `PaidOnce` | `EscrowSettlement` | two instances | SELECT and INSERT of the lock are not serialised |
| `Settled` | `EscrowSettlement` | "drop" | the deal is confirmed once the message is handed over |
| `Settled` | `EscrowSettlement` | `Owed \in payable` not asked | a payout address that does not parse ends every round before the lock |
| `EventuallyHandled` | `EventStream` | as many poisoned entries as twice `Limit` | every claim starts at the oldest pending entry, and these fill all claims |
| `EventuallyScanned` | `BlockTraversal` | `poller = "dead"` not excused | the poller returns when its first request fails, and nothing restarts it |
| `RowHasTopics` | `DealChat` | `broken` not excused | an insert that was made and reported an error has its topics deleted |
| `ChannelSynced` | `Catalogue` | `missed` not excused | an update that fails, or is skipped by a start, is not repeated |
| `CooldownKept` | `Catalogue` | `raced` not excused | the cooldown is checked before `requested_at` is written |
| `ListedByAdmin` | `Catalogue` | an admin at the time of the write asked for | an admin may be dismissed between the check and the write |

Some behaviours are in the models and no property is against them, though a
reviewer of the code may want one:

* what a deal is approved on: the comment at `service/deal/deal.go:82` says "Then
  both signatures use the same payload", and both sign the same text; where one
  address ends in it and the other begins is not signed, and a side that
  lengthens or shortens its own address moves it. `ApprovedOnSamePayouts` states
  the stricter reading. It is in no run; it holds if all addresses have one
  length, which is proved;
* the two verdicts are looser than migration 00008:5-6 words them. 'passed' is "we
  passed the until time and last check was successful": since `next_check` is
  computed after `until_ts`, a post usually passes at the check an hour before its
  end. 'deleted' is "message was deleted before until": a checker that comes late,
  or a last check at the end, finds a post that was taken down after its paid time,
  and judges it deleted. The run `DealPost` has behaviours of both kinds;
  `VerdictTrue` and `PassedWithinHour` say what holds all the same;
* the notifier of the observer puts a failed event back into the channel it alone
  reads, and hangs for good if the channel is full. The run `EscrowFunding`, with
  a channel of 1, contains it, and so the deposits that are never reported after
  it, those the shard workers drop, and those left pending in the stream: the
  deals of such deposits expire (`WaitingEnds`), and the money stays where it is;
* a payout address that does not parse keeps a deal waiting for its payout for
  ever, and its money in the escrow wallet;
* the recovery takes the newest message with the deal's text, which may be older
  than the deal: nothing in the code tells the two apart;
* a payout address changed and changed back leaves a draft that both sides have
  validly signed and that is not approved until a signature is stored again;
* a chat asked for after the settlement is created, and stays;
* of two PATCHes of a listing that cross, the later writes the other's fields
  back as they were; two crossing writers of the statistics do the same;
* a PATCH makes a lessee's listing without a channel a lessor's without one, and
  deals can be made on listings whatever their status.

**Why the bounds are enough.** A module is about one deal (or one channel and one
listing), and the code never relates two: the lists the workers read are processed
deal by deal, and the one thing deals share, the observer's channel, is squeezed
by its capacity instead. Two instances, or two requests in flight, give every pair
of statements in every order. Seven requests suffice to set both wallets and
addresses, sign, change and sign again, or to start with connected wallets and
change an address back. Four wallets are one more than three faults can waste.
Three faults are two crashes and a failure in between. In `DealPost` two ticks to
the hour separate before, on and after the boundaries of the hourly checks, and
eight ticks last past the final one; one tick between the two readings decides
which check is the last. In `BlockTraversal` three blocks a shard are enough for a
split, a merge and a master skipped between any two of them; workers share
nothing, so one of them gives every order of sends and reads that matters to the
walk. In `DealChat` two requests race for the row, and two faults take away a
handler and its clean-up. In `Catalogue` the prices contain two that round to the
same nanoton and a negative one, and the cooldown of two ticks is met exactly,
missed by one and exceeded. In `EventStream` a limit of two lets a batch half
fail, and four entries fill more than one batch. `SYMMETRY` is used only in runs
without liveness. Deadlock is checked for `EventStream`, whose claimer never
stops; in the others it is not: a deal that is closed, funded, judged or completed
stays so, requests are bounded, and the models end there.

## 4. Fairness

`FairSpec` assumes weak fairness of the goroutines: they run on tickers and in
loops that end only with the process, and a crashed process is restarted.
`ApplyTransfer` is weakly fair unless the fault "drop" is allowed to take the
message. Time is fair (`Tick`, `HourPasses`, `KeyExpires`). `LockExpires` is
strongly fair because the workers look at the lock every round and thereby disable
and enable its expiry, while its five minutes pass all the same. In
`BlockTraversal` poller, walk and workers are weakly fair, for their requests have
deadlines or a bounded number of attempts; the poller's disjunct that hands over
the current tips is always enabled, since the masterchain never rests. In
`DealChat` the settling worker and each handler are: their calls end. In
`Catalogue` the update handler and the two consumers of the userbot are; the
handlers of requests need no fairness, for a request that is cut off has promised
nothing. Nothing is assumed of people: deposits, deletions and requests may never
come. Faults are bounded by `MaxFaults`, which says that failures stop in the end;
no liveness property could hold otherwise.

## 5. Proofs

All proofs are for every value of the constants that satisfies the named
assumptions: any number of users, options, requests, instances and faults, unless
a theorem names a hypothesis of its own. The inductive invariants stand at the
end of the component's module, so that TLC can check them too; each was checked
on the module's run before it was proved.

`DealSigningProofs`

* `TypeCorrect`: `TypeOK` always holds.
* `ApprovalIsAgreed`: `ApprovedOnSameTerms`, for addresses of any length. That an
  approved deal's signatures match its terms is not inductive and says too little:
  a matching signature must also have been made by its user on the same option.
  `ApprovalInv` therefore adds `SignaturesAttested`: every signature in the row,
  and every one a handler is about to write, was computed from terms in
  `attested`, and `PayoutsKept`: addresses are replaced, never removed. From equal
  texts to equal options goes through `EncodeOptionInjective`, which needs that
  the type determines the duration (`OptionsAssumption`) and that a common prefix
  of digits cancels (`PrefixCancel`); the latter also takes the user's id off the
  addresses.
* `ApprovalIsAgreedInFull`: `ApprovedOnSamePayouts`, under the hypothesis that all
  addresses have one length. Nothing in the handlers makes them so; raw addresses
  of the basechain do.
* `ApprovalIsExecutable`: `ApprovedIsExecutable`, from the same invariant.
* `ClosedDealIsFrozen`: `ClosedDealFrozen`, an action property.

`EscrowFundingProofs`

* `ConfirmedIsFundedTheorem`: `ConfirmedIsFunded`, for any number of instances,
  deposits, room in the channel and faults. The status is written long after the
  money was seen, by a worker that looked the deal up a statement earlier. So
  `FundingInv` follows a deposit all the way: what is in blocks, channel,
  notifier, stream and batches was paid (`Authentic`), and a worker that has found
  the deal holds a deposit that covers it, sent to an address that no longer
  changes (`FoundIsFunded`, `Untouched`).
* `ExpiredIsOverdueTheorem`: `ExpiredIsOverdue`, from `KeyOutlivesHour`: an
  expired event of the deal's own key comes after its hour, unless the deal is
  already confirmed, which the event then leaves alone.
* `KeyMatchesAddressTheorem`: with `OneInstance`, `KeyMatchesAddress`. `SeedInv`:
  a creator about to store its address has its own seed in Vault, and the deal
  has no address yet. Two instances break it (table above).
* `ImplementsLifecycleTheorem`: the refinement of `DealLifecycle`, for any number
  of instances and faults; every statement on the status is guarded by the one
  before.

`EscrowSettlementProofs`

* `TypeCorrect`: `TypeOK` always holds.
* `PaymentFollowsVerdict`: `PaidByVerdict`, for any number of instances and any
  faults. `VerdictInv` says that everything under way agrees with the verdict: the
  list a passed worker has read, the action of a payout worker, the status and the
  money.
* `PayoutIsUnique`: with one instance (`OneInstance`) and faults among
  `BenignFaults` (crashes, failed preparations, dropped and failed transfers,
  failed releases and topics), `PaidOnce`. `PayoutInv` carries the argument of the
  recovery: a transfer that is out is remembered (`Remembered`), by the status, by
  the worker about to set it, or by a last lock that is still "locked"; a message
  in flight keeps that lock from expiring; and a worker that goes on to send has
  found that nothing was sent (`SendsFirst`). Both hypotheses are needed, as the
  table above shows.
* `ImplementsLifecycleTheorem`: under the same hypotheses the refinement of
  `DealLifecycle`. A payout maps to the abstract payment, which is enabled once
  only and for one side: `PayoutInv` gives the first, `VerdictInv` the second.

What each statement on the lock table does to its rows (`InsertLockRow`,
`WriteLockRow`, `ReleaseLockRow`, `ExpireLockRow`) is shown in the proof modules
of both its users, `EscrowSettlementProofs` and `DealPostProofs`.

`DealPostProofs`, for any number of userbot instances, any lengths of hour and
post and any faults. `PostInv` adds to the properties that a row is `NoPost`
exactly if it has no status, and `RowRead`: a checker at work has read a row that
was due and whose end is still that of the row. Without it a verdict written from
an old copy could be early.

* `RowAgreesWithDeal`: `RowMatchesDeal`.
* `PassedInLastHour`: `PassedWithinHour`, by `Judgement` on what a verdict makes
  of the row.
* `RowIsKept`: `RowKept`, an action property.
* `PostedOnceTheorem`: with `OneInstance` and no fault of `Repeating`,
  `PostedOnce`. Between the post and its row only the lock knows of the post, and
  `OnceInv` says so (`Witnessed`): while there is no row, a post in the channel
  means that the last lock is "locked", held by its sender or left by a crashed
  one; whoever finds that lock expired searches, and whoever goes on to post
  knows that there is nothing to find. A lock that expires under its holder
  ("stall") does no harm with one instance. Each fault of `Repeating`
  breaks the property, alone or after a crash, as the table above shows.
* `VerdictTrueTheorem`: without the faults of `Misleading`, `VerdictTrue`, for any
  number of instances and any `MaxDrift`. `VerdictInv` adds to `PassedWithinHour`
  that what a checker saw before it writes is still true, or has become so
  (`CheckerSaw`): messages do not come back, and a post seen at a check was there
  at the time the check was due, which is less than an hour before `until_ts` if
  it is the last. Nothing is assumed of the two readings of the clock. "history"
  breaks the property; after "noid" the row names message 0, of which the property
  would say nothing.

`CatalogueProofs`, for any users, prices, requests and scenes, under
`AmountsAssumption` (the commission is not negative, `Num >= Den`). None of the
four properties is inductive: a handler writes what it read some statements ago.
`CatalogueInv` says of every state of the listing so far, and in `InFlight` of
what each handler carries at each of its statements, what the write will need.

* `PayoutIsThePrice`: `PayoutIsPrice`. The arithmetic is `PayoutOfEscrow`: the
  product with the commission is off by at most half (`RoundBounds`), which the
  division by at least one does not enlarge, and a number within half of an
  integer rounds to it (`RoundUnique`).
* `ChannelListedByAdmin`: `ListedByAdmin`. What a PATCH is about to write was
  merged from a row it read before the check, so `InFlight` follows it: until the
  check it is of the same owner and channel as every state of the listing
  (`SameListing`), at the check its owner is the user who is asked about, and after
  it the row is `Listable`.
* `DealKeepsToOffer`: `DealAsOffered`.
* `ListingIdentityKept`: `OwnerAndChannelKept`, an action property.
* `CooldownIsKept`: `CooldownKept`, for any cooldown and number of refreshes.
  That two accepted refreshes are a cooldown apart is decided by the one time in
  the row, which another's merge could put back. `CooldownRemembered`: the time in
  the row is no earlier than that of any refresh that has written its own, nor is
  the one any handler is about to write; and of two that have not written yet both
  count as `raced`.
* `StatisticsAreKept`: `StatisticsKept`, an action property, from
  `UncrossedIsFresh`: a writer that nobody has crossed since it read holds a
  version no older than the one kept.

The last two need only that fetchers and refreshes have different names
(`NamesAssumption`) and use `ChannelInv`, which is apart from `CatalogueInv`.

`DealChatProofs`, for any number of requests, copies and faults. `ChatInv` says
who may still touch a topic: a row is what one handler created (`RowsAreChats`),
which has answered since (`WriterDone`); nobody else deletes what a handler has
created and not recorded (`CreatedIsThere`); every topic has an owner at each
step of the clean-up (`TopicsOwned`); and while the settling worker deletes the
two topics the row stays the one it read (`SettlerOwnsRow`).

* `OneConversationTheorem`: `OneConversation`, with `LinksFromRow`: until the deal
  ends the row stays, and every link was taken from it.
* `RowHasTopicsTheorem`: `RowHasTopics`.
* `NoStrayTopicTheorem`: `NoStrayTopic`, from `TopicsOwned`.
* `MirroredToPartnerTheorem`: `MirroredToPartner`. What the bot has read and not
  copied yet satisfies it as well (`CopiesPartner`).

`EventStreamProofs`, for any entries, `Limit`, `MinIdle`, poisoned entries and
faults. A batch is described, not computed: the first `Limit` entries in the order
of the stream.

* `NothingForgottenTheorem`: `NothingForgotten`, with `AckedIsDone`: what is about
  to be acknowledged has been handled or given up.
* `RepeatedByFaultOnlyTheorem`: `RepeatedByFaultOnly`. A count of effects alone is
  not inductive. `StreamInv` bounds `Chances(e)`: the effects an entry has had, one
  more for each of the two goroutines that has it still to handle, and one more if
  it can be delivered (unread, or pending and carried by nobody or idle for long).
  Handling, delivering and claiming move a chance from one term to another;
  acknowledging takes one away; only a fault adds one.

`BlockTraversalProofs`, for any number of workers, length of the chain, splits,
merges and faults, and without a hypothesis of their own. Both rest on the shape
of the chain (`ChainInv`), which every block the network builds keeps
(`BuildKeeps`): parents come before their child (`ChainOrdered`), of two blocks of
one shard one lies behind the other, whatever was split and merged in between
(`ShardsAreLines`), the tips cover all there is (`TipsCover`), and two blocks that
share one no split comes after are not on different branches (`LinearAhead`).

* `RecordedIsSentTheorem`: `RecordedIsSent`. A walk records its tip long before
  it has sent what lies behind it. `RecordInv` says where that is meanwhile: sent,
  excused, on the stack, or behind a block still to be looked at. A block under
  which the walk stops lies behind a recorded one of its shard (`KnownIsSent`), and
  with it all that it does not look at.
* `RepeatedBySplitOnlyTheorem`: `RepeatedBySplitOnly`. That a block is not sent
  again depends on two things. Masters come in order (`MastersInOrder`): no tip of
  a master lies behind another or behind what was sent, and what was recorded, or
  sent, lies behind the tips of the next. And the walk meets a block that no split
  comes after at most once (`MetOnce`), and none that lies behind a recorded
  one: a block has two parents only after a merge, and what lies behind both was
  split (`OneParent`); and the only way from a recorded block to one behind it leads
  through a block at which the walk would have stopped (`PushedOnce`).
* `TypeOKTheorem`: `TypeOK`.

Only model-checked: all liveness (`WaitingEnds`, `Judged`,
`Settled`, `EventuallyHandled`, `EventuallyScanned`, `ChatClosed`,
`ChannelSynced`, `RefreshServed`), for TLAPS has no rule for fairness here and
none for `ENABLED`. Every invariant and action property of the runs is proved;
`DepositHonoured` and `FundedIsPosted`, the properties of the findings, are
false. No definition is
recursive.

## 6. Not modelled, and the plan

Next: a composed `Market`, with signing, funding, post and settlement as one
specification that implements `DealLifecycle` from draft to completed.

Left out, and why:

* Analytics: aggregate queries once a day, into rows nothing else reads.
* The rate limiter: it delays calls to Telegram and changes no result of theirs.
* The update state of the userbot but for what a start does to it: storage for
  the update manager, whose protocol belongs to the gotd library.
* Server, router, middleware, tokens and the login: wiring and checks without
  state of their own. The clients of Telegram, Postgres and Redis: I/O; what their
  calls and failures do to the callers is in the models.
* The JSON syntax of prices and details, the fixed list of categories, several
  price options of one listing: a listing offers one option here, and
  `DealSigning` takes what the match accepts as the assumption on `Options`.
* The error of `float64`: amounts are exact fractions here. The program's products
  and quotients are off by a small part of a nanoton for prices far below 2^53
  nanoton (nine million TON), and by more than the rounding mends beyond that.
* An admin's role and rights: stored, and read by no check.
* The web app: presentation.

## 7. Running

`tlc -config X.cfg M` for the module and configuration of a run in
`PROJECT.json`; `tlapm M.tla` for the proofs of `DealSigningProofs`,
`EscrowFundingProofs`, `BlockTraversalProofs`, `DealPostProofs`,
`EscrowSettlementProofs`, `CatalogueProofs`, `DealChatProofs` and
`EventStreamProofs`.
