# Arenaton smart contracts: models, checks and proofs

Arenaton is a betting platform on an EVM chain.  Players stake coins and ATON on
one of the two teams of a sports event; an oracle reports the event's date and
result; winners share the pool in VUND, a token the vault mints against the
stable coins it holds, and fees on payouts and swaps are shared out among the
holders of VUND.  The code is `src/src/*.sol` (Solidity 0.8, checked arithmetic).  NFTs are
drawn with random words of the Chainlink VRF service, whose node (Go) and coordinator contract
are in `src/lib/chainlink`; the part of it that answers requests is modelled too.

This directory holds TLA+ modules of that code, TLC runs of them, and proofs of
invariants that TLAPS checks.  `PROJECT.json` lists components, runs, mutants,
the source lines of every definition, findings, hazards and theorems.

## 1. Inventory

In the contracts every call is a transaction: it runs alone, to the end, or reverts without a
trace.  Concurrency is the interleaving of whole transactions of players,
oracles, the owner and strangers, with time passing in between.  Nothing is
persisted except by the chain, so there are no crashes to recover from.  A
failure is a revert: the call is not made, possibly for ever.  The node that sends the random
words is a program of its own: it reads the chain in several calls while blocks, transactions and
reorganisations happen, its calls may fail, and a crash loses what it holds in memory.

| component | state | operations | calls |
|---|---|---|---|
| `Arenaton.sol`, requests and stakes | `oracleOpenRequests`, `oracleCloseRequests`, `minimumStake` | `stake`, `stakeOracle`, `addOracleCloseRequest`, `fullfillOpenRequest`, `fullfillCloseRequest`, `finalizePlayerEvent`, `setMinimumStake` | Vault, ATON, PVT |
| `Vault.sol`, the book | `events`, `activeEvents`, `players`, `coinList` | `addEvent`, `addStake`, `closeEvent`, `setPlayerFinalizedEvent`, `toggleCoinActiveStatus` | ATON |
| `Arenaton.sol` and `Vault.sol`, payouts | reads the book; writes balances | `_determineEarnings` and what it calls, `addEarningsToPlayer` | ATON, PVT |
| `Vault.sol` over `ERC20.sol`, VUND | balances, supply, `accumulatedCommissionPerToken`, per-account marks, coins held | `transfer`, `donateVUND`, `retrieveCoin`, `swap`, `_mintToRebalance`, `_accumulateCommission`, `_distributeCommission` | the coins |
| `libraries/Tools.sol` | none | conversions between a coin and VUND, string helpers | |
| `SwapController.sol` | amplification coefficient and its ramp | `SwapExecution`, `ramp_A`, `stop_ramp_A`, quotes on a StableSwap curve | Vault |
| `ATON.sol` | balances, burned amount | `burnFrom`, `calculateFactorAton` | |
| `PVT.sol` | NFTs, lists of owned tokens, rolls not yet claimed, powers and their commission | `buyRegularNft`, `buyTreasureChest`, `stakeNFT` (opens chests), `fulfillRandomWords`, `claimNft`, `mintAtovix`, `unStakeNFT`, `fuseNFT` | Vault, ATON, CANVAS, randomness service |
| `CANVAS.sol` | pixels, their painters and counts, the tokens that claim them, the canvas's size and pot | `paintPixel`, `claimPixel`, `removePixels` | PVT |
| VRF V2 listener (Go) with `VRFCoordinatorV2.sol` and the transaction manager | polling window, caches of requests and answers, a round's logs; requests, answers and the balance on the chain; transactions in the node's database | start, poll, one round of processing, enqueue; `requestRandomWords`, `fulfillRandomWords` | PVT's callback |
| `USDC.sol`, `USDT.sol`, `DAI.sol` | balances, last faucet time | faucets of test coins | |
| randomness consumer and mock, interfaces, log events, ERC721 and the rest of `src/lib` | third-party code and declarations | | |

How a stake lives.  `stake` on an event without stakes queues an *open request*.
An oracle answers with date and sport: the event enters the book and the waiting
stake is registered.  While it has not started, further stakes go straight into
the book.  After its start anybody may queue a *close request*; the oracle
answers with the result, and the event leaves the vault's running list.  Each
player then calls `finalizePlayerEvent`, is paid, and the event moves from the
player's active to the closed list.  Every answer also drops requests of both
queues that are more than ten minutes old, whoever made them.

What is hard here, and what correctness asks for:

- **Queues.**  Requests are checked when queued and used when answered, other
  players replace and expire them meanwhile.  A queue holds one request per
  event; a queued close request can still be answered; expiry removes all old
  requests and no other; an expired request does not lock anybody's stake.
- **Book.**  Four lists and three sets of flags tell the same story in different
  places and are written by different calls; a list removal that does not find
  its element reverts, and a revert in a payout locks money.  Totals are sums of
  stakes; a closed event never changes; a stake is settled once.
- **Payouts** are computed one by one, in any order, from totals, two ATON
  factors and rounded percentages; they come from a balance all events share.
- **VUND.**  Commission is paid lazily inside transfers, to sender and recipient,
  before the balances move, and silently not at all if the vault is short;
  swaps rebalance the supply by minting and burning at the vault.
- **Randomness** in PVT arrives in a later transaction, in any order, and meets
  rolls not yet claimed; a chest is opened once and an answer claimed once.  Lists of
  tokens are kept apart from their ownership, and powers apart from both.
- **The service behind it** must answer every request, also after a reorganisation, a crash or a
  dry subscription, and must not answer twice; balance, reserved money, commitments and
  simulations are read at different moments.
- **Canvas.**  Counts of painted pixels are kept apart from the pixels and lowered in checked
  arithmetic; growth resets a pot at a boundary that doubles.
- **Ramps** in SwapController are read, stopped and replaced while they run; the owner
  must not be able to move the coefficient in a moment, nor fast by a chain of ramps.
- **Tokens outside the list** are not refused by stakes and swaps, and have the entry of VUND, or none; totals, supply,
  claims and pools must stay in order through them.
- **Prices** come from an integer iteration with roundings, divide by every balance, and
  must not pay out more than came in.

The complete list, with lines and properties, is `hazards` in `PROJECT.json`.

## 2. Modules

| module | models | state and actions |
|---|---|---|
| `Tools` | coin conversion | pure operators: `CoinToVUND`, `VUNDToCoin`, with the rounding of coins that have more decimals than VUND |
| `SwapPop` | the swap-with-last-and-pop removal used on all six lists | pure operators on sequences |
| `Arenaton` | request queues, book, collection | section 2.1 |
| `CleanRequests` | the clean-up loop on the array | one turn of the loop per step |
| `Bets` | abstract: an event takes bets until it starts, gets one result, settles every bet once at most | implemented by `Arenaton` |
| `Purge` | abstract: a set loses its leavers, one by one | implemented by `CleanRequests` |
| `EventPayout` | what one event pays, to the unit | section 2.2 |
| `Escrow` | abstract: a pot pays every staker once and is never overdrawn | implemented by `EventPayout` |
| `VundLedger` | VUND, commission, coins, swaps | section 2.3 |
| `StableCurve` | the iteration for the invariant of the StableSwap curve | pure operators; section 2.4 |
| `SwapController` | the ramp and the swaps between coins | section 2.4 |
| `Pvt` | NFTs, random answers, powers | section 2.5 |
| `Canvas` | the pixel canvas | section 2.6 |
| `VrfListener` | the randomness service: chain, coordinator, node | section 2.7 |
| `MCArenaton`, `MCEventPayout`, `MCVundLedger`, `MCSwapController`, `MCCanvas`, `MCVrfListener` | constant values for TLC | |
| `DataLemmas` | lemmas on list removal, sums, divisions and loops | section 4 |
| `ArenatonProofs`, `TransactionProofs`, `VundLedgerProofs`, `SwapControllerProofs`, `PvtProofs`, `CanvasProofs`, `VrfListenerProofs` | theorems | section 4 |

`VrfListener` and `Pvt` meet at one point: an answer of the first is `FulfillRandomWords` of the
second, which takes answers in any order and at any time.  That is more than the service does, so
what holds of `Pvt` holds beside it.

### 2.1 Arenaton

One action per external call, each with everything it calls in `Vault.sol`; the
guards are the `require`s of the whole chain of calls, because any of them
undoes all of it.  `StakeOn` is `stake` on a known event, `RequestOpen` is `stake`
on an unknown one, `FulfillOpenRequest` is the answer with `addEvent`,
`addStake` and the clean-up in one step, and so on.

- A request queue is a *set* of records.  The code looks for a request by its
  event and never by place; `CleanRequests` checks that removal and clean-up on
  the array do to its elements what the set operations say.
- A mapping from addresses to flags is the set of flagged addresses.
- `stake` names any team number: `BadTeam` stands for all that are not 1 or 2, and
  a bad opening request is queued and never answered, as in the code.
- `populateEvent` writes some fields and leaves stakes, totals and flags as they are.
  That is kept: `ClosedEventIsFrozen` depends on `addEvent` refusing known events.
- Transfers out of wallets, roles and ATON balances can only make a call revert;
  since no action but those named under fairness must ever happen, a revert is a
  behaviour of the model already.  A deposit that has been made is not undone by
  anything, so it needs no state here.
- ATON is counted at its worth in VUND: the cap of `_newStake` compares those two.
- The five-minute cut-off in `_newStake` reads `overtime` from a record in which
  `_getEventDTO` (Vault.sol:349) always writes `false`: it never applies, and
  the model has none.
- Nothing checks that the coin of a stake is in `coinList`: any other address has the entry of VUND.  Such a
  stake is registered here as one in VUND is; what it does to the supply is in `VundLedger`.
- `now` is `block.timestamp` in coarse units; `TenMinutes` is the age limit in
  these units.  Requests compare with `<`, as the code does.

`Bets` is what those who bet see of all this, without requests, coins, lists and levels.  The map between them,
`Book`, reads the phase of an event off its record and the clock: open before any stake and until the
start date, decided once it is in the book and no longer runs.  A tick is then `Start`, for several events at once maybe;
a queued, replaced or expired request is a stutter; so are `addEvent` and the first stake, together one
`Bet`.

Bounds: `MaxTime` stops the clock, `MaxStakes` the stakes of one event.

### 2.2 EventPayout

The event starts with any stakes it may hold at its start date: which those are is
the matter of `Arenaton`, and `Held` keeps the cap on ATON (stakes an oracle
places, which have no cap, and the NFT bonus are not among them).  `Close` stores the result
and the factor, `FinalizePlayerEvent` is a player's collection with share, earnings,
fee and waiver in integer arithmetic with the code's percentages (`pct_denom` is 10^7,
the fee 2 %).  `Burn` lets the ATON factor rise at any time, since other events burn
ATON all the time; the code's curve lies between 10000 and 185816 and beyond.  `PoolIsEscrow`, the
refinement of `Escrow`, asks for an idle factor in the state a step leads to, `AtRest'`, and for no
tie.  The factor is idle if it is what it was at closing, or if nobody staked ATON (`FactorIsIdle`).  ATON rewards and NFT bonuses are not in it.  `shares` is a history variable.

### 2.3 VundLedger

`ledger` holds what transfers write: balances, marks, and a history of commission
received.  `Distributed`, `Settled`, `Transferred` are `_distributeCommission` and
`_transfer` as functions of the ledger, so that their order within one transaction is
the code's.  A stake in a coin mints to the vault without settling (a stake in VUND is a
transfer to the vault); a payout goes
through the same `_transfer` and turns its fee into commission; a swap
accumulates the commission before `_mintToRebalance` mints or burns.  The book is not in it: a payout
is any amount the vault can transfer.  The amount the StableSwap curve returns is any amount.

Tokens outside `coinList` are not refused anywhere.  `coinIndex` of an unknown address is 0, and the first entry of the
list is VUND, at the vault's own address.  A stake in such a token therefore mints its face amount
(`StakeOther`), with no coin of the list behind it, and in a swap VUND moves in its place: into the vault for a coin
(`SwapToCoin`, which is also a swap of VUND itself), out of it for a coin (`SwapToOther`), or both ways (`SwapOthers`).  `unbacked`,
a history variable, is what was minted in this way since the supply was last set to the worth of the coins, which every
swap does.  `SupplyIsBacked` says that nothing else leads the supply beyond the coins: no rounding, no stake, no payout, no
swap, one that names such a token included.  `ONE` (10^18) and
`pct_denom` are 2 in the runs, so that the roundings happen.

`Vault.sol` overrides `_transfer`, which is not `virtual` in
`libraries/ERC20/ERC20.sol`; the compiler would refuse that as committed.  The model
follows the override as written.

Bounds: `MaxWorth` for the coins in the vault, `MaxUnbacked` for what is minted for tokens outside the list, `MaxCommission`
for the commission ever accumulated.

### 2.4 SwapController

`RampA` and `StopRampA` are the owner's calls, with the two conditions on time and the one
on the change; `CurrentAt` is the interpolation `_A()` with its rounding.  `trail`, a
history variable, is the coefficient at every time so far, so that an invariant can compare
two of them.  `SwapExecution` is a swap between coins: the coefficient is brought up to date,
the curve solved before and after, the growth capped and rounded into the
coin that leaves, the premium chosen by the distance of the two balances, slippage checked,
and the coins moved as in `Vault.swap`.  `SwapVUND` is a swap out of VUND, without curve and premium.
What both do to VUND is in `VundLedger`.

`Other` is a token that is not in `coinList`.  `_getCoinIndexes` refuses none: it leaves the place 0, that of the first
coin, and an empty `Coin` (`Index`, `InfoOf`), so that its unit is priced as a whole VUND, while `Vault.swap` moves a unit of VUND
for it.  A swap of such a token for a coin leaves the pool with less, by any measure; the cap of `_calculateOutputAmount`
is on that price and does not help.  `WorthIsKept` is therefore about swaps from one coin of the list to another; `RateIsBounded`,
`OnlyTimeMovesA` and `CurveIsSolved` are about all steps, and the pool stays priced through those too.

`StableCurve.D` is `_getDWithBalances` turn by turn, with its early end.  `ExactD`, for two coins, is
what it should find, stated by an inequality without a division.  `CurveIsSolved` has three parts: no coin is
empty in VUND (`PoolIsPriced`), `D` is positive and at most one part in `ann - 1` above the sum (`DIsSound`), and it is
one unit from `ExactD` at most.

Balances are units of the coins, two kinds of decimals.  Percentages are in tenths (`pct_denom` = 10,
premiums 1 and 3), so that premium, cap and their roundings differ on small amounts.
The clock starts one `MIN_RAMP_TIME` after zero, as it does on any chain.

### 2.5 Pvt

`Ask` is a request for random words, `FulfillRandomWords` any answer to an open one, in any order,
and `ClaimNft` mints what the player's stored roll says.  `lists` holds
`_ownedTokens` and `_ownedTokensIndex`, written by `Added` and `Removed` as the code does by hand;
`shares` holds powers, commission and marks; `purse` what purchases brought to the contract.

What is reachable is less than what is written:

- staking anything but a chest sends the token to the contract with `safeTransferFrom`; the
  contract has no `onERC721Received`, so the call reverts.  Nothing is ever staked, charged
  or fused, and there are no actions for it.
- `transferFrom` of the OpenZeppelin library moves the owner through `_update` and not through
  `_transfer`, which PVT overrides: lists, powers and Atovix counts stay.  (`_transfer` is not
  `virtual` there and the compiler would refuse the override; the model follows it for the calls
  the contract itself makes, as in 2.3.)
- the tables of categories are compared with a roll cut to the length of the table (32 and 4), so
  regular NFTs are of the first two sports, and chests hold a ticket.  `Place` keeps that; no player
  gets an Atovix out of a chest, only the owner mints them.

A player's luck lowers a roll that already finds the first entry, and is left out; qualities are.

### 2.6 Canvas

`PaintPixel` is the whole of `paintPixel`: both coordinates against the size (the pixel at the edge is
accepted too, as in the code), a new colour, the count of the painter before lowered and this one's
raised, and `_growCanvas`.  `ClaimPixel` is by anybody, for any token: the code asks neither who
owns the token nor whether it exists, only whether its quality is above that of the token that holds the
pixel, and a token may hold several pixels while only its last coordinates are kept.
`RemovePixels` frees the pixel at the coordinates of each fused token.  The qualities
are `PVT.sol`'s; `Mint` gives a token one.

What the code cannot reach as committed has no action: painting a claimed pixel calls
`setQuality`, which `PVT.sol` does not have; the times of painting and the daily counts are read
and never written, so the rewards that depend on them stay zero.

### 2.7 VrfListener

One variable `step` says where the listener's loop is.  `Start` and `Initialize` are the start
of the job: the counts of transactions a request already has are read from the
database, the window begins at the first request that has no final answer.  `Poll` reads the logs of the
window, counts answers that are new to the cache (an answer undone and given again doubles
the confirmations the request must wait for), and takes the confirmed requests that are not in
flight.  A round is then five calls, each an action of its own, because the chain moves between them:
`ReadBalance`, `SubtractReserved` (the money of transactions on their way), `Check` (too
old, or answered), `Simulate`, and `Process` for one log after the other, which enqueues a
transaction, drops the log, leaves it for a later round, or ends the round for lack of money.  What a simulation returns decides:
a stale proof is done with; a block hash that is gone is left; a failure is left too, unless the consumer has no code and the
block of the request is older than `FinalityDepth`, when the log is dropped (`InvalidConsumer`).  A failed request needs only an estimate
of its cost, anything from nothing (when that fails too) to `MaxFee`.  `EnqueueFails` is the error of the database transaction:
`CreateTransaction` is not part of it, so the fulfilment may be there or not, and the log is left for a later round.  `FinishRound` puts what
was processed in flight; `Update` moves the window.  `ReadFails` and `UpdateFails` are the error
returns that leave a round unfinished or a window unmoved.

The chain is `NewBlock` (with requests), `Mine` (an answer that fulfils its request or reverts: wrong
block, answered already, its hash gone after `HashWindow` blocks, a consumer without code, no money), `Reorg`, `TopUp`, `Spend` (an answer for another key of the
subscription), `GrowOld` (the request timeout passes).  A block is a number and the number of
reorganisations before it; the second stands for its hash, which is the key of the caches and
what a proof is made of.  A reorganisation builds on blocks the chain has, or on the branch that the last
one replaced, whose blocks come back with the same hashes, and with the requests, answers and transactions mined in them
(`Branch`, `replaced`).  `Broadcast` is the transmit checker, which looks the commitment up before
a transaction is first sent and drops it for good if it is gone.

Simplifications.  One key and one subscription; no batches, native payment or cancelled subscriptions.
Caches are not pruned (the code prunes them after 100, 1000 and 10000 blocks).  The log poller and
the node are in step with the chain, and receipts are seen at once.  A failing poll, and a failing call in
`Check`, only repeat the loop and are stuttering.  A block holds one transaction of the
node.  A reorganisation always leads to a longer branch, does not reach final blocks, and sends the node's
transactions that are not on the new branch back to be sent again.  Of all branches replaced only the last one may come
back, and after `MaxReorgs` reorganisations it may do so once more.  `MaxFaults` bounds crashes, failures to enqueue and requests too old together; that a request is
too old and the node crashes as well is left to the theorems.  When a request is too old is a free choice, and so is which
consumers have no code; they keep it or lack it throughout.  Nobody feeds the contract's store of older block hashes.  The last
block, `MaxHead`, stands for all later ones; requests and reorganisations keep enough distance from
it that every confirmation falls within the bound.

Four exits remain, and the properties name each:

- an answer that reverted for lack of money is not tried again in the same life of the node (`Reverted`);
- a request whose consumer has no code is dropped, once its block is final (`InvalidConsumer`);
- a log done with because the chain was on another branch stays hidden when its own branch comes back (`returned`), where the
  comment at listener_v2_log_processor.go 736-737 expects that "we will eventually process the request with the right blockhash";
- a request that waited until its block's hash is gone cannot be answered, by the contract or anybody (`HashIsKept`); it is
  not hidden, and the listener goes on trying.

Each of the four is needed: without any one of them TLC finds a behaviour that violates `InflightIsLive` or
`EveryRequestEnds`.

## 3. Runs

| run | question | bounds |
|---|---|---|
| `ArenatonOneEvent` | do totals and lists agree with the stakes, can an opening stake wait for a known event? | 1 event, 3 players, 3 stakes, VUND and a coin whose amounts round down to 0 or 1, ATON, a bonus |
| `ArenatonTwoEvents` | do queues, running list, counters survive the interleaving of two events, and is it all no more than bets taken, decided and settled once? | 2 events, 2 players, 2 stakes each |
| `ArenatonLiveness` | is every stake settled? | 2 events, 1 player; requests expire at the next tick |
| `CleanRequests` | does the loop do what the set operations say, and end? | all arrays of up to 4 requests, all sets of expired ones |
| `EventPayout` | is the pool an escrow while the factor is idle, is the fee waived, are stakes without ATON paid alike while it moves? | 3 players, every distribution of 0, 20, 60 VUND and 0, 10000, 20000 ATON, factors 10000, 15000, 30000, every result |
| `VundLedger` | balances, marks and claims; is the supply covered by the coins and what was minted for tokens outside the list, is a claim erased only when the vault is short? | owner, one other holder, vault; a coin of fewer and one of more decimals, a token outside the list; worth 3, unbacked 1, commission 2 |
| `SwapController` | does the coefficient move slowly and with time only, is the curve solved, is the pool kept? | 2 coins of different decimals and a token outside the list, priced at 2 for a unit, balances from 4 or 12 up to 14, amounts 6 and 10, `MIN_RAMP_TIME` 2, time up to 6, targets 0, 1, 100, 500 |
| `Pvt` | powers, lists, answers, own commission | the owner and a player, 3 tokens, 3 requests, both ends of the rolls |
| `Canvas` | do counts agree with pixels, does every paint count once towards growth? | 2 painters, 3 pixels (inside, at the edge, outside until a growth), 2 colours, 3 tokens, `baseRequirement` 2, 7 paints: two growths and one paint |
| `VrfListener` | is every request found, answered, and by no more transactions than lives of the node and failures explain? | 1 request, whose consumer may have no code, 1 reorganisation and the return of what it replaced, 1 crash, failure to enqueue or timeout of the request, one top-up that pays for one answer, one other spending, finality after 3 blocks, hashes kept for 4, blocks up to 6 |

Why these are enough to mean something.  Three players make every case of a list
removal (first, middle, last) and of a share (alone, two on a side, all on one
side).  Two events are what removal from the running list and the exclusion by
event need.  Four time units hold a request, its expiry, an event's start, a
repeated request and the answer.  Coins with a factor of two have every kind of
rounding a factor of 10^12 has: a remainder or none.  In the ledger, transfers settle the two
parties, the vault and the owner, and two holders and the vault make every coincidence of these
(to oneself, to and from the vault, the owner's own claim); the finding on it has a run of its own.
The bounds on time, stakes and
worth cut behaviours off by disabling steps, so these runs do not look for deadlock
(`CHECK_DEADLOCK FALSE`): the clock stops, and everything may have been settled.
`CleanRequests` stops at the end of its transaction.

Three periods of `MIN_RAMP_TIME` hold a ramp, one that replaces it and what a chain of both adds up to;
the targets are the first refused, the lowest, the highest the first ramp may ask for with a start at
10, and one only a second ramp may.  Balances of 4 and 12 make a pool in balance and one out of
it; amounts of 6 and 10 against them reach the cap, the lower and the higher premium, and the floor.
Seven paints pass the boundaries at 2 and 4 more, and leave one after the second.  In `VrfListener` one
request has every relation to a reorganisation (below it, in it, gone), to an answer (none, on its
way, mined, undone, reverted, back with its branch), to a crash or a failed call at every step of the loop, to the
ages at which its block is final and at which its hash is gone, and to a balance that is enough, spent in between, or topped up later; relations between requests (two that compete
for one balance) need two, with which the state space of the full loop is beyond this run, and
are covered by the theorems as far as the three invariants go.
Three tokens are the first, a middle and the last of a list, or two chests and an Atovix; three requests are two
answers that meet and one of the other kind.

Symmetry is used on players, events, painters and tokens in runs without liveness.  The owner is no part
of the symmetry.

Every property of a passing run has a mutant in `PROJECT.json`: a plausible bug in
the code under which TLC finds it violated.  Types are stated in every module (`TypeOK`) and
proved or kept by the runs where something depends on them; where a type says nothing the
properties do not, the run leaves it out.

### Fairness

`ArenatonLiveness` assumes, and the code's use justifies: time passes; for a started
event *somebody* asks for the result again and again (anybody may, and the players'
stakes depend on it); the oracle answers a close request that stays queued or
comes back; and every player collects.  Nothing is assumed of opening answers, stakes, owner
calls.  All are weak fairness; requests expire only through answers, and there
are finitely many of those, so weak fairness suffices.  `CleanRequests` has weak
fairness of its next step: a transaction runs to its end.

`VrfListener`, for `EveryRequestEnds`: weak fairness of the listener's loop (a ticker drives it),
of new blocks, of the sending and mining of enqueued transactions (the transaction manager retries and
raises the gas price), and strong fairness of `ReadBalance` and `Simulate({})`: these calls compete with their own
failure, which may happen again and again but not always.  Crashes, reorganisations, money and age have none.

### Disagreements met on the way

Each is a run with `expect: violation`; `findings` quotes the lines.

| run | what happens |
|---|---|
| `EventPayoutTie` | after a tie both teams' shares are paid of the whole pool |
| `VundLedgerPaidTotal` | an account that was empty while commission accumulated claims some of it later |

Seen in the code and not made a run of their own:

- a claim of commission that the vault cannot pay at the moment is erased (Vault.sol:1023-1025, 1078-1082):
  the silent transfer pays nothing, the mark moves, while Vault.sol:1060 says both sides get their share.
  `ClaimsErasedOnlyWhenShort` says that this is the only way a claim is lost;
- `lossCount` counts ties and cancellations and no loss (Vault.sol:753), where AStructs.sol:162 has
  "the number of events the player has lost";
- -1, documented as a tie (Vault.sol:554), closes an event without a result (Vault.sol:567): its stakes
  can then never be settled;
- a slippage tolerance of 0 turns the check off (SwapController.sol:351), where the comment at 338 says
  that no slippage is tolerated;
- the floor of 1000000 called "a minimum of 1 VUND" (SwapController.sol:250) is a part in 10^12 of one;
- `getAmountsOut` quotes with the coefficient of the last swap, not the current one;
- a second random answer overwrites a roll that was not claimed (PVT.sol:305), and the NFT is
  lost; the comment at PVT.sol:83 says that results pile up;
- a chest sent on with `transferFrom` stays in the old owner's list: opening it reverts, or removes another
  token from the new owner's list, which is why `ListsAgreeUnlessChestsMove` has its condition;
- a commission of zero leaves the account's mark (PVT.sol:974-981), so an owner who
  gains power by a second Atovix claims commission from before it; later distributions may find
  too little and revert, which is why `OwnCommissionIsFunded` has its condition;
- everybody who stakes on the first team before the second has a stake is marked
  `isOpenEvent` (Arenaton.sol:505), where AStructs.sol:133 has one opener;
- AStructs.sol:130 gives the results as 0 and 1, the code compares them with 1 and 2;
- the comment on `_cleanOracleRequests` (Arenaton.sol:437) says that it empties the
  queues; it keeps requests of the last ten minutes;
- a player's own ATON is converted at the factor of the moment of collection and the
  team's at the factor of closing (Arenaton.sol:1183, Vault.sol:583): with a grown factor the
  shares of one team exceed the whole (`SharesWithinTheWhole` fails there without a tie too);
- a player's stake stands twice in the denominator of the share (Arenaton.sol:1075), so
  that part of most pools is never paid out;
- nothing on the way of a stake checks that its coin is supported (Arenaton.sol:489-510, Vault.sol:241-261, 482-488): any other
  token is booked as VUND is, and VUND is minted for it until a swap sets the supply back at the expense of the vault's balance;
- a swap that names a token outside `coinList` is priced with decimals of zero (SwapController.sol:99-118), charged or paid in VUND
  (Vault.sol:938-966), and not covered by the cap which the comment at SwapController.sol:245 calls "100.01% of the input";
- a failed request of a consumer without code, once final, and a log whose block was replaced and came back are never answered
  before a restart, and an enqueuing reported as failed may have left its transaction behind (2.7);
- the listener reads the balance before it subtracts what its transactions on their way will cost: one that is
  mined in between has lowered neither number, so the same money is promised twice, against the comment
  at listener_v2_log_processor.go 99-100.  It takes three requests, or two and a reorganisation, which is more
  than the run holds; the second answer then reverts;
- an answer that reverts because the subscription ran dry is in flight and not tried again before
  a restart (`Reverted` in `InflightIsLive`), though the comment at listener_v2_log_processor.go 109-110 says
  that requests without money are retried;
- `numReplayBlocks` lists chain ids in a Go `switch` as if cases fell through: all but the
  last of each group return the request timeout in seconds as a number of blocks;
- the subtractions `latestHead - 5` and `- 10000` are of unsigned numbers and wrap on a
  chain shorter than that; the model, where heads start at zero, takes them as integers.

`PoolIsEscrow` therefore states what does hold: without a tie and with the factor at rest.
`StakesAreSettled` is checked for results the oracle should report, not for -1.

## 4. Proofs

Eight modules hold theorems, each for every value of the constants its assumption allows.  `DataLemmas` is for
the others: lists, sums, divisions and loops, nothing of Arenaton.

| module | theorems about | inductive invariant |
|---|---|---|
| `ArenatonProofs` | the book, queues, counters, totals | `IInv`; `OpensInv`, `CountersInv`, `TotalsInv`, `AskedInPast`, `DecidedHasResult` beside it |
| `TransactionProofs` | the loop of one transaction, the payouts of one event | `LoopInv`, `InReach`; `PayoutInv` |
| `VundLedgerProofs` | VUND, commission, backing | `LedgerInv`, with `GoodStep` of every step |
| `SwapControllerProofs` | the ramp, the swaps, the curve of a pool | `RampInv`, `RateInv`; `HeldInv`, `PoolIsPriced` |
| `PvtProofs` | answers, chests, lists, powers, commission | `IInv`; `CommissionInv` |
| `CanvasProofs` | painters and growth | `IInv` |
| `VrfListenerProofs` | the listener | ten parts |

The assumptions are those the modules declare for TLC too, which evaluates them in every run.  Theorems about
sums add that players (or coins, or events) are finitely many, which is so on any chain.

### Lists, sums, divisions, loops

`SwapPopRemoves`: on a sequence without repetitions that holds x, `SwapPop` returns one without repetitions that
holds everything but x, by way of the positions of the elements (`SwapPopAtRemoves`).

A sum over a set is a fold, which the library defines by a recursive function on subsets, and
induction theorems with an operator as parameter are of no use to the provers here.  The lemmas
therefore take the least counterexample: `LeastNatural` comes from the library's theorem on least elements of well-founded
relations, whose parameters are sets, and `SumExists`, `SumIsUnique` say that on a finite
set there is exactly one function which sums subsets by taking away the chosen element.  From
`SumRemove` (any element may be taken away, not only the chosen one) follow a sum that changes at one
place (`SumChange`), grows by one term (`SumAdd`), is cut by a condition (`SumMasked`), is linear (`SumLinear`,
`SumScaled`), or runs over a part (`SumOfPart`).

`DivBounds`, `DivAtMost`, `DivGrows`, `TimesGrows`, `TimesShrinks` state rounded divisions and
products as inequalities, the form in which the solver finds them.  Where a product of unknowns
is left, the proofs name its factors first and multiply inequalities one at a time.

A loop of bounded length is a recursive function on `0..n`.  The lemma `LoopExists` says that its values at every turn exist,
again by the least turn without one, so that what each turn keeps can be said of the last.

### The book

`ArenatonProofs`, for every set of events, players, sports and coins, every amount and
every bound: `Spec => []P` for P each of `TypeOK`, `RequestsAreExclusive`,
`CloseRequestsAreAnswerable`, `ActiveEventsMatchFlags`, `FinalizedMeansDecided`
and `ListsAgree`.  The only assumption is `ConstantsAssumption`, declared in `Arenaton`: amounts are
naturals, coins have a positive scale, sports are positive.

None of the six is inductive alone.  The inductive invariant `IInv` is their
conjunction with `UnusedEventsAreBlank` (an event without stakes has no players,
stakes, or flags), and each part needs others:

- a close request is answerable when it is queued because the event is active, and
  active events are undecided and listed (`ActiveEventsMatchFlags`); it stays so
  because only its own answer closes the event, and that answer removes the only
  request (`RequestsAreExclusive`);
- the running list stays free of repetitions because `addEvent` appends an event
  that is not active, hence not listed;
- `TypeOK` needs `ListsAgree`: a removal from a list keeps its type only if the
  element is found;
- `ListsAgree` through `addEvent` needs `UnusedEventsAreBlank`: nothing resets the player
  list of an event that enters the book;
- a finalised stake's event cannot come back (`FinalizedMeansDecided`), or its
  stake would be on neither list.

There is one lemma per group of actions (`StakeKeepsBook` is shared by the three that stake), and
one step per action in the last one.

Under the same assumption: `StakesGrowBeforeStart`,
`ClosedEventIsFrozen` and `FinalizedOnce`.  The lemma `StepShape` says that from a state in `IInv`
a step leaves the book alone, registers a stake on an event that runs or enters the book
(`Registers`), closes a running event (`Closes`), or is `Finalize`; each theorem then has four cases.
`IInv` is needed twice: an event that enters the book was not in it, so no
closed event is written again, and the record that is written has the type that lets its
fields be told apart.

`BookIsBets` says that `Arenaton` implements `Bets`.  It takes the same four cases: a step that leaves the book alone
is a stutter or, if it is a tick, at most `Start` (`RestIsStart`); registering is `Bet`, closing `Decide`,
finalising `Settle`.  That closing finds its event started needs one more invariant, `AskedInPast`: a close
request was queued for an event that had started then, and was not queued in the future.  The theorem contains
`FinalizedMeansDecided` and `StakesOnlyGrow` as seen from outside; both are still proved of the book itself.

`NoStakeIsStuck` is what `StakesAreSettled` needs of the code: in every reachable state, for every stake not settled,
the event has not started, or the checks of `addOracleCloseRequest`, of `fullfillCloseRequest` or of
`finalizePlayerEvent` all hold for it.  So waiting and those three calls are always enough, after any order
of stakes, expiries and settlements of others; that they are made is the fairness TLC assumes.  It follows from `IInv` and
`DecidedHasResult`: an event of the book that no longer runs has a result.  The assumption `NoResult \notin Winners` is
about the oracle and not idle: see -1 in section 3.

Three theorems need a part of their own beside `IInv`.  `OpenRequestsStayNew`: no opening stake waits
for a known event, if no minimum stake is zero (the theorem's assumption; with a zero it is false, the code takes
an event whose totals are zero for an unknown one).  `OpensInv` says that an event of the book has a
worth, and every queued request has one and is for an unknown event; the answer to one
cannot contradict another because queues are exclusive.  `CountersAgree`, for a finite set of events: the
counters are the numbers of settled events of each kind.  `CountersInv` adds that events of the book have a
sport, as a sport of zero would be counted twice, and the sets of settled events
change with `Finalize` only because a stake is registered only where nothing is settled.
`TotalsAreSums`, for finitely many players: an event's totals are the sums of its stakes.  `TotalsInv` is the
property itself, but its step rests on `IInv`: a stake adds to the side of the player's first one, so
that each total's sum changes at one place or none, and a blank event starts from sums of zeros.

### One transaction, one event

`TransactionProofs`, for arrays of any length (the only assumption is that `MaxLength` is a
natural number): `LoopTypeOK`, `OnlyLeaversLeave`, `EndsClean`, and that the loop implements `Purge` step by step
(`QueueIsPurged`).  The inductive invariant adds to these what stays behind the index
(`NothingExpiredBehind`) and which request is still to be answered (`Progress`).  The
fairness in `RefinesPurge`, and `Terminates`, stay with TLC, but not what is hard about it: `WalkTakesItsTurns` counts the
turns left, from the place of the index and the length of the array, and says that every step takes one of them
and that none is left exactly at the end.  A removal, after which the loop looks at the same place again, shortens the array instead.

For the payouts of an event, with any finite set of players, any amounts, factors and fees: `TypeOK`,
`PureStakesArePaidAlike`, `FeeSparesTheStake`, and the refinement of `Escrow`, step by step
(`PayoutsAreEscrowed`: `Spec => Pool!Init /\ PoolIsEscrow`).  `PayoutInv` has four parts: types; the order of things
(nothing is paid before the result, and only for a stake); what a settled stake without ATON was paid can
be computed again from the closed event at any time (`PurePaid`), which gives equal payments at once; and with the
factor idle, what has left the pool is the sum of the earnings of those settled (`EarnedOut`).  That the
pool is then enough is arithmetic over all players: the shares of one side add up to `pct_denom` or
less although each is rounded (`SharesAddUp`, from `EffectiveAddsUp`: the stakes' weights add up to the
totals they are divided by), so all earnings together are no more than the pool (`PoolIsEnough`), and a sum over
those settled no more than that over all (`SumOfPart`).

The same sums give a bound where the escrow does not hold: after a tie the players of both sides take shares of the
whole pool, and `PoolIsNeverOverdrawn` says that this costs the vault at most the pool once more.

### VUND

`VundLedgerProofs`, from `LedgerAssumption`, for finitely many players and coins: `TypeOK`, `SupplyIsBalances`,
`SupplyIsBacked`, `NoMarkAhead`, `ClaimsAreKept`, `ClaimsArePaidOnce`, `ClaimsErasedOnlyWhenShort`.  `LedgerInv`: the counters are naturals, no
mark is ahead, the supply is the sum of the balances and at most the worth of the coins and `unbacked`.  The parts hold
each other: that a swap mints at all is decided by the supply against the worth, a burn must find the balance it
burns, and a claim is a natural number only behind its mark.

A transfer is a chain: claims of the sender, the recipient and the owner, each of which is a move of its own from the
vault, then the amount.  A lemma per link says what it does to the sum, the marks and the claims, whichever of the accounts are
the same; `GoodStep` is what the links of one transaction amount to, and is proved for every action
(`EveryStep`).  The action properties compare a state with the next and read `GoodStep` rather than `LedgerInv`.
`ClaimsErasedOnlyWhenShort` has to look into the chain: what the vault held when a claim's turn came is neither in the state
before nor in the one after, and is bounded by the balance before less what the other links have taken out (`ErasedShort`,
`SettledBoth`).

### Swaps and ramps

`SwapControllerProofs`, from `SwapAssumption`, has five theorems.

`OnlyTimeMovesA`: a ramp or its end leaves the coefficient where it is because interpolation at the moment a
ramp begins gives its initial value (`StartsWhereItIs`), which needs the ramp to begin in
the past or now, and the coefficients to be integers: `RampInv`.  A swap writes none of what
`CurrentAt` reads.

`RateIsBounded`, for any length of a day, any coefficients and any chain of ramps, cut short or not.  It speaks of any two
moments within a day, which may lie in two ramps, and is inductive only with three parts more: the
ramp in progress is one the guards admit, or goes nowhere (`RampIsGood`); the trail since its start is what it
interpolates (`TrailFollows`); and over the day before its start the coefficient moved slowly, seen from
its initial value (`StartedSlowly`).  The last is the heart: a ramp can begin only a day after the last one
began, so the day before it lies in one ramp.  Between two moments of one ramp, and between a
moment before a start and one after, the bound follows from linear ones in the time passed (`GrowsSlowly` and `ShrinksSlowly` of one interpolation, `NotFarAbove`
and `NotFarBelow` of two values of the trail); the interpolation rounds down, which is where the one
unit in the statement comes from.

`WorthIsKept`, whatever the curve answers, for swaps from one coin of the list to another (a swap that names another token
moves one coin at most, 2.4).  The output is capped at what came in and a premium on it, a premium
is charged on the output, and `PremiumCoversCap` shows that the second makes up for the first, all
four roundings included.  It needs the capping premium to be the smaller one, as the
code's constants are (1000 and 5000, SwapController.sol 49-50), now part of `SwapAssumption`.  The
property as it first stood allowed one unit of the coin that leaves and could not be proved: a unit of a coin of more decimals than
VUND is worth no whole unit of VUND, and the strict inequality fails by equality.  The coins and amounts of the run did not
show it.  The property now names the greater of the two units.  `TypeOK` follows with `HeldInv`.

`PoolsStayPriced` is the part of `CurveIsSolved` that needs no induction over the turns: `PoolIsPriced` and `DIsSound`,
for any number of coins from two on, any decimals, and any ramps and swaps.  No coin is emptied because a swap must leave one unit of VUND
of the coin that leaves (`StaysQuotable`), which is worth something in VUND if the coin's scale is no more than `ONE`; that,
and a pool none of whose coins starts empty, is the theorem's assumption `PoolStartsPriced`.  A curve's `D` is a recursive function; `IsLoop` and
`LoopExists` of `DataLemmas` say that one exists and obeys its equation, and `Turn` is bounded by a property that
each turn keeps (`D` at most one part in `ann - 1` above the sum), whatever the turns come to.

### NFTs

`PvtProofs`, from `PvtAssumption`, for any players, tokens, rolls and orders of answers: `AnswersBoundClaims`,
`ChestsAreConsumed`.  `TypeInv` is the part of the types they need, with the fact that a
token not yet minted is no one's.  A claim takes the roll that an answer left, so claims and a
roll are at most the answers.  Every opening sends a chest to the contract in the same
step, the contract never sends one away, and a token minted later takes no number in use.

`ListsAgreeUnlessChestsMove`: `ListsInv` says, as long as no chest moved, that the lists are tidy (every token stands at
its stored index, none is in two lists or in one before it is minted) and that each token not sent
on is listed with its owner.  Tidiness is what an addition and a removal keep (`AddedKeeps` and its
counterpart), also on a removal of a token that was sent on, whose old list still has it.

`PowersAgree`, for finitely many players: the total is a sum that grows at one place; a player's power is
that of its Atovix, the contract's that of the opened chests (`PowersInv`).
`OwnCommissionIsFunded`: divisions round down at the payment and at the accumulation, and the contract's power grows
in between.  `FundedInv` keeps `power * pending < (purse + 1) * ONE` while the contract alone has power: the purse is behind by
less than one unit.  The first chest opened triples the power, so with a power of one what is pending must be, and
is, whole units.

### Canvas

`CanvasProofs`, from `CanvasAssumption`: `PaintersCount`, and the type of every variable, which contains the
point of it: counts stay natural numbers, so the checked decrement of a repaint never reverts
(`RepaintNeverUnderflows`: the guard on it in `PaintPixel` never bites).  A painter
before the repaint has the pixel among his, so his count is at least one.  `GrowthCountsPaints`: the pot is
below the requirement of the next row, and pot and all rows grown make up the paints (`GrowthInv`); one paint more
fills at most one row.

### The listener

`VrfListenerProofs`, from `VrfAssumption`, for any numbers of requests, reorganisations, crashes and blocks and any
payments: `NoRequestIsSkipped`, `InflightIsLive`, `AnswersAreSentOnce`.  The inductive invariant has ten
parts:

- `TypeInv`; `BlocksInOrder`: answers come after their requests, and both are on the chain;
  `LogsHaveBlocks`: what the node knows was on the chain once;
- `ReplacedInv`: the branch that may come back is in order as the chain is, each of its answers with a transaction mined in it, and
  has the blocks up to its fork in common with the chain (`Fits`);
- `WindowInv`: the window starts at a final block and not behind a request that may need an answer.
  A reorganisation does not reach below it, because finality only grows;
- `KnownLogs`: a log the node holds is current, or of a branch that was replaced.  New blocks carry the number of
  the last reorganisation, so such a log becomes current again only with its branch, and is in `returned` from then on; a request
  put on a new branch is not hidden by a cache entry of the old one;
- `RoundInv`: what a round holds is not in flight already; a simulation that found a stale
  proof had a log that is not current, or has come back since;
- `AnswersHaveTxs`: an answer on the chain is a mined transaction of the node;
- `HiddenAreLive`: a hidden current log is answered, too old, dropped for its consumer, come back, or has a transaction that has not
  failed for good.  This is where the transmit checker matters: it drops a transaction only when it finds no commitment at a height
  at or above the request's block, which for a current log means that it is answered;
- `SentInv`: the transactions for a log are at most the crashes and failures, and one more while the log is hidden.

The proofs have a lemma for each part and kind of step (the chain's, the transaction manager's, the
listener's).

The liveness of `EveryRequestEnds` stays with TLC.  Its safety half is `PollsFindWhatWaits`: a poll leaves pending every request
that waits for an answer (`Waits`: asked, not answered, not too old, none of its transactions open or reverted, its consumer not
found invalid, its block not one that came back)
and has its confirmations.  It joins the window, the cache and the transactions, which different
parts of the node write at different times: `NoRequestIsSkipped` puts the log in the window, `InflightIsLive`
keeps it out of the cache.

### Left to TLC

- Liveness: `StakesAreSettled`, `Terminates`, `EveryRequestEnds`, and the fairness in `RefinesPurge`.  The safety halves are
  proved: `NoStakeIsStuck`, `WalkTakesItsTurns`, `PollsFindWhatWaits`, `QueueIsPurged`.
- Of `CurveIsSolved`, that `D` is no more than one unit from `ExactD`: this is the convergence of an integer iteration with
  a rounding in every division, an induction over the turns with an inequality of the third degree in each.
  The other two parts are `PoolsStayPriced`.  `WorthIsKept` holds whatever the iteration returns.
- The two statements that runs refute, `PaidFromTotalCommission` and `SharesWithinTheWhole`.

Every other property of a run is a theorem.  A theorem has no bounds of a run where its module's guards name
them as constants (`MaxTime`, `MaxHeld`, `MaxWorth`...): it holds for every value of them.

## 5. Not modelled

ATON and NFT rewards of stakes and payouts, the curve of the ATON factor (a fixed-point
logarithm: 256-bit words and a table of constants, out of TLC's reach); the test coins and their
faucets (one comparison of times each); staking and fusion of NFTs, and painting of claimed pixels, unreachable as
committed (2.5, 2.6); allowances and roles (a revert each); the views; the randomness
consumer and the mock of its coordinator; ERC721; interfaces and log events (no state).

`src/lib` is vendored: OpenZeppelin contracts, and a whole Chainlink node with its generated contract bindings, which are
most of the lines of this repository.  The program uses one service of it, the VRF V2 answers to
`PVT.sol`; that one is modelled from its Go source (2.7).  The other services (keepers, OCR, functions,
CCIP, the node's own API, keys, database and logs) take no part in what the contracts do, and a model of them would
say nothing about this system.  The modules therefore stand for a very small share of all lines of the
repository, and for about half of those of the contracts in `src/src`, whose other half is comments, views,
declarations and the parts named above.

## 6. Plan

Done, in the order of what is at stake: the book with its queues, the payout, VUND, the swaps that
move its coins, the NFTs, the service that answers them, the canvas; and the theorems of section 4.
What would come next:

1. `SwapController` composed with `VundLedger`, in the place of "any amount"; three coins.
2. Book, payout and ledger composed for two events, to show that the vault's balance
   covers every open pool in the cases in which `PoolIsEscrow` holds.
3. Two requests in `VrfListener` under TLC, with a loop reduced to one round, for the balance promised twice.
4. Backing and escrow in one theorem: `LedgerInv` with the pools of several events, from which payouts are taken.
5. The distance from `D` to the solution of the curve, by hand or with a prover that knows induction.
