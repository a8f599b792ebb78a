---------------------------- MODULE VrfListener ----------------------------
(***************************************************************************)
(* The service PVT.sol has its random words from: the VRF V2 listener of a *)
(* Chainlink node (Go, core/services/vrf/v2), the coordinator contract it  *)
(* answers, and the node's transaction manager, which survives a crash.    *)
(*                                                                         *)
(* One subscription pays for the requests.  A block is its number and the  *)
(* number of reorganisations before it, which stands for its hash; the     *)
(* branch replaced last may come back with its blocks.  The                *)
(* listener's loop reads the chain in several calls; blocks, transactions  *)
(* and reorganisations happen between any two of them.                     *)
(*                                                                         *)
(* Left out: batches, chunks of a round, native payment, cancelled         *)
(* subscriptions and the owner contract that answers them, pruning of the  *)
(* caches, a log poller or a node that lags behind the chain, a feeder of  *)
(* the store of older block hashes, and consumers that lose their code.    *)
(***************************************************************************)
EXTENDS Integers, Sequences, FiniteSets, FiniteSetsExt

CONSTANTS
    Requests,       \* ids of requests, those of one key and one subscription
    Funds, TopUps,  \* the subscription's first balance, and what is added to it
    Spends,         \* what answers to its requests for other keys take from it
    Payments,       \* what an answer may cost
    MaxFee,         \* what it costs at the highest gas price
    Confs,          \* confirmations of the request or of the job, the larger
    MaxConfs,       \* their limit, 200
    FinalityDepth,  \* blocks a reorganisation cannot reach
    HashWindow,     \* blocks whose hash the chain still knows, 256
    CheckLag,       \* blocks behind the head that answers are looked up, 5
    MaxHead,        \* bound: later blocks are all called MaxHead
    MaxReorgs,      \* bound
    MaxFaults       \* bound on crashes, failures to enqueue and requests too
                    \* old, together

NoBlock == [number |-> -1, epoch |-> 0]

ASSUME VrfAssumption ==
    /\ IsFiniteSet(Requests)
    /\ Funds \in Nat /\ TopUps \subseteq Nat \ {0} /\ Spends \subseteq Nat \ {0}
    /\ MaxFee \in Nat \ {0}
    /\ Payments \subseteq 1..MaxFee
    /\ Confs \in Nat \ {0} /\ MaxConfs \in Nat /\ Confs <= MaxConfs
    /\ FinalityDepth \in Nat /\ CheckLag \in Nat
    /\ HashWindow \in Nat
    /\ MaxHead \in Nat /\ MaxReorgs \in Nat /\ MaxFaults \in Nat

VARIABLES
    head, reorgs,       \* the chain's last block, and its reorganisations so far
    asked, answered,    \* block of each request and of its answer
    fee,                \* what each answer took from the subscription
    balance,            \* the subscription's balance
    toCome, toGo,       \* top-ups and other answers not made yet
    old,                \* requests older than RequestTimeout
    codeless,           \* requests whose consumer is no contract
    replaced,           \* the branch the last reorganisation replaced, if any
    returned,           \* history: logs whose block was replaced and came back
    txs,                \* the transaction manager's fulfilments, as enqueued
    crashes, failures,  \* so far; failures to enqueue
    step,               \* where the listener is in its loop
    lastProcessed, latestHead, inflight, respCount, delivered,
    pending,            \* logs of this round
    outcomes,           \* their simulations
    available,          \* startBalance, then startBalanceNoReserved
    processed           \* logs of this round that are done with

branches == <<codeless, replaced, returned>>
chain == <<head, reorgs, asked, answered, fee, balance, toCome, toGo, old, branches>>
node == <<crashes, failures, step>>
memory == <<lastProcessed, latestHead, inflight, respCount, delivered>>
round == <<pending, outcomes, available, processed>>
vars == <<chain, txs, node, memory, round>>

Min2(a, b) == IF a < b THEN a ELSE b
Max2(a, b) == IF a > b THEN a ELSE b

IsAsked(r) == asked[r] # NoBlock
IsAnswered(r) == answered[r] # NoBlock

\* The keys of both caches: block number, block hash and index of a log.
Log(r) == [req |-> r, block |-> asked[r]]

Final == Max2(head - FinalityDepth, 0)

\* The contract's commitment at a height: there from request to answer.
Committed(r, height) ==
    /\ IsAsked(r) /\ asked[r].number <= height
    /\ ~(IsAnswered(r) /\ answered[r].number <= height)

\* A transaction of the node: the log it answers, its state, and its block.
Tx(log, state, number) == [log |-> log, state |-> state, number |-> number]

\* Transactions of the states reserveEthLinkQueryStates lists.
IsOpen(tx) == tx.state \in {"unstarted", "sent"}
Open == SelectSeq(txs, IsOpen)

Forgotten ==
    /\ lastProcessed' = 0 /\ latestHead' = 0
    /\ inflight' = {} /\ delivered' = {}
    /\ respCount' = [r \in Requests |-> 0]

Idle ==
    /\ pending' = {} /\ outcomes' = <<>> /\ available' = 0 /\ processed' = {}

Init ==
    /\ head = 0 /\ reorgs = 0
    /\ asked = [r \in Requests |-> NoBlock]
    /\ answered = [r \in Requests |-> NoBlock]
    /\ fee = [r \in Requests |-> 0]
    /\ balance = Funds /\ toCome = TopUps /\ toGo = Spends
    /\ old = {} /\ codeless \in SUBSET Requests
    /\ replaced = {} /\ returned = {}
    /\ txs = <<>> /\ crashes = 0 /\ failures = 0
    /\ step = "down"
    /\ lastProcessed = 0 /\ latestHead = 0
    /\ inflight = {} /\ delivered = {}
    /\ respCount = [r \in Requests |-> 0]
    /\ pending = {} /\ outcomes = <<>> /\ available = 0 /\ processed = {}

-----------------------------------------------------------------------------
(* The chain.                                                              *)

NextNumber == Min2(head + 1, MaxHead)

\* Requests are made while their last confirmation is within the bound.
WithinBound(number) == number <= MaxHead - MaxConfs

\* The same for what goes wrong.
MoreFaults == crashes + failures + Cardinality(old) < MaxFaults

\* requestRandomWords.
NewBlock(asks) ==
    /\ head < MaxHead
    /\ \A r \in asks : ~IsAsked(r) /\ WithinBound(head + 1)
    /\ head' = head + 1
    /\ asked' = [r \in Requests |->
          IF r \in asks THEN [number |-> head + 1, epoch |-> reorgs] ELSE asked[r]]
    /\ UNCHANGED <<reorgs, answered, fee, balance, toCome, toGo, old, branches, txs,
                   node, memory, round>>

\* _getBlockhash, at a height: it is gone after HashWindow blocks.
HashIsKept(number, height) == height - number <= HashWindow

\* fulfillRandomWords: the proof must be of the request's block, whose hash is
\* still known, the request not answered, its consumer a contract, and the
\* subscription able to pay; or else the transaction reverts.
Mine(i, payment) ==
    LET r == txs[i].log.req
        ok == /\ txs[i].log = Log(r) /\ ~IsAnswered(r)
              /\ HashIsKept(asked[r].number, NextNumber)
              /\ r \notin codeless /\ balance >= payment
    IN  /\ txs[i].state = "sent"
        /\ head' = NextNumber
        /\ txs' = [txs EXCEPT ![i] = Tx(txs[i].log, "mined", NextNumber)]
        /\ answered' =
              IF ok THEN [answered EXCEPT ![r] = [number |-> NextNumber, epoch |-> reorgs]]
                    ELSE answered
        /\ fee' = IF ok THEN [fee EXCEPT ![r] = payment] ELSE fee
        /\ balance' = IF ok THEN balance - payment ELSE balance
        /\ UNCHANGED <<reorgs, asked, toCome, toGo, old, branches, node, memory, round>>

\* The chain up to a block, as a branch that shares the blocks up to fork.
Branch(fork, top) ==
    LET UpTo(block) == IF block.number <= top THEN block ELSE NoBlock IN
    [fork |-> fork, head |-> top,
     asked |-> [r \in Requests |-> UpTo(asked[r])],
     answered |-> [r \in Requests |-> UpTo(answered[r])],
     fee |-> [r \in Requests |-> IF answered[r].number <= top THEN fee[r] ELSE 0],
     mined |-> [i \in DOMAIN txs |->
                   IF txs[i].state = "mined" /\ txs[i].number <= top
                   THEN txs[i].number ELSE -1]]

\* The blocks above the fork are replaced by a longer branch: a base, and blocks
\* on top of it, which hold each request that was on the chain and is not in the
\* base, or do not.  Answers and fees are those of the base; the transaction
\* manager sends its transactions again that are not in it.  One that changes none
\* of these is a new block.  Bounds: requests are where NewBlock may have them, and
\* after MaxReorgs the branch replaced last may still come back, once.
Reorg(base, moved) ==
    LET gone == { r \in Requests : asked[r].number > base.fork }
        refund == MapThenSumSet(LAMBDA r : fee[r] - base.fee[r], Requests)
    IN  /\ reorgs < MaxReorgs \/ base \in replaced
        /\ head < MaxHead
        /\ base.fork >= Final
        /\ \A r \in Requests :
              moved[r] # 0 => /\ r \in gone /\ base.asked[r] = NoBlock
                              /\ WithinBound(base.head + moved[r])
        /\ balance + refund >= 0
        /\ reorgs' = reorgs + 1
        /\ head' = head + 1
        /\ asked' = [r \in Requests |->
              IF moved[r] = 0 THEN base.asked[r]
              ELSE [number |-> base.head + moved[r], epoch |-> reorgs + 1]]
        /\ answered' = base.answered
        /\ fee' = base.fee
        /\ balance' = balance + refund
        /\ old' = old \ gone
        /\ txs' = [i \in DOMAIN txs |->
              IF i \in DOMAIN base.mined /\ base.mined[i] # -1
              THEN Tx(txs[i].log, "mined", base.mined[i])
              ELSE IF txs[i].state = "mined" THEN Tx(txs[i].log, "sent", -1)
              ELSE txs[i]]
        /\ <<asked', txs'>> # <<asked, txs>>
        /\ replaced' = IF reorgs < MaxReorgs THEN {Branch(base.fork, head)} ELSE {}
        /\ returned' = returned \union
              { [req |-> r, block |-> base.asked[r]] :
                    r \in { q \in Requests : base.asked[q].number > base.fork } }
        /\ UNCHANGED <<toCome, toGo, codeless, node, memory, round>>

\* onTokenTransfer.
TopUp(amount) ==
    /\ amount \in toCome
    /\ balance' = balance + amount
    /\ toCome' = toCome \ {amount}
    /\ UNCHANGED <<head, reorgs, asked, answered, fee, toGo, old, branches, txs,
                   node, memory, round>>

\* fulfillRandomWords for another key of the subscription, by another node.
Spend(amount) ==
    /\ amount \in toGo /\ amount <= balance
    /\ balance' = balance - amount
    /\ toGo' = toGo \ {amount}
    /\ UNCHANGED <<head, reorgs, asked, answered, fee, toCome, old, branches, txs,
                   node, memory, round>>

\* RequestTimeout passes since the log of a request was stored.
GrowOld(r) ==
    /\ IsAsked(r) /\ r \notin old /\ MoreFaults
    /\ old' = old \union {r}
    /\ UNCHANGED <<head, reorgs, asked, answered, fee, balance, toCome, toGo, branches,
                   txs, node, memory, round>>

\* The transmit checker looks the commitment up before a transaction is first
\* sent; a transaction it finds answered fails for good.
Broadcast(i) ==
    LET log == txs[i].log
        height == Max2(log.block.number, head - CheckLag)
    IN  /\ txs[i].state = "unstarted"
        /\ txs' = [txs EXCEPT ![i] =
                      Tx(log, IF Committed(log.req, height) THEN "sent" ELSE "fatal", -1)]
        /\ UNCHANGED <<chain, node, memory, round>>

-----------------------------------------------------------------------------
(* The listener starts and polls.                                          *)

\* GetStartingResponseCountsV2: transactions open, or mined since finality.
Start ==
    /\ step = "down"
    /\ step' = "start"
    /\ respCount' = [r \in Requests |->
          Cardinality({ i \in DOMAIN txs :
              /\ txs[i].log.req = r
              /\ \/ IsOpen(txs[i])
                 \/ txs[i].state = "mined" /\ txs[i].number >= head - FinalityDepth })]
    /\ UNCHANGED <<chain, txs, crashes, failures, lastProcessed, latestHead, inflight,
                   delivered, round>>

\* Mutant of Earliest: no request is looked for.
EarliestFinal(from) == Final

\* Mutant of Earliest: requests are taken as done once they are answered.
EarliestUnanswered(from) ==
    Min({Final} \union { asked[r].number : r \in
            { q \in Requests : asked[q].number \in from..Final /\ q \notin old
                                  /\ ~IsAnswered(q) } })

\* The earlier of the last final block and the first request not answered up to it.
Earliest(from) ==
    LET unfulfilled ==
            { r \in Requests :
                /\ asked[r].number \in from..Final /\ r \notin old
                /\ ~(IsAnswered(r) /\ answered[r].number <= Final) }
    IN  Min({Final} \union { asked[r].number : r \in unfulfilled })

Initialize ==
    /\ step = "start"
    /\ step' = "poll"
    /\ lastProcessed' = Earliest(0)
    /\ UNCHANGED <<chain, txs, crashes, failures, latestHead, inflight, respCount, delivered,
                   round>>

\* getConfirmedAt: an answer that was undone doubles the confirmations.
ConfirmedAt(r, counts) == asked[r].number + Min2(Confs * 2 ^ counts[r], MaxConfs)

\* pollLogs and getConfirmedLogsBySub, on logs from lastProcessed to the head.
Poll ==
    LET news == { r \in Requests : answered[r].number >= lastProcessed
                                      /\ [req |-> r, block |-> answered[r]] \notin delivered }
        counts == [r \in Requests |-> respCount[r] + (IF r \in news THEN 1 ELSE 0)]
        ready == { r \in Requests :
                     /\ asked[r].number >= lastProcessed /\ ~IsAnswered(r)
                     /\ Log(r) \notin inflight
                     /\ ConfirmedAt(r, counts) <= Max2(latestHead, head) }
    IN  /\ step = "poll"
        /\ step' = IF ready = {} THEN "update" ELSE "balance"
        /\ latestHead' = Max2(latestHead, head)
        /\ respCount' = counts
        /\ delivered' = delivered \union { [req |-> r, block |-> answered[r]] : r \in news }
        /\ pending' = { Log(r) : r \in ready }
        /\ UNCHANGED <<chain, txs, crashes, failures, lastProcessed, inflight, outcomes,
                       available, processed>>

-----------------------------------------------------------------------------
(* A round of processing.                                                  *)

\* GetSubscription.
ReadBalance ==
    /\ step = "balance"
    /\ step' = "reserve"
    /\ available' = balance
    /\ UNCHANGED <<chain, txs, crashes, failures, memory, pending, outcomes, processed>>

\* The call for the balance fails, and the round with it.
ReadFails ==
    /\ step = "balance"
    /\ step' = "update"
    /\ UNCHANGED <<chain, txs, crashes, failures, memory, round>>

Reserved == MaxFee * Len(Open)

\* MaybeSubtractReservedLink.
SubtractReserved ==
    /\ step = "reserve"
    /\ step' = "check"
    /\ available' = available - Reserved
    /\ UNCHANGED <<chain, txs, crashes, failures, memory, pending, outcomes, processed>>

\* getReadyAndExpired and checkReqsFulfilled: both kinds count as processed.  A
\* request whose look-up fails counts as not answered.
Check(failing) ==
    LET Height(log) == Max2(log.block.number, latestHead - CheckLag)
        Fulfilled(log) == log \notin failing /\ ~Committed(log.req, Height(log))
        done == { log \in pending : log.req \in old \/ Fulfilled(log) }
    IN  /\ step = "check"
        /\ step' = "simulate"
        /\ processed' = done
        /\ pending' = pending \ done
        /\ UNCHANGED <<chain, txs, crashes, failures, memory, outcomes, available>>

\* What simulating fulfillRandomWords at the highest gas price returns: the hash
\* of the request's block is gone; a proof of another block with its number is
\* stale; any other revert is a failure.
Outcome(log) ==
    LET r == log.req IN
    IF ~IsAsked(r) \/ IsAnswered(r) \/ asked[r].number # log.block.number THEN "failed"
    ELSE IF ~HashIsKept(asked[r].number, head) THEN "nohash"
    ELSE IF asked[r] # log.block THEN "stale"
    ELSE IF r \in codeless \/ balance < MaxFee THEN "failed"
    ELSE "ok"

\* runPipelines; the calls of some simulations fail.
Simulate(failing) ==
    /\ step = "simulate"
    /\ step' = "enqueue"
    /\ outcomes' = [log \in pending |-> IF log \in failing THEN "failed" ELSE Outcome(log)]
    /\ UNCHANGED <<chain, txs, crashes, failures, memory, pending, available, processed>>

Enqueued(log) == Append(txs, Tx(log, "unstarted", -1))

\* isConsumerValidAfterFinalityDepthElapsed, answered with no.
InvalidConsumer(log) ==
    log.req \in codeless /\ latestHead - log.block.number > FinalityDepth

\* One request of the round, the cheapest callback first: a stale one is done with,
\* one with a failed simulation is tried again in a later round or, when its
\* consumer is found invalid, dropped; the first that lacks the money ends the round.
\* What a failed one needs is an estimate, of at most MaxFee and of nothing when that
\* fails too.
Process(log) ==
    /\ step = "enqueue" /\ log \in pending
    /\ UNCHANGED <<chain, node, memory, outcomes>>
    /\ \/ /\ outcomes[log] = "stale"
          /\ pending' = pending \ {log}
          /\ processed' = processed \union {log}
          /\ UNCHANGED <<txs, available>>
       \/ /\ outcomes[log] \in {"failed", "ok"} /\ available < MaxFee
          /\ pending' = {}
          /\ UNCHANGED <<txs, available, processed>>
       \/ /\ \/ outcomes[log] = "nohash"
             \/ outcomes[log] = "failed" /\ available >= 0
          /\ pending' = pending \ {log}
          /\ UNCHANGED <<txs, available, processed>>
       \/ /\ outcomes[log] = "failed" /\ available >= 0
          /\ InvalidConsumer(log)
          /\ pending' = pending \ {log}
          /\ processed' = processed \union {log}
          /\ UNCHANGED <<txs, available>>
       \/ /\ outcomes[log] = "ok" /\ available >= MaxFee
          /\ pending' = pending \ {log}
          /\ txs' = Enqueued(log)
          /\ available' = available - MaxFee
          /\ processed' = processed \union {log}

\* Enqueuing fails, and the request is left for a later round: CreateTransaction
\* is not part of the database transaction around it, so that its own stays when
\* that one is not committed.
EnqueueFails(log) ==
    /\ step = "enqueue" /\ log \in pending
    /\ MoreFaults
    /\ outcomes[log] = "ok" /\ available >= MaxFee
    /\ failures' = failures + 1
    /\ pending' = pending \ {log}
    /\ txs' \in {txs, Enqueued(log)}
    /\ UNCHANGED <<chain, crashes, step, memory, outcomes, available, processed>>

\* Mutant of Kept: the logs of a round are forgotten.
KeptNone == inflight

\* Mutant of Kept: the logs whose simulation failed as well.
KeptAll == inflight \union processed \union DOMAIN outcomes

\* What is processed is in flight from here on.
Kept == inflight \union processed

FinishRound ==
    /\ step = "enqueue" /\ pending = {}
    /\ step' = "update"
    /\ inflight' = Kept
    /\ Idle
    /\ UNCHANGED <<chain, txs, crashes, failures, lastProcessed, latestHead, respCount, delivered>>

\* updateLastProcessedBlock.
Update ==
    /\ step = "update"
    /\ step' = "poll"
    /\ lastProcessed' = Earliest(lastProcessed)
    /\ Idle
    /\ UNCHANGED <<chain, txs, crashes, failures, latestHead, inflight, respCount, delivered>>

\* Without the latest block it returns zero, without the logs what it was.
UpdateFails ==
    /\ step = "update"
    /\ step' = "poll"
    /\ lastProcessed' \in {0, lastProcessed}
    /\ Idle
    /\ UNCHANGED <<chain, txs, crashes, failures, latestHead, inflight, respCount, delivered>>

\* The node stops and forgets everything but its transactions.
Crash ==
    /\ step # "down" /\ MoreFaults
    /\ step' = "down"
    /\ crashes' = crashes + 1
    /\ Forgotten /\ Idle
    /\ UNCHANGED <<chain, txs, failures>>

-----------------------------------------------------------------------------
Listen ==
    \/ Start \/ Initialize \/ Poll
    \/ ReadBalance \/ ReadFails \/ SubtractReserved
    \/ \E failing \in SUBSET pending : Check(failing) \/ Simulate(failing)
    \/ \E log \in pending : Process(log) \/ EnqueueFails(log)
    \/ FinishRound \/ Update \/ UpdateFails

Send == \E i \in DOMAIN txs : Broadcast(i)
MineAny == \E i \in DOMAIN txs, payment \in Payments : Mine(i, payment)
Grow == \E asks \in SUBSET Requests : NewBlock(asks)

Next ==
    \/ Listen \/ Crash
    \/ Grow \/ Send \/ MineAny
    \/ \E base \in { Branch(fork, fork) : fork \in Final..(head - 1) } \union replaced :
          \E moved \in [Requests -> 0..(head + 1 - base.head)] : Reorg(base, moved)
    \/ \E amount \in toCome : TopUp(amount)
    \/ \E amount \in toGo : Spend(amount)
    \/ \E r \in Requests : GrowOld(r)

\* The ticker fires, blocks are made, transactions are sent or mined as long as there
\* are any, and the calls for the balance and for a simulation do not fail for ever.
Fairness ==
    /\ WF_vars(Listen) /\ SF_vars(ReadBalance) /\ SF_vars(Simulate({}))
    /\ WF_vars(Grow) /\ WF_vars(Send \/ MineAny)

Spec == Init /\ [][Next]_vars /\ Fairness

-----------------------------------------------------------------------------
(* Properties.                                                             *)

\* The polling window never starts behind a request that may still need an answer,
\* one undone by a reorganisation included (listener_v2_log_listener.go 105-221).
NoRequestIsSkipped ==
    step \notin {"down", "start"} =>
        \A r \in Requests :
            IsAsked(r) /\ r \notin old /\ ~(IsAnswered(r) /\ answered[r].number <= Final)
                => lastProcessed <= asked[r].number

\* An answer to this log that was sent and reverted: the money had gone.
Reverted(log) ==
    /\ ~IsAnswered(log.req)
    /\ \E i \in DOMAIN txs : txs[i].log = log /\ txs[i].state = "mined"

\* A request the cache hides from polling is answered, too old, or has a
\* transaction on its way that can answer it, unless that one has reverted.  Two
\* more are hidden and stay so: one dropped because its consumer is no contract,
\* and only once its block is final, and one done with while another branch was in
\* the place of its own, which came back (listener_v2_log_processor.go 111-126,
\* 733-739, 766-777).
InflightIsLive ==
    \A r \in Requests :
        Log(r) \in inflight =>
            \/ IsAnswered(r) \/ r \in old \/ Reverted(Log(r))
            \/ \E i \in DOMAIN txs : IsOpen(txs[i]) /\ txs[i].log = Log(r)
            \/ InvalidConsumer(Log(r)) \/ Log(r) \in returned

\* The same log is answered by one transaction for each life of the node, and by
\* another for each time that one was enqueued and the listener told it was not.
AnswersAreSentOnce ==
    \A i \in DOMAIN txs :
        Cardinality({ j \in DOMAIN txs : txs[j].log = txs[i].log }) <= crashes + failures + 1

\* As often as its money allows a request gets its answer, unless it is dropped
\* from the chain, grows too old, its answer has reverted, its consumer is no
\* contract, the hash of its block is gone, or its block was replaced and came
\* back, whatever reorganisations, crashes and failing calls do.
EveryRequestEnds ==
    \A r \in Requests :
        IsAsked(r) ~> \/ IsAnswered(r) \/ ~IsAsked(r) \/ r \in old
                      \/ Reverted(Log(r)) \/ balance < MaxFee
                      \/ r \in codeless \/ Log(r) \in returned
                      \/ ~HashIsKept(asked[r].number, NextNumber)
=============================================================================
