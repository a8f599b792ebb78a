---------------------------- MODULE VundLedger ----------------------------
(***************************************************************************)
(* VUND, the vault's own token: its balances and supply, the coins that    *)
(* back it, and the commission its holders share (Vault.sol over           *)
(* libraries/ERC20/ERC20.sol).                                             *)
(*                                                                         *)
(* Every commission raises accumulatedCommissionPerToken; what an account  *)
(* may claim is its balance times the rise since its own mark, and it is   *)
(* claimed, out of the vault's balance, by any transfer the account takes  *)
(* part in.  One action is one transaction; one that reverts is no step.   *)
(* The coins of wallets are not bounded: only the vault's are kept.        *)
(***************************************************************************)
EXTENDS Tools, FiniteSets, FiniteSetsExt

CONSTANTS
    Players,        \* addresses that may hold VUND, the owner's among them
    Vault,          \* the address of the vault
    Owner,          \* the owner of the vault, one of Players
    Coins,          \* the stable coins of the vault (coinList without VUND)
    CoinInfo,       \* what the conversions read of each coin
    ONE,            \* 10 ** decimals(): one VUND
    pct_denom,      \* denominator of the commission percentages
    Premiums,       \* commission percentages of a swap between two coins
    Amounts,        \* amounts a caller may name
    Fees,           \* vault fees a payout may carry
    MaxWorth,       \* bound: VUND worth of the vault's coins
    MaxUnbacked,    \* bound: VUND minted for tokens that are not in coinList
    MaxCommission   \* bound: totalCommissionVUND

Accounts == Players \union {Vault}

ASSUME LedgerAssumption ==
    /\ Vault \notin Players \union Coins /\ Owner \in Players
    /\ CoinInfo \in [Coins -> Coin]
    /\ ONE \in Nat \ {0} /\ pct_denom \in Nat \ {0}
    /\ Premiums \subseteq 0..pct_denom
    /\ Amounts \subseteq Nat /\ Fees \subseteq Nat
    /\ MaxWorth \in Nat /\ MaxUnbacked \in Nat /\ MaxCommission \in Nat

VARIABLES
    ledger,         \* what transfers write: the record Ledger below
    totalSupply,    \* ERC20: _totalSupply
    perToken,       \* accumulatedCommissionPerToken
    totalCommission,\* totalCommissionVUND
    held,           \* balanceOf(vault) of each stable coin
    unbacked        \* history: VUND minted for stakes in tokens that are not in
                    \* coinList since the supply last followed the coins

vars == <<ledger, totalSupply, perToken, totalCommission, held, unbacked>>

(* received is no variable of the code: the commission paid to an account. *)
Ledger == [balance : [Accounts -> Nat], last : [Accounts -> Nat],
           received : [Accounts -> Nat]]

TypeOK ==
    /\ ledger \in Ledger
    /\ totalSupply \in Nat
    /\ perToken \in Nat
    /\ totalCommission \in Nat
    /\ held \in [Coins -> Nat]
    /\ unbacked \in Nat

Init ==
    /\ ledger = [balance |-> [a \in Accounts |-> 0], last |-> [a \in Accounts |-> 0],
                 received |-> [a \in Accounts |-> 0]]
    /\ totalSupply = 0 /\ perToken = 0 /\ totalCommission = 0
    /\ held = [c \in Coins |-> 0]
    /\ unbacked = 0

-----------------------------------------------------------------------------
(* Transfers and commission.                                               *)

\* The vault's coins in VUND (the loop of _mintToRebalance).
Worth(coins) ==
    SumFunctionOnSet([c \in Coins |-> CoinToVUND(coins[c], CoinInfo[c])], Coins)

\* Mutant of Moved: both balances read before either is written.
MovedFromOld(balance, from, to, amount) ==
    [balance EXCEPT ![from] = @ - amount, ![to] = balance[to] + amount]

\* ERC20._update between two accounts.
Moved(balance, from, to, amount) ==
    [[balance EXCEPT ![from] = @ - amount] EXCEPT ![to] = @ + amount]

\* _playerCommission, at a rate: accumulatedCommissionPerToken when it is read.
Owed(l, a, rate) == (l.balance[a] * (rate - l.last[a])) \div ONE

\* The vault's own commission goes to the owner.
Beneficiary(a) == IF a = Vault THEN Owner ELSE a

Paid(l, a, amount) ==
    [l EXCEPT !.balance = Moved(l.balance, Vault, Beneficiary(a), amount),
              !.received = [l.received EXCEPT ![a] = @ + amount]]

Marked(l, a, rate) == [l EXCEPT !.last = [l.last EXCEPT ![a] = rate]]

PaidIfThere(l, a, amount) ==
    IF l.balance[Vault] >= amount THEN Paid(l, a, amount) ELSE l

\* Mutant of Distributed: the mark stays behind.
DistributedUnmarked(l, a, rate) == PaidIfThere(l, a, Owed(l, a, rate))

\* Mutant of Distributed: the vault's last VUND is never paid.
DistributedFromMore(l, a, rate) ==
    LET owed == Owed(l, a, rate) IN
    IF owed = 0 THEN l
    ELSE Marked(IF l.balance[Vault] > owed THEN Paid(l, a, owed) ELSE l, a, rate)

\* _distributeCommission: _safeTransfer pays nothing when the vault has too
\* little, and the account is marked either way.
Distributed(l, a, rate) ==
    IF Owed(l, a, rate) = 0 THEN l
    ELSE Marked(PaidIfThere(l, a, Owed(l, a, rate)), a, rate)

\* Mutant of Settled: the sender's commission is forgotten.
SettledRecipient(l, from, to, rate) == Distributed(l, to, rate)

Settled(l, from, to, rate) == Distributed(Distributed(l, from, rate), to, rate)

\* _transfer: both parties' commission first.
Transferred(l, from, to, amount, rate) ==
    LET settled == Settled(l, from, to, rate)
    IN  [settled EXCEPT !.balance = Moved(settled.balance, from, to, amount)]

CanTransfer(l, from, to, amount, rate) ==
    Settled(l, from, to, rate).balance[from] >= amount

\* Mutant of Accumulate: assigned, not added.
AccumulateAnew(amount) ==
    /\ totalSupply > 0
    /\ totalCommission + amount <= MaxCommission
    /\ perToken' = (amount * ONE) \div totalSupply
    /\ totalCommission' = totalCommission + amount

\* _accumulateCommission; it divides by the supply.
Accumulate(amount) ==
    /\ totalSupply > 0
    /\ totalCommission + amount <= MaxCommission
    /\ perToken' = perToken + (amount * ONE) \div totalSupply
    /\ totalCommission' = totalCommission + amount

NoCommission == UNCHANGED <<perToken, totalCommission>>

-----------------------------------------------------------------------------
(* Transactions.                                                           *)

\* A transfer of VUND at the commission rate of before the call.
Moves(from, to, amount) ==
    /\ CanTransfer(ledger, from, to, amount, perToken)
    /\ ledger' = Transferred(ledger, from, to, amount, perToken)

\* ERC20.transfer and transferFrom, and a stake in VUND: retrieveCoin transfers
\* it to the vault and addStake mints nothing.
Transfer(p, to, amount) ==
    /\ Moves(p, to, amount)
    /\ NoCommission
    /\ UNCHANGED <<totalSupply, held, unbacked>>

\* donateVUND: the amount becomes commission.
Donate(p, amount) ==
    /\ Moves(p, Vault, amount)
    /\ Accumulate(amount)
    /\ UNCHANGED <<totalSupply, held, unbacked>>

\* ERC20._mint to the vault: no commission is settled.
Mint(vund) ==
    /\ ledger' = [ledger EXCEPT !.balance = [ledger.balance EXCEPT ![Vault] = @ + vund]]
    /\ totalSupply' = totalSupply + vund
    /\ NoCommission

\* A stake in a stable coin: retrieveCoin takes the adjusted amount, addStake
\* mints its worth to the vault, without a look at the vault's commission.
StakeCoin(c, amount) ==
    /\ held' = [held EXCEPT ![c] = @ + AdjustedCoin(amount, CoinInfo[c])]
    /\ Worth(held') <= MaxWorth
    /\ Mint(CoinToVUND(amount, CoinInfo[c]))
    /\ UNCHANGED unbacked

\* A stake in a token that is not in coinList: coinIndex has 0 for it, the entry of
\* VUND, so that the amount is minted as it stands; what retrieveCoin takes is no
\* coin of the vault.
StakeOther(amount) ==
    /\ unbacked + amount <= MaxUnbacked
    /\ unbacked' = unbacked + amount
    /\ Mint(amount)
    /\ UNCHANGED held

\* A settled stake: addEarningsToPlayer for the player, then for the vault,
\* whose fee becomes commission.
Payout(p, earnings, fee) ==
    /\ fee <= earnings
    /\ IF earnings > fee THEN Moves(Vault, p, earnings - fee) ELSE UNCHANGED ledger
    /\ IF fee > 0 THEN Accumulate(fee) ELSE NoCommission
    /\ UNCHANGED <<totalSupply, held, unbacked>>

\* Anybody may send coins to the vault's address.
SendCoin(c, amount) ==
    /\ held' = [held EXCEPT ![c] = @ + amount]
    /\ Worth(held') <= MaxWorth
    /\ NoCommission
    /\ UNCHANGED <<ledger, totalSupply, unbacked>>

-----------------------------------------------------------------------------
(* Swaps.  A token is a coin or, like every address that is not in         *)
(* coinList, resolves to its first entry, VUND, whose address is the       *)
(* vault's.                                                                *)

InfoOf(token) ==
    IF token \in Coins THEN CoinInfo[token] ELSE [scale |-> 1, wider |-> FALSE]

OfVault(token) == IF token \in Coins THEN held[token] ELSE ledger.balance[Vault]

\* The checks on what goes out, of which one VUND stays, and the commission.
SwapOut(token, amountOut, pct) ==
    /\ amountOut > 0
    /\ OfVault(token) >= amountOut + VUNDToCoin(ONE, InfoOf(token))
    /\ Accumulate(CoinToVUND((amountOut * pct) \div pct_denom, InfoOf(token)))

NetOut(amountOut, pct) == amountOut - (amountOut * pct) \div pct_denom

\* The supply becomes an amount, at the vault's expense.
SupplySet(l, supply) ==
    /\ l.balance[Vault] + supply >= totalSupply
    /\ ledger' = [l EXCEPT !.balance =
                     [l.balance EXCEPT ![Vault] = @ + supply - totalSupply]]
    /\ totalSupply' = supply
    /\ unbacked' = 0

\* Mutant of Rebalance: it mints and never burns.
RebalanceUp(l, coins) == SupplySet(l, Max({Worth(coins), totalSupply}))

\* _mintToRebalance: the supply follows the coins.
Rebalance(l, coins) == SupplySet(l, Worth(coins))

\* SwapController.SwapExecution from one coin to another, then swap.  The
\* amount out is the pool curve's: any amount here.
SwapCoins(c, d, amountIn, amountOut, pct) ==
    /\ c # d
    /\ SwapOut(d, amountOut, pct)
    /\ held' = [held EXCEPT ![c] = @ + amountIn, ![d] = @ - NetOut(amountOut, pct)]
    /\ Worth(held') <= MaxWorth
    /\ Rebalance(ledger, held')

\* VUND comes in, after the commission is accumulated, and a coin goes out.
SwapToCoin(p, d, amountIn, amountOut, pct) ==
    /\ ledger.balance[p] >= amountIn
    /\ SwapOut(d, amountOut, pct)
    /\ CanTransfer(ledger, p, Vault, amountIn, perToken')
    /\ held' = [held EXCEPT ![d] = @ - NetOut(amountOut, pct)]
    /\ Rebalance(Transferred(ledger, p, Vault, amountIn, perToken'), held')

\* SwapExecution from VUND to a coin: no curve and no premium.
SwapVUND(p, d, amount) ==
    SwapToCoin(p, d, AdjustedVUND(amount, CoinInfo[d]), VUNDToCoin(amount, CoinInfo[d]), 0)

\* A coin comes in and a token that is not in coinList is asked for: VUND goes out.
SwapToOther(p, c, amountIn, amountOut, pct) ==
    LET net == NetOut(amountOut, pct) IN
    /\ SwapOut(Vault, amountOut, pct)
    /\ held' = [held EXCEPT ![c] = @ + amountIn]
    /\ Worth(held') <= MaxWorth
    /\ CanTransfer(ledger, Vault, p, net, perToken')
    /\ Rebalance(Transferred(ledger, Vault, p, net, perToken'), held')

\* Neither is in coinList, or VUND comes in for such a token: VUND both ways.
SwapOthers(p, amountIn, amountOut, pct) ==
    LET net == NetOut(amountOut, pct)
        paid == Transferred(ledger, p, Vault, amountIn, perToken')
    IN  /\ ledger.balance[p] >= amountIn
        /\ SwapOut(Vault, amountOut, pct)
        /\ CanTransfer(ledger, p, Vault, amountIn, perToken')
        /\ CanTransfer(paid, Vault, p, net, perToken')
        /\ Rebalance(Transferred(paid, Vault, p, net, perToken'), held)
        /\ UNCHANGED held

-----------------------------------------------------------------------------
HolderCall(p) ==
    \E amount \in Amounts :
        \/ \E to \in Accounts : Transfer(p, to, amount)
        \/ Donate(p, amount)
        \/ \E fee \in Fees : Payout(p, amount, fee)
        \/ \E d \in Coins : SwapVUND(p, d, amount)

\* Swaps that name a token outside coinList; what goes out is any amount again.
OtherCall(p) ==
    \E in, out \in Amounts, pct \in Premiums :
        \/ \E c \in Coins : SwapToCoin(p, c, in, out, pct) \/ SwapToOther(p, c, in, out, pct)
        \/ SwapOthers(p, in, out, pct)

CoinCall(c) ==
    \E amount \in Amounts :
        \/ StakeCoin(c, amount)
        \/ SendCoin(c, amount)
        \/ \E d \in Coins, out \in Amounts, pct \in Premiums :
              SwapCoins(c, d, amount, out, pct)

Next ==
    \/ \E p \in Players : HolderCall(p) \/ OtherCall(p)
    \/ \E c \in Coins : CoinCall(c)
    \/ \E amount \in Amounts : StakeOther(amount)

Spec == Init /\ [][Next]_vars
-----------------------------------------------------------------------------
(* Properties.                                                             *)

\* No VUND without a coin behind it but what was minted for tokens outside
\* coinList, and a swap ends that too: whatever is staked, donated, claimed, sent
\* or swapped, the supply exceeds the worth of the vault's coins by no more,
\* rounding included (Vault.sol 482-488, 980-1001, Tools.sol).
SupplyIsBacked == totalSupply <= Worth(held) + unbacked

\* Transfers, claims and rebalancing neither lose nor create a balance.
SupplyIsBalances == totalSupply = SumFunctionOnSet(ledger.balance, Accounts)

\* No mark is ahead of the commission, where owedPerToken would underflow and
\* every later transfer of that account revert (Vault.sol 1048).
NoMarkAhead == \A a \in Accounts : ledger.last[a] <= perToken

\* A holder's claim is only ever reduced by settling it: no mint, burn, stake,
\* payout or transfer of others, and no transfer of its own that leaves its mark
\* behind, makes what it may claim smaller (Vault.sol 1019-1030, 1065-1070).
ClaimsAreKept ==
    [][\A p \in Players :
          Owed(ledger', p, perToken') < Owed(ledger, p, perToken)
              => ledger'.last[p] \in {perToken, perToken'}]_vars

\* A holder other than the owner is paid its claim, at the rate of before the call
\* or, in a swap, of after it, and no other amount, with its mark moved to that rate
\* in the same step, so that no commission is paid twice.
ClaimsArePaidOnce ==
    [][\A p \in Players \ {Owner} :
          LET paid == ledger'.received[p] - ledger.received[p]
              rate == ledger'.last[p]
          IN  paid # 0 => /\ paid = Owed(ledger, p, rate)
                          /\ ledger.last[p] < rate
                          /\ rate \in {perToken, perToken'}]_vars

\* A claim is erased unpaid only when the vault, once the other side of the
\* transfer has been paid, is short of it: _safeTransfer then pays nothing and the
\* mark moves all the same (Vault.sol 1065-1082).
ClaimsErasedOnlyWhenShort ==
    [][\A p \in Players \ {Owner} :
          LET paid(a) == ledger'.received[a] - ledger.received[a]
              rate == ledger'.last[p]
          IN  rate # ledger.last[p] /\ paid(p) = 0
                  => \E a \in Accounts :
                        ledger.balance[Vault] < Owed(ledger, p, rate) + paid(a)]_vars

\* What holders were paid is a part "from the total commission" (1043-1045).
PaidFromTotalCommission ==
    SumFunctionOnSet(ledger.received, Accounts) <= totalCommission
=============================================================================
