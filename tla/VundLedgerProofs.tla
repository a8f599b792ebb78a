-------------------------- MODULE VundLedgerProofs --------------------------
(***************************************************************************)
(* VUND for any players, coins, decimals and amounts: every claim is kept  *)
(* until it is settled and settled once, balances add up to the supply and *)
(* the supply is backed by coins.                                          *)
(*                                                                         *)
(* A transfer settles two claims, each out of the vault's balance and that *)
(* of the vault to the owner, and then moves the amount, where sender and  *)
(* recipient may be the same: the effect of one settlement is stated once  *)
(* (SettledOne), and that of the transfer follows from it.                 *)
(***************************************************************************)
EXTENDS VundLedger, DataLemmas

-----------------------------------------------------------------------------
(* Conversions.                                                            *)

LEMMA CoinsAreGood ==
    ASSUME NEW c \in Coins
    PROVE  CoinInfo[c] \in Coin
BY LedgerAssumption

LEMMA CoinFields ==
    ASSUME NEW coin \in Coin
    PROVE  coin.scale \in Nat \ {0}
BY DEF Coin

LEMMA ConversionTypes ==
    ASSUME NEW coin \in Coin, NEW x \in Nat
    PROVE  /\ CoinToVUND(x, coin) \in Nat
           /\ AdjustedCoin(x, coin) \in Nat
           /\ VUNDToCoin(x, coin) \in Nat
           /\ AdjustedVUND(x, coin) \in Nat
<1>1. PICK s \in Nat \ {0} : s = coin.scale
    BY CoinFields
<1>2. \A y \in Nat : y \div s \in Nat /\ y * s \in Nat
    BY DivBounds
<1>3. \A y \in Nat : CoinToVUND(y, coin) \in Nat /\ VUNDToCoin(y, coin) \in Nat
    BY <1>1, <1>2 DEF CoinToVUND, VUNDToCoin
<1> QED BY <1>1, <1>2, <1>3 DEF AdjustedCoin, AdjustedVUND

\* By a whole number of divisors a quotient grows exactly.
LEMMA DivOfWhole ==
    ASSUME NEW a \in Nat, NEW k \in Nat, NEW s \in Nat \ {0}
    PROVE  (a + k * s) \div s = a \div s + k
<1>1. PICK q \in Nat : q = a \div s
    BY DivBounds
<1>2. s * q <= a /\ a < s * q + s
    BY <1>1, DivBounds
<1>3. PICK r \in Nat : r = (a + k * s) \div s
    BY DivBounds
<1>4. s * r <= a + k * s /\ a + k * s < s * r + s
    BY <1>3, DivBounds
<1>5. s * (q + k) = s * q + k * s
    OBVIOUS
<1>6. (a + k * s) \div s <= q + k
    <2>1. a + k * s < s * (q + k) + s
        BY <1>2, <1>5
    <2> QED BY <2>1, DivAtMost
<1>7. q + k <= r
    <2>1. SUFFICES ASSUME r + 1 <= q + k PROVE FALSE
        OBVIOUS
    <2>2. s * (r + 1) <= s * (q + k)
        BY <2>1
    <2>3. s * (r + 1) = s * r + s
        OBVIOUS
    <2> QED BY <1>2, <1>4, <1>5, <2>2, <2>3
<1> QED BY <1>1, <1>3, <1>6, <1>7

LEMMA ConversionGrows ==
    ASSUME NEW coin \in Coin, NEW x \in Nat, NEW y \in Nat, x <= y
    PROVE  CoinToVUND(x, coin) <= CoinToVUND(y, coin)
<1>1. PICK s \in Nat \ {0} : s = coin.scale
    BY CoinFields
<1>2. x \div s <= y \div s /\ x * s <= y * s
    BY DivGrows
<1> QED BY <1>1, <1>2 DEF CoinToVUND

\* The adjusted amount is worth exactly what is minted for it.
LEMMA AdjustedIsExact ==
    ASSUME NEW coin \in Coin, NEW h \in Nat, NEW x \in Nat
    PROVE  CoinToVUND(h + AdjustedCoin(x, coin), coin)
               = CoinToVUND(h, coin) + CoinToVUND(x, coin)
<1>1. PICK s \in Nat \ {0} : s = coin.scale
    BY CoinFields
<1>2. CASE coin.wider
    <2>1. PICK k \in Nat : k = x \div s
        BY DivBounds
    <2>2. (h + k * s) \div s = h \div s + k
        BY DivOfWhole
    <2> QED BY <1>1, <1>2, <2>1, <2>2 DEF CoinToVUND, AdjustedCoin
<1>3. CASE ~coin.wider
    <2>1. (h + x) * s = h * s + x * s
        OBVIOUS
    <2> QED BY <1>1, <1>3, <2>1 DEF CoinToVUND, AdjustedCoin
<1> QED BY <1>2, <1>3

-----------------------------------------------------------------------------
(* The worth of the vault's coins.                                         *)

LEMMA WorthType ==
    ASSUME IsFiniteSet(Coins), NEW coins \in [Coins -> Nat]
    PROVE  Worth(coins) \in Nat
<1>1. PICK f : f = [c \in Coins |-> CoinToVUND(coins[c], CoinInfo[c])]
    OBVIOUS
<1>2. \A c \in Coins : f[c] \in Nat
    BY <1>1, CoinsAreGood, ConversionTypes
<1> QED BY <1>1, <1>2, SumIsNatural DEF Worth

\* More of one coin is worth as much more as its conversion says.
LEMMA WorthOfMore ==
    ASSUME IsFiniteSet(Coins), NEW coins \in [Coins -> Nat], NEW c \in Coins, NEW n \in Nat,
           NEW more, more = [coins EXCEPT ![c] = n]
    PROVE  Worth(more) = Worth(coins) - CoinToVUND(coins[c], CoinInfo[c])
                             + CoinToVUND(n, CoinInfo[c])
<1>1. PICK f, g : /\ f = [d \in Coins |-> CoinToVUND(coins[d], CoinInfo[d])]
                  /\ g = [d \in Coins |-> CoinToVUND(more[d], CoinInfo[d])]
    OBVIOUS
<1>2. more \in [Coins -> Nat] /\ more[c] = n /\ \A d \in Coins \ {c} : more[d] = coins[d]
    OBVIOUS
<1>3. \A d \in Coins : f[d] \in Int /\ g[d] \in Int
    <2> SUFFICES ASSUME NEW d \in Coins PROVE f[d] \in Int /\ g[d] \in Int
        OBVIOUS
    <2>1. CoinToVUND(coins[d], CoinInfo[d]) \in Nat /\ CoinToVUND(more[d], CoinInfo[d]) \in Nat
        BY <1>2, CoinsAreGood, ConversionTypes
    <2> QED BY <1>1, <2>1
<1>4. \A d \in Coins \ {c} : f[d] = g[d]
    BY <1>1, <1>2
<1>5. SumFunctionOnSet(g, Coins) = SumFunctionOnSet(f, Coins) - f[c] + g[c]
    BY <1>3, <1>4, SumChange
<1>6. f[c] = CoinToVUND(coins[c], CoinInfo[c]) /\ g[c] = CoinToVUND(n, CoinInfo[c])
    BY <1>1, <1>2
<1> QED BY <1>1, <1>5, <1>6 DEF Worth

-----------------------------------------------------------------------------
(* What one settlement does.                                               *)

Total(l) == SumFunctionOnSet(l.balance, Accounts)

\* No mark is ahead of the commission.
GoodLedger(l, rate) == l \in Ledger /\ \A a \in Accounts : l.last[a] <= rate

LEMMA LedgerFields ==
    ASSUME NEW l \in Ledger
    PROVE  /\ l.balance \in [Accounts -> Nat] /\ l.last \in [Accounts -> Nat]
           /\ l.received \in [Accounts -> Nat]
           /\ l = [balance |-> l.balance, last |-> l.last, received |-> l.received]
BY DEF Ledger

LEMMA LedgerBuilt ==
    ASSUME NEW l, l = [balance |-> l.balance, last |-> l.last, received |-> l.received],
           l.balance \in [Accounts -> Nat], l.last \in [Accounts -> Nat],
           l.received \in [Accounts -> Nat]
    PROVE  l \in Ledger
BY Zenon DEF Ledger

LEMMA People ==
    /\ Vault \in Accounts /\ Owner \in Accounts /\ Owner # Vault
    /\ \A p \in Players : p \in Accounts /\ p # Vault
BY LedgerAssumption DEF Accounts

LEMMA MovedKeeps ==
    ASSUME IsFiniteSet(Accounts), NEW b \in [Accounts -> Nat], NEW from \in Accounts,
           NEW to \in Accounts, NEW amount \in Nat, amount <= b[from],
           NEW n, n = Moved(b, from, to, amount)
    PROVE  /\ n \in [Accounts -> Nat]
           /\ SumFunctionOnSet(n, Accounts) = SumFunctionOnSet(b, Accounts)
           /\ \A a \in Accounts \ {from} : b[a] <= n[a]
           /\ \A a \in Accounts \ {from, to} : n[a] = b[a]
           /\ from # to => n[from] = b[from] - amount
<1>1. PICK x \in Nat : x = b[from] - amount
    OBVIOUS
<1>2. PICK k : k = [b EXCEPT ![from] = x]
    OBVIOUS
<1>3. k \in [Accounts -> Nat] /\ k[from] = x /\ \A a \in Accounts \ {from} : k[a] = b[a]
    BY <1>2
<1>4. PICK y \in Nat : y = k[to] + amount
    BY <1>3
<1>5. n = [k EXCEPT ![to] = y]
    BY <1>1, <1>2, <1>4 DEF Moved
<1>6. n \in [Accounts -> Nat] /\ n[to] = y /\ \A a \in Accounts \ {to} : n[a] = k[a]
    BY <1>3, <1>5
<1>7. SumFunctionOnSet(k, Accounts) = SumFunctionOnSet(b, Accounts) - b[from] + k[from]
    <2>1. \A a \in Accounts : b[a] \in Int /\ k[a] \in Int
        BY <1>3
    <2> QED BY <1>3, <2>1, SumChange
<1>8. SumFunctionOnSet(n, Accounts) = SumFunctionOnSet(k, Accounts) - k[to] + n[to]
    <2>1. \A a \in Accounts : k[a] \in Int /\ n[a] \in Int
        BY <1>3, <1>6
    <2>2. \A a \in Accounts \ {to} : k[a] = n[a]
        BY <1>6
    <2> QED BY <2>1, <2>2, SumChange
<1>9. SumFunctionOnSet(b, Accounts) \in Int
    <2>1. \A a \in Accounts : b[a] \in Int
        OBVIOUS
    <2> QED BY <2>1, SumType
<1>10. SumFunctionOnSet(n, Accounts) = SumFunctionOnSet(b, Accounts)
    <2>1. PICK s \in Int : s = SumFunctionOnSet(b, Accounts)
        BY <1>9
    <2>2. b[from] \in Int /\ k[to] \in Int
        BY <1>3
    <2> QED BY <1>1, <1>3, <1>4, <1>6, <1>7, <1>8, <2>1, <2>2
<1>11. \A a \in Accounts \ {from} : b[a] <= n[a]
    BY <1>3, <1>4, <1>6
<1>12. from # to => n[from] = b[from] - amount
    BY <1>1, <1>3, <1>6
<1> QED BY <1>3, <1>6, <1>10, <1>11, <1>12

LEMMA OwedType ==
    ASSUME NEW rate \in Nat, NEW l, GoodLedger(l, rate), NEW a \in Accounts
    PROVE  /\ Owed(l, a, rate) \in Nat
           /\ l.last[a] = rate => Owed(l, a, rate) = 0
<1>1. l.balance[a] \in Nat /\ l.last[a] \in Nat /\ l.last[a] <= rate
    BY LedgerFields DEF GoodLedger
<1>2. PICK d \in Nat : d = rate - l.last[a]
    BY <1>1
<1>3. l.balance[a] * d \in Nat /\ (d = 0 => l.balance[a] * d = 0)
    BY <1>1
<1>4. ONE \in Nat \ {0}
    BY LedgerAssumption
<1>5. Owed(l, a, rate) = (l.balance[a] * d) \div ONE
    BY <1>2 DEF Owed
<1>6. Owed(l, a, rate) \in Nat
    BY <1>3, <1>4, <1>5, DivBounds
<1>7. d = 0 => Owed(l, a, rate) = 0
    BY <1>3, <1>4, <1>5
<1> QED BY <1>1, <1>2, <1>6, <1>7

LEMMA PaidKeeps ==
    ASSUME IsFiniteSet(Accounts), NEW l \in Ledger, NEW a \in Accounts, NEW amount \in Nat,
           amount <= l.balance[Vault], NEW m, m = Paid(l, a, amount)
    PROVE  /\ m \in Ledger /\ Total(m) = Total(l) /\ m.last = l.last
           /\ \A p \in Accounts \ {Vault} : l.balance[p] <= m.balance[p]
           /\ \A p \in Accounts \ {a, Vault, Owner} : m.balance[p] = l.balance[p]
           /\ \A p \in Accounts \ {a} : m.received[p] = l.received[p]
           /\ m.received[a] = l.received[a] + amount
           /\ m.balance[Vault] = l.balance[Vault] - amount
<1>1. PICK to : to = Beneficiary(a)
    OBVIOUS
<1>2. to \in Accounts /\ to \in {a, Owner}
    BY <1>1, People DEF Beneficiary
<1>3. PICK b : b = Moved(l.balance, Vault, to, amount)
    OBVIOUS
<1>4. /\ b \in [Accounts -> Nat]
      /\ SumFunctionOnSet(b, Accounts) = SumFunctionOnSet(l.balance, Accounts)
      /\ \A p \in Accounts \ {Vault} : l.balance[p] <= b[p]
      /\ \A p \in Accounts \ {Vault, to} : b[p] = l.balance[p]
      /\ b[Vault] = l.balance[Vault] - amount
    <2>1. to # Vault
        BY <1>1, People DEF Beneficiary
    <2> QED BY <1>2, <1>3, <2>1, People, LedgerFields, MovedKeeps, SMTT(20)
<1>5. PICK r : r = [l.received EXCEPT ![a] = l.received[a] + amount]
    OBVIOUS
<1>6. /\ r \in [Accounts -> Nat] /\ r[a] = l.received[a] + amount
      /\ \A p \in Accounts \ {a} : r[p] = l.received[p]
    BY <1>5, LedgerFields
<1>7. l = [balance |-> l.balance, last |-> l.last, received |-> l.received]
      /\ l.last \in [Accounts -> Nat]
    BY LedgerFields
<1>8. m = [l EXCEPT !.balance = b, !.received = r]
    BY <1>1, <1>3, <1>5 DEF Paid
<1>9. /\ m.balance = b /\ m.last = l.last /\ m.received = r
      /\ m = [balance |-> m.balance, last |-> m.last, received |-> m.received]
    BY <1>7, <1>8
<1>10. m \in Ledger
    BY <1>4, <1>6, <1>7, <1>9, LedgerBuilt
<1>11. Total(m) = Total(l)
    BY <1>4, <1>9 DEF Total
<1> QED BY <1>2, <1>4, <1>6, <1>9, <1>10, <1>11

LEMMA MarkedKeeps ==
    ASSUME NEW rate \in Nat, NEW l \in Ledger, NEW a \in Accounts, NEW m, m = Marked(l, a, rate)
    PROVE  /\ m \in Ledger /\ m.balance = l.balance /\ m.received = l.received
           /\ m.last[a] = rate
           /\ \A p \in Accounts \ {a} : m.last[p] = l.last[p]
<1>1. PICK t : t = [l.last EXCEPT ![a] = rate]
    OBVIOUS
<1>2. /\ t \in [Accounts -> Nat] /\ t[a] = rate
      /\ \A p \in Accounts \ {a} : t[p] = l.last[p]
    BY <1>1, LedgerFields
<1>3. l = [balance |-> l.balance, last |-> l.last, received |-> l.received]
    BY LedgerFields
<1>4. m = [l EXCEPT !.last = t]
    BY <1>1 DEF Marked
<1>5. /\ m.balance = l.balance /\ m.last = t /\ m.received = l.received
      /\ m = [balance |-> m.balance, last |-> m.last, received |-> m.received]
    BY <1>3, <1>4
<1>6. m \in Ledger
    BY <1>2, <1>5, LedgerFields, LedgerBuilt
<1> QED BY <1>2, <1>5, <1>6

\* A settlement marks whom it owes, whether or not the vault can pay, takes from the
\* vault only and gives to the account, or to the owner.
Settlement(l, a, m, rate) ==
    /\ GoodLedger(m, rate) /\ Total(m) = Total(l)
    /\ Owed(l, a, rate) = 0 => m = l
    /\ Owed(l, a, rate) > 0 => m.last[a] = rate
    /\ \A p \in Accounts \ {a} : m.last[p] = l.last[p] /\ m.received[p] = l.received[p]
    /\ m.received[a] = l.received[a] \/ m.received[a] = l.received[a] + Owed(l, a, rate)
    /\ \A p \in Accounts \ {Vault} : l.balance[p] <= m.balance[p]
    /\ \A p \in Accounts \ {a, Vault, Owner} : m.balance[p] = l.balance[p]
    /\ m.balance[Vault] + m.received[a] = l.balance[Vault] + l.received[a]
    /\ Owed(l, a, rate) > 0 /\ m.received[a] = l.received[a] => l.balance[Vault] < Owed(l, a, rate)

LEMMA SettledOne ==
    ASSUME IsFiniteSet(Accounts), NEW rate \in Nat, NEW l, GoodLedger(l, rate), NEW a \in Accounts,
           NEW m, m = Distributed(l, a, rate)
    PROVE  Settlement(l, a, m, rate)
<1>1. l \in Ledger /\ \A p \in Accounts : l.last[p] <= rate
    BY DEF GoodLedger
<1>2. PICK o \in Nat : o = Owed(l, a, rate)
    BY OwedType
<1>3. CASE o = 0
    <2>1. m = l
        BY <1>2, <1>3 DEF Distributed
    <2>2. \A p \in Accounts : l.balance[p] <= l.balance[p]
        BY <1>1, LedgerFields
    <2> QED BY <1>2, <1>3, <2>1, <2>2 DEF Settlement
<1>4. CASE o > 0
    <2>1. PICK k : k = IF l.balance[Vault] >= o THEN Paid(l, a, o) ELSE l
        OBVIOUS
    <2>2. /\ k \in Ledger /\ Total(k) = Total(l) /\ k.last = l.last
          /\ \A p \in Accounts \ {Vault} : l.balance[p] <= k.balance[p]
          /\ \A p \in Accounts \ {a, Vault, Owner} : k.balance[p] = l.balance[p]
          /\ \A p \in Accounts \ {a} : k.received[p] = l.received[p]
          /\ k.received[a] = l.received[a] \/ k.received[a] = l.received[a] + o
          /\ k.balance[Vault] + k.received[a] = l.balance[Vault] + l.received[a]
          /\ k.received[a] = l.received[a] => l.balance[Vault] < o
        <3> l.balance[Vault] \in Nat /\ l.received[a] \in Nat
            BY <1>1, LedgerFields, People
        <3>1. CASE l.balance[Vault] >= o
            <4>1. k = Paid(l, a, o) /\ o <= l.balance[Vault]
                BY <1>1, <2>1, <3>1, LedgerFields, People
            <4>2. /\ k.received[a] = l.received[a] + o
                  /\ k.balance[Vault] = l.balance[Vault] - o
                BY <1>1, <4>1, PaidKeeps
            <4>3. /\ k.balance[Vault] + k.received[a] = l.balance[Vault] + l.received[a]
                  /\ k.received[a] # l.received[a]
                BY <1>4, <4>2
            <4> QED BY <1>1, <4>1, <4>3, PaidKeeps
        <3>2. CASE ~(l.balance[Vault] >= o)
            <4>1. k = l
                BY <2>1, <3>2
            <4>2. \A p \in Accounts : l.balance[p] <= l.balance[p]
                BY <1>1, LedgerFields
            <4>3. l.balance[Vault] < o
                BY <3>2
            <4> QED BY <1>1, <4>1, <4>2, <4>3
        <3> QED BY <3>1, <3>2
    <2>3. m = Marked(k, a, rate)
        BY <1>2, <1>4, <2>1 DEF Distributed, PaidIfThere
    <2>4. /\ m \in Ledger /\ m.balance = k.balance /\ m.received = k.received
          /\ m.last[a] = rate
          /\ \A p \in Accounts \ {a} : m.last[p] = k.last[p]
        <3>1. k \in Ledger
            BY <2>2
        <3> QED BY <2>3, <3>1, MarkedKeeps
    <2>5. Total(m) = Total(l)
        BY <2>2, <2>4 DEF Total
    <2>6. \A p \in Accounts : m.last[p] <= rate
        BY <1>1, <2>2, <2>4
    <2>7. GoodLedger(m, rate)
        BY <2>4, <2>6 DEF GoodLedger
    <2> QED BY <1>2, <1>4, <2>2, <2>4, <2>5, <2>7 DEF Settlement
<1> QED BY <1>3, <1>4

-----------------------------------------------------------------------------
(* What a transfer does to the claim of a holder.                          *)

\* The claim is settled, or what it is computed from is kept or raised.
Kept(l, m, p, rate) ==
    m.last[p] = rate \/ (m.last[p] = l.last[p] /\ l.balance[p] <= m.balance[p])

\* There was nothing to claim, or the claim is kept.
KeepsClaim(l, m, p, rate) == Owed(l, p, rate) = 0 \/ Kept(l, m, p, rate)

PaidOnce(l, m, p, rate) ==
    \/ m.received[p] = l.received[p]
    \/ m.received[p] = l.received[p] + Owed(l, p, rate) /\ Owed(l, p, rate) > 0 /\ m.last[p] = rate

\* A claim erased unpaid is more than the vault had, less what another was paid.
ErasedShort(l, m, p, rate) ==
    m.last[p] # l.last[p] /\ m.received[p] = l.received[p]
        => \E a \in Accounts :
              l.balance[Vault] + l.received[a] < Owed(l, p, rate) + m.received[a]

\* Without a claim the mark stays.
Quiet(l, m, p, rate) == Owed(l, p, rate) = 0 => m.last[p] = l.last[p]

Untouched(l, m, p) == m.last[p] = l.last[p] /\ m.received[p] = l.received[p]

LEMMA SettledBoth ==
    ASSUME IsFiniteSet(Accounts), NEW rate \in Nat, NEW l, GoodLedger(l, rate),
           NEW from \in Accounts, NEW to \in Accounts, NEW m, m = Settled(l, from, to, rate),
           NEW p \in Players
    PROVE  /\ GoodLedger(m, rate) /\ Total(m) = Total(l)
           /\ Kept(l, m, p, rate)
           /\ p = from => Owed(l, p, rate) = 0 \/ m.last[p] = rate
           /\ p # Owner => /\ PaidOnce(l, m, p, rate) /\ ErasedShort(l, m, p, rate)
                           /\ Quiet(l, m, p, rate)
           /\ p \notin {from, to} => Untouched(l, m, p)
           /\ (p = from /\ from # to /\ p # Owner /\ Owed(l, p, rate) = 0)
                 => m.balance[p] = l.balance[p]
           /\ \A a \in Accounts : l.received[a] <= m.received[a]
<1>1. PICK k : k = Distributed(l, from, rate)
    OBVIOUS
<1>2. m = Distributed(k, to, rate)
    BY <1>1 DEF Settled
<1>3. p \in Accounts /\ p # Vault
    BY People
<1>4. /\ GoodLedger(k, rate) /\ Total(k) = Total(l)
      /\ Owed(l, from, rate) = 0 => k = l
      /\ Owed(l, from, rate) > 0 => k.last[from] = rate
      /\ \A q \in Accounts \ {from} : k.last[q] = l.last[q] /\ k.received[q] = l.received[q]
      /\ k.received[from] = l.received[from]
            \/ k.received[from] = l.received[from] + Owed(l, from, rate)
      /\ \A q \in Accounts \ {Vault} : l.balance[q] <= k.balance[q]
      /\ \A q \in Accounts \ {from, Vault, Owner} : k.balance[q] = l.balance[q]
      /\ k.balance[Vault] + k.received[from] = l.balance[Vault] + l.received[from]
      /\ Owed(l, from, rate) > 0 /\ k.received[from] = l.received[from]
            => l.balance[Vault] < Owed(l, from, rate)
    <2>1. Settlement(l, from, k, rate)
        BY <1>1, SettledOne
    <2> QED BY <2>1 DEF Settlement
<1>5. /\ GoodLedger(m, rate) /\ Total(m) = Total(k)
      /\ Owed(k, to, rate) = 0 => m = k
      /\ Owed(k, to, rate) > 0 => m.last[to] = rate
      /\ \A q \in Accounts \ {to} : m.last[q] = k.last[q] /\ m.received[q] = k.received[q]
      /\ m.received[to] = k.received[to] \/ m.received[to] = k.received[to] + Owed(k, to, rate)
      /\ \A q \in Accounts \ {Vault} : k.balance[q] <= m.balance[q]
      /\ \A q \in Accounts \ {to, Vault, Owner} : m.balance[q] = k.balance[q]
      /\ Owed(k, to, rate) > 0 /\ m.received[to] = k.received[to]
            => k.balance[Vault] < Owed(k, to, rate)
    <2>1. Settlement(k, to, m, rate)
        BY <1>2, <1>4, SettledOne
    <2> QED BY <2>1 DEF Settlement
<1>6. /\ Owed(l, from, rate) \in Nat /\ Owed(k, to, rate) \in Nat
      /\ k.last[to] = rate => Owed(k, to, rate) = 0
    BY <1>4, OwedType
<1>7. l.balance[p] \in Nat /\ k.balance[p] \in Nat /\ m.balance[p] \in Nat
    BY <1>3, <1>4, <1>5, LedgerFields DEF GoodLedger
<1>8. k.last[p] = rate => m.last[p] = rate
    BY <1>3, <1>5, <1>6
<1>9. Kept(l, k, p, rate) /\ Kept(k, m, p, rate)
    <2>1. Kept(l, k, p, rate)
        BY <1>3, <1>4, <1>6, <1>7 DEF Kept
    <2>2. Kept(k, m, p, rate)
        BY <1>3, <1>5, <1>6, <1>7 DEF Kept
    <2> QED BY <2>1, <2>2
<1>10. Kept(l, m, p, rate)
    BY <1>7, <1>8, <1>9 DEF Kept
<1>11. p = from => Owed(l, p, rate) = 0 \/ m.last[p] = rate
    BY <1>4, <1>6, <1>8
<1>12. ASSUME p # Owner PROVE PaidOnce(l, m, p, rate)
    <2>1. CASE p = from
        <3>1. CASE Owed(l, p, rate) = 0
            <4>1. k = l /\ (p = to => m = k)
                BY <1>4, <1>5, <2>1, <3>1
            <4>2. m.received[p] = l.received[p]
                BY <1>3, <1>5, <4>1
            <4> QED BY <4>2 DEF PaidOnce
        <3>2. CASE Owed(l, p, rate) > 0
            <4>1. k.last[p] = rate /\ m.last[p] = rate
                BY <1>4, <1>8, <2>1, <3>2
            <4>2. m.received[p] = k.received[p]
                <5>1. p = to => m = k
                    BY <1>5, <1>6, <4>1
                <5> QED BY <1>3, <1>5, <5>1
            <4> QED BY <1>4, <2>1, <3>2, <4>1, <4>2 DEF PaidOnce
        <3> QED BY <1>6, <2>1, <3>1, <3>2
    <2>2. CASE p # from
        <3>1. /\ k.last[p] = l.last[p] /\ k.received[p] = l.received[p]
              /\ k.balance[p] = l.balance[p]
            BY <1>3, <1>4, <1>12, <2>2
        <3>2. Owed(k, p, rate) = Owed(l, p, rate)
            BY <3>1 DEF Owed
        <3>3. CASE p = to
            <4>1. CASE Owed(k, p, rate) = 0
                BY <1>5, <3>1, <3>3, <4>1 DEF PaidOnce
            <4>2. CASE Owed(k, p, rate) > 0
                BY <1>5, <3>1, <3>2, <3>3, <4>2 DEF PaidOnce
            <4> QED BY <1>6, <3>3, <4>1, <4>2
        <3>4. CASE p # to
            BY <1>3, <1>5, <3>1, <3>4 DEF PaidOnce
        <3> QED BY <3>3, <3>4
    <2> QED BY <2>1, <2>2
<1>13. ASSUME p # Owner, Owed(l, p, rate) > 0, m.last[p] # l.last[p], m.received[p] = l.received[p]
       PROVE  \E a \in Accounts :
                  l.balance[Vault] + l.received[a] < Owed(l, p, rate) + m.received[a]
    <2>1. /\ l.balance[Vault] \in Nat /\ k.balance[Vault] \in Nat
          /\ l.received[p] \in Nat /\ l.received[from] \in Nat /\ k.received[from] \in Nat
          /\ Owed(l, p, rate) \in Nat
        BY <1>3, <1>4, People, LedgerFields, OwedType DEF GoodLedger
    <2>2. CASE p = from
        <3>1. k.last[p] = rate
            BY <1>4, <1>13, <2>2
        <3>2. p = to => m = k
            BY <1>5, <1>6, <3>1
        <3>3. m.received[p] = k.received[p]
            BY <1>3, <1>5, <3>2
        <3>4. l.balance[Vault] < Owed(l, p, rate)
            BY <1>4, <1>13, <2>2, <3>3
        <3>5. l.balance[Vault] + l.received[p] < Owed(l, p, rate) + m.received[p]
            BY <1>13, <2>1, <3>4
        <3> QED BY <1>3, <3>5
    <2>3. CASE p # from
        <3>1. /\ k.last[p] = l.last[p] /\ k.received[p] = l.received[p]
              /\ k.balance[p] = l.balance[p]
            BY <1>3, <1>4, <1>13, <2>3
        <3>2. Owed(k, p, rate) = Owed(l, p, rate)
            BY <3>1 DEF Owed
        <3>3. p = to
            BY <1>3, <1>5, <1>13, <3>1
        <3>4. k.balance[Vault] < Owed(l, p, rate)
            BY <1>5, <1>13, <3>1, <3>2, <3>3
        <3>5. m.received[from] = k.received[from]
            BY <1>5, <2>3, <3>3
        <3>6. l.balance[Vault] + l.received[from] < Owed(l, p, rate) + m.received[from]
            BY <1>4, <2>1, <3>4, <3>5
        <3> QED BY <3>6
    <2> QED BY <2>2, <2>3
<1>14. ASSUME p # Owner PROVE Quiet(l, m, p, rate)
    <2>1. SUFFICES ASSUME Owed(l, p, rate) = 0 PROVE m.last[p] = l.last[p]
        BY DEF Quiet
    <2>2. k.last[p] = l.last[p] /\ k.balance[p] = l.balance[p]
        BY <1>3, <1>4, <1>14, <2>1
    <2>3. Owed(k, p, rate) = 0
        BY <2>1, <2>2 DEF Owed
    <2> QED BY <1>3, <1>5, <2>2, <2>3
<1>15. ASSUME p # Owner PROVE ErasedShort(l, m, p, rate)
    <2>1. Owed(l, p, rate) \in Nat
        BY <1>3, OwedType
    <2>2. m.last[p] # l.last[p] => Owed(l, p, rate) > 0
        BY <1>14, <1>15, <2>1 DEF Quiet
    <2> QED BY <1>13, <1>15, <2>2 DEF ErasedShort
<1>16. p \notin {from, to} => Untouched(l, m, p)
    BY <1>3, <1>4, <1>5 DEF Untouched
<1>17. (p = from /\ from # to /\ p # Owner /\ Owed(l, p, rate) = 0)
           => m.balance[p] = l.balance[p]
    BY <1>3, <1>4, <1>5
<1>18. ASSUME NEW a \in Accounts PROVE l.received[a] <= m.received[a]
    <2>1. l.received[a] \in Nat /\ k.received[a] \in Nat /\ m.received[a] \in Nat
        BY <1>4, <1>5, LedgerFields DEF GoodLedger
    <2>2. l.received[a] <= k.received[a]
        BY <1>4, <1>6, <2>1
    <2>3. k.received[a] <= m.received[a]
        BY <1>5, <1>6, <2>1
    <2> QED BY <2>1, <2>2, <2>3
<1> QED BY <1>4, <1>5, <1>10, <1>11, <1>12, <1>14, <1>15, <1>16, <1>17, <1>18

LEMMA SettledLedger ==
    ASSUME IsFiniteSet(Accounts), NEW rate \in Nat, NEW l, GoodLedger(l, rate),
           NEW from \in Accounts, NEW to \in Accounts, NEW m, m = Settled(l, from, to, rate)
    PROVE  GoodLedger(m, rate) /\ Total(m) = Total(l)
<1>1. PICK k : k = Distributed(l, from, rate)
    OBVIOUS
<1>2. m = Distributed(k, to, rate)
    BY <1>1 DEF Settled
<1>3. GoodLedger(k, rate) /\ Total(k) = Total(l)
    BY <1>1, SettledOne DEF Settlement
<1>4. GoodLedger(m, rate) /\ Total(m) = Total(k)
    BY <1>2, <1>3, SettledOne DEF Settlement
<1> QED BY <1>3, <1>4

\* Marks are moved to the rate or not at all.
Holders(l, m, rate) ==
    \A p \in Players :
        /\ KeepsClaim(l, m, p, rate)
        /\ m.last[p] \in {l.last[p], rate}
        /\ p # Owner => /\ PaidOnce(l, m, p, rate) /\ ErasedShort(l, m, p, rate)
                        /\ Quiet(l, m, p, rate)

\* A balance given up was settled first; every other only grows.
LEMMA TransferredKeeps ==
    ASSUME IsFiniteSet(Accounts), NEW rate \in Nat, NEW l, GoodLedger(l, rate),
           NEW from \in Accounts, NEW to \in Accounts, NEW amount \in Nat,
           CanTransfer(l, from, to, amount, rate), NEW m, m = Transferred(l, from, to, amount, rate)
    PROVE  GoodLedger(m, rate) /\ Total(m) = Total(l) /\ Holders(l, m, rate)
<1>1. PICK k : k = Settled(l, from, to, rate)
    OBVIOUS
<1>2. GoodLedger(k, rate) /\ Total(k) = Total(l) /\ k \in Ledger
    BY <1>1, SettledLedger DEF GoodLedger
<1>3. k.balance \in [Accounts -> Nat]
    BY <1>2, LedgerFields
<1>4. amount <= k.balance[from]
    BY <1>1, <1>3 DEF CanTransfer
<1>5. PICK b : b = Moved(k.balance, from, to, amount)
    OBVIOUS
<1>6. /\ b \in [Accounts -> Nat]
      /\ SumFunctionOnSet(b, Accounts) = SumFunctionOnSet(k.balance, Accounts)
      /\ \A a \in Accounts \ {from} : k.balance[a] <= b[a]
    BY <1>3, <1>4, <1>5, MovedKeeps
<1>7. m = [k EXCEPT !.balance = b]
    BY <1>1, <1>5 DEF Transferred
<1>8. k = [balance |-> k.balance, last |-> k.last, received |-> k.received]
    BY <1>2, LedgerFields
<1>9. /\ m.balance = b /\ m.last = k.last /\ m.received = k.received
      /\ m = [balance |-> m.balance, last |-> m.last, received |-> m.received]
    BY <1>7, <1>8
<1>10. m \in Ledger
    BY <1>2, <1>6, <1>9, LedgerFields, LedgerBuilt
<1>11. GoodLedger(m, rate)
    BY <1>2, <1>9, <1>10 DEF GoodLedger
<1>12. Total(m) = Total(l)
    BY <1>2, <1>6, <1>9 DEF Total
<1>13. ASSUME NEW p \in Players
       PROVE  /\ KeepsClaim(l, m, p, rate)
              /\ m.last[p] \in {l.last[p], rate}
              /\ p # Owner => /\ PaidOnce(l, m, p, rate) /\ ErasedShort(l, m, p, rate)
                              /\ Quiet(l, m, p, rate)
    <2>1. /\ Kept(l, k, p, rate)
          /\ p = from => Owed(l, p, rate) = 0 \/ k.last[p] = rate
          /\ p # Owner => /\ PaidOnce(l, k, p, rate) /\ ErasedShort(l, k, p, rate)
                          /\ Quiet(l, k, p, rate)
        BY <1>1, SettledBoth
    <2>2. /\ m.last[p] \in {l.last[p], rate}
          /\ p # Owner => /\ PaidOnce(l, m, p, rate) /\ ErasedShort(l, m, p, rate)
                          /\ Quiet(l, m, p, rate)
        BY <1>9, <2>1 DEF Kept, PaidOnce, ErasedShort, Quiet
    <2>3. CASE p = from
        BY <1>9, <2>1, <2>2, <2>3 DEF KeepsClaim, Kept
    <2>4. CASE p # from
        <3>1. k.balance[p] <= b[p] /\ l.balance[p] \in Nat /\ k.balance[p] \in Nat /\ b[p] \in Nat
            BY <1>2, <1>3, <1>6, <2>4, People, LedgerFields DEF GoodLedger
        <3>2. Kept(l, m, p, rate)
            BY <1>9, <2>1, <3>1 DEF Kept
        <3> QED BY <2>2, <3>2 DEF KeepsClaim
    <2> QED BY <2>2, <2>3, <2>4
<1> QED BY <1>11, <1>12, <1>13 DEF Holders

\* Who gives VUND to another is owed nothing after it, nobody is paid less than
\* nothing, and who takes no part is left alone.
LEMMA TransferredLeaves ==
    ASSUME IsFiniteSet(Accounts), NEW rate \in Nat, NEW l, GoodLedger(l, rate),
           NEW from \in Accounts, NEW to \in Accounts, NEW amount \in Nat,
           CanTransfer(l, from, to, amount, rate),
           NEW m, m = Transferred(l, from, to, amount, rate),
           NEW p \in Players
    PROVE  /\ p \notin {from, to} => Untouched(l, m, p)
           /\ (p = from /\ from # to /\ p # Owner) => Owed(m, p, rate) = 0
           /\ \A a \in Accounts : l.received[a] <= m.received[a]
<1>1. PICK k : k = Settled(l, from, to, rate)
    OBVIOUS
<1>2. GoodLedger(k, rate) /\ k \in Ledger /\ p \in Accounts
    BY <1>1, SettledLedger, People DEF GoodLedger
<1>3. k.balance \in [Accounts -> Nat]
    BY <1>2, LedgerFields
<1>4. amount <= k.balance[from]
    BY <1>1, <1>3 DEF CanTransfer
<1>5. PICK b : b = Moved(k.balance, from, to, amount)
    OBVIOUS
<1>6. from # to => b[from] = k.balance[from] - amount
    BY <1>3, <1>4, <1>5, MovedKeeps
<1>7. m = [k EXCEPT !.balance = b]
    BY <1>1, <1>5 DEF Transferred
<1>8. k = [balance |-> k.balance, last |-> k.last, received |-> k.received]
    BY <1>2, LedgerFields
<1>9. m.balance = b /\ m.last = k.last /\ m.received = k.received
    BY <1>7, <1>8
<1>10. /\ p = from => Owed(l, p, rate) = 0 \/ k.last[p] = rate
       /\ p # Owner => Quiet(l, k, p, rate)
       /\ p \notin {from, to} => Untouched(l, k, p)
       /\ (p = from /\ from # to /\ p # Owner /\ Owed(l, p, rate) = 0)
             => k.balance[p] = l.balance[p]
       /\ \A a \in Accounts : l.received[a] <= k.received[a]
    BY <1>1, SettledBoth
<1>11. ASSUME p = from, from # to, p # Owner PROVE Owed(m, p, rate) = 0
    <2>1. GoodLedger(m, rate)
        BY TransferredKeeps
    <2>2. CASE k.last[p] = rate
        BY <1>2, <1>9, <2>1, <2>2, OwedType
    <2>3. CASE Owed(l, p, rate) = 0
        <3>1. k.last[p] = l.last[p] /\ k.balance[p] = l.balance[p]
            BY <1>10, <1>11, <2>3 DEF Quiet
        <3>2. PICK x, y, i \in Nat : x = l.balance[p] /\ y = m.balance[p] /\ i = l.last[p]
                                    /\ i <= rate
            BY <1>2, <2>1, LedgerFields DEF GoodLedger
        <3>3. y <= x /\ m.last[p] = i
            BY <1>6, <1>9, <1>11, <3>1, <3>2
        <3>4. PICK d \in Nat : d = rate - i
            BY <3>2
        <3>5. y * d <= x * d /\ y * d \in Nat /\ x * d \in Nat /\ ONE \in Nat \ {0}
            BY <3>3, LedgerAssumption
        <3>6. (y * d) \div ONE <= (x * d) \div ONE
            BY <3>5, DivGrows
        <3>7. Owed(l, p, rate) = (x * d) \div ONE /\ Owed(m, p, rate) = (y * d) \div ONE
            BY <3>2, <3>3, <3>4 DEF Owed
        <3>8. Owed(m, p, rate) \in Nat
            BY <1>2, <2>1, OwedType
        <3> QED BY <2>3, <3>6, <3>7, <3>8
    <2> QED BY <1>10, <1>11, <2>2, <2>3
<1> QED BY <1>9, <1>10, <1>11 DEF Untouched

\* More of a balance, with the same mark, is owed no less.
LEMMA OwedGrows ==
    ASSUME NEW rate \in Nat, NEW l, GoodLedger(l, rate), NEW m, GoodLedger(m, rate),
           NEW p \in Accounts, m.last[p] = l.last[p], l.balance[p] <= m.balance[p]
    PROVE  Owed(l, p, rate) <= Owed(m, p, rate)
<1>1. PICK x, y, i \in Nat : /\ x = l.balance[p] /\ y = m.balance[p] /\ i = l.last[p]
                             /\ x <= y /\ i <= rate
    BY LedgerFields DEF GoodLedger
<1>2. PICK d \in Nat : d = rate - i
    BY <1>1
<1>3. x * d <= y * d /\ x * d \in Nat /\ y * d \in Nat /\ ONE \in Nat \ {0}
    BY <1>1, LedgerAssumption
<1>4. (x * d) \div ONE <= (y * d) \div ONE
    BY <1>3, DivGrows
<1> QED BY <1>1, <1>2, <1>4 DEF Owed

\* VUND to the vault and VUND back from it in one call.
LEMMA ThereAndBack ==
    ASSUME IsFiniteSet(Accounts), NEW rate \in Nat, NEW l, GoodLedger(l, rate),
           NEW p \in Players, NEW x \in Nat, NEW y \in Nat,
           CanTransfer(l, p, Vault, x, rate), NEW k, k = Transferred(l, p, Vault, x, rate),
           CanTransfer(k, Vault, p, y, rate), NEW m, m = Transferred(k, Vault, p, y, rate)
    PROVE  GoodLedger(m, rate) /\ Total(m) = Total(l) /\ Holders(l, m, rate)
<1>1. p \in Accounts /\ Vault \in Accounts /\ p # Vault
    BY People
<1>2. GoodLedger(k, rate) /\ Total(k) = Total(l) /\ Holders(l, k, rate)
    BY <1>1, TransferredKeeps
<1>3. GoodLedger(m, rate) /\ Total(m) = Total(k) /\ Holders(k, m, rate)
    BY <1>1, <1>2, TransferredKeeps
<1>4. ASSUME NEW q \in Players
      PROVE  /\ KeepsClaim(l, m, q, rate)
             /\ m.last[q] \in {l.last[q], rate}
             /\ q # Owner => /\ PaidOnce(l, m, q, rate) /\ ErasedShort(l, m, q, rate)
                             /\ Quiet(l, m, q, rate)
    <2>1. /\ KeepsClaim(l, k, q, rate) /\ k.last[q] \in {l.last[q], rate}
          /\ q # Owner => /\ PaidOnce(l, k, q, rate) /\ ErasedShort(l, k, q, rate)
                          /\ Quiet(l, k, q, rate)
        BY <1>2 DEF Holders
    <2>2. /\ KeepsClaim(k, m, q, rate) /\ m.last[q] \in {k.last[q], rate}
          /\ q # Owner => PaidOnce(k, m, q, rate) /\ Quiet(k, m, q, rate)
        BY <1>3 DEF Holders
    <2>3. q \in Accounts
        BY People
    <2>4. /\ l.balance[q] \in Nat /\ k.balance[q] \in Nat /\ m.balance[q] \in Nat
          /\ Owed(l, q, rate) \in Nat /\ Owed(k, q, rate) \in Nat
        BY <1>2, <1>3, <2>3, LedgerFields, OwedType DEF GoodLedger
    <2>5. KeepsClaim(l, m, q, rate)
        <3>1. SUFFICES ASSUME Owed(l, q, rate) # 0 PROVE Kept(l, m, q, rate)
            BY DEF KeepsClaim
        <3>2. CASE k.last[q] = rate
            BY <2>2, <3>2 DEF Kept
        <3>3. CASE k.last[q] = l.last[q] /\ l.balance[q] <= k.balance[q]
            <4>1. Owed(l, q, rate) <= Owed(k, q, rate)
                BY <1>2, <2>3, <3>3, OwedGrows
            <4>2. Kept(k, m, q, rate)
                BY <2>2, <2>4, <3>1, <4>1 DEF KeepsClaim
            <4> QED BY <2>4, <3>3, <4>2 DEF Kept
        <3> QED BY <2>1, <3>1, <3>2, <3>3 DEF KeepsClaim, Kept
    <2>6. ASSUME q # Owner PROVE Untouched(k, m, q)
        <3>1. CASE q = p
            <4>1. Owed(k, q, rate) = 0
                BY <1>1, <2>6, <3>1, TransferredLeaves
            <4> QED BY <2>2, <2>6, <4>1 DEF PaidOnce, Quiet, Untouched
        <3>2. CASE q # p
            <4>1. q \notin {Vault, p}
                BY <3>2, People
            <4> QED BY <1>1, <1>2, <4>1, TransferredLeaves
        <3> QED BY <3>1, <3>2
    <2>7. \A a \in Accounts : k.received[a] <= m.received[a]
        BY <1>1, <1>2, TransferredLeaves
    <2>8. ASSUME q # Owner PROVE ErasedShort(l, m, q, rate)
        <3>1. SUFFICES ASSUME m.last[q] # l.last[q], m.received[q] = l.received[q]
                       PROVE  \E a \in Accounts : l.balance[Vault] + l.received[a]
                                                     < Owed(l, q, rate) + m.received[a]
            BY DEF ErasedShort
        <3>2. k.last[q] # l.last[q] /\ k.received[q] = l.received[q]
            BY <2>6, <2>8, <3>1 DEF Untouched
        <3>3. PICK a \in Accounts :
                  l.balance[Vault] + l.received[a] < Owed(l, q, rate) + k.received[a]
            BY <2>1, <2>8, <3>2 DEF ErasedShort
        <3>4. /\ l.balance[Vault] \in Nat /\ l.received[a] \in Nat
              /\ k.received[a] \in Nat /\ m.received[a] \in Nat
            BY <1>1, <1>2, <1>3, LedgerFields DEF GoodLedger
        <3>5. l.balance[Vault] + l.received[a] < Owed(l, q, rate) + m.received[a]
            BY <2>4, <2>7, <3>3, <3>4
        <3> QED BY <3>5
    <2>9. q # Owner => PaidOnce(l, m, q, rate) /\ Quiet(l, m, q, rate)
        BY <2>1, <2>6 DEF PaidOnce, Quiet, Untouched
    <2> QED BY <2>1, <2>2, <2>5, <2>8, <2>9
<1> QED BY <1>2, <1>3, <1>4 DEF Holders

\* Minting and burning touch the vault's balance only.
LEMMA VaultSet ==
    ASSUME IsFiniteSet(Accounts), NEW rate \in Nat, NEW l, GoodLedger(l, rate), NEW n \in Nat,
           NEW m, m = [l EXCEPT !.balance = [l.balance EXCEPT ![Vault] = n]]
    PROVE  /\ GoodLedger(m, rate)
           /\ Total(m) = Total(l) - l.balance[Vault] + n
           /\ \A k : Holders(k, l, rate) => Holders(k, m, rate)
<1>1. l \in Ledger
    BY DEF GoodLedger
<1>2. PICK b : b = [l.balance EXCEPT ![Vault] = n]
    OBVIOUS
<1>3. /\ b \in [Accounts -> Nat] /\ b[Vault] = n
      /\ \A a \in Accounts \ {Vault} : b[a] = l.balance[a]
      /\ l.balance \in [Accounts -> Nat]
    BY <1>1, <1>2, LedgerFields, People
<1>4. l = [balance |-> l.balance, last |-> l.last, received |-> l.received]
    BY <1>1, LedgerFields
<1>5. m = [l EXCEPT !.balance = b]
    BY <1>2
<1>6. /\ m.balance = b /\ m.last = l.last /\ m.received = l.received
      /\ m = [balance |-> m.balance, last |-> m.last, received |-> m.received]
    BY <1>4, <1>5
<1>7. m \in Ledger
    BY <1>1, <1>3, <1>6, LedgerFields, LedgerBuilt
<1>8. GoodLedger(m, rate)
    BY <1>6, <1>7 DEF GoodLedger
<1>9. PICK f : f = l.balance
    OBVIOUS
<1>10. SumFunctionOnSet(b, Accounts) = SumFunctionOnSet(f, Accounts) - f[Vault] + b[Vault]
    <2>1. \A a \in Accounts : f[a] \in Int /\ b[a] \in Int
        BY <1>3, <1>9
    <2>2. \A a \in Accounts \ {Vault} : f[a] = b[a]
        BY <1>3, <1>9
    <2> QED BY <2>1, <2>2, People, SumChange
<1>11. Total(m) = Total(l) - l.balance[Vault] + n
    BY <1>3, <1>6, <1>9, <1>10 DEF Total
<1>12. ASSUME NEW k, Holders(k, l, rate) PROVE Holders(k, m, rate)
    <2>1. \A p \in Players : m.balance[p] = l.balance[p]
        BY <1>3, <1>6, People
    <2> QED BY <1>6, <1>12, <2>1 DEF Holders, KeepsClaim, Kept, PaidOnce, ErasedShort, Quiet
<1> QED BY <1>8, <1>11, <1>12

-----------------------------------------------------------------------------
(* The transactions.                                                       *)

Counters ==
    /\ perToken \in Nat /\ totalCommission \in Nat
    /\ totalSupply \in Nat /\ unbacked \in Nat
    /\ held \in [Coins -> Nat]

\* The supply is the sum of the balances and is backed by coins, but for what was
\* minted without any.
LedgerInv ==
    /\ Counters
    /\ GoodLedger(ledger, perToken)
    /\ totalSupply = Total(ledger)
    /\ SupplyIsBacked

\* What every step does: the commission per token only rises, marks stay behind it,
\* no claim is lost at the rate of before or of after the step, and the supply stays
\* balanced and backed.
GoodStep ==
    /\ Counters'
    /\ perToken <= perToken'
    /\ GoodLedger(ledger', perToken')
    /\ \E rate \in {perToken, perToken'} : Holders(ledger, ledger', rate)
    /\ totalSupply' = Total(ledger')
    /\ SupplyIsBacked'

Finite == IsFiniteSet(Accounts) /\ IsFiniteSet(Coins)

LEMMA CommissionGrows ==
    ASSUME Counters, NEW amount \in Nat, NoCommission \/ Accumulate(amount)
    PROVE  perToken' \in Nat /\ perToken <= perToken' /\ totalCommission' \in Nat
<1>1. CASE NoCommission
    BY <1>1 DEF NoCommission, Counters
<1>2. CASE Accumulate(amount)
    <2>1. PICK t, c, s \in Nat : t = perToken /\ c = totalCommission /\ s = totalSupply
        BY DEF Counters
    <2>2. s # 0 /\ amount * ONE \in Nat
        BY <1>2, <2>1, LedgerAssumption DEF Accumulate
    <2>3. PICK q \in Nat : q = (amount * ONE) \div s
        BY <2>2, DivBounds
    <2>4. perToken' = t + q /\ totalCommission' = c + amount
        BY <1>2, <2>1, <2>3 DEF Accumulate
    <2> QED BY <2>1, <2>4
<1> QED BY <1>1, <1>2

LEMMA SameHolders ==
    ASSUME NEW rate \in Nat, NEW l, GoodLedger(l, rate)
    PROVE  Holders(l, l, rate)
<1>1. \A p \in Players : l.balance[p] <= l.balance[p]
    BY People, LedgerFields DEF GoodLedger
<1> QED BY <1>1 DEF Holders, KeepsClaim, Kept, PaidOnce, ErasedShort, Quiet

LEMMA GoodLater ==
    ASSUME NEW rate \in Nat, NEW later \in Nat, rate <= later, NEW l, GoodLedger(l, rate)
    PROVE  GoodLedger(l, later)
<1>1. \A a \in Accounts : l.last[a] \in Nat /\ l.last[a] <= rate
    BY LedgerFields DEF GoodLedger
<1>2. \A a \in Accounts : l.last[a] <= later
    BY <1>1
<1> QED BY <1>2 DEF GoodLedger

LEMMA TransferGood ==
    ASSUME Finite, LedgerInv, NEW from \in Accounts, NEW to \in Accounts,
           NEW amount \in Nat, Moves(from, to, amount)
    PROVE  /\ GoodLedger(ledger', perToken) /\ Holders(ledger, ledger', perToken)
           /\ Total(ledger') = totalSupply
<1>1. PICK l, t : l = ledger /\ t = perToken
    OBVIOUS
<1>2. PICK m : m = Transferred(l, from, to, amount, t)
    OBVIOUS
<1>3. t \in Nat /\ GoodLedger(l, t) /\ Total(l) = totalSupply
      /\ CanTransfer(l, from, to, amount, t) /\ m = ledger'
    BY <1>1, <1>2 DEF LedgerInv, Counters, Moves
<1>4. GoodLedger(m, t) /\ Total(m) = Total(l) /\ Holders(l, m, t)
    BY <1>2, <1>3, TransferredKeeps DEF Finite
<1> QED BY <1>1, <1>3, <1>4

\* A step beside which only the commission changes.
LEMMA SettledStep ==
    ASSUME Finite, LedgerInv, GoodLedger(ledger', perToken),
           Holders(ledger, ledger', perToken), Total(ledger') = totalSupply,
           NEW fee \in Nat, NoCommission \/ Accumulate(fee),
           UNCHANGED <<totalSupply, held, unbacked>>
    PROVE  GoodStep
<1>1. perToken' \in Nat /\ perToken <= perToken' /\ totalCommission' \in Nat
    BY CommissionGrows DEF LedgerInv
<1>2. Counters'
    BY <1>1 DEF LedgerInv, Counters
<1>3. totalSupply' = Total(ledger') /\ SupplyIsBacked'
    BY DEF LedgerInv, SupplyIsBacked, Worth
<1>4. GoodLedger(ledger', perToken')
    <2>1. PICK t, n, m : t = perToken /\ n = perToken' /\ m = ledger'
        OBVIOUS
    <2>2. t \in Nat /\ n \in Nat /\ t <= n /\ GoodLedger(m, t)
        BY <1>1, <2>1 DEF LedgerInv, Counters
    <2>3. GoodLedger(m, n)
        BY <2>2, GoodLater
    <2> QED BY <2>1, <2>3
<1> QED BY <1>1, <1>2, <1>3, <1>4 DEF GoodStep

LEMMA TransferStep ==
    ASSUME Finite, LedgerInv, NEW from \in Accounts, NEW to \in Accounts,
           NEW amount \in Nat, Moves(from, to, amount),
           NEW fee \in Nat, NoCommission \/ Accumulate(fee),
           UNCHANGED <<totalSupply, held, unbacked>>
    PROVE  GoodStep
<1>1. /\ GoodLedger(ledger', perToken) /\ Holders(ledger, ledger', perToken)
      /\ Total(ledger') = totalSupply
    BY TransferGood
<1> QED BY <1>1, SettledStep

LEMMA PayoutStep ==
    ASSUME Finite, LedgerInv, NEW p \in Players, NEW earnings \in Nat, NEW fee \in Nat,
           Payout(p, earnings, fee)
    PROVE  GoodStep
<1>1. UNCHANGED <<totalSupply, held, unbacked>> /\ (NoCommission \/ Accumulate(fee))
    BY DEF Payout
<1>2. CASE earnings > fee
    <2>1. PICK net \in Nat : net = earnings - fee
        BY <1>2
    <2>2. Moves(Vault, p, net)
        BY <1>2, <2>1 DEF Payout
    <2> QED BY <1>1, <2>1, <2>2, People, TransferStep
<1>3. CASE ~(earnings > fee)
    <2>1. ledger' = ledger
        BY <1>3 DEF Payout
    <2>2. PICK l, t : l = ledger /\ t = perToken
        OBVIOUS
    <2>3. GoodLedger(l, t) /\ Holders(l, l, t) /\ Total(l) = totalSupply
        BY <2>2, SameHolders DEF LedgerInv, Counters
    <2> QED BY <1>1, <2>1, <2>2, <2>3, SettledStep
<1> QED BY <1>2, <1>3

\* The vault has more of a coin, by x, whose worth is minted or not.
LEMMA MoreOfCoin ==
    ASSUME Finite, Counters, NEW c \in Coins, NEW x \in Nat, NEW more,
           more = [held EXCEPT ![c] = held[c] + x]
    PROVE  /\ more \in [Coins -> Nat]
           /\ Worth(held) <= Worth(more)
           /\ \A y \in Nat : x = AdjustedCoin(y, CoinInfo[c])
                  => Worth(more) = Worth(held) + CoinToVUND(y, CoinInfo[c])
<1>1. PICK h : h = held
    OBVIOUS
<1>2. h \in [Coins -> Nat] /\ CoinInfo[c] \in Coin
    BY <1>1, CoinsAreGood DEF Counters
<1>3. PICK a, n \in Nat : a = h[c] /\ n = a + x
    BY <1>2
<1>4. more = [h EXCEPT ![c] = n] /\ more \in [Coins -> Nat]
    BY <1>1, <1>2, <1>3
<1>5. PICK w, v \in Nat : w = Worth(h) /\ v = Worth(more)
    BY <1>2, <1>4, WorthType DEF Finite
<1>6. PICK i, j \in Nat : i = CoinToVUND(a, CoinInfo[c]) /\ j = CoinToVUND(n, CoinInfo[c])
    BY <1>2, ConversionTypes
<1>7. v = w - i + j
    <2>1. Worth(more) = Worth(h) - CoinToVUND(h[c], CoinInfo[c]) + CoinToVUND(n, CoinInfo[c])
        BY <1>2, <1>4, WorthOfMore DEF Finite
    <2> QED BY <1>3, <1>5, <1>6, <2>1
<1>8. i <= j
    BY <1>2, <1>3, <1>6, ConversionGrows
<1>9. ASSUME NEW y \in Nat, x = AdjustedCoin(y, CoinInfo[c])
      PROVE  Worth(more) = Worth(held) + CoinToVUND(y, CoinInfo[c])
    <2>1. PICK k \in Nat : k = CoinToVUND(y, CoinInfo[c])
        BY <1>2, ConversionTypes
    <2>2. j = i + k
        BY <1>2, <1>3, <1>6, <1>9, <2>1, AdjustedIsExact
    <2> QED BY <1>1, <1>5, <1>7, <2>1, <2>2
<1>10. w <= v
    BY <1>7, <1>8
<1> QED BY <1>1, <1>4, <1>5, <1>9, <1>10

\* Minting to the vault, while its coins gain as much or the mint is recorded.
LEMMA MintStep ==
    ASSUME Finite, LedgerInv, NEW v \in Nat, Mint(v), held' \in [Coins -> Nat],
           unbacked' \in Nat, Worth(held') + unbacked' = Worth(held) + unbacked + v
    PROVE  GoodStep
<1>1. PICK l, b, t : l = ledger /\ b = l.balance[Vault] /\ t = perToken
    OBVIOUS
<1>2. GoodLedger(l, t) /\ b \in Nat /\ t \in Nat
    BY <1>1, LedgerFields, People DEF LedgerInv, GoodLedger, Counters
<1>3. PICK n \in Nat : n = b + v
    BY <1>2
<1>4. PICK m : m = [l EXCEPT !.balance = [l.balance EXCEPT ![Vault] = n]]
    OBVIOUS
<1>5. GoodLedger(m, t) /\ Total(m) = Total(l) - b + n /\ Holders(l, m, t)
    BY <1>1, <1>2, <1>4, SameHolders, VaultSet DEF Finite
<1>6. ledger' = m /\ totalSupply' = totalSupply + v /\ NoCommission
    BY <1>1, <1>3, <1>4 DEF Mint
<1>7. perToken' = t /\ totalCommission' \in Nat
    BY <1>1, <1>6 DEF NoCommission, LedgerInv, Counters
<1>8. PICK s, u, w \in Nat : /\ s = totalSupply /\ u = unbacked /\ w = Worth(held)
                              /\ s = Total(l) /\ s <= w + u
    BY <1>1, WorthType DEF LedgerInv, SupplyIsBacked, Counters, Finite
<1>9. PICK z \in Nat : z = s + v
    OBVIOUS
<1>10. totalSupply' = z /\ Total(m) = z /\ z <= Worth(held') + unbacked'
    BY <1>2, <1>3, <1>5, <1>6, <1>8, <1>9
<1>11. Counters'
    BY <1>2, <1>7, <1>10 DEF Counters
<1>12. SupplyIsBacked'
    BY <1>10 DEF SupplyIsBacked, Worth
<1> QED BY <1>1, <1>2, <1>5, <1>6, <1>7, <1>10, <1>11, <1>12 DEF GoodStep

LEMMA StakeCoinStep ==
    ASSUME Finite, LedgerInv, NEW c \in Coins, NEW amount \in Nat, StakeCoin(c, amount)
    PROVE  GoodStep
<1>1. CoinInfo[c] \in Coin
    BY CoinsAreGood
<1>2. PICK v, x \in Nat :
          v = CoinToVUND(amount, CoinInfo[c]) /\ x = AdjustedCoin(amount, CoinInfo[c])
    BY <1>1, ConversionTypes
<1>3. PICK h : h = [held EXCEPT ![c] = held[c] + x]
    OBVIOUS
<1>4. h \in [Coins -> Nat] /\ Worth(h) = Worth(held) + v
    BY <1>2, <1>3, MoreOfCoin DEF LedgerInv
<1>5. held' = h /\ unbacked' = unbacked /\ Mint(v)
    BY <1>2, <1>3 DEF StakeCoin
<1>6. PICK u, w \in Nat : u = unbacked /\ w = Worth(held)
    BY WorthType DEF LedgerInv, Counters, Finite
<1>7. Worth(held') = Worth(h)
    BY <1>5 DEF Worth
<1>8. Worth(held') + unbacked' = Worth(held) + unbacked + v
    BY <1>4, <1>5, <1>6, <1>7
<1> QED BY <1>4, <1>5, <1>6, <1>8, MintStep

LEMMA StakeOtherStep ==
    ASSUME Finite, LedgerInv, NEW amount \in Nat, StakeOther(amount)
    PROVE  GoodStep
<1>1. held' = held /\ unbacked' = unbacked + amount /\ Mint(amount)
    BY DEF StakeOther
<1>2. PICK u, w \in Nat : u = unbacked /\ w = Worth(held)
    BY WorthType DEF LedgerInv, Counters, Finite
<1>3. Worth(held') = Worth(held)
    BY <1>1 DEF Worth
<1>4. /\ held' \in [Coins -> Nat] /\ unbacked' \in Nat
      /\ Worth(held') + unbacked' = Worth(held) + unbacked + amount
    BY <1>1, <1>2, <1>3 DEF LedgerInv, Counters
<1> QED BY <1>1, <1>4, MintStep

LEMMA SendCoinStep ==
    ASSUME Finite, LedgerInv, NEW c \in Coins, NEW amount \in Nat, SendCoin(c, amount)
    PROVE  GoodStep
<1>1. PICK h : h = [held EXCEPT ![c] = held[c] + amount]
    OBVIOUS
<1>2. h \in [Coins -> Nat] /\ Worth(held) <= Worth(h)
    BY <1>1, MoreOfCoin DEF LedgerInv
<1>3. held' = h /\ NoCommission /\ UNCHANGED <<ledger, totalSupply, unbacked>>
    BY <1>1 DEF SendCoin
<1>4. PICK s, u, w, v \in Nat : /\ s = totalSupply /\ u = unbacked
                                 /\ w = Worth(held) /\ v = Worth(h) /\ s <= w + u
    BY <1>2, WorthType DEF LedgerInv, SupplyIsBacked, Counters, Finite
<1>5. s <= v + u
    BY <1>2, <1>4
<1>6. Counters' /\ perToken <= perToken'
    BY <1>2, <1>3 DEF LedgerInv, Counters, NoCommission
<1>7. SupplyIsBacked'
    BY <1>3, <1>4, <1>5 DEF SupplyIsBacked, Worth
<1>8. PICK l, t : l = ledger /\ t = perToken
    OBVIOUS
<1>9. GoodLedger(l, t) /\ Holders(l, l, t) /\ Total(l) = totalSupply
    BY <1>8, SameHolders DEF LedgerInv, Counters
<1>10. ledger' = l /\ perToken' = t /\ totalSupply' = Total(ledger')
    BY <1>3, <1>8, <1>9 DEF NoCommission
<1> QED BY <1>6, <1>7, <1>8, <1>9, <1>10 DEF GoodStep

LEMMA InfoIsCoin ==
    ASSUME NEW token
    PROVE  InfoOf(token) \in Coin
<1>1. [scale |-> 1, wider |-> FALSE] \in Coin
    BY DEF Coin
<1> QED BY <1>1, CoinsAreGood DEF InfoOf

\* The commission of a swap and what of the coin remains.
LEMMA SwapOutKeeps ==
    ASSUME Counters, NEW token, OfVault(token) \in Nat, NEW out \in Nat, NEW pct \in Nat,
           pct <= pct_denom, SwapOut(token, out, pct)
    PROVE  /\ perToken' \in Nat /\ perToken <= perToken' /\ totalCommission' \in Nat
           /\ NetOut(out, pct) \in Nat /\ NetOut(out, pct) <= OfVault(token)
<1>1. InfoOf(token) \in Coin /\ pct_denom \in Nat \ {0} /\ ONE \in Nat
    BY InfoIsCoin, LedgerAssumption
<1>2. PICK k \in Nat : k = (out * pct) \div pct_denom
    <2>1. out * pct \in Nat
        OBVIOUS
    <2> QED BY <1>1, <2>1, DivBounds
<1>3. k <= out
    <2>1. out * pct <= pct_denom * out
        <3>1. out * pct <= out * pct_denom
            BY <1>1
        <3> QED BY <1>1, <3>1
    <2>2. out * pct < pct_denom * out + pct_denom
        <3>1. out * pct \in Nat /\ pct_denom * out \in Nat
            BY <1>1
        <3> QED BY <1>1, <2>1, <3>1
    <2>3. out * pct \in Nat
        OBVIOUS
    <2> QED BY <1>1, <1>2, <2>2, <2>3, DivAtMost
<1>4. CoinToVUND(k, InfoOf(token)) \in Nat /\ VUNDToCoin(ONE, InfoOf(token)) \in Nat
    BY <1>1, ConversionTypes
<1>5. /\ Accumulate(CoinToVUND(k, InfoOf(token)))
      /\ OfVault(token) >= out + VUNDToCoin(ONE, InfoOf(token))
    BY <1>2 DEF SwapOut
<1>6. perToken' \in Nat /\ perToken <= perToken' /\ totalCommission' \in Nat
    BY <1>4, <1>5, CommissionGrows
<1>7. out <= OfVault(token)
    BY <1>4, <1>5
<1>8. NetOut(out, pct) = out - k
    BY <1>2 DEF NetOut
<1> QED BY <1>3, <1>6, <1>7, <1>8

\* The vault's balance takes what the supply lacks, from the ledger of a transfer.
LEMMA RebalanceStep ==
    ASSUME Finite, LedgerInv, NEW rate \in {perToken, perToken'}, NEW l,
           GoodLedger(l, perToken'), Holders(ledger, l, rate), Total(l) = totalSupply,
           NEW h \in [Coins -> Nat], held' = h, Rebalance(l, h),
           perToken' \in Nat, perToken <= perToken', totalCommission' \in Nat
    PROVE  GoodStep
<1>1. PICK w, s, b \in Nat : w = Worth(h) /\ s = totalSupply /\ b = l.balance[Vault]
    BY WorthType, LedgerFields, People DEF Finite, LedgerInv, Counters, GoodLedger
<1>2. /\ b + w >= s /\ totalSupply' = w /\ unbacked' = 0
      /\ ledger' = [l EXCEPT !.balance = [l.balance EXCEPT ![Vault] = b + w - s]]
    BY <1>1 DEF Rebalance, SupplySet
<1>3. PICK n \in Nat : n = b + w - s
    BY <1>1, <1>2
<1>4. PICK m : m = [l EXCEPT !.balance = [l.balance EXCEPT ![Vault] = n]]
    OBVIOUS
<1>5. ledger' = m
    BY <1>2, <1>3, <1>4
<1>6. PICK t \in Nat : t = perToken'
    OBVIOUS
<1>7. GoodLedger(m, t) /\ Total(m) = Total(l) - b + n
    <2>1. GoodLedger(l, t)
        BY <1>6
    <2>2. GoodLedger(m, t) /\ Total(m) = Total(l) - l.balance[Vault] + n
        BY <1>4, <2>1, VaultSet DEF Finite
    <2> QED BY <1>1, <2>2
<1>8. Holders(ledger, m, rate)
    <2>1. \A p \in Players : m.balance[p] = l.balance[p] /\ m.last[p] = l.last[p]
        <3>1. l.balance \in [Accounts -> Nat]
              /\ l = [balance |-> l.balance, last |-> l.last, received |-> l.received]
            BY LedgerFields DEF GoodLedger
        <3> QED BY <1>4, <3>1, People
    <2>2. m.received = l.received
        <3>1. l = [balance |-> l.balance, last |-> l.last, received |-> l.received]
            BY LedgerFields DEF GoodLedger
        <3> QED BY <1>4, <3>1
    <2> QED BY <2>1, <2>2 DEF Holders, KeepsClaim, Kept, PaidOnce, ErasedShort, Quiet
<1>9. Total(m) = w
    BY <1>1, <1>3, <1>7
<1>10. Counters'
    BY <1>2 DEF LedgerInv, Counters
<1>11. SupplyIsBacked'
    <2>1. Worth(held') = w
        BY <1>1 DEF Worth
    <2>2. w <= w + 0
        OBVIOUS
    <2> QED BY <1>2, <2>1, <2>2 DEF SupplyIsBacked, Worth
<1> QED BY <1>2, <1>5, <1>6, <1>7, <1>8, <1>9, <1>10, <1>11 DEF GoodStep

LEMMA PctType ==
    ASSUME NEW pct \in Premiums \union {0}
    PROVE  pct \in Nat /\ pct <= pct_denom
<1>1. pct_denom \in Nat
    BY LedgerAssumption
<1>2. CASE pct \in Premiums
    BY <1>1, <1>2, LedgerAssumption
<1>3. CASE pct = 0
    BY <1>1, <1>3
<1> QED BY <1>2, <1>3

LEMMA SwapCoinsStep ==
    ASSUME Finite, LedgerInv, NEW c \in Coins, NEW d \in Coins, NEW amountIn \in Nat,
           NEW out \in Nat, NEW pct \in Premiums, SwapCoins(c, d, amountIn, out, pct)
    PROVE  GoodStep
<1>1. pct \in Nat /\ pct <= pct_denom
    BY PctType
<1>2. OfVault(d) = held[d] /\ held[d] \in Nat
    BY DEF OfVault, LedgerInv, Counters
<1>3. /\ perToken' \in Nat /\ perToken <= perToken' /\ totalCommission' \in Nat
      /\ NetOut(out, pct) \in Nat /\ NetOut(out, pct) <= held[d]
    BY <1>1, <1>2, SwapOutKeeps DEF SwapCoins, LedgerInv
<1>4. PICK net \in Nat : net = NetOut(out, pct)
    BY <1>3
<1>5. PICK h : h = [held EXCEPT ![c] = held[c] + amountIn, ![d] = held[d] - net]
    OBVIOUS
<1>6. h \in [Coins -> Nat]
    <2>1. held \in [Coins -> Nat] /\ net <= held[d]
        BY <1>3, <1>4 DEF LedgerInv, Counters
    <2> QED BY <1>5, <2>1
<1>7. held' = h /\ Rebalance(ledger, held')
    BY <1>4, <1>5 DEF SwapCoins, LedgerInv, Counters
<1>8. PICK l, t, n : l = ledger /\ t = perToken /\ n = perToken'
    OBVIOUS
<1>9. GoodLedger(l, t) /\ Total(l) = totalSupply /\ t \in Nat /\ n \in Nat /\ t <= n
    BY <1>3, <1>8 DEF LedgerInv, Counters
<1>10. Holders(l, l, t) /\ GoodLedger(l, n)
    BY <1>9, SameHolders, GoodLater
<1>11. Rebalance(l, h)
    BY <1>7, <1>8 DEF Rebalance, SupplySet, Worth
<1>12. GoodLedger(l, perToken') /\ Holders(ledger, l, perToken)
    BY <1>8, <1>10
<1> QED BY <1>3, <1>6, <1>7, <1>9, <1>11, <1>12, RebalanceStep

\* What is paid in or out at the rate of after the swap.
LEMMA SwapTransfer ==
    ASSUME Finite, LedgerInv, perToken' \in Nat, perToken <= perToken',
           NEW from \in Accounts, NEW to \in Accounts, NEW amount \in Nat,
           CanTransfer(ledger, from, to, amount, perToken'),
           NEW l, l = Transferred(ledger, from, to, amount, perToken')
    PROVE  /\ GoodLedger(l, perToken') /\ Holders(ledger, l, perToken')
           /\ Total(l) = totalSupply
<1>1. PICK k, t, n : k = ledger /\ t = perToken /\ n = perToken'
    OBVIOUS
<1>2. GoodLedger(k, t) /\ Total(k) = totalSupply /\ t \in Nat /\ n \in Nat /\ t <= n
    BY <1>1 DEF LedgerInv, Counters
<1>3. GoodLedger(k, n)
    BY <1>2, GoodLater
<1>4. CanTransfer(k, from, to, amount, n) /\ l = Transferred(k, from, to, amount, n)
    BY <1>1
<1>5. GoodLedger(l, n) /\ Total(l) = Total(k) /\ Holders(k, l, n)
    BY <1>2, <1>3, <1>4, TransferredKeeps DEF Finite
<1> QED BY <1>1, <1>2, <1>5

LEMMA SwapToCoinStep ==
    ASSUME Finite, LedgerInv, NEW p \in Players, NEW d \in Coins, NEW amountIn \in Nat,
           NEW out \in Nat, NEW pct \in Premiums \union {0},
           SwapToCoin(p, d, amountIn, out, pct)
    PROVE  GoodStep
<1>1. pct \in Nat /\ pct <= pct_denom
    BY PctType
<1>2. OfVault(d) = held[d] /\ held[d] \in Nat
    BY DEF OfVault, LedgerInv, Counters
<1>3. /\ perToken' \in Nat /\ perToken <= perToken' /\ totalCommission' \in Nat
      /\ NetOut(out, pct) \in Nat /\ NetOut(out, pct) <= held[d]
    BY <1>1, <1>2, SwapOutKeeps DEF SwapToCoin, LedgerInv
<1>4. PICK net \in Nat : net = NetOut(out, pct)
    BY <1>3
<1>5. PICK h, l : /\ h = [held EXCEPT ![d] = held[d] - net]
                  /\ l = Transferred(ledger, p, Vault, amountIn, perToken')
    OBVIOUS
<1>6. h \in [Coins -> Nat]
    BY <1>2, <1>3, <1>4, <1>5 DEF LedgerInv, Counters
<1>7. /\ CanTransfer(ledger, p, Vault, amountIn, perToken')
      /\ held' = h /\ Rebalance(l, held')
    BY <1>4, <1>5 DEF SwapToCoin
<1>8. GoodLedger(l, perToken') /\ Holders(ledger, l, perToken') /\ Total(l) = totalSupply
    BY <1>3, <1>5, <1>7, People, SwapTransfer
<1>9. Rebalance(l, h)
    BY <1>7 DEF Rebalance, SupplySet, Worth
<1> QED BY <1>3, <1>6, <1>7, <1>8, <1>9, RebalanceStep

LEMMA SwapVUNDStep ==
    ASSUME Finite, LedgerInv, NEW p \in Players, NEW d \in Coins, NEW amount \in Nat,
           SwapVUND(p, d, amount)
    PROVE  GoodStep
<1>1. CoinInfo[d] \in Coin
    BY CoinsAreGood
<1>2. PICK out, exact \in Nat : /\ out = VUNDToCoin(amount, CoinInfo[d])
                                /\ exact = AdjustedVUND(amount, CoinInfo[d])
    BY <1>1, ConversionTypes
<1>3. SwapToCoin(p, d, exact, out, 0)
    BY <1>2 DEF SwapVUND
<1> QED BY <1>2, <1>3, SwapToCoinStep

LEMMA VaultHasVUND ==
    ASSUME LedgerInv
    PROVE  OfVault(Vault) \in Nat
<1>1. ledger.balance[Vault] \in Nat
    BY LedgerFields, People DEF LedgerInv, GoodLedger
<1> QED BY <1>1, LedgerAssumption DEF OfVault

LEMMA SwapToOtherStep ==
    ASSUME Finite, LedgerInv, NEW p \in Players, NEW c \in Coins, NEW amountIn \in Nat,
           NEW out \in Nat, NEW pct \in Premiums \union {0},
           SwapToOther(p, c, amountIn, out, pct)
    PROVE  GoodStep
<1>1. pct \in Nat /\ pct <= pct_denom
    BY PctType
<1>2. OfVault(Vault) \in Nat
    BY VaultHasVUND
<1>3. /\ perToken' \in Nat /\ perToken <= perToken' /\ totalCommission' \in Nat
      /\ NetOut(out, pct) \in Nat
    BY <1>1, <1>2, SwapOutKeeps DEF SwapToOther, LedgerInv
<1>4. PICK net \in Nat : net = NetOut(out, pct)
    BY <1>3
<1>5. PICK h, l : /\ h = [held EXCEPT ![c] = held[c] + amountIn]
                  /\ l = Transferred(ledger, Vault, p, net, perToken')
    OBVIOUS
<1>6. h \in [Coins -> Nat]
    BY <1>5, MoreOfCoin DEF LedgerInv
<1>7. /\ CanTransfer(ledger, Vault, p, net, perToken')
      /\ held' = h /\ Rebalance(l, held')
    BY <1>4, <1>5 DEF SwapToOther
<1>8. GoodLedger(l, perToken') /\ Holders(ledger, l, perToken') /\ Total(l) = totalSupply
    BY <1>3, <1>5, <1>7, People, SwapTransfer
<1>9. Rebalance(l, h)
    BY <1>7 DEF Rebalance, SupplySet, Worth
<1> QED BY <1>3, <1>6, <1>7, <1>8, <1>9, RebalanceStep

LEMMA SwapOthersStep ==
    ASSUME Finite, LedgerInv, NEW p \in Players, NEW amountIn \in Nat, NEW out \in Nat,
           NEW pct \in Premiums \union {0}, SwapOthers(p, amountIn, out, pct)
    PROVE  GoodStep
<1>1. pct \in Nat /\ pct <= pct_denom
    BY PctType
<1>2. OfVault(Vault) \in Nat
    BY VaultHasVUND
<1>3. /\ perToken' \in Nat /\ perToken <= perToken' /\ totalCommission' \in Nat
      /\ NetOut(out, pct) \in Nat
    BY <1>1, <1>2, SwapOutKeeps DEF SwapOthers, LedgerInv
<1>4. PICK net \in Nat : net = NetOut(out, pct)
    BY <1>3
<1>5. PICK l, t, n, h : l = ledger /\ t = perToken /\ n = perToken' /\ h = held
    OBVIOUS
<1>6. PICK k : k = Transferred(l, p, Vault, amountIn, n)
    OBVIOUS
<1>7. PICK m : m = Transferred(k, Vault, p, net, n)
    OBVIOUS
<1>8. /\ CanTransfer(l, p, Vault, amountIn, n) /\ CanTransfer(k, Vault, p, net, n)
      /\ Rebalance(m, h) /\ held' = h
    BY <1>4, <1>5, <1>6, <1>7 DEF SwapOthers
<1>9. /\ GoodLedger(l, t) /\ Total(l) = totalSupply /\ t \in Nat /\ n \in Nat /\ t <= n
      /\ h \in [Coins -> Nat]
    BY <1>3, <1>5 DEF LedgerInv, Counters
<1>10. GoodLedger(l, n)
    BY <1>9, GoodLater
<1>11. GoodLedger(m, n) /\ Total(m) = Total(l) /\ Holders(l, m, n)
    BY <1>4, <1>6, <1>7, <1>8, <1>9, <1>10, ThereAndBack DEF Finite
<1>12. GoodLedger(m, perToken') /\ Holders(ledger, m, perToken') /\ Total(m) = totalSupply
    BY <1>5, <1>9, <1>11
<1> QED BY <1>3, <1>8, <1>9, <1>12, RebalanceStep

LEMMA EveryStep ==
    ASSUME Finite, LedgerInv, [Next]_vars
    PROVE  GoodStep
<1>1. \A amount \in Amounts : amount \in Nat
    BY LedgerAssumption
<1>2. ASSUME NEW p \in Players, NEW amount \in Amounts
      PROVE  /\ \A to \in Accounts : Transfer(p, to, amount) => GoodStep
             /\ Donate(p, amount) => GoodStep
             /\ \A fee \in Fees : Payout(p, amount, fee) => GoodStep
             /\ \A d \in Coins : SwapVUND(p, d, amount) => GoodStep
    <2>1. amount \in Nat /\ p \in Accounts /\ Vault \in Accounts /\ 0 \in Nat
          /\ \A fee \in Fees : fee \in Nat
        BY LedgerAssumption, People
    <2>2. ASSUME NEW to \in Accounts, Transfer(p, to, amount) PROVE GoodStep
        BY <2>1, <2>2, TransferStep DEF Transfer
    <2>3. ASSUME Donate(p, amount) PROVE GoodStep
        BY <2>1, <2>3, TransferStep DEF Donate
    <2>4. ASSUME NEW fee \in Fees, Payout(p, amount, fee) PROVE GoodStep
        BY <2>1, <2>4, PayoutStep
    <2>5. ASSUME NEW d \in Coins, SwapVUND(p, d, amount) PROVE GoodStep
        BY <2>1, <2>5, SwapVUNDStep
    <2> QED BY <2>2, <2>3, <2>4, <2>5
<1>3. ASSUME NEW p \in Players, NEW in \in Amounts, NEW out \in Amounts, NEW pct \in Premiums
      PROVE  /\ \A c \in Coins : /\ SwapToCoin(p, c, in, out, pct) => GoodStep
                                 /\ SwapToOther(p, c, in, out, pct) => GoodStep
             /\ SwapOthers(p, in, out, pct) => GoodStep
    <2>1. in \in Nat /\ out \in Nat /\ pct \in Premiums \union {0}
        BY <1>1
    <2> QED BY <2>1, SwapToCoinStep, SwapToOtherStep, SwapOthersStep
<1>4. ASSUME NEW c \in Coins, NEW amount \in Amounts
      PROVE  /\ StakeCoin(c, amount) => GoodStep
             /\ SendCoin(c, amount) => GoodStep
             /\ \A d \in Coins, out \in Amounts, pct \in Premiums :
                   SwapCoins(c, d, amount, out, pct) => GoodStep
    <2>1. amount \in Nat /\ \A out \in Amounts : out \in Nat
        BY <1>1
    <2>2. ASSUME NEW d \in Coins, NEW out \in Amounts, NEW pct \in Premiums,
                 SwapCoins(c, d, amount, out, pct)
          PROVE  GoodStep
        BY <2>1, <2>2, SwapCoinsStep
    <2> QED BY <2>1, <2>2, StakeCoinStep, SendCoinStep
<1>5. ASSUME NEW amount \in Amounts, StakeOther(amount) PROVE GoodStep
    BY <1>1, <1>5, StakeOtherStep
<1>6. CASE UNCHANGED vars
    <2>1. UNCHANGED <<totalSupply, held, unbacked>> /\ NoCommission /\ ledger' = ledger
        BY <1>6 DEF vars, NoCommission
    <2>2. PICK l, t : l = ledger /\ t = perToken
        OBVIOUS
    <2>3. GoodLedger(l, t) /\ Holders(l, l, t) /\ Total(l) = totalSupply
        BY <2>2, SameHolders DEF LedgerInv, Counters
    <2>4. 0 \in Nat
        OBVIOUS
    <2> QED BY <2>1, <2>2, <2>3, <2>4, SettledStep
<1> QED BY <1>2, <1>3, <1>4, <1>5, <1>6 DEF Next, HolderCall, OtherCall, CoinCall

LEMMA LedgerInit ==
    ASSUME Finite, Init
    PROVE  LedgerInv
<1>1. PICK l : l = ledger
    OBVIOUS
<1>2. l = [balance |-> [a \in Accounts |-> 0], last |-> [a \in Accounts |-> 0],
           received |-> [a \in Accounts |-> 0]]
      /\ perToken = 0 /\ totalSupply = 0 /\ Counters
    BY <1>1 DEF Init, Counters
<1>3. l \in Ledger
    BY <1>2 DEF Ledger
<1>4. GoodLedger(l, 0)
    BY <1>2, <1>3 DEF GoodLedger
<1>5. Total(l) = 0
    <2>1. PICK f : f = l.balance
        OBVIOUS
    <2>2. \A a \in Accounts : f[a] = 0
        BY <1>2, <2>1
    <2>3. SumFunctionOnSet(f, Accounts) = SumFunctionOnSet(f, {})
        BY <2>2, SumMasked DEF Finite
    <2> QED BY <2>1, <2>3, SumEmpty DEF Total
<1>6. Worth(held) \in Nat
    BY <1>2, WorthType DEF Counters, Finite
<1>7. SupplyIsBacked
    BY <1>2, <1>6 DEF SupplyIsBacked, Counters
<1> QED BY <1>1, <1>2, <1>4, <1>5, <1>7 DEF LedgerInv

LEMMA LedgerStep ==
    ASSUME Finite, LedgerInv, [Next]_vars
    PROVE  LedgerInv'
<1>1. GoodStep
    BY EveryStep
<1> QED BY <1>1 DEF GoodStep, LedgerInv, GoodLedger, Total

-----------------------------------------------------------------------------
LEMMA LedgerInvHolds ==
    ASSUME IsFiniteSet(Players), IsFiniteSet(Coins)
    PROVE  Spec => []LedgerInv
<1>1. Finite
    BY FS_AddElement DEF Finite, Accounts
<1>2. Init => LedgerInv
    BY <1>1, LedgerInit
<1>3. LedgerInv /\ [Next]_vars => LedgerInv'
    BY <1>1, LedgerStep
<1> QED BY <1>2, <1>3, PTL DEF Spec

\* The variables keep their types: no balance, mark, supply or stake underflows,
\* whatever is paid out, swapped or burnt (Vault.sol, ERC20.sol).
THEOREM LedgerTypes ==
    ASSUME IsFiniteSet(Players), IsFiniteSet(Coins)
    PROVE  Spec => []TypeOK
<1>1. LedgerInv => TypeOK
    BY DEF LedgerInv, Counters, GoodLedger, TypeOK
<1> QED BY <1>1, LedgerInvHolds, PTL

\* Transfers to oneself and to the vault, claims the vault cannot pay, mints and
\* rebalancing leave the supply the sum of all balances (ERC20.sol, Vault.sol 980-1001).
THEOREM BalancesAddUp ==
    ASSUME IsFiniteSet(Players), IsFiniteSet(Coins)
    PROVE  Spec => []SupplyIsBalances
<1>1. LedgerInv => SupplyIsBalances
    BY DEF LedgerInv, Total, SupplyIsBalances
<1> QED BY <1>1, LedgerInvHolds, PTL

\* For coins of any decimals, no conversion's rounding ever mints VUND that no coin
\* stands behind: what is minted without a coin comes from stakes in tokens outside
\* coinList and from nothing else (Vault.sol 482-488, 980-1001, Tools.sol).
THEOREM CoinsBackTheSupply ==
    ASSUME IsFiniteSet(Players), IsFiniteSet(Coins)
    PROVE  Spec => []SupplyIsBacked
<1>1. LedgerInv => SupplyIsBacked
    BY DEF LedgerInv
<1> QED BY <1>1, LedgerInvHolds, PTL

\* The subtraction of the mark from the commission never underflows (Vault.sol 1048).
THEOREM MarksStayBehind ==
    ASSUME IsFiniteSet(Players), IsFiniteSet(Coins)
    PROVE  Spec => []NoMarkAhead
<1>1. LedgerInv => NoMarkAhead
    BY DEF LedgerInv, GoodLedger, NoMarkAhead
<1> QED BY <1>1, LedgerInvHolds, PTL

\* Nothing others do, and no transfer of its own, makes a holder's claim smaller
\* without settling it (Vault.sol 1019-1030, 1065-1070).
THEOREM ClaimsSurvive ==
    ASSUME IsFiniteSet(Players), IsFiniteSet(Coins)
    PROVE  Spec => ClaimsAreKept
<1>1. Finite
    BY FS_AddElement DEF Finite, Accounts
<1>2. ASSUME LedgerInv, [Next]_vars, NEW p \in Players,
             Owed(ledger', p, perToken') < Owed(ledger, p, perToken)
      PROVE  ledger'.last[p] \in {perToken, perToken'}
    <2>1. GoodStep
        BY <1>1, <1>2, EveryStep
    <2>2. PICK l, m, t, n : l = ledger /\ m = ledger' /\ t = perToken /\ n = perToken'
        OBVIOUS
    <2>3. PICK rate \in {t, n} : Holders(l, m, rate)
        BY <2>1, <2>2 DEF GoodStep
    <2>4. /\ t \in Nat /\ n \in Nat /\ t <= n /\ p \in Accounts
          /\ GoodLedger(l, t) /\ GoodLedger(m, n) /\ KeepsClaim(l, m, p, rate)
        BY <1>2, <2>1, <2>2, <2>3, People DEF GoodStep, LedgerInv, Counters, Holders
    <2>5. GoodLedger(l, n)
        BY <2>4, GoodLater
    <2>6. Owed(m, p, n) < Owed(l, p, t) /\ Owed(m, p, n) \in Nat /\ Owed(l, p, t) \in Nat
        BY <1>2, <2>2, <2>4, OwedType
    <2>7. Owed(l, p, t) <= Owed(l, p, n) /\ Owed(l, p, n) \in Nat
        <3>1. PICK x, i \in Nat : x = l.balance[p] /\ i = l.last[p] /\ i <= t
            BY <2>4, LedgerFields DEF GoodLedger
        <3>2. PICK d, e \in Nat : d = t - i /\ e = n - i /\ d <= e
            BY <2>4, <3>1
        <3>3. x * d <= x * e /\ x * d \in Nat /\ x * e \in Nat /\ ONE \in Nat \ {0}
            BY <3>2, LedgerAssumption
        <3>4. (x * d) \div ONE <= (x * e) \div ONE
            BY <3>3, DivGrows
        <3> QED BY <2>4, <2>5, <3>1, <3>2, <3>4, OwedType DEF Owed
    <2>8. Owed(l, p, rate) # 0
        BY <2>3, <2>6, <2>7
    <2>9. ~(m.last[p] = l.last[p] /\ l.balance[p] <= m.balance[p])
        <3>1. SUFFICES ASSUME m.last[p] = l.last[p], l.balance[p] <= m.balance[p] PROVE FALSE
            OBVIOUS
        <3>2. Owed(l, p, n) <= Owed(m, p, n)
            BY <2>4, <2>5, <3>1, OwedGrows
        <3> QED BY <2>6, <2>7, <3>2
    <2>10. m.last[p] = rate
        BY <2>4, <2>8, <2>9 DEF KeepsClaim, Kept
    <2> QED BY <2>2, <2>3, <2>10
<1>3. LedgerInv /\ [Next]_vars =>
          [\A p \in Players :
              Owed(ledger', p, perToken') < Owed(ledger, p, perToken)
                  => ledger'.last[p] \in {perToken, perToken'}]_vars
    BY <1>2
<1> QED BY <1>3, LedgerInvHolds, PTL DEF Spec, ClaimsAreKept

\* What a holder is paid is its claim and never anything else, and the payment moves
\* its mark, also when it sends to itself, the owner pays or a swap settles it twice
\* (Vault.sol 955-966, 1019-1070).
THEOREM ClaimsAreSettledOnce ==
    ASSUME IsFiniteSet(Players), IsFiniteSet(Coins)
    PROVE  Spec => ClaimsArePaidOnce
<1>1. Finite
    BY FS_AddElement DEF Finite, Accounts
<1>2. ASSUME LedgerInv, [Next]_vars, NEW p \in Players \ {Owner},
             ledger'.received[p] - ledger.received[p] # 0
      PROVE  /\ ledger'.received[p] - ledger.received[p] = Owed(ledger, p, ledger'.last[p])
             /\ ledger.last[p] < ledger'.last[p]
             /\ ledger'.last[p] \in {perToken, perToken'}
    <2>1. GoodStep
        BY <1>1, <1>2, EveryStep
    <2>2. PICK l, m, t, n : l = ledger /\ m = ledger' /\ t = perToken /\ n = perToken'
        OBVIOUS
    <2>3. PICK rate \in {t, n} : Holders(l, m, rate)
        BY <2>1, <2>2 DEF GoodStep
    <2>4. /\ t \in Nat /\ n \in Nat /\ t <= n /\ p \in Accounts
          /\ GoodLedger(l, t) /\ GoodLedger(m, n) /\ PaidOnce(l, m, p, rate)
        BY <1>2, <2>1, <2>2, <2>3, People DEF GoodStep, LedgerInv, Counters, Holders
    <2>5. rate \in Nat /\ t <= rate
        BY <2>3, <2>4
    <2>6. GoodLedger(l, rate)
        BY <2>4, <2>5, GoodLater
    <2>7. PICK x, y, o \in Nat : /\ x = l.received[p] /\ y = m.received[p]
                                 /\ o = Owed(l, p, rate)
        BY <2>4, <2>5, <2>6, LedgerFields, OwedType DEF GoodLedger
    <2>8. y # x
        BY <1>2, <2>2, <2>7
    <2>9. y = x + o /\ o > 0 /\ m.last[p] = rate
        BY <2>4, <2>7, <2>8 DEF PaidOnce
    <2>10. l.last[p] # rate /\ l.last[p] <= rate /\ l.last[p] \in Nat
        BY <2>4, <2>5, <2>6, <2>7, <2>9, OwedType, LedgerFields DEF GoodLedger
    <2>11. l.last[p] < rate /\ y - x = o
        BY <2>5, <2>9, <2>10
    <2> QED BY <2>2, <2>3, <2>7, <2>9, <2>11
<1>3. LedgerInv /\ [Next]_vars =>
          [\A p \in Players \ {Owner} :
              LET paid == ledger'.received[p] - ledger.received[p]
                  rate == ledger'.last[p]
              IN  paid # 0 => /\ paid = Owed(ledger, p, rate)
                              /\ ledger.last[p] < rate
                              /\ rate \in {perToken, perToken'}]_vars
    BY <1>2
<1> QED BY <1>3, LedgerInvHolds, PTL DEF Spec, ClaimsArePaidOnce

\* A claim is given up unpaid in no other case than the one _safeTransfer is silent
\* about: the vault holds less than the claim when its turn comes (Vault.sol 1065-1082).
THEOREM ClaimsAreErasedOnlyWhenShort ==
    ASSUME IsFiniteSet(Players), IsFiniteSet(Coins)
    PROVE  Spec => ClaimsErasedOnlyWhenShort
<1>1. Finite
    BY FS_AddElement DEF Finite, Accounts
<1>2. ASSUME LedgerInv, [Next]_vars, NEW p \in Players \ {Owner},
             ledger'.last[p] # ledger.last[p], ledger'.received[p] - ledger.received[p] = 0
      PROVE  \E a \in Accounts :
                 ledger.balance[Vault] < Owed(ledger, p, ledger'.last[p])
                                             + (ledger'.received[a] - ledger.received[a])
    <2>1. GoodStep
        BY <1>1, <1>2, EveryStep
    <2>2. PICK l, m, t, n : l = ledger /\ m = ledger' /\ t = perToken /\ n = perToken'
        OBVIOUS
    <2>3. PICK rate \in {t, n} : Holders(l, m, rate)
        BY <2>1, <2>2 DEF GoodStep
    <2>4. /\ t \in Nat /\ n \in Nat /\ t <= n /\ p \in Accounts
          /\ GoodLedger(l, t) /\ GoodLedger(m, n)
          /\ ErasedShort(l, m, p, rate) /\ m.last[p] \in {l.last[p], rate}
        BY <1>2, <2>1, <2>2, <2>3, People DEF GoodStep, LedgerInv, Counters, Holders
    <2>5. rate \in Nat /\ t <= rate
        BY <2>3, <2>4
    <2>6. GoodLedger(l, rate)
        BY <2>4, <2>5, GoodLater
    <2>7. /\ l.balance \in [Accounts -> Nat] /\ l.received \in [Accounts -> Nat]
          /\ m.received \in [Accounts -> Nat] /\ Owed(l, p, rate) \in Nat /\ Vault \in Accounts
        BY <2>4, <2>5, <2>6, People, LedgerFields, OwedType DEF GoodLedger
    <2>8. m.last[p] = rate /\ m.last[p] # l.last[p]
        BY <1>2, <2>2, <2>4
    <2>9. m.received[p] = l.received[p]
        <3>1. PICK x, y \in Nat : x = l.received[p] /\ y = m.received[p]
            BY <2>4, <2>7
        <3>2. y - x = 0
            BY <1>2, <2>2, <3>1
        <3> QED BY <3>1, <3>2
    <2>10. PICK a \in Accounts :
               l.balance[Vault] + l.received[a] < Owed(l, p, rate) + m.received[a]
        BY <2>4, <2>8, <2>9 DEF ErasedShort
    <2>11. PICK b, o, x, y \in Nat : /\ b = l.balance[Vault] /\ o = Owed(l, p, rate)
                                    /\ x = l.received[a] /\ y = m.received[a]
        BY <2>7
    <2>12. b < o + (y - x)
        BY <2>10, <2>11
    <2>13. ledger.balance[Vault] < Owed(ledger, p, ledger'.last[p])
                                       + (ledger'.received[a] - ledger.received[a])
        BY <2>2, <2>8, <2>11, <2>12
    <2> QED BY <2>13
<1>3. LedgerInv /\ [Next]_vars =>
          [\A p \in Players \ {Owner} :
              LET paid(a) == ledger'.received[a] - ledger.received[a]
                  rate == ledger'.last[p]
              IN  rate # ledger.last[p] /\ paid(p) = 0
                      => \E a \in Accounts :
                            ledger.balance[Vault] < Owed(ledger, p, rate) + paid(a)]_vars
    BY <1>2
<1> QED BY <1>3, LedgerInvHolds, PTL DEF Spec, ClaimsErasedOnlyWhenShort

=============================================================================
