-------------------------------- MODULE Pvt --------------------------------
(***************************************************************************)
(* PVT.sol: purchases of NFTs through a random number that arrives in a    *)
(* later transaction, the lists of owned tokens, and the powers that share *)
(* the commission of the purchases.                                        *)
(*                                                                         *)
(* Ownership is that of the vendored ERC721, whose transferFrom moves the  *)
(* owner only and does not pass through the contract's own _transfer.      *)
(* Staking anything but a chest sends a token to the contract by           *)
(* safeTransferFrom, which the contract, having no onERC721Received,       *)
(* rejects: no token is ever staked, charged or fused, and none of that is *)
(* here.                                                                   *)
(***************************************************************************)
EXTENDS Integers, Sequences, FiniteSets, FiniteSetsExt

CONSTANTS
    Players,        \* addresses of people
    Owner,          \* owner(), one of them
    PVT,            \* the contract's own address
    Rolls,          \* random numbers for the category, of 0..648
    PricesATON,     \* what 100 VUND may be worth in ATON
    ChestBase,      \* 10 VUND
    ChestStep,      \* 0.01 VUND
    ONE,            \* 10 ** 18
    MaxTokens,      \* bound on the tokens
    MaxRequests     \* bound on the requests for random words

Accounts == Players \union {PVT}
Currencies == {"VUND", "ATON"}
Tokens == 1..MaxTokens
NoOne == "no one"
NoRoll == "no roll"
Kinds == {"regular", "chest"}
Categories == {"none", "sport", "rocket", "treasure chest", "ticket", "pixel", "atovix"}

ASSUME PvtAssumption ==
    /\ Owner \in Players /\ PVT \notin Players /\ NoOne \notin Accounts
    /\ Rolls \subseteq 0..648
    /\ PricesATON \subseteq Nat /\ ChestBase \in Nat /\ ChestStep \in Nat
    /\ ONE \in Nat \ {0} /\ MaxTokens \in Nat /\ MaxRequests \in Nat

VARIABLES
    tokenCounter, chestCount,
    owners, category,   \* of every token
    lists,          \* _ownedTokens of every account and _ownedTokensIndex
    walletAtovix,   \* Atovix minted to every player
    shares,         \* powers, commission and the contract's balances
    requests,       \* requests for random words: sender, kind and answered or not
    nftMintRoll,    \* the kind of the answer a player has not claimed
    claimed,        \* history: number of NFTs a player has claimed
    moved           \* history: tokens sent on by transferFrom

vars == <<tokenCounter, chestCount, owners, category, lists, walletAtovix, shares,
          requests, nftMintRoll, claimed, moved>>

Request == [sender : Players, kind : Kinds, answered : BOOLEAN]
Lists == [of : [Accounts -> Seq(Tokens)], at : [Tokens -> Nat]]

\* The purse is what purchases brought and distributions have not taken; VUND
\* and ATON the contract gets besides are left out.
Shares == [power : [Accounts -> Nat], total : Nat \ {0}, perPower : [Currencies -> Nat],
           last : [Accounts -> [Currencies -> Nat]], purse : [Currencies -> Nat]]

TypeOK ==
    /\ tokenCounter \in 0..MaxTokens /\ chestCount \in 0..tokenCounter
    /\ owners \in [Tokens -> Accounts \union {NoOne}]
    /\ category \in [Tokens -> Categories]
    /\ lists \in Lists
    /\ walletAtovix \in [Players -> Nat]
    /\ shares \in Shares
    /\ requests \in Seq(Request)
    /\ nftMintRoll \in [Players -> Kinds \union {NoRoll}]
    /\ claimed \in [Players -> Nat]
    /\ moved \subseteq 1..tokenCounter

Nothing == [c \in Currencies |-> 0]

Init ==
    /\ tokenCounter = 0 /\ chestCount = 0
    /\ owners = [t \in Tokens |-> NoOne]
    /\ category = [t \in Tokens |-> "none"]
    /\ lists = [of |-> [a \in Accounts |-> <<>>], at |-> [t \in Tokens |-> 0]]
    /\ walletAtovix = [p \in Players |-> 0]
    /\ shares = [power |-> [a \in Accounts |-> IF a = PVT THEN 1 ELSE 0], total |-> 1,
                 perPower |-> Nothing, last |-> [a \in Accounts |-> Nothing],
                 purse |-> Nothing]
    /\ requests = <<>>
    /\ nftMintRoll = [p \in Players |-> NoRoll]
    /\ claimed = [p \in Players |-> 0]
    /\ moved = {}

-----------------------------------------------------------------------------
(* Commission.                                                             *)

\* _playerCommission.
Owed(s, a, c) == (s.power[a] * (s.perPower[c] - s.last[a][c])) \div ONE

CanDistribute(s, a) == \A c \in Currencies : Owed(s, a, c) <= s.purse[c]

\* Mutant of Marked: paid and not marked.
NotMarked(s, a) == s.last[a]

\* The mark follows a payment only.
Marked(s, a) ==
    [c \in Currencies |-> IF Owed(s, a, c) > 0 THEN s.perPower[c] ELSE s.last[a][c]]

\* _distributeCommission: the contract's own commission goes to the owner.
Distributed(s, a) ==
    [s EXCEPT !.purse = [c \in Currencies |-> s.purse[c] - Owed(s, a, c)],
              !.last = [s.last EXCEPT ![a] = Marked(s, a)]]

\* _updatePlayerPower, adding.
Powered(s, a, unit) ==
    [Distributed(s, a) EXCEPT !.power = [s.power EXCEPT ![a] = @ + unit],
                              !.total = s.total + unit]

\* Mutant of AtovixUnit: the count before this token.
AtovixUnitBefore(count) == 2 * count

\* What the count-th Atovix adds to count * (count - 1).
AtovixUnit(count) == 2 * (count - 1)

\* _calculatePowerSupplyByQuality for the quality of a chest.
ChestUnit == 2

\* _payToken: the price becomes commission.
Paid(s, currency, price) ==
    [s EXCEPT !.purse = [@ EXCEPT ![currency] = s.purse[currency] + price],
              !.perPower = [@ EXCEPT ![currency] =
                                s.perPower[currency] + (price * ONE) \div s.total]]

-----------------------------------------------------------------------------
(* Tokens and lists.                                                       *)

\* _addTokenToOwnerEnumeration; indices count from zero.
Added(l, a, t) ==
    [of |-> [l.of EXCEPT ![a] = Append(@, t)],
     at |-> [l.at EXCEPT ![t] = Len(l.of[a])]]

\* The list has a last place, and the stored index lies in it.
CanRemove(l, a, t) == l.at[t] < Len(l.of[a])

\* Mutant of IndexAfter: the moved token keeps its index.
IndexKept(l, a, t) == [l.at EXCEPT ![t] = 0]

\* The last token of the list takes over the index of the removed one.
IndexAfter(l, a, t) ==
    LET final == Len(l.of[a])
    IN  [u \in Tokens |-> IF u = t THEN 0
                          ELSE IF u = l.of[a][final] /\ l.at[t] # final - 1 THEN l.at[t]
                          ELSE l.at[u]]

\* _removeTokenFromOwnerEnumeration.
Removed(l, a, t) ==
    LET s == l.of[a] IN
    [of |-> [l.of EXCEPT ![a] =
                 SubSeq([s EXCEPT ![l.at[t] + 1] = s[Len(s)]], 1, Len(s) - 1)],
     at |-> IndexAfter(l, a, t)]

\* _mintNFT, with the power of an Atovix; s is the state of the shares.
Mint(p, kind, s) ==
    LET t == tokenCounter + 1 IN
    /\ t \in Tokens
    /\ tokenCounter' = t
    /\ owners' = [owners EXCEPT ![t] = p]
    /\ category' = [category EXCEPT ![t] = kind]
    /\ lists' = Added(lists, p, t)
    /\ IF kind = "atovix"
       THEN /\ CanDistribute(s, p)
            /\ walletAtovix' = [walletAtovix EXCEPT ![p] = @ + 1]
            /\ shares' = Powered(s, p, AtovixUnit(walletAtovix[p] + 1))
       ELSE walletAtovix' = walletAtovix /\ shares' = s

-----------------------------------------------------------------------------
(* The tables of categories.  Both functions cut the roll to the length of *)
(* the table, 32 and 4, so that only its first entries are ever found.  A  *)
(* player's luck lowers the roll for a chest, where that changes nothing.  *)

RegularTable ==
    [i \in 1..32 |-> IF i <= 30 THEN 21 * i - 1 ELSE 629 + 10 * (i - 30)]
ChestTable == <<7000000, 10000001, 11500002, 12500003>>

Place(roll, table) ==
    LET cut == IF roll > Len(table) THEN Len(table) ELSE roll
    IN  Min({ i \in DOMAIN table : cut < table[i] })

RegularCategory(roll) ==
    LET i == Place(roll, RegularTable)
    IN  IF i <= 30 THEN "sport" ELSE IF i = 31 THEN "rocket" ELSE "treasure chest"

ChestCategory(roll) == <<"ticket", "pixel", "atovix", "rocket">>[Place(roll, ChestTable)]

-----------------------------------------------------------------------------
(* Transactions.                                                           *)

Ask(p, kind) ==
    /\ Len(requests) < MaxRequests
    /\ requests' = Append(requests, [sender |-> p, kind |-> kind, answered |-> FALSE])

\* buyRegularNft.
BuyRegularNft(p, price) ==
    /\ shares' = Paid(shares, "ATON", price)
    /\ Ask(p, "regular")
    /\ UNCHANGED <<tokenCounter, chestCount, owners, category, lists, walletAtovix,
                   nftMintRoll, claimed, moved>>

\* buyTreasureChest: the price counts the chest just minted.
BuyTreasureChest(p) ==
    /\ chestCount' = chestCount + 1
    /\ Mint(p, "treasure chest", Paid(shares, "VUND", ChestBase + ChestStep * chestCount'))
    /\ UNCHANGED <<requests, nftMintRoll, claimed, moved>>

\* mintAtovix, the owner's.
MintAtovix ==
    /\ Mint(Owner, "atovix", shares)
    /\ UNCHANGED <<chestCount, requests, nftMintRoll, claimed, moved>>

\* Mutant of Received: a chest stays with its owner.
ReceivedNothing(t) == owners

Received(t) == [owners EXCEPT ![t] = PVT]

\* stakeNFT of a chest: it goes to the contract, whose power grows by it.
OpenTreasureChest(p, t) ==
    /\ owners[t] = p /\ category[t] = "treasure chest"
    /\ CanRemove(lists, p, t)
    /\ lists' = Added(Removed(lists, p, t), PVT, t)
    /\ CanDistribute(shares, PVT)
    /\ shares' = Powered(shares, PVT, ChestUnit)
    /\ owners' = Received(t)
    /\ Ask(p, "chest")
    /\ UNCHANGED <<tokenCounter, chestCount, category, walletAtovix, nftMintRoll,
                   claimed, moved>>

\* fulfillRandomWords: a second answer replaces one not yet claimed.
FulfillRandomWords(r) ==
    /\ ~requests[r].answered
    /\ requests' = [requests EXCEPT ![r] = [sender |-> requests[r].sender,
                                            kind |-> requests[r].kind, answered |-> TRUE]]
    /\ nftMintRoll' = [nftMintRoll EXCEPT ![requests[r].sender] = requests[r].kind]
    /\ UNCHANGED <<tokenCounter, chestCount, owners, category, lists, walletAtovix,
                   shares, claimed, moved>>

\* Mutant of RollAfterClaim: the roll is left.
RollKept(p) == nftMintRoll

RollAfterClaim(p) == [nftMintRoll EXCEPT ![p] = NoRoll]

\* claimNft.
ClaimNft(p, roll) ==
    /\ nftMintRoll[p] # NoRoll
    /\ Mint(p, IF nftMintRoll[p] = "chest" THEN ChestCategory(roll) ELSE RegularCategory(roll),
            shares)
    /\ nftMintRoll' = RollAfterClaim(p)
    /\ claimed' = [claimed EXCEPT ![p] = @ + 1]
    /\ UNCHANGED <<chestCount, requests, moved>>

\* ERC721.transferFrom by the token's owner.
TransferFrom(t, to) ==
    /\ owners[t] \in Players \ {to}
    /\ owners' = [owners EXCEPT ![t] = to]
    /\ moved' = moved \union {t}
    /\ UNCHANGED <<tokenCounter, chestCount, category, lists, walletAtovix, shares,
                   requests, nftMintRoll, claimed>>

Next ==
    \/ MintAtovix
    \/ \E p \in Players :
          \/ \E price \in PricesATON : BuyRegularNft(p, price)
          \/ BuyTreasureChest(p)
          \/ \E t \in Tokens : OpenTreasureChest(p, t)
          \/ \E roll \in Rolls : ClaimNft(p, roll)
    \/ \E r \in DOMAIN requests : FulfillRandomWords(r)
    \/ \E t \in Tokens, to \in Accounts : TransferFrom(t, to)

Spec == Init /\ [][Next]_vars

-----------------------------------------------------------------------------
(* Properties.                                                             *)

ChestRequests == { r \in DOMAIN requests : requests[r].kind = "chest" }

\* The powers are what commission is divided by: their total is their sum, a
\* player's follows the Atovix minted to it, and the contract's the chests it
\* was sent to be opened, whatever tokens change hands meanwhile (1018-1063).
PowersAgree ==
    /\ shares.total = SumFunctionOnSet(shares.power, Accounts)
    /\ \A p \in Players : shares.power[p] = walletAtovix[p] * (walletAtovix[p] - 1)
    /\ shares.power[PVT] = 1 + ChestUnit * Cardinality(ChestRequests)

\* One answer, one NFT at most: answers come in any order and may meet a roll
\* not yet claimed, and no player claims more than was answered (305-350).
AnswersBoundClaims ==
    \A p \in Players :
        claimed[p] + (IF nftMintRoll[p] = NoRoll THEN 0 ELSE 1)
            <= Cardinality({ r \in DOMAIN requests :
                               requests[r].sender = p /\ requests[r].answered })

\* A chest is opened once: every opening leaves one more chest with the
\* contract, even if other chests arrive there by transferFrom (382-397).
ChestsAreConsumed ==
    Cardinality(ChestRequests)
        <= Cardinality({ t \in Tokens : category[t] = "treasure chest" /\ owners[t] = PVT })

\* As long as no chest changes hands outside the contract, every token that did
\* not is found in its owner's list at its stored index, so that no opening
\* reverts or removes another token (613-633, 1098-1131).
ListsAgreeUnlessChestsMove ==
    (\A t \in moved : category[t] # "treasure chest") =>
        \A t \in 1..tokenCounter \ moved :
            LET list == lists.of[owners[t]]
            IN  lists.at[t] < Len(list) /\ list[lists.at[t] + 1] = t

\* While the contract is the only one with power, what it owes is in its purse,
\* through all purchases and openings, so that no distribution reverts (910-1012).
OwnCommissionIsFunded ==
    (\A p \in Players : shares.power[p] = 0) => CanDistribute(shares, PVT)
=============================================================================
