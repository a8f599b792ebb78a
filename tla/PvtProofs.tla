------------------------------ MODULE PvtProofs ------------------------------
(***************************************************************************)
(* An answer is claimed once and a chest opened once, the powers add up,   *)
(* the contract can pay what it owes itself and the lists find their       *)
(* tokens, for any players, tokens and orders of the answers.              *)
(***************************************************************************)
EXTENDS Pvt, DataLemmas

\* The part of the types the two theorems need.  A token not yet minted is no one's.
TypeInv ==
    /\ tokenCounter \in Nat
    /\ owners \in [Tokens -> Accounts \union {NoOne}]
    /\ category = [t \in Tokens |-> category[t]]
    /\ requests \in Seq(Request)
    /\ nftMintRoll \in [Players -> Kinds \union {NoRoll}]
    /\ claimed \in [Players -> Nat]
    /\ \A t \in Tokens : t > tokenCounter => owners[t] = NoOne

Answers(p) == { r \in DOMAIN requests : requests[r].sender = p /\ requests[r].answered }

\* The chests that were sent to the contract.
Consumed == { t \in Tokens : category[t] = "treasure chest" /\ owners[t] = PVT }

-----------------------------------------------------------------------------
(* What the calls do to requests, tokens and rolls.                        *)

LEMMA Asked ==
    ASSUME TypeInv, NEW p \in Players, NEW kind \in Kinds, Ask(p, kind)
    PROVE  /\ requests' \in Seq(Request)
           /\ DOMAIN requests' = DOMAIN requests \union {Len(requests) + 1}
           /\ Len(requests) + 1 \notin DOMAIN requests
           /\ \A r \in DOMAIN requests : requests'[r] = requests[r]
           /\ ~requests'[Len(requests) + 1].answered
           /\ requests'[Len(requests) + 1].kind = kind
<1> DEFINE new == [sender |-> p, kind |-> kind, answered |-> FALSE]
<1>1. new \in Request /\ ~new.answered /\ new.kind = kind
    BY DEF Request
<1>2. requests' = Append(requests, new) /\ requests \in Seq(Request)
    BY DEF Ask, TypeInv
<1> HIDE DEF new
<1>3. /\ Append(requests, new) \in Seq(Request) /\ Len(requests) \in Nat
      /\ Len(Append(requests, new)) = Len(requests) + 1
      /\ DOMAIN requests = 1..Len(requests)
      /\ DOMAIN Append(requests, new) = 1..(Len(requests) + 1)
      /\ \A i \in 1..Len(requests) : Append(requests, new)[i] = requests[i]
      /\ Append(requests, new)[Len(requests) + 1] = new
    BY <1>1, <1>2
<1>4. 1..(Len(requests) + 1) = (1..Len(requests)) \union {Len(requests) + 1}
    BY <1>3
<1> QED BY <1>1, <1>2, <1>3, <1>4

LEMMA Answered ==
    ASSUME TypeInv, NEW r \in DOMAIN requests, FulfillRandomWords(r)
    PROVE  /\ requests' \in Seq(Request)
           /\ DOMAIN requests' = DOMAIN requests
           /\ \A q \in DOMAIN requests :
                 /\ requests'[q].sender = requests[q].sender
                 /\ requests'[q].kind = requests[q].kind
                 /\ requests'[q].answered = (q = r \/ requests[q].answered)
           /\ ~requests[r].answered
           /\ requests[r].sender \in Players /\ requests[r].kind \in Kinds
<1> DEFINE new == [sender |-> requests[r].sender, kind |-> requests[r].kind,
                   answered |-> TRUE]
<1>1. requests \in Seq(Request) /\ requests[r] \in Request
    BY DEF TypeInv
<1>2. requests[r].sender \in Players /\ requests[r].kind \in Kinds
    BY <1>1 DEF Request
<1>3. requests' = [requests EXCEPT ![r] = new] /\ ~requests[r].answered
    BY DEF FulfillRandomWords
<1>4. new.answered = TRUE /\ new.sender = requests[r].sender /\ new.kind = requests[r].kind
    OBVIOUS
<1>5. new \in Request
    BY <1>2, Zenon DEF Request
<1>6. \A q \in DOMAIN requests : requests[q].answered \in BOOLEAN
    <2> SUFFICES ASSUME NEW q \in DOMAIN requests PROVE requests[q].answered \in BOOLEAN
        OBVIOUS
    <2>1. requests[q] \in Request
        BY <1>1
    <2> QED BY <2>1 DEF Request
<1> HIDE DEF new
<1>7. /\ requests' \in Seq(Request) /\ DOMAIN requests' = DOMAIN requests
      /\ requests'[r] = new
      /\ \A q \in DOMAIN requests : q # r => requests'[q] = requests[q]
    BY <1>1, <1>3, <1>5
<1> QED BY <1>2, <1>3, <1>4, <1>6, <1>7

\* A minted token was no one's, and goes to a player.
LEMMA Minted ==
    ASSUME TypeInv, NEW p \in Players, NEW kind, NEW s, Mint(p, kind, s)
    PROVE  /\ tokenCounter' \in Nat
           /\ owners' \in [Tokens -> Accounts \union {NoOne}]
           /\ category' = [t \in Tokens |-> category'[t]]
           /\ \A t \in Tokens : t > tokenCounter' => owners'[t] = NoOne
           /\ Consumed' = Consumed
<1> DEFINE n == tokenCounter + 1
<1>1. n \in Tokens /\ tokenCounter' = n
      /\ owners' = [owners EXCEPT ![n] = p] /\ category' = [category EXCEPT ![n] = kind]
    BY DEF Mint
<1>2. n \in Nat /\ n > tokenCounter /\ owners[n] = NoOne
    BY <1>1 DEF TypeInv
<1>3. p \in Accounts /\ p # PVT /\ NoOne # PVT
    BY PvtAssumption DEF Accounts
<1>4. tokenCounter' \in Nat /\ owners' \in [Tokens -> Accounts \union {NoOne}]
    BY <1>1, <1>2, <1>3 DEF TypeInv
<1>5. category' = [t \in Tokens |-> category'[t]]
    BY <1>1 DEF TypeInv
<1>6. \A t \in Tokens : t > tokenCounter' => owners'[t] = NoOne
    <2> SUFFICES ASSUME NEW t \in Tokens, t > n PROVE owners'[t] = NoOne
        BY <1>1
    <2>1. t \in Int /\ t > tokenCounter /\ t # n
        BY <1>2, PvtAssumption DEF Tokens, TypeInv
    <2> QED BY <1>1, <2>1 DEF TypeInv
<1>7. \A t \in Tokens : owners'[t] = PVT <=> owners[t] = PVT
    BY <1>1, <1>2, <1>3 DEF TypeInv
<1>8. \A t \in Tokens : t # n => category'[t] = category[t]
    BY <1>1 DEF TypeInv
<1>9. Consumed' = Consumed
    BY <1>2, <1>3, <1>7, <1>8 DEF Consumed
<1> QED BY <1>4, <1>5, <1>6, <1>9

-----------------------------------------------------------------------------
(* Types.                                                                  *)

LEMMA TypeInit == Init => TypeInv
<1> SUFFICES ASSUME Init PROVE TypeInv
    OBVIOUS
<1>1. requests \in Seq(Request)
    BY DEF Init
<1> QED BY <1>1 DEF Init, TypeInv

LEMMA TypeStep ==
    ASSUME TypeInv, [Next]_vars
    PROVE  TypeInv'
<1>1. ASSUME NEW p \in Players, NEW price, BuyRegularNft(p, price)
      PROVE  TypeInv'
    <2>1. requests' \in Seq(Request)
        BY <1>1, Asked DEF BuyRegularNft, Kinds
    <2> QED BY <1>1, <2>1 DEF BuyRegularNft, TypeInv
<1>2. ASSUME NEW p \in Players, BuyTreasureChest(p)
      PROVE  TypeInv'
    <2>1. PICK s : Mint(p, "treasure chest", s)
        BY <1>2 DEF BuyTreasureChest
    <2>2. UNCHANGED <<requests, nftMintRoll, claimed>>
        BY <1>2 DEF BuyTreasureChest
    <2> QED BY <2>1, <2>2, Minted DEF TypeInv
<1>3. CASE MintAtovix
    <2>1. Owner \in Players
        BY PvtAssumption
    <2> QED BY <1>3, <2>1, Minted DEF MintAtovix, TypeInv
<1>4. ASSUME NEW p \in Players, NEW t \in Tokens, OpenTreasureChest(p, t)
      PROVE  TypeInv'
    <2>1. requests' \in Seq(Request)
        BY <1>4, Asked DEF OpenTreasureChest, Kinds
    <2>2. p # NoOne /\ PVT \in Accounts
        BY PvtAssumption DEF Accounts
    <2>3. /\ owners[t] = p /\ owners' = [owners EXCEPT ![t] = PVT]
          /\ UNCHANGED <<tokenCounter, category, nftMintRoll, claimed>>
        BY <1>4 DEF OpenTreasureChest, Received
    <2> QED BY <2>1, <2>2, <2>3 DEF TypeInv
<1>5. ASSUME NEW r \in DOMAIN requests, FulfillRandomWords(r)
      PROVE  TypeInv'
    <2>1. /\ requests' \in Seq(Request)
          /\ requests[r].sender \in Players /\ requests[r].kind \in Kinds
        BY <1>5, Answered
    <2>2. nftMintRoll' \in [Players -> Kinds \union {NoRoll}]
        BY <1>5, <2>1 DEF FulfillRandomWords, TypeInv
    <2> QED BY <1>5, <2>1, <2>2 DEF FulfillRandomWords, TypeInv
<1>6. ASSUME NEW p \in Players, NEW roll, ClaimNft(p, roll)
      PROVE  TypeInv'
    <2>1. PICK kind : Mint(p, kind, shares)
        BY <1>6 DEF ClaimNft
    <2>2. /\ nftMintRoll' \in [Players -> Kinds \union {NoRoll}]
          /\ claimed' \in [Players -> Nat]
        BY <1>6 DEF ClaimNft, RollAfterClaim, TypeInv
    <2>3. requests' = requests
        BY <1>6 DEF ClaimNft
    <2> QED BY <2>1, <2>2, <2>3, Minted DEF TypeInv
<1>7. ASSUME NEW t \in Tokens, NEW to \in Accounts, TransferFrom(t, to)
      PROVE  TypeInv'
    <2>1. owners[t] # NoOne
        BY <1>7, PvtAssumption DEF TransferFrom, Accounts
    <2>2. /\ owners' = [owners EXCEPT ![t] = to]
          /\ UNCHANGED <<tokenCounter, category, requests, nftMintRoll, claimed>>
        BY <1>7 DEF TransferFrom
    <2> QED BY <2>1, <2>2 DEF TypeInv
<1>8. CASE UNCHANGED vars
    BY <1>8 DEF vars, TypeInv
<1> QED BY <1>1, <1>2, <1>3, <1>4, <1>5, <1>6, <1>7, <1>8 DEF Next

-----------------------------------------------------------------------------
(* Claims.                                                                 *)

HasRoll(p) == IF nftMintRoll[p] = NoRoll THEN 0 ELSE 1

ClaimsInv == \A p \in Players : claimed[p] + HasRoll(p) <= Cardinality(Answers(p))

LEMMA RequestsAreFinite ==
    ASSUME TypeInv
    PROVE  /\ IsFiniteSet(DOMAIN requests)
           /\ \A p : IsFiniteSet(Answers(p)) /\ Cardinality(Answers(p)) \in Nat
           /\ IsFiniteSet(ChestRequests) /\ Cardinality(ChestRequests) \in Nat
<1>1. DOMAIN requests = 1..Len(requests) /\ Len(requests) \in Nat
    BY DEF TypeInv
<1>2. IsFiniteSet(DOMAIN requests)
    BY <1>1, FS_Interval
<1>3. \A p : IsFiniteSet(Answers(p))
    BY <1>2, FS_Subset DEF Answers
<1>4. IsFiniteSet(ChestRequests)
    BY <1>2, FS_Subset DEF ChestRequests
<1> QED BY <1>2, <1>3, <1>4, FS_CardinalityType

LEMMA ClaimsInit == Init => ClaimsInv
<1> SUFFICES ASSUME Init, NEW p \in Players
             PROVE  claimed[p] + HasRoll(p) <= Cardinality(Answers(p))
    BY DEF ClaimsInv
<1>1. Answers(p) = {}
    BY DEF Init, Answers
<1> QED BY <1>1, FS_EmptySet DEF Init, HasRoll

LEMMA ClaimsStep ==
    ASSUME TypeInv, ClaimsInv, [Next]_vars
    PROVE  ClaimsInv'
<1> SUFFICES ASSUME NEW o \in Players
             PROVE  claimed'[o] + HasRoll(o)' <= Cardinality(Answers(o)')
    BY DEF ClaimsInv
<1>a. PICK n, c \in Nat : n = Cardinality(Answers(o)) /\ c = claimed[o]
    BY RequestsAreFinite DEF TypeInv
<1>b. c + HasRoll(o) <= n /\ HasRoll(o) \in 0..1 /\ HasRoll(o)' \in 0..1
    BY <1>a DEF ClaimsInv, HasRoll
<1>1. CASE UNCHANGED <<requests, nftMintRoll, claimed>>
    <2>1. Answers(o)' = Answers(o) /\ HasRoll(o)' = HasRoll(o)
        BY <1>1 DEF Answers, HasRoll
    <2> QED BY <1>1, <1>a, <1>b, <2>1
<1>2. ASSUME NEW p \in Players, NEW kind \in Kinds, Ask(p, kind),
             UNCHANGED <<nftMintRoll, claimed>>
      PROVE  claimed'[o] + HasRoll(o)' <= Cardinality(Answers(o)')
    <2>1. Answers(o)' = Answers(o)
        BY <1>2, Asked DEF Answers
    <2>2. HasRoll(o)' = HasRoll(o)
        BY <1>2 DEF HasRoll
    <2> QED BY <1>2, <1>a, <1>b, <2>1, <2>2
<1>3. ASSUME NEW r \in DOMAIN requests, FulfillRandomWords(r)
      PROVE  claimed'[o] + HasRoll(o)' <= Cardinality(Answers(o)')
    <2>1. claimed' = claimed
        BY <1>3 DEF FulfillRandomWords
    <2>2. Answers(o)' = IF requests[r].sender = o THEN Answers(o) \union {r} ELSE Answers(o)
        BY <1>3, Answered DEF Answers
    <2>3. CASE requests[r].sender = o
        <3>1. r \notin Answers(o)
            BY <1>3, Answered DEF Answers
        <3>2. Cardinality(Answers(o) \union {r}) = Cardinality(Answers(o)) + 1
            BY <3>1, RequestsAreFinite, FS_AddElement
        <3>3. Cardinality(Answers(o)') = n + 1
            BY <1>a, <2>2, <2>3, <3>2
        <3> QED BY <1>a, <1>b, <2>1, <3>3
    <2>4. CASE requests[r].sender # o
        <3>1. HasRoll(o)' = HasRoll(o)
            BY <1>3, <2>4, Answered DEF FulfillRandomWords, HasRoll, TypeInv
        <3> QED BY <1>a, <1>b, <2>1, <2>2, <2>4, <3>1
    <2> QED BY <2>3, <2>4
<1>4. ASSUME NEW p \in Players, NEW roll, ClaimNft(p, roll)
      PROVE  claimed'[o] + HasRoll(o)' <= Cardinality(Answers(o)')
    <2>1. /\ nftMintRoll[p] # NoRoll /\ UNCHANGED requests
          /\ nftMintRoll' = [nftMintRoll EXCEPT ![p] = NoRoll]
          /\ claimed' = [claimed EXCEPT ![p] = claimed[p] + 1]
        BY <1>4 DEF ClaimNft, RollAfterClaim
    <2>2. Answers(o)' = Answers(o)
        BY <2>1 DEF Answers
    <2>3. CASE o = p
        <3>1. claimed'[o] = c + 1 /\ HasRoll(o) = 1 /\ HasRoll(o)' = 0
            BY <1>a, <2>1, <2>3 DEF HasRoll, TypeInv
        <3> QED BY <1>a, <1>b, <2>2, <3>1
    <2>4. CASE o # p
        <3>1. claimed'[o] = c /\ HasRoll(o)' = HasRoll(o)
            BY <1>a, <2>1, <2>4 DEF HasRoll, TypeInv
        <3> QED BY <1>a, <1>b, <2>2, <3>1
    <2> QED BY <2>3, <2>4
<1>5. ASSUME NEW p \in Players, NEW x, \/ BuyRegularNft(p, x) \/ OpenTreasureChest(p, x)
      PROVE  claimed'[o] + HasRoll(o)' <= Cardinality(Answers(o)')
    <2>1. /\ Ask(p, "regular") \/ Ask(p, "chest")
          /\ UNCHANGED <<nftMintRoll, claimed>>
        BY <1>5 DEF BuyRegularNft, OpenTreasureChest
    <2>2. "regular" \in Kinds /\ "chest" \in Kinds
        BY DEF Kinds
    <2> QED BY <1>2, <2>1, <2>2
<1> QED BY <1>1, <1>3, <1>4, <1>5
        DEF Next, MintAtovix, BuyTreasureChest, TransferFrom, vars

-----------------------------------------------------------------------------
(* Chests.                                                                 *)

LEMMA ConsumedIsFinite == IsFiniteSet(Consumed) /\ Cardinality(Consumed) \in Nat
<1>1. IsFiniteSet(Tokens)
    BY PvtAssumption, FS_Interval DEF Tokens
<1>2. IsFiniteSet(Consumed)
    BY <1>1, FS_Subset DEF Consumed
<1> QED BY <1>2, FS_CardinalityType

LEMMA ChestsInit == Init => Cardinality(ChestRequests) <= Cardinality(Consumed)
<1> SUFFICES ASSUME Init PROVE Cardinality(ChestRequests) <= Cardinality(Consumed)
    OBVIOUS
<1>1. ChestRequests = {}
    BY DEF Init, ChestRequests
<1> QED BY <1>1, FS_EmptySet, ConsumedIsFinite

LEMMA ChestsStep ==
    ASSUME TypeInv, Cardinality(ChestRequests) <= Cardinality(Consumed), [Next]_vars
    PROVE  Cardinality(ChestRequests') <= Cardinality(Consumed')
<1>a. PICK n, c \in Nat :
          n = Cardinality(ChestRequests) /\ c = Cardinality(Consumed) /\ n <= c
    BY RequestsAreFinite, ConsumedIsFinite
<1>1. ASSUME NEW p \in Players, NEW t \in Tokens, OpenTreasureChest(p, t)
      PROVE  Cardinality(ChestRequests') <= Cardinality(Consumed')
    <2>1. /\ owners[t] = p /\ category[t] = "treasure chest"
          /\ owners' = [owners EXCEPT ![t] = PVT] /\ category' = category
          /\ Ask(p, "chest")
        BY <1>1 DEF OpenTreasureChest, Received
    <2>2. p # PVT
        BY PvtAssumption
    <2>3. Consumed' = Consumed \union {t} /\ t \notin Consumed
        BY <2>1, <2>2 DEF Consumed, TypeInv
    <2>4. Cardinality(Consumed \union {t}) = Cardinality(Consumed) + 1
        BY <2>3, ConsumedIsFinite, FS_AddElement
    <2>5. /\ ChestRequests' = ChestRequests \union {Len(requests) + 1}
          /\ Len(requests) + 1 \notin ChestRequests
        BY <2>1, Asked DEF ChestRequests, Kinds
    <2>6. Cardinality(ChestRequests \union {Len(requests) + 1}) = Cardinality(ChestRequests) + 1
        BY <2>5, RequestsAreFinite, FS_AddElement
    <2> QED BY <1>a, <2>3, <2>4, <2>5, <2>6
<1>2. ASSUME ChestRequests' = ChestRequests, Consumed \subseteq Consumed'
      PROVE  Cardinality(ChestRequests') <= Cardinality(Consumed')
    <2>1. IsFiniteSet(Tokens)
        BY PvtAssumption, FS_Interval DEF Tokens
    <2>2. IsFiniteSet(Consumed')
        BY <2>1, FS_Subset DEF Consumed
    <2>3. PICK d \in Nat : d = Cardinality(Consumed')
        BY <2>2, FS_CardinalityType
    <2>4. c <= d
        BY <1>2, <1>a, <2>2, <2>3, FS_Subset
    <2> QED BY <1>2, <1>a, <2>3, <2>4
<1>3. ASSUME NEW p \in Players, NEW price, BuyRegularNft(p, price)
      PROVE  Cardinality(ChestRequests') <= Cardinality(Consumed')
    <2>1. Ask(p, "regular") /\ UNCHANGED <<owners, category>> /\ "regular" \in Kinds
        BY <1>3 DEF BuyRegularNft, Kinds
    <2>2. ChestRequests' = ChestRequests
        BY <2>1, Asked DEF ChestRequests
    <2>3. Consumed' = Consumed
        BY <2>1 DEF Consumed
    <2> QED BY <1>2, <2>2, <2>3
<1>4. ASSUME NEW p \in Players, NEW kind, NEW s, Mint(p, kind, s), UNCHANGED requests
      PROVE  Cardinality(ChestRequests') <= Cardinality(Consumed')
    <2>1. ChestRequests' = ChestRequests
        BY <1>4 DEF ChestRequests
    <2> QED BY <1>2, <1>4, <2>1, Minted
<1>5. ASSUME NEW r \in DOMAIN requests, FulfillRandomWords(r)
      PROVE  Cardinality(ChestRequests') <= Cardinality(Consumed')
    <2>1. ChestRequests' = ChestRequests
        BY <1>5, Answered DEF ChestRequests
    <2>2. Consumed' = Consumed
        BY <1>5 DEF FulfillRandomWords, Consumed
    <2> QED BY <1>2, <2>1, <2>2
<1>6. ASSUME NEW t \in Tokens, NEW to \in Accounts, TransferFrom(t, to)
      PROVE  Cardinality(ChestRequests') <= Cardinality(Consumed')
    <2>1. /\ owners[t] \in Players /\ owners' = [owners EXCEPT ![t] = to]
          /\ UNCHANGED <<category, requests>>
        BY <1>6 DEF TransferFrom
    <2>2. owners[t] # PVT
        BY <2>1, PvtAssumption
    <2>3. Consumed \subseteq Consumed' /\ ChestRequests' = ChestRequests
        BY <2>1, <2>2 DEF Consumed, ChestRequests, TypeInv
    <2> QED BY <1>2, <2>3
<1>7. CASE UNCHANGED vars
    BY <1>2, <1>7 DEF vars, ChestRequests, Consumed
<1>8. Owner \in Players
    BY PvtAssumption
<1> QED BY <1>1, <1>3, <1>4, <1>5, <1>6, <1>7, <1>8
        DEF Next, MintAtovix, BuyTreasureChest, ClaimNft

-----------------------------------------------------------------------------
(* Powers and commission.                                                  *)

\* Marks are never ahead of the commission they mark.
GoodShares(s) ==
    s \in Shares /\ \A a \in Accounts, c \in Currencies : s.last[a][c] <= s.perPower[c]

SharesInv ==
    /\ chestCount \in Nat
    /\ walletAtovix \in [Players -> Nat]
    /\ GoodShares(shares)

LEMMA SharesFields ==
    ASSUME NEW s \in Shares
    PROVE  /\ s.power \in [Accounts -> Nat] /\ s.total \in Nat \ {0}
           /\ s.perPower \in [Currencies -> Nat] /\ s.purse \in [Currencies -> Nat]
           /\ s.last \in [Accounts -> [Currencies -> Nat]]
BY DEF Shares

LEMMA SharesBuilt ==
    ASSUME NEW s, s = [power |-> s.power, total |-> s.total, perPower |-> s.perPower,
                       last |-> s.last, purse |-> s.purse],
           s.power \in [Accounts -> Nat], s.total \in Nat \ {0},
           s.perPower \in [Currencies -> Nat], s.purse \in [Currencies -> Nat],
           s.last \in [Accounts -> [Currencies -> Nat]]
    PROVE  s \in Shares
BY Zenon DEF Shares

LEMMA OwedType ==
    ASSUME NEW s, GoodShares(s), NEW a \in Accounts, NEW c \in Currencies
    PROVE  Owed(s, a, c) \in Nat
<1>1. s.power[a] \in Nat /\ s.perPower[c] \in Nat /\ s.last[a][c] \in Nat
      /\ s.last[a][c] <= s.perPower[c]
    BY SharesFields DEF GoodShares
<1>2. PICK d \in Nat : d = s.perPower[c] - s.last[a][c]
    BY <1>1
<1>3. s.power[a] * d \in Nat
    BY <1>1
<1> QED BY <1>2, <1>3, DivBounds, PvtAssumption DEF Owed

LEMMA DistributedFields ==
    ASSUME NEW s \in Shares, NEW a, NEW r, r = Distributed(s, a)
    PROVE  /\ r.power = s.power /\ r.total = s.total /\ r.perPower = s.perPower
           /\ r.purse = [c \in Currencies |-> s.purse[c] - Owed(s, a, c)]
           /\ r.last = [s.last EXCEPT ![a] = Marked(s, a)]
           /\ r = [power |-> r.power, total |-> r.total, perPower |-> r.perPower,
                   last |-> r.last, purse |-> r.purse]
<1>1. s = [power |-> s.power, total |-> s.total, perPower |-> s.perPower,
           last |-> s.last, purse |-> s.purse]
    BY DEF Shares
<1> QED BY <1>1 DEF Distributed

LEMMA DistributedType ==
    ASSUME NEW s, GoodShares(s), NEW a \in Accounts, CanDistribute(s, a)
    PROVE  GoodShares(Distributed(s, a))
<1>1. PICK r : r = Distributed(s, a)
    OBVIOUS
<1>2. s \in Shares
    BY DEF GoodShares
<1>3. /\ r.power = s.power /\ r.total = s.total /\ r.perPower = s.perPower
      /\ r.purse = [c \in Currencies |-> s.purse[c] - Owed(s, a, c)]
      /\ r.last = [s.last EXCEPT ![a] = Marked(s, a)]
      /\ r = [power |-> r.power, total |-> r.total, perPower |-> r.perPower,
              last |-> r.last, purse |-> r.purse]
    BY <1>1, <1>2, DistributedFields
<1>4. \A c \in Currencies : s.purse[c] - Owed(s, a, c) \in Nat
    <2> SUFFICES ASSUME NEW c \in Currencies PROVE s.purse[c] - Owed(s, a, c) \in Nat
        OBVIOUS
    <2>1. s.purse[c] \in Nat /\ Owed(s, a, c) \in Nat /\ Owed(s, a, c) <= s.purse[c]
        BY <1>2, SharesFields, OwedType DEF CanDistribute
    <2> QED BY <2>1
<1>5. /\ Marked(s, a) \in [Currencies -> Nat]
      /\ \A c \in Currencies : Marked(s, a)[c] <= s.perPower[c]
    BY <1>2, SharesFields DEF Marked, GoodShares
<1>6. /\ r.last \in [Accounts -> [Currencies -> Nat]]
      /\ \A b \in Accounts, c \in Currencies : r.last[b][c] <= s.perPower[c]
    <2>1. s.last \in [Accounts -> [Currencies -> Nat]]
        BY <1>2, SharesFields
    <2> QED BY <1>3, <1>5, <2>1 DEF GoodShares
<1>7. r.purse \in [Currencies -> Nat]
    BY <1>3, <1>4
<1>8. r \in Shares
    BY <1>2, <1>3, <1>6, <1>7, SharesFields, SharesBuilt
<1> QED BY <1>1, <1>3, <1>6, <1>8 DEF GoodShares

LEMMA PoweredFields ==
    ASSUME NEW s, GoodShares(s), NEW a \in Accounts, CanDistribute(s, a), NEW unit \in Nat,
           NEW r, r = Powered(s, a, unit)
    PROVE  /\ r.power = [s.power EXCEPT ![a] = s.power[a] + unit]
           /\ r.total = s.total + unit
           /\ r.perPower = s.perPower
           /\ r.purse = [c \in Currencies |-> s.purse[c] - Owed(s, a, c)]
           /\ r.last = [s.last EXCEPT ![a] = Marked(s, a)]
           /\ GoodShares(r)
<1>1. PICK d : d = Distributed(s, a)
    OBVIOUS
<1>2. s \in Shares /\ GoodShares(d) /\ d \in Shares
    BY <1>1, DistributedType DEF GoodShares
<1>3. /\ d.perPower = s.perPower
      /\ d.purse = [c \in Currencies |-> s.purse[c] - Owed(s, a, c)]
      /\ d.last = [s.last EXCEPT ![a] = Marked(s, a)]
      /\ d = [power |-> d.power, total |-> d.total, perPower |-> d.perPower,
              last |-> d.last, purse |-> d.purse]
    BY <1>1, <1>2, DistributedFields
<1>4. r = [d EXCEPT !.power = [s.power EXCEPT ![a] = s.power[a] + unit],
                    !.total = s.total + unit]
    BY <1>1, <1>2, SharesFields DEF Powered
<1>5. /\ r.power = [s.power EXCEPT ![a] = s.power[a] + unit] /\ r.total = s.total + unit
      /\ r.perPower = d.perPower /\ r.purse = d.purse /\ r.last = d.last
      /\ r = [power |-> r.power, total |-> r.total, perPower |-> r.perPower,
              last |-> r.last, purse |-> r.purse]
    BY <1>3, <1>4
<1>6. s.power[a] \in Nat /\ s.power \in [Accounts -> Nat] /\ s.total \in Nat \ {0}
    BY <1>2, SharesFields
<1>7. r.power \in [Accounts -> Nat] /\ r.total \in Nat \ {0}
    BY <1>5, <1>6
<1>8. r \in Shares
    BY <1>2, <1>5, <1>7, SharesFields, SharesBuilt
<1> QED BY <1>2, <1>3, <1>5, <1>8 DEF GoodShares

LEMMA PaidFields ==
    ASSUME NEW s, GoodShares(s), NEW currency \in Currencies, NEW price \in Nat,
           NEW r, r = Paid(s, currency, price)
    PROVE  /\ r.power = s.power /\ r.total = s.total /\ r.last = s.last
           /\ r.purse = [s.purse EXCEPT ![currency] = s.purse[currency] + price]
           /\ r.perPower = [s.perPower EXCEPT ![currency] =
                                s.perPower[currency] + (price * ONE) \div s.total]
           /\ (price * ONE) \div s.total \in Nat
           /\ GoodShares(r)
<1>1. s \in Shares
    BY DEF GoodShares
<1>2. s = [power |-> s.power, total |-> s.total, perPower |-> s.perPower,
           last |-> s.last, purse |-> s.purse]
    BY <1>1 DEF Shares
<1>3. /\ s.power \in [Accounts -> Nat] /\ s.total \in Nat \ {0}
      /\ s.perPower \in [Currencies -> Nat] /\ s.purse \in [Currencies -> Nat]
      /\ s.last \in [Accounts -> [Currencies -> Nat]]
    BY <1>1, SharesFields
<1>4. PICK q \in Nat : q = (price * ONE) \div s.total
    <2>1. price * ONE \in Nat
        BY PvtAssumption
    <2> QED BY <1>3, <2>1, DivBounds
<1>5. r = [s EXCEPT !.purse = [s.purse EXCEPT ![currency] = s.purse[currency] + price],
                    !.perPower = [s.perPower EXCEPT ![currency] = s.perPower[currency] + q]]
    BY <1>2, <1>4 DEF Paid
<1>6. /\ r.power = s.power /\ r.total = s.total /\ r.last = s.last
      /\ r.purse = [s.purse EXCEPT ![currency] = s.purse[currency] + price]
      /\ r.perPower = [s.perPower EXCEPT ![currency] = s.perPower[currency] + q]
      /\ r = [power |-> r.power, total |-> r.total, perPower |-> r.perPower,
              last |-> r.last, purse |-> r.purse]
    BY <1>2, <1>5
<1>7. /\ r.purse \in [Currencies -> Nat] /\ r.perPower \in [Currencies -> Nat]
      /\ \A c \in Currencies : s.perPower[c] <= r.perPower[c]
    BY <1>3, <1>6
<1>8. r \in Shares
    BY <1>3, <1>6, <1>7, SharesBuilt
<1>9. ASSUME NEW b \in Accounts, NEW c \in Currencies PROVE r.last[b][c] <= r.perPower[c]
    <2>1. /\ s.last[b][c] \in Nat /\ s.perPower[c] \in Nat /\ r.perPower[c] \in Nat
          /\ s.last[b][c] <= s.perPower[c] /\ s.perPower[c] <= r.perPower[c]
        BY <1>3, <1>7 DEF GoodShares
    <2> QED BY <1>6, <2>1
<1> QED BY <1>4, <1>6, <1>8, <1>9 DEF GoodShares

-----------------------------------------------------------------------------
(* Seen from the shares, a step does one of four things.                   *)

SharesRest ==
    /\ UNCHANGED <<shares, walletAtovix>>
    /\ ChestRequests' = ChestRequests

\* A price is paid.
Pays(currency, price) ==
    /\ shares' = Paid(shares, currency, price)
    /\ UNCHANGED walletAtovix
    /\ ChestRequests' = ChestRequests

\* An Atovix is minted to p.
GainsAtovix(p) ==
    /\ CanDistribute(shares, p)
    /\ walletAtovix' = [walletAtovix EXCEPT ![p] = walletAtovix[p] + 1]
    /\ shares' = Powered(shares, p, AtovixUnit(walletAtovix[p] + 1))
    /\ ChestRequests' = ChestRequests

\* A chest comes to the contract to be opened.
OpensChest ==
    /\ CanDistribute(shares, PVT)
    /\ shares' = Powered(shares, PVT, ChestUnit)
    /\ UNCHANGED walletAtovix
    /\ Len(requests) + 1 \notin ChestRequests
    /\ ChestRequests' = ChestRequests \union {Len(requests) + 1}

LEMMA MintingShares ==
    ASSUME SharesInv, NEW p \in Players, NEW kind, Mint(p, kind, shares),
           ChestRequests' = ChestRequests
    PROVE  SharesRest \/ GainsAtovix(p)
<1>1. CASE kind = "atovix"
    <2>1. /\ CanDistribute(shares, p)
          /\ walletAtovix' = [walletAtovix EXCEPT ![p] = walletAtovix[p] + 1]
          /\ shares' = Powered(shares, p, AtovixUnit(walletAtovix[p] + 1))
        BY <1>1 DEF Mint, SharesInv
    <2> QED BY <2>1 DEF GainsAtovix
<1>2. CASE kind # "atovix"
    BY <1>2 DEF Mint, SharesRest
<1> QED BY <1>1, <1>2

LEMMA SharesShape ==
    ASSUME TypeInv, SharesInv, [Next]_vars
    PROVE  \/ SharesRest
           \/ \E currency \in Currencies, price \in Nat : Pays(currency, price)
           \/ \E p \in Players : GainsAtovix(p)
           \/ OpensChest
<1>1. ASSUME NEW p \in Players, NEW price \in PricesATON, BuyRegularNft(p, price)
      PROVE  \E c \in Currencies, x \in Nat : Pays(c, x)
    <2>1. Ask(p, "regular") /\ shares' = Paid(shares, "ATON", price)
          /\ UNCHANGED walletAtovix
        BY <1>1 DEF BuyRegularNft
    <2>2. ChestRequests' = ChestRequests
        BY <2>1, Asked DEF ChestRequests, Kinds
    <2>3. price \in Nat /\ "ATON" \in Currencies
        BY PvtAssumption DEF Currencies
    <2> QED BY <2>1, <2>2, <2>3 DEF Pays
<1>2. ASSUME NEW p \in Players, BuyTreasureChest(p)
      PROVE  \E c \in Currencies, x \in Nat : Pays(c, x)
    <2>1. PICK price : price = ChestBase + ChestStep * chestCount'
        OBVIOUS
    <2>2. /\ Mint(p, "treasure chest", Paid(shares, "VUND", price))
          /\ chestCount' = chestCount + 1 /\ requests' = requests
        BY <1>2, <2>1 DEF BuyTreasureChest
    <2>3. price \in Nat /\ "VUND" \in Currencies
        <3>a. PICK m \in Nat : m = chestCount
            BY DEF SharesInv
        <3>1. PICK n \in Nat : n = m + 1
            OBVIOUS
        <3>b. n = chestCount'
            BY <2>2, <3>a, <3>1
        <3>2. ChestBase \in Nat /\ ChestStep * n \in Nat
            BY PvtAssumption
        <3> QED BY <2>1, <3>b, <3>2 DEF Currencies
    <2>4. shares' = Paid(shares, "VUND", price) /\ UNCHANGED walletAtovix
        BY <2>2 DEF Mint
    <2>5. ChestRequests' = ChestRequests
        BY <2>2 DEF ChestRequests
    <2> QED BY <2>3, <2>4, <2>5 DEF Pays
<1>3. ASSUME NEW p \in Players, NEW t \in Tokens, OpenTreasureChest(p, t)
      PROVE  OpensChest
    <2>1. /\ Ask(p, "chest") /\ CanDistribute(shares, PVT)
          /\ shares' = Powered(shares, PVT, ChestUnit) /\ UNCHANGED walletAtovix
        BY <1>3 DEF OpenTreasureChest
    <2>2. /\ ChestRequests' = ChestRequests \union {Len(requests) + 1}
          /\ Len(requests) + 1 \notin ChestRequests
        BY <2>1, Asked DEF ChestRequests, Kinds
    <2> QED BY <2>1, <2>2 DEF OpensChest
<1>4. ASSUME NEW p \in Players, NEW kind, Mint(p, kind, shares), UNCHANGED requests
      PROVE  SharesRest \/ GainsAtovix(p)
    <2>1. ChestRequests' = ChestRequests
        BY <1>4 DEF ChestRequests
    <2> QED BY <1>4, <2>1, MintingShares
<1>5. ASSUME NEW r \in DOMAIN requests, FulfillRandomWords(r)
      PROVE  SharesRest
    <2>1. ChestRequests' = ChestRequests
        BY <1>5, Answered DEF ChestRequests
    <2> QED BY <1>5, <2>1 DEF FulfillRandomWords, SharesRest
<1>6. ASSUME NEW t \in Tokens, NEW to \in Accounts, TransferFrom(t, to)
      PROVE  SharesRest
    BY <1>6 DEF TransferFrom, SharesRest, ChestRequests
<1>7. CASE UNCHANGED vars
    BY <1>7 DEF vars, SharesRest, ChestRequests
<1>8. Owner \in Players
    BY PvtAssumption
<1>9. CASE MintAtovix
    BY <1>4, <1>8, <1>9 DEF MintAtovix
<1>10. ASSUME NEW p \in Players, NEW roll, ClaimNft(p, roll)
       PROVE  SharesRest \/ GainsAtovix(p)
    BY <1>4, <1>10 DEF ClaimNft
<1> QED BY <1>1, <1>2, <1>3, <1>5, <1>6, <1>7, <1>9, <1>10 DEF Next

\* The count-th Atovix adds to count * (count - 1) what is missing.
LEMMA AtovixUnits ==
    ASSUME NEW w \in Nat
    PROVE  /\ AtovixUnit(w + 1) \in Nat
           /\ w * (w - 1) \in Nat
           /\ w * (w - 1) + AtovixUnit(w + 1) = (w + 1) * ((w + 1) - 1)
BY DEF AtovixUnit

LEMMA SharesInit == Init => SharesInv
<1> SUFFICES ASSUME Init PROVE SharesInv
    OBVIOUS
<1>1. /\ shares = [power |-> [a \in Accounts |-> IF a = PVT THEN 1 ELSE 0], total |-> 1,
                   perPower |-> Nothing, last |-> [a \in Accounts |-> Nothing],
                   purse |-> Nothing]
      /\ Nothing \in [Currencies -> Nat] /\ \A c \in Currencies : Nothing[c] = 0
    BY DEF Init, Nothing
<1> HIDE DEF Nothing
<1>2. shares \in Shares
    BY <1>1 DEF Shares
<1>3. \A a \in Accounts, c \in Currencies : shares.last[a][c] <= shares.perPower[c]
    BY <1>1
<1> QED BY <1>2, <1>3 DEF Init, SharesInv, GoodShares

LEMMA SharesStep ==
    ASSUME TypeInv, SharesInv, [Next]_vars
    PROVE  SharesInv'
<1>1. GoodShares(shares) /\ walletAtovix \in [Players -> Nat]
    BY DEF SharesInv
<1>2. GoodShares(shares)' /\ walletAtovix' \in [Players -> Nat]
    <2>1. CASE SharesRest
        BY <1>1, <2>1 DEF SharesRest, GoodShares
    <2>2. ASSUME NEW currency \in Currencies, NEW price \in Nat, Pays(currency, price)
          PROVE  GoodShares(shares)' /\ walletAtovix' \in [Players -> Nat]
        <3>1. PICK r : r = Paid(shares, currency, price)
            OBVIOUS
        <3>2. GoodShares(r)
            BY <1>1, <3>1, PaidFields
        <3> QED BY <1>1, <2>2, <3>1, <3>2 DEF Pays, GoodShares
    <2>3. ASSUME NEW p \in Players, GainsAtovix(p)
          PROVE  GoodShares(shares)' /\ walletAtovix' \in [Players -> Nat]
        <3>1. PICK u \in Nat : u = AtovixUnit(walletAtovix[p] + 1)
            BY <1>1, AtovixUnits
        <3>2. PICK r : r = Powered(shares, p, u)
            OBVIOUS
        <3>3. p \in Accounts /\ CanDistribute(shares, p) /\ shares' = r
            BY <2>3, <3>1, <3>2 DEF GainsAtovix, Accounts
        <3>4. GoodShares(r)
            BY <1>1, <3>2, <3>3, PoweredFields
        <3> QED BY <1>1, <2>3, <3>3, <3>4 DEF GainsAtovix, GoodShares
    <2>4. CASE OpensChest
        <3>1. PICK r : r = Powered(shares, PVT, 2)
            OBVIOUS
        <3>2. PVT \in Accounts /\ CanDistribute(shares, PVT) /\ shares' = r
            BY <2>4, <3>1 DEF OpensChest, Accounts, ChestUnit
        <3>3. GoodShares(r)
            BY <1>1, <3>1, <3>2, PoweredFields
        <3> QED BY <1>1, <2>4, <3>2, <3>3 DEF OpensChest, GoodShares
    <2> QED BY <2>1, <2>2, <2>3, <2>4, SharesShape
<1>3. chestCount' \in Nat
    <2>1. chestCount' = chestCount \/ chestCount' = chestCount + 1
        BY DEF Next, MintAtovix, BuyRegularNft, BuyTreasureChest, OpenTreasureChest,
               ClaimNft, FulfillRandomWords, TransferFrom, vars
    <2> QED BY <2>1 DEF SharesInv
<1> QED BY <1>2, <1>3 DEF SharesInv

-----------------------------------------------------------------------------
(* The powers: their total, a player's and the contract's.                 *)

PowersInv ==
    /\ shares.total = SumFunctionOnSet(shares.power, Accounts)
    /\ \A p \in Players : shares.power[p] = walletAtovix[p] * (walletAtovix[p] - 1)
    /\ shares.power[PVT] = 1 + ChestUnit * Cardinality(ChestRequests)

\* Power is gained by one account, and by the total.
LEMMA PowerSums ==
    ASSUME IsFiniteSet(Accounts), NEW s, GoodShares(s),
           s.total = SumFunctionOnSet(s.power, Accounts),
           NEW a \in Accounts, NEW unit \in Nat, NEW r,
           r.power = [s.power EXCEPT ![a] = s.power[a] + unit], r.total = s.total + unit
    PROVE  r.total = SumFunctionOnSet(r.power, Accounts)
<1>1. PICK f, g : f = s.power /\ g = r.power
    OBVIOUS
<1>2. f \in [Accounts -> Nat]
    BY <1>1, SharesFields DEF GoodShares
<1>3. /\ g[a] = f[a] + unit
      /\ \A b \in Accounts \ {a} : f[b] = g[b]
      /\ \A b \in Accounts : f[b] \in Int /\ g[b] \in Int
    BY <1>1, <1>2
<1>4. SumFunctionOnSet(g, Accounts) = SumFunctionOnSet(f, Accounts) - f[a] + g[a]
    BY <1>3, SumChange
<1>5. SumFunctionOnSet(f, Accounts) \in Int
    BY <1>3, SumType
<1> QED BY <1>1, <1>3, <1>4, <1>5

LEMMA PowersInit ==
    ASSUME IsFiniteSet(Accounts), Init
    PROVE  PowersInv
<1>1. PICK f : f = shares.power
    OBVIOUS
<1>2. /\ f = [a \in Accounts |-> IF a = PVT THEN 1 ELSE 0] /\ shares.total = 1
      /\ PVT \in Accounts
    BY <1>1 DEF Init, Accounts
<1>3. SumFunctionOnSet(f, Accounts) = f[PVT] + SumFunctionOnSet(f, Accounts \ {PVT})
    BY <1>2, SumRemove
<1>4. SumFunctionOnSet(f, Accounts \ {PVT}) = 0
    <2>1. IsFiniteSet(Accounts \ {PVT}) /\ \A a \in Accounts \ {PVT} : f[a] = 0
        BY <1>2, FS_RemoveElement
    <2> QED BY <2>1, SumMasked, SumEmpty
<1>5. \A p \in Players : p \in Accounts /\ p # PVT /\ walletAtovix[p] = 0
    BY PvtAssumption DEF Accounts, Init
<1>6. \A p \in Players : shares.power[p] = 0
    BY <1>1, <1>2, <1>5
<1>7. \A p \in Players : shares.power[p] = walletAtovix[p] * (walletAtovix[p] - 1)
    BY <1>5, <1>6
<1>8. ChestRequests = {}
    BY DEF Init, ChestRequests
<1> QED BY <1>1, <1>2, <1>3, <1>4, <1>7, <1>8, FS_EmptySet DEF PowersInv, ChestUnit

\* Of these facts, those about the powers.
LEMMA PaidShares ==
    ASSUME NEW s, GoodShares(s), NEW currency \in Currencies, NEW price \in Nat,
           NEW r, r = Paid(s, currency, price)
    PROVE  r.power = s.power /\ r.total = s.total
<1>1. s \in Shares
    BY DEF GoodShares
<1>2. s = [power |-> s.power, total |-> s.total, perPower |-> s.perPower,
           last |-> s.last, purse |-> s.purse]
    BY <1>1 DEF Shares
<1> QED BY <1>2 DEF Paid

LEMMA PoweredShares ==
    ASSUME NEW s, GoodShares(s), NEW a \in Accounts, CanDistribute(s, a), NEW unit \in Nat,
           NEW r, r = Powered(s, a, unit)
    PROVE  /\ r.power = [s.power EXCEPT ![a] = s.power[a] + unit]
           /\ r.total = s.total + unit
<1>1. /\ r.power = [s.power EXCEPT ![a] = s.power[a] + unit]
      /\ r.total = s.total + unit
      /\ r.perPower = s.perPower
      /\ r.purse = [c \in Currencies |-> s.purse[c] - Owed(s, a, c)]
      /\ r.last = [s.last EXCEPT ![a] = Marked(s, a)]
      /\ GoodShares(r)
    BY PoweredFields
<1> QED BY <1>1

LEMMA PowersStep ==
    ASSUME IsFiniteSet(Accounts), TypeInv, SharesInv, PowersInv, [Next]_vars
    PROVE  PowersInv'
<1>1. GoodShares(shares) /\ shares \in Shares /\ walletAtovix \in [Players -> Nat]
    BY DEF SharesInv, GoodShares
<1>2. \A p \in Players : p \in Accounts /\ p # PVT
    BY PvtAssumption DEF Accounts
<1>3. shares.power \in [Accounts -> Nat]
    BY <1>1, SharesFields
<1>4. CASE SharesRest
    BY <1>4 DEF SharesRest, PowersInv
<1>5. ASSUME NEW currency \in Currencies, NEW price \in Nat, Pays(currency, price)
      PROVE  PowersInv'
    <2>1. PICK r : r = Paid(shares, currency, price)
        OBVIOUS
    <2>2. r.power = shares.power /\ r.total = shares.total
        BY <1>1, <2>1, PaidShares
    <2> QED BY <1>5, <2>1, <2>2 DEF Pays, PowersInv
<1>6. ASSUME NEW p \in Players, GainsAtovix(p)
      PROVE  PowersInv'
    <2>1. PICK w \in Nat : w = walletAtovix[p]
        BY <1>1
    <2>2. PICK u \in Nat : u = AtovixUnit(w + 1)
        BY AtovixUnits
    <2>3. PICK r : r = Powered(shares, p, u)
        OBVIOUS
    <2>4. p \in Accounts /\ CanDistribute(shares, p) /\ shares' = r
          /\ walletAtovix' = [walletAtovix EXCEPT ![p] = w + 1]
          /\ ChestRequests' = ChestRequests
        BY <1>2, <1>6, <2>1, <2>2, <2>3 DEF GainsAtovix
    <2>5. r.power = [shares.power EXCEPT ![p] = shares.power[p] + u]
          /\ r.total = shares.total + u
        BY <1>1, <2>3, <2>4, PoweredShares
    <2>6. r.total = SumFunctionOnSet(r.power, Accounts)
        BY <1>1, <2>4, <2>5, PowerSums DEF PowersInv
    <2>7. shares.power[p] = w * (w - 1) /\ w * (w - 1) + u = (w + 1) * ((w + 1) - 1)
        BY <2>1, <2>2, AtovixUnits DEF PowersInv
    <2>8. r.power[p] = (w + 1) * ((w + 1) - 1)
        BY <1>3, <2>4, <2>5, <2>7
    <2>9. ASSUME NEW q \in Players
          PROVE  r.power[q] = walletAtovix'[q] * (walletAtovix'[q] - 1)
        <3>1. CASE q = p
            <4>1. walletAtovix'[q] = w + 1
                BY <1>1, <2>4, <3>1
            <4> QED BY <2>8, <3>1, <4>1
        <3>2. CASE q # p
            <4>1. walletAtovix'[q] = walletAtovix[q] /\ r.power[q] = shares.power[q]
                BY <1>1, <1>2, <1>3, <2>4, <2>5, <3>2
            <4> QED BY <4>1 DEF PowersInv
        <3> QED BY <3>1, <3>2
    <2>10. r.power[PVT] = shares.power[PVT]
        BY <1>2, <1>3, <2>5 DEF Accounts
    <2> QED BY <2>4, <2>6, <2>9, <2>10 DEF PowersInv
<1>7. CASE OpensChest
    <2>1. PICK r : r = Powered(shares, PVT, 2)
        OBVIOUS
    <2>2. PVT \in Accounts /\ CanDistribute(shares, PVT) /\ shares' = r
          /\ walletAtovix' = walletAtovix
        BY <1>7, <2>1 DEF OpensChest, Accounts, ChestUnit
    <2>3. r.power = [shares.power EXCEPT ![PVT] = shares.power[PVT] + 2]
          /\ r.total = shares.total + 2
        BY <1>1, <2>1, <2>2, PoweredShares
    <2>4. r.total = SumFunctionOnSet(r.power, Accounts)
        BY <1>1, <2>2, <2>3, PowerSums DEF PowersInv
    <2>5. \A p \in Players : r.power[p] = shares.power[p]
        BY <1>2, <1>3, <2>3
    <2>6. PICK n \in Nat : n = Cardinality(ChestRequests)
        BY RequestsAreFinite
    <2>7. Cardinality(ChestRequests') = n + 1
        BY <1>7, <2>6, RequestsAreFinite, FS_AddElement DEF OpensChest
    <2>8. r.power[PVT] = 1 + 2 * (n + 1)
        BY <1>3, <2>2, <2>3, <2>6 DEF PowersInv, ChestUnit
    <2> QED BY <2>2, <2>4, <2>5, <2>7, <2>8 DEF PowersInv, ChestUnit
<1> QED BY <1>4, <1>5, <1>6, <1>7, SharesShape

-----------------------------------------------------------------------------
(* What the contract owes itself.                                          *)

\* Power P with d commission per power not yet marked is covered by the purse u, up
\* to less than one unit.  A chest opened with nothing owed adds two to P: a third
\* of what is pending is then new, and with P = 1 what is pending owes no fraction.
Funded(P, d, u) ==
    /\ P * d < (u + 1) * ONE
    /\ d > 0 => u > 0
    /\ P = 1 => \E k \in Nat : d = k * ONE

Pending(s, c) == s.perPower[c] - s.last[PVT][c]

OnlyContract == \A p \in Players : shares.power[p] = 0

FundedInv ==
    OnlyContract =>
        \A c \in Currencies : Funded(shares.power[PVT], Pending(shares, c), shares.purse[c])

LEMMA PendingType ==
    ASSUME NEW s, GoodShares(s), NEW c \in Currencies
    PROVE  /\ Pending(s, c) \in Nat /\ s.purse[c] \in Nat /\ s.power[PVT] \in Nat
           /\ s.perPower[c] \in Nat /\ s.last[PVT][c] \in Nat
<1>1. s \in Shares /\ PVT \in Accounts
    BY DEF GoodShares, Accounts
<1>2. s.perPower[c] \in Nat /\ s.last[PVT][c] \in Nat /\ s.purse[c] \in Nat
      /\ s.power[PVT] \in Nat /\ s.last[PVT][c] <= s.perPower[c]
    BY <1>1, SharesFields DEF GoodShares
<1> QED BY <1>2 DEF Pending

\* A price paid is commission of the one account with power.
LEMMA FundedByPrice ==
    ASSUME NEW P \in Nat \ {0}, NEW d \in Nat, NEW u \in Nat, Funded(P, d, u),
           NEW price \in Nat, NEW q \in Nat, q = (price * ONE) \div P
    PROVE  Funded(P, d + q, u + price)
<1>a. ONE \in Nat /\ ONE > 0
    BY PvtAssumption
<1>b. PICK x \in Nat : x = price * ONE
    BY <1>a
<1>1. P * q <= x
    BY <1>b, DivBounds
<1>2. P * (d + q) = P * d + P * q
    OBVIOUS
<1>3. (u + price + 1) * ONE = (u + 1) * ONE + x
    BY <1>a, <1>b
<1>4. P * d < (u + 1) * ONE
    BY DEF Funded
<1>5. P * (d + q) < (u + price + 1) * ONE
    <2>1. PICK y, z, w \in Int : y = P * d /\ z = P * q /\ w = (u + 1) * ONE
        BY <1>a
    <2> QED BY <1>1, <1>2, <1>3, <1>4, <1>b, <2>1
<1>6. ASSUME d + q > 0 PROVE u + price > 0
    <2>1. CASE price = 0
        <3>1. x = 0 /\ q = 0
            BY <1>a, <1>b, <2>1
        <3> QED BY <1>6, <3>1 DEF Funded
    <2> QED BY <2>1
<1>7. ASSUME P = 1 PROVE \E k \in Nat : d + q = k * ONE
    <2>1. PICK k \in Nat : d = k * ONE
        BY <1>7 DEF Funded
    <2>2. q = price * ONE
        BY <1>7, <1>b
    <2>3. d + q = (k + price) * ONE
        BY <1>a, <2>1, <2>2
    <2> QED BY <2>3
<1> QED BY <1>5, <1>6, <1>7 DEF Funded

\* A chest opened while nothing is owed.
LEMMA FundedByChest ==
    ASSUME NEW P \in Nat, P = 1 \/ P > 2, NEW d \in Nat, NEW u \in Nat, Funded(P, d, u),
           P * d < ONE
    PROVE  Funded(P + 2, d, u)
<1>a. ONE \in Nat /\ ONE > 0
    BY PvtAssumption
<1>1. CASE d = 0
    <2>1. (u + 1) * ONE > 0
        BY <1>a
    <2> QED BY <1>1, <2>1 DEF Funded
<1>2. CASE d > 0 /\ P = 1
    <2>1. PICK k \in Nat : d = k * ONE
        BY <1>2 DEF Funded
    <2>2. k # 0
        BY <1>2, <1>a, <2>1
    <2>3. k * ONE >= ONE
        BY <1>a, <2>2
    <2> QED BY <1>a, <1>2, <2>1, <2>3
<1>3. CASE d > 0 /\ P > 2
    <2>1. u > 0
        BY <1>3 DEF Funded
    <2>2. 2 * d <= P * d
        BY <1>3
    <2>3. (P + 2) * d = P * d + 2 * d
        OBVIOUS
    <2>4. (u + 1) * ONE >= 2 * ONE
        BY <1>a, <2>1
    <2>5. (P + 2) * d < (u + 1) * ONE
        <3>1. PICK x, y \in Int : x = P * d /\ y = (u + 1) * ONE
            BY <1>a
        <3> QED BY <1>a, <2>2, <2>3, <2>4, <3>1
    <2> QED BY <1>3, <2>1, <2>5 DEF Funded
<1> QED BY <1>1, <1>2, <1>3

\* What is owed is covered.
LEMMA FundedPays ==
    ASSUME NEW P \in Nat, NEW d \in Nat, NEW u \in Nat, Funded(P, d, u)
    PROVE  (P * d) \div ONE <= u
<1>1. ONE \in Nat \ {0} /\ P * d \in Nat
    BY PvtAssumption
<1>2. P * d < ONE * u + ONE
    BY <1>1 DEF Funded
<1> QED BY <1>1, <1>2, DivAtMost

\* While no player has power, the total is the contract's.
LEMMA TotalIsContracts ==
    ASSUME IsFiniteSet(Accounts), SharesInv, PowersInv, OnlyContract
    PROVE  shares.total = shares.power[PVT]
<1>1. PICK f : f = shares.power
    OBVIOUS
<1>2. f \in [Accounts -> Nat] /\ PVT \in Accounts
    BY <1>1, SharesFields DEF SharesInv, GoodShares, Accounts
<1>3. SumFunctionOnSet(f, Accounts) = f[PVT] + SumFunctionOnSet(f, Accounts \ {PVT})
    BY <1>2, SumRemove
<1>4. SumFunctionOnSet(f, Accounts \ {PVT}) = 0
    <2>1. IsFiniteSet(Accounts \ {PVT}) /\ \A a \in Accounts \ {PVT} : f[a] = 0
        BY <1>1, FS_RemoveElement DEF OnlyContract, Accounts
    <2> QED BY <2>1, SumMasked, SumEmpty
<1>5. shares.total = SumFunctionOnSet(f, Accounts)
    BY <1>1 DEF PowersInv
<1> QED BY <1>1, <1>2, <1>3, <1>4, <1>5

LEMMA FundedInit == Init => FundedInv
<1> SUFFICES ASSUME Init, NEW c \in Currencies
             PROVE  Funded(shares.power[PVT], Pending(shares, c), shares.purse[c])
    BY DEF FundedInv
<1>1. /\ shares.power[PVT] = 1 /\ shares.perPower[c] = 0 /\ shares.last[PVT][c] = 0
      /\ shares.purse[c] = 0
    BY DEF Init, Nothing, Accounts
<1>2. Pending(shares, c) = 0 /\ 0 = 0 * ONE /\ ONE > 0
    BY <1>1, PvtAssumption DEF Pending
<1> QED BY <1>1, <1>2, PvtAssumption DEF Funded

LEMMA FundedStep ==
    ASSUME IsFiniteSet(Accounts), TypeInv, SharesInv, PowersInv, FundedInv, [Next]_vars
    PROVE  FundedInv'
<1> SUFFICES ASSUME OnlyContract', NEW c \in Currencies
             PROVE  Funded(shares'.power[PVT], Pending(shares', c), shares'.purse[c])
    BY DEF FundedInv, Pending
<1>1. GoodShares(shares) /\ walletAtovix \in [Players -> Nat]
    BY DEF SharesInv
<1>2. shares.power \in [Accounts -> Nat] /\ shares.purse \in [Currencies -> Nat]
      /\ PVT \in Accounts /\ \A p \in Players : p \in Accounts /\ p # PVT
    BY <1>1, SharesFields, PvtAssumption, ZenonT(30) DEF GoodShares, Accounts
<1>3. PICK P \in Nat, d \in Nat, u \in Nat :
          P = shares.power[PVT] /\ d = Pending(shares, c) /\ u = shares.purse[c]
    BY <1>1, PendingType
<1>4. P # 0 /\ (P = 1 \/ P > 2)
    BY <1>3, RequestsAreFinite DEF PowersInv, ChestUnit
<1>5. OnlyContract => Funded(P, d, u)
    BY <1>3 DEF FundedInv
<1>6. CASE SharesRest
    BY <1>3, <1>5, <1>6 DEF SharesRest, OnlyContract
<1>7. ASSUME NEW currency \in Currencies, NEW price \in Nat, Pays(currency, price)
      PROVE  Funded(shares'.power[PVT], Pending(shares', c), shares'.purse[c])
    <2>1. PICK r : r = Paid(shares, currency, price)
        OBVIOUS
    <2>2. r = shares' /\ r.power = shares.power
        BY <1>1, <1>7, <2>1, PaidShares DEF Pays
    <2>3. OnlyContract
        BY <2>2 DEF OnlyContract
    <2>4. shares.total = P
        BY <1>3, <2>3, TotalIsContracts
    <2>5. PICK q : q = (price * ONE) \div shares.total
        OBVIOUS
    <2>6. /\ r.last = shares.last
          /\ r.purse = [shares.purse EXCEPT ![currency] = shares.purse[currency] + price]
          /\ r.perPower = [shares.perPower EXCEPT ![currency] = shares.perPower[currency] + q]
          /\ q \in Nat
        BY <1>1, <2>1, <2>5, PaidFields
    <2>7. Funded(P, d + q, u + price)
        BY <1>4, <1>5, <2>3, <2>4, <2>5, <2>6, FundedByPrice
    <2>8. shares.perPower \in [Currencies -> Nat]
        BY <1>1, SharesFields DEF GoodShares
    <2>9. CASE c = currency
        <3>1. r.purse[c] = u + price /\ r.perPower[c] = shares.perPower[c] + q
            BY <1>2, <1>3, <2>6, <2>8, <2>9
        <3>2. Pending(r, c) = d + q
            BY <1>1, <1>3, <2>6, <3>1, PendingType DEF Pending
        <3> QED BY <1>3, <2>2, <2>7, <3>1, <3>2
    <2>10. CASE c # currency
        <3>1. r.purse[c] = u /\ r.perPower[c] = shares.perPower[c]
            BY <1>2, <1>3, <2>6, <2>8, <2>10
        <3>2. Pending(r, c) = d
            BY <1>3, <2>6, <3>1 DEF Pending
        <3> QED BY <1>3, <1>5, <2>2, <2>3, <3>1, <3>2
    <2> QED BY <2>9, <2>10
<1>8. ASSUME NEW p \in Players, GainsAtovix(p)
      PROVE  Funded(shares'.power[PVT], Pending(shares', c), shares'.purse[c])
    <2>1. PICK unit \in Nat : unit = AtovixUnit(walletAtovix[p] + 1)
        BY <1>1, AtovixUnits
    <2>2. PICK r : r = Powered(shares, p, unit)
        OBVIOUS
    <2>3. p \in Accounts /\ CanDistribute(shares, p) /\ r = shares'
        BY <1>2, <1>8, <2>1, <2>2 DEF GainsAtovix
    <2>4. /\ r.power = [shares.power EXCEPT ![p] = shares.power[p] + unit]
          /\ r.total = shares.total + unit
          /\ r.perPower = shares.perPower
          /\ r.purse = [x \in Currencies |-> shares.purse[x] - Owed(shares, p, x)]
          /\ r.last = [shares.last EXCEPT ![p] = Marked(shares, p)]
          /\ GoodShares(r)
        BY <1>1, <2>2, <2>3, PoweredFields
    <2>5. OnlyContract /\ r.power[PVT] = P /\ shares.power[p] = 0
        <3>1. r.power[p] = 0 /\ shares.power[p] \in Nat /\ r.power[p] = shares.power[p] + unit
            BY <1>2, <2>3, <2>4 DEF OnlyContract
        <3>2. \A q \in Players : q # p => shares.power[q] = r.power[q]
            BY <1>2, <2>4
        <3>3. shares.power[p] = 0
            BY <3>1
        <3>4. OnlyContract
            <4> SUFFICES ASSUME NEW q \in Players PROVE shares.power[q] = 0
                BY DEF OnlyContract
            <4>1. CASE q = p
                BY <3>3, <4>1
            <4>2. CASE q # p
                <5>1. r.power[q] = 0
                    BY <2>3 DEF OnlyContract
                <5> QED BY <3>2, <4>2, <5>1
            <4> QED BY <4>1, <4>2
        <3>5. p # PVT /\ PVT \in Accounts
            BY <1>2
        <3>6. r.power[PVT] = P
            BY <1>2, <1>3, <2>4, <3>5
        <3> QED BY <3>3, <3>4, <3>6
    <2>6. Owed(shares, p, c) = 0
        <3>1. PICK y : y = shares.perPower[c] - shares.last[p][c]
            OBVIOUS
        <3>2. y \in Int
            BY <1>1, <1>2, <3>1, SharesFields DEF GoodShares
        <3> QED BY <2>5, <3>1, <3>2, PvtAssumption DEF Owed
    <2>7. r.purse[c] = u /\ r.last[PVT] = shares.last[PVT]
        BY <1>1, <1>2, <1>3, <2>4, <2>6, SharesFields DEF GoodShares
    <2>8. Pending(r, c) = d
        BY <1>3, <2>4, <2>7 DEF Pending
    <2> QED BY <1>5, <2>3, <2>5, <2>7, <2>8
<1>9. CASE OpensChest
    <2>1. PICK r : r = Powered(shares, PVT, 2)
        OBVIOUS
    <2>2. CanDistribute(shares, PVT) /\ r = shares'
        BY <1>9, <2>1 DEF OpensChest, ChestUnit
    <2>3. /\ r.power = [shares.power EXCEPT ![PVT] = shares.power[PVT] + 2]
          /\ r.perPower = shares.perPower
          /\ r.purse = [x \in Currencies |-> shares.purse[x] - Owed(shares, PVT, x)]
          /\ r.last = [shares.last EXCEPT ![PVT] = Marked(shares, PVT)]
        <3>1. PICK two \in Nat : two = 2
            OBVIOUS
        <3>2. CanDistribute(shares, PVT) /\ PVT \in Accounts
            BY <1>2, <2>2
        <3>3. r = Powered(shares, PVT, two)
            BY <2>1, <3>1
        <3>4. /\ r.power = [shares.power EXCEPT ![PVT] = shares.power[PVT] + two]
              /\ r.perPower = shares.perPower
              /\ r.purse = [x \in Currencies |-> shares.purse[x] - Owed(shares, PVT, x)]
              /\ r.last = [shares.last EXCEPT ![PVT] = Marked(shares, PVT)]
            BY <1>1, <3>2, <3>3, PoweredFields
        <3> QED BY <3>1, <3>4
    <2>4. OnlyContract /\ r.power[PVT] = P + 2
        BY <1>2, <1>3, <2>2, <2>3 DEF OnlyContract
    <2>5. PICK o \in Nat : o = Owed(shares, PVT, c)
        BY <1>1, <1>2, OwedType
    <2>6. o = (P * d) \div ONE /\ o <= u
        BY <1>3, <2>2, <2>5 DEF Owed, Pending, CanDistribute
    <2>7. r.purse[c] = u - o
        BY <1>3, <2>3, <2>5
    <2>8. r.last[PVT][c] = IF o > 0 THEN shares.perPower[c] ELSE shares.last[PVT][c]
        BY <1>1, <1>2, <2>3, <2>5, SharesFields DEF GoodShares, Marked
    <2>9. CASE o > 0
        <3>1. Pending(r, c) = 0
            BY <1>1, <2>3, <2>8, <2>9, PendingType DEF Pending
        <3>2. PICK v \in Nat : v = u - o
            BY <2>6
        <3>3. (v + 1) * ONE > 0 /\ (P + 2) * 0 = 0
            BY PvtAssumption
        <3>4. Funded(P + 2, 0, v)
            BY <3>3, <1>4 DEF Funded
        <3> QED BY <2>2, <2>4, <2>7, <3>1, <3>2, <3>4
    <2>10. CASE o = 0
        <3>1. Pending(r, c) = d
            <4>1. r.last[PVT][c] = shares.last[PVT][c]
                BY <2>8, <2>10
            <4> QED BY <1>3, <2>3, <4>1 DEF Pending
        <3>2. P * d < ONE
            <4>1. P * d \in Nat /\ ONE \in Nat \ {0}
                BY PvtAssumption
            <4>2. P * d < ONE * 0 + ONE
                BY <2>6, <2>10, <4>1, DivAtMost
            <4> QED BY <4>2, <4>1
        <3>3. Funded(P + 2, d, u)
            BY <1>4, <1>5, <2>4, <3>2, FundedByChest
        <3>4. r.purse[c] = u
            BY <2>7, <2>10
        <3> QED BY <2>2, <2>4, <3>1, <3>3, <3>4
    <2> QED BY <2>9, <2>10
<1> QED BY <1>6, <1>7, <1>8, <1>9, SharesShape

-----------------------------------------------------------------------------
(* The lists of tokens.                                                    *)

\* Every listed token is one of the first n and knows its place, and no two
\* accounts list the same one.
Tidy(l, n) ==
    /\ l.of \in [Accounts -> Seq(Tokens)] /\ l.at \in [Tokens -> Nat]
    /\ \A a \in Accounts : \A i \in 1..Len(l.of[a]) :
          l.of[a][i] <= n /\ l.at[l.of[a][i]] = i - 1
    /\ \A a, b \in Accounts : \A i \in 1..Len(l.of[a]), j \in 1..Len(l.of[b]) :
          a # b => l.of[a][i] # l.of[b][j]

Listed(l, a, t) == l.at[t] < Len(l.of[a]) /\ l.of[a][l.at[t] + 1] = t

Absent(l, t) == \A a \in Accounts : \A i \in 1..Len(l.of[a]) : l.of[a][i] # t

NoChestMoved == \A t \in moved : category[t] # "treasure chest"

MintedInv ==
    /\ tokenCounter <= MaxTokens
    /\ moved \subseteq 1..tokenCounter
    /\ \A t \in 1..tokenCounter : owners[t] \in Accounts

ListsInv ==
    NoChestMoved =>
        /\ Tidy(lists, tokenCounter)
        /\ \A t \in 1..tokenCounter \ moved : Listed(lists, owners[t], t)

LEMMA AddedKeeps ==
    ASSUME NEW n \in Nat, NEW m \in Nat, n <= m, NEW l, Tidy(l, n), NEW a \in Accounts,
           NEW t \in Tokens, t <= m, Absent(l, t), NEW k, k = Added(l, a, t)
    PROVE  /\ Tidy(k, m)
           /\ Listed(k, a, t)
           /\ \A b \in Accounts, u \in Tokens : u # t /\ Listed(l, b, u) => Listed(k, b, u)
<1>1. PICK f, g : f = l.of /\ g = l.at
    OBVIOUS
<1>2. f \in [Accounts -> Seq(Tokens)] /\ g \in [Tokens -> Nat]
    BY <1>1 DEF Tidy
<1>3. PICK s \in Seq(Tokens) : s = f[a]
    BY <1>2
<1>4. PICK e \in Nat : e = Len(s)
    OBVIOUS
<1>5. PICK x : x = Append(s, t)
    OBVIOUS
<1>6. /\ x \in Seq(Tokens) /\ Len(x) = e + 1 /\ x[e + 1] = t
      /\ \A i \in 1..e : x[i] = s[i]
    BY <1>4, <1>5
<1>7. k.of = [f EXCEPT ![a] = x] /\ k.at = [g EXCEPT ![t] = e]
    BY <1>1, <1>3, <1>4, <1>5, <1>2 DEF Added
<1>8. PICK F, G : F = k.of /\ G = k.at
    OBVIOUS
<1>9. /\ F \in [Accounts -> Seq(Tokens)] /\ G \in [Tokens -> Nat]
      /\ F[a] = x /\ \A b \in Accounts : b # a => F[b] = f[b]
      /\ G[t] = e /\ \A u \in Tokens : u # t => G[u] = g[u]
    BY <1>2, <1>6, <1>7, <1>8
<1>10. \A b \in Accounts : /\ f[b] \in Seq(Tokens) /\ Len(f[b]) \in Nat
                           /\ \A i \in 1..Len(f[b]) : f[b][i] \in Tokens
    BY <1>2
<1>11. /\ \A b \in Accounts : \A i \in 1..Len(f[b]) :
             f[b][i] <= n /\ g[f[b][i]] = i - 1 /\ f[b][i] # t
       /\ \A b, c \in Accounts : \A i \in 1..Len(f[b]), j \in 1..Len(f[c]) :
             b # c => f[b][i] # f[c][j]
    BY <1>1, SMTT(20) DEF Tidy, Absent
\* An entry of a new list is an old one, or the token at the end of a's.
<1>12. ASSUME NEW b \in Accounts, NEW i \in 1..Len(F[b])
       PROVE  \/ i \in 1..Len(f[b]) /\ F[b][i] = f[b][i]
              \/ b = a /\ i = e + 1 /\ F[b][i] = t
    <2>1. CASE b = a
        <3>1. i \in 1..(e + 1) /\ F[b] = x /\ f[b] = s
            BY <1>3, <1>6, <1>9, <2>1
        <3>2. CASE i \in 1..e
            BY <1>4, <1>6, <3>1, <3>2
        <3>3. CASE i = e + 1
            BY <1>6, <2>1, <3>1, <3>3
        <3> QED BY <3>1, <3>2, <3>3
    <2>2. CASE b # a
        BY <1>9, <2>2
    <2> QED BY <2>1, <2>2
<1>13. ASSUME NEW b \in Accounts, NEW i \in 1..Len(F[b])
       PROVE  F[b][i] <= m /\ G[F[b][i]] = i - 1
    <2>1. CASE i \in 1..Len(f[b]) /\ F[b][i] = f[b][i]
        <3>1. f[b][i] \in Tokens /\ f[b][i] # t /\ f[b][i] <= n /\ g[f[b][i]] = i - 1
            BY <1>10, <1>11, <2>1
        <3>2. f[b][i] <= m
            BY <3>1, PvtAssumption DEF Tokens
        <3> QED BY <1>9, <2>1, <3>1, <3>2
    <2>2. CASE b = a /\ i = e + 1 /\ F[b][i] = t
        BY <1>9, <2>2
    <2> QED BY <1>12, <2>1, <2>2
<1>14. ASSUME NEW b \in Accounts, NEW c \in Accounts, b # c,
              NEW i \in 1..Len(F[b]), NEW j \in 1..Len(F[c])
       PROVE  F[b][i] # F[c][j]
    <2>1. \/ i \in 1..Len(f[b]) /\ F[b][i] = f[b][i]
          \/ b = a /\ F[b][i] = t
        BY <1>12
    <2>2. \/ j \in 1..Len(f[c]) /\ F[c][j] = f[c][j]
          \/ c = a /\ F[c][j] = t
        BY <1>12
    <2>3. CASE i \in 1..Len(f[b]) /\ F[b][i] = f[b][i]
        <3>1. F[b][i] # t
            BY <1>11, <2>3
        <3> QED BY <1>11, <1>14, <2>2, <2>3, <3>1
    <2>4. CASE b = a /\ F[b][i] = t
        <3>1. j \in 1..Len(f[c]) /\ F[c][j] = f[c][j]
            BY <1>14, <2>2, <2>4
        <3> QED BY <1>11, <2>4, <3>1
    <2> QED BY <2>1, <2>3, <2>4
<1>15. Tidy(k, m)
    BY <1>8, <1>9, <1>13, <1>14 DEF Tidy
<1>16. Listed(k, a, t)
    BY <1>6, <1>8, <1>9 DEF Listed
<1>17. ASSUME NEW b \in Accounts, NEW u \in Tokens, u # t, Listed(l, b, u)
       PROVE  Listed(k, b, u)
    <2>1. PICK i \in Nat : i = g[u] /\ G[u] = i
        BY <1>2, <1>9, <1>17
    <2>2. i < Len(f[b]) /\ f[b][i + 1] = u
        BY <1>1, <1>17, <2>1 DEF Listed
    <2>3. i < Len(F[b]) /\ F[b][i + 1] = u
        <3>1. CASE b = a
            <4>1. i + 1 \in 1..e /\ s[i + 1] = u
                BY <1>3, <1>4, <2>2, <3>1
            <4>2. i < Len(x) /\ x[i + 1] = u
                BY <1>6, <4>1
            <4> QED BY <1>9, <3>1, <4>2
        <3>2. CASE b # a
            BY <1>9, <2>2, <3>2
        <3> QED BY <3>1, <3>2
    <2> QED BY <1>8, <2>1, <2>3 DEF Listed
<1> QED BY <1>15, <1>16, <1>17

LEMMA RemovedKeeps ==
    ASSUME NEW n \in Nat, NEW l, Tidy(l, n), NEW a \in Accounts, NEW t \in Tokens,
           Listed(l, a, t), NEW k, k = Removed(l, a, t)
    PROVE  /\ Tidy(k, n)
           /\ Absent(k, t)
           /\ \A b \in Accounts, u \in Tokens : u # t /\ Listed(l, b, u) => Listed(k, b, u)
<1>1. PICK f, g : f = l.of /\ g = l.at
    OBVIOUS
<1>2. f \in [Accounts -> Seq(Tokens)] /\ g \in [Tokens -> Nat]
    BY <1>1 DEF Tidy
<1>3. PICK s \in Seq(Tokens) : s = f[a]
    BY <1>2
<1>4. PICK p \in Nat : p = g[t] + 1 /\ p # 0
    BY <1>2
<1>5. PICK e \in Nat : e = Len(s)
    OBVIOUS
<1>6. p \in 1..e /\ s[p] = t
    <2>1. g[t] < Len(s) /\ s[g[t] + 1] = t
        BY <1>1, <1>3 DEF Listed
    <2> QED BY <1>2, <1>4, <1>5, <2>1
<1>7. PICK v : v = s[e]
    OBVIOUS
<1>8. v \in Tokens
    BY <1>5, <1>6, <1>7
<1>9. PICK x : x = SubSeq([s EXCEPT ![p] = v], 1, e - 1)
    OBVIOUS
<1>10. /\ x \in Seq(Tokens) /\ Len(x) = e - 1
       /\ \A i \in 1..(e - 1) : x[i] = IF i = p THEN v ELSE s[i]
    <2>1. PICK y : y = [s EXCEPT ![p] = v]
        OBVIOUS
    <2>2. y \in Seq(Tokens) /\ Len(y) = e /\ \A i \in 1..e : y[i] = IF i = p THEN v ELSE s[i]
        <3>1. p \in DOMAIN s /\ DOMAIN s = 1..e
            BY <1>5, <1>6
        <3>2. y \in Seq(Tokens) /\ DOMAIN y = DOMAIN s
            BY <1>8, <2>1, <3>1
        <3>3. \A i \in DOMAIN s : y[i] = IF i = p THEN v ELSE s[i]
            BY <2>1
        <3>4. Len(y) \in Nat /\ DOMAIN y = 1..Len(y)
            BY <3>2
        <3>5. Len(y) = e
            BY <3>1, <3>2, <3>4
        <3> QED BY <3>1, <3>2, <3>3, <3>5
    <2>3. e - 1 \in Nat /\ e - 1 <= Len(y)
        BY <1>6, <2>2
    <2>4. x = SubSeq(y, 1, e - 1)
        BY <1>9, <2>1
    <2> QED BY <2>2, <2>3, <2>4
<1>11. PICK F, G : F = k.of /\ G = k.at
    OBVIOUS
<1>12. F = [f EXCEPT ![a] = x]
    BY <1>1, <1>3, <1>4, <1>5, <1>7, <1>9, <1>11 DEF Removed
<1>13. G = [u \in Tokens |-> IF u = t THEN 0 ELSE IF u = v /\ p # e THEN p - 1 ELSE g[u]]
    <2>1. g[t] # e - 1 <=> p # e
        BY <1>2, <1>4
    <2>2. g[t] = p - 1
        BY <1>2, <1>4
    <2>3. G = [u \in Tokens |-> IF u = t THEN 0
                                ELSE IF u = v /\ g[t] # e - 1 THEN g[t] ELSE g[u]]
        BY <1>1, <1>3, <1>5, <1>7, <1>11 DEF Removed, IndexAfter
    <2> QED BY <2>1, <2>2, <2>3
<1>14. /\ F \in [Accounts -> Seq(Tokens)] /\ G \in [Tokens -> Nat]
       /\ F[a] = x /\ \A b \in Accounts : b # a => F[b] = f[b]
    BY <1>2, <1>6, <1>10, <1>12, <1>13
<1>15. \A b \in Accounts : /\ f[b] \in Seq(Tokens) /\ Len(f[b]) \in Nat
                           /\ \A i \in 1..Len(f[b]) : f[b][i] \in Tokens
    BY <1>2
<1>16. /\ \A b \in Accounts : \A i \in 1..Len(f[b]) :
             f[b][i] <= n /\ g[f[b][i]] = i - 1
       /\ \A b, c \in Accounts : \A i \in 1..Len(f[b]), j \in 1..Len(f[c]) :
             b # c => f[b][i] # f[c][j]
    BY <1>1 DEF Tidy
\* Within a's list the tokens differ, for their places do.
<1>17. \A i \in 1..e : s[i] \in Tokens /\ s[i] <= n /\ g[s[i]] = i - 1
    BY <1>3, <1>5, <1>15, <1>16
<1>18. \A i \in 1..e : (i # p => s[i] # t) /\ (i # e => s[i] # v)
    BY <1>4, <1>5, <1>6, <1>7, <1>17
\* An entry of a new list is an old one of the same account.
<1>19. ASSUME NEW b \in Accounts, NEW i \in 1..Len(F[b])
       PROVE  \/ b = a /\ i \in 1..(e - 1) /\ i = p /\ p # e /\ F[b][i] = v
              \/ b = a /\ i \in 1..(e - 1) /\ i # p /\ F[b][i] = s[i]
              \/ b # a /\ i \in 1..Len(f[b]) /\ F[b][i] = f[b][i]
    <2>1. CASE b = a
        <3>1. i \in 1..(e - 1) /\ F[b] = x
            BY <1>10, <1>14, <2>1
        <3> QED BY <1>10, <2>1, <3>1
    <2>2. CASE b # a
        BY <1>14, <2>2
    <2> QED BY <2>1, <2>2
<1>20. ASSUME NEW b \in Accounts, NEW i \in 1..Len(F[b])
       PROVE  \E j \in 1..Len(f[b]) : F[b][i] = f[b][j] /\ f[b][j] # t
    <2>1. CASE b = a /\ i \in 1..(e - 1) /\ i = p /\ p # e /\ F[b][i] = v
        <3>1. e \in 1..Len(f[b]) /\ f[b][e] = v /\ v # t
            BY <1>3, <1>5, <1>6, <1>7, <1>18, <2>1
        <3> QED BY <2>1, <3>1
    <2>2. CASE b = a /\ i \in 1..(e - 1) /\ i # p /\ F[b][i] = s[i]
        <3>1. i \in 1..Len(f[b]) /\ f[b][i] = s[i] /\ s[i] # t
            BY <1>3, <1>5, <1>18, <2>2
        <3> QED BY <2>2, <3>1
    <2>3. CASE b # a /\ i \in 1..Len(f[b]) /\ F[b][i] = f[b][i]
        <3>1. f[b][i] # t
            BY <1>3, <1>5, <1>6, <1>16, <2>3
        <3> QED BY <2>3, <3>1
    <2> QED BY <1>19, <2>1, <2>2, <2>3
<1>21. ASSUME NEW b \in Accounts, NEW i \in 1..Len(F[b])
       PROVE  F[b][i] <= n /\ G[F[b][i]] = i - 1
    <2>1. CASE b = a /\ i \in 1..(e - 1) /\ i = p /\ p # e /\ F[b][i] = v
        <3>1. v # t /\ v <= n
            BY <1>5, <1>6, <1>7, <1>17, <1>18, <2>1
        <3> QED BY <1>8, <1>13, <2>1, <3>1
    <2>2. CASE b = a /\ i \in 1..(e - 1) /\ i # p /\ F[b][i] = s[i]
        <3>1. i \in 1..e /\ s[i] # t /\ s[i] # v
            BY <1>18, <2>2
        <3> QED BY <1>13, <1>17, <2>2, <3>1
    <2>3. CASE b # a /\ i \in 1..Len(f[b]) /\ F[b][i] = f[b][i]
        <3>1. f[b][i] # t /\ f[b][i] # v
            BY <1>3, <1>5, <1>6, <1>7, <1>16, <2>3, SMTT(20)
        <3> QED BY <1>13, <1>15, <1>16, <2>3, <3>1
    <2> QED BY <1>19, <2>1, <2>2, <2>3
<1>22. ASSUME NEW b \in Accounts, NEW c \in Accounts, b # c,
              NEW i \in 1..Len(F[b]), NEW j \in 1..Len(F[c])
       PROVE  F[b][i] # F[c][j]
    <2>1. PICK i2 \in 1..Len(f[b]) : F[b][i] = f[b][i2]
        BY <1>20
    <2>2. PICK j2 \in 1..Len(f[c]) : F[c][j] = f[c][j2]
        BY <1>20
    <2> QED BY <1>16, <1>22, <2>1, <2>2
<1>23. Tidy(k, n)
    BY <1>11, <1>14, <1>21, <1>22 DEF Tidy
<1>24. Absent(k, t)
    BY <1>11, <1>20 DEF Absent
<1>25. ASSUME NEW b \in Accounts, NEW u \in Tokens, u # t, Listed(l, b, u)
       PROVE  Listed(k, b, u)
    <2>1. PICK i \in Nat : i = g[u]
        BY <1>2
    <2>2. i < Len(f[b]) /\ f[b][i + 1] = u
        BY <1>1, <1>25, <2>1 DEF Listed
    <2>3. G[u] < Len(F[b]) /\ F[b][G[u] + 1] = u
        <3>1. CASE b = a
            <4>1. i + 1 \in 1..e /\ s[i + 1] = u /\ i + 1 # p
                BY <1>3, <1>5, <1>6, <1>25, <2>2, <3>1
            <4>2. CASE i + 1 = e
                <5>1. u = v /\ p # e /\ G[u] = p - 1
                    BY <1>7, <1>13, <1>25, <4>1, <4>2
                <5>2. p \in 1..(e - 1) /\ x[p] = u
                    BY <1>6, <1>10, <5>1
                <5> QED BY <1>10, <1>14, <3>1, <5>1, <5>2
            <4>3. CASE i + 1 # e
                <5>1. u # v /\ G[u] = i
                    BY <1>13, <1>18, <1>25, <2>1, <4>1, <4>3
                <5>2. i + 1 \in 1..(e - 1) /\ x[i + 1] = u
                    BY <1>10, <4>1, <4>3
                <5> QED BY <1>10, <1>14, <3>1, <5>1, <5>2
            <4> QED BY <4>2, <4>3
        <3>2. CASE b # a
            <4>1. i + 1 \in 1..Len(f[b])
                BY <1>15, <2>2
            <4>2. u # v
                BY <1>3, <1>5, <1>6, <1>7, <1>16, <2>2, <3>2, <4>1, SMTT(20)
            <4> QED BY <1>13, <1>14, <1>25, <2>1, <2>2, <3>2, <4>2
        <3> QED BY <3>1, <3>2
    <2> QED BY <1>11, <2>3 DEF Listed
<1> QED BY <1>23, <1>24, <1>25

LEMMA ListsInit == Init => MintedInv /\ ListsInv
<1> SUFFICES ASSUME Init PROVE MintedInv /\ ListsInv
    OBVIOUS
<1>1. tokenCounter = 0 /\ moved = {} /\ 1..tokenCounter = {}
    BY DEF Init
<1>2. MintedInv
    BY <1>1, PvtAssumption DEF MintedInv
<1>3. Tidy(lists, 0)
    <2>1. PICK l : l = lists
        OBVIOUS
    <2>2. l.of = [a \in Accounts |-> <<>>] /\ l.at = [t \in Tokens |-> 0]
        BY <2>1 DEF Init
    <2>3. \A a \in Accounts : l.of[a] = <<>> /\ Len(l.of[a]) = 0
        BY <2>2
    <2>4. l.of \in [Accounts -> Seq(Tokens)] /\ l.at \in [Tokens -> Nat]
        BY <2>2
    <2> QED BY <2>1, <2>3, <2>4 DEF Tidy
<1> QED BY <1>1, <1>2, <1>3 DEF ListsInv

\* What is minted or sent on.
LEMMA MintedStep ==
    ASSUME TypeInv, MintedInv, [Next]_vars
    PROVE  MintedInv'
<1>1. ASSUME NEW p \in Players, NEW kind, NEW s, Mint(p, kind, s), UNCHANGED moved
      PROVE  MintedInv'
    <2>1. PICK m \in Nat : m = tokenCounter
        BY DEF TypeInv
    <2>2. PICK n \in Nat : n = m + 1
        OBVIOUS
    <2>3. n = tokenCounter' /\ n \in Tokens /\ owners' = [owners EXCEPT ![n] = p]
        BY <1>1, <2>1, <2>2 DEF Mint
    <2>4. n <= MaxTokens /\ 1..m \subseteq 1..n
        BY <2>2, <2>3, PvtAssumption DEF Tokens
    <2>5. \A t \in 1..n : owners'[t] \in Accounts
        <3>1. \A t \in 1..n : t \in Tokens /\ (t # n => t \in 1..m)
            BY <2>2, <2>4, PvtAssumption DEF Tokens
        <3> QED BY <2>1, <2>3, <3>1 DEF MintedInv, TypeInv, Accounts
    <2> QED BY <1>1, <2>1, <2>3, <2>4, <2>5 DEF MintedInv
<1>2. ASSUME NEW p \in Players, NEW t \in Tokens, OpenTreasureChest(p, t)
      PROVE  MintedInv'
    <2>1. /\ owners' = [owners EXCEPT ![t] = PVT] /\ UNCHANGED <<tokenCounter, moved>>
          /\ PVT \in Accounts
        BY <1>2 DEF OpenTreasureChest, Received, Accounts
    <2> QED BY <2>1 DEF MintedInv, TypeInv
<1>3. ASSUME NEW t \in Tokens, NEW to \in Accounts, TransferFrom(t, to)
      PROVE  MintedInv'
    <2>1. /\ owners[t] \in Players /\ owners' = [owners EXCEPT ![t] = to]
          /\ moved' = moved \union {t} /\ tokenCounter' = tokenCounter
        BY <1>3 DEF TransferFrom
    <2>2. ~(t > tokenCounter)
        BY <2>1, PvtAssumption DEF TypeInv, Accounts
    <2>3. t \in 1..tokenCounter
        BY <2>2, PvtAssumption DEF TypeInv, Tokens
    <2> QED BY <2>1, <2>3 DEF MintedInv, TypeInv
<1>4. CASE UNCHANGED <<tokenCounter, owners, moved>>
    BY <1>4 DEF MintedInv
<1>5. Owner \in Players
    BY PvtAssumption
<1> QED BY <1>1, <1>2, <1>3, <1>4, <1>5
        DEF Next, MintAtovix, BuyTreasureChest, ClaimNft, BuyRegularNft,
            FulfillRandomWords, vars

LEMMA ListsStep ==
    ASSUME TypeInv, MintedInv, ListsInv, [Next]_vars
    PROVE  ListsInv'
<1>a. PICK n \in Nat : n = tokenCounter
    BY DEF TypeInv
<1>b. /\ 1..n \subseteq Tokens /\ moved \subseteq 1..n
      /\ \A t \in 1..n : owners[t] \in Accounts
      /\ \A t \in Tokens : t > n => owners[t] = NoOne
    BY <1>a, PvtAssumption DEF MintedInv, Tokens, TypeInv
<1>1. ASSUME NEW p \in Players, NEW kind, NEW s, Mint(p, kind, s), UNCHANGED moved
      PROVE  ListsInv'
    <2> SUFFICES ASSUME NoChestMoved'
                 PROVE  /\ Tidy(lists', tokenCounter')
                        /\ \A t \in 1..tokenCounter' \ moved' : Listed(lists', owners'[t], t)
        BY DEF ListsInv, Tidy, Listed
    <2>1. PICK m \in Nat : m = n + 1
        OBVIOUS
    <2>2. /\ m \in Tokens /\ tokenCounter' = m /\ owners' = [owners EXCEPT ![m] = p]
          /\ category' = [category EXCEPT ![m] = kind] /\ lists' = Added(lists, p, m)
        BY <1>1, <1>a, <2>1 DEF Mint
    <2>3. \A t \in 1..n : t \in Tokens /\ t # m
        BY <1>b, <2>1
    <2>4. NoChestMoved
        BY <1>1, <1>b, <2>2, <2>3 DEF NoChestMoved, TypeInv
    <2>5. Tidy(lists, n) /\ \A t \in 1..n \ moved : Listed(lists, owners[t], t)
        BY <1>a, <2>4 DEF ListsInv
    <2>6. Absent(lists, m)
        <3>1. \A a \in Accounts : \A i \in 1..Len(lists.of[a]) : lists.of[a][i] <= n
            BY <2>5 DEF Tidy
        <3>2. ~(m <= n)
            BY <2>1
        <3> QED BY <3>1, <3>2, Zenon DEF Absent
    <2>7. PICK l, k : l = lists /\ k = Added(l, p, m)
        OBVIOUS
    <2>8. p \in Accounts /\ n <= m
        BY <2>1 DEF Accounts
    <2>9. /\ Tidy(k, m) /\ Listed(k, p, m)
          /\ \A b \in Accounts, u \in Tokens : u # m /\ Listed(l, b, u) => Listed(k, b, u)
        BY <2>2, <2>5, <2>6, <2>7, <2>8, AddedKeeps
    <2>10. ASSUME NEW t \in 1..m \ moved PROVE Listed(k, owners'[t], t)
        <3>1. CASE t = m
            <4>1. owners'[t] = p
                BY <2>2, <3>1 DEF TypeInv
            <4> QED BY <2>9, <3>1, <4>1
        <3>2. CASE t # m
            <4>1. t \in 1..n \ moved
                BY <2>1, <3>2
            <4>2. t \in Tokens /\ owners'[t] = owners[t] /\ owners[t] \in Accounts
                BY <1>b, <2>2, <2>3, <4>1 DEF TypeInv
            <4> QED BY <2>5, <2>7, <2>9, <3>2, <4>1, <4>2
        <3> QED BY <3>1, <3>2
    <2> QED BY <1>1, <2>2, <2>7, <2>9, <2>10
<1>2. ASSUME NEW p \in Players, NEW t \in Tokens, OpenTreasureChest(p, t)
      PROVE  ListsInv'
    <2>1. /\ owners[t] = p /\ category[t] = "treasure chest"
          /\ lists' = Added(Removed(lists, p, t), PVT, t)
          /\ owners' = [owners EXCEPT ![t] = PVT]
          /\ UNCHANGED <<tokenCounter, category, moved>>
        BY <1>2 DEF OpenTreasureChest, Received
    <2> SUFFICES ASSUME NoChestMoved
                 PROVE  /\ Tidy(lists', n)
                        /\ \A u \in 1..n \ moved : Listed(lists', owners'[u], u)
        BY <1>a, <2>1 DEF ListsInv, NoChestMoved
    <2>2. Tidy(lists, n) /\ \A u \in 1..n \ moved : Listed(lists, owners[u], u)
        BY <1>a DEF ListsInv
    <2>3. t \in 1..n \ moved /\ t <= n
        <3>1. t \notin moved
            BY <2>1 DEF NoChestMoved
        <3>2. ~(t > n)
            BY <1>b, <2>1, PvtAssumption DEF Accounts
        <3> QED BY <3>1, <3>2, PvtAssumption DEF Tokens
    <2>4. PICK l, j, k : l = lists /\ j = Removed(l, p, t) /\ k = Added(j, PVT, t)
        OBVIOUS
    <2>5. p \in Accounts /\ PVT \in Accounts /\ Listed(l, p, t)
        BY <2>1, <2>2, <2>3, <2>4 DEF Accounts
    <2>6. /\ Tidy(j, n) /\ Absent(j, t)
          /\ \A b \in Accounts, u \in Tokens : u # t /\ Listed(l, b, u) => Listed(j, b, u)
        BY <2>2, <2>4, <2>5, RemovedKeeps
    <2>7. n <= n
        OBVIOUS
    <2>8. /\ Tidy(k, n) /\ Listed(k, PVT, t)
          /\ \A b \in Accounts, u \in Tokens : u # t /\ Listed(j, b, u) => Listed(k, b, u)
        BY <2>3, <2>4, <2>5, <2>6, <2>7, AddedKeeps
    <2>9. ASSUME NEW u \in 1..n \ moved PROVE Listed(k, owners'[u], u)
        <3>1. CASE u = t
            BY <2>1, <2>8, <3>1 DEF TypeInv
        <3>2. CASE u # t
            <4>1. u \in Tokens /\ owners[u] \in Accounts /\ owners'[u] = owners[u]
                BY <1>b, <2>1, <3>2 DEF TypeInv
            <4>2. Listed(l, owners[u], u)
                BY <2>2, <2>4
            <4> QED BY <2>6, <2>8, <3>2, <4>1, <4>2
        <3> QED BY <3>1, <3>2
    <2> QED BY <2>1, <2>4, <2>8, <2>9
<1>3. ASSUME NEW t \in Tokens, NEW to \in Accounts, TransferFrom(t, to)
      PROVE  ListsInv'
    <2>1. /\ owners' = [owners EXCEPT ![t] = to] /\ moved' = moved \union {t}
          /\ UNCHANGED <<tokenCounter, category, lists>>
        BY <1>3 DEF TransferFrom
    <2>a. tokenCounter' = n /\ lists' = lists
        BY <1>a, <2>1
    <2> SUFFICES ASSUME NoChestMoved'
                 PROVE  /\ Tidy(lists', n)
                        /\ \A u \in 1..n \ moved' : Listed(lists', owners'[u], u)
        BY <2>a DEF ListsInv
    <2>2. NoChestMoved
        BY <2>1 DEF NoChestMoved
    <2>3. Tidy(lists, n) /\ \A u \in 1..n \ moved : Listed(lists, owners[u], u)
        BY <1>a, <2>2 DEF ListsInv
    <2>4. \A u \in 1..n \ moved' : u \in 1..n \ moved /\ owners'[u] = owners[u]
        BY <1>b, <2>1 DEF TypeInv
    <2> QED BY <2>a, <2>3, <2>4
<1>4. CASE UNCHANGED <<tokenCounter, owners, category, lists, moved>>
    BY <1>4 DEF ListsInv, NoChestMoved
<1>5. Owner \in Players
    BY PvtAssumption
<1> QED BY <1>1, <1>2, <1>3, <1>4, <1>5
        DEF Next, MintAtovix, BuyTreasureChest, ClaimNft, BuyRegularNft,
            FulfillRandomWords, vars

-----------------------------------------------------------------------------
IInv ==
    /\ TypeInv
    /\ ClaimsInv
    /\ Cardinality(ChestRequests) <= Cardinality(Consumed)
    /\ MintedInv /\ ListsInv

LEMMA IInvHolds == Spec => []IInv
<1>1. Init => IInv
    BY TypeInit, ClaimsInit, ChestsInit, ListsInit DEF IInv
<1>2. IInv /\ [Next]_vars => IInv'
    BY TypeStep, ClaimsStep, ChestsStep, MintedStep, ListsStep DEF IInv
<1> QED BY <1>1, <1>2, PTL DEF Spec

\* The commission: the sum of the powers needs finitely many players.
CommissionInv == SharesInv /\ PowersInv /\ FundedInv

LEMMA CommissionInvHolds ==
    ASSUME IsFiniteSet(Players)
    PROVE  Spec => []CommissionInv
<1>1. IsFiniteSet(Accounts)
    BY FS_AddElement DEF Accounts
<1>2. Init => CommissionInv
    BY <1>1, SharesInit, PowersInit, FundedInit DEF CommissionInv
<1>3. IInv /\ CommissionInv /\ [Next]_vars => CommissionInv'
    BY <1>1, SharesStep, PowersStep, FundedStep DEF IInv, CommissionInv
<1> QED BY <1>2, <1>3, IInvHolds, PTL DEF Spec

\* However answers are ordered, and whatever rolls they meet, no player claims more
\* NFTs than were answered (PVT.sol 305-350).
THEOREM ClaimsAreAnswered == Spec => []AnswersBoundClaims
<1>1. IInv => AnswersBoundClaims
    BY DEF IInv, ClaimsInv, AnswersBoundClaims, HasRoll, Answers
<1> QED BY <1>1, IInvHolds, PTL

\* Every opening leaves one more chest with the contract, for good, so no chest is
\* opened twice (PVT.sol 382-397).
THEOREM ChestsAreOpenedOnce == Spec => []ChestsAreConsumed
<1>1. IInv => ChestsAreConsumed
    BY DEF IInv, ChestsAreConsumed, Consumed
<1> QED BY <1>1, IInvHolds, PTL

\* As long as no chest changes hands outside the contract, whatever is minted, opened
\* or sent on in between, each token that was not sent on is in its owner's list at
\* its stored index (PVT.sol 613-633, 1098-1131).
THEOREM ListsFindTheirTokens == Spec => []ListsAgreeUnlessChestsMove
<1>1. IInv => ListsAgreeUnlessChestsMove
    BY DEF IInv, ListsInv, NoChestMoved, Listed, ListsAgreeUnlessChestsMove
<1> QED BY <1>1, IInvHolds, PTL

\* Through all mints, openings and transfers, the power commission is divided by is
\* the sum of the powers, a player's is that of its Atovix and the contract's that
\* of the chests opened (PVT.sol 1018-1063).
THEOREM PowersAddUp ==
    ASSUME IsFiniteSet(Players)
    PROVE  Spec => []PowersAgree
<1>1. CommissionInv => PowersAgree
    BY DEF CommissionInv, PowersInv, PowersAgree
<1> QED BY <1>1, CommissionInvHolds, PTL

\* As long as the contract alone has power, what it owes itself never exceeds what
\* purchases brought, however often rounding lost a unit and whenever chests raised
\* its power: no opening reverts for want of commission (PVT.sol 910-1012).
THEOREM OwnCommissionIsCovered ==
    ASSUME IsFiniteSet(Players)
    PROVE  Spec => []OwnCommissionIsFunded
<1>1. CommissionInv => OwnCommissionIsFunded
    <2> SUFFICES ASSUME CommissionInv, OnlyContract, NEW c \in Currencies
                 PROVE  Owed(shares, PVT, c) <= shares.purse[c]
        BY DEF OwnCommissionIsFunded, CanDistribute, OnlyContract
    <2>1. GoodShares(shares)
        BY DEF CommissionInv, SharesInv
    <2>2. PICK P \in Nat, d \in Nat, u \in Nat :
              P = shares.power[PVT] /\ d = Pending(shares, c) /\ u = shares.purse[c]
        BY <2>1, PendingType
    <2>3. Funded(P, d, u)
        BY <2>2 DEF CommissionInv, FundedInv
    <2>4. (P * d) \div ONE <= u
        BY <2>3, FundedPays
    <2> QED BY <2>2, <2>4 DEF Owed, Pending
<1> QED BY <1>1, CommissionInvHolds, PTL
=============================================================================
