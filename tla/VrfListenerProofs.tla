-------------------------- MODULE VrfListenerProofs --------------------------
(***************************************************************************)
(* The listener skips no request, hides none that nothing will answer, and *)
(* sends an answer once in a life: for any requests, payments, depth of    *)
(* reorganisations, and any number of these and of crashes.                *)
(***************************************************************************)
EXTENDS VrfListener, FiniteSetTheorems, WellFoundedInduction, TLAPS

Blocks == [number : Int, epoch : Nat]
Logs == [req : Requests, block : Blocks]
TxStates == {"unstarted", "sent", "mined", "fatal"}
Txs == [log : Logs, state : TxStates, number : Int]

\* What a reorganisation takes from a branch.
IsBranch(b) ==
    /\ b.fork \in Nat /\ b.head \in Nat
    /\ b.asked \in [Requests -> Blocks]
    /\ b.answered \in [Requests -> Blocks]
    /\ \A i \in DOMAIN b.mined : b.mined[i] \in Int

TypeInv ==
    /\ head \in Nat /\ head <= MaxHead
    /\ reorgs \in Nat /\ crashes \in Nat /\ failures \in Nat
    /\ \A b \in replaced : IsBranch(b)
    /\ asked \in [Requests -> Blocks]
    /\ answered \in [Requests -> Blocks]
    /\ txs \in Seq(Txs)
    /\ lastProcessed \in Nat /\ latestHead \in Nat
    /\ inflight \subseteq Logs
    /\ pending \subseteq Logs
    /\ processed \subseteq Logs

\* The branches a reorganisation may build on.
Bases == { Branch(fork, fork) : fork \in Final..(head - 1) } \union replaced

\* The steps that are not the listener's.
ChainStep ==
    \/ Grow \/ Send \/ MineAny
    \/ \E base \in Bases :
          \E moved \in [Requests -> 0..(head + 1 - base.head)] : Reorg(base, moved)
    \/ \E amount \in toCome : TopUp(amount)
    \/ \E amount \in toGo : Spend(amount)
    \/ \E r \in Requests : GrowOld(r)

-----------------------------------------------------------------------------
(* Sequences of transactions, and the least of a set of blocks.            *)

LEMMA TxType ==
    ASSUME NEW log \in Logs, NEW st \in TxStates, NEW n \in Int
    PROVE  /\ Tx(log, st, n) \in Txs
           /\ Tx(log, st, n).log = log
           /\ Tx(log, st, n).state = st
           /\ Tx(log, st, n).number = n
    BY DEF Tx, Txs

\* Moving one transaction on leaves the others, and all logs.
LEMMA TxUpdated ==
    ASSUME NEW s \in Seq(Txs), NEW i \in DOMAIN s,
           NEW st \in TxStates, NEW n \in Int
    PROVE  LET t == [s EXCEPT ![i] = Tx(s[i].log, st, n)] IN
           /\ t \in Seq(Txs)
           /\ DOMAIN t = DOMAIN s
           /\ \A j \in DOMAIN s : t[j].log = s[j].log
           /\ \A j \in DOMAIN s : j # i => t[j] = s[j]
           /\ t[i].state = st /\ t[i].number = n
<1> DEFINE u == Tx(s[i].log, st, n)
           t == [s EXCEPT ![i] = u]
<1>1. s[i] \in Txs
    OBVIOUS
<1>2. s[i].log \in Logs
    BY <1>1 DEF Txs
<1>3. u \in Txs /\ u.log = s[i].log /\ u.state = st /\ u.number = n
    BY <1>2, TxType
<1> HIDE DEF u
<1>4. t \in Seq(Txs) /\ DOMAIN t = DOMAIN s
    BY <1>3
<1>5. t[i] = u /\ \A j \in DOMAIN s : j # i => t[j] = s[j]
    OBVIOUS
<1>6. \A j \in DOMAIN s : t[j].log = s[j].log
    BY <1>3, <1>5
<1> HIDE DEF t
<1> QED BY <1>3, <1>4, <1>5, <1>6 DEF t, u

\* A set of naturals that is not empty has a least member.
LEMMA LeastNatural ==
    ASSUME NEW T, T \subseteq Nat, T # {}
    PROVE  Min(T) \in T /\ \A n \in T : Min(T) <= n
<1>1. PICK m \in T : \A n \in T : ~ (<<n, m>> \in OpToRel(<, Nat))
    BY WFMin, NatLessThanWellFounded
<1>2. \A n \in T : m <= n
    <2> SUFFICES ASSUME NEW n \in T PROVE m <= n
        OBVIOUS
    <2>1. <<n, m>> \in Nat \X Nat
        OBVIOUS
    <2>2. ~ (n < m)
        BY <1>1, <2>1 DEF OpToRel
    <2> QED BY <2>2
<1>3. \E x \in T : \A n \in T : x <= n
    BY <1>2
<1> QED BY <1>3, Zenon DEF Min

\* Earliest lies between the two ends, and not behind a request it looks at.
LEMMA EarliestBounds ==
    ASSUME TypeInv, NEW from \in Nat
    PROVE  /\ Earliest(from) \in Nat
           /\ Earliest(from) <= Final
           /\ \A r \in Requests :
                 /\ asked[r].number \in from..Final /\ r \notin old
                 /\ ~(IsAnswered(r) /\ answered[r].number <= Final)
                 => Earliest(from) <= asked[r].number
<1> DEFINE unfulfilled ==
               { r \in Requests :
                   /\ asked[r].number \in from..Final /\ r \notin old
                   /\ ~(IsAnswered(r) /\ answered[r].number <= Final) }
           T == {Final} \union { asked[r].number : r \in unfulfilled }
<1>1. Final \in Nat
    BY VrfAssumption DEF TypeInv, Final, Max2
<1>2. T \subseteq Nat /\ T # {}
    BY <1>1
<1>3. Earliest(from) = Min(T)
    BY DEF Earliest
<1>4. \A r \in Requests :
          /\ asked[r].number \in from..Final /\ r \notin old
          /\ ~(IsAnswered(r) /\ answered[r].number <= Final)
          => asked[r].number \in T
    OBVIOUS
<1>5. Final \in T
    OBVIOUS
<1> HIDE DEF T
<1>6. Min(T) \in T /\ \A n \in T : Min(T) <= n
    BY <1>2, LeastNatural
<1> QED BY <1>2, <1>3, <1>4, <1>5, <1>6

-----------------------------------------------------------------------------
(* Types.                                                                  *)

LEMMA NextIsChainOrListener == Next <=> ChainStep \/ Listen \/ Crash
    BY DEF Next, ChainStep, Bases

LEMMA BlockType ==
    ASSUME NEW n \in Int, NEW e \in Nat
    PROVE  /\ [number |-> n, epoch |-> e] \in Blocks
           /\ [number |-> n, epoch |-> e].number = n
           /\ [number |-> n, epoch |-> e].epoch = e
    BY DEF Blocks

LEMMA LogType ==
    ASSUME TypeInv, NEW r \in Requests
    PROVE  Log(r) \in Logs /\ Log(r).req = r /\ Log(r).block = asked[r]
    BY DEF TypeInv, Log, Logs

LEMMA TypeInit == Init => TypeInv
<1> SUFFICES ASSUME Init PROVE TypeInv
    OBVIOUS
<1>1. NoBlock \in Blocks
    BY BlockType DEF NoBlock
<1> QED BY <1>1, VrfAssumption DEF Init, TypeInv

\* The bounds that keep the chain short.
LEMMA HeadGrows ==
    ASSUME TypeInv
    PROVE  /\ NextNumber \in Nat /\ NextNumber >= head /\ NextNumber <= MaxHead
           /\ Final \in Nat /\ Final <= head
    BY VrfAssumption DEF TypeInv, NextNumber, Min2, Final, Max2

LEMMA BranchType ==
    ASSUME TypeInv, NEW fork \in Nat, NEW top \in Nat
    PROVE  /\ IsBranch(Branch(fork, top))
           /\ Branch(fork, top).fork = fork /\ Branch(fork, top).head = top
           /\ \A r \in Requests :
                 /\ Branch(fork, top).asked[r] =
                       IF asked[r].number <= top THEN asked[r] ELSE NoBlock
                 /\ Branch(fork, top).answered[r] =
                       IF answered[r].number <= top THEN answered[r] ELSE NoBlock
           /\ DOMAIN Branch(fork, top).mined = DOMAIN txs
           /\ \A i \in DOMAIN txs :
                 txs[i].state = "mined" /\ txs[i].number <= top
                     => Branch(fork, top).mined[i] = txs[i].number
<1>1. NoBlock \in Blocks
    BY BlockType DEF NoBlock
<1>2. \A i \in DOMAIN txs : txs[i].number \in Int
    <2>1. txs \in Seq(Txs)
        BY DEF TypeInv
    <2>2. \A i \in DOMAIN txs : txs[i] \in Txs
        BY <2>1
    <2> QED BY <2>2 DEF Txs
<1> DEFINE a == [r \in Requests |-> IF asked[r].number <= top THEN asked[r] ELSE NoBlock]
           w == [r \in Requests |-> IF answered[r].number <= top THEN answered[r] ELSE NoBlock]
           f == [r \in Requests |-> IF answered[r].number <= top THEN fee[r] ELSE 0]
           m == [i \in DOMAIN txs |->
                    IF txs[i].state = "mined" /\ txs[i].number <= top
                    THEN txs[i].number ELSE -1]
<1>3. Branch(fork, top) = [fork |-> fork, head |-> top, asked |-> a, answered |-> w,
                           fee |-> f, mined |-> m]
    BY DEF Branch
<1>4. a \in [Requests -> Blocks] /\ w \in [Requests -> Blocks]
    BY <1>1 DEF TypeInv
<1>5. \A i \in DOMAIN m : m[i] \in Int
    BY <1>2
<1> HIDE DEF a, w, f, m
<1>6. /\ Branch(fork, top).fork = fork /\ Branch(fork, top).head = top
      /\ Branch(fork, top).asked = a /\ Branch(fork, top).answered = w
      /\ Branch(fork, top).mined = m
    BY <1>3
<1>7. IsBranch(Branch(fork, top))
    BY <1>4, <1>5, <1>6 DEF IsBranch
<1> USE DEF a, w, m
<1> QED BY <1>6, <1>7

LEMMA BasesAreBranches ==
    ASSUME TypeInv, NEW base \in Bases
    PROVE  IsBranch(base)
<1>1. \A fork \in Final..(head - 1) : fork \in Nat
    BY HeadGrows DEF TypeInv
<1> QED BY <1>1, BranchType DEF Bases, TypeInv

LEMMA TypeChain ==
    ASSUME TypeInv, ChainStep
    PROVE  TypeInv'
<1> USE DEF branches, node, memory, round
<1>1. ASSUME NEW asks \in SUBSET Requests, NewBlock(asks)
      PROVE  TypeInv'
    <2>1. [number |-> head + 1, epoch |-> reorgs] \in Blocks
        BY BlockType DEF TypeInv
    <2>2. asked' \in [Requests -> Blocks]
        BY <1>1, <2>1 DEF NewBlock, TypeInv
    <2>3. head' \in Nat /\ head' <= MaxHead
        BY <1>1, VrfAssumption DEF NewBlock, TypeInv
    <2> QED BY <1>1, <2>2, <2>3 DEF NewBlock, TypeInv
<1>2. ASSUME NEW i \in DOMAIN txs, NEW payment \in Payments, Mine(i, payment)
      PROVE  TypeInv'
    <2>1. [number |-> NextNumber, epoch |-> reorgs] \in Blocks
        BY HeadGrows, BlockType DEF TypeInv
    <2>2. answered' \in [Requests -> Blocks]
        BY <1>2, <2>1 DEF Mine, TypeInv
    <2>3. head' \in Nat /\ head' <= MaxHead
        BY <1>2, HeadGrows DEF Mine
    <2>4. txs' \in Seq(Txs)
        BY <1>2, HeadGrows, TxUpdated DEF Mine, TypeInv, TxStates
    <2> QED BY <1>2, <2>2, <2>3, <2>4 DEF Mine, TypeInv
<1>3. ASSUME NEW base \in Bases,
             NEW moved \in [Requests -> 0..(head + 1 - base.head)],
             Reorg(base, moved)
      PROVE  TypeInv'
    <2>1. IsBranch(base) /\ base.fork \in Nat /\ base.head \in Nat /\ head \in Nat
        BY BasesAreBranches DEF IsBranch, TypeInv
    <2>2. \A r \in Requests : [number |-> base.head + moved[r], epoch |-> reorgs + 1] \in Blocks
        BY <2>1, BlockType DEF TypeInv
    <2>3. asked' \in [Requests -> Blocks]
        BY <1>3, <2>1, <2>2 DEF Reorg, IsBranch
    <2>4. answered' \in [Requests -> Blocks]
        BY <1>3, <2>1 DEF Reorg, IsBranch
    <2>5. head' \in Nat /\ head' <= MaxHead
        <3>1. head < MaxHead /\ head' = head + 1
            BY <1>3 DEF Reorg
        <3> QED BY <2>1, <3>1, VrfAssumption
    <2>6. txs' \in Seq(Txs)
        <3>1. txs \in Seq(Txs)
            BY DEF TypeInv
        <3>2. \A i \in DOMAIN txs : /\ txs[i] \in Txs /\ txs[i].log \in Logs
            <4> SUFFICES ASSUME NEW i \in DOMAIN txs
                         PROVE  txs[i] \in Txs /\ txs[i].log \in Logs
                OBVIOUS
            <4>1. txs[i] \in Txs
                BY <3>1
            <4> QED BY <4>1 DEF Txs
        <3>3. \A i \in DOMAIN txs : Tx(txs[i].log, "sent", -1) \in Txs
            BY <3>2, TxType DEF TxStates
        <3>4. \A i \in DOMAIN txs : i \in DOMAIN base.mined
                  => Tx(txs[i].log, "mined", base.mined[i]) \in Txs
            BY <2>1, <3>2, TxType DEF TxStates, IsBranch
        <3> DEFINE F(i) == IF i \in DOMAIN base.mined /\ base.mined[i] # -1
                           THEN Tx(txs[i].log, "mined", base.mined[i])
                           ELSE IF txs[i].state = "mined" THEN Tx(txs[i].log, "sent", -1)
                           ELSE txs[i]
        <3>5. \A i \in DOMAIN txs : F(i) \in Txs
            BY <3>2, <3>3, <3>4
        <3>6. txs' = [i \in DOMAIN txs |-> F(i)]
            BY <1>3 DEF Reorg
        <3> HIDE DEF F
        <3> QED BY <3>1, <3>5, <3>6
    <2>7. reorgs' \in Nat /\ UNCHANGED <<node, memory, round>>
        <3>1. reorgs' = reorgs + 1 /\ UNCHANGED <<node, memory, round>>
            BY <1>3 DEF Reorg
        <3> QED BY <3>1 DEF TypeInv
    <2>8. \A b \in replaced' : IsBranch(b)
        <3>1. replaced' \subseteq {Branch(base.fork, head)}
            BY <1>3 DEF Reorg
        <3>2. IsBranch(Branch(base.fork, head))
            BY <2>1, BranchType
        <3> QED BY <3>1, <3>2
    <2> QED BY <2>3, <2>4, <2>5, <2>6, <2>7, <2>8 DEF TypeInv
<1>4. ASSUME NEW amount, TopUp(amount) \/ Spend(amount) \/ GrowOld(amount)
      PROVE  TypeInv'
    BY <1>4 DEF TopUp, Spend, GrowOld, TypeInv
<1>5. ASSUME NEW i \in DOMAIN txs, Broadcast(i)
      PROVE  TypeInv'
    <2> DEFINE st == IF Committed(txs[i].log.req, Max2(txs[i].log.block.number, head - CheckLag))
                     THEN "sent" ELSE "fatal"
    <2>1. st \in TxStates
        BY DEF TxStates
    <2>2. txs' = [txs EXCEPT ![i] = Tx(txs[i].log, st, -1)]
        BY <1>5 DEF Broadcast
    <2> HIDE DEF st
    <2>3. txs' \in Seq(Txs)
        <3>1. txs \in Seq(Txs) /\ -1 \in Int
            BY DEF TypeInv
        <3>2. [txs EXCEPT ![i] = Tx(txs[i].log, st, -1)] \in Seq(Txs)
            BY <2>1, <3>1, TxUpdated
        <3> QED BY <2>2, <3>2
    <2>4. UNCHANGED <<chain, node, memory, round>>
        BY <1>5 DEF Broadcast
    <2> QED BY <2>3, <2>4 DEF TypeInv, chain
<1> QED BY <1>1, <1>2, <1>3, <1>4, <1>5 DEF ChainStep, Grow, Send, MineAny

LEMMA TypeListen ==
    ASSUME TypeInv, Listen \/ Crash
    PROVE  TypeInv'
<1> USE DEF chain, branches, memory, round, Idle
<1>1. CASE Start
    BY <1>1 DEF Start, TypeInv
<1>2. CASE Initialize
    <2>1. lastProcessed' \in Nat
        BY <1>2, EarliestBounds DEF Initialize
    <2> QED BY <1>2, <2>1 DEF Initialize, TypeInv
<1>3. CASE Poll
    <2>1. pending' \subseteq Logs
        BY <1>3, LogType DEF Poll
    <2>2. latestHead' \in Nat
        BY <1>3 DEF Poll, TypeInv, Max2
    <2> QED BY <1>3, <2>1, <2>2 DEF Poll, TypeInv
<1>4. CASE ReadBalance \/ ReadFails \/ SubtractReserved
    BY <1>4 DEF ReadBalance, ReadFails, SubtractReserved, TypeInv
<1>a. ASSUME NEW failing \in SUBSET pending, Check(failing) \/ Simulate(failing)
      PROVE  TypeInv'
    BY <1>a DEF Check, Simulate, TypeInv
<1>5. ASSUME NEW log \in pending, Process(log) \/ EnqueueFails(log)
      PROVE  TypeInv'
    <2>1. log \in Logs
        BY DEF TypeInv
    <2>2. Tx(log, "unstarted", -1) \in Txs
        BY <2>1, TxType DEF TxStates
    <2>3. Enqueued(log) \in Seq(Txs)
        BY <2>2 DEF Enqueued, TypeInv
    <2>4. txs' \in Seq(Txs)
        BY <1>5, <2>3 DEF Process, EnqueueFails, TypeInv
    <2>5. pending' \subseteq Logs /\ processed' \subseteq Logs
        BY <1>5, <2>1 DEF Process, EnqueueFails, TypeInv
    <2>6. crashes' = crashes /\ failures' \in Nat
        BY <1>5 DEF Process, EnqueueFails, node, TypeInv
    <2>7. UNCHANGED <<chain, memory>>
        BY <1>5 DEF Process, EnqueueFails
    <2> QED BY <2>4, <2>5, <2>6, <2>7 DEF TypeInv
<1>6. CASE FinishRound
    BY <1>6 DEF FinishRound, Kept, TypeInv
<1>7. CASE Update
    <2>1. lastProcessed' \in Nat
        BY <1>7, EarliestBounds DEF Update, TypeInv
    <2> QED BY <1>7, <2>1 DEF Update, TypeInv
<1>8. CASE UpdateFails
    BY <1>8 DEF UpdateFails, TypeInv
<1>9. CASE Crash
    BY <1>9 DEF Crash, Forgotten, TypeInv
<1> QED BY <1>1, <1>2, <1>3, <1>4, <1>a, <1>5, <1>6, <1>7, <1>8, <1>9 DEF Listen

LEMMA ListenerKeepsChain ==
    ASSUME Listen \/ Crash
    PROVE  UNCHANGED chain
BY DEF Listen, Start, Initialize, Poll, ReadBalance, ReadFails, SubtractReserved,
       Check, Simulate, Process, EnqueueFails, FinishRound, Update, UpdateFails, Crash

LEMMA ChainKeepsListener ==
    ASSUME ChainStep
    PROVE  UNCHANGED <<node, memory, round>>
BY DEF ChainStep, Grow, NewBlock, Send, Broadcast, MineAny, Mine, Reorg, TopUp, Spend,
       GrowOld

-----------------------------------------------------------------------------
(* Requests come before their answers, both on the chain.                  *)

BlocksInOrder ==
    \A r \in Requests :
        /\ IsAsked(r) => asked[r].number \in 0..head /\ asked[r].epoch <= reorgs
        /\ IsAnswered(r) => /\ IsAsked(r)
                            /\ asked[r].number <= answered[r].number
                            /\ answered[r].number <= head

\* What the listener and the transaction manager know was once on the chain.
LogsHaveBlocks ==
    /\ \A log \in inflight \union pending \union processed : log.block # NoBlock
    /\ \A i \in DOMAIN txs : txs[i].log.block # NoBlock

\* Each answer is by a transaction of the node.
IsMined(i, log, number) ==
    txs[i].log = log /\ txs[i].state = "mined" /\ txs[i].number = number

AnswersHaveTxs ==
    \A r \in Requests : IsAnswered(r) =>
        \E i \in DOMAIN txs : IsMined(i, Log(r), answered[r].number)

LEMMA LogsInit == Init => BlocksInOrder /\ LogsHaveBlocks
BY DEF Init, BlocksInOrder, LogsHaveBlocks, IsAsked, IsAnswered

-----------------------------------------------------------------------------
(* The branch a reorganisation builds on.                                  *)

\* Two chains have the blocks up to their fork in common.
Shared(fork, one, other) ==
    \/ one # NoBlock /\ one.number <= fork
    \/ other # NoBlock /\ other.number <= fork
    => one = other

\* A branch is in order as the chain is, and shares with it what is below the fork.
Fits(b) ==
    /\ b.fork < head /\ b.fork <= b.head /\ b.head <= head
    /\ \A r \in Requests :
          /\ b.asked[r] # NoBlock => /\ b.asked[r].number \in 0..b.head
                                     /\ b.asked[r].epoch <= reorgs
          /\ b.answered[r] # NoBlock =>
                /\ b.asked[r] # NoBlock
                /\ b.asked[r].number <= b.answered[r].number
                /\ b.answered[r].number <= b.head
                /\ \E i \in DOMAIN txs :
                      /\ i \in DOMAIN b.mined /\ b.mined[i] = b.answered[r].number
                      /\ txs[i].log = [req |-> r, block |-> b.asked[r]]
          /\ Shared(b.fork, b.asked[r], asked[r])
          /\ Shared(b.fork, b.answered[r], answered[r])

ReplacedInv == \A b \in replaced : Fits(b)

LEMMA BranchFits ==
    ASSUME TypeInv, BlocksInOrder, AnswersHaveTxs, NEW fork \in Nat, NEW top \in Nat,
           fork < head, fork <= top, top <= head
    PROVE  Fits(Branch(fork, top))
<1> PICK b : b = Branch(fork, top)
    OBVIOUS
<1>1. /\ b.fork = fork /\ b.head = top
      /\ \A r \in Requests :
            /\ b.asked[r] = IF asked[r].number <= top THEN asked[r] ELSE NoBlock
            /\ b.answered[r] = IF answered[r].number <= top THEN answered[r] ELSE NoBlock
      /\ DOMAIN b.mined = DOMAIN txs
      /\ \A i \in DOMAIN txs :
            txs[i].state = "mined" /\ txs[i].number <= top => b.mined[i] = txs[i].number
    BY BranchType
<1> SUFFICES ASSUME NEW r \in Requests
             PROVE  /\ b.asked[r] # NoBlock => /\ b.asked[r].number \in 0..top
                                               /\ b.asked[r].epoch <= reorgs
                    /\ b.answered[r] # NoBlock =>
                          /\ b.asked[r] # NoBlock
                          /\ b.asked[r].number <= b.answered[r].number
                          /\ b.answered[r].number <= top
                          /\ \E i \in DOMAIN txs :
                                /\ i \in DOMAIN b.mined
                                /\ b.mined[i] = b.answered[r].number
                                /\ txs[i].log = [req |-> r, block |-> b.asked[r]]
                    /\ Shared(fork, b.asked[r], asked[r])
                    /\ Shared(fork, b.answered[r], answered[r])
    BY <1>1 DEF Fits
<1>2. /\ asked[r].number \in Int /\ answered[r].number \in Int /\ head \in Nat
      /\ asked[r].epoch \in Nat /\ reorgs \in Nat
    BY DEF TypeInv, Blocks
<1>3. /\ asked[r] # NoBlock => asked[r].number \in 0..head /\ asked[r].epoch <= reorgs
      /\ answered[r] # NoBlock => /\ asked[r] # NoBlock
                                  /\ asked[r].number <= answered[r].number
    BY DEF BlocksInOrder, IsAsked, IsAnswered
<1>4. b.asked[r] # NoBlock => b.asked[r].number \in 0..top /\ b.asked[r].epoch <= reorgs
    BY <1>1, <1>2, <1>3
<1>5. ASSUME b.answered[r] # NoBlock
      PROVE  /\ b.asked[r] # NoBlock
             /\ b.asked[r].number <= b.answered[r].number
             /\ b.answered[r].number <= top
             /\ \E i \in DOMAIN txs :
                   /\ i \in DOMAIN b.mined
                   /\ b.mined[i] = b.answered[r].number
                   /\ txs[i].log = [req |-> r, block |-> b.asked[r]]
    <2>1. b.answered[r] = answered[r] /\ answered[r].number <= top /\ answered[r] # NoBlock
        BY <1>1, <1>5
    <2>2. asked[r].number <= top /\ asked[r] # NoBlock
        BY <1>2, <1>3, <2>1
    <2>3. b.asked[r] = asked[r]
        BY <1>1, <2>2
    <2>4. PICK i \in DOMAIN txs : /\ txs[i].log = Log(r) /\ txs[i].state = "mined"
                                  /\ txs[i].number = answered[r].number
        BY <2>1 DEF AnswersHaveTxs, IsMined, IsAnswered
    <2>5. b.mined[i] = answered[r].number
        BY <1>1, <2>1, <2>4
    <2> QED BY <1>1, <1>3, <2>1, <2>2, <2>3, <2>4, <2>5 DEF Log
<1>6. Shared(fork, b.asked[r], asked[r]) /\ Shared(fork, b.answered[r], answered[r])
    BY <1>1, <1>2 DEF Shared
<1> QED BY <1>4, <1>5, <1>6

LEMMA BasesFit ==
    ASSUME TypeInv, BlocksInOrder, AnswersHaveTxs, ReplacedInv, NEW base \in Bases
    PROVE  /\ Fits(base)
           /\ base.fork \in Nat /\ base.head \in Nat
<1>1. IsBranch(base)
    BY BasesAreBranches
<1>2. CASE base \in replaced
    BY <1>1, <1>2 DEF ReplacedInv, IsBranch
<1>3. ASSUME NEW fork \in Final..(head - 1), base = Branch(fork, fork)
      PROVE  Fits(base)
    <2>1. fork \in Nat /\ fork < head /\ head \in Nat
        BY HeadGrows DEF TypeInv
    <2> QED BY <1>3, <2>1, BranchFits
<1> QED BY <1>1, <1>2, <1>3 DEF Bases, IsBranch

\* Requests and answers after a reorganisation.
LEMMA ReorgMoves ==
    ASSUME TypeInv, BlocksInOrder, AnswersHaveTxs, ReplacedInv, NEW base \in Bases,
           NEW moved \in [Requests -> 0..(head + 1 - base.head)], Reorg(base, moved),
           NEW r \in Requests
    PROVE  /\ base.fork \in Nat /\ Final <= base.fork /\ base.fork < head
           /\ base.head \in Nat /\ base.fork <= base.head
           /\ answered'[r] = base.answered[r]
           /\ \/ asked'[r] = base.asked[r]
              \/ /\ base.asked[r] = NoBlock /\ base.answered[r] = NoBlock
                 /\ asked'[r] # NoBlock
                 /\ asked'[r].number > base.head /\ asked'[r].number <= head + 1
                 /\ asked'[r].epoch = reorgs + 1
<1>1. Fits(base) /\ base.fork \in Nat /\ base.head \in Nat
    BY BasesFit
<1>2. /\ base.fork < head /\ base.fork <= base.head
      /\ base.answered[r] # NoBlock => base.asked[r] # NoBlock
    BY <1>1 DEF Fits
<1>3. /\ answered' = base.answered /\ base.fork >= Final
      /\ moved[r] # 0 => base.asked[r] = NoBlock
      /\ asked'[r] = IF moved[r] = 0 THEN base.asked[r]
                     ELSE [number |-> base.head + moved[r], epoch |-> reorgs + 1]
    BY DEF Reorg
<1>4. Final \in Nat /\ head \in Nat /\ reorgs \in Nat /\ moved[r] \in 0..(head + 1 - base.head)
    BY HeadGrows DEF TypeInv
<1>5. CASE moved[r] = 0
    BY <1>1, <1>2, <1>3, <1>4, <1>5
<1>6. CASE moved[r] # 0
    <2>1. /\ asked'[r].number = base.head + moved[r]
          /\ asked'[r].epoch = reorgs + 1
        BY <1>3, <1>6
    <2>2. asked'[r].number > base.head /\ asked'[r].number <= head + 1
        BY <1>1, <1>4, <1>6, <2>1
    <2>3. asked'[r] # NoBlock
        BY <1>1, <2>2 DEF NoBlock
    <2> QED BY <1>1, <1>2, <1>3, <1>4, <1>6, <2>1, <2>2, <2>3
<1> QED BY <1>5, <1>6

LEMMA BlocksStep ==
    ASSUME TypeInv, BlocksInOrder, LogsHaveBlocks, AnswersHaveTxs, ReplacedInv, ChainStep
    PROVE  BlocksInOrder'
<1> SUFFICES ASSUME NEW r \in Requests
             PROVE  /\ IsAsked(r)' => /\ asked'[r].number \in 0..head'
                                      /\ asked'[r].epoch <= reorgs'
                    /\ IsAnswered(r)' => /\ IsAsked(r)'
                                         /\ asked'[r].number <= answered'[r].number
                                         /\ answered'[r].number <= head'
    BY DEF BlocksInOrder
<1> USE DEF IsAsked, IsAnswered
<1>a. /\ asked[r] \in Blocks /\ answered[r] \in Blocks
      /\ asked[r].number \in Int /\ answered[r].number \in Int /\ asked[r].epoch \in Nat
      /\ head \in Nat /\ reorgs \in Nat
    BY DEF TypeInv, Blocks
<1>b. /\ asked[r] # NoBlock => asked[r].number \in 0..head /\ asked[r].epoch <= reorgs
      /\ answered[r] # NoBlock => /\ asked[r] # NoBlock
                                  /\ asked[r].number <= answered[r].number
                                  /\ answered[r].number <= head
    BY DEF BlocksInOrder
<1>1. ASSUME NEW asks \in SUBSET Requests, NewBlock(asks)
      PROVE  /\ asked'[r] # NoBlock => /\ asked'[r].number \in 0..head'
                                       /\ asked'[r].epoch <= reorgs'
             /\ answered'[r] # NoBlock => /\ asked'[r] # NoBlock
                                          /\ asked'[r].number <= answered'[r].number
                                          /\ answered'[r].number <= head'
    <2>1. head' = head + 1 /\ reorgs' = reorgs /\ answered' = answered
        BY <1>1 DEF NewBlock
    <2>2. CASE r \in asks
        <3>1. asked'[r] = [number |-> head + 1, epoch |-> reorgs] /\ asked[r] = NoBlock
            BY <1>1, <2>2 DEF NewBlock
        <3> QED BY <1>a, <1>b, <2>1, <3>1, BlockType
    <2>3. CASE r \notin asks
        <3>1. asked'[r] = asked[r]
            BY <1>1, <2>3 DEF NewBlock
        <3> QED BY <1>a, <1>b, <2>1, <3>1
    <2> QED BY <2>2, <2>3
<1>2. ASSUME NEW i \in DOMAIN txs, NEW payment \in Payments, Mine(i, payment)
      PROVE  /\ asked'[r] # NoBlock => /\ asked'[r].number \in 0..head'
                                       /\ asked'[r].epoch <= reorgs'
             /\ answered'[r] # NoBlock => /\ asked'[r] # NoBlock
                                          /\ asked'[r].number <= answered'[r].number
                                          /\ answered'[r].number <= head'
    <2>1. head' = NextNumber /\ reorgs' = reorgs /\ asked' = asked
        BY <1>2 DEF Mine
    <2>2. PICK n \in Nat : n = NextNumber /\ n >= head
        BY HeadGrows
    <2>3. CASE answered'[r] = answered[r]
        BY <1>a, <1>b, <2>1, <2>2, <2>3
    <2>4. CASE answered'[r] # answered[r]
        <3>1. /\ answered'[r] = [number |-> NextNumber, epoch |-> reorgs]
              /\ txs[i].log = Log(r)
            BY <1>2, <2>4 DEF Mine, TypeInv
        <3>2. asked[r] # NoBlock
            BY <3>1, LogType DEF LogsHaveBlocks
        <3>3. answered'[r].number = n
            BY <2>2, <3>1
        <3> QED BY <1>a, <1>b, <2>1, <2>2, <3>2, <3>3
    <2> QED BY <2>3, <2>4
<1>3. ASSUME NEW base \in Bases,
             NEW moved \in [Requests -> 0..(head + 1 - base.head)],
             Reorg(base, moved)
      PROVE  /\ asked'[r] # NoBlock => /\ asked'[r].number \in 0..head'
                                       /\ asked'[r].epoch <= reorgs'
             /\ answered'[r] # NoBlock => /\ asked'[r] # NoBlock
                                          /\ asked'[r].number <= answered'[r].number
                                          /\ answered'[r].number <= head'
    <2>1. head' = head + 1 /\ reorgs' = reorgs + 1
        BY <1>3 DEF Reorg
    <2>2. /\ base.head \in Nat /\ base.head <= head
          /\ base.asked[r] # NoBlock => /\ base.asked[r].number \in 0..base.head
                                        /\ base.asked[r].epoch <= reorgs
          /\ base.answered[r] # NoBlock => /\ base.asked[r] # NoBlock
                                           /\ base.asked[r].number <= base.answered[r].number
                                           /\ base.answered[r].number <= base.head
        BY BasesFit DEF Fits
    <2>3. base.asked[r] \in Blocks /\ base.answered[r] \in Blocks
        BY BasesAreBranches DEF IsBranch
    <2>4. /\ base.asked[r].number \in Int /\ base.asked[r].epoch \in Nat
          /\ base.answered[r].number \in Int
        BY <2>3 DEF Blocks
    <2>5. answered'[r] = base.answered[r]
        BY <1>3, ReorgMoves
    <2>6. CASE asked'[r] = base.asked[r]
        BY <1>a, <2>1, <2>2, <2>4, <2>5, <2>6
    <2>7. CASE /\ base.answered[r] = NoBlock
               /\ asked'[r].number > base.head /\ asked'[r].number <= head + 1
               /\ asked'[r].epoch = reorgs + 1
        <3>1. asked' \in [Requests -> Blocks]
            BY TypeChain, <1>3 DEF ChainStep, TypeInv
        <3>2. asked'[r].number \in Int
            BY <3>1 DEF Blocks
        <3> QED BY <1>a, <2>1, <2>2, <2>5, <2>7, <3>2
    <2> QED BY <1>3, <2>6, <2>7, ReorgMoves
<1>4. CASE UNCHANGED <<head, reorgs, asked, answered>>
    BY <1>b, <1>4
<1>5. ASSUME NEW x, TopUp(x) \/ Spend(x) \/ GrowOld(x) \/ Broadcast(x)
      PROVE  UNCHANGED <<head, reorgs, asked, answered>>
    BY <1>5 DEF TopUp, Spend, GrowOld, Broadcast, chain
<1> QED BY <1>1, <1>2, <1>3, <1>4, <1>5 DEF ChainStep, Grow, Send, MineAny

LEMMA LogsStepChain ==
    ASSUME TypeInv, LogsHaveBlocks, ChainStep
    PROVE  LogsHaveBlocks' /\ DOMAIN txs' = DOMAIN txs
           /\ \A i \in DOMAIN txs : txs'[i].log = txs[i].log
<1> SUFFICES DOMAIN txs' = DOMAIN txs /\ \A i \in DOMAIN txs : txs'[i].log = txs[i].log
    BY ChainKeepsListener DEF LogsHaveBlocks, memory, round
<1>1. CASE UNCHANGED txs
    BY <1>1
<1>2. ASSUME NEW x, NewBlock(x) \/ TopUp(x) \/ Spend(x) \/ GrowOld(x)
      PROVE  UNCHANGED txs
    BY <1>2 DEF NewBlock, TopUp, Spend, GrowOld
<1>3. ASSUME NEW i \in DOMAIN txs, NEW st, NEW n,
             txs' = [txs EXCEPT ![i] = Tx(txs[i].log, st, n)]
      PROVE  DOMAIN txs' = DOMAIN txs /\ \A j \in DOMAIN txs : txs'[j].log = txs[j].log
    BY <1>3 DEF Tx, TypeInv
<1>4. ASSUME NEW base, NEW moved, Reorg(base, moved)
      PROVE  DOMAIN txs' = DOMAIN txs /\ \A j \in DOMAIN txs : txs'[j].log = txs[j].log
    BY <1>4 DEF Reorg, Tx
<1>5. ASSUME NEW i \in DOMAIN txs, NEW payment, Mine(i, payment)
      PROVE  DOMAIN txs' = DOMAIN txs /\ \A j \in DOMAIN txs : txs'[j].log = txs[j].log
    BY <1>3, <1>5 DEF Mine
<1>6. ASSUME NEW i \in DOMAIN txs, Broadcast(i)
      PROVE  DOMAIN txs' = DOMAIN txs /\ \A j \in DOMAIN txs : txs'[j].log = txs[j].log
    BY <1>3, <1>6 DEF Broadcast
<1> QED BY <1>1, <1>2, <1>4, <1>5, <1>6 DEF ChainStep, Grow, Send, MineAny

LEMMA LogsStepListener ==
    ASSUME TypeInv, LogsHaveBlocks, Listen \/ Crash
    PROVE  LogsHaveBlocks'
<1> USE DEF LogsHaveBlocks, memory, round, Idle
<1>1. CASE Start \/ Initialize \/ ReadBalance \/ ReadFails \/ SubtractReserved
    BY <1>1 DEF Start, Initialize, ReadBalance, ReadFails, SubtractReserved
<1>2. CASE FinishRound \/ Update \/ UpdateFails \/ Crash
    BY <1>2 DEF FinishRound, Kept, Update, UpdateFails, Crash, Forgotten
<1>a. ASSUME NEW failing \in SUBSET pending, Check(failing) \/ Simulate(failing)
      PROVE  LogsHaveBlocks'
    BY <1>a DEF Check, Simulate
<1>3. CASE Poll
    <2>1. \A r \in Requests : asked[r].number >= lastProcessed => asked[r] # NoBlock
        BY DEF TypeInv, NoBlock
    <2> QED BY <1>3, <2>1, LogType DEF Poll
<1>4. ASSUME NEW log \in pending, Process(log) \/ EnqueueFails(log)
      PROVE  LogsHaveBlocks'
    <2>1. log.block # NoBlock /\ Tx(log, "unstarted", -1).log = log
        BY DEF Tx
    <2>2. /\ UNCHANGED inflight
          /\ pending' \subseteq pending /\ processed' \subseteq processed \union {log}
          /\ txs' = txs \/ txs' = Enqueued(log)
        BY <1>4 DEF Process, EnqueueFails
    <2>3. \A i \in DOMAIN Enqueued(log) : Enqueued(log)[i].log.block # NoBlock
        BY <2>1 DEF Enqueued, TypeInv
    <2> QED BY <2>1, <2>2, <2>3
<1> QED BY <1>1, <1>2, <1>a, <1>3, <1>4 DEF Listen

-----------------------------------------------------------------------------
(* The polling window.                                                     *)

\* The window starts at a final block; a request that may need an answer is not
\* behind it.
WindowInv ==
    /\ lastProcessed <= Final
    /\ NoRequestIsSkipped

LEMMA Max2Grows ==
    ASSUME NEW h \in Nat, NEW k \in Nat, h <= k
    PROVE  /\ Max2(h - FinalityDepth, 0) <= Max2(k - FinalityDepth, 0)
           /\ Max2(h - FinalityDepth, 0) \in Nat /\ Max2(k - FinalityDepth, 0) \in Nat
BY VrfAssumption DEF Max2

LEMMA FinalGrows ==
    ASSUME TypeInv, ChainStep
    PROVE  /\ head' \in Nat /\ head' >= head
           /\ Final' >= Final /\ Final' \in Nat
<1>1. head' >= head /\ head' \in Nat
    <2>1. ASSUME NEW x, TopUp(x) \/ Spend(x) \/ GrowOld(x) \/ Broadcast(x)
          PROVE  head' = head
        BY <2>1 DEF TopUp, Spend, GrowOld, Broadcast, chain
    <2>2. ASSUME NEW x, NewBlock(x)
          PROVE  head' = head + 1
        BY <2>2 DEF NewBlock
    <2>3. ASSUME NEW x, NEW y, Reorg(x, y)
          PROVE  head' = head + 1
        BY <2>3 DEF Reorg
    <2>4. ASSUME NEW x, NEW y, Mine(x, y)
          PROVE  head' = NextNumber
        BY <2>4 DEF Mine
    <2>5. \/ head' = head \/ head' = head + 1 \/ head' = NextNumber
        BY <2>1, <2>2, <2>3, <2>4 DEF ChainStep, Grow, Send, MineAny
    <2> QED BY <2>5, HeadGrows DEF TypeInv
<1>2. PICK h, k \in Nat : h = head /\ k = head' /\ h <= k
    BY <1>1 DEF TypeInv
<1>3. /\ Max2(h - FinalityDepth, 0) <= Max2(k - FinalityDepth, 0)
      /\ Max2(h - FinalityDepth, 0) \in Nat /\ Max2(k - FinalityDepth, 0) \in Nat
    BY <1>2, Max2Grows
<1>4. Final = Max2(h - FinalityDepth, 0) /\ Final' = Max2(k - FinalityDepth, 0)
    BY <1>2 DEF Final
<1> QED BY <1>1, <1>3, <1>4

LEMMA WindowChain ==
    ASSUME TypeInv, BlocksInOrder, AnswersHaveTxs, ReplacedInv, WindowInv, ChainStep
    PROVE  WindowInv'
<1>1. UNCHANGED <<step, lastProcessed>>
    BY ChainKeepsListener DEF node, memory
<1>2. PICK f, f2 \in Nat : f = Final /\ f2 = Final' /\ f <= f2 /\ f <= head
    BY FinalGrows, HeadGrows
<1>3. lastProcessed \in Nat /\ lastProcessed <= f /\ head \in Nat
    BY <1>2 DEF WindowInv, TypeInv
<1>4. lastProcessed' <= Final'
    BY <1>1, <1>2, <1>3
<1> SUFFICES ASSUME step \notin {"down", "start"}, NEW r \in Requests,
                    asked'[r] # NoBlock, r \notin old',
                    ~(answered'[r] # NoBlock /\ answered'[r].number <= f2)
             PROVE  lastProcessed <= asked'[r].number
    BY <1>1, <1>2, <1>4 DEF WindowInv, NoRequestIsSkipped, IsAsked, IsAnswered
<1>a. /\ asked[r] \in Blocks /\ answered[r] \in Blocks
      /\ asked[r].number \in Int /\ answered[r].number \in Int
    BY DEF TypeInv, Blocks
<1>5. asked[r] # NoBlock /\ r \notin old /\ ~(answered[r] # NoBlock /\ answered[r].number <= f)
          => lastProcessed <= asked[r].number
    BY <1>2 DEF WindowInv, NoRequestIsSkipped, IsAsked, IsAnswered
<1>6. ASSUME NEW asks \in SUBSET Requests, NewBlock(asks)
      PROVE  lastProcessed <= asked'[r].number
    <2>1. CASE r \in asks
        <3>1. asked'[r].number = head + 1
            BY <1>6, <2>1 DEF NewBlock
        <3> QED BY <1>2, <1>3, <3>1
    <2>2. CASE r \notin asks
        <3>1. asked'[r] = asked[r] /\ answered' = answered /\ old' = old
            BY <1>6, <2>2 DEF NewBlock
        <3> QED BY <1>a, <1>2, <1>5, <3>1
    <2> QED BY <2>1, <2>2
<1>7. ASSUME NEW i \in DOMAIN txs, NEW payment \in Payments, Mine(i, payment)
      PROVE  lastProcessed <= asked'[r].number
    <2>1. asked' = asked /\ old' = old
        BY <1>7 DEF Mine
    <2>2. answered'[r] # answered[r] => answered[r] = NoBlock
        BY <1>7 DEF Mine, IsAnswered, TypeInv
    <2> QED BY <1>a, <1>2, <1>5, <2>1, <2>2
<1>8. ASSUME NEW base \in Bases,
             NEW moved \in [Requests -> 0..(head + 1 - base.head)],
             Reorg(base, moved)
      PROVE  lastProcessed <= asked'[r].number
    <2>1. /\ base.fork \in Nat /\ f <= base.fork
          /\ base.head \in Nat /\ base.fork <= base.head
          /\ answered'[r] = base.answered[r]
        BY <1>2, <1>8, ReorgMoves
    <2>2. Shared(base.fork, base.asked[r], asked[r]) /\ Shared(base.fork, base.answered[r], answered[r])
        BY BasesFit DEF Fits
    <2>3. asked'[r].number \in Int
        <3>1. asked' \in [Requests -> Blocks]
            BY TypeChain, <1>8 DEF ChainStep, TypeInv
        <3> QED BY <3>1 DEF Blocks
    <2>4. CASE asked'[r].number > base.fork
        BY <1>3, <2>1, <2>3, <2>4
    <2>5. CASE ~(asked'[r].number > base.fork)
        <3>1. asked'[r] = base.asked[r]
            <4>1. ~(asked'[r].number > base.head)
                BY <2>1, <2>3, <2>5
            <4> QED BY <1>8, <4>1, ReorgMoves
        <3>2. asked[r] = asked'[r] /\ ~(asked[r].number > base.fork)
            BY <2>1, <2>2, <2>3, <2>5, <3>1 DEF Shared
        <3>3. old' = old \ { q \in Requests : asked[q].number > base.fork }
            BY <1>8 DEF Reorg
        <3>4. r \notin old
            BY <3>2, <3>3
        <3>5. answered[r] # NoBlock /\ answered[r].number <= f =>
                  answered'[r] # NoBlock /\ answered'[r].number <= f2
            BY <1>a, <1>2, <2>1, <2>2 DEF Shared
        <3> QED BY <1>5, <3>2, <3>4, <3>5
    <2> QED BY <2>4, <2>5
<1>9. ASSUME NEW x, TopUp(x) \/ Spend(x) \/ GrowOld(x) \/ Broadcast(x)
      PROVE  lastProcessed <= asked'[r].number
    <2>1. UNCHANGED <<asked, answered>> /\ (r \notin old' => r \notin old)
        BY <1>9 DEF TopUp, Spend, GrowOld, Broadcast, chain
    <2> QED BY <1>a, <1>2, <1>5, <2>1
<1> QED BY <1>6, <1>7, <1>8, <1>9 DEF ChainStep, Grow, Send, MineAny

\* What a new place of the window leaves behind needs no answer.
LEMMA WindowMoves ==
    ASSUME TypeInv, BlocksInOrder, UNCHANGED chain, NEW from \in Nat,
           lastProcessed' = Earliest(from),
           \A r \in Requests :
               IsAsked(r) /\ r \notin old /\ ~(IsAnswered(r) /\ answered[r].number <= Final)
                   => from <= asked[r].number
    PROVE  WindowInv'
<1>1. Final' = Final /\ UNCHANGED <<asked, answered, old>>
    BY DEF Final, chain
<1>2. Earliest(from) \in Nat /\ Earliest(from) <= Final
    BY EarliestBounds
<1>3. Final \in Nat
    BY HeadGrows
<1>4. ASSUME NEW r \in Requests, asked[r] # NoBlock, r \notin old,
             ~(answered[r] # NoBlock /\ answered[r].number <= Final)
      PROVE  Earliest(from) <= asked[r].number
    <2>1. from <= asked[r].number /\ asked[r].number \in Int
        BY <1>4 DEF IsAsked, IsAnswered, TypeInv, Blocks
    <2>2. CASE asked[r].number <= Final
        <3>1. asked[r].number \in from..Final
            BY <2>1, <2>2, <1>3
        <3> QED BY <1>4, <3>1, EarliestBounds DEF IsAnswered
    <2>3. CASE asked[r].number > Final
        BY <1>2, <1>3, <2>1, <2>3
    <2> QED BY <1>3, <2>1, <2>2, <2>3
<1> QED BY <1>1, <1>2, <1>4 DEF WindowInv, NoRequestIsSkipped, IsAsked, IsAnswered

LEMMA WindowListener ==
    ASSUME TypeInv, BlocksInOrder, WindowInv, Listen \/ Crash
    PROVE  WindowInv'
<1>1. UNCHANGED chain
    BY ListenerKeepsChain
<1>2. /\ Final' = Final /\ Final \in Nat
      /\ UNCHANGED <<asked, answered, old>>
    BY <1>1, HeadGrows DEF Final, chain
<1>3. CASE Initialize
    <2>1. \A r \in Requests : IsAsked(r) => 0 <= asked[r].number
        BY DEF BlocksInOrder
    <2>2. lastProcessed' = Earliest(0)
        BY <1>3 DEF Initialize
    <2> QED BY <1>1, <2>1, <2>2, WindowMoves
<1>4. CASE Update
    <2>1. lastProcessed' = Earliest(lastProcessed) /\ step \notin {"down", "start"}
        BY <1>4 DEF Update
    <2>2. lastProcessed \in Nat
        BY DEF TypeInv
    <2> QED BY <1>1, <2>1, <2>2, WindowMoves DEF WindowInv, NoRequestIsSkipped
<1>5. CASE Start \/ Crash
    <2>1. step' \in {"down", "start"}
        BY <1>5 DEF Start, Crash
    <2>2. lastProcessed' = lastProcessed \/ lastProcessed' = 0
        BY <1>5 DEF Start, Crash, Forgotten
    <2> QED BY <1>2, <2>1, <2>2 DEF WindowInv, NoRequestIsSkipped
<1>6. CASE UpdateFails
    <2>1. lastProcessed' = lastProcessed \/ lastProcessed' = 0
        BY <1>6 DEF UpdateFails
    <2>2. step \notin {"down", "start"}
        BY <1>6 DEF UpdateFails
    <2>3. \A r \in Requests : IsAsked(r) => 0 <= asked[r].number
        BY DEF BlocksInOrder
    <2> QED BY <1>2, <2>1, <2>2, <2>3
            DEF WindowInv, NoRequestIsSkipped, IsAsked, IsAnswered
<1>7. ASSUME \/ Poll \/ ReadBalance \/ ReadFails \/ SubtractReserved \/ FinishRound
             \/ \E failing \in SUBSET pending : Check(failing) \/ Simulate(failing)
             \/ \E log \in pending : Process(log) \/ EnqueueFails(log)
      PROVE  WindowInv'
    <2>1. UNCHANGED lastProcessed /\ step \notin {"down", "start"}
        BY <1>7 DEF Poll, ReadBalance, ReadFails, SubtractReserved, Check, Simulate,
                    FinishRound, Process, EnqueueFails, memory
    <2> QED BY <1>2, <2>1 DEF WindowInv, NoRequestIsSkipped, IsAsked, IsAnswered
<1> QED BY <1>3, <1>4, <1>5, <1>6, <1>7 DEF Listen

-----------------------------------------------------------------------------
(* The logs of a round.                                                    *)

\* The chain holds the request of this log in the block of this log.
Current(log) == asked[log.req] = log.block

\* A log that is not current any more is of a branch that was replaced.
KnownLogs ==
    \A log \in inflight \union pending \union processed :
        Current(log) \/ log.block.epoch < reorgs

RoundInv ==
    /\ step \notin {"simulate", "enqueue"} => processed = {}
    /\ pending \cap (inflight \union processed) = {}
    /\ step = "enqueue" =>
          \A log \in pending :
              outcomes[log] = "stale" => ~Current(log) \/ log \in returned

LEMMA RoundInit == Init => KnownLogs /\ RoundInv
BY DEF Init, KnownLogs, RoundInv

LEMMA CurrentIsLog ==
    ASSUME TypeInv, NEW log \in Logs
    PROVE  Current(log) <=> log = Log(log.req)
BY DEF Logs, Log, Current

LEMMA ReturnedStay ==
    ASSUME ChainStep
    PROVE  returned \subseteq returned'
BY DEF ChainStep, Grow, NewBlock, Send, Broadcast, MineAny, Mine, Reorg, TopUp, Spend,
       GrowOld, chain, branches

\* A log the listener holds becomes current again only when its branch comes back:
\* a block that comes new into the chain has another hash.
LEMMA LogsReturnWithTheirBranch ==
    ASSUME TypeInv, BlocksInOrder, LogsHaveBlocks, AnswersHaveTxs, ReplacedInv, KnownLogs,
           ChainStep, NEW log \in inflight \union pending \union processed
    PROVE  /\ Current(log)' /\ log \notin returned' =>
                 Current(log) /\ log \notin returned /\ (log.req \in old => log.req \in old')
           /\ Current(log)' \/ log.block.epoch < reorgs'
<1> DEFINE r == log.req
           b == log.block
<1>1. /\ log \in Logs /\ r \in Requests /\ b \in Blocks /\ b.epoch \in Nat
      /\ reorgs \in Nat /\ head \in Nat
    BY DEF TypeInv, Logs, Blocks
<1>2. b # NoBlock /\ (asked[r] = b \/ b.epoch < reorgs)
    BY DEF LogsHaveBlocks, KnownLogs, Current
<1>3. asked[r] # NoBlock => asked[r].epoch <= reorgs
    BY <1>1 DEF BlocksInOrder, IsAsked
<1>b. log = [req |-> r, block |-> b]
    BY <1>1 DEF Logs
<1>c. returned \subseteq returned'
    BY ReturnedStay
<1> SUFFICES /\ asked'[r] = b /\ log \notin returned' => asked[r] = b /\ (r \in old => r \in old')
             /\ asked'[r] = b \/ b.epoch < reorgs'
    BY <1>c DEF Current
<1> HIDE DEF r, b
<1>4. ASSUME NEW asks \in SUBSET Requests, NewBlock(asks)
      PROVE  /\ asked'[r] = b /\ log \notin returned' => asked[r] = b /\ (r \in old => r \in old')
             /\ asked'[r] = b \/ b.epoch < reorgs'
    <2>1. reorgs' = reorgs /\ old' = old
        BY <1>4 DEF NewBlock
    <2>2. CASE r \in asks
        <3>1. asked'[r] = [number |-> head + 1, epoch |-> reorgs] /\ asked[r] = NoBlock
            BY <1>1, <1>4, <2>2 DEF NewBlock, IsAsked
        <3>2. asked'[r].epoch = reorgs
            BY <3>1
        <3> QED BY <1>1, <1>2, <2>1, <3>1, <3>2
    <2>3. CASE r \notin asks
        <3>1. asked'[r] = asked[r]
            BY <1>1, <1>4, <2>3 DEF NewBlock
        <3> QED BY <1>2, <2>1, <3>1
    <2> QED BY <2>2, <2>3
<1>5. ASSUME NEW base \in Bases,
             NEW moved \in [Requests -> 0..(head + 1 - base.head)],
             Reorg(base, moved)
      PROVE  /\ asked'[r] = b /\ log \notin returned' => asked[r] = b /\ (r \in old => r \in old')
             /\ asked'[r] = b \/ b.epoch < reorgs'
    <2>1. /\ reorgs' = reorgs + 1
          /\ returned' = returned \union
                { [req |-> q, block |-> base.asked[q]] :
                      q \in { q \in Requests : base.asked[q].number > base.fork } }
          /\ old' = old \ { q \in Requests : asked[q].number > base.fork }
        BY <1>5 DEF Reorg
    <2>2. b.epoch < reorgs + 1
        BY <1>1, <1>2, <1>3
    <2>3. base.fork \in Nat /\ Shared(base.fork, base.asked[r], asked[r])
        BY <1>1, BasesFit DEF Fits
    <2>4. ASSUME asked'[r] = b, log \notin returned'
          PROVE  asked[r] = b /\ (r \in old => r \in old')
        <3>1. asked'[r].epoch # reorgs + 1
            BY <1>1, <2>2, <2>4
        <3>2. base.asked[r] = b
            BY <1>1, <1>5, <2>4, <3>1, ReorgMoves
        <3>3. ~(b.number > base.fork)
            BY <1>1, <1>b, <2>1, <2>4, <3>2
        <3>4. b.number <= base.fork
            BY <1>1, <2>3, <3>3 DEF Blocks
        <3>5. asked[r] = b
            BY <1>2, <2>3, <3>2, <3>4 DEF Shared
        <3> QED BY <2>1, <3>3, <3>5
    <2> QED BY <2>1, <2>2, <2>4
<1>6. ASSUME NEW x, NEW y, TopUp(x) \/ Spend(x) \/ GrowOld(x) \/ Broadcast(x) \/ Mine(x, y)
      PROVE  /\ asked'[r] = b /\ log \notin returned' => asked[r] = b /\ (r \in old => r \in old')
             /\ asked'[r] = b \/ b.epoch < reorgs'
    <2>1. UNCHANGED <<asked, reorgs>> /\ (r \in old => r \in old')
        BY <1>6 DEF TopUp, Spend, GrowOld, Broadcast, Mine, chain
    <2> QED BY <1>2, <2>1
<1> QED BY <1>4, <1>5, <1>6 DEF ChainStep, Grow, Send, MineAny

LEMMA RoundChain ==
    ASSUME TypeInv, BlocksInOrder, LogsHaveBlocks, AnswersHaveTxs, ReplacedInv, KnownLogs,
           RoundInv, ChainStep
    PROVE  KnownLogs' /\ RoundInv'
<1>1. UNCHANGED <<step, inflight, pending, processed, outcomes>>
    BY ChainKeepsListener DEF node, memory, round
<1>2. KnownLogs'
    BY <1>1, LogsReturnWithTheirBranch DEF KnownLogs
<1>3. RoundInv'
    BY <1>1, LogsReturnWithTheirBranch DEF RoundInv
<1> QED BY <1>2, <1>3

LEMMA RoundListener ==
    ASSUME TypeInv, BlocksInOrder, LogsHaveBlocks, KnownLogs, RoundInv, Listen \/ Crash
    PROVE  KnownLogs' /\ RoundInv'
<1>1. UNCHANGED <<asked, reorgs, returned>> /\ \A log : Current(log)' <=> Current(log)
    BY ListenerKeepsChain DEF chain, branches, Current
<1> SUFFICES /\ \A log \in inflight' \union pending' \union processed' :
                   Current(log) \/ log.block.epoch < reorgs
             /\ step' \notin {"simulate", "enqueue"} => processed' = {}
             /\ pending' \cap (inflight' \union processed') = {}
             /\ step' = "enqueue" =>
                   \A log \in pending' :
                       outcomes'[log] = "stale" => ~Current(log) \/ log \in returned
    BY <1>1 DEF KnownLogs, RoundInv
<1> USE DEF KnownLogs, RoundInv, Idle
<1>2. CASE Start \/ Initialize \/ ReadBalance \/ ReadFails \/ SubtractReserved
    BY <1>2 DEF Start, Initialize, ReadBalance, ReadFails, SubtractReserved, memory, round
<1>3. CASE Poll
    <2>1. PICK ready \in SUBSET Requests :
              /\ pending' = { Log(r) : r \in ready }
              /\ \A r \in ready : Log(r) \notin inflight
        BY <1>3 DEF Poll
    <2>2. \A r \in ready : Current(Log(r))
        BY LogType DEF Current
    <2>3. UNCHANGED <<inflight, processed>> /\ step' \in {"update", "balance"} /\ step = "poll"
        BY <1>3 DEF Poll
    <2> QED BY <2>1, <2>2, <2>3
<1>4. ASSUME NEW failing \in SUBSET pending, Check(failing)
      PROVE  /\ pending' \union processed' \subseteq pending /\ pending' \cap processed' = {}
             /\ inflight' = inflight /\ step' = "simulate"
    BY <1>4 DEF Check, memory
<1>5. ASSUME NEW failing \in SUBSET pending, Simulate(failing)
      PROVE  /\ \A log \in inflight' \union pending' \union processed' :
                   Current(log) \/ log.block.epoch < reorgs
             /\ step' \notin {"simulate", "enqueue"} => processed' = {}
             /\ pending' \cap (inflight' \union processed') = {}
             /\ step' = "enqueue" =>
                   \A log \in pending' :
                       outcomes'[log] = "stale" => ~Current(log) \/ log \in returned
    <2>1. \A log \in pending : outcomes'[log] = "stale" => Outcome(log) = "stale"
        BY <1>5 DEF Simulate
    <2>2. \A log : Outcome(log) = "stale" => ~Current(log)
        BY DEF Outcome, Current
    <2>3. UNCHANGED <<inflight, pending, processed>> /\ step' = "enqueue"
        BY <1>5 DEF Simulate, memory
    <2> QED BY <2>1, <2>2, <2>3
<1>6. ASSUME NEW log \in pending, Process(log) \/ EnqueueFails(log)
      PROVE  /\ \A l \in inflight' \union pending' \union processed' :
                   Current(l) \/ l.block.epoch < reorgs
             /\ step' \notin {"simulate", "enqueue"} => processed' = {}
             /\ pending' \cap (inflight' \union processed') = {}
             /\ step' = "enqueue" =>
                   \A l \in pending' :
                       outcomes'[l] = "stale" => ~Current(l) \/ l \in returned
    <2>1. /\ UNCHANGED <<inflight, outcomes>> /\ step = "enqueue" /\ step' = step
          /\ \/ pending' = {} /\ processed' = processed
             \/ /\ pending' = pending \ {log}
                /\ processed' = processed \/ processed' = processed \union {log}
        BY <1>6 DEF Process, EnqueueFails, node, memory
    <2> QED BY <2>1
<1>7. CASE FinishRound
    BY <1>7 DEF FinishRound, Kept
<1>8. CASE Update \/ UpdateFails
    BY <1>8 DEF Update, UpdateFails
<1>9. CASE Crash
    BY <1>9 DEF Crash, Forgotten
<1> QED BY <1>2, <1>3, <1>4, <1>5, <1>6, <1>7, <1>8, <1>9 DEF Listen

-----------------------------------------------------------------------------
(* Answers and the transactions that gave them.                            *)

LEMMA AnswersInit == Init => AnswersHaveTxs
BY DEF Init, AnswersHaveTxs, IsAnswered

LEMMA AnswersChain ==
    ASSUME TypeInv, BlocksInOrder, AnswersHaveTxs, ReplacedInv, ChainStep
    PROVE  AnswersHaveTxs'
<1> SUFFICES ASSUME NEW r \in Requests, answered'[r] # NoBlock
             PROVE  \E i \in DOMAIN txs' : /\ txs'[i].log = Log(r)'
                                           /\ txs'[i].state = "mined"
                                           /\ txs'[i].number = answered'[r].number
    BY DEF AnswersHaveTxs, IsAnswered, IsMined
<1>a. /\ asked[r].number \in Int /\ answered[r].number \in Int
      /\ txs \in Seq(Txs)
    BY DEF TypeInv, Blocks
<1>b. answered[r] # NoBlock =>
          \E i \in DOMAIN txs : /\ txs[i].log = Log(r)
                                /\ txs[i].state = "mined"
                                /\ txs[i].number = answered[r].number
    BY DEF AnswersHaveTxs, IsAnswered, IsMined
<1>1. ASSUME UNCHANGED answered, asked'[r] = asked[r], DOMAIN txs' = DOMAIN txs,
             \A i \in DOMAIN txs : txs[i].state = "mined" => txs'[i] = txs[i]
      PROVE  \E i \in DOMAIN txs' : /\ txs'[i].log = Log(r)'
                                    /\ txs'[i].state = "mined"
                                    /\ txs'[i].number = answered'[r].number
    BY <1>b, <1>1 DEF Log
<1>2. ASSUME NEW asks \in SUBSET Requests, NewBlock(asks)
      PROVE  \E i \in DOMAIN txs' : /\ txs'[i].log = Log(r)'
                                    /\ txs'[i].state = "mined"
                                    /\ txs'[i].number = answered'[r].number
    <2>1. UNCHANGED <<answered, txs>>
        BY <1>2 DEF NewBlock
    <2>2. r \notin asks
        BY <1>2, <2>1 DEF NewBlock, BlocksInOrder, IsAsked, IsAnswered
    <2>3. asked'[r] = asked[r]
        BY <1>2, <2>2 DEF NewBlock
    <2> QED BY <1>1, <2>1, <2>3
<1>3. ASSUME NEW i \in DOMAIN txs, NEW payment \in Payments, Mine(i, payment)
      PROVE  \E j \in DOMAIN txs' : /\ txs'[j].log = Log(r)'
                                    /\ txs'[j].state = "mined"
                                    /\ txs'[j].number = answered'[r].number
    <2>1. /\ UNCHANGED asked /\ txs[i].state = "sent"
          /\ txs' = [txs EXCEPT ![i] = Tx(txs[i].log, "mined", NextNumber)]
        BY <1>3 DEF Mine
    <2>2. /\ DOMAIN txs' = DOMAIN txs
          /\ \A j \in DOMAIN txs : j # i => txs'[j] = txs[j]
          /\ txs'[i] = Tx(txs[i].log, "mined", NextNumber)
        BY <1>a, <2>1
    <2>3. CASE answered'[r] = answered[r]
        <3>1. PICK j \in DOMAIN txs : /\ txs[j].log = Log(r)
                                      /\ txs[j].state = "mined"
                                      /\ txs[j].number = answered[r].number
            BY <1>b, <2>3
        <3>2. txs'[j] = txs[j]
            BY <2>1, <2>2, <3>1
        <3> QED BY <2>1, <2>2, <2>3, <3>1, <3>2 DEF Log
    <2>4. CASE answered'[r] # answered[r]
        <3>1. /\ answered'[r] = [number |-> NextNumber, epoch |-> reorgs]
              /\ txs[i].log = Log(r)
            BY <1>3, <2>4 DEF Mine, TypeInv
        <3>2. /\ txs'[i].log = Log(r) /\ txs'[i].state = "mined"
              /\ txs'[i].number = NextNumber
            BY <2>2, <3>1 DEF Tx
        <3> QED BY <2>1, <2>2, <3>1, <3>2 DEF Log
    <2> QED BY <2>3, <2>4
<1>4. ASSUME NEW base \in Bases,
             NEW moved \in [Requests -> 0..(head + 1 - base.head)],
             Reorg(base, moved)
      PROVE  \E i \in DOMAIN txs' : /\ txs'[i].log = Log(r)'
                                    /\ txs'[i].state = "mined"
                                    /\ txs'[i].number = answered'[r].number
    <2>1. answered'[r] = base.answered[r] /\ asked'[r] = base.asked[r]
        BY <1>4, ReorgMoves
    <2>2. /\ base.asked[r] # NoBlock /\ base.asked[r].number \in Nat
          /\ base.asked[r].number <= base.answered[r].number
          /\ \E i \in DOMAIN txs : /\ i \in DOMAIN base.mined
                                    /\ base.mined[i] = base.answered[r].number
                                    /\ txs[i].log = [req |-> r, block |-> base.asked[r]]
        BY <2>1, BasesFit DEF Fits
    <2>3. PICK i \in DOMAIN txs : /\ i \in DOMAIN base.mined
                                  /\ base.mined[i] = base.answered[r].number
                                  /\ txs[i].log = [req |-> r, block |-> base.asked[r]]
        BY <2>2
    <2>4. base.mined[i] # -1
        <3>1. base.answered[r].number \in Int
            BY BasesAreBranches DEF IsBranch, Blocks
        <3> QED BY <2>2, <2>3, <3>1
    <2>5. /\ DOMAIN txs' = DOMAIN txs
          /\ txs'[i] = Tx(txs[i].log, "mined", base.mined[i])
        BY <1>4, <2>3, <2>4 DEF Reorg
    <2> QED BY <2>1, <2>3, <2>5 DEF Log, Tx
<1>5. ASSUME NEW i \in DOMAIN txs, Broadcast(i)
      PROVE  \E j \in DOMAIN txs' : /\ txs'[j].log = Log(r)'
                                    /\ txs'[j].state = "mined"
                                    /\ txs'[j].number = answered'[r].number
    <2>1. UNCHANGED <<answered, asked>> /\ txs[i].state = "unstarted"
        BY <1>5 DEF Broadcast, chain
    <2>2. /\ DOMAIN txs' = DOMAIN txs
          /\ \A j \in DOMAIN txs : j # i => txs'[j] = txs[j]
        BY <1>a, <1>5 DEF Broadcast
    <2>3. \A j \in DOMAIN txs : txs[j].state = "mined" => txs'[j] = txs[j]
        BY <2>1, <2>2
    <2> QED BY <1>1, <2>1, <2>2, <2>3
<1>6. ASSUME NEW x, TopUp(x) \/ Spend(x) \/ GrowOld(x)
      PROVE  UNCHANGED <<answered, asked, txs>>
    BY <1>6 DEF TopUp, Spend, GrowOld
<1> QED BY <1>1, <1>2, <1>3, <1>4, <1>5, <1>6 DEF ChainStep, Grow, Send, MineAny

\* The listener only adds to the transactions.
LEMMA ListenerAppends ==
    ASSUME TypeInv, Listen \/ Crash
    PROVE  \/ UNCHANGED txs
           \/ \E log \in pending :
                 (Process(log) \/ EnqueueFails(log)) /\ txs' = Enqueued(log)
BY DEF Listen, Start, Initialize, Poll, ReadBalance, ReadFails, SubtractReserved,
       Check, Simulate, Process, EnqueueFails, FinishRound, Update, UpdateFails, Crash

LEMMA EnqueuedTxs ==
    ASSUME TypeInv, NEW log
    PROVE  /\ DOMAIN Enqueued(log) = DOMAIN txs \union {Len(txs) + 1}
           /\ Len(txs) + 1 \notin DOMAIN txs
           /\ \A i \in DOMAIN txs : Enqueued(log)[i] = txs[i]
           /\ Enqueued(log)[Len(txs) + 1].log = log
           /\ Enqueued(log)[Len(txs) + 1].state = "unstarted"
<1>1. txs \in Seq(Txs)
    BY DEF TypeInv
<1> DEFINE u == Tx(log, "unstarted", -1)
<1>2. u.log = log /\ u.state = "unstarted"
    BY DEF Tx
<1>3. Enqueued(log) = Append(txs, u)
    BY DEF Enqueued
<1> HIDE DEF u
<1>4. /\ Len(Append(txs, u)) = Len(txs) + 1 /\ Len(txs) \in Nat
      /\ DOMAIN txs = 1..Len(txs) /\ DOMAIN Append(txs, u) = 1..(Len(txs) + 1)
      /\ \A i \in 1..Len(txs) : Append(txs, u)[i] = txs[i]
      /\ Append(txs, u)[Len(txs) + 1] = u
    BY <1>1
<1>5. 1..(Len(txs) + 1) = (1..Len(txs)) \union {Len(txs) + 1}
    BY <1>4
<1> QED BY <1>2, <1>3, <1>4, <1>5

\* Appending keeps the transactions there are.
LEMMA TxsStay ==
    ASSUME TypeInv, Listen \/ Crash
    PROVE  /\ DOMAIN txs \subseteq DOMAIN txs'
           /\ \A i \in DOMAIN txs : txs'[i] = txs[i]
BY ListenerAppends, EnqueuedTxs

LEMMA AnswersListener ==
    ASSUME TypeInv, AnswersHaveTxs, Listen \/ Crash
    PROVE  AnswersHaveTxs'
BY ListenerKeepsChain, TxsStay DEF AnswersHaveTxs, IsAnswered, IsMined, Log, chain

-----------------------------------------------------------------------------
(* The branch replaced last may come back.                                 *)

LEMMA ReplacedInit == Init => ReplacedInv
BY DEF Init, ReplacedInv

\* What a branch shares with the chain stays shared by what is new above the fork.
LEMMA SharedStays ==
    ASSUME NEW fork \in Nat, NEW one, NEW other, NEW next,
           one.number \in Int, next.number \in Int,
           Shared(fork, one, other),
           next = other \/ (other = NoBlock /\ next.number > fork)
    PROVE  Shared(fork, one, next)
BY DEF Shared

\* A branch that fits goes on fitting as the chain grows.
LEMMA FitsOn ==
    ASSUME TypeInv, TypeInv', NEW b, IsBranch(b), Fits(b), LogsHaveBlocks, ChainStep,
           head <= head', reorgs <= reorgs',
           \A r \in Requests : /\ Shared(b.fork, b.asked[r], asked'[r])
                               /\ Shared(b.fork, b.answered[r], answered'[r])
    PROVE  Fits(b)'
<1>1. DOMAIN txs' = DOMAIN txs /\ \A i \in DOMAIN txs : txs'[i].log = txs[i].log
    BY LogsStepChain
<1>2. PICK h, h2, e, e2 \in Nat : h = head /\ h2 = head' /\ e = reorgs /\ e2 = reorgs'
    BY DEF TypeInv
<1>3. b.fork \in Nat /\ b.head \in Nat
    BY DEF IsBranch
<1>4. /\ b.fork < h /\ b.fork <= b.head /\ b.head <= h
      /\ \A r \in Requests :
            /\ b.asked[r] # NoBlock => b.asked[r].number \in 0..b.head /\ b.asked[r].epoch <= e
            /\ b.answered[r] # NoBlock =>
                  /\ b.asked[r] # NoBlock
                  /\ b.asked[r].number <= b.answered[r].number
                  /\ b.answered[r].number <= b.head
                  /\ \E i \in DOMAIN txs :
                        /\ i \in DOMAIN b.mined /\ b.mined[i] = b.answered[r].number
                        /\ txs[i].log = [req |-> r, block |-> b.asked[r]]
    BY <1>2 DEF Fits
<1>5. b.fork < h2 /\ b.head <= h2
    BY <1>2, <1>3, <1>4
<1>6. \A r \in Requests : b.asked[r] # NoBlock => b.asked[r].epoch <= e2
    <2> SUFFICES ASSUME NEW r \in Requests, b.asked[r] # NoBlock
                 PROVE  b.asked[r].epoch <= e2
        OBVIOUS
    <2>1. b.asked[r].epoch \in Nat
        BY DEF IsBranch, Blocks
    <2>2. b.asked[r].epoch <= e
        BY <1>4
    <2>3. e <= e2
        BY <1>2
    <2> QED BY <1>2, <2>1, <2>2, <2>3
<1> QED BY <1>1, <1>2, <1>4, <1>5, <1>6 DEF Fits

LEMMA ReplacedChain ==
    ASSUME TypeInv, BlocksInOrder, LogsHaveBlocks, AnswersHaveTxs, ReplacedInv, ChainStep
    PROVE  ReplacedInv'
<1> SUFFICES ASSUME NEW b \in replaced' PROVE Fits(b)'
    BY DEF ReplacedInv
<1>1. TypeInv' /\ head <= head' /\ head \in Nat /\ IsBranch(b)
    BY TypeChain, FinalGrows DEF TypeInv
<1>2. b.fork \in Nat
    BY <1>1 DEF IsBranch
<1>3. \A r \in Requests : /\ b.asked[r].number \in Int /\ b.answered[r].number \in Int
                           /\ asked'[r].number \in Int /\ answered'[r].number \in Int
    <2>1. \A r \in Requests : /\ b.asked[r] \in Blocks /\ b.answered[r] \in Blocks
                               /\ asked'[r] \in Blocks /\ answered'[r] \in Blocks
        BY <1>1 DEF IsBranch, TypeInv
    <2> QED BY <2>1 DEF Blocks
<1>4. ASSUME UNCHANGED <<reorgs, replaced>>,
             \A r \in Requests :
                 /\ asked'[r] = asked[r]
                       \/ (asked[r] = NoBlock /\ asked'[r].number >= head)
                 /\ answered'[r] = answered[r]
                       \/ (answered[r] = NoBlock /\ answered'[r].number >= head)
      PROVE  Fits(b)'
    <2>1. Fits(b)
        BY <1>4 DEF ReplacedInv
    <2>2. b.fork < head
        BY <2>1 DEF Fits
    <2>3. \A r \in Requests : /\ Shared(b.fork, b.asked[r], asked'[r])
                               /\ Shared(b.fork, b.answered[r], answered'[r])
        <3> SUFFICES ASSUME NEW r \in Requests
                     PROVE  /\ Shared(b.fork, b.asked[r], asked'[r])
                            /\ Shared(b.fork, b.answered[r], answered'[r])
            OBVIOUS
        <3>1. Shared(b.fork, b.asked[r], asked[r]) /\ Shared(b.fork, b.answered[r], answered[r])
            BY <2>1 DEF Fits
        <3>2. asked'[r] = asked[r] \/ (asked[r] = NoBlock /\ asked'[r].number > b.fork)
            BY <1>1, <1>2, <1>3, <1>4, <2>2
        <3>3. answered'[r] = answered[r]
                  \/ (answered[r] = NoBlock /\ answered'[r].number > b.fork)
            BY <1>1, <1>2, <1>3, <1>4, <2>2
        <3>4. Shared(b.fork, b.asked[r], asked'[r])
            BY <1>2, <1>3, <3>1, <3>2, SharedStays
        <3>5. Shared(b.fork, b.answered[r], answered'[r])
            BY <1>2, <1>3, <3>1, <3>3, SharedStays
        <3> QED BY <3>4, <3>5
    <2>4. reorgs <= reorgs'
        BY <1>4 DEF TypeInv
    <2> QED BY <1>1, <2>1, <2>3, <2>4, FitsOn
<1>5. ASSUME NEW asks \in SUBSET Requests, NewBlock(asks)
      PROVE  Fits(b)'
    <2>1. UNCHANGED <<reorgs, replaced, answered>>
        BY <1>5 DEF NewBlock, branches
    <2>2. ASSUME NEW r \in Requests
          PROVE  asked'[r] = asked[r] \/ (asked[r] = NoBlock /\ asked'[r].number >= head)
        <3>1. CASE r \in asks
            <4>1. asked'[r].number = head + 1 /\ asked[r] = NoBlock
                BY <1>5, <3>1 DEF NewBlock, IsAsked
            <4> QED BY <1>1, <4>1
        <3>2. CASE r \notin asks
            BY <1>5, <3>2 DEF NewBlock
        <3> QED BY <3>1, <3>2
    <2> QED BY <1>4, <2>1, <2>2
<1>6. ASSUME NEW i \in DOMAIN txs, NEW payment \in Payments, Mine(i, payment)
      PROVE  Fits(b)'
    <2>1. UNCHANGED <<reorgs, replaced, asked>>
        BY <1>6 DEF Mine, branches
    <2>2. ASSUME NEW r \in Requests
          PROVE  answered'[r] = answered[r]
                    \/ (answered[r] = NoBlock /\ answered'[r].number >= head)
        <3>1. NextNumber >= head
            BY HeadGrows
        <3>2. answered'[r] # answered[r] =>
                  /\ answered'[r] = [number |-> NextNumber, epoch |-> reorgs]
                  /\ answered[r] = NoBlock
            BY <1>6 DEF Mine, IsAnswered, TypeInv
        <3> QED BY <3>1, <3>2
    <2> QED BY <1>4, <2>1, <2>2
<1>7. ASSUME NEW base \in Bases,
             NEW moved \in [Requests -> 0..(head + 1 - base.head)],
             Reorg(base, moved)
      PROVE  Fits(b)'
    <2>1. b = Branch(base.fork, head) /\ reorgs' = reorgs + 1
        BY <1>7 DEF Reorg
    <2>2. base.fork \in Nat /\ base.fork < head /\ base.head \in Nat /\ base.fork <= base.head
        BY BasesFit DEF Fits
    <2>3. Fits(b) /\ b.fork = base.fork
        BY <1>1, <2>1, <2>2, BranchFits, BranchType
    <2>4. \A r \in Requests : /\ Shared(b.fork, b.asked[r], asked'[r])
                               /\ Shared(b.fork, b.answered[r], answered'[r])
        <3> SUFFICES ASSUME NEW r \in Requests
                     PROVE  /\ Shared(b.fork, b.asked[r], asked'[r])
                            /\ Shared(b.fork, b.answered[r], answered'[r])
            OBVIOUS
        <3>1. Shared(b.fork, b.asked[r], asked[r]) /\ Shared(b.fork, b.answered[r], answered[r])
            BY <2>3 DEF Fits
        <3>2. /\ Shared(b.fork, base.asked[r], asked[r])
              /\ Shared(b.fork, base.answered[r], answered[r])
            BY <2>3, BasesFit DEF Fits
        <3>3. answered'[r] = base.answered[r]
            BY <1>7, ReorgMoves
        <3>4. asked'[r] = base.asked[r]
                  \/ (base.asked[r] = NoBlock /\ asked'[r].number > b.fork)
            <4>1. asked'[r].number > base.head => asked'[r].number > b.fork
                BY <1>3, <2>2, <2>3
            <4> QED BY <1>7, <4>1, ReorgMoves
        <3>5. Shared(b.fork, b.answered[r], answered'[r])
            BY <3>1, <3>2, <3>3 DEF Shared
        <3>6. Shared(b.fork, b.asked[r], base.asked[r])
            BY <3>1, <3>2 DEF Shared
        <3>7. Shared(b.fork, b.asked[r], asked'[r])
            BY <1>2, <1>3, <3>4, <3>6, SharedStays
        <3> QED BY <3>5, <3>7
    <2>5. reorgs <= reorgs'
        BY <2>1 DEF TypeInv
    <2> QED BY <1>1, <2>3, <2>4, <2>5, FitsOn
<1>8. ASSUME NEW x, TopUp(x) \/ Spend(x) \/ GrowOld(x) \/ Broadcast(x)
      PROVE  Fits(b)'
    <2>1. UNCHANGED <<reorgs, replaced, asked, answered>>
        BY <1>8 DEF TopUp, Spend, GrowOld, Broadcast, chain, branches
    <2> QED BY <1>4, <2>1
<1> QED BY <1>5, <1>6, <1>7, <1>8 DEF ChainStep, Grow, Send, MineAny

LEMMA ReplacedListener ==
    ASSUME TypeInv, ReplacedInv, Listen \/ Crash
    PROVE  ReplacedInv'
<1>1. UNCHANGED <<head, reorgs, asked, answered, replaced>>
    BY ListenerKeepsChain DEF chain, branches
<1>2. DOMAIN txs \subseteq DOMAIN txs' /\ \A i \in DOMAIN txs : txs'[i] = txs[i]
    BY TxsStay
<1>3. ASSUME NEW b, Fits(b)
      PROVE  Fits(b)'
    BY <1>1, <1>2, <1>3 DEF Fits
<1> QED BY <1>1, <1>3 DEF ReplacedInv

-----------------------------------------------------------------------------
(* What the cache hides is old, of an invalid consumer or a branch that    *)
(* came back, or has a transaction that has not failed.                    *)

Live(log) ==
    \/ log.req \in old \/ InvalidConsumer(log)
    \/ \E i \in DOMAIN txs : txs[i].log = log /\ txs[i].state # "fatal"

HiddenAreLive ==
    \A log \in inflight \union processed :
        Current(log) /\ log \notin returned => Live(log)

LEMMA HiddenInit == Init => HiddenAreLive
BY DEF Init, HiddenAreLive

\* A current log without a commitment at a later height has been answered.
LEMMA UncommittedIsAnswered ==
    ASSUME TypeInv, NEW log \in Logs, log.block # NoBlock, Current(log),
           NEW height \in Int, height >= log.block.number, ~Committed(log.req, height)
    PROVE  log.req \in Requests /\ IsAnswered(log.req)
BY DEF Logs, Current, Committed, IsAsked

LEMMA AnsweredIsLive ==
    ASSUME TypeInv, AnswersHaveTxs, NEW log \in Logs, Current(log), IsAnswered(log.req)
    PROVE  \E i \in DOMAIN txs : txs[i].log = log /\ txs[i].state = "mined"
<1>1. log.req \in Requests /\ log = Log(log.req)
    BY CurrentIsLog DEF Logs
<1> QED BY <1>1 DEF AnswersHaveTxs, IsMined

\* The one transaction that fails for good leaves the one that answered.
LEMMA FatalLeavesAnswer ==
    ASSUME TypeInv, LogsHaveBlocks, AnswersHaveTxs, NEW i \in DOMAIN txs, Broadcast(i),
           NEW log \in Logs, Current(log),
           \E j \in DOMAIN txs : txs[j].log = log /\ txs[j].state # "fatal"
    PROVE  \E j \in DOMAIN txs' : txs'[j].log = log /\ txs'[j].state # "fatal"
<1> DEFINE height == Max2(txs[i].log.block.number, head - CheckLag)
           st == IF Committed(txs[i].log.req, height) THEN "sent" ELSE "fatal"
<1>1. /\ txs \in Seq(Txs) /\ txs[i] \in Txs /\ txs[i].log \in Logs
      /\ txs[i].log.block.number \in Int
    <2>1. txs \in Seq(Txs) /\ txs[i] \in Txs
        BY DEF TypeInv
    <2>2. txs[i].log \in Logs
        BY <2>1 DEF Txs
    <2> QED BY <2>1, <2>2 DEF Logs, Blocks
<1>2. height \in Int /\ height >= txs[i].log.block.number
    <2>1. head - CheckLag \in Int
        BY VrfAssumption DEF TypeInv
    <2> QED BY <1>1, <2>1 DEF Max2
<1>3. txs' = [txs EXCEPT ![i] = Tx(txs[i].log, st, -1)] /\ txs[i].state = "unstarted"
    BY DEF Broadcast
<1> HIDE DEF height
<1>4. /\ DOMAIN txs' = DOMAIN txs
      /\ \A j \in DOMAIN txs : j # i => txs'[j] = txs[j]
      /\ txs'[i].log = txs[i].log /\ txs'[i].state = st
    <2>1. Tx(txs[i].log, st, -1).log = txs[i].log /\ Tx(txs[i].log, st, -1).state = st
        BY DEF Tx
    <2> HIDE DEF st
    <2> QED BY <1>1, <1>3, <2>1
<1>5. CASE \E j \in DOMAIN txs : j # i /\ txs[j].log = log /\ txs[j].state # "fatal"
    BY <1>4, <1>5
<1>6. CASE txs[i].log = log /\ Committed(txs[i].log.req, height)
    BY <1>4, <1>6
<1>7. CASE txs[i].log = log /\ ~Committed(txs[i].log.req, height)
    <2>1. IsAnswered(log.req)
        BY <1>2, <1>7, UncommittedIsAnswered DEF LogsHaveBlocks
    <2>2. PICK j \in DOMAIN txs : txs[j].log = log /\ txs[j].state = "mined"
        BY <2>1, AnsweredIsLive
    <2> QED BY <1>3, <1>5, <2>2
<1> QED BY <1>5, <1>6, <1>7

LEMMA CodelessStay ==
    ASSUME ChainStep
    PROVE  UNCHANGED codeless
BY DEF ChainStep, Grow, NewBlock, Send, Broadcast, MineAny, Mine, Reorg, TopUp, Spend,
       GrowOld, chain, branches

LEMMA HiddenChain ==
    ASSUME TypeInv, BlocksInOrder, LogsHaveBlocks, KnownLogs, AnswersHaveTxs, ReplacedInv,
           HiddenAreLive, ChainStep
    PROVE  HiddenAreLive'
<1> SUFFICES ASSUME NEW log \in inflight \union processed, Current(log)', log \notin returned'
             PROVE  \/ log.req \in old' \/ InvalidConsumer(log)'
                    \/ \E i \in DOMAIN txs' : txs'[i].log = log /\ txs'[i].state # "fatal"
    BY ChainKeepsListener DEF HiddenAreLive, Live, memory, round
<1>1. /\ log \in Logs /\ Current(log) /\ log \notin returned
      /\ (log.req \in old => log.req \in old')
    BY LogsReturnWithTheirBranch DEF TypeInv
<1>a. InvalidConsumer(log) => InvalidConsumer(log)'
    BY CodelessStay, ChainKeepsListener DEF InvalidConsumer, memory
<1>2. \/ log.req \in old \/ InvalidConsumer(log)
      \/ \E i \in DOMAIN txs : txs[i].log = log /\ txs[i].state # "fatal"
    BY <1>1 DEF HiddenAreLive, Live
<1>3. SUFFICES ASSUME \E i \in DOMAIN txs : txs[i].log = log /\ txs[i].state # "fatal"
               PROVE  \E i \in DOMAIN txs' : txs'[i].log = log /\ txs'[i].state # "fatal"
    BY <1>1, <1>a, <1>2
<1>4. PICK i \in DOMAIN txs : txs[i].log = log /\ txs[i].state # "fatal"
    BY <1>3
<1>5. DOMAIN txs' = DOMAIN txs /\ \A j \in DOMAIN txs : txs'[j].log = txs[j].log
    BY LogsStepChain
<1>6. ASSUME NEW k \in DOMAIN txs, NEW payment, Mine(k, payment)
      PROVE  txs'[i].state # "fatal"
    BY <1>4, <1>6 DEF Mine, Tx, TypeInv
<1>7. ASSUME NEW base, NEW moved, Reorg(base, moved)
      PROVE  txs'[i].state # "fatal"
    BY <1>4, <1>7 DEF Reorg, Tx
<1>8. ASSUME NEW x, NewBlock(x) \/ TopUp(x) \/ Spend(x) \/ GrowOld(x)
      PROVE  txs' = txs
    BY <1>8 DEF NewBlock, TopUp, Spend, GrowOld
<1>9. ASSUME NEW k \in DOMAIN txs, Broadcast(k)
      PROVE  \E j \in DOMAIN txs' : txs'[j].log = log /\ txs'[j].state # "fatal"
    BY <1>1, <1>3, <1>9, FatalLeavesAnswer
<1> QED BY <1>4, <1>5, <1>6, <1>7, <1>8, <1>9 DEF ChainStep, Grow, Send, MineAny

\* No call of the listener but the node's end lets a log out of sight.
LEMMA HiddenStay ==
    ASSUME RoundInv, Listen
    PROVE  inflight \union processed \subseteq inflight' \union processed'
<1> USE DEF RoundInv, memory, round, Idle
<1>1. CASE Start \/ Initialize \/ Poll \/ ReadBalance \/ ReadFails \/ SubtractReserved
    BY <1>1 DEF Start, Initialize, Poll, ReadBalance, ReadFails, SubtractReserved
<1>2. CASE FinishRound \/ Update \/ UpdateFails
    BY <1>2 DEF FinishRound, Kept, Update, UpdateFails
<1>a. ASSUME NEW failing \in SUBSET pending, Check(failing) \/ Simulate(failing)
      PROVE  inflight \union processed \subseteq inflight' \union processed'
    BY <1>a DEF Check, Simulate
<1>3. ASSUME NEW log \in pending, Process(log) \/ EnqueueFails(log)
      PROVE  inflight \union processed \subseteq inflight' \union processed'
    BY <1>3 DEF Process, EnqueueFails
<1> QED BY <1>1, <1>2, <1>a, <1>3 DEF Listen

\* The latest block seen only rises in a life of the node.
LEMMA HeadSeenGrows ==
    ASSUME TypeInv, Listen
    PROVE  latestHead' \in Nat /\ latestHead' >= latestHead
<1>1. CASE Poll
    BY <1>1 DEF Poll, Max2, TypeInv
<1>2. CASE UNCHANGED latestHead
    BY <1>2 DEF TypeInv
<1> QED BY <1>1, <1>2 DEF Listen, Start, Initialize, ReadBalance, ReadFails,
           SubtractReserved, Check, Simulate, Process, EnqueueFails, FinishRound, Update,
           UpdateFails, memory

LEMMA HiddenListener ==
    ASSUME TypeInv, BlocksInOrder, LogsHaveBlocks, RoundInv, AnswersHaveTxs,
           HiddenAreLive, Listen \/ Crash
    PROVE  HiddenAreLive'
<1>0. CASE Crash
    BY <1>0 DEF Crash, Forgotten, Idle, HiddenAreLive
<1> SUFFICES ASSUME Listen PROVE HiddenAreLive'
    BY <1>0
<1>1. /\ UNCHANGED <<asked, old, codeless, returned>>
      /\ \A log : Current(log)' <=> Current(log)
    BY ListenerKeepsChain DEF chain, branches, Current
<1>a. ASSUME NEW log \in Logs, InvalidConsumer(log)
      PROVE  InvalidConsumer(log)'
    <2>1. log.block.number \in Int
        BY DEF Logs, Blocks
    <2>2. latestHead' \in Nat /\ latestHead' >= latestHead /\ latestHead \in Nat
        BY HeadSeenGrows DEF TypeInv
    <2>3. PICK n, h, h2, d \in Int : /\ n = log.block.number /\ h = latestHead
                                     /\ h2 = latestHead' /\ d = FinalityDepth
        BY <2>1, <2>2, VrfAssumption
    <2>4. log.req \in codeless /\ h - n > d
        BY <1>a, <2>3 DEF InvalidConsumer
    <2>5. h2 - n > d
        BY <2>2, <2>3, <2>4
    <2> QED BY <1>1, <2>3, <2>4, <2>5 DEF InvalidConsumer
<1>2. \A log \in Logs : Live(log) => Live(log)'
    BY <1>1, <1>a, TxsStay DEF Live
<1>b. inflight' \union processed' \subseteq Logs
    BY TypeListen DEF TypeInv
<1> SUFFICES ASSUME NEW log \in inflight' \union processed', log \notin inflight \union processed,
                    Current(log), log \notin returned
             PROVE  Live(log)'
    BY <1>1, <1>2, <1>b DEF HiddenAreLive
<1>3. ASSUME NEW failing \in SUBSET pending, Check(failing)
      PROVE  Live(log)'
    <2>1. log \in pending /\ log \in Logs /\ log.block # NoBlock
        BY <1>3 DEF Check, memory, TypeInv, LogsHaveBlocks
    <2>2. PICK height \in Int :
              /\ height >= log.block.number
              /\ log.req \in old \/ ~Committed(log.req, height)
        <3>1. log.block.number \in Int /\ latestHead - CheckLag \in Int
            BY <2>1, VrfAssumption DEF TypeInv, Logs, Blocks
        <3>2. log.req \in old \/ ~Committed(log.req, Max2(log.block.number, latestHead - CheckLag))
            BY <1>3 DEF Check, memory
        <3>3. PICK a, b \in Int : a = log.block.number /\ b = latestHead - CheckLag
            BY <3>1
        <3>4. Max2(a, b) \in Int /\ Max2(a, b) >= a
            BY <3>3 DEF Max2
        <3> QED BY <3>2, <3>3, <3>4
    <2>3. CASE log.req \in old
        BY <1>2, <2>1, <2>3 DEF Live
    <2>4. CASE ~Committed(log.req, height)
        <3>1. IsAnswered(log.req)
            BY <2>1, <2>2, <2>4, UncommittedIsAnswered
        <3>2. Live(log)
            BY <2>1, <3>1, AnsweredIsLive DEF Live
        <3> QED BY <1>2, <2>1, <3>2
    <2> QED BY <2>2, <2>3, <2>4
<1>4. ASSUME NEW l \in pending, Process(l) \/ EnqueueFails(l)
      PROVE  Live(log)'
    <2>1. /\ log = l /\ Process(l)
          /\ step = "enqueue"
          /\ outcomes[l] = "stale" \/ InvalidConsumer(l) \/ txs' = Enqueued(l)
        BY <1>4 DEF Process, EnqueueFails, memory
    <2>2. CASE InvalidConsumer(l)
        BY <1>b, <1>2, <2>1, <2>2 DEF Live
    <2>3. CASE txs' = Enqueued(l)
        <3>1. /\ Len(txs) + 1 \in DOMAIN txs' /\ txs'[Len(txs) + 1].log = l
              /\ txs'[Len(txs) + 1].state = "unstarted"
            BY <2>3, EnqueuedTxs
        <3> QED BY <2>1, <3>1 DEF Live
    <2> QED BY <2>1, <2>2, <2>3 DEF RoundInv
<1>5. CASE Start \/ Initialize \/ Poll \/ ReadBalance \/ ReadFails \/ SubtractReserved
    BY <1>5 DEF Start, Initialize, Poll, ReadBalance, ReadFails, SubtractReserved,
                memory, round
<1>6. CASE FinishRound \/ Update \/ UpdateFails
    BY <1>6 DEF FinishRound, Kept, Update, UpdateFails, Idle, memory
<1>7. ASSUME NEW failing \in SUBSET pending, Simulate(failing)
      PROVE  Live(log)'
    BY <1>7 DEF Simulate, memory
<1> QED BY <1>3, <1>4, <1>5, <1>6, <1>7 DEF Listen

-----------------------------------------------------------------------------
(* A log is sent once in each life of the node, and failure to enqueue it. *)

Sent(log) == { i \in DOMAIN txs : txs[i].log = log }
Hidden(log) == IF log \in inflight \union processed THEN 1 ELSE 0

SentInv ==
    \A log \in Logs : Cardinality(Sent(log)) <= crashes + failures + Hidden(log)

LEMMA SentIsFinite ==
    ASSUME TypeInv, NEW log
    PROVE  IsFiniteSet(Sent(log)) /\ Cardinality(Sent(log)) \in Nat
<1>1. DOMAIN txs = 1..Len(txs) /\ Len(txs) \in Nat
    BY DEF TypeInv
<1>2. IsFiniteSet(1..Len(txs))
    BY <1>1, FS_Interval
<1>3. IsFiniteSet(Sent(log))
    BY <1>1, <1>2, FS_Subset DEF Sent
<1> QED BY <1>3, FS_CardinalityType

LEMMA SentInit == Init => SentInv
<1> SUFFICES ASSUME Init, NEW log \in Logs
             PROVE  Cardinality(Sent(log)) <= crashes + failures + Hidden(log)
    BY DEF SentInv
<1>1. Sent(log) = {}
    BY DEF Init, Sent
<1> QED BY <1>1, FS_EmptySet DEF Init, Hidden

LEMMA SentChain ==
    ASSUME TypeInv, LogsHaveBlocks, SentInv, ChainStep
    PROVE  SentInv'
<1>1. \A log : Sent(log)' = Sent(log)
    BY LogsStepChain DEF Sent
<1>2. \A log : Hidden(log)' = Hidden(log)
    BY ChainKeepsListener DEF Hidden, memory, round
<1>3. crashes' = crashes /\ failures' = failures
    BY ChainKeepsListener DEF node
<1> QED BY <1>1, <1>2, <1>3 DEF SentInv

LEMMA SentListener ==
    ASSUME TypeInv, RoundInv, SentInv, Listen \/ Crash
    PROVE  SentInv'
<1> SUFFICES ASSUME NEW log \in Logs
             PROVE  Cardinality(Sent(log)') <= crashes' + failures' + Hidden(log)'
    BY DEF SentInv
<1>1. PICK n, c, f \in Nat : n = Cardinality(Sent(log)) /\ c = crashes /\ f = failures
    BY SentIsFinite DEF TypeInv
<1>2. n <= c + f + Hidden(log) /\ Hidden(log) \in 0..1 /\ Hidden(log)' \in 0..1
    BY <1>1 DEF SentInv, Hidden
<1>3. CASE Crash
    <2>1. txs' = txs /\ crashes' = crashes + 1 /\ failures' = failures
        BY <1>3 DEF Crash
    <2>2. Sent(log)' = Sent(log)
        BY <2>1 DEF Sent
    <2> QED BY <1>1, <1>2, <2>1, <2>2
<1>4. CASE Listen /\ UNCHANGED txs
    <2>1. Sent(log)' = Sent(log)
        BY <1>4 DEF Sent
    <2>2. crashes' = crashes /\ failures' \in {failures, failures + 1}
        BY <1>4 DEF Listen, Start, Initialize, Poll, ReadBalance, ReadFails,
                    SubtractReserved, Check, Simulate, Process, EnqueueFails, FinishRound,
                    Update, UpdateFails, node
    <2>3. Hidden(log) = 1 => Hidden(log)' = 1
        BY <1>4, HiddenStay DEF Hidden
    <2>4. PICK h, h2 \in 0..1 : h = Hidden(log) /\ h2 = Hidden(log)'
        BY <1>2
    <2> QED BY <1>1, <1>2, <2>1, <2>2, <2>3, <2>4
<1>5. ASSUME NEW l \in pending, Process(l) \/ EnqueueFails(l), txs' = Enqueued(l), txs' # txs
      PROVE  Cardinality(Sent(log)') <= crashes' + failures' + Hidden(log)'
    <2>1. /\ crashes' = crashes /\ UNCHANGED inflight
          /\ \/ failures' = failures /\ processed' = processed \union {l}
             \/ failures' = failures + 1 /\ processed' = processed
        BY <1>5 DEF Process, EnqueueFails, node, memory
    <2>2. Sent(log)' = IF log = l THEN Sent(log) \union {Len(txs) + 1} ELSE Sent(log)
        BY <1>5, EnqueuedTxs DEF Sent
    <2>3. CASE log = l
        <3>1. Hidden(log) = 0 /\ (failures' = failures => Hidden(log)' = 1)
            BY <2>1, <2>3 DEF Hidden, RoundInv, TypeInv
        <3>2. Len(txs) + 1 \notin Sent(log)
            BY EnqueuedTxs DEF Sent
        <3>3. Cardinality(Sent(log) \union {Len(txs) + 1}) = Cardinality(Sent(log)) + 1
            BY <3>2, SentIsFinite, FS_AddElement
        <3>4. Cardinality(Sent(log)') = n + 1
            BY <1>1, <2>2, <2>3, <3>3
        <3> QED BY <1>1, <1>2, <2>1, <3>1, <3>4
    <2>4. CASE log # l
        <3>1. Hidden(log)' = Hidden(log)
            BY <2>1, <2>4 DEF Hidden
        <3> QED BY <1>1, <1>2, <2>1, <2>2, <2>4, <3>1
    <2> QED BY <2>3, <2>4
<1> QED BY <1>3, <1>4, <1>5, ListenerAppends

-----------------------------------------------------------------------------
(* The theorems.                                                           *)

IInv ==
    /\ TypeInv /\ BlocksInOrder /\ LogsHaveBlocks /\ WindowInv
    /\ KnownLogs /\ RoundInv /\ AnswersHaveTxs /\ ReplacedInv /\ HiddenAreLive /\ SentInv

LEMMA WindowInit == Init => WindowInv
<1> SUFFICES ASSUME Init PROVE WindowInv
    OBVIOUS
<1>1. Final \in Nat
    BY TypeInit, HeadGrows
<1> QED BY <1>1 DEF Init, WindowInv, NoRequestIsSkipped

\* Nothing changes in a stuttering step.
LEMMA Stutter ==
    ASSUME IInv, UNCHANGED vars
    PROVE  IInv'
<1>1. UNCHANGED <<head, reorgs, asked, answered, old, codeless, replaced, returned, txs,
                  crashes, failures, step, lastProcessed, latestHead, inflight, pending,
                  outcomes, processed>>
    BY DEF vars, chain, branches, node, memory, round
<1>2. /\ TypeInv' /\ BlocksInOrder' /\ LogsHaveBlocks'
    BY <1>1 DEF IInv, TypeInv, BlocksInOrder, LogsHaveBlocks, IsAsked, IsAnswered
<1>a. ReplacedInv'
    BY <1>1 DEF IInv, ReplacedInv, Fits
<1>3. WindowInv'
    BY <1>1 DEF IInv, WindowInv, NoRequestIsSkipped, Final, IsAsked, IsAnswered
<1>4. KnownLogs' /\ RoundInv'
    BY <1>1 DEF IInv, KnownLogs, RoundInv, Current
<1>5. AnswersHaveTxs' /\ HiddenAreLive'
    BY <1>1 DEF IInv, AnswersHaveTxs, HiddenAreLive, Live, InvalidConsumer, IsMined,
                IsAnswered, Log, Current
<1>6. \A log : Sent(log)' = Sent(log) /\ Hidden(log)' = Hidden(log)
    BY <1>1 DEF Sent, Hidden
<1>7. SentInv'
    BY <1>1, <1>6 DEF IInv, SentInv
<1> QED BY <1>2, <1>a, <1>3, <1>4, <1>5, <1>7 DEF IInv

LEMMA IInvHolds == Spec => []IInv
<1>1. Init => IInv
    BY TypeInit, LogsInit, WindowInit, RoundInit, AnswersInit, ReplacedInit, HiddenInit,
       SentInit DEF IInv
<1>2. ASSUME IInv, ChainStep
      PROVE  IInv'
    <2>1. TypeInv' /\ BlocksInOrder' /\ LogsHaveBlocks' /\ WindowInv'
        BY <1>2, TypeChain, BlocksStep, LogsStepChain, WindowChain DEF IInv
    <2>2. KnownLogs' /\ RoundInv' /\ AnswersHaveTxs'
        BY <1>2, RoundChain, AnswersChain DEF IInv
    <2>a. ReplacedInv'
        BY <1>2, ReplacedChain DEF IInv
    <2>3. HiddenAreLive' /\ SentInv'
        BY <1>2, HiddenChain, SentChain DEF IInv
    <2> QED BY <2>1, <2>2, <2>a, <2>3 DEF IInv
<1>3. ASSUME IInv, Listen \/ Crash
      PROVE  IInv'
    <2>1. BlocksInOrder'
        BY <1>3, ListenerKeepsChain DEF IInv, BlocksInOrder, IsAsked, IsAnswered, chain
    <2>2. TypeInv' /\ LogsHaveBlocks' /\ WindowInv'
        BY <1>3, TypeListen, LogsStepListener, WindowListener DEF IInv
    <2>3. KnownLogs' /\ RoundInv' /\ AnswersHaveTxs'
        BY <1>3, RoundListener, AnswersListener DEF IInv
    <2>a. ReplacedInv'
        BY <1>3, ReplacedListener DEF IInv
    <2>4. HiddenAreLive' /\ SentInv'
        BY <1>3, HiddenListener, SentListener DEF IInv
    <2> QED BY <2>1, <2>2, <2>3, <2>a, <2>4 DEF IInv
<1>4. IInv /\ [Next]_vars => IInv'
    BY <1>2, <1>3, Stutter, NextIsChainOrListener
<1> QED BY <1>1, <1>4, PTL DEF Spec

\* The polling window never starts behind a request that may still need an answer,
\* through any number of reorganisations and crashes (listener_v2_log_listener.go
\* 105-221).
THEOREM WindowCoversRequests == Spec => []NoRequestIsSkipped
<1>1. IInv => NoRequestIsSkipped
    BY DEF IInv, WindowInv
<1> QED BY <1>1, IInvHolds, PTL

\* A request hidden from polling is answered, too old, has a transaction on its way or
\* one that was mined and reverted, or is of the two kinds that stay hidden for good: its
\* consumer is no contract and its block is final, or its block was replaced and came
\* back (listener_v2_log_processor.go 111-126, 733-739, 766-777).
THEOREM HiddenRequestsAreLive == Spec => []InflightIsLive
<1>1. ASSUME IInv, NEW r \in Requests, Log(r) \in inflight
      PROVE  \/ IsAnswered(r) \/ r \in old \/ Reverted(Log(r))
             \/ \E i \in DOMAIN txs : IsOpen(txs[i]) /\ txs[i].log = Log(r)
             \/ InvalidConsumer(Log(r)) \/ Log(r) \in returned
    <2>1. Log(r).req = r /\ Current(Log(r))
        BY <1>1, LogType DEF IInv, Current
    <2>2. CASE r \in old \/ InvalidConsumer(Log(r)) \/ Log(r) \in returned
        BY <2>2
    <2>3. CASE \E i \in DOMAIN txs : txs[i].log = Log(r) /\ txs[i].state # "fatal"
        <3>1. PICK i \in DOMAIN txs : txs[i].log = Log(r) /\ txs[i].state # "fatal"
            BY <2>3
        <3>2. txs[i] \in Txs
            BY <1>1 DEF IInv, TypeInv
        <3>3. txs[i].state \in {"unstarted", "sent", "mined"}
            BY <3>1, <3>2 DEF Txs, TxStates
        <3> QED BY <2>1, <3>1, <3>3 DEF IsOpen, Reverted
    <2> QED BY <1>1, <2>1, <2>2, <2>3 DEF IInv, HiddenAreLive, Live
<1>2. IInv => InflightIsLive
    BY <1>1 DEF InflightIsLive
<1> QED BY <1>2, IInvHolds, PTL

\* One log is answered by at most one transaction for each life of the node, and by one
\* more for each time the node failed to enqueue one (listener_v2_log_processor.go
\* 111-126, 784-839).
THEOREM LogsAreSentOnce == Spec => []AnswersAreSentOnce
<1>1. ASSUME IInv, NEW i \in DOMAIN txs
      PROVE  Cardinality({ j \in DOMAIN txs : txs[j].log = txs[i].log })
                 <= crashes + failures + 1
    <2>1. txs[i] \in Txs
        BY <1>1 DEF IInv, TypeInv
    <2>2. txs[i].log \in Logs
        BY <2>1 DEF Txs
    <2>3. Cardinality(Sent(txs[i].log)) <= crashes + failures + Hidden(txs[i].log)
        BY <1>1, <2>2 DEF IInv, SentInv
    <2>4. PICK n, c, f \in Nat : /\ n = Cardinality(Sent(txs[i].log))
                                /\ c = crashes /\ f = failures
        BY <1>1, SentIsFinite DEF IInv, TypeInv
    <2>5. n <= c + f + 1
        BY <2>3, <2>4 DEF Hidden
    <2> QED BY <2>4, <2>5 DEF Sent
<1>2. IInv => AnswersAreSentOnce
    BY <1>1 DEF AnswersAreSentOnce
<1> QED BY <1>2, IInvHolds, PTL

\* A request that needs an answer and has none on its way: its consumer may be valid, and
\* its block is not one that came back after another had its place.
Waits(r) ==
    /\ IsAsked(r) /\ ~IsAnswered(r) /\ r \notin old
    /\ ~InvalidConsumer(Log(r)) /\ Log(r) \notin returned
    /\ ~Reverted(Log(r))
    /\ ~\E i \in DOMAIN txs : IsOpen(txs[i]) /\ txs[i].log = Log(r)

\* A poll finds every request that waits and has its confirmations: neither the start
\* of the window nor the cache, kept by different parts of the listener at different
\* times, ever stands in its way (listener_v2_log_listener.go 105-268, 327-398,
\* listener_v2_log_processor.go 111-126).
THEOREM PollsFindWhatWaits ==
    Spec => [][Poll => \A r \in Requests :
                  Waits(r) /\ ConfirmedAt(r, respCount') <= latestHead'
                      => Log(r) \in pending']_vars
<1>1. ASSUME IInv, NoRequestIsSkipped, InflightIsLive, Poll, NEW r \in Requests, Waits(r),
             ConfirmedAt(r, respCount') <= latestHead'
      PROVE  Log(r) \in pending'
    <2>1. step = "poll"
        BY <1>1 DEF Poll
    <2>2. lastProcessed <= asked[r].number
        BY <1>1, <2>1 DEF NoRequestIsSkipped, Waits
    <2>3. Log(r) \notin inflight
        BY <1>1 DEF InflightIsLive, Waits
    <2>4. asked[r].number >= lastProcessed
        <3>1. lastProcessed \in Int /\ asked[r].number \in Int
            BY <1>1 DEF IInv, TypeInv, Blocks
        <3> QED BY <2>2, <3>1
    <2>5. pending' = { Log(q) : q \in { q \in Requests :
                          /\ asked[q].number >= lastProcessed /\ ~IsAnswered(q)
                          /\ Log(q) \notin inflight
                          /\ ConfirmedAt(q, respCount') <= latestHead' } }
        BY <1>1 DEF Poll, ConfirmedAt
    <2> QED BY <1>1, <2>3, <2>4, <2>5 DEF Waits
<1>2. IInv /\ NoRequestIsSkipped /\ InflightIsLive /\ [Next]_vars =>
          [Poll => \A r \in Requests :
              Waits(r) /\ ConfirmedAt(r, respCount') <= latestHead'
                  => Log(r) \in pending']_vars
    BY <1>1
<1> QED BY <1>2, IInvHolds, WindowCoversRequests, HiddenRequestsAreLive, PTL DEF Spec

=============================================================================
