---------------------------- MODULE CanvasProofs ----------------------------
(***************************************************************************)
(* The counts of painted pixels are right and the canvas grows by every    *)
(* paint, for any canvas, painters and tokens.                             *)
(***************************************************************************)
EXTENDS Canvas, DataLemmas

\* A player's pixels are finitely many.
LEMMA PaintedByIsFinite ==
    ASSUME NEW p
    PROVE  IsFiniteSet(PaintedBy(p)) /\ Cardinality(PaintedBy(p)) \in Nat
<1>1. IsFiniteSet(PaintedBy(p))
    BY CanvasAssumption, FS_Subset DEF PaintedBy
<1> QED BY <1>1, FS_CardinalityType

\* A painted pixel lowers no count below zero.
LEMMA OwnerCounts ==
    ASSUME TypeOK, PaintersCount, NEW c \in Pixels, lastPainter[c] # Nobody
    PROVE  /\ lastPainter[c] \in Painters
           /\ currentPaintedPixels[lastPainter[c]] > 0
<1> DEFINE q == lastPainter[c]
<1>1. q \in Painters
    BY DEF TypeOK
<1>2. c \in PaintedBy(q)
    BY DEF PaintedBy
<1>3. Cardinality(PaintedBy(q)) \in Nat /\ Cardinality(PaintedBy(q)) # 0
    BY <1>2, PaintedByIsFinite, FS_EmptySet
<1>4. currentPaintedPixels[q] = Cardinality(PaintedBy(q))
    BY <1>1 DEF PaintersCount
<1> QED BY <1>1, <1>3, <1>4

-----------------------------------------------------------------------------
(* Types.                                                                  *)

LEMMA RepaintedType ==
    ASSUME TypeOK, PaintersCount, NEW p \in Painters, NEW c \in Pixels
    PROVE  Repainted(p, lastPainter[c]) \in [Painters -> Nat]
<1> SUFFICES ASSUME NEW q \in Painters
             PROVE  currentPaintedPixels[q] - (IF q = lastPainter[c] THEN 1 ELSE 0)
                        + (IF q = p THEN 1 ELSE 0) \in Nat
    BY DEF Repainted
<1>1. currentPaintedPixels[q] \in Nat
    BY DEF TypeOK
<1>2. CASE q # lastPainter[c]
    BY <1>1, <1>2
<1>3. CASE q = lastPainter[c]
    <2>1. lastPainter[c] # Nobody
        BY <1>3, CanvasAssumption
    <2>2. currentPaintedPixels[q] > 0
        BY <2>1, <1>3, OwnerCounts
    <2> QED BY <1>1, <2>2
<1> QED BY <1>2, <1>3

LEMMA TypeInit == Init => TypeOK
<1> SUFFICES ASSUME Init PROVE TypeOK
    OBVIOUS
<1> QED BY CanvasAssumption DEF Init, TypeOK

LEMMA TypeStep ==
    ASSUME TypeOK, PaintersCount, [Next]_vars
    PROVE  TypeOK'
<1> USE DEF TypeOK
<1>1. ASSUME NEW p \in Painters, NEW c \in Pixels, NEW color \in Colors,
             PaintPixel(p, c, color)
      PROVE  TypeOK'
    <2>1. currentPaintedPixels' \in [Painters -> Nat]
        BY <1>1, RepaintedType DEF PaintPixel
    <2>2. canvasSize' \in Nat \ {0} /\ canvasPot' \in Nat
        BY <1>1 DEF PaintPixel, GrowCanvas
    <2>3. pixelsColor' \in [Pixels -> Colors \union {0}]
        BY <1>1 DEF PaintPixel
    <2>4. totalPaintedPixels' \in [Painters -> Nat]
        BY <1>1 DEF PaintPixel
    <2>5. lastPainter' \in [Pixels -> Painters \union {Nobody}]
        BY <1>1 DEF PaintPixel
    <2>6. UNCHANGED <<pixelsTokenId, tokenIdCoordinates, quality>>
        BY <1>1 DEF PaintPixel, claims
    <2> QED BY <2>1, <2>2, <2>3, <2>4, <2>5, <2>6
<1>2. ASSUME NEW c \in Pixels, NEW t \in Tokens, ClaimPixel(c, t)
      PROVE  TypeOK'
    BY <1>2 DEF ClaimPixel, paints
<1>3. ASSUME NEW fused \in SUBSET Tokens, RemovePixels(fused)
      PROVE  TypeOK'
    BY <1>3, CanvasAssumption DEF RemovePixels, paints
<1>4. ASSUME NEW t \in Tokens, NEW q \in Qualities, Mint(t, q)
      PROVE  TypeOK'
    BY <1>4 DEF Mint, paints, claims
<1>5. CASE UNCHANGED vars
    BY <1>5 DEF vars, paints, claims
<1> QED BY <1>1, <1>2, <1>3, <1>4, <1>5 DEF Next

-----------------------------------------------------------------------------
(* Counts.                                                                 *)

LEMMA CountInit == Init => PaintersCount
<1> SUFFICES ASSUME Init, NEW p \in Painters
             PROVE  currentPaintedPixels[p] = Cardinality(PaintedBy(p))
    BY DEF PaintersCount
<1>1. PaintedBy(p) = {}
    BY CanvasAssumption DEF Init, PaintedBy
<1> QED BY <1>1, FS_EmptySet DEF Init

\* Repainting moves one pixel from the set of the painter before to this one's.
LEMMA RepaintingCounts ==
    ASSUME TypeOK, PaintersCount,
           NEW p \in Painters, NEW c \in Pixels, NEW color \in Colors,
           PaintPixel(p, c, color)
    PROVE  PaintersCount'
<1> SUFFICES ASSUME NEW q \in Painters
             PROVE  currentPaintedPixels'[q] = Cardinality(PaintedBy(q)')
    BY DEF PaintersCount
<1> DEFINE S == PaintedBy(q)
           T == PaintedBy(q)'
<1>1. T = IF q = p THEN S \union {c} ELSE S \ {c}
    BY DEF PaintPixel, PaintedBy, TypeOK
<1>2. c \in S <=> q = lastPainter[c]
    BY DEF PaintedBy
<1>3. IsFiniteSet(S) /\ Cardinality(S) \in Nat
    BY PaintedByIsFinite
<1>4. Cardinality(S \union {c}) = IF c \in S THEN Cardinality(S) ELSE Cardinality(S) + 1
    BY <1>3, FS_AddElement
<1>5. Cardinality(S \ {c}) = IF c \in S THEN Cardinality(S) - 1 ELSE Cardinality(S)
    BY <1>3, FS_RemoveElement
<1>6. currentPaintedPixels[q] = Cardinality(S)
    BY DEF PaintersCount
<1>7. currentPaintedPixels'[q] =
          currentPaintedPixels[q] - (IF q = lastPainter[c] THEN 1 ELSE 0)
                                  + (IF q = p THEN 1 ELSE 0)
    BY DEF PaintPixel, Repainted
<1> HIDE DEF S, T
<1>8. currentPaintedPixels'[q] = Cardinality(T)
    <2>1. PICK n \in Nat : n = Cardinality(S)
        BY <1>3
    <2>2. CASE q = p
        BY <2>1, <2>2, <1>1, <1>2, <1>4, <1>6, <1>7
    <2>3. CASE q # p
        BY <2>1, <2>3, <1>1, <1>2, <1>5, <1>6, <1>7
    <2> QED BY <2>2, <2>3
<1> QED BY <1>8 DEF T

LEMMA CountStep ==
    ASSUME TypeOK, PaintersCount, [Next]_vars
    PROVE  PaintersCount'
<1>1. CASE UNCHANGED <<lastPainter, currentPaintedPixels>>
    BY <1>1 DEF PaintersCount, PaintedBy
<1>2. ASSUME NEW p \in Painters, NEW c \in Pixels, NEW color \in Colors,
             PaintPixel(p, c, color)
      PROVE  PaintersCount'
    BY <1>2, RepaintingCounts
<1> QED BY <1>1, <1>2 DEF Next, ClaimPixel, RemovePixels, Mint, vars, paints

-----------------------------------------------------------------------------
(* Growth.                                                                 *)

\* A set of n elements has 2 ^ n subsets.
LEMMA PowersOfTwo ==
    ASSUME NEW n \in Nat
    PROVE  2 ^ n \in Nat \ {0}
<1>1. IsFiniteSet(1..n) /\ Cardinality(1..n) = n
    BY FS_Interval
<1>2. IsFiniteSet(SUBSET (1..n)) /\ Cardinality(SUBSET (1..n)) = 2 ^ n
    BY <1>1, FS_SUBSET
<1>3. SUBSET (1..n) # {}
    OBVIOUS
<1> QED BY <1>2, <1>3, FS_CardinalityType, FS_EmptySet

LEMMA RequirementType ==
    ASSUME NEW size \in Nat \ {0}
    PROVE  RowRequirement(size) \in Nat \ {0}
<1>1. PICK n \in Nat : n = size - 1
    OBVIOUS
<1>2. PICK k \in Nat \ {0} : k = 2 ^ n
    BY PowersOfTwo
<1>3. baseRequirement * k \in Nat \ {0}
    BY CanvasAssumption
<1> QED BY <1>1, <1>2, <1>3 DEF RowRequirement

\* What the canvas took to reach a size.
Grown(size) ==
    SumFunctionOnSet([s \in 1..(size - 1) |-> RowRequirement(s)], 1..(size - 1))

LEMMA GrownType ==
    ASSUME NEW size \in Nat \ {0}
    PROVE  Grown(size) \in Nat
<1>1. PICK f : f = [s \in 1..(size - 1) |-> RowRequirement(s)]
    OBVIOUS
<1>2. \A s \in 1..(size - 1) : s \in Nat \ {0} /\ f[s] = RowRequirement(s)
    BY <1>1
<1>3. \A s \in 1..(size - 1) : f[s] \in Nat
    BY <1>2, RequirementType
<1>4. IsFiniteSet(1..(size - 1))
    BY FS_Interval
<1> QED BY <1>1, <1>3, <1>4, SumIsNatural DEF Grown

LEMMA GrownByOne ==
    ASSUME NEW size \in Nat \ {0}
    PROVE  Grown(size + 1) = Grown(size) + RowRequirement(size)
<1>1. PICK f, g : /\ f = [s \in 1..(size - 1) |-> RowRequirement(s)]
                  /\ g = [s \in 1..size |-> RowRequirement(s)]
    OBVIOUS
<1>2. /\ 1..size = 1..(size - 1) \union {size} /\ size \notin 1..(size - 1)
      /\ (size + 1) - 1 = size /\ size \in 1..size
    OBVIOUS
<1>3. \A s \in 1..size : s \in Nat \ {0} /\ g[s] = RowRequirement(s)
    BY <1>1
<1>4. \A s \in 1..(size - 1) : f[s] = g[s]
    BY <1>1, <1>2, <1>3
<1>5. \A s \in 1..(size - 1) \union {size} : g[s] \in Int
    BY <1>2, <1>3, RequirementType
<1>6. IsFiniteSet(1..(size - 1))
    BY FS_Interval
<1>7. SumFunctionOnSet(g, 1..(size - 1) \union {size})
          = SumFunctionOnSet(g, 1..(size - 1)) + g[size]
    BY <1>2, <1>5, <1>6, SumAdd
<1>8. SumFunctionOnSet(f, 1..(size - 1)) = SumFunctionOnSet(g, 1..(size - 1))
    BY <1>4, <1>6, SumSame
<1>9. Grown(size) = SumFunctionOnSet(f, 1..(size - 1))
    BY <1>1 DEF Grown
<1>10. Grown(size + 1) = SumFunctionOnSet(g, 1..size)
    BY <1>1, <1>2 DEF Grown
<1> QED BY <1>2, <1>3, <1>7, <1>8, <1>9, <1>10

\* The pot never holds a whole requirement, so that growing loses nothing.
GrowthInv ==
    /\ canvasPot < RowRequirement(canvasSize)
    /\ Paints = canvasPot + Grown(canvasSize)

LEMMA GrowthInit == Init => GrowthInv
<1> SUFFICES ASSUME Init PROVE GrowthInv
    OBVIOUS
<1>1. canvasSize = 1 /\ canvasPot = 0
    BY DEF Init
<1>2. canvasPot < RowRequirement(canvasSize)
    BY <1>1, RequirementType
<1>3. Grown(1) = 0
    <2>1. 1..(1 - 1) = {}
        OBVIOUS
    <2> QED BY <2>1, SumEmpty DEF Grown
<1>4. Paints = 0
    <2>1. PICK f : f = totalPaintedPixels
        OBVIOUS
    <2>2. \A p \in Painters : f[p] = 0
        BY <2>1 DEF Init
    <2>3. SumFunctionOnSet(f, Painters) = SumFunctionOnSet(f, {})
        BY <2>2, CanvasAssumption, SumMasked
    <2> QED BY <2>1, <2>3, SumEmpty DEF Paints
<1> QED BY <1>1, <1>2, <1>3, <1>4 DEF GrowthInv

LEMMA GrowthStep ==
    ASSUME TypeOK, GrowthInv, [Next]_vars
    PROVE  GrowthInv'
<1>1. CASE UNCHANGED <<canvasSize, canvasPot, totalPaintedPixels>>
    BY <1>1 DEF GrowthInv, Paints, Grown, RowRequirement
<1>2. ASSUME NEW p \in Painters, NEW c \in Pixels, NEW color \in Colors,
             PaintPixel(p, c, color)
      PROVE  GrowthInv'
    <2>1. PICK size, pot \in Nat : size = canvasSize /\ pot = canvasPot /\ size # 0
        BY DEF TypeOK
    <2>2. PICK f, g : f = totalPaintedPixels /\ g = [f EXCEPT ![p] = f[p] + 1]
        OBVIOUS
    <2>3. f \in [Painters -> Nat]
        BY <2>2 DEF TypeOK
    <2>4. PICK x, y \in Int :
              x = SumFunctionOnSet(f, Painters) /\ y = SumFunctionOnSet(g, Painters)
        <3>1. \A q \in Painters : f[q] \in Int /\ g[q] \in Int
            BY <2>2, <2>3
        <3> QED BY <3>1, CanvasAssumption, SumType
    <2>5. y = x + 1
        <3>1. /\ \A q \in Painters : f[q] \in Int /\ g[q] \in Int
              /\ \A q \in Painters \ {p} : f[q] = g[q]
              /\ g[p] = f[p] + 1
            BY <2>2, <2>3
        <3>2. y = x - f[p] + g[p]
            BY <2>4, <3>1, CanvasAssumption, SumChange
        <3> QED BY <3>1, <3>2
    <2>6. Paints = x /\ Paints' = y
        <3>1. totalPaintedPixels' = g
            BY <1>2, <2>2 DEF PaintPixel
        <3> QED BY <2>2, <2>4, <3>1 DEF Paints
    <2>7. PICK r, s \in Nat \ {0} : r = RowRequirement(size) /\ s = RowRequirement(size + 1)
        BY <2>1, RequirementType
    <2>8. PICK a \in Nat : a = Grown(size) /\ Grown(size + 1) = a + r
        BY <2>1, <2>7, GrownType, GrownByOne
    <2>9. pot < r /\ x = pot + a
        BY <2>1, <2>6, <2>7, <2>8 DEF GrowthInv
    <2>10. GrowCanvas
        BY <1>2 DEF PaintPixel
    <2>11. CASE pot + 1 >= r
        <3>1. canvasPot' = 0 /\ canvasSize' = size + 1
            BY <2>1, <2>7, <2>10, <2>11 DEF GrowCanvas
        <3>2. y = 0 + (a + r)
            BY <2>5, <2>9, <2>11
        <3>3. RowRequirement(canvasSize)' = s /\ Grown(canvasSize)' = a + r
            BY <2>7, <2>8, <3>1 DEF RowRequirement, Grown
        <3> QED BY <2>6, <2>7, <3>1, <3>2, <3>3 DEF GrowthInv
    <2>12. CASE ~(pot + 1 >= r)
        <3>1. canvasPot' = pot + 1 /\ canvasSize' = size
            BY <2>1, <2>7, <2>10, <2>12 DEF GrowCanvas
        <3>2. y = (pot + 1) + a /\ pot + 1 < r
            BY <2>5, <2>9, <2>12
        <3>3. RowRequirement(canvasSize)' = r /\ Grown(canvasSize)' = a
            BY <2>7, <2>8, <3>1 DEF RowRequirement, Grown
        <3> QED BY <2>6, <2>7, <3>1, <3>2, <3>3 DEF GrowthInv
    <2> QED BY <2>11, <2>12
<1> QED BY <1>1, <1>2 DEF Next, ClaimPixel, RemovePixels, Mint, vars, paints

-----------------------------------------------------------------------------
IInv == TypeOK /\ PaintersCount /\ GrowthInv

LEMMA IInvHolds == Spec => []IInv
<1>1. Init => IInv
    BY TypeInit, CountInit, GrowthInit DEF IInv
<1>2. IInv /\ [Next]_vars => IInv'
    BY TypeStep, CountStep, GrowthStep DEF IInv
<1> QED BY <1>1, <1>2, PTL DEF Spec

\* Every reachable state is well typed (the storage of CANVAS.sol): the count a
\* repaint lowers never leaves the naturals.
THEOREM CanvasTypeCorrect == Spec => []TypeOK
<1>1. IInv => TypeOK
    BY DEF IInv
<1> QED BY <1>1, IInvHolds, PTL

\* A player's currentPaintedPixels is the number of pixels the player painted
\* last, on a canvas of any size (CANVAS.sol 111-118).
THEOREM PaintersAreCounted == Spec => []PaintersCount
<1>1. IInv => PaintersCount
    BY DEF IInv
<1> QED BY <1>1, IInvHolds, PTL

\* A repaint never fails because of the painter before: the checked decrement of
\* that player's count cannot underflow (CANVAS.sol 112).
THEOREM RepaintNeverUnderflows ==
    Spec => [](\A c \in Pixels : lastPainter[c] # Nobody =>
                    currentPaintedPixels[lastPainter[c]] > 0)
<1>1. IInv => \A c \in Pixels : lastPainter[c] # Nobody =>
                    currentPaintedPixels[lastPainter[c]] > 0
    BY OwnerCounts DEF IInv
<1> QED BY <1>1, IInvHolds, PTL

\* Every paint counts once towards growth, whatever the size: the pot never holds a
\* whole requirement when it is emptied, so that none is lost (CANVAS.sol 190-212).
THEOREM EveryPaintGrows == Spec => []GrowthCountsPaints
<1>1. IInv => GrowthCountsPaints
    BY DEF IInv, GrowthInv, Grown, GrowthCountsPaints
<1> QED BY <1>1, IInvHolds, PTL
=============================================================================
