------------------------------- MODULE Canvas -------------------------------
(***************************************************************************)
(* CANVAS.sol: a shared canvas whose pixels anybody paints and a token may *)
(* claim, and which grows with the number of paints.                       *)
(*                                                                         *)
(* The qualities of tokens are PVT.sol's: zero until a token is minted.    *)
(* The contract calls ownerOf and setQuality for a claimed pixel; PVT.sol  *)
(* has no setQuality, so painting a claimed pixel reverts.  The times of   *)
(* painting and the daily counts are read and never set, and with them     *)
(* zero no reward is paid: they are left out.                              *)
(***************************************************************************)
EXTENDS Integers, FiniteSets, FiniteSetsExt

CONSTANTS
    Painters,           \* addresses that paint
    Pixels,             \* coordinates <<x, y>>
    Colors,             \* colours, 0 that of a pixel never painted
    Tokens,             \* ids of tokens, minted or not; 0 is none
    Qualities,          \* qualities a token is minted with
    baseRequirement,    \* paints that make the canvas grow first, 10
    MaxPaints           \* bound on the paints

Origin == <<0, 0>>
Nobody == "nobody"      \* address(0)

ASSUME CanvasAssumption ==
    /\ Nobody \notin Painters
    /\ IsFiniteSet(Painters) /\ IsFiniteSet(Pixels)
    /\ Pixels \subseteq Nat \X Nat /\ Origin \in Pixels
    /\ Colors \subseteq Nat /\ 0 \notin Tokens
    /\ Qualities \subseteq Nat \ {0}
    /\ baseRequirement \in Nat \ {0} /\ MaxPaints \in Nat

VARIABLES
    canvasSize, canvasPot,
    pixelsColor, lastPainter,                   \* of every pixel
    pixelsTokenId, tokenIdCoordinates,          \* claims, seen from both sides
    currentPaintedPixels, totalPaintedPixels,   \* of every painter
    quality                                     \* PVT's, of every token

claims == <<pixelsTokenId, tokenIdCoordinates>>
paints == <<canvasSize, canvasPot, pixelsColor, lastPainter,
            currentPaintedPixels, totalPaintedPixels>>
vars == <<paints, claims, quality>>

TypeOK ==
    /\ canvasSize \in Nat \ {0}
    /\ canvasPot \in Nat
    /\ pixelsColor \in [Pixels -> Colors \union {0}]
    /\ lastPainter \in [Pixels -> Painters \union {Nobody}]
    /\ pixelsTokenId \in [Pixels -> Tokens \union {0}]
    /\ tokenIdCoordinates \in [Tokens -> Pixels]
    /\ currentPaintedPixels \in [Painters -> Nat]
    /\ totalPaintedPixels \in [Painters -> Nat]
    /\ quality \in [Tokens -> Qualities \union {0}]

Init ==
    /\ canvasSize = 1
    /\ canvasPot = 0
    /\ pixelsColor = [c \in Pixels |-> 0]
    /\ lastPainter = [c \in Pixels |-> Nobody]
    /\ pixelsTokenId = [c \in Pixels |-> 0]
    /\ tokenIdCoordinates = [t \in Tokens |-> Origin]
    /\ currentPaintedPixels = [p \in Painters |-> 0]
    /\ totalPaintedPixels = [p \in Painters |-> 0]
    /\ quality = [t \in Tokens |-> 0]

-----------------------------------------------------------------------------
(* Painting and growing.                                                   *)

Paints == SumFunctionOnSet(totalPaintedPixels, Painters)

\* The exponential requirement of _growCanvas.
RowRequirement(size) == baseRequirement * 2 ^ (size - 1)

\* Mutant of Repainted: the painter before keeps the pixel.
RepaintedTwice(p, before) ==
    [currentPaintedPixels EXCEPT ![p] = @ + 1]

\* The painter before loses the pixel, then this one gains it.
Repainted(p, before) ==
    [q \in Painters |->
        currentPaintedPixels[q] - (IF q = before THEN 1 ELSE 0)
                                + (IF q = p THEN 1 ELSE 0)]

\* Mutant of GrowCanvas: the pot is kept.
GrowCanvasPotKept ==
    /\ canvasPot' = canvasPot + 1
    /\ canvasSize' =
          IF canvasPot + 1 >= RowRequirement(canvasSize) THEN canvasSize + 1 ELSE canvasSize

\* _growCanvas.
GrowCanvas ==
    IF canvasPot + 1 >= RowRequirement(canvasSize)
    THEN canvasPot' = 0 /\ canvasSize' = canvasSize + 1
    ELSE canvasPot' = canvasPot + 1 /\ UNCHANGED canvasSize

\* A pixel with x or y equal to the size is accepted too.
PaintPixel(p, c, color) ==
    /\ Paints < MaxPaints
    /\ c[1] <= canvasSize /\ c[2] <= canvasSize
    /\ pixelsColor[c] # color
    /\ pixelsTokenId[c] = 0
    /\ lastPainter[c] # Nobody => currentPaintedPixels[lastPainter[c]] > 0
    /\ currentPaintedPixels' = Repainted(p, lastPainter[c])
    /\ pixelsColor' = [pixelsColor EXCEPT ![c] = color]
    /\ totalPaintedPixels' = [totalPaintedPixels EXCEPT ![p] = @ + 1]
    /\ lastPainter' = [lastPainter EXCEPT ![c] = p]
    /\ GrowCanvas
    /\ UNCHANGED <<claims, quality>>

-----------------------------------------------------------------------------
(* Claims: of any coordinates, by anybody, for any token.                  *)

\* A claim yields to a better token only.
ClaimPixel(c, t) ==
    /\ pixelsTokenId[c] # 0 => quality[pixelsTokenId[c]] < quality[t]
    /\ pixelsTokenId' = [pixelsTokenId EXCEPT ![c] = t]
    /\ tokenIdCoordinates' = [tokenIdCoordinates EXCEPT ![t] = c]
    /\ UNCHANGED <<paints, quality>>

\* removePixels, of the tokens PVT.sol fuses: a token without a pixel has the
\* coordinates of the origin.  As committed, PVT.sol never gets to call it.
RemovePixels(fused) ==
    /\ pixelsTokenId' = [c \in Pixels |->
          IF c \in { tokenIdCoordinates[t] : t \in fused } THEN 0 ELSE pixelsTokenId[c]]
    /\ tokenIdCoordinates' =
          [t \in Tokens |-> IF t \in fused THEN Origin ELSE tokenIdCoordinates[t]]
    /\ UNCHANGED <<paints, quality>>

\* PVT.sol mints a token.
Mint(t, q) ==
    /\ quality[t] = 0
    /\ quality' = [quality EXCEPT ![t] = q]
    /\ UNCHANGED <<paints, claims>>

Next ==
    \/ \E p \in Painters, c \in Pixels, color \in Colors : PaintPixel(p, c, color)
    \/ \E c \in Pixels, t \in Tokens : ClaimPixel(c, t)
    \/ \E fused \in { s \in SUBSET Tokens : Cardinality(s) = 3 } : RemovePixels(fused)
    \/ \E t \in Tokens, q \in Qualities : Mint(t, q)

Spec == Init /\ [][Next]_vars

-----------------------------------------------------------------------------
(* Properties.                                                             *)

PaintedBy(p) == { c \in Pixels : lastPainter[c] = p }

\* currentPaintedPixels, which PVT.sol adds to a player's luck, is the number of
\* pixels the player painted last; so the count that repainting lowers is never
\* zero, and no repaint reverts (CANVAS.sol 111-118).
PaintersCount ==
    \A p \in Painters : currentPaintedPixels[p] = Cardinality(PaintedBy(p))

\* Every paint counts once towards growth: the paints of all players are what the
\* canvas took to reach its size, and the pot (CANVAS.sol 190-212).
GrowthCountsPaints ==
    LET grown == 1..(canvasSize - 1)
    IN  Paints = canvasPot + SumFunctionOnSet([size \in grown |-> RowRequirement(size)], grown)
=============================================================================
