------------------------------- MODULE Tools -------------------------------
(***************************************************************************)
(* libraries/Tools.sol: conversion between an amount of a supported coin   *)
(* and an amount of VUND.  VUND has 18 decimals; a coin with d decimals is *)
(* described here by what the conversion reads of it:                      *)
(*    scale  the power of ten 10 ** |18 - d|                               *)
(*    wider  TRUE iff d > 18 (one VUND unit is several units of the coin)  *)
(* A coin with 18 decimals has scale 1 and either value of wider.          *)
(***************************************************************************)
EXTENDS Integers

Coin == [scale : Nat \ {0}, wider : BOOLEAN]

\* The VUND amount of convertCoinToVUND: rounded down for a wider coin.
CoinToVUND(amountCoin, coin) ==
    IF coin.wider THEN amountCoin \div coin.scale ELSE amountCoin * coin.scale

\* Its second result, the coin amount that is worth exactly that VUND amount.
AdjustedCoin(amountCoin, coin) ==
    IF coin.wider THEN CoinToVUND(amountCoin, coin) * coin.scale ELSE amountCoin

\* The coin amount of convertVUNDToCoin: rounded down for a narrower coin.
VUNDToCoin(amountVUND, coin) ==
    IF coin.wider THEN amountVUND * coin.scale ELSE amountVUND \div coin.scale

\* Its second result, the VUND amount left after that rounding.
AdjustedVUND(amountVUND, coin) == CoinToVUND(VUNDToCoin(amountVUND, coin), coin)
=============================================================================
