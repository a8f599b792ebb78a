--------------------------- MODULE CleanRequests ---------------------------
(***************************************************************************)
(* The end of fullfillOpenRequest and fullfillCloseRequest, on the array   *)
(* itself: the answered request is swapped with the last one and popped,   *)
(* then _cleanOracleRequests walks the array and does the same to every    *)
(* request older than ten minutes, going on with the same place after a    *)
(* removal, since another request has moved into it.  Arenaton treats the  *)
(* queue as a set and the walk as one step; this module is the reason why. *)
(***************************************************************************)
EXTENDS SwapPop

CONSTANT Requests,      \* requests that may be queued
         MaxLength      \* bound on the length of the array

ASSUME MaxLengthAssumption == MaxLength \in Nat

VARIABLES
    queue,      \* the array, oracleOpenRequests or oracleCloseRequests
    answered,   \* the request the oracle has answered
    expired,    \* the requests older than ten minutes
    initial,    \* the array when the transaction began
    pc,         \* "remove", then "clean" until "done"
    i           \* the loop's place, counted from 1

loopVars == <<queue, answered, expired, initial, pc, i>>

LoopTypeOK ==
    /\ queue \in Seq(Requests) /\ initial \in Seq(Requests)
    /\ answered \in Requests
    /\ expired \subseteq Requests
    /\ pc \in {"remove", "clean", "done"}
    /\ i \in Nat

Arrays == UNION { [1..n -> Requests] : n \in 1..MaxLength }

\* The queue holds no request twice (QueuesAreExclusive) and the answered one.
LoopInit ==
    /\ queue \in Arrays /\ Distinct(queue)
    /\ answered \in Elements(queue)
    /\ expired \in SUBSET Requests
    /\ initial = queue
    /\ pc = "remove"
    /\ i = 1

\* Mutant: the answered request stays.
AnsweredStays ==
    /\ pc = "remove" /\ pc' = "clean"
    /\ UNCHANGED <<queue, answered, expired, initial, i>>

\* The two lines before the call of _cleanOracleRequests.
RemoveAnswered ==
    /\ pc = "remove"
    /\ queue' = SwapPop(queue, answered)
    /\ pc' = "clean"
    /\ UNCHANGED <<answered, expired, initial, i>>

\* Mutant: the place moves on after a removal too.
DropAndStep ==
    /\ pc = "clean" /\ i <= Len(queue)
    /\ queue[i] \in expired
    /\ queue' = SwapPopAt(queue, i)
    /\ i' = i + 1
    /\ UNCHANGED <<answered, expired, initial, pc>>

\* One turn of the loop on a request that is too old; the place stays.
DropExpired ==
    /\ pc = "clean" /\ i <= Len(queue)
    /\ queue[i] \in expired
    /\ queue' = SwapPopAt(queue, i)
    /\ UNCHANGED <<answered, expired, initial, pc, i>>

\* Mutant: the place never moves.
KeepInPlace == pc = "clean" /\ i <= Len(queue) /\ queue[i] \notin expired
                   /\ UNCHANGED loopVars

\* One turn of the loop on a request that stays.
KeepFresh ==
    /\ pc = "clean" /\ i <= Len(queue)
    /\ queue[i] \notin expired
    /\ i' = i + 1
    /\ UNCHANGED <<queue, answered, expired, initial, pc>>

\* The end of the loop.
Finish ==
    /\ pc = "clean" /\ i > Len(queue)
    /\ pc' = "done"
    /\ UNCHANGED <<queue, answered, expired, initial, i>>

LoopNext == RemoveAnswered \/ DropExpired \/ KeepFresh \/ Finish

\* A transaction runs to its end.
LoopSpec == LoopInit /\ [][LoopNext]_loopVars /\ WF_loopVars(LoopNext)

-----------------------------------------------------------------------------
\* No step loses a request that is neither answered nor expired, brings back
\* one, or stores one twice (Arenaton.sol 385-387, 446-455).
OnlyLeaversLeave ==
    /\ Distinct(queue)
    /\ Elements(queue) \subseteq Elements(initial)
    /\ (Elements(initial) \ expired) \ {answered} \subseteq Elements(queue)

\* What makes the queue end clean: the loop leaves no expired request behind its
\* place, since the one moved into the place of a removed one is looked at as
\* well (Arenaton.sol 446-455).
NothingExpiredBehind ==
    \A j \in 1..Len(queue) : j < i => queue[j] \notin expired

\* When the transaction ends the queue holds, as a set, exactly what Arenaton's
\* Fresh(requests \ {r}) says.
EndsClean ==
    pc = "done" => Elements(queue) = (Elements(initial) \ expired) \ {answered}

\* The walk ends, and on the way every step is a step of the queue seen as a
\* set: a request that must leave, leaves, or nothing changes.
PurgedQueue == INSTANCE Purge WITH
    pending <- Elements(queue), leaving <- expired \union {answered}

RefinesPurge == PurgedQueue!Spec

Terminates == <>(pc = "done")
=============================================================================
