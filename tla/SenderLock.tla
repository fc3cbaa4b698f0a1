---- MODULE SenderLock ----
(***************************************************************************)
(* One send at a time per signing key: the FIFO lock around picking a      *)
(* nonce, signing and broadcasting, and the nonce floor that covers for a  *)
(* node answering from behind.  Both live in the memory of one process.    *)
(***************************************************************************)
EXTENDS Naturals, Sequences

VARIABLES
  queue,                  \* sections in the order they asked; the head runs
  floor,                  \* the lowest nonce still usable; 0: no floor kept
  claimed                 \* auxiliary: nonces of accepted sends a floor covers

lockVars == <<queue, floor, claimed>>

SenderLockInit == queue = <<>> /\ floor = 0 /\ claimed = {}

Enqueue(p) == queue' = Append(queue, p) /\ UNCHANGED <<floor, claimed>>

(* Mutant: a section runs as soon as it is asked for.                      *)
MutantHoldsAtOnce(p) == queue # <<>>

Holds(p) == queue # <<>> /\ Head(queue) = p

(* The next section runs whatever became of the one before it.             *)
Release == queue' = Tail(queue)

(* nextSenderNonce: the node's answer, raised to the floor while it is     *)
(* believed.                                                               *)
NextNonce(fromNode) == IF fromNode >= floor THEN fromNode ELSE floor

(* noteSenderBroadcast: only after a broadcast the node accepted.          *)
NoteBroadcast(nonce) ==
  /\ floor' = IF nonce + 1 < floor THEN floor ELSE nonce + 1
  /\ claimed' = claimed \cup {nonce}

(* A floor older than SENDER_FLOOR_TTL_MS is forgotten.                    *)
FloorExpires ==
  /\ floor # 0
  /\ floor' = 0
  /\ claimed' = {}
  /\ UNCHANGED queue

(* The process dies, and its memory with it.                               *)
LockForgotten == queue' = <<>> /\ floor' = 0 /\ claimed' = {}
====
