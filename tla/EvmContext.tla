---- MODULE EvmContext ----
(***************************************************************************)
(* What a call on a contract of the project reads of its surroundings:     *)
(* msg.sender, address(0) and block.timestamp; and the bodies of which     *)
(* every contract has an instance.  One unit of `now` is a slice of time   *)
(* short enough that every delay of the contracts is a whole number of     *)
(* units.  Time passes between transactions: a transaction reads `now` and *)
(* never moves it.                                                         *)
(***************************************************************************)
EXTENDS Integers

VARIABLE now              \* block.timestamp

CONSTANT MaxTime          \* bound: the last instant the model reaches
CONSTANTS Address, NoOne  \* the accounts that send transactions, address(0)
CONSTANT Body             \* the legal bodies that may be deployed

ASSUME EvmAssumption == MaxTime \in Nat /\ NoOne \notin Address

Account == {NoOne} \cup Address

TimeOK == now \in 0 .. MaxTime
Tick == now < MaxTime /\ now' = now + 1
====
