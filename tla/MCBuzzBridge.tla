---------------------------- MODULE MCBuzzBridge ----------------------------
(***************************************************************************)
(* A channel thread that two subscriptions read, and a thread of one       *)
(* reader, where a request is confirmed and cancelled.                     *)
(***************************************************************************)
EXTENDS BuzzBridge

CONSTANTS channel, page, r1, r2, say, ask, yes, no

MCIn == [e \in Events |-> IF e = say THEN channel ELSE page]
MCSays == [e \in Events |->
  CASE e = ask -> "task" [] e = yes -> "yes" [] e = no -> "no" [] OTHER -> "plain"]
MCServes == [r \in Readers |-> IF r = r1 THEN {channel} ELSE {channel, page}]
MCDeliveries == [e \in Events |-> IF e \in {say, yes} THEN 2 ELSE 1]
=============================================================================
