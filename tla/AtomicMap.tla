----------------------------- MODULE AtomicMap -----------------------------
(***************************************************************************)
(* What a shared store promises: a change that a client asks for reaches   *)
(* the map in one step, alters the entries it names and no other, or is    *)
(* dropped whole.  The promise ends when the map is broken.                *)
(***************************************************************************)
CONSTANTS Clients, Keys, Entries, NoChange

VARIABLES map, asked, broken

Init ==
  /\ map \in [Keys -> Entries]
  /\ asked = [p \in Clients |-> NoChange]
  /\ broken = FALSE

Ask(p) ==
  /\ UNCHANGED map
  /\ asked[p] = NoChange
  /\ \E S \in SUBSET Keys : asked'[p] \in [S -> Entries]
  /\ asked' = [asked EXCEPT ![p] = asked'[p]]

Apply(p) ==
  /\ asked[p] # NoChange
  /\ map' = [k \in Keys |-> IF k \in DOMAIN asked[p] THEN asked[p][k] ELSE map[k]]
  /\ asked' = [asked EXCEPT ![p] = NoChange]

Drop(p) ==
  /\ asked[p] # NoChange
  /\ asked' = [asked EXCEPT ![p] = NoChange]
  /\ UNCHANGED map

Operation == \E p \in Clients : Ask(p) \/ Apply(p) \/ Drop(p)

\* Nothing is promised of the map any more.
Break == broken' = TRUE

Next == (~broken /\ Operation /\ UNCHANGED broken) \/ Break

Spec == Init /\ [][Next]_<<map, asked, broken>>
=============================================================================
