--------------------------- MODULE MCEventOutbox ---------------------------
(***************************************************************************)
(* Two instances of EventOutbox side by side: the relay, with one          *)
(* administrator, two dispatchers and one switch thrown; and the switches, *)
(* with two administrators, one dispatcher and one event.  A behaviour is  *)
(* of one of them: part says which.                                        *)
(***************************************************************************)
EXTENDS EventOutbox

CONSTANTS w1, w2, d1, d2, a1, r1

VARIABLE part

relayVars == <<part, outboxVars>>

\* Two workflows listen to the same human events about one resource: w1 is
\* human-only, runs at once and has a rate cap; w2 also takes the events of
\* runs and batches them.
MCKinds == {[human |-> TRUE, res |-> r1, to |-> {w1, w2}]}
MCChildTo == {{w1, w2}}
MCCap == [w \in Workflows |-> IF w = w1 THEN 1 ELSE 0]
MCDeployments == {{d1}, {d1, d2}}

OneAdmin == INSTANCE EventOutbox WITH Admins <- {a1}
Switching == INSTANCE EventOutbox
               WITH MaxEvents <- 1, MaxToggles <- 3, MaxCrashes <- 0

RelayInit ==
  /\ part \in {"relay", "switches"}
  /\ OutboxInit
  /\ part = "switches" => relay[d2].at = "down"

RelayNext ==
  /\ \/ part = "relay" /\ OneAdmin!OutboxNext
     \/ part = "switches" /\ Switching!OutboxNext
  /\ UNCHANGED part

RelaySpec == RelayInit /\ [][RelayNext]_relayVars /\ OutboxFairness

\* The second alone.
SwitchesSpec == RelayInit /\ part = "switches" /\ [][RelayNext]_relayVars
=============================================================================
