---------------------------- MODULE CampaignLife ----------------------------
(***************************************************************************)
(* What a research campaign promises, whoever works on it: it passes the   *)
(* evidence states in order, its target is chosen in the one step from     *)
(* scoped to acquired and never replaced, and a terminal state is final.   *)
(***************************************************************************)
EXTENDS Integers, Sequences

CONSTANT None

VARIABLES state, target

Evidence == <<"draft", "scoped", "acquired", "build_ready", "primitive_assessed">>
Rank(s) == CHOOSE i \in DOMAIN Evidence : Evidence[i] = s
InOrder(s) == \E i \in DOMAIN Evidence : Evidence[i] = s
Halted == {"paused", "cancelled", "failed"}
Final == {"cancelled", "failed"}

LifeInit == state = "none" /\ target = None

Begin == state = "none" /\ state' = "draft" /\ target' = target

Step ==
    /\ InOrder(state) /\ state # "primitive_assessed"
    /\ state' = Evidence[Rank(state) + 1]
    /\ IF state' = "acquired" THEN target' # None ELSE target' = target

Stop ==
    /\ state \notin Final \cup {"none"}
    /\ state' \in Halted \ {state}
    /\ target' = target

LifeNext == Begin \/ Step \/ Stop

LifeSpec == LifeInit /\ [][LifeNext]_<<state, target>>
=============================================================================
