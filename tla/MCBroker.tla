------------------------------ MODULE MCBroker ------------------------------
(* Instances of Broker for TLC. *)
EXTENDS Broker

OneCampaign == [j \in Jobs |-> "c1"]
CampaignSet == {"c1", "c2"}
=============================================================================
