----------------------------- MODULE MCNetplay -----------------------------
(* Instances of Netplay: both peers may record the one event.              *)
EXTENDS Netplay

ControlDef == [p \in Peer |-> Event]
=============================================================================
