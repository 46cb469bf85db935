------------------------------- MODULE MCHub -------------------------------
(* Instantiates Hub for TLC.  The agents of this repository send no        *)
(* heartbeat: _heartbeat_loop of agent/shipper.py is never started.        *)
EXTENDS Hub, TLC

AgentKinds == AllKinds \ {"heartbeat"}

DashboardSymmetry == Permutations(Dashboards)
=============================================================================
