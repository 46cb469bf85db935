----------------------------- MODULE MCPipeline -----------------------------
(* Instantiates Pipeline for TLC: one agent, the roamer, makes a second    *)
(* connection, the other keeps its first.                                  *)
EXTENDS Pipeline, TLC

CONSTANT Roamer

ConnsOfRoamer == [e \in Endpoints |-> IF e = Roamer THEN 2 ELSE 1]
=============================================================================
