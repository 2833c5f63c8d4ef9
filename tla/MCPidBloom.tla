----------------------------- MODULE MCPidBloom -----------------------------
(* A selector with ids that collide and fill a filter, and one with one id. *)
EXTENDS PidBloom, TLC

MCIds == "message" :> {<<0, 1>>, <<1, 0>>, <<0, 0>>} @@ "trace" :> {<<0, 1>>}
=============================================================================
