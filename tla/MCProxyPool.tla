---------------------------- MODULE MCProxyPool -----------------------------
(* Instances of ProxyPool for TLC.                                         *)
EXTENDS ProxyPool

OneOfEach == {<<"mongo", "round_robin">>, <<"postgres", "least_conn">>}
=============================================================================
