--------------------------- MODULE MCProxyChannel ---------------------------
(* Instance of ProxyChannel for TLC: constants are given in the .cfg.      *)
EXTENDS ProxyChannel
=============================================================================
