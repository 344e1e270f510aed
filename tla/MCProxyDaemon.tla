---------------------------- MODULE MCProxyDaemon ----------------------------
(* Instances of ProxyDaemon for TLC. *)
EXTENDS ProxyDaemon
=============================================================================
