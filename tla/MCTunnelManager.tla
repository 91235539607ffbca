--------------------------- MODULE MCTunnelManager ---------------------------
(***************************************************************************)
(* A small instance of TunnelManager for TLC.                              *)
(***************************************************************************)
EXTENDS TunnelManager

\* VPN mode; proxy mode; retries; a second SSH connection.
MCConfigs ==
  {[vpn |-> TRUE,  proxy |-> FALSE, reconnect |-> FALSE, parallel |-> FALSE],
   [vpn |-> FALSE, proxy |-> TRUE,  reconnect |-> TRUE,  parallel |-> TRUE]}
=============================================================================
