---------------------------- MODULE MCPeerWaits ----------------------------
(* Names with up to three addresses of both families; poll intervals and    *)
(* expiries on both sides of their limits.                                  *)
EXTENDS PeerWaits

MCResolutions == {<<6>>, <<6, 4>>, <<6, 6, 4>>, <<4, 6, 6>>}
=============================================================================
