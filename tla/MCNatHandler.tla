---------------------------- MODULE MCNatHandler ----------------------------
(* The constants of the run of NatHandler: more endpoints than ports. *)
EXTENDS NatHandler

MCProtocols == {"TCP", "UDP"}
MCHosts == {"h1", "h2"}
MCPrivatePorts == {5000}
=============================================================================
