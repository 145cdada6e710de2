---------------------------- MODULE MCProtoRouter ---------------------------
(* The constants of the runs of ProtoRouter: one or two private hosts with *)
(* one or two ports each, and one remote host with one or two ports.       *)
EXTENDS ProtoRouter, TLC

CONSTANTS h2, h3, s1, s2, d1, d2
MCProtocols == {"TCP"}
MCHost == {h2}
MCHosts == {h2, h3}
MCPrivatePort == {s1}
MCPrivatePorts == {s1, s2}
MCRemotes == {"h1"}
MCRemotePort == {d1}
MCRemotePorts == {d1, d2}
MCSilent == {"router"}
MCAddresses == Hosts \cup Remotes
MCIdentifiers == {7}
(* From one host to the other, and to the gateway. *)
MCLocalPairs == {<<h2, h3>>, <<h2, "gateway">>}
(* Ports are alike, those of the private host and those of the remote. *)
MCSymmetry == Permutations(MCPrivatePorts) \cup Permutations(MCRemotePorts)
=============================================================================
