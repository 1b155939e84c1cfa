------------------------- MODULE MCReplicationStream -------------------------
(****************************************************************************)
(* Small instances of ReplicationStream for TLC.                            *)
(****************************************************************************)
EXTENDS ReplicationStream, TLC

Faults(network, handler, start, restart, stop, signal) ==
    [k \in FaultKinds |->
        CASE k = "network" -> network [] k = "handler" -> handler [] k = "start" -> start
          [] k = "restart" -> restart [] k = "stop" -> stop [] k = "shutdown" -> signal]

OneOfEach == Faults(1, 1, 1, 1, 1, 1)
AllButStop == Faults(1, 1, 1, 1, 0, 1)
NoFaults == Faults(0, 0, 0, 0, 0, 0)
OneRestart == Faults(0, 0, 0, 1, 0, 0)
OneStop == Faults(0, 0, 0, 0, 1, 0)

StreamSymmetry == Permutations(Streams)
=============================================================================
