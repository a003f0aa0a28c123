---------------------------- MODULE MCDigitalTwin ---------------------------
(***************************************************************************)
(* Small instances of the Digital Twin.  In the first, two horizons, of    *)
(* which a reply may cover one or both; in the second, a single one and    *)
(* three steps to a reply, as deployed.  Errors are tenths: the gateway    *)
(* reports 0.9, and confidence ends at 90.                                 *)
(***************************************************************************)
EXTENDS DigitalTwin

MCHorizons == {1, 2}
MCModelOutputs == {<<60>>, <<60, 20>>}
MCReportedRMSE == 9
MCReplies == {Reply(v) : v \in MCModelOutputs} \cup {None}

MCDeployedOutputs == {<<60, 50, 40>>}
MCDeployedReplies == {Reply(v) : v \in MCDeployedOutputs} \cup {None}
=============================================================================
