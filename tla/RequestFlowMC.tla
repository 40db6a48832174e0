---------------------------- MODULE RequestFlowMC ----------------------------
(* Instances of RequestFlow for TLC.                                        *)
EXTENDS RequestFlow

MCNetError == {28}
\* The bounds of the 2xx test, the codes the client branches on, and 0.
MCStatus == {0, 199, 200, 299, 300, 400, 401, 404}
\* An uninitialised int: zero, or any other value, here a status.
MCIndeterminate == {0, 404}
MCAllFunctions == AllFunctions
MCDelete == {"delete"}
MCRegistration == {"registration"}
=============================================================================
