------------------------- MODULE MC_ServiceRequests -------------------------
(* ServiceRequests with the binder calls restricted to one requester, so   *)
(* that a counterexample shows that requester alone.                      *)
EXTENDS ServiceRequests

\* RadioVoice::getMute alone.
GetMuteOps == {"getMute"}
=============================================================================
