------------------------ MODULE MCLiveInferenceRouter ------------------------
\* The specification LiveInferenceRouter.cfg model-checks, with payloads that
\* are whole, lack log_std, or lack a tensor of the head.
EXTENDS LiveInferenceRouter

MCHoldings == {Parts, {"weight", "bias"}, {"bias", "logStd"}}
=============================================================================
