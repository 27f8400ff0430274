---------------------------- MODULE MCDraftLayers ----------------------------
(* Instances of DraftLayers for TLC: a Verge patch, a Clash patch and a port
   change claim overlapping layers (feat/executor.rs, feat/listener.rs); the
   Clash patch names its layers backwards, which the crate leaves to the caller.
   restoreProfile writes the profiles without a claim. *)
EXTENDS DraftLayers, TLC

CONSTANTS clash, verge, runtime, profiles,
          patchVerge, patchClash, savePorts, restoreProfile

MCLayers == {clash, verge, runtime, profiles}
ThreeTxs == {patchVerge, patchClash, savePorts}
ApartWriter == {restoreProfile}

AllOrders == (patchVerge :> <<verge, runtime>> @@ patchClash :> <<runtime, clash>>
              @@ savePorts :> <<clash, verge, runtime>>)
ApartWriterLayer == (restoreProfile :> profiles)

=============================================================================
