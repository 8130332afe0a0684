------------------------ MODULE MCAgreementLifecycle -------------------------
(* Instances of AgreementLifecycle for TLC.                                *)
EXTENDS AgreementLifecycle, TLC

OfferSymmetry == Permutations(OfferJobs)
=============================================================================
