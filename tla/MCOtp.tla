-------------------------------- MODULE MCOtp --------------------------------
(* Symmetry of the runs of the one-time codes *)
EXTENDS Otp, TLC

MCSymmetry == Permutations(Senders) \cup Permutations(Verifiers) \cup Permutations(Codes)
=============================================================================
