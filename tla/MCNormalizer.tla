---------------------------- MODULE MCNormalizer ----------------------------
(* A source that counts by one or not at all, restarted at most twice.     *)
EXTENDS Normalizer
=============================================================================
