----------------------------- MODULE MCJWTAuth -----------------------------
(* An instance of JWTAuth for TLC: two requests beside each other while the *)
(* issuer rotates its key.                                                  *)
EXTENDS JWTAuth, TLC

\* Requests and keys are interchangeable.
Interchangeable == Permutations(Clients) \cup Permutations(Keys)
=============================================================================
