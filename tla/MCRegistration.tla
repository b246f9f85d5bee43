--------------------------- MODULE MCRegistration ---------------------------
(* Registration with interchangeable descriptors.                          *)
EXTENDS Registration, TLC

Descriptors == Permutations(Fds)
=============================================================================
