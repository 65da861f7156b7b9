------------------------------- MODULE KeySet -------------------------------
(***************************************************************************)
(* What a caller of redblack.c is promised: a set of keys that grows by    *)
(* one, shrinks by one, or stays as it is, whatever is moved about inside. *)
(***************************************************************************)
CONSTANT Keys
VARIABLE keys

KsInit == keys = {}
(* One key comes, or one goes. *)
KsNext ==
  LET before == keys
      after == keys'
  IN after # before /\ \E k \in Keys : after = before \union {k} \/ after = before \ {k}
KsSpec == KsInit /\ [][KsNext]_keys
=============================================================================
