----------------------------- MODULE MCKeyRecovery -----------------------------
(* KeyRecovery on small instances: every room deals a secret of its own, and   *)
(* one of them also the secrets that are not 16 bytes long.                    *)
EXTENDS KeyRecovery

CONSTANT MixedRoom

MCSecretsOf ==
  [r \in Rooms |-> {r} \cup (IF r = MixedRoom THEN Secrets \ KeySized ELSE {})]
================================================================================
