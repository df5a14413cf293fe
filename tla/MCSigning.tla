----------------------------- MODULE MCSigning -----------------------------
(* A small instance of Signing for TLC. *)
EXTENDS Keystore

CONSTANTS r1, a1, a2, u1, w1, f1, s1, k1

AllAndroid == [r \in Request |-> "android"]

\* With a secret although plaintext is allowed, and without either.
TwoEnvs == {[secret |-> k1, plain |-> TRUE], [secret |-> NoSecret, plain |-> FALSE]}

\* Two saved fields take the wrapped content to 65536 bytes.
NameLengths == [v \in Save \cup {Unset} |-> IF v = Unset THEN 0 ELSE 31610]
=============================================================================
