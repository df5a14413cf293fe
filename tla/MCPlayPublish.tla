---------------------------- MODULE MCPlayPublish ----------------------------
(* Small instances of PlayPublish for TLC. *)
EXTENDS PlayPublish

CONSTANTS p1, i1, v1, old1, n1, n2, g1

Named(word) == [word |-> word, name |-> ""]

\* The closed track and one that is not.
Channels == {Named("alpha"), Named("internal")}

\* The same, and the explicit spelling of a standard track.
Spellings == Channels \cup {[word |-> "closed:", name |-> "internal"]}

\* n2 is n1, " (" and more.
Extensions == {<<n1, n2>>}
=============================================================================
