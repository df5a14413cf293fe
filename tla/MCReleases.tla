----------------------------- MODULE MCReleases -----------------------------
(* Small instances of Releases for TLC. *)
EXTENDS ReleasesProps, TLC

CONSTANTS u1, u2, u3, d1, d2

Direct1 == [chan |-> "direct", name |-> "a", asked |-> Unnumbered]
Play1   == [chan |-> "play", name |-> "a", asked |-> Unnumbered]
Play2   == [chan |-> "play", name |-> "b", asked |-> 1]

\* Direct uploads numbered by the hub, Play uploads of another file name that
\* ask for version code 1.
MixedForms == {Direct1, Play2}
\* Uploads of one file name, all numbered by the hub.
AutoForms  == {Direct1, Play1}
\* <<platform override, hub-wide setting>>
Either  == {<<1, Unset>>, <<Unset, Unset>>, <<Unset, 1>>}
HubWide == {<<Unset, 1>>}
KeepTwo == {<<2, Unset>>}

Symmetry == Permutations(Upload)
=============================================================================
