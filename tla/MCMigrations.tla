---------------------------- MODULE MCMigrations ----------------------------
(* Small databases for TLC: an app with or without stored secrets, and a    *)
(* second variant of it or a second app, with one release each.             *)
EXTENDS Migrations

CONSTANTS a1, a2, b1, k1

Bare   == [slug |-> a1, platform |-> "android", cred |-> None, key |-> None]
Secret == [slug |-> a1, platform |-> "android", cred |-> b1, key |-> k1]
Others ==
    {[slug |-> a1, platform |-> "ios", cred |-> b1, key |-> None],
     [slug |-> a2, platform |-> "android", cred |-> b1, key |-> None],
     [slug |-> a2, platform |-> "android", cred |-> None, key |-> None]}

ReleaseOf(x, state) ==
    [slug |-> x.slug, platform |-> x.platform, code |-> 1,
     channel |-> state[1], status |-> state[2], error |-> state[3]]

Old    == <<"api-share", "pending", None>>
States == {Old, <<"internal", "error", None>>, <<"direct", "error", "why">>}

OldDatabases ==
    {[ver |-> v, variants |-> {}, releases |-> {}] : v \in 0 .. 10}
    \cup {[ver |-> v, variants |-> {x, y},
           releases |-> {ReleaseOf(x, s), ReleaseOf(y, IF v < 5 THEN Old ELSE s)}] :
            v \in 2 .. 10, x \in {Bare, Secret}, y \in Others, s \in States}
=============================================================================
