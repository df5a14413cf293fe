--------------------------- MODULE MigrationsProofs ---------------------------
(***************************************************************************)
(* Proofs about Migrations: whatever statement a start dies at, and        *)
(* however often it does, nothing the database held is lost, a start is    *)
(* refused only by a script that is known not to be repeatable, and a hub  *)
(* that serves holds what it held before in the current schema.  The       *)
(* inductive invariant gives the database after every statement of every   *)
(* script.                                                                 *)
(***************************************************************************)
EXTENDS Migrations, TLAPS

-----------------------------------------------------------------------------
(* The database, statement by statement                                    *)

\* A start that is at statement s of script m has run statement i of script n.
Past(m, s, n, i) == m > n \/ (m = n /\ s > i)

\* How far a database may be: where its last start went on to, or, for 12 and
\* 13 of script 6, what its first two statements make of it when it had run all
\* but the one that records it.
Stage(m) ==
    CASE m = 6 -> 1 .. 13
      [] m = 11 -> {1}
      [] m \in Migration \ {6} -> 1 .. Statements[m]

\* The columns at that stage.
AppsAt(m, s) ==
    {k \in {"slug", "platform", "play_enabled", "play_credentials"} \cup Sign :
        /\ k = "play_enabled" => Past(m, s, 3, 1)
        /\ k = "play_credentials" => Past(m, s, 3, 2)
        /\ k = "sign_keystore" => Past(m, s, 4, 1)
        /\ k = "sign_config" => Past(m, s, 4, 2)
        /\ k = "sign_sha256" => Past(m, s, 4, 3)}
ReleasesAt(m, s) ==
    {k \in ReleaseCols \cup {"play_status", "play_error", "play_release"} :
        /\ k = "play_status" => Past(m, s, 9, 1)
        /\ k = "play_error" => Past(m, s, 9, 2)
        /\ k = "play_release" => Past(m, s, 9, 3)}
VariantsAt(m, s) ==
    {k \in PlatformCols \cup {"play_account_id", "prune_keep"} :
        /\ k = "play_account_id" => Past(m, s, 7, 2)
        /\ k = "play_credentials" => ~Past(m, s, 7, 5)
        /\ k = "prune_keep" => Past(m, s, 8, 2)}
OldCols == {"app_id", "version_code", "channel"}

\* The rows: releases are renamed and repaired, variants linked to accounts.
ReleaseNow(c, m, s, r) ==
    [r EXCEPT !.channel = IF Past(m, s, 5, 1) /\ @ = "api-share" THEN "direct" ELSE @,
              !.status  = IF Past(m, s, 10, 1) /\ c.ver < 10 /\ @ = "error" /\ r.error = None
                          THEN "pending" ELSE @]
ReleasesNow(c, m, s) == {ReleaseRow(ReleaseNow(c, m, s, r)) : r \in c.releases}
Unlinked(x) == [VariantRow(x) EXCEPT !.play_account_id = None]
VariantsNow(c, m, s) ==
    IF Past(m, s, 7, 2) /\ ~Past(m, s, 7, 4) THEN {Unlinked(x) : x \in c.variants}
    ELSE VariantRows(c)

Numbers(m) == {[migration_number |-> n] : n \in 1 .. (m - 1)}

Ensured(m, s, n, i, cols) == IF Past(m, s, n, i) THEN Filled(cols, {}) ELSE NoTable
MigrationsTable(m, s) ==
    IF Past(m, s, 1, 1) THEN Filled({"migration_number"}, Numbers(m)) ELSE NoTable
AppsTable(c, m, s) ==
    CASE ~Past(m, s, 2, 1) -> NoTable
      [] Past(m, s, 2, 1) /\ ~Past(m, s, 6, 9) -> Filled(AppsAt(m, s), VariantRows(c))
      [] Past(m, s, 6, 9) /\ ~Past(m, s, 6, 10) -> NoTable
      [] Past(m, s, 6, 10) -> Filled({"slug"}, VariantRows(c))
AppsNewTable(c, m, s) ==
    CASE m = 6 /\ s \in {2, 12} -> Filled({"slug"}, {})
      [] m = 6 /\ s \in 3 .. 10 \cup {13} -> Filled({"slug"}, VariantRows(c))
      [] m # 6 \/ s \in {1, 11} -> NoTable
VariantsTable(c, m, s) ==
    CASE ~Past(m, s, 6, 3) -> NoTable
      [] Past(m, s, 6, 3) /\ ~Past(m, s, 6, 4) -> Filled(PlatformCols, {})
      [] Past(m, s, 6, 4) -> Filled(VariantsAt(m, s), VariantsNow(c, m, s))
ReleasesTable(c, m, s) ==
    CASE ~Past(m, s, 2, 2) -> NoTable
      [] Past(m, s, 2, 2) /\ ~Past(m, s, 6, 5) -> Filled(OldCols, ReleasesNow(c, m, s))
      [] Past(m, s, 6, 5) /\ ~Past(m, s, 6, 6) -> NoTable
      [] Past(m, s, 6, 6) /\ ~Past(m, s, 6, 7) -> Filled(ReleaseCols, {})
      [] Past(m, s, 6, 7) -> Filled(ReleasesAt(m, s), ReleasesNow(c, m, s))
OldReleasesTable(c, m, s) ==
    IF Past(m, s, 6, 5) /\ ~Past(m, s, 6, 8) THEN Filled(OldCols, ReleasesNow(c, m, s)) ELSE NoTable
AccountsTable(c, m, s) ==
    CASE ~Past(m, s, 7, 1) -> NoTable
      [] Past(m, s, 7, 1) /\ ~Past(m, s, 7, 3) -> Filled({"credentials"}, {})
      [] Past(m, s, 7, 3) -> Filled({"credentials"}, AccountRows(c))

\* d holds c at stage s of script m.
Holds(d, c, m, s) ==
    /\ d = [t \in Table |-> d[t]]
    /\ d["migrations"] = MigrationsTable(m, s)
    /\ d["visitors"] = Ensured(m, s, 1, 2, {"id"})
    /\ d["apps"] = AppsTable(c, m, s)
    /\ d["releases"] = ReleasesTable(c, m, s)
    /\ d["api_tokens"] = Ensured(m, s, 2, 3, {"token_hash"})
    /\ d["sessions"] = Ensured(m, s, 2, 4, {"token_hash"})
    /\ d["config"] = Ensured(m, s, 2, 5, {"key"})
    /\ d["apps_new"] = AppsNewTable(c, m, s)
    /\ d["app_platforms"] = VariantsTable(c, m, s)
    /\ d["old_releases"] = OldReleasesTable(c, m, s)
    /\ d["play_accounts"] = AccountsTable(c, m, s)
    /\ d["idx_releases_platform_code"] = Ensured(m, s, 8, 1, {})

-----------------------------------------------------------------------------
(* The inductive invariant                                                 *)

\* A start at statement i of script m may find the database further on, at
\* stage s: it repeats what an earlier start has done.
Repeats(m, i, s) ==
    /\ i < s
    /\ \/ i = 1
       \/ m \in {1, 2, 5, 10}
       \/ m \in {7, 8} /\ i = 2
       \/ m = 6 /\ <<i, s>> \in {<<2, 12>>, <<3, 13>>}

\* Where the driver is while the database is at stage s of script m.
At(m, s) ==
    \/ /\ pc = "down" /\ executed = {} /\ mig = 0 /\ stmt = 0
       /\ s = 1 \/ crashes > 0
    \/ /\ pc = "migrating" /\ executed \subseteq 1 .. (m - 1)
       /\ mig \in 1 .. (m - 1) /\ mig .. (m - 1) \subseteq executed /\ stmt = 1
       /\ s = 1 \/ crashes > 0
    \/ /\ pc = "migrating" /\ executed \subseteq 1 .. (m - 1) /\ mig = m
       /\ stmt \in 1 .. 11 /\ stmt <= s
       /\ stmt = s \/ (crashes > 0 /\ Repeats(m, stmt, s))
    \/ pc = "serving" /\ m = 11 /\ executed \subseteq Migration /\ mig = 11 /\ stmt = 1

IInv ==
    /\ was \in Contents /\ Plausible(was)
    /\ crashes \in 0 .. MaxCrashes
    /\ refused \subseteq {3, 4, 6, 7, 8, 9} /\ (refused # {} => crashes > 0)
    /\ \E m \in 1 .. 11 : \E s \in Stage(m) :
        was.ver < m /\ Holds(db, was, m, s) /\ At(m, s)

-----------------------------------------------------------------------------
(* Tables                                                                   *)

\* A table is there, with the columns and the rows it was filled with.
LEMMA FilledIs ==
    ASSUME NEW C, NEW F
    PROVE  /\ Filled(C, F) # NoTable
           /\ Filled(C, F).cols = C
           /\ Filled(C, F).rows = {[k \in C |-> f[k]] : f \in F}
<1>1. DOMAIN Filled(C, F) = {"cols", "rows"}  BY DEF Filled
<1>2. DOMAIN NoTable = {}  BY DEF NoTable
<1>3. QED  BY <1>1, <1>2 DEF Filled

\* A statement that succeeds yields a database: it is not refused.
LEMMA Accepted ==
    ASSUME NEW d, d = [t \in Table |-> d[t]]
    PROVE  d # Error
<1>1. DOMAIN d = Table /\ "apps" \in Table  BY DEF Table
<1>2. DOMAIN Error = {}  BY DEF Error
<1>3. QED  BY <1>1, <1>2

\* The database with another table t.
Put(d, t, table) == [d EXCEPT ![t] = table]

\* What the statements make of a filled table.
LEMMA Added ==
    ASSUME NEW d, NEW t, NEW C, NEW F, NEW k, NEW v,
           d[t] = Filled(C, F), k \notin C, \A f \in F : f[k] = v
    PROVE  AddColumn(d, t, k, v) = Put(d, t, Filled(C \cup {k}, F))
<1> DEFINE Extend(r) == [j \in C \cup {k} |-> IF j = k THEN v ELSE r[j]]
           Wider(f) == [j \in C \cup {k} |-> f[j]]
<1>1. Cols(d, t) = C /\ Rows(d, t) = {[j \in C |-> f[j]] : f \in F}
      BY FilledIs DEF Cols, Rows
<1>2. \A f \in F : Extend([j \in C |-> f[j]]) = Wider(f)
      OBVIOUS
<1>3. AddColumn(d, t, k, v) = Set(d, t, C \cup {k}, {Extend(r) : r \in Rows(d, t)})
      BY <1>1 DEF AddColumn
<1>4. Filled(C \cup {k}, F) = [cols |-> C \cup {k}, rows |-> {Wider(f) : f \in F}]
      BY DEF Filled
<1> HIDE DEF Extend, Wider
<1>5. {Extend(r) : r \in Rows(d, t)} = {Wider(f) : f \in F}
  <2>1. ASSUME NEW f \in F PROVE Wider(f) \in {Extend(r) : r \in Rows(d, t)}
    <3>1. [j \in C |-> f[j]] \in Rows(d, t)  BY <1>1
    <3>2. QED  BY <3>1, <1>2
  <2>2. ASSUME NEW r \in Rows(d, t) PROVE Extend(r) \in {Wider(f) : f \in F}
    <3>1. PICK f \in F : r = [j \in C |-> f[j]]  BY <1>1
    <3>2. QED  BY <3>1, <1>2
  <2>3. QED  BY <2>1, <2>2
<1>6. QED  BY <1>3, <1>4, <1>5 DEF Set, Put

LEMMA AddRefused ==
    ASSUME NEW d, NEW t, NEW C, NEW F, NEW k, NEW v, d[t] = Filled(C, F), k \in C
    PROVE  AddColumn(d, t, k, v) = Error
BY FilledIs DEF AddColumn, Cols

LEMMA Dropped ==
    ASSUME NEW d, NEW t, NEW C, NEW F, NEW k, d[t] = Filled(C, F), k \in C
    PROVE  DropColumn(d, t, k) = Put(d, t, Filled(C \ {k}, F))
<1> DEFINE Narrow(r) == [j \in C \ {k} |-> r[j]]
<1>1. Cols(d, t) = C /\ Rows(d, t) = {[j \in C |-> f[j]] : f \in F}
      BY FilledIs DEF Cols, Rows
<1>2. \A f \in F : Narrow([j \in C |-> f[j]]) = Narrow(f)
      OBVIOUS
<1>3. DropColumn(d, t, k) = Set(d, t, C \ {k}, {Narrow(r) : r \in Rows(d, t)})
      BY <1>1 DEF DropColumn
<1>4. Filled(C \ {k}, F) = [cols |-> C \ {k}, rows |-> {Narrow(f) : f \in F}]
      BY DEF Filled
<1> HIDE DEF Narrow
<1>5. {Narrow(r) : r \in Rows(d, t)} = {Narrow(f) : f \in F}
  <2>1. ASSUME NEW f \in F PROVE Narrow(f) \in {Narrow(r) : r \in Rows(d, t)}
    <3>1. [j \in C |-> f[j]] \in Rows(d, t)  BY <1>1
    <3>2. QED  BY <3>1, <1>2
  <2>2. ASSUME NEW r \in Rows(d, t) PROVE Narrow(r) \in {Narrow(f) : f \in F}
    <3>1. PICK f \in F : r = [j \in C |-> f[j]]  BY <1>1
    <3>2. QED  BY <3>1, <1>2
  <2>3. QED  BY <2>1, <2>2
<1>6. QED  BY <1>3, <1>4, <1>5 DEF Set, Put

LEMMA Made ==
    ASSUME NEW d, NEW t, NEW C, d[t] = NoTable
    PROVE  /\ CreateTable(d, t, C) = Put(d, t, Filled(C, {}))
           /\ EnsureTable(d, t, C) = Put(d, t, Filled(C, {}))
BY DEF CreateTable, EnsureTable, Exists, Set, Filled, Put

LEMMA MadeBefore ==
    ASSUME NEW d, NEW t, NEW C, NEW D, NEW F, d[t] = Filled(D, F)
    PROVE  CreateTable(d, t, C) = Error /\ EnsureTable(d, t, C) = d
BY FilledIs DEF CreateTable, EnsureTable, Exists

\* Rows that are copies of F go into an empty table.
LEMMA Inserted ==
    ASSUME NEW d, NEW t, NEW C, NEW F, NEW rows, NEW key, d[t] = Filled(C, {}),
           rows = {[k \in C |-> f[k]] : f \in F}
    PROVE  Insert(d, t, rows, key) = Put(d, t, Filled(C, F))
<1>1. Cols(d, t) = C /\ Rows(d, t) = {}  BY FilledIs DEF Cols, Rows
<1>2. Insert(d, t, rows, key) = Set(d, t, C, rows)  BY <1>1 DEF Insert
<1>3. QED  BY <1>2 DEF Set, Filled, Put

-----------------------------------------------------------------------------
(* A statement writes one table                                             *)

\* Two places are alike for a statement that both or neither have run.
Alike(m, s, n, i, k, j) == Past(m, s, k, j) <=> Past(n, i, k, j)

LEMMA SameContents ==
    ASSUME NEW c, NEW m, NEW s, NEW n, NEW i
    PROVE  /\ Alike(m, s, n, i, 5, 1) /\ Alike(m, s, n, i, 10, 1)
                => ReleasesNow(c, m, s) = ReleasesNow(c, n, i)
           /\ Alike(m, s, n, i, 7, 2) /\ Alike(m, s, n, i, 7, 4)
                => VariantsNow(c, m, s) = VariantsNow(c, n, i)
           /\ (Alike(m, s, n, i, 3, 1) /\ Alike(m, s, n, i, 3, 2) /\ Alike(m, s, n, i, 4, 1)
                    /\ Alike(m, s, n, i, 4, 2) /\ Alike(m, s, n, i, 4, 3))
                => AppsAt(m, s) = AppsAt(n, i)
           /\ Alike(m, s, n, i, 9, 1) /\ Alike(m, s, n, i, 9, 2) /\ Alike(m, s, n, i, 9, 3)
                => ReleasesAt(m, s) = ReleasesAt(n, i)
           /\ Alike(m, s, n, i, 7, 2) /\ Alike(m, s, n, i, 7, 5) /\ Alike(m, s, n, i, 8, 2)
                => VariantsAt(m, s) = VariantsAt(n, i)
<1>1. ASSUME Alike(m, s, n, i, 5, 1), Alike(m, s, n, i, 10, 1)
      PROVE  ReleasesNow(c, m, s) = ReleasesNow(c, n, i)
  <2>1. \A r \in c.releases : ReleaseNow(c, m, s, r) = ReleaseNow(c, n, i, r)
        BY <1>1 DEF ReleaseNow, Alike
  <2>2. QED  BY <2>1 DEF ReleasesNow
<1>2. Alike(m, s, n, i, 7, 2) /\ Alike(m, s, n, i, 7, 4)
        => VariantsNow(c, m, s) = VariantsNow(c, n, i)
      BY DEF VariantsNow, Alike
<1>3. ASSUME Alike(m, s, n, i, 3, 1), Alike(m, s, n, i, 3, 2),
             Alike(m, s, n, i, 4, 1), Alike(m, s, n, i, 4, 2), Alike(m, s, n, i, 4, 3)
      PROVE  AppsAt(m, s) = AppsAt(n, i)
  <2>1. \A k : k \in AppsAt(m, s) <=> k \in AppsAt(n, i)
        BY <1>3 DEF AppsAt, Alike
  <2>2. QED  BY <2>1
<1>4. Alike(m, s, n, i, 9, 1) /\ Alike(m, s, n, i, 9, 2) /\ Alike(m, s, n, i, 9, 3)
        => ReleasesAt(m, s) = ReleasesAt(n, i)
      BY DEF ReleasesAt, Alike
<1>5. Alike(m, s, n, i, 7, 2) /\ Alike(m, s, n, i, 7, 5) /\ Alike(m, s, n, i, 8, 2)
        => VariantsAt(m, s) = VariantsAt(n, i)
      BY DEF VariantsAt, Alike
<1>6. QED  BY <1>1, <1>2, <1>3, <1>4, <1>5

\* A statement changes contents or columns only in the scripts that are about them.
LEMMA SameNext ==
    ASSUME NEW c, NEW m \in Migration, NEW s \in 1 .. 12
    PROVE  /\ m \notin {5, 10} => ReleasesNow(c, m, s) = ReleasesNow(c, m, s + 1)
           /\ m # 7 \/ s \notin {2, 4} => VariantsNow(c, m, s) = VariantsNow(c, m, s + 1)
           /\ m \notin {3, 4} => AppsAt(m, s) = AppsAt(m, s + 1)
           /\ m # 9 => ReleasesAt(m, s) = ReleasesAt(m, s + 1)
           /\ m \notin {7, 8} \/ (m = 7 /\ s \notin {2, 5}) \/ (m = 8 /\ s # 2)
                => VariantsAt(m, s) = VariantsAt(m, s + 1)
<1>1. ASSUME m \notin {5, 10} PROVE ReleasesNow(c, m, s) = ReleasesNow(c, m, s + 1)
  <2>1. Alike(m, s, m, s + 1, 5, 1) /\ Alike(m, s, m, s + 1, 10, 1)
        BY <1>1 DEF Alike, Past, Migration
  <2>2. QED  BY <2>1, SameContents
<1>2. ASSUME m # 7 \/ s \notin {2, 4} PROVE VariantsNow(c, m, s) = VariantsNow(c, m, s + 1)
  <2>1. Alike(m, s, m, s + 1, 7, 2) /\ Alike(m, s, m, s + 1, 7, 4)
        BY <1>2 DEF Alike, Past, Migration
  <2>2. QED  BY <2>1, SameContents
<1>3. ASSUME m \notin {3, 4} PROVE AppsAt(m, s) = AppsAt(m, s + 1)
  <2>1. /\ Alike(m, s, m, s + 1, 3, 1) /\ Alike(m, s, m, s + 1, 3, 2)
        /\ Alike(m, s, m, s + 1, 4, 1) /\ Alike(m, s, m, s + 1, 4, 2)
        /\ Alike(m, s, m, s + 1, 4, 3)
        BY <1>3 DEF Alike, Past, Migration
  <2>2. QED  BY <2>1, SameContents
<1>4. ASSUME m # 9 PROVE ReleasesAt(m, s) = ReleasesAt(m, s + 1)
  <2>1. /\ Alike(m, s, m, s + 1, 9, 1) /\ Alike(m, s, m, s + 1, 9, 2)
        /\ Alike(m, s, m, s + 1, 9, 3)
        BY <1>4 DEF Alike, Past, Migration
  <2>2. QED  BY <2>1, SameContents
<1>5. ASSUME m \notin {7, 8} \/ (m = 7 /\ s \notin {2, 5}) \/ (m = 8 /\ s # 2)
      PROVE  VariantsAt(m, s) = VariantsAt(m, s + 1)
  <2>1. /\ Alike(m, s, m, s + 1, 7, 2) /\ Alike(m, s, m, s + 1, 7, 5)
        /\ Alike(m, s, m, s + 1, 8, 2)
        BY <1>5 DEF Alike, Past, Migration
  <2>2. QED  BY <2>1, SameContents
<1>6. QED  BY <1>1, <1>2, <1>3, <1>4, <1>5

\* The places where a script goes on to its next statement, by what it writes.
LEMMA OnApps ==
    ASSUME NEW d, NEW c, NEW m, NEW s, Holds(d, c, m, s),
           <<m, s>> \in {<<2, 1>>, <<3, 1>>, <<3, 2>>, <<4, 1>>, <<4, 2>>, <<4, 3>>, <<6, 9>>}
    PROVE  Holds(Put(d, "apps", AppsTable(c, m, s + 1)), c, m, s + 1)
<1>1. /\ ReleasesNow(c, m, s) = ReleasesNow(c, m, s + 1)
      /\ VariantsNow(c, m, s) = VariantsNow(c, m, s + 1)
      /\ ReleasesAt(m, s) = ReleasesAt(m, s + 1)
      /\ VariantsAt(m, s) = VariantsAt(m, s + 1)
      BY SameNext DEF Migration
<1>2. QED
      BY <1>1 DEF Holds, Put, Past, Ensured, MigrationsTable, AppsTable, AppsNewTable, VariantsTable,
                  ReleasesTable, OldReleasesTable, AccountsTable, Table

LEMMA OnReleases ==
    ASSUME NEW d, NEW c, NEW m, NEW s, Holds(d, c, m, s),
           <<m, s>> \in {<<2, 2>>, <<5, 1>>, <<6, 6>>, <<6, 7>>, <<9, 1>>, <<9, 2>>, <<9, 3>>, <<10, 1>>}
    PROVE  Holds(Put(d, "releases", ReleasesTable(c, m, s + 1)), c, m, s + 1)
<1>1. /\ VariantsNow(c, m, s) = VariantsNow(c, m, s + 1)
      /\ AppsAt(m, s) = AppsAt(m, s + 1)
      /\ VariantsAt(m, s) = VariantsAt(m, s + 1)
      /\ m = 6 => ReleasesNow(c, m, s) = ReleasesNow(c, m, s + 1)
      BY SameNext DEF Migration
<1>2. QED
      BY <1>1 DEF Holds, Put, Past, Ensured, MigrationsTable, AppsTable, AppsNewTable, VariantsTable,
                  ReleasesTable, OldReleasesTable, AccountsTable, Table

LEMMA OnVariants ==
    ASSUME NEW d, NEW c, NEW m, NEW s, Holds(d, c, m, s),
           <<m, s>> \in {<<6, 3>>, <<6, 4>>, <<7, 2>>, <<7, 4>>, <<7, 5>>, <<8, 2>>}
    PROVE  Holds(Put(d, "app_platforms", VariantsTable(c, m, s + 1)), c, m, s + 1)
<1>1. /\ ReleasesNow(c, m, s) = ReleasesNow(c, m, s + 1)
      /\ AppsAt(m, s) = AppsAt(m, s + 1)
      /\ ReleasesAt(m, s) = ReleasesAt(m, s + 1)
      BY SameNext DEF Migration
<1>2. QED
      BY <1>1 DEF Holds, Put, Past, Ensured, MigrationsTable, AppsTable, AppsNewTable, VariantsTable,
                  ReleasesTable, OldReleasesTable, AccountsTable, Table

LEMMA OnAppsNew ==
    ASSUME NEW d, NEW c, NEW m, NEW s, Holds(d, c, m, s),
           <<m, s>> \in {<<6, 1>>, <<6, 2>>, <<6, 11>>, <<6, 12>>}
    PROVE  Holds(Put(d, "apps_new", AppsNewTable(c, m, s + 1)), c, m, s + 1)
<1>1. /\ ReleasesNow(c, m, s) = ReleasesNow(c, m, s + 1)
      /\ VariantsNow(c, m, s) = VariantsNow(c, m, s + 1)
      /\ AppsAt(m, s) = AppsAt(m, s + 1)
      /\ ReleasesAt(m, s) = ReleasesAt(m, s + 1)
      /\ VariantsAt(m, s) = VariantsAt(m, s + 1)
      BY SameNext DEF Migration
<1>2. QED
      BY <1>1 DEF Holds, Put, Past, Ensured, MigrationsTable, AppsTable, AppsNewTable, VariantsTable,
                  ReleasesTable, OldReleasesTable, AccountsTable, Table

LEMMA OnAccounts ==
    ASSUME NEW d, NEW c, NEW m, NEW s, Holds(d, c, m, s),
           <<m, s>> \in {<<7, 1>>, <<7, 3>>}
    PROVE  Holds(Put(d, "play_accounts", AccountsTable(c, m, s + 1)), c, m, s + 1)
<1>1. /\ ReleasesNow(c, m, s) = ReleasesNow(c, m, s + 1)
      /\ VariantsNow(c, m, s) = VariantsNow(c, m, s + 1)
      /\ AppsAt(m, s) = AppsAt(m, s + 1)
      /\ ReleasesAt(m, s) = ReleasesAt(m, s + 1)
      /\ VariantsAt(m, s) = VariantsAt(m, s + 1)
      BY SameNext DEF Migration
<1>2. QED
      BY <1>1 DEF Holds, Put, Past, Ensured, MigrationsTable, AppsTable, AppsNewTable, VariantsTable,
                  ReleasesTable, OldReleasesTable, AccountsTable, Table

LEMMA OnOthers ==
    ASSUME NEW d, NEW c, NEW m, NEW s, Holds(d, c, m, s), NEW t, NEW C,
           <<m, s, t, C>> \in
             {<<1, 1, "migrations", {"migration_number"}>>, <<1, 2, "visitors", {"id"}>>,
              <<2, 3, "api_tokens", {"token_hash"}>>, <<2, 4, "sessions", {"token_hash"}>>,
              <<2, 5, "config", {"key"}>>, <<8, 1, "idx_releases_platform_code", {}>>}
    PROVE  Holds(Put(d, t, Filled(C, {})), c, m, s + 1)
<1>1. /\ ReleasesNow(c, m, s) = ReleasesNow(c, m, s + 1)
      /\ VariantsNow(c, m, s) = VariantsNow(c, m, s + 1)
      /\ AppsAt(m, s) = AppsAt(m, s + 1)
      /\ ReleasesAt(m, s) = ReleasesAt(m, s + 1)
      /\ VariantsAt(m, s) = VariantsAt(m, s + 1)
      BY SameNext DEF Migration
<1> DEFINE e == Put(d, t, Filled(C, {}))
<1>2. t \in Table /\ e = [u \in Table |-> e[u]]
      /\ e[t] = Filled(C, {}) /\ \A u \in Table \ {t} : e[u] = d[u]
      BY DEF Holds, Put, Table
<1> HIDE DEF e
<1>3. Holds(e, c, m, s + 1)
  <2>1. CASE t = "migrations"
        BY <1>1, <1>2, <2>1 DEF Holds, Put, Past, Ensured, MigrationsTable, AppsTable, AppsNewTable, Numbers,
                  VariantsTable, ReleasesTable, OldReleasesTable, AccountsTable, Table
  <2>2. CASE t = "visitors"
        BY <1>1, <1>2, <2>2 DEF Holds, Put, Past, Ensured, MigrationsTable,
               AppsTable, AppsNewTable, VariantsTable, ReleasesTable, OldReleasesTable,
               AccountsTable, Table
  <2>3. CASE t = "api_tokens"
        BY <1>1, <1>2, <2>3 DEF Holds, Put, Past, Ensured, MigrationsTable,
               AppsTable, AppsNewTable, VariantsTable, ReleasesTable, OldReleasesTable,
               AccountsTable, Table
  <2>4. CASE t = "sessions"
        BY <1>1, <1>2, <2>4 DEF Holds, Put, Past, Ensured, MigrationsTable,
               AppsTable, AppsNewTable, VariantsTable, ReleasesTable, OldReleasesTable,
               AccountsTable, Table
  <2>5. CASE t = "config"
        BY <1>1, <1>2, <2>5 DEF Holds, Put, Past, Ensured, MigrationsTable,
               AppsTable, AppsNewTable, VariantsTable, ReleasesTable, OldReleasesTable,
               AccountsTable, Table
  <2>6. CASE t = "idx_releases_platform_code"
        BY <1>1, <1>2, <2>6 DEF Holds, Put, Past, Ensured, MigrationsTable,
               AppsTable, AppsNewTable, VariantsTable, ReleasesTable, OldReleasesTable,
               AccountsTable, Table
  <2>7. QED  BY <2>1, <2>2, <2>3, <2>4, <2>5, <2>6
<1>4. QED  BY <1>3 DEF e

LEMMA OnOldReleases ==
    ASSUME NEW d, NEW c, Holds(d, c, 6, 8)
    PROVE  Holds(Put(d, "old_releases", NoTable), c, 6, 9)
<1>1. /\ ReleasesNow(c, 6, 8) = ReleasesNow(c, 6, 9)
      /\ VariantsNow(c, 6, 8) = VariantsNow(c, 6, 9)
      /\ AppsAt(6, 8) = AppsAt(6, 9)
      /\ ReleasesAt(6, 8) = ReleasesAt(6, 9)
      /\ VariantsAt(6, 8) = VariantsAt(6, 9)
      BY SameNext DEF Migration
<1>2. QED
      BY <1>1 DEF Holds, Put, Past, Ensured, MigrationsTable, AppsTable, AppsNewTable, VariantsTable,
                  ReleasesTable, OldReleasesTable, AccountsTable, Table

LEMMA ReleasesRenamed ==
    ASSUME NEW d, NEW c, Holds(d, c, 6, 5)
    PROVE  Holds([d EXCEPT !["old_releases"] = d["releases"], !["releases"] = NoTable], c, 6, 6)
<1>1. /\ ReleasesNow(c, 6, 5) = ReleasesNow(c, 6, 6)
      /\ VariantsNow(c, 6, 5) = VariantsNow(c, 6, 6)
      /\ AppsAt(6, 5) = AppsAt(6, 6)
      /\ ReleasesAt(6, 5) = ReleasesAt(6, 6)
      /\ VariantsAt(6, 5) = VariantsAt(6, 6)
      BY SameNext DEF Migration
<1> DEFINE e == [d EXCEPT !["old_releases"] = d["releases"], !["releases"] = NoTable]
<1>2. /\ e = [t \in Table |-> e[t]]
      /\ e["old_releases"] = d["releases"] /\ e["releases"] = NoTable
      /\ \A t \in Table \ {"releases", "old_releases"} : e[t] = d[t]
      BY DEF Holds, Table
<1> HIDE DEF e
<1>3. Holds(e, c, 6, 6)
      BY <1>1, <1>2 DEF Holds, Put, Past, Ensured, MigrationsTable, AppsTable, AppsNewTable,
                  VariantsTable, ReleasesTable, OldReleasesTable, AccountsTable, Table
<1>4. QED  BY <1>3 DEF e

LEMMA AppsRenamed ==
    ASSUME NEW d, NEW c, Holds(d, c, 6, 10)
    PROVE  Holds([d EXCEPT !["apps"] = d["apps_new"], !["apps_new"] = NoTable], c, 6, 11)
<1>1. /\ ReleasesNow(c, 6, 10) = ReleasesNow(c, 6, 11)
      /\ VariantsNow(c, 6, 10) = VariantsNow(c, 6, 11)
      /\ AppsAt(6, 10) = AppsAt(6, 11)
      /\ ReleasesAt(6, 10) = ReleasesAt(6, 11)
      /\ VariantsAt(6, 10) = VariantsAt(6, 11)
      BY SameNext DEF Migration
<1> DEFINE e == [d EXCEPT !["apps"] = d["apps_new"], !["apps_new"] = NoTable]
<1>2. /\ e = [t \in Table |-> e[t]]
      /\ e["apps"] = d["apps_new"] /\ e["apps_new"] = NoTable
      /\ \A t \in Table \ {"apps_new", "apps"} : e[t] = d[t]
      BY DEF Holds, Table
<1> HIDE DEF e
<1>3. Holds(e, c, 6, 11)
      BY <1>1, <1>2 DEF Holds, Put, Past, Ensured, MigrationsTable, AppsTable, AppsNewTable,
                  VariantsTable, ReleasesTable, OldReleasesTable, AccountsTable, Table
<1>4. QED  BY <1>3 DEF e

\* The last statement of a script records it, and the next script is due.
LEMMA OnRecord ==
    ASSUME NEW d, NEW c, NEW m \in Migration, NEW s, s = Statements[m], Holds(d, c, m, s)
    PROVE  Holds(Record(d, m), c, m + 1, 1)
<1>1. /\ ReleasesNow(c, m, s) = ReleasesNow(c, m + 1, 1)
      /\ VariantsNow(c, m, s) = VariantsNow(c, m + 1, 1)
      /\ AppsAt(m, s) = AppsAt(m + 1, 1)
      /\ ReleasesAt(m, s) = ReleasesAt(m + 1, 1)
      /\ VariantsAt(m, s) = VariantsAt(m + 1, 1)
  <2>1. /\ Alike(m, s, m + 1, 1, 5, 1) /\ Alike(m, s, m + 1, 1, 10, 1) /\ Alike(m, s, m + 1, 1, 7, 2)
        /\ Alike(m, s, m + 1, 1, 7, 4) /\ Alike(m, s, m + 1, 1, 3, 1) /\ Alike(m, s, m + 1, 1, 3, 2)
        /\ Alike(m, s, m + 1, 1, 4, 1) /\ Alike(m, s, m + 1, 1, 4, 2) /\ Alike(m, s, m + 1, 1, 4, 3)
        /\ Alike(m, s, m + 1, 1, 9, 1) /\ Alike(m, s, m + 1, 1, 9, 2) /\ Alike(m, s, m + 1, 1, 9, 3)
        /\ Alike(m, s, m + 1, 1, 7, 5) /\ Alike(m, s, m + 1, 1, 8, 2)
        BY DEF Alike, Past, Statements, Migration
  <2>2. QED  BY <2>1, SameContents
<1>2. d["migrations"] = Filled({"migration_number"}, Numbers(m))
      BY DEF Holds, MigrationsTable, Past, Statements, Migration
<1>3. MigrationsTable(m + 1, 1) = Filled({"migration_number"}, Numbers(m + 1))
      BY DEF MigrationsTable, Past, Migration
<1>4. Record(d, m) = Put(d, "migrations", MigrationsTable(m + 1, 1))
  <2>1. Cols(d, "migrations") = {"migration_number"}
        /\ Rows(d, "migrations") = {[k \in {"migration_number"} |-> f[k]] : f \in Numbers(m)}
        BY <1>2, FilledIs DEF Cols, Rows
  <2>2. \A n : [k \in {"migration_number"} |-> [migration_number |-> n][k]] = [migration_number |-> n]
        OBVIOUS
  <2>3. Rows(d, "migrations") = Numbers(m)
        BY <2>1, <2>2 DEF Numbers
  <2>4. {[k \in {"migration_number"} |-> f[k]] : f \in Numbers(m + 1)} = Numbers(m + 1)
        BY <2>2 DEF Numbers
  <2>5. Numbers(m + 1) = Numbers(m) \cup {[migration_number |-> m]}
        BY DEF Numbers, Migration
  <2>6. QED  BY <1>3, <2>1, <2>3, <2>4, <2>5 DEF Record, Set, Filled, Put
<1>5. QED
      BY <1>1, <1>4, SMTT(60) DEF Holds, Put, Past, Ensured, MigrationsTable, AppsTable, AppsNewTable,
                  VariantsTable, ReleasesTable, OldReleasesTable, AccountsTable, Table, Statements,
                  Migration

-----------------------------------------------------------------------------
(* The scripts, from the top                                                *)

\* Statement s of script m is run, and what it makes is what comes after it.
Goes(d, c, m, s) ==
    /\ Run(d, m, s) # Error
    /\ Holds(Run(d, m, s), c, m, s + 1)

LEMMA HeldGoes ==
    ASSUME NEW d, NEW c, NEW m, NEW s, Holds(Run(d, m, s), c, m, s + 1)
    PROVE  Goes(d, c, m, s)
BY Accepted DEF Goes, Holds

LEMMA BaseGoes ==
    ASSUME NEW d, NEW c, NEW s \in 1 .. 2, Holds(d, c, 1, s)
    PROVE  Goes(d, c, 1, s)
<1>1. CASE s = 1
  <2>1. d["migrations"] = NoTable  BY <1>1 DEF Holds, MigrationsTable, Past
  <2>2. Run(d, 1, 1) = Put(d, "migrations", Filled({"migration_number"}, {}))
        BY <2>1, Made DEF Run, Base
  <2>3. QED  BY <1>1, <2>2, OnOthers, HeldGoes
<1>2. CASE s = 2
  <2>1. d["visitors"] = NoTable  BY <1>2 DEF Holds, Ensured, Past
  <2>2. Run(d, 1, 2) = Put(d, "visitors", Filled({"id"}, {}))
        BY <2>1, Made DEF Run, Base
  <2>3. QED  BY <1>2, <2>2, OnOthers, HeldGoes
<1>3. QED  BY <1>1, <1>2

\* A version before script 2 has no apps and no releases.
LEMMA Nothing ==
    ASSUME NEW c \in Contents, Plausible(c), c.ver < 2, NEW m, NEW s
    PROVE  VariantRows(c) = {} /\ ReleasesNow(c, m, s) = {}
<1>1. c.variants = {}  BY DEF Plausible
<1>2. c.releases = {}  BY <1>1 DEF Plausible
<1>3. QED  BY <1>1, <1>2 DEF VariantRows, ReleasesNow

LEMMA ReleaseHubGoes ==
    ASSUME NEW d, NEW c \in Contents, Plausible(c), c.ver < 2,
           NEW s \in 1 .. 5, Holds(d, c, 2, s)
    PROVE  Goes(d, c, 2, s)
<1>1. CASE s = 1
  <2>1. d["apps"] = NoTable  BY <1>1 DEF Holds, AppsTable, Past
  <2>2. AppsAt(2, 2) = {"slug", "platform"}  BY DEF AppsAt, Past, Sign
  <2>3. AppsTable(c, 2, 2) = Filled({"slug", "platform"}, {})
        BY <2>2, Nothing DEF AppsTable, Past
  <2>4. Run(d, 2, 1) = Put(d, "apps", AppsTable(c, 2, 2))
        BY <2>1, <2>3, Made DEF Run, ReleaseHub
  <2>5. QED  BY <1>1, <2>4, OnApps, HeldGoes
<1>2. CASE s = 2
  <2>1. d["releases"] = NoTable  BY <1>2 DEF Holds, ReleasesTable, Past
  <2>2. ReleasesTable(c, 2, 3) = Filled(OldCols, {})
    <3>1. ReleasesNow(c, 2, 3) = {}  BY Nothing
    <3>2. QED  BY <3>1 DEF ReleasesTable, Past
  <2>3. Run(d, 2, 2) = Put(d, "releases", ReleasesTable(c, 2, 3))
        BY <2>1, <2>2, Made DEF Run, ReleaseHub, OldCols
  <2>4. QED  BY <1>2, <2>3, OnReleases, HeldGoes
<1>3. CASE s = 3
  <2>1. d["api_tokens"] = NoTable  BY <1>3 DEF Holds, Ensured, Past
  <2>2. Run(d, 2, 3) = Put(d, "api_tokens", Filled({"token_hash"}, {}))
        BY <2>1, Made DEF Run, ReleaseHub
  <2>3. QED  BY <1>3, <2>2, OnOthers, HeldGoes
<1>4. CASE s = 4
  <2>1. d["sessions"] = NoTable  BY <1>4 DEF Holds, Ensured, Past
  <2>2. Run(d, 2, 4) = Put(d, "sessions", Filled({"token_hash"}, {}))
        BY <2>1, Made DEF Run, ReleaseHub
  <2>3. QED  BY <1>4, <2>2, OnOthers, HeldGoes
<1>5. CASE s = 5
  <2>1. d["config"] = NoTable  BY <1>5 DEF Holds, Ensured, Past
  <2>2. Run(d, 2, 5) = Put(d, "config", Filled({"key"}, {}))
        BY <2>1, Made DEF Run, ReleaseHub
  <2>3. QED  BY <1>5, <2>2, OnOthers, HeldGoes
<1>6. QED  BY <1>1, <1>2, <1>3, <1>4, <1>5

LEMMA PlayConfigGoes ==
    ASSUME NEW d, NEW c \in Contents, Plausible(c), c.ver < 3,
           NEW s \in 1 .. 2, Holds(d, c, 3, s)
    PROVE  Goes(d, c, 3, s)
<1>1. CASE s = 1
  <2>1. d["apps"] = Filled(AppsAt(3, 1), VariantRows(c))
        /\ AppsTable(c, 3, 2) = Filled(AppsAt(3, 2), VariantRows(c))
        BY <1>1 DEF Holds, AppsTable, Past
  <2>2. "play_enabled" \notin AppsAt(3, 1) /\ AppsAt(3, 2) = AppsAt(3, 1) \cup {"play_enabled"}
        BY DEF AppsAt, Past, Sign
  <2>3. \A f \in VariantRows(c) : f["play_enabled"] = 0
        BY DEF Plausible, VariantRows, VariantRow
  <2>4. Run(d, 3, 1) = AddColumn(d, "apps", "play_enabled", 0)  BY DEF Run, PlayConfig
  <2>5. AddColumn(d, "apps", "play_enabled", 0)
          = Put(d, "apps", Filled(AppsAt(3, 1) \cup {"play_enabled"}, VariantRows(c)))
        BY <2>1, <2>2, <2>3, Added
  <2>6. Run(d, 3, 1) = Put(d, "apps", AppsTable(c, 3, 2))
        BY <2>1, <2>2, <2>4, <2>5
  <2>7. QED  BY <1>1, <2>6, OnApps, HeldGoes
<1>2. CASE s = 2
  <2>1. d["apps"] = Filled(AppsAt(3, 2), VariantRows(c))
        /\ AppsTable(c, 3, 3) = Filled(AppsAt(3, 3), VariantRows(c))
        BY <1>2 DEF Holds, AppsTable, Past
  <2>2. "play_credentials" \notin AppsAt(3, 2) /\ AppsAt(3, 3) = AppsAt(3, 2) \cup {"play_credentials"}
        BY DEF AppsAt, Past, Sign
  <2>3. \A f \in VariantRows(c) : f["play_credentials"] = None
        BY DEF Plausible, VariantRows, VariantRow
  <2>4. Run(d, 3, 2) = AddColumn(d, "apps", "play_credentials", None)  BY DEF Run, PlayConfig
  <2>5. AddColumn(d, "apps", "play_credentials", None)
          = Put(d, "apps", Filled(AppsAt(3, 2) \cup {"play_credentials"}, VariantRows(c)))
        BY <2>1, <2>2, <2>3, Added
  <2>6. Run(d, 3, 2) = Put(d, "apps", AppsTable(c, 3, 3))
        BY <2>1, <2>2, <2>4, <2>5
  <2>7. QED  BY <1>2, <2>6, OnApps, HeldGoes
<1>3. QED  BY <1>1, <1>2

LEMMA SigningGoes ==
    ASSUME NEW d, NEW c \in Contents, Plausible(c), c.ver < 4,
           NEW s \in 1 .. 3, Holds(d, c, 4, s)
    PROVE  Goes(d, c, 4, s)
<1>1. CASE s = 1
  <2>1. d["apps"] = Filled(AppsAt(4, 1), VariantRows(c))
        /\ AppsTable(c, 4, 2) = Filled(AppsAt(4, 2), VariantRows(c))
        BY <1>1 DEF Holds, AppsTable, Past
  <2>2. "sign_keystore" \notin AppsAt(4, 1) /\ AppsAt(4, 2) = AppsAt(4, 1) \cup {"sign_keystore"}
        BY DEF AppsAt, Past, Sign
  <2>3. \A f \in VariantRows(c) : f["sign_keystore"] = None
        BY DEF Plausible, VariantRows, VariantRow
  <2>4. Run(d, 4, 1) = AddColumn(d, "apps", "sign_keystore", None)  BY DEF Run, Signing
  <2>5. AddColumn(d, "apps", "sign_keystore", None)
          = Put(d, "apps", Filled(AppsAt(4, 1) \cup {"sign_keystore"}, VariantRows(c)))
        BY <2>1, <2>2, <2>3, Added
  <2>6. Run(d, 4, 1) = Put(d, "apps", AppsTable(c, 4, 2))
        BY <2>1, <2>2, <2>4, <2>5
  <2>7. QED  BY <1>1, <2>6, OnApps, HeldGoes
<1>2. CASE s = 2
  <2>1. d["apps"] = Filled(AppsAt(4, 2), VariantRows(c))
        /\ AppsTable(c, 4, 3) = Filled(AppsAt(4, 3), VariantRows(c))
        BY <1>2 DEF Holds, AppsTable, Past
  <2>2. "sign_config" \notin AppsAt(4, 2) /\ AppsAt(4, 3) = AppsAt(4, 2) \cup {"sign_config"}
        BY DEF AppsAt, Past, Sign
  <2>3. \A f \in VariantRows(c) : f["sign_config"] = None
        BY DEF Plausible, VariantRows, VariantRow
  <2>4. Run(d, 4, 2) = AddColumn(d, "apps", "sign_config", None)  BY DEF Run, Signing
  <2>5. AddColumn(d, "apps", "sign_config", None)
          = Put(d, "apps", Filled(AppsAt(4, 2) \cup {"sign_config"}, VariantRows(c)))
        BY <2>1, <2>2, <2>3, Added
  <2>6. Run(d, 4, 2) = Put(d, "apps", AppsTable(c, 4, 3))
        BY <2>1, <2>2, <2>4, <2>5
  <2>7. QED  BY <1>2, <2>6, OnApps, HeldGoes
<1>3. CASE s = 3
  <2>1. d["apps"] = Filled(AppsAt(4, 3), VariantRows(c))
        /\ AppsTable(c, 4, 4) = Filled(AppsAt(4, 4), VariantRows(c))
        BY <1>3 DEF Holds, AppsTable, Past
  <2>2. "sign_sha256" \notin AppsAt(4, 3) /\ AppsAt(4, 4) = AppsAt(4, 3) \cup {"sign_sha256"}
        BY DEF AppsAt, Past, Sign
  <2>3. \A f \in VariantRows(c) : f["sign_sha256"] = None
        BY DEF Plausible, VariantRows, VariantRow
  <2>4. Run(d, 4, 3) = AddColumn(d, "apps", "sign_sha256", None)  BY DEF Run, Signing
  <2>5. AddColumn(d, "apps", "sign_sha256", None)
          = Put(d, "apps", Filled(AppsAt(4, 3) \cup {"sign_sha256"}, VariantRows(c)))
        BY <2>1, <2>2, <2>3, Added
  <2>6. Run(d, 4, 3) = Put(d, "apps", AppsTable(c, 4, 4))
        BY <2>1, <2>2, <2>4, <2>5
  <2>7. QED  BY <1>3, <2>6, OnApps, HeldGoes
<1>4. QED  BY <1>1, <1>2, <1>3

\* What scripts 5 and 10 make of a release.
LEMMA NowIs ==
    ASSUME NEW c \in Contents, NEW r \in c.releases, NEW m, NEW s
    PROVE  /\ ReleaseNow(c, m, s, r).slug = r.slug
           /\ ReleaseNow(c, m, s, r).platform = r.platform
           /\ ReleaseNow(c, m, s, r).code = r.code
           /\ ReleaseNow(c, m, s, r).error = r.error
           /\ ReleaseNow(c, m, s, r).channel =
                IF Past(m, s, 5, 1) /\ r.channel = "api-share" THEN "direct" ELSE r.channel
           /\ ReleaseNow(c, m, s, r).status =
                IF Past(m, s, 10, 1) /\ c.ver < 10 /\ r.status = "error" /\ r.error = None
                THEN "pending" ELSE r.status
<1>1. DOMAIN r = {"slug", "platform", "code", "channel", "status", "error"}
      BY MigrationsAssumption
<1>2. QED  BY <1>1 DEF ReleaseNow

LEMMA ReleaseRetentionGoes ==
    ASSUME NEW d, NEW c \in Contents, Plausible(c), c.ver < 8,
           NEW s \in 1 .. 2, Holds(d, c, 8, s)
    PROVE  Goes(d, c, 8, s)
<1>1. CASE s = 1
  <2>1. d["idx_releases_platform_code"] = NoTable  BY <1>1 DEF Holds, Ensured, Past
  <2>2. Run(d, 8, 1) = Put(d, "idx_releases_platform_code", Filled({}, {}))
        BY <2>1, Made DEF Run, ReleaseRetention
  <2>3. QED  BY <1>1, <2>2, OnOthers, HeldGoes
<1>2. CASE s = 2
  <2>1. VariantsNow(c, 8, 2) = VariantsNow(c, 8, 3)  BY SameNext DEF Migration
  <2>2. d["app_platforms"] = Filled(VariantsAt(8, 2), VariantsNow(c, 8, 2))
        /\ VariantsTable(c, 8, 3) = Filled(VariantsAt(8, 3), VariantsNow(c, 8, 2))
        BY <1>2, <2>1 DEF Holds, VariantsTable, Past
  <2>3. "prune_keep" \notin VariantsAt(8, 2) /\ VariantsAt(8, 3) = VariantsAt(8, 2) \cup {"prune_keep"}
        BY DEF VariantsAt, Past, PlatformCols, Sign
  <2>4. \A f \in VariantsNow(c, 8, 2) : f["prune_keep"] = None
        BY DEF VariantsNow, VariantRows, VariantRow, Past
  <2>5. AddColumn(d, "app_platforms", "prune_keep", None)
          = Put(d, "app_platforms", Filled(VariantsAt(8, 2) \cup {"prune_keep"}, VariantsNow(c, 8, 2)))
        BY <2>2, <2>3, <2>4, Added
  <2>6. Run(d, 8, 2) = Put(d, "app_platforms", VariantsTable(c, 8, 3))
        BY <2>2, <2>3, <2>5 DEF Run, ReleaseRetention
  <2>7. QED  BY <1>2, <2>6, OnVariants, HeldGoes
<1>3. QED  BY <1>1, <1>2

LEMMA PlayStatusGoes ==
    ASSUME NEW d, NEW c \in Contents, Plausible(c), c.ver < 9,
           NEW s \in 1 .. 3, Holds(d, c, 9, s)
    PROVE  Goes(d, c, 9, s)
<1>1. CASE s = 1
  <2>1. ReleasesNow(c, 9, 1) = ReleasesNow(c, 9, 2)  BY SameNext DEF Migration
  <2>2. d["releases"] = Filled(ReleasesAt(9, 1), ReleasesNow(c, 9, 1))
        /\ ReleasesTable(c, 9, 2) = Filled(ReleasesAt(9, 2), ReleasesNow(c, 9, 1))
        BY <1>1, <2>1 DEF Holds, ReleasesTable, Past
  <2>3. "play_status" \notin ReleasesAt(9, 1) /\ ReleasesAt(9, 2) = ReleasesAt(9, 1) \cup {"play_status"}
        BY DEF ReleasesAt, Past, ReleaseCols
  <2>4. \A f \in ReleasesNow(c, 9, 1) : f["play_status"] = "pending"
        BY NowIs DEF ReleasesNow, ReleaseRow, Plausible, Past
  <2>5. AddColumn(d, "releases", "play_status", "pending")
          = Put(d, "releases", Filled(ReleasesAt(9, 1) \cup {"play_status"}, ReleasesNow(c, 9, 1)))
        BY <2>2, <2>3, <2>4, Added
  <2>6. Run(d, 9, 1) = Put(d, "releases", ReleasesTable(c, 9, 2))
        BY <2>2, <2>3, <2>5 DEF Run, PlayStatus
  <2>7. QED  BY <1>1, <2>6, OnReleases, HeldGoes
<1>2. CASE s = 2
  <2>1. ReleasesNow(c, 9, 2) = ReleasesNow(c, 9, 3)  BY SameNext DEF Migration
  <2>2. d["releases"] = Filled(ReleasesAt(9, 2), ReleasesNow(c, 9, 2))
        /\ ReleasesTable(c, 9, 3) = Filled(ReleasesAt(9, 3), ReleasesNow(c, 9, 2))
        BY <1>2, <2>1 DEF Holds, ReleasesTable, Past
  <2>3. "play_error" \notin ReleasesAt(9, 2) /\ ReleasesAt(9, 3) = ReleasesAt(9, 2) \cup {"play_error"}
        BY DEF ReleasesAt, Past, ReleaseCols
  <2>4. \A f \in ReleasesNow(c, 9, 2) : f["play_error"] = None
        BY NowIs DEF ReleasesNow, ReleaseRow, Plausible, Past
  <2>5. AddColumn(d, "releases", "play_error", None)
          = Put(d, "releases", Filled(ReleasesAt(9, 2) \cup {"play_error"}, ReleasesNow(c, 9, 2)))
        BY <2>2, <2>3, <2>4, Added
  <2>6. Run(d, 9, 2) = Put(d, "releases", ReleasesTable(c, 9, 3))
        BY <2>2, <2>3, <2>5 DEF Run, PlayStatus
  <2>7. QED  BY <1>2, <2>6, OnReleases, HeldGoes
<1>3. CASE s = 3
  <2>1. ReleasesNow(c, 9, 3) = ReleasesNow(c, 9, 4)  BY SameNext DEF Migration
  <2>2. d["releases"] = Filled(ReleasesAt(9, 3), ReleasesNow(c, 9, 3))
        /\ ReleasesTable(c, 9, 4) = Filled(ReleasesAt(9, 4), ReleasesNow(c, 9, 3))
        BY <1>3, <2>1 DEF Holds, ReleasesTable, Past
  <2>3. "play_release" \notin ReleasesAt(9, 3) /\ ReleasesAt(9, 4) = ReleasesAt(9, 3) \cup {"play_release"}
        BY DEF ReleasesAt, Past, ReleaseCols
  <2>4. \A f \in ReleasesNow(c, 9, 3) : f["play_release"] = None
        BY NowIs DEF ReleasesNow, ReleaseRow, Plausible, Past
  <2>5. AddColumn(d, "releases", "play_release", None)
          = Put(d, "releases", Filled(ReleasesAt(9, 3) \cup {"play_release"}, ReleasesNow(c, 9, 3)))
        BY <2>2, <2>3, <2>4, Added
  <2>6. Run(d, 9, 3) = Put(d, "releases", ReleasesTable(c, 9, 4))
        BY <2>2, <2>3, <2>5 DEF Run, PlayStatus
  <2>7. QED  BY <1>3, <2>6, OnReleases, HeldGoes
<1>4. QED  BY <1>1, <1>2, <1>3

\* Script 5 renames the channel, and finds nothing to rename when it is repeated.
LEMMA ChannelRenameMakes ==
    ASSUME NEW d, NEW c \in Contents, Plausible(c), c.ver < 5,
           NEW s \in 1 .. 2, Holds(d, c, 5, s)
    PROVE  Run(d, 5, 1) = Put(d, "releases", ReleasesTable(c, 5, 2))
<1> DEFINE C == OldCols
           Fix(row) == IF row.channel = "api-share" THEN [row EXCEPT !.channel = "direct"] ELSE row
           Old(r) == [k \in C |-> ReleaseRow(ReleaseNow(c, 5, s, r))[k]]
           New(r) == [k \in C |-> ReleaseRow(ReleaseNow(c, 5, 2, r))[k]]
<1>1. d["releases"] = Filled(C, ReleasesNow(c, 5, s))
      /\ ReleasesTable(c, 5, 2) = Filled(C, ReleasesNow(c, 5, 2))
      BY DEF Holds, ReleasesTable, Past
<1>2. Run(d, 5, 1) = Set(d, "releases", Cols(d, "releases"), {Fix(row) : row \in Rows(d, "releases")})
      BY DEF Run, ChannelRename, Update
<1>3. ASSUME NEW r \in c.releases PROVE Fix(Old(r)) = New(r)
      BY NowIs DEF ReleaseRow, Past, OldCols
<1> HIDE DEF C
<1>4. Cols(d, "releases") = C /\ Rows(d, "releases") = {[k \in C |-> f[k]] : f \in ReleasesNow(c, 5, s)}
      BY <1>1, FilledIs DEF Cols, Rows
<1>5. Filled(C, ReleasesNow(c, 5, 2)) = [cols |-> C, rows |-> {[k \in C |-> f[k]] : f \in ReleasesNow(c, 5, 2)}]
      BY DEF Filled
<1>6. {[k \in C |-> f[k]] : f \in ReleasesNow(c, 5, s)} = {Old(r) : r \in c.releases}
      /\ {[k \in C |-> f[k]] : f \in ReleasesNow(c, 5, 2)} = {New(r) : r \in c.releases}
      BY DEF ReleasesNow
<1> HIDE DEF Fix, Old, New
<1>7. {Fix(row) : row \in {Old(r) : r \in c.releases}} = {New(r) : r \in c.releases}
  <2>1. ASSUME NEW r \in c.releases PROVE New(r) \in {Fix(row) : row \in {Old(q) : q \in c.releases}}
        BY <1>3
  <2>2. ASSUME NEW row \in {Old(r) : r \in c.releases} PROVE Fix(row) \in {New(r) : r \in c.releases}
        BY <1>3
  <2>3. QED  BY <2>1, <2>2
<1>8. QED  BY <1>1, <1>2, <1>4, <1>5, <1>6, <1>7 DEF Set, Put

\* Script 10 repairs the failures without a text, likewise.
LEMMA RepairMakes ==
    ASSUME NEW d, NEW c \in Contents, Plausible(c), c.ver < 10,
           NEW s \in 1 .. 2, Holds(d, c, 10, s)
    PROVE  Run(d, 10, 1) = Put(d, "releases", ReleasesTable(c, 10, 2))
<1> DEFINE C == ReleaseCols \cup {"play_status", "play_error", "play_release"}
           Fix(row) == IF row.play_status = "error" /\ row.play_error = None
                       THEN [row EXCEPT !.play_status = "pending"] ELSE row
           Old(r) == [k \in C |-> ReleaseRow(ReleaseNow(c, 10, s, r))[k]]
           New(r) == [k \in C |-> ReleaseRow(ReleaseNow(c, 10, 2, r))[k]]
<1>1. d["releases"] = Filled(C, ReleasesNow(c, 10, s))
      /\ ReleasesTable(c, 10, 2) = Filled(C, ReleasesNow(c, 10, 2))
      BY DEF Holds, ReleasesTable, ReleasesAt, Past
<1>2. Run(d, 10, 1) = Set(d, "releases", Cols(d, "releases"), {Fix(row) : row \in Rows(d, "releases")})
      BY DEF Run, RepairPlayStatus, Update
<1>3. ASSUME NEW r \in c.releases PROVE Fix(Old(r)) = New(r)
      BY NowIs DEF ReleaseRow, Past, ReleaseCols
<1> HIDE DEF C
<1>4. Cols(d, "releases") = C /\ Rows(d, "releases") = {[k \in C |-> f[k]] : f \in ReleasesNow(c, 10, s)}
      BY <1>1, FilledIs DEF Cols, Rows
<1>5. Filled(C, ReleasesNow(c, 10, 2)) = [cols |-> C, rows |-> {[k \in C |-> f[k]] : f \in ReleasesNow(c, 10, 2)}]
      BY DEF Filled
<1>6. {[k \in C |-> f[k]] : f \in ReleasesNow(c, 10, s)} = {Old(r) : r \in c.releases}
      /\ {[k \in C |-> f[k]] : f \in ReleasesNow(c, 10, 2)} = {New(r) : r \in c.releases}
      BY DEF ReleasesNow
<1> HIDE DEF Fix, Old, New
<1>7. {Fix(row) : row \in {Old(r) : r \in c.releases}} = {New(r) : r \in c.releases}
  <2>1. ASSUME NEW r \in c.releases PROVE New(r) \in {Fix(row) : row \in {Old(q) : q \in c.releases}}
        BY <1>3
  <2>2. ASSUME NEW row \in {Old(r) : r \in c.releases} PROVE Fix(row) \in {New(r) : r \in c.releases}
        BY <1>3
  <2>3. QED  BY <2>1, <2>2
<1>8. QED  BY <1>1, <1>2, <1>4, <1>5, <1>6, <1>7 DEF Set, Put

LEMMA Gone ==
    ASSUME NEW d, NEW t, NEW C, NEW F, d[t] = Filled(C, F)
    PROVE  DropTable(d, t) = Put(d, t, NoTable)
BY FilledIs DEF DropTable, Exists, Put

LEMMA RenamedTo ==
    ASSUME NEW d, NEW t, NEW C, NEW F, NEW new, d[t] = Filled(C, F), d[new] = NoTable
    PROVE  RenameTable(d, t, new) = [d EXCEPT ![new] = d[t], ![t] = NoTable]
BY FilledIs DEF RenameTable, Exists

\* The columns of table apps that script 6 starts from.
LEMMA AppsColumns ==
    ASSUME NEW s \in 1 .. 9
    PROVE  AppsAt(6, s) = {"slug", "platform", "play_enabled", "play_credentials"} \cup Sign
BY DEF AppsAt, Past

\* Script 6 copies the slugs to the new table of apps; a start that finds the
\* script run but not recorded copies them once more, from the same table.
LEMMA NewApps ==
    ASSUME NEW d, NEW c, NEW s \in {1, 11}, Holds(d, c, 6, s)
    PROVE  Run(d, 6, 1) = Put(d, "apps_new", AppsNewTable(c, 6, s + 1))
<1>1. d["apps_new"] = NoTable  BY DEF Holds, AppsNewTable
<1>2. AppsNewTable(c, 6, s + 1) = Filled({"slug"}, {})  BY DEF AppsNewTable
<1>3. QED  BY <1>1, <1>2, Made DEF Run, AppPlatforms

LEMMA CopiedApps ==
    ASSUME NEW d, NEW c, NEW s \in {2, 12}, Holds(d, c, 6, s)
    PROVE  Run(d, 6, 2) = Put(d, "apps_new", AppsNewTable(c, 6, s + 1))
<1> DEFINE Copied == {[slug |-> a.slug] : a \in Rows(d, "apps")}
           Slug(x) == [k \in {"slug"} |-> x[k]]
<1>1. d["apps_new"] = Filled({"slug"}, {})  BY DEF Holds, AppsNewTable
<1>2. AppsNewTable(c, 6, s + 1) = Filled({"slug"}, VariantRows(c))  BY DEF AppsNewTable
<1>3. PICK C : d["apps"] = Filled(C, VariantRows(c)) /\ "slug" \in C
  <2>1. CASE s = 2
        BY <2>1, AppsColumns DEF Holds, AppsTable, Past
  <2>2. CASE s = 12
        BY <2>2 DEF Holds, AppsTable, Past
  <2>3. QED  BY <2>1, <2>2
<1>4. Rows(d, "apps") = {[k \in C |-> f[k]] : f \in VariantRows(c)}
      BY <1>3, FilledIs DEF Rows
<1>5. \A f \in VariantRows(c) : [slug |-> [k \in C |-> f[k]].slug] = Slug(f)
      BY <1>3
<1> HIDE DEF Slug
<1>6. Copied = {Slug(f) : f \in VariantRows(c)}
  <2>1. ASSUME NEW f \in VariantRows(c) PROVE Slug(f) \in Copied
    <3>1. [k \in C |-> f[k]] \in Rows(d, "apps")  BY <1>4
    <3>2. QED  BY <1>5, <3>1
  <2>2. ASSUME NEW x \in Copied PROVE x \in {Slug(f) : f \in VariantRows(c)}
    <3>1. PICK a \in Rows(d, "apps") : x = [slug |-> a.slug]  OBVIOUS
    <3>2. PICK f \in VariantRows(c) : a = [k \in C |-> f[k]]  BY <1>4
    <3>3. QED  BY <1>5, <3>1, <3>2
  <2>3. QED  BY <2>1, <2>2
<1>7. Run(d, 6, 2) = Insert(d, "apps_new", Copied, {"slug"})
      BY DEF Run, AppPlatforms
<1>8. Insert(d, "apps_new", Copied, {"slug"}) = Put(d, "apps_new", Filled({"slug"}, VariantRows(c)))
      BY <1>1, <1>6, Inserted DEF Slug
<1>9. QED  BY <1>2, <1>7, <1>8

\* SELECT ... FROM apps gives the platform variants.
LEMMA SplitIs ==
    ASSUME NEW d, NEW c, d["apps"] = Filled(AppsAt(6, 4), VariantRows(c))
    PROVE  SplitApps(d) = {[k \in PlatformCols |-> f[k]] : f \in VariantRows(c)}
<1> DEFINE C == AppsAt(6, 4)
           Split(a) == [k \in PlatformCols |-> IF k = "app_id" THEN a.slug ELSE a[k]]
           Variant(f) == [k \in PlatformCols |-> f[k]]
           Cut(f) == [k \in C |-> f[k]]
<1>1. Rows(d, "apps") = {Cut(f) : f \in VariantRows(c)}
      BY FilledIs DEF Rows
<1>2. "slug" \in C /\ PlatformCols \ {"app_id"} \subseteq C
      BY AppsColumns DEF PlatformCols
<1> HIDE DEF C
<1>3. ASSUME NEW f \in VariantRows(c) PROVE Split(Cut(f)) = Variant(f)
  <2>1. f.app_id = f.slug  BY DEF VariantRows, VariantRow
  <2>2. QED  BY <1>2, <2>1
<1>4. SplitApps(d) = {Split(a) : a \in Rows(d, "apps")}  BY DEF SplitApps
<1> HIDE DEF Split, Variant, Cut
<1>5. {Split(a) : a \in Rows(d, "apps")} = {Variant(f) : f \in VariantRows(c)}
  <2>1. ASSUME NEW f \in VariantRows(c) PROVE Variant(f) \in {Split(a) : a \in Rows(d, "apps")}
    <3>1. Cut(f) \in Rows(d, "apps")  BY <1>1
    <3>2. QED  BY <1>3, <3>1
  <2>2. ASSUME NEW a \in Rows(d, "apps") PROVE Split(a) \in {Variant(f) : f \in VariantRows(c)}
    <3>1. PICK f \in VariantRows(c) : a = Cut(f)  BY <1>1
    <3>2. QED  BY <1>3, <3>1
  <2>3. QED  BY <2>1, <2>2
<1>6. QED  BY <1>4, <1>5 DEF Variant

\* SELECT ... FROM old_releases JOIN apps JOIN app_platforms finds for each
\* release the one variant of its app, which is the one it was made for.
LEMMA MovedIs ==
    ASSUME NEW d, NEW c \in Contents, Plausible(c), c.ver < 6, Holds(d, c, 6, 7)
    PROVE  MovedReleases(d) = {[k \in ReleaseCols |-> f[k]] : f \in ReleasesNow(c, 6, 7)}
<1> DEFINE A == AppsAt(6, 7)
           Now(r) == ReleaseRow(ReleaseNow(c, 6, 7, r))
           OldRow(r) == [k \in OldCols |-> Now(r)[k]]
           NewRow(r) == [k \in ReleaseCols |-> Now(r)[k]]
           AppRow(x) == [k \in A |-> VariantRow(x)[k]]
           Row(x) == [k \in PlatformCols |-> VariantRow(x)[k]]
           Moved(y) == [app_platform_id |-> <<y[3].app_id, y[3].platform>>,
                        version_code |-> y[1].version_code, channel |-> y[1].channel]
           Joined == {y \in Rows(d, "old_releases") \X Rows(d, "apps") \X Rows(d, "app_platforms") :
                        /\ y[2].slug = y[1].app_id
                        /\ y[3].app_id = y[2].slug /\ y[3].platform = y[2].platform}
<1>1. MovedReleases(d) = {Moved(y) : y \in Joined}  BY DEF MovedReleases
<1>2. {[k \in ReleaseCols |-> f[k]] : f \in ReleasesNow(c, 6, 7)} = {NewRow(r) : r \in c.releases}
      BY DEF ReleasesNow
<1>3. Rows(d, "old_releases") = {OldRow(r) : r \in c.releases}
  <2>1. d["old_releases"] = Filled(OldCols, ReleasesNow(c, 6, 7))
        BY DEF Holds, OldReleasesTable, Past
  <2>2. Rows(d, "old_releases") = {[k \in OldCols |-> f[k]] : f \in ReleasesNow(c, 6, 7)}
        BY <2>1, FilledIs DEF Rows
  <2>3. QED  BY <2>2 DEF ReleasesNow
<1>4. Rows(d, "apps") = {AppRow(x) : x \in c.variants}
  <2>1. d["apps"] = Filled(A, VariantRows(c))  BY DEF Holds, AppsTable, Past
  <2>2. Rows(d, "apps") = {[k \in A |-> f[k]] : f \in VariantRows(c)}
        BY <2>1, FilledIs DEF Rows
  <2>3. QED  BY <2>2 DEF VariantRows
<1>5. Rows(d, "app_platforms") = {Row(x) : x \in c.variants}
  <2>1. VariantsAt(6, 7) = PlatformCols /\ VariantsNow(c, 6, 7) = VariantRows(c)
        BY DEF VariantsAt, VariantsNow, Past, PlatformCols, Sign
  <2>2. d["app_platforms"] = Filled(PlatformCols, VariantRows(c))
        BY <2>1 DEF Holds, VariantsTable, Past
  <2>3. Rows(d, "app_platforms") = {[k \in PlatformCols |-> f[k]] : f \in VariantRows(c)}
        BY <2>2, FilledIs DEF Rows
  <2>4. QED  BY <2>3 DEF VariantRows
<1>6. ASSUME NEW r \in c.releases
      PROVE  /\ OldRow(r).app_id = r.slug
             /\ OldRow(r).version_code = NewRow(r).version_code
             /\ OldRow(r).channel = NewRow(r).channel
             /\ NewRow(r).app_platform_id = <<r.slug, r.platform>>
             /\ NewRow(r) = [app_platform_id |-> NewRow(r).app_platform_id,
                             version_code |-> NewRow(r).version_code, channel |-> NewRow(r).channel]
      BY NowIs DEF ReleaseRow, OldCols, ReleaseCols
<1>7. ASSUME NEW x \in c.variants
      PROVE  /\ AppRow(x).slug = x.slug /\ AppRow(x).platform = x.platform
             /\ Row(x).app_id = x.slug /\ Row(x).platform = x.platform
      BY AppsColumns DEF VariantRow, PlatformCols
<1>8. \A x, y \in c.variants : x.slug = y.slug => x = y  BY DEF Plausible
<1>9. \A r \in c.releases : \E x \in c.variants : x.slug = r.slug /\ x.platform = r.platform
      BY DEF Plausible
<1> HIDE DEF A, OldRow, NewRow, AppRow, Row
<1>10. ASSUME NEW r \in c.releases PROVE NewRow(r) \in {Moved(y) : y \in Joined}
  <2>1. PICK x \in c.variants : x.slug = r.slug /\ x.platform = r.platform  BY <1>9
  <2>2. <<OldRow(r), AppRow(x), Row(x)>> \in Joined
        BY <1>3, <1>4, <1>5, <1>6, <1>7, <2>1
  <2>3. Moved(<<OldRow(r), AppRow(x), Row(x)>>) = NewRow(r)
        BY <1>6, <1>7, <2>1, SMTT(30)
  <2>4. QED  BY <2>2, <2>3
<1>11. ASSUME NEW y \in Joined PROVE Moved(y) \in {NewRow(r) : r \in c.releases}
  <2>1. PICK r \in c.releases : y[1] = OldRow(r)  BY <1>3
  <2>2. PICK x \in c.variants : y[2] = AppRow(x)  BY <1>4
  <2>3. PICK z \in c.variants : y[3] = Row(z)  BY <1>5
  <2>4. x.slug = r.slug /\ z.slug = x.slug /\ z.platform = x.platform
        BY <1>6, <1>7, <2>1, <2>2, <2>3
  <2>5. x.platform = r.platform  BY <1>8, <1>9, <2>4
  <2>6. Moved(y) = NewRow(r)
    <3>1. y[3].app_id = r.slug /\ y[3].platform = r.platform
          BY <1>7, <2>3, <2>4, <2>5
    <3>2. y[1].version_code = NewRow(r).version_code /\ y[1].channel = NewRow(r).channel
          BY <1>6, <2>1
    <3>3. Moved(y) = [app_platform_id |-> NewRow(r).app_platform_id,
                      version_code |-> NewRow(r).version_code, channel |-> NewRow(r).channel]
          BY <1>6, <3>1, <3>2
    <3>4. QED  BY <1>6, <3>3
  <2>7. QED  BY <2>6
<1> HIDE DEF Moved, Joined
<1>12. QED  BY <1>1, <1>2, <1>10, <1>11

LEMMA AppPlatformsGoes ==
    ASSUME NEW d, NEW c \in Contents, Plausible(c), c.ver < 6,
           NEW s \in 1 .. 10, Holds(d, c, 6, s)
    PROVE  Goes(d, c, 6, s)
<1>1. CASE s = 1  BY <1>1, NewApps, OnAppsNew, HeldGoes
<1>2. CASE s = 2  BY <1>2, CopiedApps, OnAppsNew, HeldGoes
<1>3. CASE s = 3
  <2>1. d["app_platforms"] = NoTable /\ VariantsTable(c, 6, 4) = Filled(PlatformCols, {})
        BY <1>3 DEF Holds, VariantsTable, Past
  <2>2. Run(d, 6, 3) = Put(d, "app_platforms", VariantsTable(c, 6, 4))
        BY <2>1, Made DEF Run, AppPlatforms
  <2>3. QED  BY <1>3, <2>2, OnVariants, HeldGoes
<1>4. CASE s = 4
  <2>1. d["app_platforms"] = Filled(PlatformCols, {})
        BY <1>4 DEF Holds, VariantsTable, Past
  <2>2. VariantsAt(6, 5) = PlatformCols /\ VariantsNow(c, 6, 5) = VariantRows(c)
        BY DEF VariantsAt, VariantsNow, Past, PlatformCols, Sign
  <2>3. VariantsTable(c, 6, 5) = Filled(PlatformCols, VariantRows(c))
        BY <2>2 DEF VariantsTable, Past
  <2>4. d["apps"] = Filled(AppsAt(6, 4), VariantRows(c))
        BY <1>4 DEF Holds, AppsTable, Past
  <2>5. Run(d, 6, 4) = Insert(d, "app_platforms", SplitApps(d), {"app_id", "platform"})
        BY DEF Run, AppPlatforms
  <2>6. Run(d, 6, 4) = Put(d, "app_platforms", Filled(PlatformCols, VariantRows(c)))
        BY <2>1, <2>4, <2>5, SplitIs, Inserted
  <2>7. QED  BY <1>4, <2>3, <2>6, OnVariants, HeldGoes
<1>5. CASE s = 5
  <2>1. d["releases"] = Filled(OldCols, ReleasesNow(c, 6, 5)) /\ d["old_releases"] = NoTable
        BY <1>5 DEF Holds, ReleasesTable, OldReleasesTable, Past
  <2>2. Run(d, 6, 5) = RenameTable(d, "releases", "old_releases")  BY DEF Run, AppPlatforms
  <2>3. RenameTable(d, "releases", "old_releases")
          = [d EXCEPT !["old_releases"] = d["releases"], !["releases"] = NoTable]
        BY <2>1, RenamedTo
  <2>4. Holds(Run(d, 6, 5), c, 6, 6)  BY <1>5, <2>2, <2>3, ReleasesRenamed
  <2>5. QED  BY <1>5, <2>4, HeldGoes
<1>6. CASE s = 6
  <2>1. d["releases"] = NoTable /\ ReleasesTable(c, 6, 7) = Filled(ReleaseCols, {})
        BY <1>6 DEF Holds, ReleasesTable, Past
  <2>2. Run(d, 6, 6) = Put(d, "releases", ReleasesTable(c, 6, 7))
        BY <2>1, Made DEF Run, AppPlatforms
  <2>3. QED  BY <1>6, <2>2, OnReleases, HeldGoes
<1>7. CASE s = 7
  <2>1. d["releases"] = Filled(ReleaseCols, {})
        BY <1>7 DEF Holds, ReleasesTable, Past
  <2>2. ReleasesAt(6, 8) = ReleaseCols  BY DEF ReleasesAt, Past, ReleaseCols
  <2>3. ReleasesNow(c, 6, 8) = ReleasesNow(c, 6, 7)  BY SameNext DEF Migration
  <2>4. ReleasesTable(c, 6, 8) = Filled(ReleaseCols, ReleasesNow(c, 6, 7))
        BY <2>2, <2>3 DEF ReleasesTable, Past
  <2>5. Run(d, 6, 7) = Insert(d, "releases", MovedReleases(d), {"app_platform_id", "version_code"})
        BY DEF Run, AppPlatforms
  <2>6. Run(d, 6, 7) = Put(d, "releases", Filled(ReleaseCols, ReleasesNow(c, 6, 7)))
        BY <1>7, <2>1, <2>5, MovedIs, Inserted
  <2>7. QED  BY <1>7, <2>4, <2>6, OnReleases, HeldGoes
<1>8. CASE s = 8
  <2>1. d["old_releases"] = Filled(OldCols, ReleasesNow(c, 6, 8))
        BY <1>8 DEF Holds, OldReleasesTable, Past
  <2>2. Run(d, 6, 8) = Put(d, "old_releases", NoTable)
        BY <2>1, Gone DEF Run, AppPlatforms
  <2>3. QED  BY <1>8, <2>2, OnOldReleases, HeldGoes
<1>9. CASE s = 9
  <2>1. d["apps"] = Filled(AppsAt(6, 9), VariantRows(c)) /\ AppsTable(c, 6, 10) = NoTable
        BY <1>9 DEF Holds, AppsTable, Past
  <2>2. Run(d, 6, 9) = Put(d, "apps", AppsTable(c, 6, 10))
        BY <2>1, Gone DEF Run, AppPlatforms
  <2>3. QED  BY <1>9, <2>2, OnApps, HeldGoes
<1>10. CASE s = 10
  <2>1. d["apps_new"] = Filled({"slug"}, VariantRows(c)) /\ d["apps"] = NoTable
        BY <1>10 DEF Holds, AppsTable, AppsNewTable, Past
  <2>2. Run(d, 6, 10) = RenameTable(d, "apps_new", "apps")  BY DEF Run, AppPlatforms
  <2>3. RenameTable(d, "apps_new", "apps")
          = [d EXCEPT !["apps"] = d["apps_new"], !["apps_new"] = NoTable]
        BY <2>1, RenamedTo
  <2>4. Holds(Run(d, 6, 10), c, 6, 11)  BY <1>10, <2>2, <2>3, AppsRenamed
  <2>5. QED  BY <1>10, <2>4, HeldGoes
<1>11. QED  BY <1>1, <1>2, <1>3, <1>4, <1>5, <1>6, <1>7, <1>8, <1>9, <1>10

\* A variant before and after script 7 gives it its account.
LEMMA UnlinkedIs ==
    ASSUME NEW x
    PROVE  /\ Unlinked(x).play_account_id = None
           /\ \A k \in PlatformCols : Unlinked(x)[k] = VariantRow(x)[k]
           /\ VariantRow(x).play_account_id = x.cred
           /\ Unlinked(x).play_credentials = x.cred /\ VariantRow(x).play_credentials = x.cred
BY DEF Unlinked, VariantRow, PlatformCols, Sign

LEMMA VariantsIn7 ==
    /\ VariantsAt(7, 2) = PlatformCols
    /\ VariantsAt(7, 3) = PlatformCols \cup {"play_account_id"}
    /\ VariantsAt(7, 4) = PlatformCols \cup {"play_account_id"}
    /\ VariantsAt(7, 5) = PlatformCols \cup {"play_account_id"}
    /\ VariantsAt(7, 6) = VariantsAt(7, 5) \ {"play_credentials"}
<1>1. VariantsAt(7, 2) = PlatformCols  BY DEF VariantsAt, Past, PlatformCols, Sign
<1>2. VariantsAt(7, 3) = PlatformCols \cup {"play_account_id"}
      BY DEF VariantsAt, Past, PlatformCols, Sign
<1>3. VariantsAt(7, 4) = PlatformCols \cup {"play_account_id"}
      BY DEF VariantsAt, Past, PlatformCols, Sign
<1>4. VariantsAt(7, 5) = PlatformCols \cup {"play_account_id"}
      BY DEF VariantsAt, Past, PlatformCols, Sign
<1>5. VariantsAt(7, 6) = VariantsAt(7, 5) \ {"play_credentials"}
      BY DEF VariantsAt, Past, PlatformCols, Sign
<1>6. QED  BY <1>1, <1>2, <1>3, <1>4, <1>5

\* The credentials of all variants become accounts.
LEMMA AccountsIs ==
    ASSUME NEW d, NEW c, Holds(d, c, 7, 3)
    PROVE  Accounts(d) = {[k \in {"credentials"} |-> f[k]] : f \in AccountRows(c)}
<1> DEFINE C == PlatformCols \cup {"play_account_id"}
           Row(x) == [k \in C |-> Unlinked(x)[k]]
           Account(f) == [k \in {"credentials"} |-> f[k]]
           Linked == {x \in c.variants : x.cred # None}
           Paying == {p \in Rows(d, "app_platforms") : p.play_credentials # None}
<1>1. d["app_platforms"] = Filled(C, {Unlinked(x) : x \in c.variants})
      BY VariantsIn7 DEF Holds, VariantsTable, VariantsNow, Past
<1>2. Rows(d, "app_platforms") = {Row(x) : x \in c.variants}
  <2> DEFINE F == {Unlinked(x) : x \in c.variants}
  <2>1. d["app_platforms"] = Filled(C, F)  BY <1>1
  <2> HIDE DEF F
  <2>2. Rows(d, "app_platforms") = {[k \in C |-> f[k]] : f \in F}
        BY <2>1, FilledIs DEF Rows
  <2>3. QED  BY <2>2 DEF F
<1>3. \A x \in c.variants : Row(x).play_credentials = x.cred
      BY UnlinkedIs DEF PlatformCols
<1>4. \A v : Account([credentials |-> v]) = [credentials |-> v]
      OBVIOUS
<1>5. AccountRows(c) = {[credentials |-> x.cred] : x \in Linked}  BY DEF AccountRows
<1>6. Accounts(d) = {[credentials |-> p.play_credentials] : p \in Paying}  BY DEF Accounts
<1> HIDE DEF C, Row, Account
<1>7. ASSUME NEW a \in Accounts(d) PROVE a \in {Account(f) : f \in AccountRows(c)}
  <2>1. PICK p \in Paying : a = [credentials |-> p.play_credentials]  BY <1>6
  <2>2. PICK x \in c.variants : p = Row(x)  BY <1>2
  <2>3. x \in Linked /\ a = [credentials |-> x.cred]  BY <1>3, <2>1, <2>2
  <2>4. a \in AccountRows(c) /\ Account(a) = a  BY <1>4, <1>5, <2>3
  <2>5. QED  BY <2>4
<1>8. ASSUME NEW f \in AccountRows(c) PROVE Account(f) \in Accounts(d)
  <2>1. PICK x \in Linked : f = [credentials |-> x.cred]  BY <1>5
  <2>2. Row(x) \in Paying /\ Row(x).play_credentials = x.cred  BY <1>2, <1>3
  <2>3. f \in Accounts(d)  BY <1>6, <2>1, <2>2
  <2>4. QED  BY <1>4, <2>1, <2>3
<1>9. Accounts(d) = {Account(f) : f \in AccountRows(c)}  BY <1>7, <1>8
<1>10. QED  BY <1>9 DEF Account

\* Each variant is linked to the account of its own credentials.
LEMMA LinkedIs ==
    ASSUME NEW d, NEW c, Holds(d, c, 7, 4)
    PROVE  LinkAccounts(d) = Put(d, "app_platforms", VariantsTable(c, 7, 5))
<1> DEFINE C == PlatformCols \cup {"play_account_id"}
           Old(x) == [k \in C |-> Unlinked(x)[k]]
           New(x) == [k \in C |-> VariantRow(x)[k]]
           Link(p) == [p EXCEPT !.play_account_id =
                        IF [credentials |-> p.play_credentials] \in Rows(d, "play_accounts")
                        THEN p.play_credentials ELSE None]
<1>1. d["app_platforms"] = Filled(C, {Unlinked(x) : x \in c.variants})
      BY VariantsIn7 DEF Holds, VariantsTable, VariantsNow, Past
<1>2. Rows(d, "app_platforms") = {Old(x) : x \in c.variants} /\ Cols(d, "app_platforms") = C
  <2> DEFINE F == {Unlinked(x) : x \in c.variants}
  <2>1. d["app_platforms"] = Filled(C, F)  BY <1>1
  <2> HIDE DEF F
  <2>2. Rows(d, "app_platforms") = {[k \in C |-> f[k]] : f \in F}
        /\ Cols(d, "app_platforms") = C
        BY <2>1, FilledIs DEF Rows, Cols
  <2>3. QED  BY <2>2, SMTT(30) DEF F
<1>3. VariantsTable(c, 7, 5) = [cols |-> C, rows |-> {New(x) : x \in c.variants}]
  <2>1. VariantsTable(c, 7, 5) = Filled(C, VariantRows(c))
        BY VariantsIn7 DEF VariantsTable, VariantsNow, Past
  <2>2. QED  BY <2>1, ZenonT(40) DEF Filled, VariantRows
<1>4. Rows(d, "play_accounts") = AccountRows(c)
  <2>1. d["play_accounts"] = Filled({"credentials"}, AccountRows(c))
        BY DEF Holds, AccountsTable, Past
  <2>2. Rows(d, "play_accounts") = {[k \in {"credentials"} |-> f[k]] : f \in AccountRows(c)}
        BY <2>1, FilledIs DEF Rows
  <2>3. \A f \in AccountRows(c) : [k \in {"credentials"} |-> f[k]] = f
        BY DEF AccountRows
  <2>4. QED  BY <2>2, <2>3
<1>5. ASSUME NEW x \in c.variants PROVE Link(Old(x)) = New(x)
  <2>1. Old(x).play_credentials = x.cred /\ New(x).play_account_id = x.cred
        BY UnlinkedIs DEF PlatformCols
  <2>2. \A k \in PlatformCols : Old(x)[k] = New(x)[k]
        BY UnlinkedIs
  <2>3. [credentials |-> x.cred] \in AccountRows(c) <=> x.cred # None
        BY DEF AccountRows
  <2>4. Link(Old(x)) = [Old(x) EXCEPT !.play_account_id = x.cred]
        BY <1>4, <2>1, <2>3
  <2> HIDE DEF Link
  <2>5. "play_account_id" \notin PlatformCols  BY DEF PlatformCols, Sign
  <2>6. QED  BY <2>1, <2>2, <2>4, <2>5
<1>6. LinkAccounts(d) = Set(d, "app_platforms", Cols(d, "app_platforms"),
                            {Link(p) : p \in Rows(d, "app_platforms")})
      BY DEF LinkAccounts, Update
<1> HIDE DEF C, Old, New, Link
<1>7. {Link(p) : p \in Rows(d, "app_platforms")} = {New(x) : x \in c.variants}
  <2>1. ASSUME NEW x \in c.variants PROVE New(x) \in {Link(p) : p \in Rows(d, "app_platforms")}
        BY <1>2, <1>5
  <2>2. ASSUME NEW p \in Rows(d, "app_platforms") PROVE Link(p) \in {New(x) : x \in c.variants}
        BY <1>2, <1>5
  <2>3. QED  BY <2>1, <2>2
<1>8. QED  BY <1>2, <1>3, <1>6, <1>7 DEF Set, Put

LEMMA PlayAccountsGoes ==
    ASSUME NEW d, NEW c \in Contents, Plausible(c), c.ver < 7,
           NEW s \in 1 .. 5, Holds(d, c, 7, s)
    PROVE  Goes(d, c, 7, s)
<1>1. CASE s = 1
  <2>1. d["play_accounts"] = NoTable /\ AccountsTable(c, 7, 2) = Filled({"credentials"}, {})
        BY <1>1 DEF Holds, AccountsTable, Past
  <2>2. Run(d, 7, 1) = Put(d, "play_accounts", AccountsTable(c, 7, 2))
        BY <2>1, Made DEF Run, PlayAccounts
  <2>3. QED  BY <1>1, <2>2, OnAccounts, HeldGoes
<1>2. CASE s = 2
  <2> DEFINE F == {Unlinked(x) : x \in c.variants}
             Row(f) == [k \in PlatformCols |-> f[k]]
  <2>1. d["app_platforms"] = Filled(PlatformCols, VariantRows(c))
        BY <1>2, VariantsIn7 DEF Holds, VariantsTable, VariantsNow, Past
  <2>2. VariantsTable(c, 7, 3) = Filled(PlatformCols \cup {"play_account_id"}, F)
    <3>1. VariantsNow(c, 7, 3) = F  BY DEF VariantsNow, Past
    <3>2. VariantsTable(c, 7, 3) = Filled(VariantsAt(7, 3), VariantsNow(c, 7, 3))
          BY DEF VariantsTable, Past
    <3>3. QED  BY <3>1, <3>2, VariantsIn7
  <2>3. Filled(PlatformCols, VariantRows(c)) = Filled(PlatformCols, F)
    <3>1. \A x \in c.variants : Row(VariantRow(x)) = Row(Unlinked(x))
          BY UnlinkedIs
    <3>2. Filled(PlatformCols, VariantRows(c)) = [cols |-> PlatformCols, rows |-> {Row(f) : f \in VariantRows(c)}]
          /\ Filled(PlatformCols, F) = [cols |-> PlatformCols, rows |-> {Row(f) : f \in F}]
          BY DEF Filled
    <3> HIDE DEF Row
    <3>3. {Row(f) : f \in VariantRows(c)} = {Row(f) : f \in F}
          BY <3>1 DEF VariantRows
    <3>4. QED  BY <3>2, <3>3
  <2>4. "play_account_id" \notin PlatformCols  BY DEF PlatformCols, Sign
  <2>5. \A f \in F : f["play_account_id"] = None  BY UnlinkedIs
  <2> HIDE DEF F
  <2>6. AddColumn(d, "app_platforms", "play_account_id", None)
          = Put(d, "app_platforms", Filled(PlatformCols \cup {"play_account_id"}, F))
        BY <2>1, <2>3, <2>4, <2>5, Added
  <2>7. Run(d, 7, 2) = Put(d, "app_platforms", VariantsTable(c, 7, 3))
        BY <2>2, <2>6 DEF Run, PlayAccounts
  <2>8. QED  BY <1>2, <2>7, OnVariants, HeldGoes
<1>3. CASE s = 3
  <2>1. d["play_accounts"] = Filled({"credentials"}, {})
        /\ AccountsTable(c, 7, 4) = Filled({"credentials"}, AccountRows(c))
        BY <1>3 DEF Holds, AccountsTable, Past
  <2>2. Run(d, 7, 3) = Insert(d, "play_accounts", Accounts(d), {})  BY DEF Run, PlayAccounts
  <2>3. Run(d, 7, 3) = Put(d, "play_accounts", AccountsTable(c, 7, 4))
        BY <1>3, <2>1, <2>2, AccountsIs, Inserted
  <2>4. QED  BY <1>3, <2>3, OnAccounts, HeldGoes
<1>4. CASE s = 4
  <2>1. Run(d, 7, 4) = Put(d, "app_platforms", VariantsTable(c, 7, 5))
        BY <1>4, LinkedIs DEF Run, PlayAccounts
  <2>2. QED  BY <1>4, <2>1, OnVariants, HeldGoes
<1>5. CASE s = 5
  <2>1. d["app_platforms"] = Filled(VariantsAt(7, 5), VariantRows(c))
        /\ VariantsTable(c, 7, 6) = Filled(VariantsAt(7, 6), VariantRows(c))
        BY <1>5 DEF Holds, VariantsTable, VariantsNow, Past
  <2>2. "play_credentials" \in VariantsAt(7, 5)  BY VariantsIn7 DEF PlatformCols
  <2>3. DropColumn(d, "app_platforms", "play_credentials")
          = Put(d, "app_platforms", Filled(VariantsAt(7, 5) \ {"play_credentials"}, VariantRows(c)))
        BY <2>1, <2>2, Dropped
  <2>4. Run(d, 7, 5) = Put(d, "app_platforms", VariantsTable(c, 7, 6))
        BY <2>1, <2>3, VariantsIn7 DEF Run, PlayAccounts
  <2>5. QED  BY <1>5, <2>4, OnVariants, HeldGoes
<1>6. QED  BY <1>1, <1>2, <1>3, <1>4, <1>5

\* A script comes to its last statement, and that one to the next script.
LEMMA ScriptGoes ==
    ASSUME NEW d, NEW c \in Contents, Plausible(c), NEW m \in Migration, c.ver < m,
           NEW s \in 1 .. (Statements[m] - 1), Holds(d, c, m, s)
    PROVE  Goes(d, c, m, s)
<1>1. CASE m = 1
  <2>1. s \in 1 .. 2  BY <1>1 DEF Statements
  <2>2. QED  BY <1>1, <2>1, BaseGoes
<1>2. CASE m = 2
  <2>1. s \in 1 .. 5 /\ c.ver < 2  BY <1>2 DEF Statements
  <2>2. QED  BY <1>2, <2>1, ReleaseHubGoes
<1>3. CASE m = 3
  <2>1. s \in 1 .. 2 /\ c.ver < 3  BY <1>3 DEF Statements
  <2>2. QED  BY <1>3, <2>1, PlayConfigGoes
<1>4. CASE m = 4
  <2>1. s \in 1 .. 3 /\ c.ver < 4  BY <1>4 DEF Statements
  <2>2. QED  BY <1>4, <2>1, SigningGoes
<1>5. CASE m = 5
  <2>1. s = 1 /\ c.ver < 5  BY <1>5 DEF Statements
  <2>2. Run(d, 5, 1) = Put(d, "releases", ReleasesTable(c, 5, 2))
        BY <1>5, <2>1, ChannelRenameMakes
  <2>3. QED  BY <1>5, <2>1, <2>2, OnReleases, HeldGoes
<1>6. CASE m = 6
  <2>1. s \in 1 .. 10 /\ c.ver < 6  BY <1>6 DEF Statements
  <2>2. QED  BY <1>6, <2>1, AppPlatformsGoes
<1>7. CASE m = 7
  <2>1. s \in 1 .. 5 /\ c.ver < 7  BY <1>7 DEF Statements
  <2>2. QED  BY <1>7, <2>1, PlayAccountsGoes
<1>8. CASE m = 8
  <2>1. s \in 1 .. 2 /\ c.ver < 8  BY <1>8 DEF Statements
  <2>2. QED  BY <1>8, <2>1, ReleaseRetentionGoes
<1>9. CASE m = 9
  <2>1. s \in 1 .. 3 /\ c.ver < 9  BY <1>9 DEF Statements
  <2>2. QED  BY <1>9, <2>1, PlayStatusGoes
<1>10. CASE m = 10
  <2>1. s = 1 /\ c.ver < 10  BY <1>10 DEF Statements
  <2>2. Run(d, 10, 1) = Put(d, "releases", ReleasesTable(c, 10, 2))
        BY <1>10, <2>1, RepairMakes
  <2>3. QED  BY <1>10, <2>1, <2>2, OnReleases, HeldGoes
<1>11. QED
       BY <1>1, <1>2, <1>3, <1>4, <1>5, <1>6, <1>7, <1>8, <1>9, <1>10 DEF Migration

LEMMA RecordGoes ==
    ASSUME NEW d, NEW c, NEW m \in Migration, Holds(d, c, m, Statements[m])
    PROVE  Run(d, m, Statements[m]) # Error /\ Holds(Run(d, m, Statements[m]), c, m + 1, 1)
<1>1. Run(d, m, Statements[m]) = Record(d, m)
      BY DEF Run, Base, ReleaseHub, PlayConfig, Signing, ChannelRename, AppPlatforms,
             PlayAccounts, ReleaseRetention, PlayStatus, RepairPlayStatus, Statements, Migration
<1>2. Holds(Record(d, m), c, m + 1, 1)  BY OnRecord
<1>3. QED  BY <1>1, <1>2, Accepted DEF Holds

-----------------------------------------------------------------------------
(* The scripts, repeated                                                    *)

\* Putting back what is there changes nothing.
LEMMA PutBack ==
    ASSUME NEW d, NEW t \in Table, d = [u \in Table |-> d[u]]
    PROVE  Put(d, t, d[t]) = d
BY DEF Put

\* The scripts that can be run again do nothing the second time.
LEMMA AgainNothing ==
    ASSUME NEW d, NEW c \in Contents, Plausible(c), NEW m, m \in {1, 2, 5, 10}, c.ver < m,
           NEW s, s \in 1 .. Statements[m], NEW i, i \in 1 .. 11, i < s, Holds(d, c, m, s)
    PROVE  Run(d, m, i) = d
<1>1. CASE m = 1
  <2>1. s \in 2 .. 3 /\ i \in 1 .. 2 /\ i < s  BY <1>1 DEF Statements
  <2>2. CASE i = 1
    <3>1. d["migrations"] = Filled({"migration_number"}, Numbers(1))
          BY <1>1, <2>1 DEF Holds, MigrationsTable, Past
    <3>2. QED  BY <1>1, <2>2, <3>1, MadeBefore DEF Run, Base
  <2>3. CASE i = 2
    <3>1. d["visitors"] = Filled({"id"}, {})
          BY <1>1, <2>1, <2>3 DEF Holds, Ensured, Past
    <3>2. QED  BY <1>1, <2>3, <3>1, MadeBefore DEF Run, Base
  <2>4. QED  BY <2>1, <2>2, <2>3
<1>2. CASE m = 2
  <2>1. s \in 2 .. 6 /\ i \in 1 .. 5 /\ i < s  BY <1>2 DEF Statements
  <2>2. CASE i = 1
    <3>1. d["apps"] = Filled(AppsAt(2, s), VariantRows(c))
          BY <1>2, <2>1 DEF Holds, AppsTable, Past
    <3>2. QED  BY <1>2, <2>2, <3>1, MadeBefore DEF Run, ReleaseHub
  <2>3. CASE i = 2
    <3>1. d["releases"] = Filled(OldCols, ReleasesNow(c, 2, s))
          BY <1>2, <2>1, <2>3 DEF Holds, ReleasesTable, Past
    <3>2. QED  BY <1>2, <2>3, <3>1, MadeBefore DEF Run, ReleaseHub
  <2>4. CASE i = 3
    <3>1. d["api_tokens"] = Filled({"token_hash"}, {})
          BY <1>2, <2>1, <2>4 DEF Holds, Ensured, Past
    <3>2. QED  BY <1>2, <2>4, <3>1, MadeBefore DEF Run, ReleaseHub
  <2>5. CASE i = 4
    <3>1. d["sessions"] = Filled({"token_hash"}, {})
          BY <1>2, <2>1, <2>5 DEF Holds, Ensured, Past
    <3>2. QED  BY <1>2, <2>5, <3>1, MadeBefore DEF Run, ReleaseHub
  <2>6. CASE i = 5
    <3>1. d["config"] = Filled({"key"}, {})
          BY <1>2, <2>1, <2>6 DEF Holds, Ensured, Past
    <3>2. QED  BY <1>2, <2>6, <3>1, MadeBefore DEF Run, ReleaseHub
  <2>7. QED  BY <2>1, <2>2, <2>3, <2>4, <2>5, <2>6
<1>3. CASE m = 5
  <2>1. s = 2 /\ i = 1 /\ c.ver < 5  BY <1>3 DEF Statements
  <2>2. Run(d, 5, 1) = Put(d, "releases", ReleasesTable(c, 5, 2))
        BY <1>3, <2>1, ChannelRenameMakes
  <2>3. d["releases"] = ReleasesTable(c, 5, 2)  BY <1>3, <2>1 DEF Holds
  <2>4. QED  BY <1>3, <2>1, <2>2, <2>3, PutBack DEF Holds, Table
<1>4. CASE m = 10
  <2>1. s = 2 /\ i = 1 /\ c.ver < 10  BY <1>4 DEF Statements
  <2>2. Run(d, 10, 1) = Put(d, "releases", ReleasesTable(c, 10, 2))
        BY <1>4, <2>1, RepairMakes
  <2>3. d["releases"] = ReleasesTable(c, 10, 2)  BY <1>4, <2>1 DEF Holds
  <2>4. QED  BY <1>4, <2>1, <2>2, <2>3, PutBack DEF Holds, Table
<1>5. QED  BY <1>1, <1>2, <1>3, <1>4

\* The others do nothing in their first statement or are refused there or next.
LEMMA AgainRefused ==
    ASSUME NEW d, NEW c, NEW m \in {3, 4, 9}, NEW s \in 2 .. Statements[m], Holds(d, c, m, s)
    PROVE  Run(d, m, 1) = Error
<1>1. CASE m = 3
  <2>1. d["apps"] = Filled(AppsAt(3, s), VariantRows(c)) /\ "play_enabled" \in AppsAt(3, s)
        BY <1>1 DEF Holds, AppsTable, AppsAt, Past, Statements
  <2>2. QED  BY <1>1, <2>1, AddRefused DEF Run, PlayConfig
<1>2. CASE m = 4
  <2>1. d["apps"] = Filled(AppsAt(4, s), VariantRows(c)) /\ "sign_keystore" \in AppsAt(4, s)
        BY <1>2 DEF Holds, AppsTable, AppsAt, Past, Statements, Sign
  <2>2. QED  BY <1>2, <2>1, AddRefused DEF Run, Signing
<1>3. CASE m = 9
  <2>1. d["releases"] = Filled(ReleasesAt(9, s), ReleasesNow(c, 9, s)) /\ "play_status" \in ReleasesAt(9, s)
        BY <1>3 DEF Holds, ReleasesTable, ReleasesAt, Past, Statements
  <2>2. QED  BY <1>3, <2>1, AddRefused DEF Run, PlayStatus
<1>4. QED  BY <1>1, <1>2, <1>3

LEMMA AgainSecond ==
    ASSUME NEW d, NEW c, NEW m \in {7, 8}, NEW s \in 2 .. Statements[m], Holds(d, c, m, s)
    PROVE  Run(d, m, 1) = d /\ (s > 2 => Run(d, m, 2) = Error)
<1>1. CASE m = 7
  <2>1. PICK F : d["play_accounts"] = Filled({"credentials"}, F)
        BY <1>1 DEF Holds, AccountsTable, Past
  <2>2. Run(d, 7, 1) = d  BY <2>1, MadeBefore DEF Run, PlayAccounts
  <2>3. d["app_platforms"] = Filled(VariantsAt(7, s), VariantsNow(c, 7, s))
        BY <1>1 DEF Holds, VariantsTable, Past
  <2>4. s > 2 => "play_account_id" \in VariantsAt(7, s)  BY DEF VariantsAt, Past
  <2>5. s > 2 => Run(d, 7, 2) = Error
        BY <2>3, <2>4, AddRefused DEF Run, PlayAccounts
  <2>6. QED  BY <1>1, <2>2, <2>5
<1>2. CASE m = 8
  <2>1. d["idx_releases_platform_code"] = Filled({}, {})
        BY <1>2 DEF Holds, Ensured, Past
  <2>2. Run(d, 8, 1) = d  BY <2>1, MadeBefore DEF Run, ReleaseRetention
  <2>3. d["app_platforms"] = Filled(VariantsAt(8, s), VariantsNow(c, 8, s))
        BY <1>2 DEF Holds, VariantsTable, Past
  <2>4. s > 2 => "prune_keep" \in VariantsAt(8, s)  BY DEF VariantsAt, Past
  <2>5. s > 2 => Run(d, 8, 2) = Error
        BY <2>3, <2>4, AddRefused DEF Run, ReleaseRetention
  <2>6. QED  BY <1>2, <2>2, <2>5
<1>3. QED  BY <1>1, <1>2

\* Script 6 is refused at its first statement, unless all but its record was
\* run, when it is refused at its third.
LEMMA AgainThird ==
    ASSUME NEW d, NEW c, NEW s \in 2 .. 13, Holds(d, c, 6, s)
    PROVE  /\ s # 11 => Run(d, 6, 1) = Error
           /\ s = 11 => Holds(Run(d, 6, 1), c, 6, 12)
           /\ s = 12 => Holds(Run(d, 6, 2), c, 6, 13)
           /\ s = 13 => Run(d, 6, 3) = Error
<1>1. ASSUME s # 11 PROVE Run(d, 6, 1) = Error
  <2>1. PICK F : d["apps_new"] = Filled({"slug"}, F)
        BY <1>1 DEF Holds, AppsNewTable
  <2>2. QED  BY <2>1, MadeBefore DEF Run, AppPlatforms
<1>2. ASSUME s = 11 PROVE Holds(Run(d, 6, 1), c, 6, 12)
      BY <1>2, NewApps, OnAppsNew
<1>3. ASSUME s = 12 PROVE Holds(Run(d, 6, 2), c, 6, 13)
      BY <1>3, CopiedApps, OnAppsNew
<1>4. ASSUME s = 13 PROVE Run(d, 6, 3) = Error
  <2>1. d["app_platforms"] = Filled(VariantsAt(6, 13), VariantsNow(c, 6, 13))
        BY <1>4 DEF Holds, VariantsTable, Past
  <2>2. QED  BY <2>1, MadeBefore DEF Run, AppPlatforms
<1>5. QED  BY <1>1, <1>2, <1>3, <1>4

-----------------------------------------------------------------------------
(* Before the first script and after the last                               *)

LEMMA ColumnsAre ==
    ASSUME NEW v \in 0 .. 10
    PROVE  /\ v < 6 /\ v >= 2 => AppsCols(v) = AppsAt(v + 1, 1)
           /\ v >= 6 => AppsCols(v) = {"slug"}
           /\ v < 6 => ReleasesCols(v) = OldCols
           /\ v >= 6 => ReleasesCols(v) = ReleasesAt(v + 1, 1)
           /\ v >= 6 => VariantsCols(v) = VariantsAt(v + 1, 1)
<1>1. ASSUME v < 6, v >= 2 PROVE AppsCols(v) = AppsAt(v + 1, 1)
  <2>1. \A k : k \in AppsCols(v) <=> k \in AppsAt(v + 1, 1)
        BY <1>1 DEF AppsCols, AppsAt, Past, Sign
  <2>2. QED  BY <2>1
<1>2. v >= 6 => AppsCols(v) = {"slug"}  BY DEF AppsCols
<1>3. v < 6 => ReleasesCols(v) = OldCols  BY DEF ReleasesCols, OldCols
<1>4. ASSUME v >= 6 PROVE ReleasesCols(v) = ReleasesAt(v + 1, 1)
  <2>1. \A k : k \in ReleasesCols(v) <=> k \in ReleasesAt(v + 1, 1)
        BY <1>4 DEF ReleasesCols, ReleasesAt, Past, ReleaseCols
  <2>2. QED  BY <2>1
<1>5. ASSUME v >= 6 PROVE VariantsCols(v) = VariantsAt(v + 1, 1)
  <2>1. \A k : k \in VariantsCols(v) <=> k \in VariantsAt(v + 1, 1)
        BY <1>5 DEF VariantsCols, VariantsAt, Past, PlatformCols, Sign
  <2>2. QED  BY <2>1
<1>6. QED  BY <1>1, <1>2, <1>3, <1>4, <1>5

\* A database that holds e after scripts 1 to v is one that holds c at the top
\* of script v + 1, where e is c with its releases renamed and repaired.
LEMMA HoldingTables ==
    ASSUME NEW c, NEW e, NEW v \in 0 .. 10, e.variants = c.variants,
           ReleaseRows(e) = ReleasesNow(c, v + 1, 1)
    PROVE  Holds(Holding(e, v), c, v + 1, 1)
<1> DEFINE d == Holding(e, v)
<1>1. VariantRows(e) = VariantRows(c) /\ AccountRows(e) = AccountRows(c)
      BY DEF VariantRows, AccountRows
<1>2. d = [t \in Table |-> d[t]]  BY DEF Holding
<1>3. d["migrations"] = MigrationsTable(v + 1, 1)
      BY DEF Holding, Table, MigrationsTable, Past, Numbers
<1>4. d["visitors"] = Ensured(v + 1, 1, 1, 2, {"id"})
      BY DEF Holding, Table, Ensured, Past
<1>5. /\ d["api_tokens"] = Ensured(v + 1, 1, 2, 3, {"token_hash"})
      /\ d["sessions"] = Ensured(v + 1, 1, 2, 4, {"token_hash"})
      /\ d["config"] = Ensured(v + 1, 1, 2, 5, {"key"})
      BY DEF Holding, Table, Ensured, Past
<1>6. d["apps"] = AppsTable(c, v + 1, 1)
  <2>1. d["apps"] = IF v >= 2 THEN Filled(AppsCols(v), VariantRows(c)) ELSE NoTable
        BY <1>1 DEF Holding, Table
  <2>2. QED  BY <2>1, ColumnsAre DEF AppsTable, Past
<1>7. d["releases"] = ReleasesTable(c, v + 1, 1)
  <2>1. d["releases"] = IF v >= 2 THEN Filled(ReleasesCols(v), ReleasesNow(c, v + 1, 1)) ELSE NoTable
        BY DEF Holding, Table
  <2>2. QED  BY <2>1, ColumnsAre DEF ReleasesTable, Past
<1>8. d["app_platforms"] = VariantsTable(c, v + 1, 1)
  <2>1. d["app_platforms"] = IF v >= 6 THEN Filled(VariantsCols(v), VariantRows(c)) ELSE NoTable
        BY <1>1 DEF Holding, Table
  <2>2. VariantsNow(c, v + 1, 1) = VariantRows(c)  BY DEF VariantsNow, Past
  <2>3. QED  BY <2>1, <2>2, ColumnsAre DEF VariantsTable, Past
<1>9. d["apps_new"] = AppsNewTable(c, v + 1, 1) /\ d["old_releases"] = OldReleasesTable(c, v + 1, 1)
      BY DEF Holding, Table, AppsNewTable, OldReleasesTable, Past
<1>10. d["play_accounts"] = AccountsTable(c, v + 1, 1)
       BY <1>1 DEF Holding, Table, AccountsTable, Past
<1>11. d["idx_releases_platform_code"] = Ensured(v + 1, 1, 8, 1, {})
       BY DEF Holding, Table, Ensured, Past
<1> HIDE DEF d
<1>12. QED
       BY <1>2, <1>3, <1>4, <1>5, <1>6, <1>7, <1>8, <1>9, <1>10, <1>11 DEF Holds, d

\* The tables at a place determine the database.
LEMMA HoldsOne ==
    ASSUME NEW d, NEW e, NEW c, NEW m, NEW s, Holds(d, c, m, s), Holds(e, c, m, s)
    PROVE  d = e
<1>1. \A t \in Table : d[t] = e[t]  BY DEF Holds, Table
<1>2. QED  BY <1>1 DEF Holds

LEMMA FirstOpened ==
    ASSUME NEW c \in Contents, Plausible(c)
    PROVE  Holds(Holding(c, c.ver), c, c.ver + 1, 1)
<1>1. c.ver \in 0 .. 10  BY MigrationsAssumption
<1>2. ASSUME NEW r \in c.releases
      PROVE  ReleaseRow(ReleaseNow(c, c.ver + 1, 1, r)) = ReleaseRow(r)
  <2>1. Past(c.ver + 1, 1, 5, 1) => r.channel # "api-share"
        BY <1>1 DEF Past, Plausible
  <2>2. ~(Past(c.ver + 1, 1, 10, 1) /\ c.ver < 10)
        BY <1>1 DEF Past
  <2>3. QED  BY <2>1, <2>2, NowIs DEF ReleaseRow
<1>3. ReleaseRows(c) = ReleasesNow(c, c.ver + 1, 1)
      BY <1>2 DEF ReleaseRows, ReleasesNow
<1>4. QED  BY <1>1, <1>3, HoldingTables

LEMMA LastHeld ==
    ASSUME NEW d, NEW c \in Contents, Holds(d, c, 11, 1)
    PROVE  d = Holding(Current(c), 10)
<1> DEFINE Repaired(r) ==
            [r EXCEPT !.channel = IF @ = "api-share" THEN "direct" ELSE @,
                      !.status  = IF @ = "error" /\ r.error = None /\ c.ver < 10
                                  THEN "pending" ELSE @]
<1>1. DOMAIN c = {"ver", "variants", "releases"}  BY MigrationsAssumption
<1>2. Current(c) = [c EXCEPT !.releases = {Repaired(r) : r \in c.releases}]  BY DEF Current
<1>3. Current(c).variants = c.variants /\ Current(c).releases = {Repaired(r) : r \in c.releases}
      BY <1>1, <1>2
<1>4. ASSUME NEW r \in c.releases
      PROVE  ReleaseRow(Repaired(r)) = ReleaseRow(ReleaseNow(c, 11, 1, r))
  <2>1. DOMAIN r = {"slug", "platform", "code", "channel", "status", "error"}
        BY MigrationsAssumption
  <2>2. /\ Repaired(r).slug = r.slug /\ Repaired(r).platform = r.platform
        /\ Repaired(r).code = r.code /\ Repaired(r).error = r.error
        /\ Repaired(r).channel = IF r.channel = "api-share" THEN "direct" ELSE r.channel
        /\ Repaired(r).status = IF r.status = "error" /\ r.error = None /\ c.ver < 10
                                THEN "pending" ELSE r.status
        BY <2>1
  <2> HIDE DEF Repaired
  <2>3. Past(11, 1, 5, 1) /\ Past(11, 1, 10, 1)  BY DEF Past
  <2>4. ReleaseNow(c, 11, 1, r).channel = Repaired(r).channel
        /\ ReleaseNow(c, 11, 1, r).status = Repaired(r).status
        BY <2>2, <2>3, NowIs
  <2>5. QED  BY <2>2, <2>4, NowIs DEF ReleaseRow
<1> HIDE DEF Repaired
<1>5. ReleaseRows(Current(c)) = ReleasesNow(c, 11, 1)
      BY <1>3, <1>4 DEF ReleaseRows, ReleasesNow
<1>6. Holds(Holding(Current(c), 10), c, 11, 1)
  <2>1. Holds(Holding(Current(c), 10), c, 10 + 1, 1)  BY <1>3, <1>5, HoldingTables
  <2>2. QED  BY <2>1
<1>7. QED  BY <1>6, HoldsOne

-----------------------------------------------------------------------------
(* The driver                                                               *)

LEMMA InitIInv == Init => IInv
<1> SUFFICES ASSUME Init PROVE IInv
    OBVIOUS
<1>1. was \in Contents /\ Plausible(was) /\ db = Holding(was, was.ver)  BY DEF Init
<1>2. was.ver \in 0 .. 10  BY <1>1, MigrationsAssumption
<1>3. Holds(db, was, was.ver + 1, 1)  BY <1>1, FirstOpened
<1>4. was.ver + 1 \in 1 .. 11 /\ 1 \in Stage(was.ver + 1)
      BY <1>2 DEF Stage, Statements, Migration
<1>5. At(was.ver + 1, 1)  BY DEF Init, At
<1>6. QED
      BY <1>1, <1>2, <1>3, <1>4, <1>5, MigrationsAssumption DEF Init, IInv

\* What the invariant says of one place.
IsAt(m, s) ==
    /\ m \in 1 .. 11 /\ s \in Stage(m)
    /\ was.ver < m /\ Holds(db, was, m, s) /\ At(m, s)

LEMMA PlaceOf == IInv <=> /\ was \in Contents /\ Plausible(was)
                          /\ crashes \in 0 .. MaxCrashes
                          /\ refused \subseteq {3, 4, 6, 7, 8, 9} /\ (refused # {} => crashes > 0)
                          /\ \E m, s : IsAt(m, s)
BY DEF IInv, IsAt

LEMMA Stages ==
    ASSUME NEW m \in 1 .. 11, NEW s \in Stage(m)
    PROVE  /\ s \in 1 .. 13
           /\ m = 11 => s = 1
           /\ m # 6 /\ m # 11 => s \in 1 .. Statements[m]
           /\ s <= 11 /\ m # 11 => s \in 1 .. Statements[m]
           /\ m # 11 => m \in Migration /\ Statements[m] \in 2 .. 11
           /\ m # 11 /\ s < Statements[m] => s + 1 \in Stage(m)
           /\ m # 11 => 1 \in Stage(m + 1)
BY SMTT(30) DEF Stage, Statements, Migration

\* The numbers recorded are those of the scripts behind the place.
LEMMA RecordedIs ==
    ASSUME NEW m \in 1 .. 11, NEW s \in 1 .. 13, Holds(db, was, m, s)
    PROVE  Recorded = 1 .. (m - 1)
<1>1. CASE Past(m, s, 1, 1)
  <2>1. db["migrations"] = Filled({"migration_number"}, Numbers(m))
        BY <1>1 DEF Holds, MigrationsTable
  <2>2. Rows(db, "migrations") = {[k \in {"migration_number"} |-> f[k]] : f \in Numbers(m)}
        /\ Exists(db, "migrations")
        BY <2>1, FilledIs DEF Rows, Exists
  <2>3. \A f \in Numbers(m) : [k \in {"migration_number"} |-> f[k]] = f
        BY DEF Numbers
  <2>4. Rows(db, "migrations") = Numbers(m)  BY <2>2, <2>3
  <2>5. {r.migration_number : r \in Numbers(m)} = 1 .. (m - 1)
    <3>1. \A n \in 1 .. (m - 1) : [migration_number |-> n] \in Numbers(m)
          BY DEF Numbers
    <3>2. \A f \in Numbers(m) : f.migration_number \in 1 .. (m - 1)
          BY DEF Numbers
    <3>3. \A n : [migration_number |-> n].migration_number = n
          OBVIOUS
    <3>4. QED  BY <3>1, <3>2, <3>3
  <2>6. QED  BY <2>2, <2>4, <2>5 DEF Recorded
<1>2. CASE ~Past(m, s, 1, 1)
  <2>1. ~Exists(db, "migrations")  BY <1>2 DEF Holds, MigrationsTable, Exists
  <2>2. m = 1  BY <1>2 DEF Past
  <2>3. QED  BY <2>1, <2>2 DEF Recorded
<1>3. QED  BY <1>1, <1>2

LEMMA StartMoves ==
    ASSUME IInv, Start, NEW m, NEW s, IsAt(m, s)
    PROVE  IsAt(m, s)'
<1>1. m \in 1 .. 11 /\ s \in Stage(m) /\ s \in 1 .. 13  BY Stages DEF IsAt
<1>2. executed' = 1 .. (m - 1)  BY <1>1, RecordedIs DEF IsAt, Start
<1>3. s = 1 \/ crashes > 0  BY DEF IsAt, At, Start
<1>4. At(m, s)'
  <2>1. CASE m > 1  BY <1>1, <1>2, <1>3, <2>1 DEF At, Start
  <2>2. CASE m = 1  BY <1>1, <1>2, <1>3, <2>2 DEF At, Start, Repeats
  <2>3. QED  BY <1>1, <2>1, <2>2
<1>5. QED  BY <1>4 DEF IsAt, Start

LEMMA SkipMoves ==
    ASSUME IInv, Skip, NEW m, NEW s, IsAt(m, s)
    PROVE  IsAt(m, s)'
<1>1. m \in 1 .. 11 /\ s \in Stage(m) /\ s \in 1 .. 13  BY Stages DEF IsAt
<1>2. /\ executed \subseteq 1 .. (m - 1)
      /\ mig \in 1 .. (m - 1) /\ mig .. (m - 1) \subseteq executed /\ stmt = 1
      /\ s = 1 \/ crashes > 0
      BY <1>1 DEF IsAt, At, Skip
<1>3. At(m, s)'
  <2>1. CASE mig + 1 < m  BY <1>1, <1>2, <2>1 DEF At, Skip
  <2>2. CASE mig + 1 = m  BY <1>1, <1>2, <2>2 DEF At, Skip, Repeats
  <2>3. QED  BY <1>1, <1>2, <2>1, <2>2
<1>4. QED  BY <1>3 DEF IsAt, Skip

\* A script that is run has its place, and no other does.
LEMMA RunningAt ==
    ASSUME IInv, Running, NEW m, NEW s, IsAt(m, s)
    PROVE  /\ m \in Migration /\ s \in Stage(m) /\ s \in 1 .. 13 /\ was.ver < m
           /\ Holds(db, was, m, s)
           /\ pc = "migrating" /\ executed \subseteq 1 .. (m - 1) /\ mig = m
           /\ stmt \in 1 .. 11 /\ stmt <= s
           /\ stmt = s \/ (crashes > 0 /\ Repeats(m, stmt, s))
<1>1. m \in 1 .. 11 /\ s \in Stage(m) /\ s \in 1 .. 13  BY Stages DEF IsAt
<1>2. mig \in Migration /\ mig \notin executed /\ pc = "migrating"  BY DEF Running
<1>3. ~(mig \in 1 .. (m - 1) /\ mig .. (m - 1) \subseteq executed)
      BY <1>1, <1>2
<1>4. QED  BY <1>1, <1>2, <1>3 DEF IsAt, At

\* A statement that an earlier start has run is refused, or does nothing, or
\* is one of the first two of script 6.
LEMMA Repeated ==
    ASSUME NEW d, NEW c \in Contents, Plausible(c), NEW m \in Migration, c.ver < m,
           NEW s \in Stage(m), Holds(d, c, m, s), NEW i \in 1 .. 11, Repeats(m, i, s)
    PROVE  \/ /\ Run(d, m, i) = d /\ d # Error
              /\ i < Statements[m]
              /\ i + 1 = s \/ Repeats(m, i + 1, s) \/ Run(d, m, i) = Error
           \/ Run(d, m, i) = Error /\ m \in {3, 4, 6, 7, 8, 9}
           \/ m = 6 /\ <<i, s>> \in {<<1, 11>>, <<2, 12>>} /\ Holds(Run(d, m, i), c, 6, s + 1)
<1>1. d # Error  BY Accepted DEF Holds
<1>2. s \in 1 .. 13 /\ i < s /\ m \in 1 .. 10
  <2>1. m \in 1 .. 10 /\ m \in 1 .. 11  BY DEF Migration
  <2>2. QED  BY <2>1, Stages DEF Repeats
<1>3. m # 6 => s \in 1 .. Statements[m] /\ i < Statements[m]
      BY <1>2, Stages
<1>4. CASE m \in {1, 2, 5, 10}
  <2>1. Run(d, m, i) = d
    <3>1. m \in {1, 2, 5, 10} /\ s \in 1 .. Statements[m]
          BY <1>2, <1>3, <1>4
    <3>2. QED  BY <1>2, <3>1, AgainNothing
  <2>2. i + 1 = s \/ Repeats(m, i + 1, s)  BY <1>2, <1>4 DEF Repeats
  <2>3. QED  BY <1>1, <1>3, <1>4, <2>1, <2>2
<1>5. CASE m \in {3, 4, 9}
  <2>1. i = 1 /\ s \in 2 .. Statements[m]  BY <1>2, <1>3, <1>5 DEF Repeats
  <2>2. QED  BY <1>5, <2>1, AgainRefused
<1>6. CASE m \in {7, 8}
  <2>1. i \in {1, 2} /\ s \in 2 .. Statements[m]  BY <1>2, <1>3, <1>6 DEF Repeats
  <2>2. CASE i = 1
    <3>1. Run(d, m, i) = d  BY <1>6, <2>1, <2>2, AgainSecond
    <3>2. i + 1 = s \/ Repeats(m, i + 1, s)  BY <1>2, <1>6, <2>2 DEF Repeats
    <3>3. QED  BY <1>1, <1>3, <1>6, <3>1, <3>2
  <2>3. CASE i = 2
        BY <1>2, <1>6, <2>1, <2>3, AgainSecond
  <2>4. QED  BY <2>1, <2>2, <2>3
<1>7. CASE m = 6
  <2>1. s \in 2 .. 13 /\ (i = 1 \/ <<i, s>> \in {<<2, 12>>, <<3, 13>>})
        BY <1>2, <1>7 DEF Repeats
  <2>2. QED  BY <1>7, <2>1, AgainThird
<1>8. QED  BY <1>2, <1>4, <1>5, <1>6, <1>7

LEMMA StatementMoves ==
    ASSUME IInv, Statement, NEW m, NEW s, IsAt(m, s)
    PROVE  \E n, i : IsAt(n, i)'
<1>1. /\ m \in Migration /\ s \in Stage(m) /\ s \in 1 .. 13 /\ was.ver < m
      /\ Holds(db, was, m, s)
      /\ pc = "migrating" /\ executed \subseteq 1 .. (m - 1) /\ mig = m
      /\ stmt \in 1 .. 11 /\ stmt <= s
      /\ stmt = s \/ (crashes > 0 /\ Repeats(m, stmt, s))
      BY RunningAt DEF Statement
<1>2. was \in Contents /\ Plausible(was)  BY DEF IInv
<1>3. m \in 1 .. 10  BY <1>1 DEF Migration
<1>4. /\ Run(db, m, stmt) # Error /\ db' = Run(db, m, stmt)
      /\ IF stmt < Statements[m] THEN stmt' = stmt + 1 /\ mig' = m
                                 ELSE stmt' = 1 /\ mig' = m + 1
      /\ UNCHANGED <<pc, executed, was, crashes, refused>>
      BY <1>1 DEF Statement
<1>5. CASE stmt = s /\ s < Statements[m]
  <2>1. Goes(db, was, m, s)
    <3>1. s \in 1 .. (Statements[m] - 1)  BY <1>1, <1>3, <1>5, Stages
    <3>2. QED  BY <1>1, <1>2, <3>1, ScriptGoes
  <2>2. s + 1 \in Stage(m) /\ s + 1 \in 1 .. 11  BY <1>1, <1>3, <1>5, Stages
  <2>3. At(m, s + 1)'  BY <1>1, <1>4, <1>5, <2>2 DEF At
  <2>4. IsAt(m, s + 1)'  BY <1>1, <1>3, <1>4, <1>5, <2>1, <2>2, <2>3 DEF IsAt, Goes
  <2>5. QED  BY <2>4
<1>6. CASE stmt = s /\ ~(s < Statements[m])
  <2>1. s = Statements[m]  BY <1>1, <1>3, <1>6, Stages
  <2>2. Holds(db', was, m + 1, 1)  BY <1>1, <1>4, <1>6, <2>1, RecordGoes
  <2>3. 1 \in Stage(m + 1)  BY <1>1, <1>3, Stages
  <2>4. At(m + 1, 1)'  BY <1>1, <1>3, <1>4, <1>6 DEF At
  <2>5. was.ver < m + 1
    <3>1. was.ver \in 0 .. 10  BY <1>2, MigrationsAssumption
    <3>2. QED  BY <1>1, <1>3, <3>1
  <2>6. IsAt(m + 1, 1)'  BY <1>3, <1>4, <2>2, <2>3, <2>4, <2>5 DEF IsAt
  <2>7. QED  BY <2>6
<1>7. CASE stmt # s
  <2>1. crashes > 0 /\ Repeats(m, stmt, s)  BY <1>1, <1>7
  <2>2. CASE /\ Run(db, m, stmt) = db /\ stmt < Statements[m]
             /\ stmt + 1 = s \/ Repeats(m, stmt + 1, s)
    <3>1. stmt + 1 \in 1 .. 11 /\ stmt + 1 <= s
          BY <1>1, <1>3, <1>7, <2>2, Stages
    <3>2. At(m, s)'  BY <1>1, <1>4, <2>1, <2>2, <3>1 DEF At
    <3>3. IsAt(m, s)'  BY <1>1, <1>3, <1>4, <2>2, <3>2 DEF IsAt
    <3>4. QED  BY <3>3
  <2>3. CASE m = 6 /\ <<stmt, s>> \in {<<1, 11>>, <<2, 12>>} /\ Holds(Run(db, m, stmt), was, 6, s + 1)
    <3>1. s + 1 \in Stage(m) /\ stmt < Statements[m]  BY <2>3 DEF Stage, Statements
    <3>2. Repeats(m, stmt + 1, s + 1)  BY <2>3 DEF Repeats
    <3>3. At(m, s + 1)'  BY <1>1, <1>4, <2>1, <2>3, <3>1, <3>2 DEF At
    <3>4. IsAt(m, s + 1)'  BY <1>1, <1>3, <1>4, <2>3, <3>1, <3>3 DEF IsAt
    <3>5. QED  BY <3>4
  <2>4. QED  BY <1>1, <1>2, <1>4, <2>1, <2>2, <2>3, Repeated
<1>8. QED  BY <1>5, <1>6, <1>7

\* Only a statement that an earlier start has run is refused.
LEMMA RefusedThere ==
    ASSUME IInv, Refused, NEW m, NEW s, IsAt(m, s)
    PROVE  mig = m /\ m \in {3, 4, 6, 7, 8, 9} /\ crashes > 0
<1>1. /\ m \in Migration /\ s \in Stage(m) /\ s \in 1 .. 13 /\ was.ver < m
      /\ Holds(db, was, m, s) /\ mig = m
      /\ stmt \in 1 .. 11 /\ stmt <= s
      /\ stmt = s \/ (crashes > 0 /\ Repeats(m, stmt, s))
      BY RunningAt DEF Refused
<1>2. was \in Contents /\ Plausible(was)  BY DEF IInv
<1>3. m \in 1 .. 10  BY <1>1 DEF Migration
<1>4. Run(db, m, stmt) = Error  BY <1>1 DEF Refused
<1>5. stmt # s
  <2>1. CASE stmt = s /\ s < Statements[m]
    <3>1. s \in 1 .. (Statements[m] - 1)  BY <1>1, <1>3, <2>1, Stages
    <3>2. Goes(db, was, m, s)  BY <1>1, <1>2, <3>1, ScriptGoes
    <3>3. QED  BY <1>4, <2>1, <3>2 DEF Goes
  <2>2. CASE stmt = s /\ ~(s < Statements[m])
    <3>1. s = Statements[m]  BY <1>1, <1>3, <2>2, Stages
    <3>2. QED  BY <1>1, <1>4, <2>2, <3>1, RecordGoes
  <2>3. QED  BY <2>1, <2>2
<1>6. crashes > 0 /\ Repeats(m, stmt, s)  BY <1>1, <1>5
<1>7. m \in {3, 4, 6, 7, 8, 9}
      BY <1>1, <1>2, <1>4, <1>6, Repeated
<1>8. QED  BY <1>1, <1>6, <1>7

\* A start that ends with the database at (m, s), once any has died half way.
LEMMA EndsDown ==
    ASSUME NEW m, NEW s, IsAt(m, s), Down, UNCHANGED <<db, was>>, s = 1 \/ crashes' > 0
    PROVE  IsAt(m, s)'
BY DEF IsAt, At, Down

LEMMA StepIInv == IInv /\ [Next]_vars => IInv'
<1> SUFFICES ASSUME IInv, [Next]_vars PROVE IInv'
    OBVIOUS
<1>1. PICK m, s : IsAt(m, s)  BY PlaceOf
<1>2. /\ was \in Contents /\ Plausible(was) /\ crashes \in 0 .. MaxCrashes
      /\ refused \subseteq {3, 4, 6, 7, 8, 9} /\ (refused # {} => crashes > 0)
      /\ crashes \in Nat
      BY MigrationsAssumption DEF IInv
<1>3. m \in 1 .. 11 /\ s \in Stage(m)  BY <1>1 DEF IsAt
<1>4. CASE UNCHANGED vars
      BY <1>4 DEF IInv, vars, At
<1>5. CASE Start
  <2>1. IsAt(m, s)'  BY <1>1, <1>5, StartMoves
  <2>2. UNCHANGED <<was, crashes, refused>>  BY <1>5 DEF Start
  <2>3. QED  BY <1>2, <2>1, <2>2 DEF IInv, IsAt
<1>6. CASE Skip
  <2>1. IsAt(m, s)'  BY <1>1, <1>6, SkipMoves
  <2>2. UNCHANGED <<was, crashes, refused>>  BY <1>6 DEF Skip
  <2>3. QED  BY <1>2, <2>1, <2>2 DEF IInv, IsAt
<1>7. CASE Statement
  <2>1. \E n, i : IsAt(n, i)'  BY <1>1, <1>7, StatementMoves
  <2>2. UNCHANGED <<was, crashes, refused>>  BY <1>7 DEF Statement
  <2>3. QED  BY <1>2, <2>1, <2>2 DEF IInv, IsAt
<1>8. CASE Refused
  <2>1. mig = m /\ m \in {3, 4, 6, 7, 8, 9} /\ crashes > 0  BY <1>1, <1>8, RefusedThere
  <2>2. Down /\ UNCHANGED <<db, was, crashes>> /\ refused' = refused \cup {mig}
        BY <1>8 DEF Refused
  <2>3. IsAt(m, s)'  BY <1>1, <2>1, <2>2, EndsDown
  <2>4. QED  BY <1>2, <2>1, <2>2, <2>3 DEF IInv, IsAt
<1>9. CASE Serve
  <2>1. m = 11 /\ s = 1 /\ executed \subseteq Migration /\ mig = 11 /\ stmt = 1
    <3>1. pc = "migrating" /\ mig > 10  BY <1>9 DEF Serve
    <3>2. mig = m /\ executed \subseteq 1 .. (m - 1) /\ stmt \in 1 .. 11 /\ stmt <= s
          BY <1>1, <1>3, <3>1 DEF IsAt, At
    <3>3. m = 11  BY <1>3, <3>1, <3>2
    <3>4. s = 1  BY <1>3, <3>3, Stages
    <3>5. QED  BY <3>2, <3>3, <3>4 DEF Migration
  <2>2. IsAt(m, s)'  BY <1>1, <1>9, <2>1 DEF IsAt, At, Serve
  <2>3. UNCHANGED <<was, crashes, refused>>  BY <1>9 DEF Serve
  <2>4. QED  BY <1>2, <2>2, <2>3 DEF IInv, IsAt
<1>10. CASE Crash
  <2>1. Down /\ UNCHANGED <<db, was, refused>> /\ crashes < MaxCrashes /\ crashes' = crashes + 1
        BY <1>10 DEF Crash
  <2>2. crashes' \in 0 .. MaxCrashes /\ crashes' > 0
        BY <1>2, <2>1, MigrationsAssumption
  <2>3. IsAt(m, s)'  BY <1>1, <2>1, <2>2, EndsDown
  <2>4. QED  BY <1>2, <2>1, <2>2, <2>3 DEF IInv, IsAt
<1>11. CASE Stop
  <2>1. pc = "serving" /\ Down /\ UNCHANGED <<db, was, crashes, refused>>
        BY <1>11 DEF Stop
  <2>2. m = 11  BY <1>1, <2>1 DEF IsAt, At
  <2>3. s = 1  BY <1>3, <2>2, Stages
  <2>4. IsAt(m, s)'  BY <1>1, <2>1, <2>3, EndsDown
  <2>5. QED  BY <1>2, <2>1, <2>4 DEF IInv, IsAt
<1>12. QED
       BY <1>4, <1>5, <1>6, <1>7, <1>8, <1>9, <1>10, <1>11 DEF Next, Progress

LEMMA AlwaysIInv == Spec => []IInv
<1>1. Init => IInv  BY InitIInv
<1>2. IInv /\ [Next]_vars => IInv'  BY StepIInv
<1>3. QED  BY <1>1, <1>2, PTL DEF Spec

-----------------------------------------------------------------------------
(* What follows                                                             *)

LEMMA TablesFilled ==
    ASSUME NEW d, NEW c, NEW m \in 1 .. 11, NEW s \in 1 .. 13, m # 6 => s <= 11, Holds(d, c, m, s),
           NEW t \in Table
    PROVE  d[t] = NoTable \/ \E C, F : d[t] = Filled(C, F)
<1>1. CASE t = "migrations"  BY <1>1 DEF Holds, MigrationsTable
<1>2. CASE t \in {"visitors", "api_tokens", "sessions", "config", "idx_releases_platform_code"}
      BY <1>2 DEF Holds, Ensured
<1>3. CASE t = "apps"  BY <1>3 DEF Holds, AppsTable, Past
<1>4. CASE t = "releases"  BY <1>4 DEF Holds, ReleasesTable, Past
<1>5. CASE t = "apps_new"  BY <1>5 DEF Holds, AppsNewTable
<1>6. CASE t = "app_platforms"  BY <1>6 DEF Holds, VariantsTable, Past
<1>7. CASE t = "old_releases"  BY <1>7 DEF Holds, OldReleasesTable
<1>8. CASE t = "play_accounts"  BY <1>8 DEF Holds, AccountsTable, Past
<1>9. QED  BY <1>1, <1>2, <1>3, <1>4, <1>5, <1>6, <1>7, <1>8 DEF Table

LEMMA FilledRows ==
    ASSUME NEW C, NEW F, NEW r \in Filled(C, F).rows
    PROVE  DOMAIN r = C
BY FilledIs

LEMMA IInvTypeOK == IInv => TypeOK
<1> SUFFICES ASSUME IInv PROVE TypeOK
    OBVIOUS
<1>1. PICK m, s : IsAt(m, s)  BY PlaceOf
<1>2. m \in 1 .. 11 /\ s \in Stage(m) /\ s \in 1 .. 13 /\ (m # 6 => s <= 11)
      /\ Holds(db, was, m, s)
  <2>1. m \in 1 .. 11 /\ s \in Stage(m) /\ Holds(db, was, m, s)  BY <1>1 DEF IsAt
  <2>2. QED  BY <2>1, Stages
<1>3. DOMAIN db = Table  BY <1>2 DEF Holds
<1>4. ASSUME NEW t \in Table, Exists(db, t), NEW r \in Rows(db, t) PROVE DOMAIN r = Cols(db, t)
  <2>1. PICK C, F : db[t] = Filled(C, F)
        BY <1>2, <1>4, TablesFilled DEF Exists
  <2>2. QED  BY <1>4, <2>1, FilledIs, FilledRows DEF Rows, Cols
<1>5. /\ pc \in {"down", "migrating", "serving"}
      /\ executed \subseteq Migration /\ mig \in 0 .. 11 /\ stmt \in 0 .. 11
      BY <1>1, <1>2 DEF IsAt, At, Migration
<1>6. was \in Contents /\ crashes \in 0 .. MaxCrashes /\ refused \subseteq Migration
      BY DEF IInv, Migration
<1>7. QED  BY <1>3, <1>4, <1>5, <1>6 DEF TypeOK

\* A table that was filled with f has a row with its values.
LEMMA Has ==
    ASSUME NEW t \in Table, NEW C, NEW F, db[t] = Filled(C, F), NEW f \in F,
           NEW want, DOMAIN want \subseteq C, \A k \in DOMAIN want : f[k] = want[k]
    PROVE  Somewhere(want)
<1>1. Exists(db, t) /\ Cols(db, t) = C /\ Rows(db, t) = {[k \in C |-> g[k]] : g \in F}
      BY FilledIs DEF Exists, Cols, Rows
<1>2. [k \in C |-> f[k]] \in Rows(db, t)  BY <1>1
<1>3. \A k \in DOMAIN want : [j \in C |-> f[j]][k] = want[k]
      OBVIOUS
<1>4. QED  BY <1>1, <1>2, <1>3 DEF Somewhere

\* A variant's row once the platform variants have a table of their own.
LEMMA VariantHas ==
    ASSUME NEW m \in 1 .. 11, NEW s \in 1 .. 13, Holds(db, was, m, s), Past(m, s, 6, 4),
           NEW x \in was.variants
    PROVE  \E f \in VariantsNow(was, m, s) :
              /\ db["app_platforms"] = Filled(VariantsAt(m, s), VariantsNow(was, m, s))
              /\ f.app_id = x.slug /\ f.platform = x.platform
              /\ f.sign_keystore = x.key /\ f.play_credentials = x.cred
              /\ Past(m, s, 7, 5) => f.play_account_id = x.cred
<1>1. db["app_platforms"] = Filled(VariantsAt(m, s), VariantsNow(was, m, s))
      BY DEF Holds, VariantsTable, Past
<1>2. CASE Past(m, s, 7, 2) /\ ~Past(m, s, 7, 4)
  <2>1. Unlinked(x) \in VariantsNow(was, m, s)  BY <1>2 DEF VariantsNow
  <2>2. /\ Unlinked(x).app_id = x.slug /\ Unlinked(x).platform = x.platform
        /\ Unlinked(x).sign_keystore = x.key /\ Unlinked(x).play_credentials = x.cred
        BY DEF Unlinked, VariantRow
  <2>3. ~Past(m, s, 7, 5)  BY <1>2 DEF Past
  <2>4. QED  BY <1>1, <2>1, <2>2, <2>3
<1>3. CASE ~(Past(m, s, 7, 2) /\ ~Past(m, s, 7, 4))
  <2>1. VariantRow(x) \in VariantsNow(was, m, s)  BY <1>3 DEF VariantsNow, VariantRows
  <2>2. QED  BY <1>1, <2>1 DEF VariantRow
<1>4. QED  BY <1>2, <1>3

LEMMA VariantKept ==
    ASSUME was \in Contents, Plausible(was), NEW m \in 1 .. 11, NEW s \in 1 .. 13,
           m # 6 => s <= 11, was.ver < m, Holds(db, was, m, s), NEW x \in was.variants
    PROVE  /\ Somewhere([slug |-> x.slug])
           /\ \/ Somewhere([slug |-> x.slug, platform |-> x.platform, sign_keystore |-> x.key])
              \/ Somewhere([app_id |-> x.slug, platform |-> x.platform, sign_keystore |-> x.key])
              \/ x.key = None
           /\ \/ Somewhere([platform |-> x.platform, play_credentials |-> x.cred])
              \/ /\ Somewhere([credentials |-> x.cred])
                 /\ Somewhere([app_id |-> x.slug, platform |-> x.platform, play_account_id |-> x.cred])
              \/ x.cred = None
<1>1. was.ver \in 0 .. 10  BY MigrationsAssumption
<1>2. /\ m >= 3 /\ (x.cred # None => m >= 4) /\ (x.key # None => m >= 5)
      BY <1>1 DEF Plausible
<1>3. VariantRow(x) \in VariantRows(was)  BY DEF VariantRows
<1>4. /\ VariantRow(x).slug = x.slug /\ VariantRow(x).platform = x.platform
      /\ VariantRow(x).sign_keystore = x.key /\ VariantRow(x).play_credentials = x.cred
      BY DEF VariantRow
<1>5. ~Past(m, s, 6, 9) => db["apps"] = Filled(AppsAt(m, s), VariantRows(was))
      BY <1>2 DEF Holds, AppsTable, Past
<1>6. "apps" \in Table /\ "apps_new" \in Table /\ "app_platforms" \in Table
      /\ "play_accounts" \in Table
      BY DEF Table
<1>7. /\ {"slug", "platform"} \subseteq AppsAt(m, s)
      /\ m >= 4 => "play_credentials" \in AppsAt(m, s)
      /\ m >= 5 => "sign_keystore" \in AppsAt(m, s)
      /\ {"app_id", "platform", "sign_keystore"} \subseteq VariantsAt(m, s)
      /\ ~Past(m, s, 7, 5) => "play_credentials" \in VariantsAt(m, s)
      /\ Past(m, s, 7, 5) => "play_account_id" \in VariantsAt(m, s)
      BY DEF AppsAt, VariantsAt, Past, Sign, PlatformCols
<1>8. Past(m, s, 6, 9) => Past(m, s, 6, 4)  BY DEF Past
<1>9. Somewhere([slug |-> x.slug])
  <2> DEFINE want == [slug |-> x.slug]
  <2>1. DOMAIN want = {"slug"} /\ want.slug = x.slug  OBVIOUS
  <2> HIDE DEF want
  <2>2. CASE ~Past(m, s, 6, 9)
        BY <1>3, <1>4, <1>5, <1>6, <1>7, <2>1, <2>2, Has DEF want
  <2>3. CASE Past(m, s, 6, 9) /\ ~Past(m, s, 6, 10)
    <3>1. db["apps_new"] = Filled({"slug"}, VariantRows(was))
          BY <2>3 DEF Holds, AppsNewTable, Past
    <3>2. QED  BY <1>3, <1>4, <1>6, <2>1, <3>1, Has DEF want
  <2>4. CASE Past(m, s, 6, 10)
    <3>1. db["apps"] = Filled({"slug"}, VariantRows(was))
          BY <2>4 DEF Holds, AppsTable, Past
    <3>2. QED  BY <1>3, <1>4, <1>6, <2>1, <3>1, Has DEF want
  <2>5. QED  BY <2>2, <2>3, <2>4
<1>10. ASSUME x.key # None
       PROVE  \/ Somewhere([slug |-> x.slug, platform |-> x.platform, sign_keystore |-> x.key])
              \/ Somewhere([app_id |-> x.slug, platform |-> x.platform, sign_keystore |-> x.key])
  <2>1. CASE ~Past(m, s, 6, 9)
    <3> DEFINE want == [slug |-> x.slug, platform |-> x.platform, sign_keystore |-> x.key]
    <3>1. DOMAIN want = {"slug", "platform", "sign_keystore"} /\ want.slug = x.slug
          /\ want.platform = x.platform /\ want.sign_keystore = x.key
          OBVIOUS
    <3> HIDE DEF want
    <3>2. Somewhere(want)
          BY <1>2, <1>3, <1>4, <1>5, <1>6, <1>7, <1>10, <2>1, <3>1, Has
    <3>3. QED  BY <3>2 DEF want
  <2>2. CASE Past(m, s, 6, 9)
    <3> DEFINE want == [app_id |-> x.slug, platform |-> x.platform, sign_keystore |-> x.key]
    <3>1. DOMAIN want = {"app_id", "platform", "sign_keystore"} /\ want.app_id = x.slug
          /\ want.platform = x.platform /\ want.sign_keystore = x.key
          OBVIOUS
    <3> HIDE DEF want
    <3>2. Somewhere(want)
          BY <1>6, <1>7, <1>8, <2>2, <3>1, VariantHas, Has, SMTT(30)
    <3>3. QED  BY <3>2 DEF want
  <2>3. QED  BY <2>1, <2>2
<1>11. ASSUME x.cred # None
       PROVE  \/ Somewhere([platform |-> x.platform, play_credentials |-> x.cred])
              \/ /\ Somewhere([credentials |-> x.cred])
                 /\ Somewhere([app_id |-> x.slug, platform |-> x.platform, play_account_id |-> x.cred])
  <2> DEFINE want == [platform |-> x.platform, play_credentials |-> x.cred]
  <2>1. DOMAIN want = {"platform", "play_credentials"}
        /\ want.platform = x.platform /\ want.play_credentials = x.cred
        OBVIOUS
  <2>2. CASE ~Past(m, s, 6, 9)
    <3> HIDE DEF want
    <3>1. Somewhere(want)
          BY <1>2, <1>3, <1>4, <1>5, <1>6, <1>7, <1>11, <2>1, <2>2, Has
    <3>2. QED  BY <3>1 DEF want
  <2>3. CASE Past(m, s, 6, 9) /\ ~Past(m, s, 7, 5)
    <3> HIDE DEF want
    <3>1. Somewhere(want)
          BY <1>6, <1>7, <1>8, <2>1, <2>3, VariantHas, Has, SMTT(30)
    <3>2. QED  BY <3>1 DEF want
  <2>4. CASE Past(m, s, 7, 5)
    <3> DEFINE account == [credentials |-> x.cred]
               link == [app_id |-> x.slug, platform |-> x.platform, play_account_id |-> x.cred]
    <3>1. DOMAIN account = {"credentials"} /\ account.credentials = x.cred
          OBVIOUS
    <3>2. DOMAIN link = {"app_id", "platform", "play_account_id"} /\ link.app_id = x.slug
          /\ link.platform = x.platform /\ link.play_account_id = x.cred
          OBVIOUS
    <3>3. db["play_accounts"] = Filled({"credentials"}, AccountRows(was))
          BY <2>4 DEF Holds, AccountsTable, Past
    <3>4. account \in AccountRows(was)  BY <1>11 DEF AccountRows
    <3> HIDE DEF account, link
    <3>5. Somewhere(account)  BY <1>6, <3>1, <3>3, <3>4, Has
    <3>6. Past(m, s, 6, 4)  BY <2>4 DEF Past
    <3>7. Somewhere(link)  BY <1>6, <1>7, <2>4, <3>2, <3>6, VariantHas, Has, SMTT(30)
    <3>8. QED  BY <3>5, <3>7 DEF account, link
  <2>5. QED  BY <2>2, <2>3, <2>4
<1>12. QED  BY <1>9, <1>10, <1>11

LEMMA ReleaseKept ==
    ASSUME was \in Contents, Plausible(was), NEW m \in 1 .. 11, NEW s \in 1 .. 13,
           m # 6 => s <= 11, was.ver < m, Holds(db, was, m, s), NEW r \in was.releases
    PROVE  \/ Somewhere([app_id |-> r.slug, version_code |-> r.code])
           \/ Somewhere([app_platform_id |-> <<r.slug, r.platform>>, version_code |-> r.code])
<1> DEFINE f == ReleaseRow(ReleaseNow(was, m, s, r))
           old == [app_id |-> r.slug, version_code |-> r.code]
           new == [app_platform_id |-> <<r.slug, r.platform>>, version_code |-> r.code]
<1>1. was.ver \in 0 .. 10  BY MigrationsAssumption
<1>2. m >= 3  BY <1>1 DEF Plausible
<1>3. f \in ReleasesNow(was, m, s)  BY DEF ReleasesNow
<1>4. f.app_id = r.slug /\ f.version_code = r.code /\ f.app_platform_id = <<r.slug, r.platform>>
      BY NowIs DEF ReleaseRow
<1>5. "releases" \in Table /\ "old_releases" \in Table  BY DEF Table
<1>6. {"app_platform_id", "version_code"} \subseteq ReleasesAt(m, s)
      BY DEF ReleasesAt, ReleaseCols
<1>7. {"app_id", "version_code"} \subseteq OldCols  BY DEF OldCols
<1>8. DOMAIN old = {"app_id", "version_code"} /\ old.app_id = r.slug /\ old.version_code = r.code
      OBVIOUS
<1>9. DOMAIN new = {"app_platform_id", "version_code"}
      /\ new.app_platform_id = <<r.slug, r.platform>> /\ new.version_code = r.code
      OBVIOUS
<1> HIDE DEF f, old, new
<1>10. CASE ~Past(m, s, 6, 5)
  <2>1. db["releases"] = Filled(OldCols, ReleasesNow(was, m, s))
        BY <1>2, <1>10 DEF Holds, ReleasesTable, Past
  <2>2. Somewhere(old)  BY <1>3, <1>4, <1>5, <1>7, <1>8, <2>1, Has
  <2>3. QED  BY <2>2 DEF old
<1>11. CASE Past(m, s, 6, 5) /\ ~Past(m, s, 6, 7)
  <2>1. db["old_releases"] = Filled(OldCols, ReleasesNow(was, m, s))
        BY <1>11 DEF Holds, OldReleasesTable, Past
  <2>2. Somewhere(old)  BY <1>3, <1>4, <1>5, <1>7, <1>8, <2>1, Has
  <2>3. QED  BY <2>2 DEF old
<1>12. CASE Past(m, s, 6, 7)
  <2>1. db["releases"] = Filled(ReleasesAt(m, s), ReleasesNow(was, m, s))
        BY <1>12 DEF Holds, ReleasesTable, Past
  <2>2. Somewhere(new)  BY <1>3, <1>4, <1>5, <1>6, <1>9, <2>1, Has
  <2>3. QED  BY <2>2 DEF new
<1>13. QED  BY <1>10, <1>11, <1>12

\* Every step keeps the tables of the database, and every row its columns.
THEOREM MigrationsTypeOK == Spec => []TypeOK
<1>1. IInv => TypeOK  BY IInvTypeOK
<1>2. QED  BY <1>1, AlwaysIInv, PTL

\* Whatever statement a start dies at, and however often: every app, signing
\* key, credential and release that a hub of any earlier version stored is in
\* one of the tables (db.RunMigrations; the scripts of db/migrations).
THEOREM UpgradeLosesNothing == Spec => []NothingLost
<1>1. ASSUME IInv PROVE NothingLost
  <2>1. PICK m, s : IsAt(m, s)  BY <1>1, PlaceOf
  <2>2. m \in 1 .. 11 /\ s \in Stage(m) /\ was.ver < m /\ Holds(db, was, m, s)
        BY <2>1 DEF IsAt
  <2>3. s \in 1 .. 13 /\ (m # 6 => s <= 11)  BY <2>2, Stages
  <2>4. was \in Contents /\ Plausible(was)  BY <1>1 DEF IInv
  <2>5. QED  BY <2>2, <2>3, <2>4, VariantKept, ReleaseKept DEF NothingLost
<1>2. QED  BY <1>1, AlwaysIInv, PTL

\* A hub that comes to serve has the current schema and exactly what it held
\* before, whatever version left the database and however its starts ended.
THEOREM ServesAsBefore == Spec => []ServesWhatWasThere
<1>1. ASSUME IInv PROVE ServesWhatWasThere
  <2>1. SUFFICES ASSUME pc = "serving" PROVE db = Holding(Current(was), 10)
        BY DEF ServesWhatWasThere
  <2>2. PICK m, s : IsAt(m, s)  BY <1>1, PlaceOf
  <2>3. m = 11 /\ s = 1  BY <2>1, <2>2, Stages DEF IsAt, At
  <2>4. Holds(db, was, 11, 1)  BY <2>2, <2>3 DEF IsAt
  <2>5. QED  BY <1>1, <2>4, LastHeld DEF IInv
<1>2. QED  BY <1>1, AlwaysIInv, PTL

\* No start is refused unless one was cut short, and then only by scripts 3, 4,
\* 6, 7, 8 and 9: the others can be run again from any statement.
THEOREM RefusalNeedsCrash == Spec => []RefusedAfterCrash
<1>1. IInv => RefusedAfterCrash  BY DEF IInv, RefusedAfterCrash
<1>2. QED  BY <1>1, AlwaysIInv, PTL
=============================================================================
