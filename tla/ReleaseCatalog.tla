--------------------------- MODULE ReleaseCatalog ---------------------------
(***************************************************************************)
(* What the hub promises the build that uploads and the devices that read: *)
(* an upload enters the catalogue at most once and in one step, under a    *)
(* version code no release has; it is answered "created" only once it is   *)
(* in, and with an error only if it never gets in, or is in and no URL of  *)
(* it can be signed.  Before that it may be left without an answer.  A     *)
(* release that is gone does not come back.                                *)
(* Files, retention and requests do not appear at this level.              *)
(***************************************************************************)
CONSTANTS Upload, Code, Channel, Nobody

VARIABLES
    catalogue,  \* version code -> the upload and channel released, or Nobody
    fate        \* upload -> how far it got, as its client may see it

catalogVars == <<catalogue, fate>>

Release == [upload : Upload, chan : Channel]

CatalogInit ==
    /\ catalogue = [c \in Code |-> Nobody]
    /\ fate = [u \in Upload |-> "open"]

\* The upload becomes a release.
Enter(u, c, ch) ==
    /\ fate[u] = "open" /\ catalogue[c] = Nobody
    /\ catalogue' = [catalogue EXCEPT ![c] = [upload |-> u, chan |-> ch]]
    /\ fate' = [fate EXCEPT ![u] = "entered"]

Created(u) ==
    /\ fate[u] = "entered"
    /\ fate' = [fate EXCEPT ![u] = "created"]
    /\ UNCHANGED catalogue

\* The release is in, the upload is told of an error all the same.
Unsigned(u) ==
    /\ fate[u] = "entered"
    /\ fate' = [fate EXCEPT ![u] = "unsigned"]
    /\ UNCHANGED catalogue

Refused(u) ==
    /\ fate[u] = "open"
    /\ fate' = [fate EXCEPT ![u] = "refused"]
    /\ UNCHANGED catalogue

\* Uploads end without an answer, several at once when the hub dies.
Unanswered ==
    /\ \E U \in SUBSET {u \in Upload : fate[u] \in {"open", "entered"}} :
            fate' = [u \in Upload |-> IF u \in U THEN "unanswered" ELSE fate[u]]
    /\ UNCHANGED catalogue

\* A release is deleted, by hand or by retention.
Withdraw(c) ==
    /\ catalogue' = [catalogue EXCEPT ![c] = Nobody]
    /\ UNCHANGED fate

CatalogNext ==
    \/ \E u \in Upload :
        \/ \E c \in Code, ch \in Channel : Enter(u, c, ch)
        \/ Created(u) \/ Unsigned(u) \/ Refused(u)
    \/ Unanswered
    \/ \E c \in Code : Withdraw(c)

CatalogSpec == CatalogInit /\ [][CatalogNext]_catalogVars
=============================================================================
