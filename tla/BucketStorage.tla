--------------------------- MODULE BucketStorage ---------------------------
(***************************************************************************)
(* The artifact store in an S3 bucket (S3Storage in srv/storage.go).  An   *)
(* object is there whole or not at all, and a Put over another replaces    *)
(* it.  Any call may fail, and one that fails may have been carried out.   *)
(*                                                                         *)
(* Like LocalStorage it has no next-state relation of its own.             *)
(***************************************************************************)
CONSTANTS
    NoFile      \* a key without an object; no Save has this name

VARIABLES
    objects,    \* key -> the Save whose object is there, or NoFile
    bodies      \* Save -> what its object holds

\* manager.Uploader.Upload: all parts, then the object appears.
Put(s, k, body) ==
    /\ objects' = [objects EXCEPT ![k] = s]
    /\ bodies'  = [bodies EXCEPT ![s] = body]

\* Faulty variant: the key is given without its prefix, and S3 reports a
\* missing object as deleted.
RemoveUnprefixed(k) == UNCHANGED <<objects, bodies>>

\* DeleteObject.
Remove(k) ==
    /\ objects' = [objects EXCEPT ![k] = NoFile]
    /\ UNCHANGED bodies

\* HeadObject, for the size Save returns.
Sized(k) == objects[k] # NoFile
=============================================================================
