---------------------------- MODULE LocalStorage ----------------------------
(***************************************************************************)
(* The artifact store on the hub's own disk (LocalStorage in               *)
(* srv/storage.go).  Save streams a body into the temporary name           *)
(* <key>.part and renames it onto <key>; nothing serialises two Saves, so  *)
(* each system call is a step of its own here.  A path names an inode, and *)
(* a Save keeps writing to the inode it opened whatever later happens to   *)
(* the name.                                                               *)
(*                                                                         *)
(* The module has no next-state relation of its own: the requests of       *)
(* Releases drive it.                                                      *)
(***************************************************************************)
EXTENDS Naturals

CONSTANTS
    Saver,      \* the Saves: each streams one body, its own
    Key,        \* artifact keys
    Chunks,     \* a body reaches the disk in this many writes, at least one
    NoFile      \* a path that does not exist; no Save has this name

VARIABLES
    disk,       \* key -> the inode <key> names, or NoFile
    part,       \* key -> the inode <key>.part names, or NoFile
    data,       \* inode -> chunk number -> the Save whose bytes are there
    fd,         \* Save -> the inode it holds open for writing, or NoFile
    off         \* Save -> chunks written so far

storageVars == <<disk, part, data, fd, off>>

Inode == Saver      \* a Save creates at most one inode; name it after the Save
Chunk == 1 .. Chunks
Hole  == NoFile     \* a chunk nobody wrote
Blank == [c \in Chunk |-> Hole]

\* What inode i holds after a Save by s that nobody disturbed.
BodyOf(s) == [c \in Chunk |-> s]
Intact(s, i) == data[i] = BodyOf(s)

StorageTypeOK ==
    /\ disk \in [Key -> Inode \cup {NoFile}]
    /\ part \in [Key -> Inode \cup {NoFile}]
    /\ data \in [Inode -> [Chunk -> Saver \cup {Hole}]]
    /\ fd   \in [Saver -> Inode \cup {NoFile}]
    /\ off  \in [Saver -> 0 .. Chunks]

StorageInit ==
    /\ disk = [k \in Key |-> NoFile]
    /\ part = [k \in Key |-> NoFile]
    /\ data = [i \in Inode |-> Blank]
    /\ fd   = [s \in Saver |-> NoFile]
    /\ off  = [s \in Saver |-> 0]

-----------------------------------------------------------------------------
\* os.Create(<key>.part): truncates the file of that name, whoever is writing
\* to it, or makes a new one.
Create(s, k) ==
    LET i == IF part[k] = NoFile THEN s ELSE part[k]
    IN  /\ part' = [part EXCEPT ![k] = i]
        /\ data' = [data EXCEPT ![i] = Blank]
        /\ fd'   = [fd EXCEPT ![s] = i]
        /\ UNCHANGED <<disk, off>>

\* One write of io.Copy, at the Save's own offset in the inode it opened.
Write(s) ==
    /\ off[s] < Chunks
    /\ data' = [data EXCEPT ![fd[s]][off[s] + 1] = s]
    /\ off'  = [off EXCEPT ![s] = @ + 1]
    /\ UNCHANGED <<disk, part, fd>>

\* f.Close().
Close(s) ==
    /\ fd'  = [fd EXCEPT ![s] = NoFile]
    /\ off' = [off EXCEPT ![s] = 0]

\* A write or the close fails: the Save removes the temporary name, whoever
\* wrote to it last, and reports the error.
WriteFails(s, k) ==
    /\ part' = [part EXCEPT ![k] = NoFile]
    /\ Close(s)
    /\ UNCHANGED <<disk, data>>

\* Faulty variant: a short copy goes unnoticed.
RenameEarly(s, k) ==
    /\ part[k] # NoFile
    /\ disk' = [disk EXCEPT ![k] = part[k]]
    /\ part' = [part EXCEPT ![k] = NoFile]
    /\ Close(s)
    /\ UNCHANGED data

\* os.Rename(<key>.part, <key>) moves whatever the temporary name holds by now.
Rename(s, k) ==
    /\ off[s] = Chunks
    /\ part[k] # NoFile
    /\ disk' = [disk EXCEPT ![k] = part[k]]
    /\ part' = [part EXCEPT ![k] = NoFile]
    /\ Close(s)
    /\ UNCHANGED data

\* The temporary name is gone: the rename fails, and so does the clean-up.
RenameFails(s, k) ==
    /\ off[s] = Chunks
    /\ part[k] = NoFile
    /\ Close(s)
    /\ UNCHANGED <<disk, part, data>>

\* Delete(key): os.Remove.
Remove(k) ==
    /\ disk' = [disk EXCEPT ![k] = NoFile]
    /\ UNCHANGED <<part, data, fd, off>>

\* The process dies: its files are closed, the disk stays as it is.
CloseAll ==
    /\ fd'  = [s \in Saver |-> NoFile]
    /\ off' = [s \in Saver |-> 0]
    /\ UNCHANGED <<disk, part, data>>
=============================================================================
