----------------------------- MODULE AtomicFile -----------------------------
(***************************************************************************)
(* The state file under atomicWriteFile (pkg/license/rollback.go), shared  *)
(* by RollbackStore and FileRevocationStateStore.                          *)
(*                                                                         *)
(* `file' is what a process that opens the path now reads.  `onDisk' is    *)
(* the set of contents the path may have after a power loss: a rename is   *)
(* only one of the possible survivors until the parent directory has been  *)
(* synced.  Temporary files have random names, are never read, and are     *)
(* removed by a deferred call, so staging shows only as success or failure.*)
(***************************************************************************)

CONSTANTS
    Windows,        \* runtimeGOOS == "windows": directory sync is best effort
    SyncMayFail     \* the directory may fail to open or to sync

VARIABLES file, onDisk

fileVars == <<file, onDisk>>

ASSUME AtomicFileConstants ==
    /\ Windows \in BOOLEAN
    /\ SyncMayFail \in BOOLEAN

(***************************************************************************)
(* fsRename: the path shows the new contents at once, the old directory    *)
(* entry may still be the one that survives.                               *)
(***************************************************************************)
RenameOver(content) ==
    /\ file' = content
    /\ onDisk' = onDisk \cup {content}

\* Mutation of fsyncStateDir: reports success without a sync.
UnsyncedStateDir(ok) ==
    /\ UNCHANGED fileVars
    /\ ok = TRUE

(***************************************************************************)
(* fsyncStateDir, which returns ok.  The directory may fail to open or to  *)
(* sync (an error on POSIX, skipped on Windows), or sync and then fail to  *)
(* close (an error everywhere, although the entry is durable).             *)
(***************************************************************************)
fsyncStateDir(ok) ==
    /\ file' = file
    /\ \/ onDisk' = {file} /\ ok = TRUE
       \/ SyncMayFail /\ onDisk' = onDisk /\ ok = Windows
       \/ onDisk' = {file} /\ ok = FALSE

(***************************************************************************)
(* A power loss leaves one of the survivors, which is then the only one.   *)
(***************************************************************************)
PowerLoss ==
    \E c \in onDisk :
        /\ file' = c
        /\ onDisk' = {c}

(***************************************************************************)
(* Someone other than the store replaces the file and syncs it.            *)
(***************************************************************************)
ReplacedOutside(content) ==
    /\ file' = content
    /\ onDisk' = {content}
=============================================================================
