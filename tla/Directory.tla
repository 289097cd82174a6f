----------------------------- MODULE Directory ------------------------------
(***************************************************************************)
(* The directory that license-tool writes its files into, under a file     *)
(* system that may lose power.                                             *)
(*                                                                         *)
(* `dir' is what a process that looks now finds under each name.  `onDisk' *)
(* is the set of directories a power loss may leave: changes reach the     *)
(* disk in the order in which they were made (a journaling file system),   *)
(* so these are the directories there have been since the last sync.       *)
(***************************************************************************)

CONSTANT Absent           \* no such file

VARIABLES
    dir, onDisk,
    start,                \* history: the files there at the start
    force                 \* force[c]: the -force argument of each call c made

dirVars == <<dir, onDisk>>
given == <<start, force>>

DirectoryInit(names) ==
    /\ dir = [n \in names |-> IF n \in DOMAIN start THEN start[n] ELSE Absent]
    /\ onDisk = {dir}

(***************************************************************************)
(* A create, rename or remove: visible at once, durable with a later sync. *)
(***************************************************************************)
Change(d) ==
    /\ dir' = d
    /\ onDisk' = onDisk \cup {d}

(***************************************************************************)
(* The contents that c has written and not yet synced: a power loss may    *)
(* leave them in part.                                                     *)
(***************************************************************************)
Partial(c) == <<"partial", c>>

With(name, content) == [dir EXCEPT ![name] = content]

Without(names) == [n \in DOMAIN dir |-> IF n \in names THEN Absent ELSE dir[n]]

Moved(from, to) == [dir EXCEPT ![to] = dir[from], ![from] = Absent]

(***************************************************************************)
(* The contents of a file reach the disk: wherever it survives it is       *)
(* whole.  Its directory entry is as durable as before.                    *)
(***************************************************************************)
FileSync(name, partial, whole) ==
    LET Synced(d) == IF d[name] = partial THEN [d EXCEPT ![name] = whole] ELSE d
    IN  /\ dir' = Synced(dir)
        /\ onDisk' = {Synced(d) : d \in onDisk}

\* Mutation of fsyncDir: reports success without a sync.
UnsyncedDir(ok) ==
    /\ UNCHANGED dirVars
    /\ ok = TRUE

(***************************************************************************)
(* fsyncDir, which returns ok (on POSIX): the directory fails to open or   *)
(* to sync, or is synced and then perhaps fails to close.                  *)
(***************************************************************************)
fsyncDir(ok) ==
    /\ dir' = dir
    /\ \/ onDisk' = {dir} /\ ok \in BOOLEAN
       \/ onDisk' = onDisk /\ ok = FALSE

PowerLoss == \E d \in onDisk : dir' = d /\ onDisk' = {d}
=============================================================================
