----------------------------- MODULE OutputFile -----------------------------
(***************************************************************************)
(* cmd/license-tool/util.go: writeFileNoClobber, with which the commands   *)
(* issue and revoke-list write their -out file.  Without force the file is *)
(* created exclusively and filled in place; with force a staged file is    *)
(* renamed over it.                                                        *)
(*                                                                         *)
(* Each call to the file system is a step and may fail.  The content of    *)
(* the file is named after the call that wrote it; until that call has     *)
(* synced it, a power loss may leave it in part.  The staged file has a    *)
(* random name that nobody else looks up.                                  *)
(***************************************************************************)
EXTENDS Directory

CONSTANT Output   \* the calls of writeFileNoClobber there may be, on one path

VARIABLES
    at,           \* at[o]: the next step of o, or how it has ended
    temp          \* temp[o]: the content of the staged file of o

outVars == <<at, temp>>

Out == <<"output">>

Outputs == Output \cap DOMAIN force

Ended == {"ok", "refused", "error", "killed"}

GotoOut(o, step) ==
    /\ at' = [at EXCEPT ![o] = step]
    /\ UNCHANGED temp

First(o) == IF force[o] THEN "stage" ELSE "create"

OutputInit ==
    /\ at = [o \in Outputs |-> First(o)]
    /\ temp = [o \in Outputs |-> Absent]

-----------------------------------------------------------------------------
(***************************************************************************)
(* writeExclusive.                                                         *)
(***************************************************************************)
\* Mutation of CreateExclusive: O_TRUNC for O_EXCL.
CreateOrTruncate(o) ==
    /\ at[o] = "create"
    /\ \/ Change(With(Out, Partial(o))) /\ GotoOut(o, "write")
       \/ UNCHANGED dirVars /\ GotoOut(o, "refused")

CreateExclusive(o) ==
    /\ at[o] = "create"
    /\ \/ /\ dir[Out] = Absent
          /\ Change(With(Out, Partial(o)))
          /\ GotoOut(o, "write")
       \/ UNCHANGED dirVars /\ GotoOut(o, "refused")

Write(o) ==
    /\ at[o] = "write"
    /\ \E next \in {"sync", "discard"} : GotoOut(o, next)
    /\ UNCHANGED dirVars

\* Mutation of Sync: the file is closed without a sync.
NoSync(o) ==
    /\ at[o] = "sync"
    /\ UNCHANGED dirVars
    /\ GotoOut(o, "close")

(***************************************************************************)
(* The sync is of the file that was created, whatever has been renamed     *)
(* over its name since.                                                    *)
(***************************************************************************)
Sync(o) ==
    /\ at[o] = "sync"
    /\ \/ FileSync(Out, Partial(o), o) /\ GotoOut(o, "close")
       \/ UNCHANGED dirVars /\ GotoOut(o, "discard")

Close(o) ==
    /\ at[o] = "close"
    /\ \E next \in {"sync dir", "error"} : GotoOut(o, next)
    /\ UNCHANGED dirVars

(***************************************************************************)
(* After a failed write or sync the path is removed, best effort.          *)
(***************************************************************************)
Discard(o) ==
    /\ at[o] = "discard"
    /\ Change(With(Out, Absent)) \/ UNCHANGED dirVars
    /\ GotoOut(o, "error")

-----------------------------------------------------------------------------
(***************************************************************************)
(* writeAtomicReplace.                                                     *)
(***************************************************************************)
Staging(o, content, step) ==
    /\ temp' = [temp EXCEPT ![o] = content]
    /\ at' = [at EXCEPT ![o] = step]

StageOut(o) ==
    /\ at[o] = "stage"
    /\ Staging(o, Partial(o), "sync staged") \/ GotoOut(o, "error")
    /\ UNCHANGED dirVars

\* Mutation of SyncStagedOut: the staged file is closed without a sync.
CloseStagedOut(o) ==
    /\ at[o] = "sync staged"
    /\ GotoOut(o, "rename") \/ GotoOut(o, "error")
    /\ UNCHANGED dirVars

SyncStagedOut(o) ==
    /\ at[o] = "sync staged"
    /\ Staging(o, o, "rename") \/ GotoOut(o, "error")
    /\ UNCHANGED dirVars

\* Mutation of RenameOut: the path is cleared before the rename.
RemoveFirst(o) ==
    /\ at[o] = "rename"
    /\ \/ dir[Out] = Absent /\ Change(With(Out, temp[o])) /\ GotoOut(o, "sync dir")
       \/ dir[Out] # Absent /\ Change(With(Out, Absent)) /\ GotoOut(o, "rename")
       \/ UNCHANGED dirVars /\ GotoOut(o, "error")

RenameOut(o) ==
    /\ at[o] = "rename"
    /\ \/ Change(With(Out, temp[o])) /\ GotoOut(o, "sync dir")
       \/ UNCHANGED dirVars /\ GotoOut(o, "error")

-----------------------------------------------------------------------------
SyncOut(o) ==
    /\ at[o] = "sync dir"
    /\ \E ok \in BOOLEAN :
          fsyncDir(ok) /\ GotoOut(o, IF ok THEN "ok" ELSE "error")

KillOut(o) ==
    /\ at[o] \notin Ended
    /\ UNCHANGED dirVars
    /\ GotoOut(o, "killed")

writeFileNoClobber(o) ==
    \/ CreateExclusive(o) \/ Write(o) \/ Sync(o) \/ Close(o) \/ Discard(o)
    \/ StageOut(o) \/ SyncStagedOut(o) \/ RenameOut(o)
    \/ SyncOut(o)

(***************************************************************************)
(* Nobody remembers the outcome of a call from before a power loss; one    *)
(* that had not begun may be made afterwards.                              *)
(***************************************************************************)
OutputsLost ==
    /\ at' = [o \in Outputs |-> IF at[o] = First(o) THEN First(o) ELSE "killed"]
    /\ UNCHANGED temp
=============================================================================
