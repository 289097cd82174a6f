----------------------------- MODULE IssuerFiles ----------------------------
(***************************************************************************)
(* The commands of license-tool that write files, at work in one           *)
(* directory: keygen (KeyFiles), issue and revoke-list (OutputFile).  Each *)
(* is a process of its own; they share the directory, and with it every    *)
(* sync of the directory.                                                  *)
(***************************************************************************)
EXTENDS KeyFiles, OutputFile

CONSTANTS
    Calls,        \* the calls made together, with their -force arguments:
                  \* functions from calls to BOOLEAN
    Starts,       \* the files there before: [Targets -> {Old, Absent}]
    Old           \* the generation of the files there before

kvars == <<pc, local, stuck>>

vars == <<dirVars, given, kvars, outVars>>

Targets == {Target(k) : k \in Key} \cup {Out}

ASSUME IssuerFilesConstants ==
    /\ Old \notin Writer \cup Output
    /\ Absent \notin Writer \cup Output \cup {Old}
    /\ Writer \cap Output = {}
    /\ \A c \in Writer \cup Output : Partial(c) # Absent
    /\ \A c \in Calls : c \in [DOMAIN c -> BOOLEAN]
    /\ Starts \subseteq [Targets -> {Old, Absent}]

Init ==
    /\ start \in Starts
    /\ force \in Calls
    /\ DirectoryInit(Names \cup {Out})
    /\ KeyInit
    /\ OutputInit

Keygen == \E w \in Writers :
    /\ WriteKeyFiles(w) \/ Kill(w)
    /\ UNCHANGED <<given, outVars>>

WriteOut == \E o \in Outputs :
    /\ writeFileNoClobber(o) \/ KillOut(o)
    /\ UNCHANGED <<given, kvars>>

LosePower ==
    /\ PowerLoss
    /\ KeysLost
    /\ OutputsLost
    /\ UNCHANGED given

Next == Keygen \/ WriteOut \/ LosePower

Spec == Init /\ [][Next]_vars

-----------------------------------------------------------------------------
(***************************************************************************)
(* Where there was a private key there is one at every moment and after    *)
(* every power loss, in place or as a backup, whichever operation fails    *)
(* and wherever the process is killed: "when only one file can survive we  *)
(* keep the valid private key" (keygen.go:83-84).                          *)
(***************************************************************************)
Kept(d, k) ==
    \E n \in Names : n[1] = k /\ d[n] # Absent /\ (Len(n) = 1 \/ n[2] = "bak")

PrivateKeyNeverLost ==
    start[Target("private")] # Absent => \A d \in onDisk : Kept(d, "private")

(***************************************************************************)
(* "a private-key-first bias" (keygen.go:75): the new public key is never  *)
(* in place without its private key, nor is it so after a power loss.      *)
(***************************************************************************)
PrivateKeyFirst ==
    \A w \in Writers, d \in onDisk :
        d[Target("public")] = w => d[Target("private")] = w

(***************************************************************************)
(* A call that returns leaves every key that was there before in place, as *)
(* it was or as the new one, unless recovery itself failed.                *)
(***************************************************************************)
RecoveryRestores ==
    \A w \in Writers : pc[w] \in {<<"ok">>, <<"error">>} /\ ~stuck =>
        \A k \in Key : start[Target(k)] # Absent => dir[Target(k)] # Absent

(***************************************************************************)
(* When WriteKeyFiles has reported success, the pair in place is the new   *)
(* one whatever a power loss leaves, and nothing else is left but what     *)
(* could not be removed.                                                   *)
(***************************************************************************)
SuccessIsTheNewPair ==
    \A w \in Writers : pc[w] = <<"ok">> =>
        /\ \A k \in Key, d \in onDisk : d[Target(k)] = w
        /\ ~stuck => \A n \in Names : dir[n] # Absent => Len(n) = 1

(***************************************************************************)
(* "if either already exists no file is created or modified at all"        *)
(* (keygen.go:77-78), and no power loss shows otherwise.                   *)
(***************************************************************************)
RefusalTouchesNothing ==
    \A w \in Writers :
        ~force[w] /\ (\E k \in Key : start[Target(k)] # Absent) =>
            \A k \in Key, d \in onDisk :
                /\ d[Target(k)] = start[Target(k)]
                /\ d[Staged(k, w)] = Absent /\ d[Backup(k, w)] = Absent

(***************************************************************************)
(* Commands without -force among themselves: a license that was there is   *)
(* there afterwards ("an existing file is never clobbered", util.go:95),   *)
(* and of several that write the same new file one at most reports         *)
(* success.                                                                *)
(***************************************************************************)
NoForceNeverClobbers ==
    (\A o \in Outputs : ~force[o]) =>
        /\ start[Out] # Absent => \A d \in onDisk : d[Out] = start[Out]
        /\ \A o1, o2 \in Outputs : at[o1] = "ok" /\ at[o2] = "ok" => o1 = o2

(***************************************************************************)
(* Once a command has reported its license or list as written, the path    *)
(* holds a whole file in every directory a power loss may leave: its own,  *)
(* or that of another command.  "Both paths fsync file contents so a crash *)
(* cannot leave a half-written key/license on disk" (util.go:99-100) is    *)
(* true of these only: a command without -force that is interrupted leaves *)
(* its part under the final name.  The exception is another command        *)
(* without -force that has failed: it removes the path, whatever is there  *)
(* by then.                                                                *)
(***************************************************************************)
ReportedOutputSurvives ==
    \A o \in Outputs : at[o] = "ok" =>
        \/ \E x \in Outputs : ~force[x] /\ at[x] = "error"
        \/ \A d \in onDisk : d[Out] \in Output

(***************************************************************************)
(* With -force the destination is replaced in one step, "never truncating  *)
(* the destination first": whoever is killed or fails, and whatever power  *)
(* is lost, the old file or a whole new one is there.                      *)
(***************************************************************************)
ReplacedWhole ==
    (\A o \in Outputs : force[o]) =>
        \A d \in onDisk : d[Out] \in {start[Out]} \cup Outputs

(***************************************************************************)
(* "Recovery never leaves a mismatched pair on disk" (keygen.go:207).      *)
(***************************************************************************)
Mismatched ==
    /\ \A k \in Key : dir[Target(k)] # Absent
    /\ dir[Target("private")] # dir[Target("public")]

RecoveryNeverMismatches ==
    \A w \in Writers : pc[w] \in {<<"ok">>, <<"error">>} /\ ~stuck => ~Mismatched

(***************************************************************************)
(* "No-force contract: never modify anything if either target exists"      *)
(* (keygen.go:96): a pair that one call has put in place and reported is   *)
(* not destroyed by another call without force.                            *)
(***************************************************************************)
NoForceKeepsExisting ==
    (\A w \in Writers : ~force[w]) =>
        \A w \in Writers : pc[w] = <<"ok">> => dir[Target("private")] = w
=============================================================================
