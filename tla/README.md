# Grantseal in TLA+

Grantseal issues and validates offline software licenses. A vendor signs a license with
`license-tool`; a client program embeds the public keys and asks `pkg/license` whether the
license is authentic, meant for it, not revoked, and usable now. There is no server: what
protects the client is a little state on its disk (how far time has come, which revocation
lists have been seen) and the order in which things are checked. What protects the vendor is
that the issuer's checks agree with the client's and that its keys survive. The models here are
about that state, that order and that agreement. Cryptography, JSON and hardware enter only
through their outcomes.

## 1. Inventory

| Component | State | Operations | Talks to | What is hard | What makes it correct |
|---|---|---|---|---|---|
| Anti-rollback store (`pkg/license/rollback.go`) | one authenticated file with the last trusted time; a process-wide registry of mutexes keyed by cleaned path | `CheckAndSave`, `Save`, `Load` | the disk; called by the Manager | goroutines with separate stores on one file; every file operation may fail; power loss between rename and directory sync; errors after the write took effect | the mark never moves back, an accepted instant survives a power loss, time behind it is refused, the mutex is always released |
| Revocation lists (`revocation.go`) | none | `LoadRevocationList…`, the checks, `classifyRevocationTransition` | key ring, a state store | lists replayed, re-used sequence numbers, v1 and v2 signatures, policies that relax checks | only well-founded lists reach the anti-replay state; none is accepted behind an accepted one |
| Revocation state stores (`revocation_state.go`) | a file (or map) with a record per list id; the reservations of exclusive writers | `CheckAndSaveRevocationState`, `Save…`, `Load…`, the constructors, `Close` | the disk; same registry and file writing as above | read-modify-write of a whole map; retry after a failed sync; `Close` repeated or concurrent | no lost update, no replay, at most one exclusive writer per file |
| Key ring (`keyring.go`) | keys with kill switches and validity windows | `Add`, `Lookup…`, `CheckKeyPolicy` | verifier, revocation lists | keys replaced while verifications run | a revoked key is dead for every later call |
| Verifier (`verifier.go`, `envelope.go`) | none | `ParseEnvelope`, `Verify` | key ring | order of checks before and after the signature | nothing unsigned is interpreted |
| Policy (`validator.go`, `model.go`) | none | `validate`, `validateStatic` | versions | boundaries of time, skew, grace, maintenance | usable exactly in the intended window, one change at a time |
| Versions (`version.go`) | none | parsing, precedence | policy | identifiers of mixed kinds, numbers out of range | SemVer order, transitive |
| Manager (`manager.go`, `clock.go`) | the cached result | `Validate`, `LoadAndValidate`, `Inspect`, `CachedResult`, `InvalidateCache` | all of the above, the license file, a clock that may fail or move | calls interleave at every lock and file access | rejected licenses leave no trace, the cache serves nothing stale |
| Results (`result.go`, `features.go`) | none | `GetRemainingDays`, feature and limit queries | policy | a refusal carries less than a decision | the accessors say what their comments promise |
| Issuing (`internal/issuer/issue.go`, `signer.go`, `revoke.go`) | none | `BuildPayload`, `Issue`, `SignPayload`, `BuildRevocationListV2` | policy's static checks | two implementations of one set of rules; values filled in after they were checked | what is issued is accepted where the issuer says so |
| Fingerprints (`pkg/fingerprint`) | none | collect, select, normalise, hash, `Parse` | operating system, policy's device gate | identifiers missing, left as junk, appearing and disappearing | a license follows its machine and no other |
| Key files (`internal/issuer/keygen.go`) | two files in a directory | `WriteKeyFiles` | the file system | any of some twenty calls fails, the process is killed, power is lost, two calls race | no private key is lost, pairs match |
| Output files (`cmd/license-tool/util.go`) | one file | `writeFileNoClobber` | the file system | exclusive creation interrupted half way, replacement under power loss, two commands on one path | what was reported is there and whole |
| Command line (`cmd/license-tool`) | none of its own | `keygen`, `issue`, `revoke-list`, `verify`, … | issuer, license, the files above | defaults and combinations of arguments | as above |
| Strict and canonical JSON, error codes | none | | | | not modelled: encodings and tables |

`PROJECT.json` lists the components with their status, and under `hazards` each place in the
code that is hard to test, with the properties aimed at it.

## 2. Modules

The modules of the client, with the proofs about them in brackets:

    AtomicFile ──┐
    CheckRollback┴─ RollbackStore [RollbackStoreProofs] ── implements ── TrustedTime
        │
        │     Gates [GatesProofs]
        │       ├─ KeyRing ─ Verifier ─┐
        │       └─ SemVer ─ Validator ─┴─ [DecisionProofs]
        └──────────────────────┴─ Manager [ManagerProofs]

    KeyRing ─ RevocationList ─┐
    AtomicFile ──────── FileRevocationStore [FileRevocationStoreProofs]
                              │ implements RevocationStateStore
    ExclusiveWriter [ExclusiveWriterProofs]

The vendor's side, and what composes the two:

    Fingerprint ─ Validator ─┐
    Verifier ──────── Issuer ─ LicenseLifetime [LicenseLifetimeProofs]
    Results, SemVerOrder ──────────┘
    RevocationList ─ RevocationIssuer ─┐
    FileRevocationStore ────────── RevocationDelivery [FileRevocationStoreProofs]
    Directory ─ KeyFiles, OutputFile ─ IssuerFiles [IssuerFilesProofs]

* **AtomicFile** is `atomicWriteFile` and `fsyncStateDir`. `file` is what a reader sees now,
  `onDisk` the set of contents the path may have after a power loss: a rename adds one, a
  directory sync leaves one. A sync may fail without effect, or take effect and then fail to
  close. Temporary files are never read and show as success or failure of staging.
* **CheckRollback** holds the pure part of `rollback.go`: when an instant is refused and what is
  written next. The store and the Manager share it.
* **RollbackStore** composes the two with goroutines. A call is `Call` – `Lock` – one of the
  `Load…`/`Check…` actions – `Stage` – `Rename` – `SyncDir`; each of them can return an error,
  which also releases the mutex (`defer`). `Crash` ends all calls and leaves one member of
  `onDisk`. `Damaged` is another program replacing the file, which by the documented contract
  ("deploy exactly one writer process") does not happen inside a transaction.
* **TrustedTime** is what the store promises: a mark that only moves forward and a floor, the
  latest instant a caller was told is accepted. `RollbackStore` implements it with
  `mark <- file`.
* **Gates** gives checks in a fixed order, the first failure deciding the code.
* **KeyRing**, **Verifier**, **RevocationList** and **Validator** are the pure parts of the files
  of those names, over records that keep what the checks tell apart. They contain every check, in
  the order of the code.
* **SemVer** is `version.go`; a version string is a record of its numerals, identifiers and the
  validity of its pieces. **SemVerOrder** gives the reference: every version is a point on a line.
* **FileRevocationStore** drives `LoadRevocationListWithPolicy` and the file store's own methods
  from several goroutines over one file. **RevocationStateStore** is the contract of the
  interface, which it implements.
* **RevocationIssuer** is `revoke.go` with the `revoke-list` command: from the ids and options of
  a command line to a signed list of either schema, or an error. **RevocationDelivery** hands what
  it mints to the clients of FileRevocationStore. The digest of a list is its contents, so two
  lists of one sequence number differ in digest exactly if they differ.
* **ExclusiveWriter** is the reservation of paths by `NewFileRevocationStateStoreExclusive` and
  `Close`, whose two critical sections (`closeMu`, the registry) are separate steps.
* **Manager** has one action for each access to something shared: stat, read, clear the cache,
  read the clock, decide (the ring), the anti-rollback transaction, store, snapshot, the
  snapshot's own look at the clock. The transaction is one step here because it excludes others
  (RollbackStore shows what happens inside); it may fail with or without having written. Around
  it, the clock moves either way, keys are revoked, the license file is replaced or vanishes, the
  anti-rollback file is damaged. `storedIn`, `revokedAt`, `wentBack` are history variables. The
  variable `scope` is chosen once, from `Scopes`: how many goroutines, which documents, how long.
* **Issuer** is `issue.go` and `signer.go` with the request that `license-tool issue` makes.
  **Fingerprint** is both schemes of `pkg/fingerprint`, from the sources each platform reads to a
  device id, and `Parse`. A machine is what its sources show; hashes are injective.
  **Results** is the part of `result.go` that interprets a decision.
* **LicenseLifetime** composes these with the client: a license is asked for, issued (or signed
  by another issuer), and presented while time ticks, builds are replaced and the machine's parts
  are replaced, added, lost or spelled differently.
* **Directory** is a directory under power loss: changes are visible at once and reach the disk in
  their order (a journaling file system), so that a power loss leaves one of the directories since
  the last sync. **KeyFiles** is `WriteKeyFiles`: check, stage, verify, back up, commit, sync,
  recover, each file operation a step that may fail, recovery a list of best-effort operations
  each of which may fail too. **OutputFile** is `writeFileNoClobber` with both its ways. A file that is written and
  not synced, staged ones included, is `Partial`, also after it has been renamed.
  **IssuerFiles** runs calls of both, each a process, in one directory; any may be killed
  anywhere, and power may be lost. After a power loss the calls under way are gone, and calls not
  begun may be made.

Definitions are named after the Go functions they translate; `map` in `PROJECT.json` gives the
lines. Operators whose comment begins with "Mutation of" are the faulty variants that show each
property can fail; no specification uses them.

## 3. What the runs check

| Run | Question | Bounds, and why they suffice |
|---|---|---|
| `rollback` | `AcceptedIsDurable`, `MarkWasSeen` (the mark is one of the instants that calls presented: no invented time), `MarkNeverRegresses`, `NoAcceptBehindFloor`, `PromiseKept` (refinement of TrustedTime), `CallsReturn` (liveness) | two goroutines, two spellings of the path; instants 0..3 with skew 1, which has instants inside, at and beyond the skew on both sides; any number of calls, failures and power losses. 219,832 states |
| `revocation_file` | `RecordsAreWellFounded`, `AcceptedIsDurable`, `MarksNeverRegress`, `NoReplay`, `HeldOnlyInside`, `ContractKept`, and `MintedIsAdmitted`: what the tool mints, the client takes | two goroutines, two lists, sequences 1 and 2, one sequence with two contents, the lists minted from eleven orders (both schemas, one of too many ids, one in too large a file, three refused), and forged, legacy and ill-formed documents that would leave a digest of their own. 263,008 states. The view leaves out the last answer, which no step and no state invariant reads |
| `revocation_retry` | finds `NoReplayOfTold` violated | the same |
| `exclusive_writer` | `OneExclusiveWriter`, `ReservedWhileHeld` | three stores, two spellings of one file and another file, two closing goroutines: a store can be closed twice with a third built in between. 4,540 states |
| `license_lifetime` | `UsableInWindow`, `NeverRegained`, `GraceFollowsValid`, `CoveredForever`, `BoundsAreSemVer`, `ChangesKeepBounds`, `BoundToItsMachine`, `SecondaryHardwareHarmless` | requests of all license types with absent and present bounds, issued and merely signed, days of two ticks, skew below and above them, time until after the last boundary; version strings around every boundary of the syntax, uint64 reduced to 0..2; machines of three platforms whose sources show nothing, junk, or one of two identifiers in two spellings, under both schemes; callers with and without a product, before a Manager that asks for one and one that does not. 59,156 states. Time is bounded, so the run may stop |
| `version_saturated` | finds `BoundsAreAlwaysSemVer` violated | the same |
| `expired_days` | finds `ExpiredHasNoDaysLeft` violated | the same |
| `manager` | `RejectedNeverWrites`, `ServedIsUsable`, `CachedIsTrusted`, `FailureHidesOlderDecisions`, `NoFalseAlarm`, `RevokedKeyNeverAccepted` | two scopes: one goroutine with four documents, three contexts and instants 0..4, and two interchangeable goroutines (symmetry; no liveness is checked) with a genuine and a forged document and instants 0..2. The clock, the keys and the state file change in both, the license file in the first only. 465,354 states |
| `manager_cache_race` | finds `FailureEmptiesCache` violated | the second scope |
| `key_files` | `PrivateKeyNeverLost`, `PrivateKeyFirst`, `RecoveryRestores`, `SuccessIsTheNewPair`, `RefusalTouchesNothing` of keygen; `NoForceNeverClobbers`, `ReportedOutputSurvives`, `ReplacedWhole` of output files | keygen alone, two commands writing one output file, and keygen beside such a command, each with and without force, over every combination of files there before. 112,727 states; the calls end, so the run may stop |
| `key_files_mismatch` | finds `RecoveryNeverMismatches` violated | one keygen over a pair |
| `key_files_no_force` | finds `NoForceKeepsExisting` violated | two keygens without force over an empty directory |

The numbers are distinct states, in which every action occurs. Two goroutines suffice for the
stores because the steps of a third are either outside the mutex, where they touch nothing, or
inside it, where it is the only one; for both stores, the exclusive writer, the Manager and
the issuer's files the proofs below remove the bound. For the Manager no property relates more than two calls.

What the properties of the issuer's files do not say, because it does not hold: a command without
`-force` that is interrupted leaves a part of its output under the final name
(`ReportedOutputSurvives` is about reported files); one that fails removes the path, and if a
command with `-force` has renamed its file there meanwhile, that file (the exception named in the
property); two `keygen -force` for one key id at once can move each other's backups away and
leave no private key, so that keygen is checked alone or beside a command of the other kind.
Section 5 says which comments promise more than that.

What the properties of agreement between issuer and client do not say: the issuer looks at no
size. `MintedIsAdmitted` excepts lists of more than `MaxRevokedIDs` ids and lists whose file is
larger than `MaxRevocationFileSize` (4 MiB, which 100,000 ids of 36 bytes exceed while within the
first bound); `UsableInWindow` excepts licenses of more than 64 KiB. All three are in the runs,
minted or issued and then refused. `UsableInWindow` also excepts a caller that names no product to
a Manager that asks for one (manager.go:150-153), which refuses every license.

What the properties of fingerprints do not say: scheme v1 digests whatever was collected,
placeholders included, so under it two machines whose vendors left everything unset are the same;
and a license bound through a less preferred identifier is lost when a preferred one appears.

**Fairness.** Only `rollback` has a liveness property. `WF` on the steps of a thread inside the
store: the Go scheduler runs what can run, and no step waits. `SF` on `Lock`: `sync.Mutex`
hands itself to a waiter that has waited for a millisecond, so a mutex that is free again and
again is obtained by each waiter. Calls, crashes and damage have no fairness. For the
revocation store `HeldOnlyInside` states the reason directly: no exit of a call keeps the mutex.

## 4. What is proved

The proofs hold for every value of the constants that satisfies the named assumptions of the
modules, which TLC evaluates on each run. A few hypotheses are stated in the theorems that need
them. `SameMutex`: the stores of one file clean to one key of the registry; that is what
`normalizeStatePath` achieves for spellings of a path, and what it does not achieve for symbolic
links or relative paths taken before and after a `chdir`. `~Windows`: on Windows a directory sync
is best effort and durability is not promised. `OneKeygen`: of the calls that run together one at
most is a keygen, for two of them on one key id can lose the pair (section 3). Two theorems say
what is left of a promise that the code does not keep in general (section 5): `~SyncMayFail`, no
directory fails to open or sync, and `OneGoroutine`, no two calls of a Manager overlap.

**RollbackStoreProofs** (from `RollbackConstants`): `TypeCorrect`; `AcceptedDurable`;
`MarkSeen`, the mark is itself an instant that a call presented; `NoRegress`, the mark never moves back in a `CheckAndSave`, nor is a damaged file
replaced; `NoAcceptBehind`, an instant behind an accepted one by more than the skew is never
accepted; `Refinement`, each step is a step of TrustedTime or changes nothing of it.

None of these is inductive. `IInv` adds what a transaction relies on between its steps: a thread
inside the store holds the mutex (`HoldsMutex`), so by `SameMutex` it is alone (`OneInStore`), so
the file it has read is still there, and `CheckedInv` can say that the value about to be written
is at or beyond the file, the call's own instant and the floor. `DiskInv` ties the visible file to
the survivors of a power loss, and `OpInv` keeps the methods on their own steps. `InvNext` has one
step per action; the temporal theorems follow from it and `InvInit`.

What `CallsReturn` needs besides fairness is proved too, without `SameMutex`:
`MutexHeldOnlyInside`, a mutex is held only by a thread inside a store that uses it, since every
way out goes through `Return`; and `StepsAreFew`, a thread inside is four steps of its own at most
from leaving, none of which waits, and no step of another sends it back.

**GatesProofs**: what a row of checks that passes means (`AllPass`, for the up to six checks that
any decision of this code has) and what passes it (`PassAll`); what follows a check that fails is
not looked at (`RestIsUnread`).

**FileRevocationStoreProofs** (from `FileStoreConstants`, `LoadsAssumption`, `SavesAssumption`,
`OrdersAssumption`): `AdmittedIsWellFounded`, whatever a policy relaxes, what reaches the replay
check is a list of a live key with the domain-separated signature, an id, a sequence and a window
that is not empty; `NothingUselessIsMinted`, the converse for what the tool mints within the client's
caps on ids and on the size of the file;
`FileTypeCorrect`; `FileAcceptedDurable`; `MarksKept`, no transaction moves any record back;
`NeverReplayed`; `MutexHeldOnlyInside`; `RecordsFounded`; `FileStoreKeepsContract`, the refinement
of RevocationStateStore. The inductive invariant has the parts of the one above; its `WriteInv`
says that the map a transaction is about to write is the file with its own record replaced, which
is why no update of another list is lost, and that a checked record advances the one it replaces.
`MutexHeldOnlyInside` and `RecordsFounded` need no shared mutex and no durable sync; they rest on
`HeldInv` and `FoundedInv`, which says that each record on its way to the disk has a document or a
direct save as its reason. `ToldIsKeptBySyncs` (with `~SyncMayFail`): `SyncedInv` says that the
file on the disk is the visible one unless a call is about to sync it, so a repetition, answered
by a thread that is alone in the store, repeats what is durable.

**ExclusiveWriterProofs** (from `ExclusiveConstants`): `ExclusiveIsAlone` and
`ReservationLivesWithStore`. `RegistryInv` is the reservation property together with its key
point: two stores, open or on their way through `Close`, never reserve one path, which holds
because `closeMu` lets one `Close` only go on to the release.

**DecisionProofs** turns the policy and the verifier into facts to reason from: `UsableMeans` (a
license is usable exactly if the static checks pass, each gate passes and it has not ended),
and how decisions move with time (`StaysUsable`, `NotBegun`, `GraceHasBegun`).
`VerifiedIsAuthentic` says when exactly the verifier accepts, and `UnsignedIsNotRead` that its
answer to a document without a good signature does not depend on what the document carries.
`LenienceOnlyGrants` (from `ValidatorConstants`): what a context grants, one with more skew or
fewer revoked licenses grants. `VersionsOrder` (from `SemVerConstants`): the comparison of versions is transitive in both
directions, saturated numbers and identifiers of mixed kinds included. Numbers and identifiers
are so one by one; `LexicographicOrder` lifts that to sequences, by cases of which of the two
differences comes first, and the length decides between a sequence and its beginning. That there
is a first difference (`FirstDifferenceIs`) is the well-foundedness of the order of the naturals,
since the library's induction takes an operator. `VersionsReversed`: the comparison gives -1, 0 or 1, and the
opposite the other way round, so that with `VersionsOrder` it is a total preorder.

**ManagerProofs** (from `ManagerConstants`, `ScopesAssumption`, `ValidatorConstants`), for any
number of goroutines: `ManagerTypeCorrect`, `CacheIsTrusted`, `RevokedNeverAccepted`,
`OnlyAcceptedWrites`, `FailureHides`, `FalseAlarmsExplained`, `ServedStillUsable`, and
`MarkOnlyAdvances`, which no run checks: the anti-rollback mark moves forward or is damaged, and
stays damaged. `AloneFailureEmpties` needs `OneGoroutine`; `FilledByOthers` is what it rests on,
that only another call can have filled the cache since a call began. `TypeInv` adds
to the types what a call has read by each of its steps (`CallInv`); `DecidedInv` keeps what an
approved call relies on, though the ring changes under it: the document was authentic and usable
at the call's instant, with a key that was not revoked when the call began. `TrustInv` says the same of the
mark for what is cached or about to be, `HiddenInv` that a validation past its first step sees an
empty cache or one filled since, `ClockInv` that nothing read from the clock is ahead of it until
it goes back, `SoundInv` that what is cached or was read from the cache was usable when checked.
`ServedStillUsable` then needs `StaysUsable`: the cache's boundary is never later than the end of
use.

**LicenseLifetimeProofs** (from `CasesAssumption`, `HardwareAssumption`, `ValidatorConstants`,
`SemVerConstants`, `OrderAssumption`), for every license, context, skew and length of a day:

* `NotRegained`, `GraceInOrder`, `CoveredNeverEnds`: how a license changes with time and builds.
* `UsableBetweenItsBounds`: the issuer and the client agree, with the exceptions of section 3. `EnvelopeVerifies` says that the
  client's verifier takes what the signer makes; `SignedIsAnEnvelope`, that the key id is stamped
  and the static checks have been passed after the defaults were filled in; `UsableMeans` and
  `EndOfUse` then reduce the client's gates to the window.
* `DaysLeftAreThere`, which no run checks: what is true of `GetRemainingDays`. For a usable
  license the answer is -1 exactly if it never expires, 0 in grace, and else the whole days
  until it expires, in all of which it is fully valid.
* `UpgradesStayAboveTheMinimum`, from `VersionsOrder`.
* `PrecedenceIsPlace` and, from it, `BoundsAreThoseOfSemVer`: the code's comparison agrees with
  the reference of SemVerOrder, for any number of identifiers. The reference reads a version as
  the digits of a number, defined by a recursive function. Such a function is a `CHOOSE`, so
  `NumbersExist` first shows that there is one; this and `NumberOrder` (numbers compare as their
  digits do) are inductions, which `Induction` makes possible without an operator as parameter:
  a set of naturals that holds 0 and with each number the next is all of them. `PrereleasesCompare`
  and `VersionsCompare` say that the code looks for the first digit that differs. Of strings
  `OrderAssumption` asks that there is a last name (`Half`): the code bounds their length
  (`maxVersionLength`).
* `OnlyThePrimaryMatters` and `BoundOnlyToItsMachine`: the machine. `CollectedMeans`,
  `IdentifierMeans`, `GenuineMeans` and `PrimaryMeans` say what the code's selection makes of what
  the sources of a platform show (the table is `SourcesTable`: no category comes from two
  sources, none is ranked twice), `DeviceIdTells` that equal ids mean
  equal identifiers, by the injectivity of hashes, and `HardwareInv` that what is presented is
  the id of the machine as it is now. `HardwareAssumption` says that the licenses bound to a
  machine here are bound by nothing else, so that a decision about them is one about the machine.

**IssuerFilesProofs** (from `IssuerFilesConstants`), for any number of commands, whatever their
arguments and the files they find. Of output files, without hypothesis: `NothingIsClobbered`,
`ReportedIsWhole`, `NeverTruncatedFirst`. Of key files, with one keygen (`OneKeygen`) beside any
number of the others: `PrivateKeySurvives`, `PrivateKeyFirstAlways`, `RecoveryAlwaysRestores`,
`SuccessLeavesTheNewPair`, `RefusedTouchesNothing`, and
`MismatchIsNewBesideOld`: where the keys do not match, the private key is the new one and the
public key the old one. `UnforcedTouchNothing` does without `OneKeygen`: any number of keygens at
once, all without force, change and create no file where one of the keys was there. All quantify over `onDisk`, every directory a
power loss may leave, so the invariants do. `OutInv` gives for each step of an output command
what the path may hold in any of them. `KeyInv` is, for the call of keygen: `Sound`, what no
directory is ever without; `StepInv` and `StagedInv`, which of the new, the old and the backup
are where at each step, in the visible directory and in those not yet synced; `ReportedInv`,
`EndInv` and `RefusedInv` for calls that are over; and `RecoveryInv`, for a recovery under way.
A recovery is a list of operations each of which may fail, so what holds in the middle of it is a
statement about what is left to do: `PlanInv` says that a backup is still to be removed only where
the new key is in place and stays there, that a target to be removed has a backup to be put back
after it, that this backup is there, and that it is put back once. Without
the last part the invariant is not inductive: a plan that restores a backup twice finds it gone.

Only model-checked:

* `CallsReturn`: liveness is beyond the prover.
* The properties that are violated (section 5).

## 5. Disagreements between code and documentation

1. **Recovery can leave a mismatched pair** (`key_files_mismatch`). If renaming the new public
   key fails, `commitStagedKeyFiles` (keygen.go:247) restores the old public key and keeps the
   new private key, deleting the backup of the old one; its comment promises "never leaves a
   mismatched pair on disk". What does hold: the mismatch is always of this kind
   (`MismatchIsNewBesideOld`), the directory is never without a private key
   (`PrivateKeyNeverLost`), and a failure before restores both (`RecoveryRestores`).
2. **A retried revocation list is acknowledged before it is durable** (`revocation_retry`). After
   a failed directory sync the record is already in the file; the retry is "idempotent" and
   returns success without a sync (revocation_state.go:364). A power loss can then bring an older
   list back. The anti-rollback store does not have this problem, since it writes every time.
   `NoReplay` and `AcceptedIsDurable` hold for all other acknowledgements, and for all of them
   where directory syncs do not fail (`ToldIsKeptBySyncs`).
3. **A failing validation need not leave an empty cache** (`manager_cache_race`). Validate clears
   the cache first (manager.go:138); a call already in flight may fill it again before the failing
   call returns. `FailureHidesOlderDecisions` is what does hold: decisions from before the call are
   gone. With one goroutine the comment is true (`AloneFailureEmpties`).
4. **No-force is not atomic** (`key_files_no_force`). The check for existing targets
   (keygen.go:97) and the renames are far apart; two calls for one key id can both succeed, and
   the second replaces the pair of the first. Where a key was there before, any number of calls
   keep the contract (`UnforcedTouchNothing`): it takes two that find neither.
5. **Prerelease numbers saturate** (`version_saturated`). Beyond 2^64-1 numeric identifiers compare
   equal (version.go:250), against the comment that they are compared numerically. Up to there
   the comparison is that of SemVer (`BoundsAreThoseOfSemVer`).
6. **An expired license has -1 days left** (`expired_days`). A refusal carries neither type nor
   expiry (`invalidResult`, result.go), so `GetRemainingDays` takes it for a perpetual license;
   its comment says that an expired license returns 0. For a license that may be used the answer
   is right (`DaysLeftAreThere`).

Three more disagreements have no run of their own:

7. **The order of verification.** docs/enUS/architecture.md:110-120 (in short also
   docs/enUS/README.md:64) loads, checks and saves the anti-rollback mark as step 7, after the
   signature and before types, revocation, time, device and product (steps 8 to 12), so that an
   authentic license that policy then refuses would move the mark. The code does the opposite, and
   its comments say so (manager.go:125-131, 182-185): policy first, and a license that is refused
   never writes. `RejectedNeverWrites` is the promise of those comments; it holds of the code, and
   the documented order, which is the mutation `TrustFirst` of the Manager, violates it. What both
   orders share, that nothing unauthentic reaches the state, is part of the property.
8. **Unreported output files.** util.go:99-100 says that a crash cannot leave a half-written file,
   and a crash during an exclusive creation does; the file was not reported then.
9. **Attribution in recovery.** keygen.go:86-87 says that a target file is never deleted that
   cannot be attributed to the call. A recovery that removes the private key's path
   (keygen.go:236), and the one that restores a backup over a target, look only at the name, so
   of two calls for one key id one can delete what the other has committed. `NoForceKeepsExisting`
   shows the same for the commit.

Noticed, though no document promises otherwise: the issuer does not look at the size of what it
signs, and 256 metadata entries of 2 KiB make a license that exceeds the client's 64 KiB; nor at
the number of ids in a list or the size of its file, for which the client has `MaxRevokedIDs` and
`MaxRevocationFileSize`. The properties of agreement (`UsableInWindow`, `MintedIsAdmitted`) name
these as exceptions.

## 6. Not modelled, and why

* Signatures, MACs, key derivation, base64, JSON: a document or file is authentic, well formed,
  canonical, or not. Key generation is cryptography; hashes are injective.
* Other processes writing the state files: documented as unsupported.
* File systems that reorder the changes of a directory: after a power loss no program that works
  by rename could be sure of anything.
* The in-memory revocation store: one critical section around the classification that the
  contract module already uses.
* Feature and limit queries of `result.go` and `features.go`: look-ups in the payload.
* Request codes (`GetDeviceRequestCode` and the codes of `pkg/fingerprint`): formatting. In
  `Parse` of a device id the version is the number that `Atoi` reads.
* The table of error codes, the parsing of command line arguments, the key ring file of the tool,
  and `verify` and `inspect`, which print what the modelled packages decide.

## 7. Plan

Done: the client's stores, policy and Manager; the vendor's issuing, fingerprints and files; the
proofs of section 4. Left, in this order:

1. **The key ring file** of `cmd/license-tool/keyring_input.go`: parsing and its agreement with
   `KeyRing`'s `Add`.
2. **Two `keygen -force` at once**: what is left of keygen.go:86-87 between them.
