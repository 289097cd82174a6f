---------------------------- MODULE Fingerprint -----------------------------
(***************************************************************************)
(* pkg/fingerprint: from what the hardware shows to a device id, and the   *)
(* strict parsing of device ids.                                           *)
(*                                                                         *)
(* A machine is a record [platform, reads], where reads gives for each     *)
(* source of the platform what it shows: Nil when it cannot be read or is  *)
(* blank, otherwise a record [id, spelling], where spelling stands for the *)
(* white space and letter case around the identifier.  SHA-256 and HMAC    *)
(* are injective: a digest is the key, or Nil, and the form it digests.    *)
(***************************************************************************)
EXTENDS Gates, SequencesExt

CONSTANTS Placeholders      \* the identifiers that vendors leave as junk

(***************************************************************************)
(* What the collector of each platform reads, in this order; of several    *)
(* sources of one category the first that shows something counts.          *)
(***************************************************************************)
Sources ==
    [linux |-> <<[category |-> "machine_id",
                  from |-> <<"/etc/machine-id", "/var/lib/dbus/machine-id">>],
                 [category |-> "board_uuid", from |-> <<"board_serial">>],
                 [category |-> "product_uuid", from |-> <<"product_uuid">>]>>,
     darwin |-> <<[category |-> "platform_uuid", from |-> <<"IOPlatformUUID">>]>>,
     windows |-> <<[category |-> "machine_guid", from |-> <<"MachineGuid">>]>>,
     other |-> <<>>]

primaryCategoryPriority ==
    [linux |-> <<"machine_id", "product_uuid", "board_uuid">>,
     darwin |-> <<"platform_uuid">>,
     windows |-> <<"machine_guid">>,
     other |-> <<>>]

Showing(machine, source) ==
    {k \in DOMAIN source.from : machine.reads[source.from[k]] # Nil}

Shown(machine, source) ==
    machine.reads[source.from[Min(Showing(machine, source))]]

(***************************************************************************)
(* The components, each at the place of its source in the order of         *)
(* collection.  A placeholder is collected like any other value.           *)
(***************************************************************************)
collectComponents(machine) ==
    LET sources == Sources[machine.platform]
        found == {i \in DOMAIN sources : Showing(machine, sources[i]) # {}}
    IN  [i \in found |-> [category |-> sources[i].category,
                          value |-> Shown(machine, sources[i])]]

normalize(raw) == raw.id

\* Mutation of isPlaceholderValue: junk is not recognised.
NothingIsJunk(v) == FALSE

isPlaceholderValue(v) == v \in Placeholders

-----------------------------------------------------------------------------
(***************************************************************************)
(* The place of a category in the priority; unlisted ones come last.       *)
(***************************************************************************)
Rank(priority, category) ==
    IF Contains(priority, category)
    THEN CHOOSE i \in DOMAIN priority : priority[i] = category
    ELSE Len(priority) + 1

Genuine(components) ==
    {i \in DOMAIN components : ~isPlaceholderValue(normalize(components[i].value))}

\* Mutation of primaryComponent: the first component that is genuine, in
\* the order of collection.
FirstCollected(components, priority) == components[Min(Genuine(components))]

(***************************************************************************)
(* The genuine component of the least rank, the first one of that rank;    *)
(* there is one unless Genuine(components) is empty.                       *)
(***************************************************************************)
primaryComponent(components, priority) ==
    LET rank(i) == Rank(priority, components[i].category)
    IN  components[CHOOSE i \in Genuine(components) :
                       \A j \in Genuine(components) \ {i} :
                           rank(i) < rank(j) \/ (rank(i) = rank(j) /\ i < j)]

(***************************************************************************)
(* Sorted in the code: the order of the components does not matter.        *)
(***************************************************************************)
canonicalForm(namespace, components) ==
    <<namespace, {[category |-> components[i].category,
                   value |-> normalize(components[i].value)] :
                     i \in DOMAIN components}>>

Fingerprint(version, namespace, key, components) ==
    [family |-> "fp", version |-> version,
     algorithm |-> IF key = Nil THEN "sha256" ELSE "hmac-sha256",
     digest |-> <<key, canonicalForm(namespace, components)>>, hex |-> TRUE]

(***************************************************************************)
(* Version 1: everything that was collected.                               *)
(***************************************************************************)
ComputeHMAC(namespace, key, machine) ==
    LET components == collectComponents(machine)
    IN  IF namespace = Nil \/ DOMAIN components = {} THEN Nil
        ELSE Fingerprint(1, namespace, key, components)

(***************************************************************************)
(* Version 2: the primary component alone.                                 *)
(***************************************************************************)
ComputeHMACV2(namespace, key, machine) ==
    LET components == collectComponents(machine)
        priority == primaryCategoryPriority[machine.platform]
    IN  IF namespace = Nil \/ Genuine(components) = {} THEN Nil
        ELSE Fingerprint(2, namespace, key,
                         <<primaryComponent(components, priority)>>)

(***************************************************************************)
(* Nil stands for every error: there is no fingerprint to present.         *)
(***************************************************************************)
ComputeHMACVersion(namespace, version, key, machine) ==
    CASE version = 1 -> ComputeHMAC(namespace, key, machine)
      [] version = 2 -> ComputeHMACV2(namespace, key, machine)
      [] OTHER -> Nil

-----------------------------------------------------------------------------
(***************************************************************************)
(* A device id is a record                                                 *)
(*   family   "fp", "opaque" or "other", by its prefix;                    *)
(*   fp       version (Nil unless a number from 1), algorithm (Nil without *)
(*            a further colon), digest (Nil when empty), hex (64 lower     *)
(*            case hexadecimal digits);                                    *)
(*   opaque   namespace and value, Nil when empty.                         *)
(***************************************************************************)
Opaque(namespace, value) ==
    [family |-> "opaque", namespace |-> namespace, value |-> value]

ParseOpaque(id) == Gate(id.namespace # Nil /\ id.value # Nil, "malformed_scheme")

ParseFingerprint(id) ==
    FirstFailure(<<
        Gate(id.version # Nil, "malformed_scheme"),
        Gate(id.version \in {1, 2}, "unknown_version"),
        Gate(id.algorithm # Nil, "malformed_scheme"),
        Gate(id.algorithm \in {"sha256", "hmac-sha256"}, "unknown_algorithm"),
        Gate(id.digest # Nil, "empty_digest"),
        Gate(id.hex, "invalid_digest")>>)

Parse(id) ==
    CASE id.family = "opaque" -> ParseOpaque(id)
      [] id.family = "fp" -> ParseFingerprint(id)
      [] OTHER -> "malformed_scheme"
=============================================================================
