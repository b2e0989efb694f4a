------------------------------ MODULE RepoConfig ------------------------------
(***************************************************************************)
(* What a repository's entry in the configuration comes to                 *)
(* (pkg/config/config.go): applyDefaults fills in what the entry leaves    *)
(* out, validateRepo completes it or refuses it, and SyncRepo              *)
(* (pkg/gsync/syncer.go) adds the flags of the command line.               *)
(*                                                                         *)
(* An entry is a record of the YAML's fields.  Unset stands for the zero   *)
(* values "", 0 and nil and for an empty list.  A list of patterns is the  *)
(* set of the names it matches, so that "*" is the set of all names.       *)
(* local_path has no rule but that it be set, and is left out with the     *)
(* known hosts.                                                            *)
(***************************************************************************)
EXTENDS Integers

CONSTANT Unset

ASSUME UnsetAssumption == Unset \notin BOOLEAN \cup Int

Fields == {"url", "ssh_key_path", "poll_interval", "branches", "tags", "checkout", "openvox",
           "openvox_max_workers", "production_alias", "prune", "prune_stale", "stale_age"}

\* An entry's own fields; the global defaults have no such fields.
OwnFields == {"url", "checkout"}

Flags == {"openvox", "production_alias", "prune", "prune_stale"}

\* Flags that are no pointers: false is taken for left out.
ForgetFalse(entry, defaults) ==
    [f \in Fields |->
        IF (entry[f] = Unset \/ (f \in Flags /\ entry[f] = FALSE)) /\ f \notin OwnFields
          THEN defaults[f] ELSE entry[f]]

ApplyDefaults(entry, defaults) ==
    [f \in Fields |-> IF entry[f] = Unset /\ f \notin OwnFields THEN defaults[f] ELSE entry[f]]

\* The defaults without the one of the stale age.
FlagsOnly(r) ==
    [f \in Fields |->
        CASE f = "poll_interval" /\ r[f] = Unset -> 120
          [] f \in Flags /\ r[f] = Unset -> FALSE
          [] OTHER -> r[f]]

\* The defaults that validateRepo itself fills in: 2m, false, and 180d (in
\* days) if stale branches are to be pruned.
Canonical(r) ==
    [f \in Fields |->
        CASE f = "poll_interval" /\ r[f] = Unset -> 120
          [] f \in Flags /\ r[f] = Unset -> FALSE
          [] f = "stale_age" /\ r[f] = Unset /\ r["prune_stale"] = TRUE -> 180
          [] OTHER -> r[f]]

Matched(r, f) == IF r[f] = Unset THEN {} ELSE r[f]

\* The transport is usable: CheckHTTPSAccessible, or an SSH key that exists.
ValidAuth(r) ==
    \/ r.url = "https"
    \/ r.url = "ssh" /\ r.ssh_key_path = "key"

\* validateOpenVoxOptions.
ValidOpenVox(r) ==
    /\ r.production_alias => r.openvox
    /\ r.openvox_max_workers # Unset => r.openvox /\ r.openvox_max_workers \in 1 .. 64

\* The checkout is a name that a branch or a tag pattern matches.
ValidCheckout(r) ==
    r.checkout # Unset /\ ~ r.openvox => r.checkout \in Matched(r, "branches") \cup Matched(r, "tags")

\* validateRepo, of an entry it has completed.
Valid(r) ==
    /\ r.url # Unset
    /\ ValidAuth(r)
    /\ r.poll_interval >= 10
    /\ r.branches # Unset \/ r.tags # Unset
    /\ ValidOpenVox(r)
    /\ ValidCheckout(r)

\* Load and Validate of an entry in a file with these defaults.
Loaded(file) == Canonical(ApplyDefaults(file.entry, file.defaults))

\* The options of one sync: prune and stale may come from either side, the
\* command line's age wins, and no stale pruning without pruning.
Effective(r, flags) ==
    LET prune == r.prune \/ "prune" \in flags
        stale == r.prune_stale \/ "prune_stale" \in flags
        aged == r.stale_age # Unset \/ "stale_age" \in flags
    IN  (IF prune THEN {"prune"} ELSE {}) \cup (IF prune /\ stale THEN {"stale"} ELSE {})
        \cup (IF aged THEN {"aged"} ELSE {}) \cup (flags \cap {"dry"})
=============================================================================
