------------------------------ MODULE Workspaces ------------------------------
(***************************************************************************)
(* The worktree of a coding execution and its manifest (workspaces.py).    *)
(*                                                                         *)
(* A row is reserved, git makes the worktree, the row becomes active under *)
(* a lease, artifacts are hashed and listed, and the row is sealed with an *)
(* outcome; a lease that ran out is recovered as stale when the engine     *)
(* starts.  The content of the worktree is a number, 0 at its commit,      *)
(* and every edit makes a new one.                                         *)
(*                                                                         *)
(* The token of a lease is not kept: it is made with the row and lost when *)
(* the row becomes stale, and nothing in the program acquires it again, so *)
(* whoever holds it may act exactly while the row is active.               *)
(***************************************************************************)
EXTENDS Integers, FiniteSets, Sequences

VARIABLES
    manifest,       \* state of the row, "none" before there is one
    expired,        \* its lease has run out
    artifacts,      \* the content that is listed, None before it is
    tree,           \* the content of the worktree
    removed         \* the worktree is no longer on the disk

workspace == <<manifest, expired, artifacts, tree, removed>>

FINAL_STATES == {"completed", "failed", "cancelled"}
WorkspaceState == {"none", "creating", "active", "stale"} \cup FINAL_STATES
Unlisted == -1

WorkspaceInit ==
    manifest = "none" /\ expired = FALSE /\ artifacts = Unlisted /\ tree = 0 /\ removed = FALSE

(* validate_lease: an active row, a lease that runs, the path in its place. *)
Leased == manifest = "active" /\ ~expired /\ ~removed

(* resume_execution gives back the worktree of a row that is sealed, too.   *)
resume_execution == ~removed /\ (Leased \/ manifest \in FINAL_STATES)

(* create_workspace, before and after `git worktree add`.  A row that is    *)
(* already there and not active is a conflict for ever.                     *)
Reserve == manifest = "none" /\ manifest' = "creating" /\ UNCHANGED <<expired, artifacts, tree, removed>>
Created == manifest = "creating" /\ manifest' = "active" /\ UNCHANGED <<expired, artifacts, tree, removed>>
CreateFails == manifest = "creating" /\ manifest' = "failed" /\ UNCHANGED <<expired, artifacts, tree, removed>>

(* enumerate_artifacts replaces the list, if the lease is still held.       *)
enumerate_artifacts == Leased /\ artifacts' = tree /\ UNCHANGED <<manifest, expired, tree, removed>>

(* finalize: list, then seal.                                               *)
Seal(outcome) == Leased /\ manifest' = outcome /\ UNCHANGED <<expired, artifacts, tree, removed>>
finalize(outcome) ==
    Leased /\ artifacts' = tree /\ manifest' = outcome /\ UNCHANGED <<expired, tree, removed>>

Expires ==
    /\ manifest \in {"creating", "active"} /\ ~expired
    /\ expired' = TRUE
    /\ UNCHANGED <<manifest, artifacts, tree, removed>>

recover_stale_leases ==
    manifest' = IF expired /\ manifest \in {"creating", "active"} THEN "stale" ELSE manifest

WorkspaceTypeOK ==
    /\ manifest \in WorkspaceState
    /\ expired \in BOOLEAN /\ removed \in BOOLEAN
    /\ artifacts \in Int /\ tree \in Nat
=============================================================================
