---------------------------- MODULE ReleasePolicy ----------------------------
(***************************************************************************)
(* Policy bundles: src/src/guardrails_cli/policy.py and the policy command *)
(* of main.py.  A bundle lists exact releases; a release may declare       *)
(* related releases, which need an approval of their own.  The approval    *)
(* follows the relationships, round cycles, down one path at a time.       *)
(*                                                                         *)
(* A release is an (extension, version) pair; bytes stands for the digest  *)
(* of its artifact, and two releases may have the same bytes.              *)
(***************************************************************************)
EXTENDS Naturals, FiniteSets

CONSTANTS
    Releases,
    Bytes,          \* [Releases -> digests]
    Unknown         \* bytes of no release

ASSUME ReleasesOK == IsFiniteSet(Releases)

VARIABLE bundle     \* the payload of load_policy_bundle and what is checked

\* A declared relationship: the release it was resolved to; scanned when its
\* status says so and the digest is the one that release has in the bundle.
Relation == [to : Releases, scanned : BOOLEAN]
NoContract == [declared |-> {}, review |-> FALSE, present |-> FALSE]

\* What a release declares; nothing when its contract is absent.
RelationshipContract ==
    {c \in [declared : SUBSET Relation, review : BOOLEAN, present : BOOLEAN] : ~c.present => c = NoContract}

\* Every part of the payload that is checked as a whole.
Parts == {"schema", "deny", "hash", "enforcement", "allowlist", "settings"}

Bundle == [entries : UNION {[L -> RelationshipContract] : L \in SUBSET Releases}, sound : SUBSET Parts]

Listed == DOMAIN bundle.entries
Contract(r) == bundle.entries[r]

-----------------------------------------------------------------------------
(* Approval of related releases.                                            *)

\* Variant: a related release's own call for a review is not looked at.
ApprovedLax(rel, path) ==
    LET approved[v \in SUBSET Releases] ==
          {x \in Relation : /\ x.scanned
                            /\ x.to \in Listed
                            /\ x.to \in v \/ Contract(x.to).declared \subseteq approved[v \cup {x.to}]}
    IN  rel \in approved[path]

\* _related_release_approved: path is what was visited on the way here; each
\* path has the relationships that are approved at its end.
Approved(rel, path) ==
    LET approved[v \in SUBSET Releases] ==
          {x \in Relation : /\ x.scanned
                            /\ x.to \in Listed
                            /\ \/ x.to \in v
                               \/ ~Contract(x.to).present
                               \/ /\ ~Contract(x.to).review
                                  /\ Contract(x.to).declared \subseteq approved[v \cup {x.to}]}
    IN  rel \in approved[path]

ReviewRequired(r) ==
    /\ Contract(r).present
    /\ Contract(r).review \/ \E rel \in Contract(r).declared : ~Approved(rel, {})

\* _validate_relationship_contract: a release with a related one that is not
\* approved has to ask for a review.
Honest(r) ==
    (\E rel \in Contract(r).declared : ~Approved(rel, {})) => Contract(r).review

Loads == bundle.sound = Parts /\ \A r \in Listed : Honest(r)

-----------------------------------------------------------------------------
(* What the commands answer.                                                *)

Matching(b) == {r \in Listed : Bytes[r] = b}

\* Variant: one release of these bytes that needs no review is enough.
VerifyAny(b) ==
    IF Matching(b) = {} THEN "blocked"
    ELSE IF \A r \in Matching(b) : ReviewRequired(r) THEN "relationship_review_required" ELSE "allowed"

\* verify_artifact.
Verify(b) ==
    IF Matching(b) = {} THEN "blocked"
    ELSE IF \E r \in Matching(b) : ReviewRequired(r) THEN "relationship_review_required" ELSE "allowed"

\* check_installed_extensions: [status, review] of an installed release.
CheckInstalled(r) ==
    IF r \notin Listed THEN [status |-> "blocked", review |-> "not_applicable"]
    ELSE [status |-> "version_allowed_unverified",
          review |-> IF ReviewRequired(r) THEN "required" ELSE "not_required"]

\* No release is more than unverified: an installation is never compliant.
CheckExit(installed) == IF installed = {} THEN 0 ELSE 1

\* cmd_policy; 2 when load_policy_bundle raises.
VerifyExit(b) == IF ~Loads THEN 2 ELSE IF Verify(b) = "allowed" THEN 0 ELSE 1

-----------------------------------------------------------------------------
(* The bundle as a whole.                                                   *)

\* The largest set of listed releases that ask for no review and whose related
\* releases were all scanned and are in the set themselves.
Sound(S) == \A r \in S : ~Contract(r).review /\ \A rel \in Contract(r).declared : rel.scanned /\ rel.to \in S
ReviewFree == UNION {S \in SUBSET Listed : Sound(S)}

-----------------------------------------------------------------------------
(* Properties.                                                              *)

\* Following one path at a time, with a cycle approved where it closes, gives
\* the same answer whichever relationship is looked at first: no review is
\* needed exactly for the largest set of releases that is closed under its
\* relationships (policy.py:101-136).
ApprovalIsClosed ==
    Loads => {r \in Listed : ~ReviewRequired(r)} = ReviewFree

\* Bytes are allowed only if every release they are published as is approved,
\* with all it draws in: an approval of other bytes, or of the same bytes under
\* another name, is not enough (policy.py:318-341, main.py:324).
AllowedIsClosed ==
    \A b \in {Bytes[r] : r \in Releases} \cup {Unknown} :
        VerifyExit(b) = 0 => /\ Matching(b) # {}
                             /\ Matching(b) \subseteq ReviewFree
                             /\ \A r \in Matching(b) : CheckInstalled(r).review = "not_required"

=============================================================================
