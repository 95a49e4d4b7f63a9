--------------------------- MODULE OntologyReview ---------------------------
(***************************************************************************)
(* Ontology patches (sdp/ontology.py): anyone proposes one, reviewers        *)
(* approve or reject it, and the steward's queue (sdp/steward_review.py)     *)
(* lists the ones still proposed.  A review checks the status, then writes   *)
(* the signature (reviewed_by, reviewed_at, review_comment) and the status,  *)
(* field by field and without a lock, and answers with what the patch shows  *)
(* then.  Patches live in the process and end with it.                       *)
(***************************************************************************)
EXTENDS Naturals, Sequences, FiniteSets

CONSTANTS
  Threads,      \* threads serving POST /ontology/patches/{id}/review
  Reviewers,    \* names found in requests
  MaxPatches,   \* bound: patches proposed in a behaviour
  MaxReviews    \* bound: reviews signed in a behaviour

NoReviewer == "nobody"

\* A request that names no reviewer is "anonymous"'s.
ASSUME ReviewAssumption ==
  /\ MaxPatches \in Nat
  /\ MaxReviews \in Nat
  /\ NoReviewer \notin Reviewers

VARIABLES
  patches,   \* _ONTOLOGY_PATCHES; a patch's id is its position
  review,    \* per thread: the review it carries out
  log        \* history variable: the reviews that were answered, and how

vars == <<patches, review, log>>

Verdicts == {"approved", "rejected"}
Idle == [stage |-> "idle", patch |-> 0, reviewer |-> NoReviewer, verdict |-> "approved"]

Init ==
  /\ patches = <<>>
  /\ review = [t \in Threads |-> Idle]
  /\ log = <<>>

Proposed == [status |-> "proposed", reviewed_by |-> NoReviewer]

\* propose_patch: saved as proposed, never merged.
Propose ==
  /\ Len(patches) < MaxPatches
  /\ patches' = Append(patches, Proposed)
  /\ UNCHANGED <<review, log>>

\* Mutant: a patch that has been decided can be reviewed again.
Reviewable_Always(patch) == TRUE

\* patch.status != "proposed" is refused.
Reviewable(patch) == patch.status = "proposed"

\* review_patch up to its checks; a verdict that is neither approve nor reject,
\* an unknown id and a decided patch are errors and change nothing.
Check(t) ==
  \E p \in DOMAIN patches, reviewer \in Reviewers, verdict \in Verdicts :
     /\ review[t].stage = "idle"
     /\ Len(log) + Cardinality({u \in Threads : review[u].stage # "idle"}) < MaxReviews
     /\ Reviewable(patches[p])
     /\ review' = [review EXCEPT ![t] = [stage |-> "sign", patch |-> p,
                                         reviewer |-> reviewer, verdict |-> verdict]]
     /\ UNCHANGED <<patches, log>>

\* Mutant: the status is written first.
Sign_Later(t) ==
  /\ review[t].stage = "sign"
  /\ patches' = [patches EXCEPT ![review[t].patch].status = review[t].verdict]
  /\ review' = [review EXCEPT ![t].stage = "decide"]
  /\ UNCHANGED log

\* patch.reviewed_by = reviewer, with its time and comment
Sign(t) ==
  /\ review[t].stage = "sign"
  /\ patches' = [patches EXCEPT ![review[t].patch].reviewed_by = review[t].reviewer]
  /\ review' = [review EXCEPT ![t].stage = "decide"]
  /\ UNCHANGED log

\* patch.status = "approved" or "rejected"
Decide(t) ==
  /\ review[t].stage = "decide"
  /\ patches' = [patches EXCEPT ![review[t].patch].status = review[t].verdict]
  /\ review' = [review EXCEPT ![t].stage = "reply"]
  /\ UNCHANGED log

\* return patch.model_dump(): of the shared patch, which another review that also
\* passed the check may have written meanwhile
Reply(t) ==
  /\ review[t].stage = "reply"
  /\ log' = Append(log, [patch    |-> review[t].patch,
                         reviewer |-> review[t].reviewer,
                         verdict  |-> review[t].verdict,
                         shown    |-> patches[review[t].patch]])
  /\ review' = [review EXCEPT ![t] = Idle]
  /\ UNCHANGED patches

Next == Propose \/ \E t \in Threads : Check(t) \/ Sign(t) \/ Decide(t) \/ Reply(t)

Spec == Init /\ [][Next]_vars

\* list_patches(status="proposed"), the open part of the steward's queue.
Open == {p \in DOMAIN patches : patches[p].status = "proposed"}

-----------------------------------------------------------------------------
\* A patch leaves the steward's queue only signed: whoever lists the patches in
\* the middle of reviews, several at a time even, never sees a verdict that
\* nobody has put a name to.
DecidedIsSigned ==
  \A p \in DOMAIN patches \ Open : patches[p].reviewed_by # NoReviewer

\* The reviews of a patch that passed their check, answered or under way.
ReviewsOf(p) ==
  {r \in {log[i] : i \in DOMAIN log} \cup {review[t] : t \in Threads} : r.patch = p}

UnderReview(p) == \E t \in Threads : review[t].patch = p

\* Once a review of a patch has been answered nobody starts another
\* (sdp/ontology.py:247, "patch is not in proposed state").  An answer shows a
\* verdict and a name that reviews of this patch have given, so its own unless
\* reviews overlapped; and when they are all answered the patch stays what the
\* last answer said.
ConfirmedIsFinal ==
  /\ [][\A t \in Threads :
           review[t].stage = "idle" /\ review'[t].stage = "sign" =>
              \A i \in DOMAIN log : log[i].patch # review'[t].patch]_vars
  /\ [](\A i \in DOMAIN log :
           /\ \E r \in ReviewsOf(log[i].patch) : log[i].shown.status = r.verdict
           /\ \E r \in ReviewsOf(log[i].patch) : log[i].shown.reviewed_by = r.reviewer)
  /\ [](\A p \in DOMAIN patches \ Open : ~ UnderReview(p) =>
           \E i \in DOMAIN log :
              /\ log[i].patch = p /\ log[i].shown = patches[p]
              /\ \A j \in DOMAIN log : log[j].patch = p => j <= i)
=============================================================================
