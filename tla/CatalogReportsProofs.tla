------------------------ MODULE CatalogReportsProofs ------------------------
(***************************************************************************)
(* What the reports over the catalog and the patches say while both change,   *)
(* for every catalog, every number of writers and of reviewing threads.       *)
(***************************************************************************)
EXTENDS CatalogReports, OperatorProofs, SequenceTheorems

-----------------------------------------------------------------------------
(* The reviews: safety for any number of reviewing threads, reviewers and patches *)

PatchRecord == [status : {"proposed"} \cup Verdicts, reviewed_by : Reviewers \cup {NoReviewer}]

ReviewRecord == [stage : {"idle", "sign", "decide", "reply"}, patch : Nat,
                 reviewer : Reviewers \cup {NoReviewer}, verdict : Verdicts]

Confirmed == [patch : Nat, reviewer : Reviewers \cup {NoReviewer}, verdict : Verdicts, shown : PatchRecord]

ReviewTypeOK ==
  /\ patches \in Seq(PatchRecord)
  /\ review \in [Threads -> ReviewRecord]
  /\ log \in Seq(Confirmed)

\* A review past its checks is of a patch there is, past its signature of a patch
\* that somebody has signed, and past its verdict of one that is decided.
ReviewInv ==
  \A t \in Threads :
     /\ review[t].stage = "idle" => review[t].patch = 0
     /\ review[t].stage # "idle" =>
          review[t].patch \in DOMAIN patches /\ review[t].reviewer \in Reviewers
     /\ review[t].stage \in {"decide", "reply"} => patches[review[t].patch].reviewed_by # NoReviewer
     /\ review[t].stage = "reply" => patches[review[t].patch].status # "proposed"

\* A patch whose review was answered is not proposed again.
LogInv == \A i \in DOMAIN log : log[i].patch \in DOMAIN patches \ Open

\* A review of the patch, answered or under way, gives this verdict, or this name.
GaveVerdict(p, verdict) ==
  \/ \E i \in DOMAIN log : log[i].patch = p /\ log[i].verdict = verdict
  \/ \E t \in Threads : review[t].patch = p /\ review[t].verdict = verdict

GaveName(p, name) ==
  \/ \E i \in DOMAIN log : log[i].patch = p /\ log[i].reviewer = name
  \/ \E t \in Threads : review[t].patch = p /\ review[t].reviewer = name

\* What the patches show, and the answers, was given by reviews.
ShownGiven ==
  /\ \A p \in DOMAIN patches :
        /\ patches[p].status # "proposed" => GaveVerdict(p, patches[p].status)
        /\ patches[p].reviewed_by # NoReviewer => GaveName(p, patches[p].reviewed_by)
  /\ \A i \in DOMAIN log :
        GaveVerdict(log[i].patch, log[i].shown.status) /\ GaveName(log[i].patch, log[i].shown.reviewed_by)

\* The last answer to a review of p was what p shows.
LastSaid(p) ==
  \E i \in DOMAIN log :
     /\ log[i].patch = p /\ log[i].shown = patches[p]
     /\ \A j \in DOMAIN log : log[j].patch = p => j <= i

LastInv == \A p \in DOMAIN patches \ Open : ~ UnderReview(p) => LastSaid(p)

PatchesInv == ReviewTypeOK /\ ReviewInv /\ DecidedIsSigned /\ LogInv /\ ShownGiven /\ LastInv

-----------------------------------------------------------------------------
(* Sequences *)

\* _ONTOLOGY_PATCHES.append, and a confirmed review: what is there keeps its place.
LEMMA AppendExtends ==
  ASSUME NEW S, NEW seq \in Seq(S), NEW e \in S
  PROVE  /\ Append(seq, e) \in Seq(S)
         /\ \A i \in DOMAIN seq : i \in DOMAIN Append(seq, e) /\ Append(seq, e)[i] = seq[i]
         /\ Len(seq) + 1 \in DOMAIN Append(seq, e)
         /\ Append(seq, e)[Len(seq) + 1] = e
         /\ \A i \in DOMAIN Append(seq, e) : i \in DOMAIN seq \/ i = Len(seq) + 1
<1>1. /\ Len(seq) \in Nat
      /\ DOMAIN seq = 1..Len(seq)
      /\ DOMAIN Append(seq, e) = 1..(Len(seq) + 1)
  OBVIOUS
<1>2. ASSUME NEW i \in DOMAIN seq
      PROVE  i \in DOMAIN Append(seq, e) /\ Append(seq, e)[i] = seq[i]
  BY <1>1
<1>3. Len(seq) + 1 \in DOMAIN Append(seq, e)
  BY <1>1
<1>4. Append(seq, e)[Len(seq) + 1] = e
  OBVIOUS
<1>5. \A i \in DOMAIN Append(seq, e) : i \in DOMAIN seq \/ i = Len(seq) + 1
  BY <1>1
<1>6. Append(seq, e) \in Seq(S)
  OBVIOUS
<1> QED
  BY <1>2, <1>3, <1>4, <1>5, <1>6

\* An assignment to one field of a patch leaves the other patches alone.
LEMMA ExceptKeeps ==
  ASSUME NEW S, NEW seq \in Seq(S), NEW p \in DOMAIN seq, NEW e \in S
  PROVE  /\ [seq EXCEPT ![p] = e] \in Seq(S)
         /\ DOMAIN [seq EXCEPT ![p] = e] = DOMAIN seq
         /\ [seq EXCEPT ![p] = e][p] = e
         /\ \A q \in DOMAIN seq \ {p} : [seq EXCEPT ![p] = e][q] = seq[q]
<1>1. p \in 1..Len(seq)
  OBVIOUS
<1>2. [seq EXCEPT ![p] = e] \in Seq(S)
  BY <1>1, ExceptSeq
<1> QED
  BY <1>2

-----------------------------------------------------------------------------
(* Steps *)

\* The reviews there are stay: answered ones in the log, and one under way goes on or
\* comes to the log.
ReviewsKept ==
  /\ \A i \in DOMAIN log : i \in DOMAIN log' /\ log'[i] = log[i]
  /\ \A u \in Threads : review[u].patch # 0 =>
       \/ /\ review'[u].patch = review[u].patch
          /\ review'[u].verdict = review[u].verdict /\ review'[u].reviewer = review[u].reviewer
       \/ \E i \in DOMAIN log' :
             /\ log'[i].patch = review[u].patch
             /\ log'[i].verdict = review[u].verdict /\ log'[i].reviewer = review[u].reviewer

\* What a review has given it does not take back.
LEMMA GivenStays ==
  ASSUME ReviewsKept, NEW p, p # 0, NEW x
  PROVE  /\ GaveVerdict(p, x) => GaveVerdict(p, x)'
         /\ GaveName(p, x) => GaveName(p, x)'
<1>1. ASSUME NEW i \in DOMAIN log PROVE i \in DOMAIN log' /\ log'[i] = log[i]
  BY DEF ReviewsKept
<1>2. ASSUME NEW u \in Threads, review[u].patch = p
      PROVE  \/ /\ review'[u].patch = p
                /\ review'[u].verdict = review[u].verdict /\ review'[u].reviewer = review[u].reviewer
             \/ \E i \in DOMAIN log' :
                   /\ log'[i].patch = p
                   /\ log'[i].verdict = review[u].verdict /\ log'[i].reviewer = review[u].reviewer
  BY <1>2 DEF ReviewsKept
<1>3. GaveVerdict(p, x) => GaveVerdict(p, x)'
  BY <1>1, <1>2 DEF GaveVerdict
<1>4. GaveName(p, x) => GaveName(p, x)'
  BY <1>1, <1>2 DEF GaveName
<1> QED
  BY <1>3, <1>4

\* There are no patches to begin with.
LEMMA PatchesInit == Init => PatchesInv
<1> SUFFICES ASSUME Init PROVE PatchesInv
  OBVIOUS
<1>1. ReviewTypeOK
  BY DEF Init, ReviewTypeOK, Idle, ReviewRecord, Verdicts
<1>2. ReviewInv
  BY DEF Init, ReviewInv, Idle
<1>3. DecidedIsSigned /\ LogInv /\ ShownGiven /\ LastInv
  BY DEF Init, DecidedIsSigned, LogInv, ShownGiven, LastInv
<1> QED
  BY <1>1, <1>2, <1>3 DEF PatchesInv

\* propose_patch
LEMMA ProposeStep == ASSUME PatchesInv, Propose PROVE PatchesInv'
<1>1. Proposed \in PatchRecord /\ Proposed.status = "proposed" /\ Proposed.reviewed_by = NoReviewer
  BY DEF Proposed, PatchRecord
<1>2. patches \in Seq(PatchRecord) /\ patches' = Append(patches, Proposed) /\ UNCHANGED <<review, log>>
  BY DEF PatchesInv, ReviewTypeOK, Propose
<1> DEFINE n == Len(patches) + 1
<1>3. /\ patches' \in Seq(PatchRecord)
      /\ \A p \in DOMAIN patches : p \in DOMAIN patches' /\ patches'[p] = patches[p]
      /\ n \in DOMAIN patches' /\ patches'[n] = Proposed
      /\ \A p \in DOMAIN patches' : p \in DOMAIN patches \/ p = n
  BY <1>1, <1>2, AppendExtends
<1> HIDE DEF n
<1>4. /\ \A p \in DOMAIN patches' \ Open' : p \in DOMAIN patches \ Open
      /\ \A p \in DOMAIN patches \ Open : p \in DOMAIN patches' \ Open'
  BY <1>1, <1>3 DEF Open
<1>5. ReviewTypeOK' /\ ReviewInv'
  BY <1>2, <1>3 DEF PatchesInv, ReviewTypeOK, ReviewInv
<1>6. DecidedIsSigned' /\ LogInv'
  BY <1>2, <1>3, <1>4 DEF PatchesInv, DecidedIsSigned, LogInv
<1>7. \A p, x : (GaveVerdict(p, x)' <=> GaveVerdict(p, x)) /\ (GaveName(p, x)' <=> GaveName(p, x))
  BY <1>2 DEF GaveVerdict, GaveName
<1>8. ShownGiven'
  BY <1>1, <1>2, <1>3, <1>7 DEF PatchesInv, ShownGiven
<1>9. LastInv'
  BY <1>2, <1>3, <1>4 DEF PatchesInv, LastInv, LastSaid, UnderReview
<1> QED
  BY <1>5, <1>6, <1>8, <1>9 DEF PatchesInv

\* review_patch up to its checks
LEMMA CheckStep == ASSUME PatchesInv, NEW t \in Threads, Check(t) PROVE PatchesInv'
<1>1. PICK p \in DOMAIN patches, reviewer \in Reviewers, verdict \in Verdicts :
        /\ review[t].stage = "idle"
        /\ Reviewable(patches[p])
        /\ review' = [review EXCEPT ![t] = [stage |-> "sign", patch |-> p,
                                            reviewer |-> reviewer, verdict |-> verdict]]
        /\ UNCHANGED <<patches, log>>
  BY DEF Check
<1>2. p \in Nat /\ review[t].patch = 0
  BY <1>1 DEF PatchesInv, ReviewTypeOK, ReviewInv
<1> DEFINE x == [stage |-> "sign", patch |-> p, reviewer |-> reviewer, verdict |-> verdict]
<1>3. x \in ReviewRecord /\ x.stage = "sign" /\ x.patch = p /\ x.reviewer = reviewer
  BY <1>2 DEF ReviewRecord
<1> HIDE DEF x
<1>4. /\ review' \in [Threads -> ReviewRecord]
      /\ review'[t] = x
      /\ \A u \in Threads \ {t} : review'[u] = review[u]
  BY <1>1, <1>3 DEF PatchesInv, ReviewTypeOK, x
<1>5. ReviewTypeOK' /\ ReviewInv'
  BY <1>1, <1>3, <1>4 DEF PatchesInv, ReviewTypeOK, ReviewInv
<1>6. Open' = Open
  BY <1>1 DEF Open
<1>7. DecidedIsSigned' /\ LogInv'
  BY <1>1, <1>6 DEF PatchesInv, DecidedIsSigned, LogInv
<1>8. ReviewsKept
  BY <1>1, <1>2, <1>4 DEF ReviewsKept
<1>9. ShownGiven'
  <2>1. \A q \in DOMAIN patches : q # 0
    BY DEF PatchesInv, ReviewTypeOK
  <2>2. \A i \in DOMAIN log : log[i].patch # 0
    BY <2>1 DEF PatchesInv, LogInv
  <2> QED
    BY <1>1, <1>8, <2>1, <2>2, GivenStays DEF PatchesInv, ShownGiven
<1>10. LastInv'
  <2> SUFFICES ASSUME NEW q \in DOMAIN patches \ Open, ~ UnderReview(q)' PROVE LastSaid(q)'
    BY <1>1, <1>6 DEF LastInv
  <2>1. ~ UnderReview(q)
    <3>1. q # 0
      BY DEF PatchesInv, ReviewTypeOK
    <3> QED
      BY <1>2, <1>4, <3>1 DEF UnderReview
  <2>2. LastSaid(q)
    BY <2>1 DEF PatchesInv, LastInv
  <2> QED
    BY <1>1, <2>2 DEF LastSaid
<1> QED
  BY <1>5, <1>7, <1>9, <1>10 DEF PatchesInv

\* A review writes to its patch: the other patches stay, the review goes on and is not
\* answered yet.
LEMMA WriteStep ==
  ASSUME PatchesInv, NEW t \in Threads, NEW p, NEW x \in PatchRecord, NEW y \in ReviewRecord,
         review[t].stage \in {"sign", "decide"}, review[t].patch = p, log' = log,
         patches' = [patches EXCEPT ![p] = x], review' = [review EXCEPT ![t] = y],
         y.stage \in {"decide", "reply"}, y.patch = p, y.reviewer = review[t].reviewer,
         y.verdict = review[t].verdict, x.reviewed_by # NoReviewer,
         y.stage = "reply" => x.status # "proposed",
         patches[p].status # "proposed" => x.status # "proposed",
         x.status \in {patches[p].status, y.verdict},
         x.reviewed_by \in {patches[p].reviewed_by, y.reviewer}
  PROVE  PatchesInv'
<1>1. /\ patches \in Seq(PatchRecord) /\ p \in DOMAIN patches /\ p # 0
      /\ review \in [Threads -> ReviewRecord] /\ review[t].reviewer \in Reviewers
  BY DEF PatchesInv, ReviewTypeOK, ReviewInv
<1>2. /\ patches' \in Seq(PatchRecord)
      /\ DOMAIN patches' = DOMAIN patches
      /\ patches'[p] = x
      /\ \A q \in DOMAIN patches \ {p} : patches'[q] = patches[q]
  BY <1>1, ExceptKeeps
<1>3. /\ review' \in [Threads -> ReviewRecord]
      /\ review'[t] = y
      /\ \A u \in Threads \ {t} : review'[u] = review[u]
  BY <1>1
<1>4. /\ p \in Open' => p \in Open
      /\ \A q \in DOMAIN patches \ {p} : q \in Open' <=> q \in Open
  BY <1>1, <1>2 DEF Open
<1>5. ReviewTypeOK'
  BY <1>2, <1>3 DEF PatchesInv, ReviewTypeOK
<1>6. ReviewInv'
  <2> SUFFICES ASSUME NEW u \in Threads
               PROVE  /\ review'[u].stage = "idle" => review'[u].patch = 0
                      /\ review'[u].stage # "idle" =>
                           review'[u].patch \in DOMAIN patches' /\ review'[u].reviewer \in Reviewers
                      /\ review'[u].stage \in {"decide", "reply"} => patches'[review'[u].patch].reviewed_by # NoReviewer
                      /\ review'[u].stage = "reply" => patches'[review'[u].patch].status # "proposed"
    BY DEF ReviewInv
  <2>1. CASE u = t
    BY <1>1, <1>2, <1>3, <2>1
  <2>2. CASE u # t
    <3>1. PICK z : z = review[u] /\ z = review'[u]
      BY <1>3, <2>2
    <3>2. /\ z.stage = "idle" => z.patch = 0
          /\ z.stage # "idle" => z.patch \in DOMAIN patches /\ z.reviewer \in Reviewers
          /\ z.stage \in {"decide", "reply"} => patches[z.patch].reviewed_by # NoReviewer
          /\ z.stage = "reply" => patches[z.patch].status # "proposed"
      BY <3>1 DEF PatchesInv, ReviewInv
    <3>3. CASE z.patch = p
      BY <1>2, <3>1, <3>2, <3>3
    <3>4. CASE z.patch # p
      BY <1>2, <3>1, <3>2, <3>4
    <3> QED
      BY <3>3, <3>4
  <2> QED
    BY <2>1, <2>2
<1>7. DecidedIsSigned'
  BY <1>2, <1>4 DEF PatchesInv, DecidedIsSigned
<1>8. LogInv'
  BY <1>1, <1>2, <1>4 DEF PatchesInv, LogInv
<1>9. ReviewsKept
  BY <1>3 DEF ReviewsKept
<1>10. GaveVerdict(p, y.verdict)' /\ GaveName(p, y.reviewer)'
  BY <1>3 DEF GaveVerdict, GaveName
<1>11. ShownGiven'
  <2>1. ASSUME NEW i \in DOMAIN log'
        PROVE  GaveVerdict(log[i].patch, log[i].shown.status)' /\ GaveName(log[i].patch, log[i].shown.reviewed_by)'
    <3>1. PICK e : e = log[i] /\ e = log'[i]
      OBVIOUS
    <3>2. e.patch # 0 /\ GaveVerdict(e.patch, e.shown.status) /\ GaveName(e.patch, e.shown.reviewed_by)
      BY <1>1, <2>1, <3>1 DEF PatchesInv, LogInv, ShownGiven
    <3>3. GaveVerdict(e.patch, e.shown.status)' /\ GaveName(e.patch, e.shown.reviewed_by)'
      BY <1>9, <3>2, GivenStays
    <3> QED
      BY <3>1, <3>3
  <2>2. ASSUME NEW q \in DOMAIN patches'
        PROVE  /\ patches'[q].status # "proposed" => GaveVerdict(q, patches[q].status)'
               /\ patches'[q].reviewed_by # NoReviewer => GaveName(q, patches[q].reviewed_by)'
    <3>1. PICK old, new : old = patches[q] /\ new = patches'[q]
      OBVIOUS
    <3>2. /\ q # 0
          /\ old.status # "proposed" => GaveVerdict(q, old.status)
          /\ old.reviewed_by # NoReviewer => GaveName(q, old.reviewed_by)
      BY <1>1, <1>2, <3>1 DEF PatchesInv, ShownGiven
    <3>3. /\ old.status # "proposed" => GaveVerdict(q, old.status)'
          /\ old.reviewed_by # NoReviewer => GaveName(q, old.reviewed_by)'
      BY <1>9, <3>2, GivenStays
    <3>4. /\ new.status = old.status \/ (q = p /\ new.status = y.verdict)
          /\ new.reviewed_by = old.reviewed_by \/ (q = p /\ new.reviewed_by = y.reviewer)
      BY <1>2, <3>1
    <3>5. /\ new.status # "proposed" => GaveVerdict(q, new.status)'
          /\ new.reviewed_by # NoReviewer => GaveName(q, new.reviewed_by)'
      BY <1>10, <3>3, <3>4
    <3> QED
      BY <3>1, <3>5
  <2> QED
    BY <2>1, <2>2 DEF ShownGiven
<1>12. LastInv'
  <2> SUFFICES ASSUME NEW q \in DOMAIN patches', q \notin Open', ~ UnderReview(q)' PROVE LastSaid(q)'
    BY DEF LastInv
  <2>1. q # p
    BY <1>3 DEF UnderReview
  <2>2. ~ UnderReview(q)
    BY <1>3, <2>1 DEF UnderReview
  <2>3. q \in DOMAIN patches \ Open /\ patches'[q] = patches[q]
    BY <1>2, <1>4, <2>1
  <2>4. LastSaid(q)
    BY <2>2, <2>3 DEF PatchesInv, LastInv
  <2> QED
    BY <2>3, <2>4 DEF LastSaid
<1> QED
  BY <1>5, <1>6, <1>7, <1>8, <1>11, <1>12 DEF PatchesInv

\* The signature of a review, which may replace that of a review that overlaps.
LEMMA SignStep == ASSUME PatchesInv, NEW t \in Threads, Sign(t) PROVE PatchesInv'
<1>1. PICK p : p = review[t].patch
  OBVIOUS
<1>2. PICK x : x = [patches[p] EXCEPT !.reviewed_by = review[t].reviewer]
  OBVIOUS
<1>3. PICK y : y = [review[t] EXCEPT !.stage = "decide"]
  OBVIOUS
<1>4. /\ review[t].stage = "sign" /\ log' = log
      /\ patches' = [patches EXCEPT ![p] = x]
      /\ review' = [review EXCEPT ![t] = y]
  BY <1>1, <1>2, <1>3 DEF Sign
<1>5. patches[p] \in PatchRecord /\ review[t] \in ReviewRecord /\ review[t].reviewer \in Reviewers
  BY <1>1, <1>4 DEF PatchesInv, ReviewTypeOK, ReviewInv
<1>6. /\ x \in PatchRecord /\ x.status = patches[p].status
      /\ x.reviewed_by = review[t].reviewer /\ x.reviewed_by # NoReviewer
  BY <1>2, <1>5, ReviewAssumption DEF PatchRecord
<1>7. /\ y \in ReviewRecord /\ y.stage = "decide" /\ y.patch = p
      /\ y.reviewer = review[t].reviewer /\ y.verdict = review[t].verdict
  BY <1>1, <1>3, <1>5 DEF ReviewRecord
<1> QED
  BY <1>1, <1>4, <1>6, <1>7, WriteStep

\* The verdict of a review, which may replace that of a review that overlaps.
LEMMA DecideStep == ASSUME PatchesInv, NEW t \in Threads, Decide(t) PROVE PatchesInv'
<1>1. PICK p : p = review[t].patch
  OBVIOUS
<1>2. PICK x : x = [patches[p] EXCEPT !.status = review[t].verdict]
  OBVIOUS
<1>3. PICK y : y = [review[t] EXCEPT !.stage = "reply"]
  OBVIOUS
<1>4. /\ review[t].stage = "decide" /\ log' = log
      /\ patches' = [patches EXCEPT ![p] = x]
      /\ review' = [review EXCEPT ![t] = y]
  BY <1>1, <1>2, <1>3 DEF Decide
<1>5. patches[p] \in PatchRecord /\ review[t] \in ReviewRecord /\ patches[p].reviewed_by # NoReviewer
  BY <1>1, <1>4 DEF PatchesInv, ReviewTypeOK, ReviewInv
<1>6. /\ x \in PatchRecord /\ x.status = review[t].verdict /\ x.status # "proposed"
      /\ x.reviewed_by = patches[p].reviewed_by
  BY <1>2, <1>5 DEF PatchRecord, ReviewRecord, Verdicts
<1>7. /\ y \in ReviewRecord /\ y.stage = "reply" /\ y.patch = p
      /\ y.reviewer = review[t].reviewer /\ y.verdict = review[t].verdict
  BY <1>1, <1>3, <1>5 DEF ReviewRecord
<1> QED
  BY <1>1, <1>4, <1>5, <1>6, <1>7, WriteStep

\* The answer, with what the patch shows.
LEMMA ReplyStep == ASSUME PatchesInv, NEW t \in Threads, Reply(t) PROVE PatchesInv'
<1>1. PICK p : p = review[t].patch
  OBVIOUS
<1>2. PICK e : e = [patch |-> p, reviewer |-> review[t].reviewer, verdict |-> review[t].verdict,
                    shown |-> patches[p]]
  OBVIOUS
<1>3. PICK n : n = Len(log) + 1
  OBVIOUS
<1>4. /\ review[t].stage = "reply" /\ log' = Append(log, e) /\ patches' = patches
      /\ review' = [review EXCEPT ![t] = Idle]
  BY <1>1, <1>2 DEF Reply
<1>5. /\ patches \in Seq(PatchRecord) /\ p \in DOMAIN patches /\ p # 0 /\ review[t] \in ReviewRecord
      /\ patches[p].reviewed_by # NoReviewer /\ patches[p].status # "proposed" /\ log \in Seq(Confirmed)
  BY <1>1, <1>4 DEF PatchesInv, ReviewTypeOK, ReviewInv
<1>6. /\ e \in Confirmed /\ e.patch = p /\ e.shown = patches[p]
      /\ e.reviewer = review[t].reviewer /\ e.verdict = review[t].verdict
  BY <1>2, <1>5 DEF ReviewRecord, Confirmed
<1>7. Idle \in ReviewRecord /\ Idle.stage = "idle" /\ Idle.patch = 0
  BY DEF Idle, ReviewRecord, Verdicts
<1>8. /\ review' \in [Threads -> ReviewRecord]
      /\ review'[t] = Idle
      /\ \A u \in Threads \ {t} : review'[u] = review[u]
  BY <1>4, <1>7 DEF PatchesInv, ReviewTypeOK
<1>9. /\ log' \in Seq(Confirmed) /\ n \in Nat
      /\ \A i \in DOMAIN log : i \in DOMAIN log' /\ log'[i] = log[i]
      /\ n \in DOMAIN log' /\ log'[n] = e
      /\ \A i \in DOMAIN log' : i \in DOMAIN log \/ i = n
      /\ \A i \in DOMAIN log' : i <= n
  BY <1>3, <1>4, <1>5, <1>6, AppendExtends
<1>10. Open' = Open /\ p \notin Open
  BY <1>4, <1>5 DEF Open
<1>11. ReviewTypeOK' /\ ReviewInv'
  BY <1>4, <1>7, <1>8, <1>9 DEF PatchesInv, ReviewTypeOK, ReviewInv
<1>12. DecidedIsSigned'
  BY <1>4, <1>10 DEF PatchesInv, DecidedIsSigned
<1>13. LogInv'
  BY <1>4, <1>5, <1>6, <1>9, <1>10 DEF PatchesInv, LogInv
<1>14. ReviewsKept
  BY <1>1, <1>6, <1>8, <1>9 DEF ReviewsKept
<1>15. ShownGiven'
  <2>1. ASSUME NEW q \in DOMAIN patches'
        PROVE  /\ patches'[q].status # "proposed" => GaveVerdict(q, patches[q].status)'
               /\ patches'[q].reviewed_by # NoReviewer => GaveName(q, patches[q].reviewed_by)'
    <3>1. PICK old : old = patches[q] /\ old = patches'[q]
      BY <1>4
    <3>2. /\ q # 0
          /\ old.status # "proposed" => GaveVerdict(q, old.status)
          /\ old.reviewed_by # NoReviewer => GaveName(q, old.reviewed_by)
      BY <1>4, <1>5, <3>1 DEF PatchesInv, ShownGiven
    <3>3. /\ old.status # "proposed" => GaveVerdict(q, old.status)'
          /\ old.reviewed_by # NoReviewer => GaveName(q, old.reviewed_by)'
      BY <1>14, <3>2, GivenStays
    <3> QED
      BY <3>1, <3>3
  <2>2. ASSUME NEW i \in DOMAIN log'
        PROVE  GaveVerdict(log[i].patch, log[i].shown.status)' /\ GaveName(log[i].patch, log[i].shown.reviewed_by)'
    <3>1. PICK f : f = log'[i]
      OBVIOUS
    <3>2. f.patch # 0 /\ GaveVerdict(f.patch, f.shown.status) /\ GaveName(f.patch, f.shown.reviewed_by)
      <4>1. CASE i \in DOMAIN log
        <5>1. f = log[i]
          BY <1>9, <3>1, <4>1
        <5>2. f.patch \in DOMAIN patches
          BY <4>1, <5>1 DEF PatchesInv, LogInv
        <5> QED
          BY <1>5, <4>1, <5>1, <5>2 DEF PatchesInv, ShownGiven
      <4>2. CASE i = n
        BY <1>5, <1>6, <1>9, <3>1, <4>2 DEF PatchesInv, ShownGiven
      <4> QED
        BY <1>9, <4>1, <4>2
    <3>3. GaveVerdict(f.patch, f.shown.status)' /\ GaveName(f.patch, f.shown.reviewed_by)'
      BY <1>14, <3>2, GivenStays
    <3> QED
      BY <3>1, <3>3
  <2> QED
    BY <2>1, <2>2 DEF ShownGiven
<1>16. LastInv'
  <2> SUFFICES ASSUME NEW q \in DOMAIN patches', q \notin Open', ~ UnderReview(q)' PROVE LastSaid(q)'
    BY DEF LastInv
  <2>1. CASE q = p
    BY <1>4, <1>6, <1>9, <2>1 DEF LastSaid
  <2>2. CASE q # p
    <3>1. ~ UnderReview(q)
      BY <1>1, <1>8, <2>2 DEF UnderReview
    <3>2. LastSaid(q)
      BY <1>4, <1>10, <3>1 DEF PatchesInv, LastInv
    <3> QED
      BY <1>4, <1>6, <1>9, <2>2, <3>2 DEF LastSaid
  <2> QED
    BY <2>1, <2>2
<1> QED
  BY <1>11, <1>12, <1>13, <1>15, <1>16 DEF PatchesInv

\* Every step keeps the invariant.
LEMMA PatchesNext == PatchesInv /\ [Next]_vars => PatchesInv'
<1> SUFFICES ASSUME PatchesInv, [Next]_vars PROVE PatchesInv'
  OBVIOUS
<1>1. CASE UNCHANGED vars
  <2>1. Open' = Open
    BY <1>1 DEF vars, Open
  <2> QED
    BY <1>1, <2>1 DEF vars, PatchesInv, ReviewTypeOK, ReviewInv, DecidedIsSigned, LogInv, ShownGiven,
                      GaveVerdict, GaveName, LastInv, LastSaid, UnderReview
<1> QED
  BY <1>1, ProposeStep, CheckStep, SignStep, DecideStep, ReplyStep DEF Next

\* A review starts only on a patch that is proposed, and so was never confirmed.
LEMMA StartsOnProposed ==
  ASSUME PatchesInv, [Next]_vars, NEW t \in Threads,
         review[t].stage = "idle", review'[t].stage = "sign"
  PROVE  \A i \in DOMAIN log : log[i].patch # review'[t].patch
<1>1. ASSUME NEW u \in Threads, Check(u) PROVE \A i \in DOMAIN log : log[i].patch # review'[t].patch
  <2>1. u = t
    BY <1>1 DEF Check, PatchesInv, ReviewTypeOK
  <2>2. review'[t].patch \in Open
    BY <1>1, <2>1 DEF Check, Reviewable, Open, PatchesInv, ReviewTypeOK
  <2> QED
    BY <2>2 DEF PatchesInv, LogInv
<1>2. ASSUME NEW u \in Threads, Sign(u) \/ Decide(u) \/ Reply(u) PROVE FALSE
  BY <1>2 DEF Sign, Decide, Reply, Idle, PatchesInv, ReviewTypeOK
<1>3. CASE Propose \/ UNCHANGED vars
  BY <1>3 DEF Propose, vars
<1> QED
  BY <1>1, <1>2, <1>3 DEF Next

-----------------------------------------------------------------------------
\* Every reachable state of the reviews satisfies the invariant.
THEOREM ReviewsAreInOrder == Spec => []PatchesInv
BY PatchesInit, PatchesNext, PTL DEF Spec

\* Whoever lists the patches, however many reviews overlap, sees no verdict that
\* nobody has signed (sdp/ontology.py, review_patch writes the status last).
THEOREM VerdictsAreSigned == Spec => []DecidedIsSigned
<1>1. PatchesInv => DecidedIsSigned
  BY DEF PatchesInv
<1> QED
  BY <1>1, ReviewsAreInOrder, PTL

\* However reviews of a patch overlap (sdp/ontology.py, review_patch), none starts after
\* one was answered, an answer shows a verdict and a name that reviews of the patch gave,
\* and when all are answered the patch is what the last answer said.
THEOREM ConfirmedStaysFinal == Spec => ConfirmedIsFinal
<1>1. PatchesInv /\ [Next]_vars =>
        [\A t \in Threads :
            review[t].stage = "idle" /\ review'[t].stage = "sign" =>
               \A i \in DOMAIN log : log[i].patch # review'[t].patch]_vars
  BY StartsOnProposed
<1>2. PatchesInv =>
        (\A i \in DOMAIN log :
            /\ \E r \in ReviewsOf(log[i].patch) : log[i].shown.status = r.verdict
            /\ \E r \in ReviewsOf(log[i].patch) : log[i].shown.reviewed_by = r.reviewer)
  <2> SUFFICES ASSUME PatchesInv, NEW i \in DOMAIN log
               PROVE  /\ \E r \in ReviewsOf(log[i].patch) : log[i].shown.status = r.verdict
                      /\ \E r \in ReviewsOf(log[i].patch) : log[i].shown.reviewed_by = r.reviewer
    OBVIOUS
  <2>1. GaveVerdict(log[i].patch, log[i].shown.status) /\ GaveName(log[i].patch, log[i].shown.reviewed_by)
    BY DEF PatchesInv, ShownGiven
  <2> QED
    BY <2>1 DEF GaveVerdict, GaveName, ReviewsOf
<1>3. PatchesInv =>
        (\A p \in DOMAIN patches \ Open : ~ UnderReview(p) =>
            \E i \in DOMAIN log :
               /\ log[i].patch = p /\ log[i].shown = patches[p]
               /\ \A j \in DOMAIN log : log[j].patch = p => j <= i)
  BY DEF PatchesInv, LastInv, LastSaid
<1> QED
  BY <1>1, <1>2, <1>3, ReviewsAreInOrder, PTL DEF Spec, ConfirmedIsFinal

-----------------------------------------------------------------------------
(* The inductive invariant *)

Entries == [id : AllIds, card : Cards]

SearchRows == [id : AllIds, score : Nat]

VerdictRows == [id : AllIds, conforms : BOOLEAN]

\* r is a record with the fields of a report.
IsReport(r) ==
  r = [stage |-> r.stage, endpoint |-> r.endpoint, limit |-> r.limit, plan |-> r.plan,
       todo |-> r.todo, pos |-> r.pos, size |-> r.size, rows |-> r.rows, open |-> r.open,
       pass_rate |-> r.pass_rate, shacl |-> r.shacl, ready |-> r.ready, metadata |-> r.metadata,
       coverage |-> r.coverage, metadata_gate |-> r.metadata_gate, coverage_gate |-> r.coverage_gate]

\* r is somewhere on the way its endpoint takes.
OnCourse(r) ==
  /\ r.endpoint \in Endpoints
  /\ \E k \in 1..Len(Plan(r.endpoint)) :
        r.plan = SubSeq(Plan(r.endpoint), k, Len(Plan(r.endpoint)))

Running == report.stage = "run"

ReportTypeOK ==
  /\ catalog \in Seq(Entries)
  /\ IsReport(report)
  /\ report.stage \in {"idle", "run", "done", "500"}
  /\ report.limit \in Nat /\ report.pos \in Nat /\ report.size \in Nat
  /\ past \in [cards : [AllIds -> SUBSET Cards], open : SUBSET Nat, patches : Nat, writes : Nat]
  /\ writes \in Nat

\* Datasets keep their places, and the seed datasets are there.
CatalogInv ==
  /\ \A i, j \in DOMAIN catalog : catalog[i].id = catalog[j].id => i = j
  /\ Len(InitialCatalog) <= Len(catalog)
  /\ \A i \in DOMAIN InitialCatalog : catalog[i].id = InitialCatalog[i].id

\* What was there when the request began still is.
StartedInv ==
  report.stage # "idle" =>
     /\ 1 <= report.size /\ report.size <= Len(catalog)
     /\ past.patches <= Len(patches) /\ past.open \subseteq 1..past.patches

\* What there is while the request runs has been noted.
RunningInv ==
  Running =>
     /\ OnCourse(report)
     /\ \A i \in DOMAIN catalog : catalog[i].card \in past.cards[catalog[i].id]
     /\ \A p \in Open : p <= past.patches => p \in past.open

\* A dataset the search is past has its row, or was filtered out.
Looked(id) ==
  \/ \E i \in DOMAIN report.rows : report.rows[i].id = id
  \/ \E c \in past.cards[id] : c.score = 0

ScanInv ==
  Step("scan") =>
     /\ 1 <= report.pos /\ report.pos <= report.size + 1
     /\ report.rows \in Seq(SearchRows)
     /\ \A i \in DOMAIN report.rows : \E c \in past.cards[report.rows[i].id] : c.score = report.rows[i].score
     /\ \A i \in 1..report.size : i < report.pos => Looked(catalog[i].id)

ResolveInv == Step("resolve") => report.todo \in Seq({c \in Concepts : Indexed(c) # {}})

\* The reads that follow the patches.
Late == {"events", "decisions", "metadata", "coverage", "metadata_gate", "coverage_gate"}

\* A row says what a card of its dataset was at some moment of the request.
ToldOf(row) ==
  IF row.conforms THEN \E c \in past.cards[row.id] : conforms(c)
                  ELSE \E c \in past.cards[row.id] : ~ conforms(c)

HasRow(id) == \E i \in DOMAIN report.rows : report.rows[i].id = id

RowsInv ==
  /\ Step("list") => report.open = <<>>
  /\ Step("validate") \/ Step("patches") =>
        /\ report.rows \in Seq(VerdictRows)
        /\ \A i \in DOMAIN report.rows : ToldOf(report.rows[i])
  /\ Step("validate") =>
        /\ report.open = <<>>
        /\ report.todo \in Seq(AllIds)
        /\ \A i \in DOMAIN report.todo : report.todo[i] \in CardIds
        /\ \A id \in Before : HasRow(id) \/ \E i \in DOMAIN report.todo : report.todo[i] = id
  /\ Step("patches") => \A id \in Before : HasRow(id)

\* While the patches are listed: those before the position that were open all along
\* are in the list, which grows with the positions.
OpenInv ==
  Step("patches") =>
     /\ 1 <= report.pos
     /\ report.open \in Seq(Nat)
     /\ \A i \in DOMAIN report.open : report.open[i] < report.pos
     /\ \A i, j \in DOMAIN report.open : i < j => report.open[i] < report.open[j]
     /\ ToSet(report.open) \subseteq past.open \cup (past.patches + 1)..Len(patches)
     /\ \A p \in past.open \cap Open : p < report.pos => p \in ToSet(report.open)

\* What QueueIsFaithful says of an answer, true from the end of the list on.
Told ==
  /\ \A id \in Before : (\A c \in past.cards[id] : ~ conforms(c)) => id \in Unconforming(report.rows)
  /\ \A id \in Unconforming(report.rows) : \E c \in past.cards[id] : ~ conforms(c)
  /\ past.open \cap Open \subseteq ToSet(report.open)
  /\ ToSet(report.open) \subseteq past.open \cup (past.patches + 1)..Len(patches)
  /\ Cardinality(ToSet(report.open)) = Len(report.open)
  /\ report.ready => HandoffEarned
  /\ Unconforming(report.rows) \subseteq AllIds

ToldInv == (Running /\ Head(report.plan) \in Late) \/ StewardAnswered => Told

ReportsInv ==
  /\ PatchesInv
  /\ ReportTypeOK
  /\ CatalogInv
  /\ StartedInv
  /\ RunningInv
  /\ ScanInv
  /\ ResolveInv
  /\ RowsInv
  /\ OpenInv
  /\ ToldInv
  /\ CatalogSearchIsWhole
  /\ ReportFailsForCause

-----------------------------------------------------------------------------
(* Records and plans *)

\* The rest of a list, one further on.
LEMMA RestOf ==
  ASSUME NEW S, NEW s \in Seq(S), NEW k \in 1..Len(s)
  PROVE  LET rest == SubSeq(s, k, Len(s))
         IN  /\ Head(rest) = s[k] /\ Len(rest) = Len(s) - k + 1
             /\ Tail(rest) = SubSeq(s, k + 1, Len(s))
<1>1. Len(s) \in Nat /\ k \in Nat /\ 1 <= k /\ k <= Len(s)
  OBVIOUS
<1> DEFINE rest == SubSeq(s, k, Len(s))
           next == SubSeq(s, k + 1, Len(s))
<1>2. rest \in Seq(S) /\ Len(rest) = Len(s) - k + 1 /\ \A i \in 1..(Len(s) - k + 1) : rest[i] = s[k + i - 1]
  BY <1>1
<1>3. /\ next \in Seq(S) /\ Len(next) = Len(s) - k
      /\ \A i \in 1..(Len(s) - k) : next[i] = s[k + i]
  BY <1>1
<1> HIDE DEF rest, next
<1>4. Head(rest) = s[k]
  BY <1>1, <1>2
<1>5. Tail(rest) \in Seq(S) /\ Len(Tail(rest)) = Len(s) - k /\ \A i \in 1..(Len(s) - k) : Tail(rest)[i] = s[k + i]
  <2>1. rest # <<>>
    BY <1>1, <1>2
  <2>2. Tail(rest) \in Seq(S) /\ Len(Tail(rest)) = Len(s) - k /\ \A i \in 1..(Len(s) - k) : Tail(rest)[i] = rest[i + 1]
    BY <1>1, <1>2, <2>1
  <2>3. ASSUME NEW i \in 1..(Len(s) - k) PROVE rest[i + 1] = s[k + i]
    <3>1. i + 1 \in 1..(Len(s) - k + 1) /\ k + (i + 1) - 1 = k + i
      BY <1>1
    <3>2. rest[i + 1] = s[k + (i + 1) - 1]
      BY <1>2, <3>1
    <3> QED
      BY <3>1, <3>2
  <2> QED
    BY <2>2, <2>3
<1>6. Tail(rest) = next
  <2>1. PICK n \in Nat : n = Len(s) - k
    BY <1>1
  <2>2. PICK a \in Seq(S) : a = Tail(rest) /\ Len(a) = n /\ \A i \in 1..n : a[i] = s[k + i]
    BY <1>5, <2>1
  <2>3. PICK b \in Seq(S) : b = next /\ Len(b) = n /\ \A i \in 1..n : b[i] = s[k + i]
    BY <1>3, <2>1
  <2>4. Len(a) = Len(b) /\ \A i \in 1..Len(a) : a[i] = b[i]
    BY <2>2, <2>3
  <2>5. a = b
    BY <2>4, SeqEqual
  <2> QED
    BY <2>2, <2>3, <2>5
<1> QED
  BY <1>2, <1>4, <1>6 DEF rest, next

Reads == {"scan", "resolve", "list", "validate", "patches"} \cup Late

\* What a read is, whether it is the last, and what follows it, by the endpoint.
Follows(endpoint, now, last, next) ==
  /\ now \in Reads
  /\ now = "scan" => endpoint = "search" /\ last
  /\ now = "resolve" => endpoint = "resolve" /\ last
  /\ now = "list" => endpoint \in {"shacl", "steward", "pack"} /\ ~ last /\ next = "validate"
  /\ now = "validate" => \/ endpoint = "shacl" /\ last
                         \/ endpoint \in {"steward", "pack"} /\ ~ last /\ next \in {"list", "patches"}
  /\ now = "patches" => \/ endpoint = "steward" /\ last
                        \/ endpoint = "pack" /\ ~ last /\ next \in Late
  /\ now \in Late => endpoint = "pack" /\ (last \/ next \in Late)

NextRead(r) == Follows(r.endpoint, Head(r.plan), Len(r.plan) = 1, Head(Tail(r.plan)))

\* A plan is a list of reads, and begins with the one its endpoint is for.
LEMMA PlanTypes ==
  ASSUME NEW endpoint \in Endpoints
  PROVE  /\ Plan(endpoint) \in Seq(Reads) /\ 1 <= Len(Plan(endpoint))
         /\ Head(Plan(endpoint)) \in {"scan", "resolve", "list"}
         /\ Head(Plan(endpoint)) = "resolve" => endpoint = "resolve"
<1>1. /\ "scan" \in Reads /\ "resolve" \in Reads /\ "list" \in Reads /\ "validate" \in Reads
      /\ "patches" \in Reads /\ "events" \in Reads /\ "decisions" \in Reads /\ "metadata" \in Reads /\ "coverage" \in Reads
      /\ "metadata_gate" \in Reads /\ "coverage_gate" \in Reads
  BY DEF Reads, Late
<1>2. CASE endpoint = "search"
  <2>1. Plan(endpoint) = <<"scan">>
    BY <1>2 DEF Plan
  <2>2. Plan(endpoint) \in Seq(Reads)
    BY <1>1, <2>1
  <2>3. Len(Plan(endpoint)) = 1 /\ Head(Plan(endpoint)) = "scan"
    BY <2>1
  <2> QED
    BY <1>2, <2>2, <2>3
<1>3. CASE endpoint = "resolve"
  <2>1. Plan(endpoint) = <<"resolve">>
    BY <1>3 DEF Plan
  <2>2. Plan(endpoint) \in Seq(Reads)
    BY <1>1, <2>1
  <2>3. Len(Plan(endpoint)) = 1 /\ Head(Plan(endpoint)) = "resolve"
    BY <2>1
  <2> QED
    BY <1>3, <2>2, <2>3
<1>4. CASE endpoint = "shacl"
  <2>1. Plan(endpoint) = <<"list", "validate">>
    BY <1>4 DEF Plan
  <2>2. Plan(endpoint) \in Seq(Reads)
    BY <1>1, <2>1
  <2>3. Len(Plan(endpoint)) = 2 /\ Head(Plan(endpoint)) = "list"
    BY <2>1
  <2> QED
    BY <1>4, <2>2, <2>3
<1>5. CASE endpoint = "steward"
  <2>1. Plan(endpoint) = <<"list", "validate", "patches">>
    BY <1>5 DEF Plan
  <2>2. Plan(endpoint) \in Seq(Reads)
    BY <1>1, <2>1
  <2>3. Len(Plan(endpoint)) = 3 /\ Head(Plan(endpoint)) = "list"
    BY <2>1
  <2> QED
    BY <1>5, <2>2, <2>3
<1>6. CASE endpoint = "pack"
  <2>1. Plan(endpoint) = <<"list", "validate", "list", "validate", "patches",
                         "events", "decisions", "metadata", "coverage", "metadata_gate", "coverage_gate">>
    BY <1>6 DEF Plan
  <2>2. Plan(endpoint) \in Seq(Reads)
    BY <1>1, <2>1
  <2>3. Len(Plan(endpoint)) = 11 /\ Head(Plan(endpoint)) = "list"
    BY <2>1
  <2> QED
    BY <1>6, <2>2, <2>3
<1> QED
  BY <1>2, <1>3, <1>4, <1>5, <1>6 DEF Endpoints

\* A request starts out on its course.
LEMMA StartsOnCourse ==
  ASSUME NEW r, r.endpoint \in Endpoints, r.plan = Plan(r.endpoint)
  PROVE  OnCourse(r)
<1> DEFINE P == Plan(r.endpoint)
<1>1. P \in Seq(Reads) /\ 1 <= Len(P)
  BY PlanTypes
<1> HIDE DEF P
<1>2. 1 \in 1..Len(P) /\ P = SubSeq(P, 1, Len(P))
  BY <1>1
<1> QED
  BY <1>2 DEF OnCourse, P

\* The plans, read by read.
LEMMA Course ==
  ASSUME NEW r, OnCourse(r)
  PROVE  /\ NextRead(r)
         /\ Len(r.plan) # 1 =>
              \E k \in 1..Len(Plan(r.endpoint)) :
                 Tail(r.plan) = SubSeq(Plan(r.endpoint), k, Len(Plan(r.endpoint)))
<1> DEFINE P == Plan(r.endpoint)
<1>1. PICK k \in 1..Len(P) : r.plan = SubSeq(P, k, Len(P))
  BY DEF OnCourse
<1>2. r.endpoint \in {"search", "resolve", "shacl", "steward", "pack"}
  BY DEF OnCourse, Endpoints
<1>3. /\ r.endpoint = "search" => P = <<"scan">>
      /\ r.endpoint = "resolve" => P = <<"resolve">>
      /\ r.endpoint = "shacl" => P = <<"list", "validate">>
      /\ r.endpoint = "steward" => P = <<"list", "validate", "patches">>
      /\ r.endpoint = "pack" => P = <<"list", "validate", "list", "validate", "patches", "events", "decisions",
                                      "metadata", "coverage", "metadata_gate", "coverage_gate">>
  BY DEF Plan
<1> HIDE DEF P
<1>4. P \in Seq(Reads)
  BY <1>2, PlanTypes DEF Endpoints, P
<1>5. Len(P) \in Nat /\ k \in Nat /\ 1 <= k /\ k <= Len(P)
  BY <1>4
<1>6. Head(r.plan) = P[k] /\ Tail(r.plan) = SubSeq(P, k + 1, Len(P))
  BY <1>1, <1>4, RestOf
<1>7. Len(r.plan) = Len(P) - k + 1
  BY <1>1, <1>4, RestOf
<1>8. Len(r.plan) = 1 <=> k = Len(P)
  BY <1>5, <1>7
<1>9. k # Len(P) => k + 1 \in 1..Len(P)
  BY <1>5
<1>10. k # Len(P) => Head(Tail(r.plan)) = P[k + 1]
  BY <1>4, <1>6, <1>9, RestOf
<1>11. ASSUME NEW now, now = P[k], NEW next, k # Len(P) => next = P[k + 1]
       PROVE  Follows(r.endpoint, now, k = Len(P), next)
  <2>1. CASE r.endpoint = "search"
    <3>1. P = <<"scan">>
      BY <1>3, <2>1
    <3>2. Len(P) = 1
      BY <3>1
    <3>3. k = 1
      BY <1>5, <3>2
    <3> QED
      BY <1>11, <2>1, <3>1, <3>2, <3>3 DEF Follows, Reads, Late
  <2>2. CASE r.endpoint = "resolve"
    <3>1. P = <<"resolve">>
      BY <1>3, <2>2
    <3>2. Len(P) = 1
      BY <3>1
    <3>3. k = 1
      BY <1>5, <3>2
    <3> QED
      BY <1>11, <2>2, <3>1, <3>2, <3>3 DEF Follows, Reads, Late
  <2>3. CASE r.endpoint = "shacl"
    <3>1. P = <<"list", "validate">>
      BY <1>3, <2>3
    <3>2. Len(P) = 2
      BY <3>1
    <3>3. k = 1 \/ k = 2
      BY <1>5, <3>2
    <3> QED
      BY <1>11, <2>3, <3>1, <3>2, <3>3 DEF Follows, Reads, Late
  <2>4. CASE r.endpoint = "steward"
    <3>1. P = <<"list", "validate", "patches">>
      BY <1>3, <2>4
    <3>2. Len(P) = 3
      BY <3>1
    <3>3. k = 1 \/ k = 2 \/ k = 3
      BY <1>5, <3>2
    <3> QED
      BY <1>11, <2>4, <3>1, <3>2, <3>3 DEF Follows, Reads, Late
  <2>5. CASE r.endpoint = "pack"
    <3>1. P = <<"list", "validate", "list", "validate", "patches",
                         "events", "decisions", "metadata", "coverage", "metadata_gate", "coverage_gate">>
      BY <1>3, <2>5
    <3>2. Len(P) = 11
      BY <3>1
    <3>3. k = 1 \/ k = 2 \/ k = 3 \/ k = 4 \/ k = 5 \/ k = 6 \/ k = 7 \/ k = 8 \/ k = 9 \/ k = 10 \/ k = 11
      BY <1>5, <3>2
    <3> QED
      BY <1>11, <2>5, <3>1, <3>2, <3>3 DEF Follows, Reads, Late
  <2> QED
    BY <1>2, <2>1, <2>2, <2>3, <2>4, <2>5
<1>12. NextRead(r)
  BY <1>6, <1>8, <1>10, <1>11 DEF NextRead
<1> QED
  BY <1>6, <1>8, <1>9, <1>12 DEF P

\* On to the next read, or to the reply.
LEMMA AdvancedFields ==
  ASSUME NEW r, IsReport(r)
  PROVE  /\ IsReport(Advanced(r))
         /\ Advanced(r).plan = Tail(r.plan) /\ Advanced(r).pos = 1
         /\ Advanced(r).stage = IF Len(r.plan) = 1 THEN "done" ELSE "run"
         /\ Advanced(r).endpoint = r.endpoint /\ Advanced(r).limit = r.limit
         /\ Advanced(r).size = r.size /\ Advanced(r).todo = r.todo /\ Advanced(r).rows = r.rows
         /\ Advanced(r).open = r.open /\ Advanced(r).ready = r.ready
<1> DEFINE a == [r EXCEPT !.plan = Tail(r.plan)]
           b == [a EXCEPT !.pos = 1]
           c == [b EXCEPT !.stage = IF Len(r.plan) = 1 THEN "done" ELSE "run"]
<1>1. Advanced(r) = c
  BY DEF Advanced
<1>2. IsReport(a)
  <2>1. PICK v : v = Tail(r.plan)
    OBVIOUS
  <2>2. a = [r EXCEPT !.plan = v]
    BY <2>1
  <2>3. IsReport([r EXCEPT !.plan = v])
    BY DEF IsReport
  <2> QED
    BY <2>2, <2>3
<1>3. IsReport(b)
  <2> HIDE DEF a
  <2> QED
    BY <1>2 DEF IsReport
<1>4. IsReport(c)
  <2> HIDE DEF b
  <2> QED
    BY <1>3 DEF IsReport
<1>5. /\ c.plan = Tail(r.plan) /\ c.pos = 1
      /\ c.stage = IF Len(r.plan) = 1 THEN "done" ELSE "run"
      /\ c.endpoint = r.endpoint /\ c.limit = r.limit
      /\ c.size = r.size /\ c.todo = r.todo /\ c.rows = r.rows
      /\ c.open = r.open /\ c.ready = r.ready
  BY DEF IsReport
<1> HIDE DEF c
<1> QED
  BY <1>1, <1>4, <1>5

-----------------------------------------------------------------------------
(* The catalog *)

\* The datasets there were when the request began.
LEMMA BeforeIs ==
  ASSUME ReportTypeOK, StartedInv, report.stage # "idle"
  PROVE  /\ \A id \in Before : id \in AllIds /\ \E i \in 1..report.size : catalog[i].id = id
         /\ \A i \in 1..report.size : i \in DOMAIN catalog /\ catalog[i].id \in Before
<1>1. /\ Len(catalog) \in Nat /\ DOMAIN catalog = 1..Len(catalog)
      /\ \A i \in DOMAIN catalog : catalog[i] \in Entries
  BY DEF ReportTypeOK
<1>2. \A i \in 1..report.size : i \in DOMAIN catalog
  BY <1>1 DEF ReportTypeOK, StartedInv
<1>3. \A i \in DOMAIN catalog : catalog[i].id \in AllIds
  BY <1>1 DEF Entries
<1> QED
  BY <1>2, <1>3 DEF Before

\* Looking an id up gives the card of its entry.
LEMMA CardOfEntry ==
  ASSUME CatalogInv, NEW i \in DOMAIN catalog
  PROVE  catalog[i].id \in CardIds /\ CardOf(catalog[i].id) = catalog[i].card
<1> DEFINE j == CHOOSE k \in DOMAIN catalog : catalog[k].id = catalog[i].id
<1>1. j \in DOMAIN catalog /\ catalog[j].id = catalog[i].id
  OBVIOUS
<1>2. j = i
  BY <1>1 DEF CatalogInv
<1>3. CardOf(catalog[i].id) = catalog[j].card
  BY DEF CardOf
<1> HIDE DEF j
<1> QED
  BY <1>2, <1>3 DEF CardIds

\* While a request runs, looking an id up gives a card that has been noted.
LEMMA CardOfNoted ==
  ASSUME ReportTypeOK, CatalogInv, RunningInv, Running, NEW id \in CardIds
  PROVE  id \in AllIds /\ CardOf(id) \in past.cards[id] /\ CardOf(id) \in Cards
<1>1. PICK i \in DOMAIN catalog : catalog[i].id = id
  BY DEF CardIds
<1>2. catalog[i] \in Entries
  BY DEF ReportTypeOK
<1>3. CardOf(id) = catalog[i].card
  BY <1>1, CardOfEntry
<1> QED
  BY <1>1, <1>2, <1>3 DEF RunningInv, Entries

\* A non-empty set of positions has a least one.
LEMMA LeastPosition ==
  ASSUME NEW S \in SUBSET Nat, S # {}
  PROVE  \E i \in S : \A j \in S : i <= j
<1> DEFINE R == OpToRel(<, Nat)
<1>1. IsWellFoundedOn(R, Nat)
  BY NatLessThanWellFounded
<1> HIDE DEF R
<1>2. PICK i \in S : \A j \in S : ~ (<<j, i>> \in R)
  BY <1>1, WFMin
<1>3. \A j \in S : ~ (j < i)
  BY <1>2 DEF R, OpToRel
<1> QED
  BY <1>3

\* The first dataset of an indexed concept is a seed dataset, which nothing removes.
LEMMA FirstIndexedIsThere ==
  ASSUME CatalogInv, ReportTypeOK, NEW c, Indexed(c) # {}
  PROVE  FirstIndexed(c) \in CardIds
<1> DEFINE k == CHOOSE i \in Indexed(c) : \A j \in Indexed(c) : i <= j
<1>1. DOMAIN InitialCatalog = 1..Len(InitialCatalog) /\ Len(InitialCatalog) \in Nat
  BY ReportsAssumption
<1>2. Indexed(c) \subseteq DOMAIN InitialCatalog /\ Indexed(c) \subseteq Nat
  BY <1>1 DEF Indexed
<1>3. \E i \in Indexed(c) : \A j \in Indexed(c) : i <= j
  BY <1>2, LeastPosition
<1>4. k \in Indexed(c)
  BY <1>3
<1>5. FirstIndexed(c) = InitialCatalog[k].id
  BY DEF FirstIndexed
<1> HIDE DEF k
<1>6. k \in DOMAIN InitialCatalog
  BY <1>2, <1>4
<1>7. k \in DOMAIN catalog
  BY <1>1, <1>6 DEF CatalogInv, ReportTypeOK
<1>8. catalog[k].id = InitialCatalog[k].id
  BY <1>6 DEF CatalogInv
<1> QED
  BY <1>5, <1>7, <1>8 DEF CardIds

\* The index lists indexed concepts.
LEMMA IndexIsASequence == IndexedConcepts \in Seq({c \in Concepts : Indexed(c) # {}})
<1> DEFINE S == {c \in Concepts : Indexed(c) # {}}
<1>1. S \in SUBSET Concepts
  OBVIOUS
<1>2. IsFiniteSet(S)
  BY <1>1, ReportsAssumption, FS_Subset
<1>3. IndexedConcepts = SetToSeq(S)
  BY DEF IndexedConcepts
<1> HIDE DEF S
<1>4. Cardinality(S) \in Nat /\ ExistsBijection(1..Cardinality(S), S)
  BY <1>2, FS_CardinalityType
<1>5. PICK f \in Bijection(1..Cardinality(S), S) : TRUE
  BY <1>4 DEF ExistsBijection
<1>6. f \in [1..Cardinality(S) -> S] /\ IsInjective(f)
  BY <1>5 DEF Bijection, Injection, IsInjective
<1>7. SetToSeq(S) \in [1..Cardinality(S) -> S]
  BY <1>6 DEF SetToSeq
<1>8. IndexedConcepts \in Seq(S)
  <2>1. PICK n \in Nat : n = Cardinality(S)
    BY <1>4
  <2>2. IndexedConcepts \in [1..n -> S]
    BY <1>3, <1>7, <2>1
  <2> QED
    BY <2>2
<1> QED
  BY <1>8 DEF S

-----------------------------------------------------------------------------
(* The writers *)

\* What the writers do to the shared state: datasets come and change, patches come and
\* are decided, and the history takes note while a request runs.
WorldStep ==
  /\ report' = report
  /\ Len(catalog) <= Len(catalog')
  /\ \A i \in DOMAIN catalog : catalog'[i].id = catalog[i].id
  /\ Len(patches) <= Len(patches')
  /\ \A p \in Open' : p \in DOMAIN patches => p \in Open
  /\ past'.open = past.open /\ past'.patches = past.patches
  /\ \A id \in AllIds : past.cards[id] \subseteq past'.cards[id]
  /\ ~ Running => past' = past
  /\ Running => \A i \in DOMAIN catalog' : catalog'[i].card \in past'.cards[catalog'[i].id]


\* The answer about the queue is stable under what the writers do.
LEMMA ToldStays ==
  ASSUME ReportsInv, WorldStep, report.stage # "idle", Told
  PROVE  Told'
<1>1. Before' = Before
  <2>1. \A i \in 1..report.size : i \in DOMAIN catalog /\ catalog'[i].id = catalog[i].id
    BY BeforeIs DEF ReportsInv, WorldStep
  <2>2. {catalog'[i].id : i \in 1..report.size} = {catalog[i].id : i \in 1..report.size}
    BY <2>1
  <2> QED
    BY <2>2 DEF Before, WorldStep
<1>2. past.open \cap Open' \subseteq past.open \cap Open
  <2>1. \A p \in past.open : p \in DOMAIN patches
    <3>1. Len(patches) \in Nat /\ DOMAIN patches = 1..Len(patches)
      BY DEF ReportsInv, PatchesInv, ReviewTypeOK
    <3>2. past.patches \in Nat /\ past.patches <= Len(patches) /\ past.open \subseteq 1..past.patches
      BY DEF ReportsInv, StartedInv, ReportTypeOK
    <3> QED
      BY <3>1, <3>2
  <2> QED
    BY <2>1 DEF WorldStep
<1>3. \A id \in Before : id \in AllIds
  BY DEF Before
<1>4. /\ report' = report /\ past'.open = past.open /\ past'.patches = past.patches
      /\ \A id \in AllIds : past.cards[id] \subseteq past'.cards[id]
  BY DEF WorldStep
<1>5. (past.patches + 1)..Len(patches) \subseteq (past.patches + 1)..Len(patches')
  BY DEF ReportsInv, ReportTypeOK, PatchesInv, ReviewTypeOK, WorldStep
<1>6. HandoffEarned => HandoffEarned'
  <2> SUFFICES ASSUME HandoffEarned PROVE HandoffEarned'
    OBVIOUS
  <2>1. Before' # {} /\ \A id \in Before' : \E c \in past'.cards[id] : conforms(c)
    BY <1>1, <1>3, <1>4 DEF HandoffEarned, conforms
  <2>2. past'.open \cap Open' = {}
    BY <1>2, <1>4 DEF HandoffEarned
  <2> QED
    BY <2>1, <2>2 DEF HandoffEarned, conforms
<1>7. \A id \in Before : (\A c \in past'.cards[id] : ~ conforms(c)) => id \in Unconforming(report.rows)
  BY <1>3, <1>4 DEF Told
<1>8. \A id \in Unconforming(report.rows) : \E c \in past'.cards[id] : ~ conforms(c)
  BY <1>4 DEF Told
<1>9. past'.open \cap Open' \subseteq ToSet(report.open)
  BY <1>2, <1>4 DEF Told
<1>10. ToSet(report.open) \subseteq past'.open \cup (past'.patches + 1)..Len(patches')
  BY <1>4, <1>5 DEF Told
<1>11. Cardinality(ToSet(report.open)) = Len(report.open) /\ Unconforming(report.rows) \subseteq AllIds
  BY DEF Told
<1>12. report.ready => HandoffEarned'
  BY <1>6 DEF Told
<1> QED
  BY <1>1, <1>4, <1>7, <1>8, <1>9, <1>10, <1>11, <1>12 DEF Told, Unconforming, conforms

\* The parts of the invariant that speak of the request.
LEMMA WorldKeeps ==
  ASSUME ReportsInv, WorldStep, PatchesInv', ReportTypeOK', CatalogInv'
  PROVE  ReportsInv'
<1> DEFINE Grows == \A id \in AllIds : past.cards[id] \subseteq past'.cards[id]
<1>1. /\ report' = report /\ past'.open = past.open /\ past'.patches = past.patches /\ Grows
      /\ ~ Running => past' = past
  BY DEF WorldStep
<1>2. /\ Len(catalog) \in Nat /\ Len(catalog') \in Nat /\ Len(catalog) <= Len(catalog')
      /\ DOMAIN catalog = 1..Len(catalog) /\ report.size \in Nat
      /\ \A i \in DOMAIN catalog : catalog[i].id \in AllIds /\ catalog'[i].id = catalog[i].id
  <2>1. \A i \in DOMAIN catalog : catalog[i] \in Entries
    BY DEF ReportsInv, ReportTypeOK
  <2>2. \A i \in DOMAIN catalog : catalog[i].id \in AllIds
    BY <2>1 DEF Entries
  <2> QED
    BY <2>2 DEF ReportsInv, ReportTypeOK, WorldStep
<1>3. /\ Len(patches) \in Nat /\ Len(patches') \in Nat /\ Len(patches) <= Len(patches')
      /\ DOMAIN patches = 1..Len(patches) /\ past.patches \in Nat
      /\ \A p \in Open' : p \in Nat /\ (p \in DOMAIN patches => p \in Open)
  <2>1. DOMAIN patches' = 1..Len(patches') /\ Len(patches') \in Nat
    BY DEF PatchesInv, ReviewTypeOK
  <2>2. \A p \in Open' : p \in Nat /\ 1 <= p
    BY <2>1 DEF Open
  <2> QED
    BY <2>1, <2>2 DEF ReportsInv, ReportTypeOK, PatchesInv, ReviewTypeOK, WorldStep
<1>4. ASSUME report.stage # "idle"
      PROVE  /\ report.size <= Len(catalog) /\ 1 <= report.size /\ Before' = Before
             /\ \A i \in 1..report.size : catalog[i].id \in AllIds /\ catalog'[i].id = catalog[i].id
             /\ past.patches <= Len(patches) /\ past.open \subseteq DOMAIN patches
             /\ past.open \subseteq 1..past.patches
  <2>1. /\ report.size <= Len(catalog) /\ 1 <= report.size /\ past.patches <= Len(patches)
        /\ past.open \subseteq 1..past.patches
    BY <1>4 DEF ReportsInv, StartedInv
  <2>2. \A i \in 1..report.size : catalog[i].id \in AllIds /\ catalog'[i].id = catalog[i].id
    BY <1>2, <2>1
  <2>3. {catalog'[i].id : i \in 1..report.size} = {catalog[i].id : i \in 1..report.size}
    BY <2>2
  <2>4. Before' = Before
    BY <1>1, <2>3 DEF Before
  <2> QED
    BY <1>3, <2>1, <2>2, <2>4
<1>5. StartedInv'
  BY <1>1, <1>2, <1>3, <1>4 DEF StartedInv
<1>6. RunningInv'
  <2> SUFFICES ASSUME Running PROVE RunningInv'
    BY <1>1 DEF RunningInv, Running
  <2>1. report.stage # "idle"
    BY DEF Running
  <2>2. OnCourse(report)'
    BY <1>1 DEF ReportsInv, RunningInv, OnCourse, Plan
  <2>3. ASSUME NEW p \in Open', p <= past.patches PROVE p \in past.open
    <3>1. p \in DOMAIN patches
      <4>1. p \in DOMAIN patches' /\ DOMAIN patches' = 1..Len(patches')
        BY DEF Open, PatchesInv, ReviewTypeOK
      <4> QED
        BY <1>3, <1>4, <2>1, <2>3, <4>1
    <3> QED
      BY <1>3, <2>3, <3>1 DEF ReportsInv, RunningInv
  <2> QED
    BY <1>1, <2>2, <2>3 DEF RunningInv, WorldStep
<1>7. \A id \in AllIds : Looked(id) => Looked(id)'
  BY <1>1 DEF Looked
<1>8. ScanInv'
  <2> SUFFICES ASSUME Step("scan") PROVE ScanInv'
    BY <1>1 DEF ScanInv, Step
  <2>1. /\ 1 <= report.pos /\ report.pos <= report.size + 1
        /\ report.rows \in Seq(SearchRows)
        /\ \A i \in DOMAIN report.rows : \E c \in past.cards[report.rows[i].id] : c.score = report.rows[i].score
        /\ \A i \in 1..report.size : i < report.pos => Looked(catalog[i].id)
    BY DEF ReportsInv, ScanInv
  <2>2. \A i \in DOMAIN report.rows : report.rows[i].id \in AllIds
    <3>1. \A i \in DOMAIN report.rows : report.rows[i] \in SearchRows
      BY <2>1
    <3> QED
      BY <3>1 DEF SearchRows
  <2>3. \A i \in DOMAIN report.rows : \E c \in past'.cards[report.rows[i].id] : c.score = report.rows[i].score
    BY <1>1, <2>1, <2>2
  <2>4. ASSUME NEW i \in 1..report.size, i < report.pos PROVE Looked(catalog[i].id)'
    <3>1. catalog[i].id \in AllIds /\ catalog'[i].id = catalog[i].id
      BY <1>4 DEF Step
    <3>2. PICK id \in AllIds : id = catalog[i].id
      BY <3>1
    <3>3. Looked(id)'
      BY <1>7, <2>1, <2>4, <3>2
    <3> QED
      BY <3>1, <3>2, <3>3 DEF Looked
  <2> QED
    BY <1>1, <2>1, <2>3, <2>4 DEF ScanInv
<1>9. ResolveInv'
  BY <1>1 DEF ReportsInv, ResolveInv, Step, Indexed
<1>10. RowsInv'
  <2>1. \A row \in VerdictRows : ToldOf(row) => ToldOf(row)'
    <3> SUFFICES ASSUME NEW row \in VerdictRows, ToldOf(row) PROVE ToldOf(row)'
      OBVIOUS
    <3>1. row.id \in AllIds
      BY DEF VerdictRows
    <3> QED
      BY <1>1, <3>1 DEF ToldOf, conforms
  <2>2. (Step("validate") \/ Step("patches"))' =>
            /\ report'.rows \in Seq(VerdictRows)
            /\ \A i \in DOMAIN report'.rows : ToldOf(report.rows[i])'
    <3> SUFFICES ASSUME Step("validate") \/ Step("patches")
                 PROVE  /\ report.rows \in Seq(VerdictRows)
                        /\ \A i \in DOMAIN report.rows : ToldOf(report.rows[i])'
      BY <1>1 DEF Step
    <3>1. report.rows \in Seq(VerdictRows) /\ \A i \in DOMAIN report.rows : ToldOf(report.rows[i])
      BY DEF ReportsInv, RowsInv
    <3>2. \A i \in DOMAIN report.rows : report.rows[i] \in VerdictRows
      BY <3>1
    <3>3. ASSUME NEW i \in DOMAIN report.rows PROVE ToldOf(report.rows[i])'
      <4>1. PICK row \in VerdictRows : row = report.rows[i]
        BY <3>2
      <4>2. ToldOf(row)'
        BY <2>1, <3>1, <4>1
      <4> QED
        BY <1>1, <4>1, <4>2
    <3> QED
      BY <3>1, <3>3
  <2>3. \A id : HasRow(id)' <=> HasRow(id)
    BY <1>1 DEF HasRow
  <2>4. CardIds \subseteq CardIds'
    BY <1>2, DOMAIN catalog' = 1..Len(catalog') DEF CardIds, ReportTypeOK
  <2>5. Step("validate")' =>
            /\ report'.open = <<>> /\ report'.todo \in Seq(AllIds)
            /\ \A i \in DOMAIN report'.todo : report'.todo[i] \in CardIds'
            /\ \A id \in Before' : HasRow(id)' \/ \E i \in DOMAIN report'.todo : report'.todo[i] = id
    <3> SUFFICES ASSUME Step("validate")
                 PROVE  /\ report.open = <<>> /\ report.todo \in Seq(AllIds)
                        /\ \A i \in DOMAIN report.todo : report.todo[i] \in CardIds'
                        /\ \A id \in Before' : HasRow(id)' \/ \E i \in DOMAIN report.todo : report.todo[i] = id
      BY <1>1 DEF Step
    <3>1. Before' = Before
      BY <1>4 DEF Step
    <3> QED
      BY <2>3, <2>4, <3>1 DEF ReportsInv, RowsInv
  <2>6. Step("patches")' => \A id \in Before' : HasRow(id)'
    BY <1>1, <1>4, <2>3 DEF ReportsInv, RowsInv, Step
  <2>7. Step("list")' => report'.open = <<>>
    BY <1>1 DEF ReportsInv, RowsInv, Step
  <2> QED
    BY <2>2, <2>5, <2>6, <2>7 DEF RowsInv
<1>11. OpenInv'
  <2> SUFFICES ASSUME Step("patches") PROVE OpenInv'
    BY <1>1 DEF OpenInv, Step
  <2>1. /\ 1 <= report.pos
        /\ report.open \in Seq(Nat)
        /\ \A i \in DOMAIN report.open : report.open[i] < report.pos
        /\ \A i, j \in DOMAIN report.open : i < j => report.open[i] < report.open[j]
        /\ ToSet(report.open) \subseteq past.open \cup (past.patches + 1)..Len(patches)
        /\ \A p \in past.open \cap Open : p < report.pos => p \in ToSet(report.open)
    BY DEF ReportsInv, OpenInv
  <2>2. (past.patches + 1)..Len(patches) \subseteq (past.patches + 1)..Len(patches')
    BY <1>3
  <2>3. \A p \in past.open \cap Open' : p \in past.open \cap Open
    BY <1>3, <1>4 DEF Step
  <2> QED
    BY <1>1, <2>1, <2>2, <2>3 DEF OpenInv
<1>12. ToldInv'
  <2>1. (Running /\ Head(report.plan) \in Late) \/ StewardAnswered => Told /\ report.stage # "idle"
    BY DEF ReportsInv, ToldInv, Running, StewardAnswered
  <2> QED
    BY <1>1, <2>1, ToldStays DEF ToldInv, Running, StewardAnswered
<1>13. CatalogSearchIsWhole'
  <2> SUFFICES ASSUME Answered("search") PROVE CatalogSearchIsWhole'
    BY <1>1 DEF CatalogSearchIsWhole, Answered
  <2>1. past' = past /\ Before' = Before
    BY <1>1, <1>4 DEF Answered, Running
  <2> QED
    BY <1>1, <2>1 DEF ReportsInv, CatalogSearchIsWhole
<1>14. ReportFailsForCause'
  BY <1>1, <1>2 DEF ReportsInv, ReportFailsForCause
<1> QED
  BY <1>5, <1>6, <1>8, <1>9, <1>10, <1>11, <1>12, <1>13, <1>14 DEF ReportsInv

\* What is noted of a change of the catalog.
LEMMA NotedFields ==
  ASSUME ReportTypeOK, NEW id \in AllIds, NEW c \in Cards
  PROVE  /\ Noted(id, c) \in [cards : [AllIds -> SUBSET Cards], open : SUBSET Nat, patches : Nat, writes : Nat]
         /\ Noted(id, c).open = past.open /\ Noted(id, c).patches = past.patches
         /\ \A x \in AllIds : past.cards[x] \subseteq Noted(id, c).cards[x]
         /\ ~ Running => Noted(id, c) = past
         /\ Running => c \in Noted(id, c).cards[id]
<1>1. CASE ~ Running
  BY <1>1 DEF Noted, Running, ReportTypeOK
<1>2. CASE Running
  <2>1. Noted(id, c) = [past EXCEPT !.cards[id] = @ \cup {c}]
    BY <1>2 DEF Noted, Running
  <2>2. past \in [cards : [AllIds -> SUBSET Cards], open : SUBSET Nat, patches : Nat, writes : Nat]
    BY DEF ReportTypeOK
  <2>3. Noted(id, c) = [past EXCEPT !.cards = [past.cards EXCEPT ![id] = past.cards[id] \cup {c}]]
    BY <2>1, <2>2
  <2>4. PICK f : f = [past.cards EXCEPT ![id] = past.cards[id] \cup {c}]
    OBVIOUS
  <2>5. f \in [AllIds -> SUBSET Cards] /\ c \in f[id] /\ \A x \in AllIds : past.cards[x] \subseteq f[x]
    BY <2>2, <2>4
  <2>6. Noted(id, c) = [past EXCEPT !.cards = f]
    BY <2>3, <2>4
  <2> QED
    BY <1>2, <2>2, <2>5, <2>6
<1> QED
  BY <1>1, <1>2

\* create_dataset adds an entry.
LEMMA RegisterStep == ASSUME ReportsInv, Register PROVE ReportsInv'
<1>1. PICK id \in NewIds \ CardIds, c \in Cards :
        /\ catalog' = Append(catalog, [id |-> id, card |-> c])
        /\ writes' = writes + 1
        /\ past' = Noted(id, c)
        /\ UNCHANGED <<vars, report>>
  BY DEF Register
<1>2. ReportTypeOK /\ CatalogInv
  BY DEF ReportsInv
<1>3. id \in AllIds /\ [id |-> id, card |-> c] \in Entries
  BY DEF AllIds, Entries
<1>4. catalog \in Seq(Entries)
  BY <1>2 DEF ReportTypeOK
<1>5. PICK e \in Entries : e = [id |-> id, card |-> c] /\ e.id = id /\ e.card = c
  BY <1>3
<1>6. catalog' = Append(catalog, e)
  BY <1>1, <1>5
<1>7. /\ catalog' \in Seq(Entries) /\ Len(catalog) \in Nat /\ Len(catalog') = Len(catalog) + 1
      /\ DOMAIN catalog = 1..Len(catalog)
      /\ \A i \in DOMAIN catalog : catalog'[i] = catalog[i]
      /\ \A i \in DOMAIN catalog' : i \in DOMAIN catalog \/ i = Len(catalog) + 1
      /\ catalog'[Len(catalog) + 1] = e
  BY <1>4, <1>6, AppendExtends
<1>8. /\ past' \in [cards : [AllIds -> SUBSET Cards], open : SUBSET Nat, patches : Nat, writes : Nat]
      /\ past'.open = past.open /\ past'.patches = past.patches
      /\ \A x \in AllIds : past.cards[x] \subseteq past'.cards[x]
      /\ ~ Running => past' = past
      /\ Running => c \in past'.cards[id]
  BY <1>1, <1>2, <1>3, NotedFields
<1>9. ReportTypeOK'
  BY <1>1, <1>2, <1>7, <1>8 DEF ReportTypeOK, IsReport
<1>10. PatchesInv' /\ Open' = Open /\ patches' = patches
  BY <1>1 DEF ReportsInv, vars, PatchesInv, ReviewTypeOK, ReviewInv, DecidedIsSigned, LogInv, ShownGiven, GaveVerdict, GaveName, LastInv, LastSaid, UnderReview, Open
<1>11. CatalogInv'
  <2>1. \A i \in DOMAIN catalog : catalog[i].id # id
    BY DEF CardIds
  <2>2. ASSUME NEW i \in DOMAIN catalog', NEW j \in DOMAIN catalog', catalog'[i].id = catalog'[j].id
        PROVE  i = j
    BY <1>2, <1>5, <1>7, <2>1, <2>2 DEF CatalogInv
  <2>3. Len(InitialCatalog) \in Nat /\ Len(InitialCatalog) <= Len(catalog')
    BY <1>2, <1>7, ReportsAssumption DEF CatalogInv
  <2>4. \A i \in DOMAIN InitialCatalog : i \in DOMAIN catalog
    BY <1>2, <1>7, <2>3, ReportsAssumption DEF CatalogInv
  <2> QED
    BY <1>2, <1>7, <2>2, <2>3, <2>4 DEF CatalogInv
<1>12. WorldStep
  <2>1. Running => \A i \in DOMAIN catalog' : catalog'[i].card \in past'.cards[catalog'[i].id]
    <3> SUFFICES ASSUME Running, NEW i \in DOMAIN catalog' PROVE catalog'[i].card \in past'.cards[catalog'[i].id]
      OBVIOUS
    <3>1. CASE i \in DOMAIN catalog
      <4>1. catalog[i] \in Entries
        BY <1>4, <3>1
      <4>2. catalog[i].id \in AllIds /\ catalog[i].card \in past.cards[catalog[i].id]
        BY <3>1, <4>1 DEF ReportsInv, RunningInv, Entries
      <4> QED
        BY <1>7, <1>8, <3>1, <4>2
    <3>2. CASE i = Len(catalog) + 1
      BY <1>5, <1>7, <1>8, <3>2
    <3> QED
      BY <1>7, <3>1, <3>2
  <2>2. Len(patches) \in Nat
    BY DEF ReportsInv, PatchesInv, ReviewTypeOK
  <2> QED
    BY <1>1, <1>7, <1>8, <1>10, <2>1, <2>2 DEF WorldStep
<1> QED
  BY <1>9, <1>10, <1>11, <1>12, WorldKeeps

\* update_dataset, publish and deprecate put a new card in place of the old one.
LEMMA ReplaceStep == ASSUME ReportsInv, Replace PROVE ReportsInv'
<1>1. PICK k \in DOMAIN catalog, c \in Cards :
        /\ catalog' = [catalog EXCEPT ![k].card = c]
        /\ writes' = writes + 1
        /\ past' = Noted(catalog[k].id, c)
        /\ UNCHANGED <<vars, report>>
  BY DEF Replace
<1>2. ReportTypeOK /\ CatalogInv
  BY DEF ReportsInv
<1>3. /\ catalog \in Seq(Entries) /\ Len(catalog) \in Nat /\ DOMAIN catalog = 1..Len(catalog)
      /\ \A i \in DOMAIN catalog : catalog[i] \in Entries
  BY <1>2 DEF ReportTypeOK
<1>4. PICK id \in AllIds : id = catalog[k].id
  BY <1>3 DEF Entries
<1>5. PICK e : e = [catalog[k] EXCEPT !.card = c]
  OBVIOUS
<1>6. e \in Entries /\ e.id = id /\ e.card = c
  BY <1>3, <1>4, <1>5 DEF Entries
<1>7. catalog' = [catalog EXCEPT ![k] = e]
  BY <1>1, <1>5
<1>8. /\ catalog' \in Seq(Entries) /\ Len(catalog') = Len(catalog) /\ DOMAIN catalog' = DOMAIN catalog
      /\ \A i \in DOMAIN catalog : i # k => catalog'[i] = catalog[i]
      /\ catalog'[k] = e
  BY <1>3, <1>6, <1>7
<1>9. \A i \in DOMAIN catalog : catalog'[i].id = catalog[i].id
  BY <1>4, <1>6, <1>8
<1>10. /\ past' \in [cards : [AllIds -> SUBSET Cards], open : SUBSET Nat, patches : Nat, writes : Nat]
       /\ past'.open = past.open /\ past'.patches = past.patches
       /\ \A x \in AllIds : past.cards[x] \subseteq past'.cards[x]
       /\ ~ Running => past' = past
       /\ Running => c \in past'.cards[id]
  BY <1>1, <1>2, <1>4, NotedFields
<1>11. ReportTypeOK'
  BY <1>1, <1>2, <1>8, <1>10 DEF ReportTypeOK, IsReport
<1>12. PatchesInv' /\ Open' = Open /\ patches' = patches
  BY <1>1 DEF ReportsInv, vars, PatchesInv, ReviewTypeOK, ReviewInv, DecidedIsSigned, LogInv, ShownGiven, GaveVerdict, GaveName, LastInv, LastSaid, UnderReview, Open
<1>13. CatalogInv'
  <2>1. DOMAIN InitialCatalog = 1..Len(InitialCatalog) /\ Len(InitialCatalog) \in Nat
    BY ReportsAssumption
  <2>2. \A i \in DOMAIN InitialCatalog : i \in DOMAIN catalog
    BY <1>2, <1>3, <2>1 DEF CatalogInv
  <2> QED
    BY <1>2, <1>8, <1>9, <2>2 DEF CatalogInv
<1>14. WorldStep
  <2>1. Running => \A i \in DOMAIN catalog' : catalog'[i].card \in past'.cards[catalog'[i].id]
    <3> SUFFICES ASSUME Running, NEW i \in DOMAIN catalog PROVE catalog'[i].card \in past'.cards[catalog'[i].id]
      BY <1>8
    <3>1. CASE i # k
      <4>1. catalog[i].id \in AllIds /\ catalog[i].card \in past.cards[catalog[i].id]
        BY <1>3 DEF ReportsInv, RunningInv, Entries
      <4> QED
        BY <1>8, <1>10, <3>1, <4>1
    <3>2. CASE i = k
      BY <1>6, <1>8, <1>10, <3>2
    <3> QED
      BY <3>1, <3>2
  <2>2. Len(patches) \in Nat
    BY DEF ReportsInv, PatchesInv, ReviewTypeOK
  <2> QED
    BY <1>1, <1>3, <1>8, <1>9, <1>10, <1>12, <2>1, <2>2 DEF WorldStep
<1> QED
  BY <1>11, <1>12, <1>13, <1>14, WorldKeeps

\* Patches come, and those decided do not return to the queue.
LEMMA OpenOnlyShrinks ==
  ASSUME PatchesInv, Next
  PROVE  /\ Len(patches) <= Len(patches')
         /\ \A p \in Open' : p \in DOMAIN patches => p \in Open
<1>1. /\ patches \in Seq(PatchRecord) /\ Len(patches) \in Nat /\ DOMAIN patches = 1..Len(patches)
      /\ \A p \in DOMAIN patches : patches[p] \in PatchRecord
  BY DEF PatchesInv, ReviewTypeOK
<1>2. CASE Propose
  <2>1. patches' = Append(patches, Proposed) /\ Proposed \in PatchRecord
    BY <1>2 DEF Propose, Proposed, PatchRecord
  <2>2. Len(patches') = Len(patches) + 1 /\ \A p \in DOMAIN patches : patches'[p] = patches[p]
    BY <1>1, <2>1, AppendExtends
  <2> QED
    BY <1>1, <2>2 DEF Open
<1>3. ASSUME NEW t \in Threads, Check(t) \/ Reply(t)
      PROVE  patches' = patches
  BY <1>3 DEF Check, Reply
<1>4. ASSUME NEW t \in Threads, Sign(t) \/ Decide(t)
      PROVE  /\ Len(patches) <= Len(patches')
             /\ \A p \in Open' : p \in DOMAIN patches => p \in Open
  <2>1. PICK k \in DOMAIN patches, e \in PatchRecord :
          /\ patches' = [patches EXCEPT ![k] = e]
          /\ e.status = "proposed" => patches[k].status = "proposed"
    <3>1. /\ review[t] \in ReviewRecord /\ review[t].stage # "idle"
          /\ review[t].patch \in DOMAIN patches /\ review[t].reviewer \in Reviewers
      BY <1>4 DEF PatchesInv, ReviewTypeOK, ReviewInv, Sign, Decide
    <3>2. PICK k \in DOMAIN patches : k = review[t].patch
      BY <3>1
    <3>3. CASE Sign(t)
      <4>1. PICK e : e = [patches[k] EXCEPT !.reviewed_by = review[t].reviewer]
        OBVIOUS
      <4>2. e \in PatchRecord /\ e.status = patches[k].status
        BY <1>1, <3>1, <4>1 DEF PatchRecord
      <4>3. patches' = [patches EXCEPT ![k] = e]
        BY <3>2, <3>3, <4>1 DEF Sign
      <4> QED
        BY <4>2, <4>3
    <3>4. CASE Decide(t)
      <4>1. PICK e : e = [patches[k] EXCEPT !.status = review[t].verdict]
        OBVIOUS
      <4>2. e \in PatchRecord /\ e.status # "proposed"
        BY <1>1, <3>1, <4>1 DEF PatchRecord, ReviewRecord, Verdicts
      <4>3. patches' = [patches EXCEPT ![k] = e]
        BY <3>2, <3>4, <4>1 DEF Decide
      <4> QED
        BY <4>2, <4>3
    <3> QED
      BY <1>4, <3>3, <3>4
  <2>2. Len(patches') = Len(patches) /\ \A p \in DOMAIN patches : p # k => patches'[p] = patches[p]
        /\ patches'[k] = e
    BY <1>1, <2>1
  <2> QED
    BY <1>1, <2>1, <2>2 DEF Open
<1> QED
  BY <1>1, <1>2, <1>3, <1>4 DEF Next, Open

\* Patches are proposed and reviewed.
LEMMA ReviewStep == ASSUME ReportsInv, Next, UNCHANGED reportVars PROVE ReportsInv'
<1>1. PatchesInv'
  BY PatchesNext DEF ReportsInv
<1>2. UNCHANGED <<catalog, writes, report, past>>
  BY DEF reportVars
<1>3. ReportTypeOK' /\ CatalogInv'
  BY <1>2 DEF ReportsInv, ReportTypeOK, IsReport, CatalogInv
<1>4. WorldStep
  <2>1. Len(catalog) \in Nat
    BY DEF ReportsInv, ReportTypeOK
  <2>2. /\ Len(patches) <= Len(patches')
        /\ \A p \in Open' : p \in DOMAIN patches => p \in Open
    BY OpenOnlyShrinks DEF ReportsInv
  <2>3. Running => \A i \in DOMAIN catalog : catalog[i].card \in past.cards[catalog[i].id]
    BY DEF ReportsInv, RunningInv
  <2> QED
    BY <1>2, <2>1, <2>2, <2>3 DEF WorldStep
<1> QED
  BY <1>1, <1>3, <1>4, WorldKeeps

-----------------------------------------------------------------------------
(* The request *)

\* An assignment to a field leaves a report a report.
LEMMA FieldSet ==
  ASSUME NEW r, IsReport(r), NEW v
  PROVE  /\ IsReport([r EXCEPT !.rows = v])
         /\ IsReport([r EXCEPT !.stage = v])
         /\ IsReport([r EXCEPT !.pos = v])
         /\ IsReport([r EXCEPT !.todo = v])
         /\ IsReport([r EXCEPT !.open = v])
         /\ IsReport([r EXCEPT !.ready = v])
         /\ IsReport([r EXCEPT !.pass_rate = v])
         /\ IsReport([r EXCEPT !.shacl = v])
         /\ IsReport([r EXCEPT !.metadata = v])
         /\ IsReport([r EXCEPT !.coverage = v])
         /\ IsReport([r EXCEPT !.metadata_gate = v])
         /\ IsReport([r EXCEPT !.coverage_gate = v])
<1>1. IsReport([r EXCEPT !.rows = v])
  BY DEF IsReport
<1>2. IsReport([r EXCEPT !.stage = v])
  BY DEF IsReport
<1>3. IsReport([r EXCEPT !.pos = v])
  BY DEF IsReport
<1>4. IsReport([r EXCEPT !.todo = v])
  BY DEF IsReport
<1>5. IsReport([r EXCEPT !.open = v])
  BY DEF IsReport
<1>6. IsReport([r EXCEPT !.ready = v])
  BY DEF IsReport
<1>7. IsReport([r EXCEPT !.pass_rate = v])
  BY DEF IsReport
<1>8. IsReport([r EXCEPT !.shacl = v])
  BY DEF IsReport
<1>9. IsReport([r EXCEPT !.metadata = v])
  BY DEF IsReport
<1>10. IsReport([r EXCEPT !.coverage = v])
  BY DEF IsReport
<1>11. IsReport([r EXCEPT !.metadata_gate = v])
  BY DEF IsReport
<1>12. IsReport([r EXCEPT !.coverage_gate = v])
  BY DEF IsReport
<1> QED
  BY <1>1, <1>2, <1>3, <1>4, <1>5, <1>6, <1>7, <1>8, <1>9, <1>10, <1>11, <1>12

\* What the other fields of such a report are.
SameFields(s, r) ==
  /\ s.endpoint = r.endpoint /\ s.limit = r.limit /\ s.plan = r.plan /\ s.size = r.size

\* A step of the request touches nothing but the request.
Own ==
  /\ ReportsInv
  /\ Running
  /\ UNCHANGED <<vars, catalog, writes, past>>

\* The parts of the invariant that speak of the shared state and of where the request is.
Settled == PatchesInv /\ ReportTypeOK /\ CatalogInv /\ StartedInv /\ RunningInv

LEMMA OwnStep ==
  ASSUME Own, IsReport(report'), report'.size = report.size, report'.limit = report.limit,
         report'.pos \in Nat, report'.stage \in {"run", "done", "500"},
         report'.stage = "run" => OnCourse(report)'
  PROVE  Settled' /\ Before' = Before /\ Open' = Open
<1>1. UNCHANGED <<patches, review, log, catalog, writes, past>>
  BY DEF Own, vars
<1>2. Open' = Open /\ Before' = Before
  BY <1>1 DEF Open, Before
<1>3. PatchesInv'
  BY <1>1, <1>2 DEF Own, ReportsInv, PatchesInv, ReviewTypeOK, ReviewInv, DecidedIsSigned, LogInv, ShownGiven, GaveVerdict, GaveName, LastInv, LastSaid, UnderReview
<1>4. ReportTypeOK'
  <2>1. IsReport(report)'
    BY DEF IsReport
  <2> QED
    BY <1>1, <2>1 DEF Own, ReportsInv, ReportTypeOK
<1>5. CatalogInv'
  BY <1>1 DEF Own, ReportsInv, CatalogInv
<1>6. StartedInv'
  BY <1>1 DEF Own, Running, ReportsInv, StartedInv
<1>7. RunningInv'
  BY <1>1, <1>2 DEF Own, ReportsInv, RunningInv, Running
<1> QED
  BY <1>2, <1>3, <1>4, <1>5, <1>6, <1>7 DEF Settled

\* A step that stays at the same read.
LEMMA StayStep ==
  ASSUME Own, NEW r, IsReport(r), SameFields(r, report), r.stage = "run", r.pos \in Nat, report' = r
  PROVE  /\ Settled' /\ Before' = Before /\ Open' = Open
         /\ NextRead(report) /\ report'.stage = "run" /\ Head(report'.plan) = Head(report.plan)
         /\ report'.size = report.size /\ report'.limit = report.limit /\ report'.endpoint = report.endpoint
<1>1. OnCourse(report)
  BY DEF Own, ReportsInv, RunningInv
<1>2. OnCourse(report)'
  BY <1>1 DEF OnCourse, SameFields, Plan
<1>3. NextRead(report)
  BY <1>1, Course
<1> QED
  BY <1>2, <1>3, OwnStep DEF SameFields

\* A step to the next read, or to the reply.
LEMMA AdvanceStep ==
  ASSUME Own, NEW r, IsReport(r), SameFields(r, report), report' = Advanced(r)
  PROVE  /\ Settled' /\ Before' = Before /\ Open' = Open
         /\ NextRead(report)
         /\ report'.stage = IF Len(report.plan) = 1 THEN "done" ELSE "run"
         /\ Head(report'.plan) = Head(Tail(report.plan))
         /\ report'.size = report.size /\ report'.limit = report.limit /\ report'.endpoint = report.endpoint
         /\ report'.pos = 1 /\ report'.todo = r.todo /\ report'.rows = r.rows
         /\ report'.open = r.open /\ report'.ready = r.ready
<1>1. OnCourse(report)
  BY DEF Own, ReportsInv, RunningInv
<1>2. /\ NextRead(report)
      /\ Len(report.plan) # 1 =>
           \E k \in 1..Len(Plan(report.endpoint)) :
              Tail(report.plan) = SubSeq(Plan(report.endpoint), k, Len(Plan(report.endpoint)))
  BY <1>1, Course
<1>3. /\ IsReport(report')
      /\ report'.plan = Tail(report.plan) /\ report'.pos = 1
      /\ report'.stage = IF Len(report.plan) = 1 THEN "done" ELSE "run"
      /\ report'.endpoint = report.endpoint /\ report'.limit = report.limit
      /\ report'.size = report.size /\ report'.todo = r.todo /\ report'.rows = r.rows
      /\ report'.open = r.open /\ report'.ready = r.ready
  BY AdvancedFields DEF SameFields
<1>4. report'.stage = "run" => OnCourse(report)'
  BY <1>1, <1>2, <1>3 DEF OnCourse, Plan
<1>5. Settled' /\ Before' = Before /\ Open' = Open
  BY <1>3, <1>4, OwnStep
<1> QED
  BY <1>2, <1>3, <1>5

\* A search fails when the catalog has grown, a pack when the evidence store raises.
LEMMA FailStep ==
  ASSUME Own, report' = Failed(report),
         \/ report.endpoint = "search" /\ Len(catalog) > report.size
         \/ StoreMayFail /\ report.endpoint = "pack" /\ Head(report.plan) \in {"events", "decisions"}
  PROVE  ReportsInv'
<1>1. IsReport(report)
  BY DEF Own, ReportsInv, ReportTypeOK
<1>2. IsReport(report')
  BY <1>1, FieldSet DEF Failed
<1>3. /\ report'.stage = "500" /\ report'.size = report.size /\ report'.limit = report.limit
      /\ report'.pos = report.pos /\ report'.endpoint = report.endpoint /\ report'.plan = report.plan
  BY <1>1 DEF Failed, IsReport
<1>4. report.pos \in Nat
  BY DEF Own, ReportsInv, ReportTypeOK
<1>5. Settled'
  BY <1>2, <1>3, <1>4, OwnStep
<1>6. catalog' = catalog
  BY DEF Own
<1> QED
  BY <1>3, <1>5, <1>6
  DEF ReportsInv, Settled, ScanInv, ResolveInv, RowsInv, OpenInv, ToldInv, Running, Step, StewardAnswered,
      CatalogSearchIsWhole, Answered, ReportFailsForCause

\* At import.
LEMMA ReportsStart == ReportsInit => ReportsInv
<1> SUFFICES ASSUME ReportsInit PROVE ReportsInv
  OBVIOUS
<1>1. PatchesInv
  BY PatchesInit DEF ReportsInit
<1>2. /\ catalog = InitialCatalog /\ writes = 0 /\ report = NoReport /\ past = NoPast
  BY DEF ReportsInit
<1>3. catalog \in Seq(Entries)
  <2> DEFINE R == [id : {InitialCatalog[i].id : i \in DOMAIN InitialCatalog}, card : Cards]
  <2>1. InitialCatalog \in Seq(R)
    BY ReportsAssumption
  <2>2. \A e \in R : e \in Entries
    BY DEF AllIds, Entries
  <2> HIDE DEF R
  <2>3. /\ Len(InitialCatalog) \in Nat /\ DOMAIN InitialCatalog = 1..Len(InitialCatalog)
        /\ \A i \in DOMAIN InitialCatalog : InitialCatalog[i] \in Entries
    BY <2>1, <2>2
  <2> QED
    BY <1>2, <2>1, <2>3
<1>4. IsReport(NoReport) /\ NoReport.stage = "idle" /\ NoReport.limit = 0 /\ NoReport.pos = 1 /\ NoReport.size = 0
  BY DEF IsReport, NoReport
<1>5. NoPast \in [cards : [AllIds -> SUBSET Cards], open : SUBSET Nat, patches : Nat, writes : Nat]
  BY DEF NoPast
<1>6. ReportTypeOK
  BY <1>2, <1>3, <1>4, <1>5 DEF ReportTypeOK
<1>7. CatalogInv
  <2>1. Len(catalog) \in Nat
    BY <1>3
  <2> QED
    BY <1>2, <2>1, ReportsAssumption DEF CatalogInv
<1> QED
  BY <1>1, <1>2, <1>4, <1>6, <1>7
  DEF ReportsInv, StartedInv, RunningInv, Running, ScanInv, ResolveInv, RowsInv, OpenInv, ToldInv, Step,
      StewardAnswered, CatalogSearchIsWhole, Answered, ReportFailsForCause

\* A request begins.
LEMMA BeginStep == ASSUME ReportsInv, Begin PROVE ReportsInv'
<1>1. PICK endpoint \in Endpoints, limit \in Limits :
        /\ report' = [NoReport EXCEPT !.stage = "run", !.endpoint = endpoint, !.limit = limit,
                                      !.plan = Plan(endpoint), !.size = Len(catalog),
                                      !.todo = IF endpoint = "resolve" THEN IndexedConcepts ELSE <<>>]
        /\ past' = [cards   |-> [id \in AllIds |-> IF id \in CardIds THEN {CardOf(id)} ELSE {}],
                    open    |-> Open,
                    patches |-> Len(patches),
                    writes  |-> writes]
        /\ UNCHANGED <<vars, catalog, writes>>
  BY DEF Begin
<1>2. ReportTypeOK /\ CatalogInv /\ PatchesInv
  BY DEF ReportsInv
<1>3. limit \in Nat
  BY ReportsAssumption
<1>4. /\ catalog \in Seq(Entries) /\ Len(catalog) \in Nat /\ DOMAIN catalog = 1..Len(catalog)
      /\ \A i \in DOMAIN catalog : catalog[i] \in Entries /\ catalog[i].id \in AllIds /\ catalog[i].card \in Cards
  <2>1. catalog \in Seq(Entries) /\ \A i \in DOMAIN catalog : catalog[i] \in Entries
    BY <1>2 DEF ReportTypeOK
  <2> QED
    BY <2>1 DEF Entries
<1>5. PICK todo : todo = IF endpoint = "resolve" THEN IndexedConcepts ELSE <<>>
  OBVIOUS
<1>6. PICK plan : plan = Plan(endpoint)
  OBVIOUS
<1>7. PICK n \in Nat : n = Len(catalog)
  BY <1>4
<1>8. report' = [stage |-> "run", endpoint |-> endpoint, limit |-> limit, plan |-> plan,
                 todo |-> todo, pos |-> 1, size |-> n, rows |-> <<>>, open |-> <<>>,
                 pass_rate |-> 0, shacl |-> 0, ready |-> FALSE, metadata |-> 0, coverage |-> 0,
                 metadata_gate |-> FALSE, coverage_gate |-> FALSE]
  BY <1>1, <1>5, <1>6, <1>7 DEF NoReport
<1>9. /\ IsReport(report') /\ report'.stage = "run" /\ report'.endpoint = endpoint /\ report'.limit = limit
      /\ report'.plan = plan /\ report'.todo = todo /\ report'.pos = 1 /\ report'.size = n
      /\ report'.rows = <<>> /\ report'.open = <<>>
  BY <1>8 DEF IsReport
<1>10. /\ Len(patches) \in Nat /\ DOMAIN patches = 1..Len(patches) /\ Open \subseteq 1..Len(patches)
       /\ Open \subseteq Nat
  BY <1>2 DEF PatchesInv, ReviewTypeOK, Open
<1>11. ASSUME NEW id \in CardIds
       PROVE  CardOf(id) \in Cards
  <2>1. PICK i \in DOMAIN catalog : catalog[i].id = id
    BY DEF CardIds
  <2> QED
    BY <1>2, <1>4, <2>1, CardOfEntry
<1>12. PICK cards : cards = [id \in AllIds |-> IF id \in CardIds THEN {CardOf(id)} ELSE {}]
  OBVIOUS
<1>13. cards \in [AllIds -> SUBSET Cards]
  BY <1>11, <1>12
<1>14. past' = [cards |-> cards, open |-> Open, patches |-> Len(patches), writes |-> writes]
  BY <1>1, <1>12
<1>15. /\ past' \in [cards : [AllIds -> SUBSET Cards], open : SUBSET Nat, patches : Nat, writes : Nat]
       /\ past'.cards = cards /\ past'.open = Open /\ past'.patches = Len(patches)
  BY <1>2, <1>10, <1>13, <1>14 DEF ReportTypeOK
<1>16. UNCHANGED <<patches, review, log, catalog, writes>> /\ Open' = Open
  BY <1>1 DEF vars, Open
<1>17. ReportTypeOK'
  <2>1. IsReport(report)'
    BY <1>9 DEF IsReport
  <2> QED
    BY <1>2, <1>3, <1>9, <1>15, <1>16, <2>1 DEF ReportTypeOK
<1>18. CatalogInv' /\ PatchesInv'
  BY <1>2, <1>16 DEF CatalogInv, PatchesInv, ReviewTypeOK, ReviewInv, DecidedIsSigned, LogInv, ShownGiven, GaveVerdict, GaveName, LastInv, LastSaid, UnderReview
<1>19. StartedInv'
  <2>1. 1 <= n
    BY <1>2, <1>4, <1>7, ReportsAssumption DEF CatalogInv
  <2> QED
    BY <1>4, <1>7, <1>9, <1>10, <1>15, <1>16, <2>1 DEF StartedInv
<1>20. /\ Head(report'.plan) \in {"scan", "resolve", "list"}
       /\ Head(report'.plan) = "resolve" => endpoint = "resolve"
  BY <1>6, <1>9, PlanTypes
<1>21. RunningInv'
  <2>1. OnCourse(report)'
    <3>1. OnCourse(report')
      BY <1>6, <1>9, StartsOnCourse
    <3> QED
      BY <3>1 DEF OnCourse, Plan
  <2>2. ASSUME NEW i \in DOMAIN catalog PROVE catalog[i].card \in cards[catalog[i].id]
    BY <1>2, <1>4, <1>12, CardOfEntry
  <2> QED
    BY <1>9, <1>15, <1>16, <2>1, <2>2 DEF RunningInv
<1>22. ScanInv'
  <2>1. \A i \in 1..n : ~ (i < 1)
    BY <1>7
  <2>2. 1 <= 1 /\ 1 <= n + 1
    BY <1>7
  <2> QED
    BY <1>9, <2>1, <2>2 DEF ScanInv
<1>23. ResolveInv'
  BY <1>5, <1>6, <1>9, <1>20, IndexIsASequence DEF ResolveInv, Step, Indexed
<1> QED
  BY <1>6, <1>9, <1>17, <1>18, <1>19, <1>20, <1>21, <1>22, <1>23
  DEF ReportsInv, RowsInv, OpenInv, ToldInv, Step, Late, Running,
      StewardAnswered, CatalogSearchIsWhole, Answered, ReportFailsForCause

\* The search: a turn of the loop, the sorting, or RuntimeError.
LEMMA ScanStep == ASSUME Own, Scan PROVE ReportsInv'
<1>1. /\ ReportsInv /\ Step("scan") /\ UNCHANGED <<catalog, past>> /\ IsReport(report)
      /\ report.limit \in Nat /\ report.pos \in Nat /\ report.size \in Nat
  BY DEF Own, Scan, ReportsInv, ReportTypeOK
<1>2. /\ 1 <= report.pos /\ report.pos <= report.size + 1
      /\ report.rows \in Seq(SearchRows)
      /\ \A i \in DOMAIN report.rows : \E c \in past.cards[report.rows[i].id] : c.score = report.rows[i].score
      /\ \A i \in 1..report.size : i < report.pos => Looked(catalog[i].id)
  BY <1>1 DEF ReportsInv, ScanInv
<1>3. /\ Len(catalog) \in Nat /\ report.size <= Len(catalog)
      /\ DOMAIN catalog = 1..Len(catalog)
      /\ \A i \in DOMAIN catalog : /\ catalog[i].id \in AllIds /\ catalog[i].card \in Cards
                                   /\ catalog[i].card \in past.cards[catalog[i].id]
  <2>1. /\ Len(catalog) \in Nat /\ report.size <= Len(catalog) /\ DOMAIN catalog = 1..Len(catalog)
        /\ \A i \in DOMAIN catalog : catalog[i] \in Entries
    BY <1>1 DEF ReportsInv, ReportTypeOK, StartedInv, Step
  <2>2. \A i \in DOMAIN catalog : catalog[i].card \in past.cards[catalog[i].id]
    BY <1>1 DEF ReportsInv, RunningInv, Running, Step
  <2> QED
    BY <2>1, <2>2 DEF Entries
<1>4. NextRead(report) /\ report.endpoint = "search" /\ Len(report.plan) = 1
  <2>1. OnCourse(report)
    BY DEF Own, ReportsInv, RunningInv
  <2>2. NextRead(report)
    BY <2>1, Course
  <2> QED
    BY <1>1, <2>2 DEF NextRead, Follows, Step
<1>5. CASE Grown
  <2>1. report' = Failed(report) /\ Len(catalog) > report.size
    BY <1>1, <1>3, <1>5 DEF Scan, Grown
  <2> QED
    BY <1>4, <2>1, FailStep
<1>6. CASE ~ Grown /\ report.pos > report.size
  <2>1. PICK top : top = TopRows(report.rows, report.limit)
    OBVIOUS
  <2>2. PICK r : r = [report EXCEPT !.rows = top]
    OBVIOUS
  <2>3. report' = Advanced(r)
    BY <1>6, <2>1, <2>2 DEF Scan
  <2>4. IsReport(r)
    BY <1>1, <2>2, FieldSet
  <2>5. SameFields(r, report) /\ r.rows = top
    BY <1>1, <2>2 DEF SameFields, IsReport
  <2>6. /\ Settled' /\ Before' = Before
        /\ report'.stage = "done" /\ report'.endpoint = "search"
        /\ report'.rows = top /\ report'.limit = report.limit /\ report'.size = report.size
    BY <1>4, <2>3, <2>4, <2>5, AdvanceStep
  <2>7. IsRows(report.rows, SearchRows)
    BY <1>2 DEF IsRows, SearchRows
  <2>8. top \in Seq(SearchRows) /\ IsTop(top, report.rows, report.limit)
    BY <1>1, <2>1, <2>7, TopRowsAreTheBest
  <2>9. /\ \A p \in DOMAIN top : \E i \in DOMAIN report.rows : top[p] = report.rows[i]
        /\ \A i \in DOMAIN report.rows :
              \/ \E p \in DOMAIN top : top[p] = report.rows[i]
              \/ Len(top) = report.limit /\ \A p \in DOMAIN top : top[p].score >= report.rows[i].score
    BY <2>8 DEF IsTop
  <2>10. \A row \in ToSet(top) : \E c \in past.cards[row.id] : c.score = row.score
    BY <1>2, <2>9 DEF ToSet
  <2>11. ASSUME NEW id \in Before
         PROVE  \/ \E row \in ToSet(top) : row.id = id
                \/ \E c \in past.cards[id] :
                      \/ c.score = 0
                      \/ Len(top) = report.limit /\ \A row \in ToSet(top) : row.score >= c.score
    <3>1. PICK i \in 1..report.size : catalog[i].id = id
      BY <1>1, BeforeIs DEF ReportsInv, Step
    <3>2. Looked(id)
      <4>1. i < report.pos
        BY <1>1, <1>6
      <4> QED
        BY <1>2, <3>1, <4>1
    <3>3. CASE \E c \in past.cards[id] : c.score = 0
      BY <3>3
    <3>4. CASE \E j \in DOMAIN report.rows : report.rows[j].id = id
      <4>1. PICK j \in DOMAIN report.rows : report.rows[j].id = id
        BY <3>4
      <4>2. CASE \E p \in DOMAIN top : top[p] = report.rows[j]
        BY <4>1, <4>2 DEF ToSet
      <4>3. CASE Len(top) = report.limit /\ \A p \in DOMAIN top : top[p].score >= report.rows[j].score
        <5>1. PICK c \in past.cards[id] : c.score = report.rows[j].score
          BY <1>2, <4>1
        <5>2. \A row \in ToSet(top) : row.score >= c.score
          BY <4>3, <5>1 DEF ToSet
        <5> QED
          BY <4>3, <5>2
      <4> QED
        BY <2>9, <4>2, <4>3
    <3> QED
      BY <3>2, <3>3, <3>4 DEF Looked
  <2>12. CatalogSearchIsWhole'
    BY <1>1, <2>6, <2>10, <2>11 DEF CatalogSearchIsWhole, ToSet
  <2> QED
    BY <2>6, <2>12
    DEF ReportsInv, Settled, ScanInv, ResolveInv, RowsInv, OpenInv, ToldInv, Running, Step, StewardAnswered,
        ReportFailsForCause
<1>7. CASE ~ Grown /\ ~ (report.pos > report.size)
  <2>1. PICK k \in DOMAIN catalog : k = report.pos /\ k \in 1..report.size
    BY <1>1, <1>2, <1>3, <1>7
  <2>2. PICK rows : rows = report.rows \o Matching(catalog[k])
    OBVIOUS
  <2>3. PICK id \in AllIds, card \in Cards : id = catalog[k].id /\ card = catalog[k].card /\ card \in past.cards[id]
    BY <1>3
  <2>4. card.score \in Nat
    BY ReportsAssumption
  <2>5. PICK row : row = [id |-> id, score |-> card.score]
    OBVIOUS
  <2>6. row \in SearchRows /\ row.id = id /\ row.score = card.score
    BY <2>4, <2>5 DEF SearchRows
  <2>7. /\ rows \in Seq(SearchRows)
        /\ \A i \in DOMAIN rows : rows[i] = row \/ (i \in DOMAIN report.rows /\ rows[i] = report.rows[i])
        /\ \A i \in DOMAIN report.rows : i \in DOMAIN rows /\ rows[i] = report.rows[i]
        /\ card.score # 0 => \E i \in DOMAIN rows : rows[i] = row
    <3>1. CASE card.score = 0
      <4>1. Matching(catalog[k]) = <<>>
        BY <2>3, <3>1 DEF Matching
      <4>2. rows = report.rows
        BY <1>2, <2>2, <4>1
      <4> QED
        BY <1>2, <3>1, <4>2
    <3>2. CASE card.score # 0
      <4>1. Matching(catalog[k]) = <<row>>
        BY <2>3, <2>5, <3>2 DEF Matching
      <4>2. rows = Append(report.rows, row)
        BY <1>2, <2>2, <2>6, <4>1
      <4>3. /\ rows \in Seq(SearchRows)
            /\ \A i \in DOMAIN report.rows : i \in DOMAIN rows /\ rows[i] = report.rows[i]
            /\ Len(report.rows) + 1 \in DOMAIN rows
            /\ rows[Len(report.rows) + 1] = row
            /\ \A i \in DOMAIN rows : i \in DOMAIN report.rows \/ i = Len(report.rows) + 1
        BY <1>2, <2>6, <4>2, AppendExtends
      <4> QED
        BY <4>3
    <3> QED
      BY <3>1, <3>2
  <2>8. PICK mid : mid = [report EXCEPT !.pos = report.pos + 1]
    OBVIOUS
  <2>9. PICK r : r = [mid EXCEPT !.rows = rows]
    OBVIOUS
  <2>10. report' = r
    BY <1>1, <1>7, <2>1, <2>2, <2>8, <2>9 DEF Scan
  <2>11. IsReport(mid)
    <3>1. PICK v : v = report.pos + 1
      OBVIOUS
    <3> QED
      BY <1>1, <2>8, <3>1, FieldSet
  <2>12. IsReport(r)
    BY <2>9, <2>11, FieldSet
  <2>13. SameFields(mid, report) /\ mid.pos = report.pos + 1 /\ mid.stage = "run"
    BY <1>1, <2>8 DEF SameFields, IsReport, Step
  <2>14. SameFields(r, report) /\ r.pos = report.pos + 1 /\ r.stage = "run" /\ r.rows = rows
    BY <2>9, <2>11, <2>13 DEF SameFields, IsReport
  <2>15. /\ Settled' /\ report'.stage = "run" /\ Head(report'.plan) = "scan" /\ report'.size = report.size
         /\ report'.pos = report.pos + 1 /\ report'.rows = rows
    <3>1. r.pos \in Nat
      BY <1>1, <2>14
    <3> QED
      BY <1>1, <2>10, <2>12, <2>14, <3>1, StayStep DEF Step
  <2>16. \A i \in DOMAIN rows : \E c \in past.cards[rows[i].id] : c.score = rows[i].score
    BY <1>2, <2>3, <2>6, <2>7
  <2>17. ASSUME NEW i \in 1..report.size, i < report.pos + 1
         PROVE  Looked(catalog[i].id)'
    <3>1. catalog' = catalog /\ past' = past
      BY <1>1
    <3>2. CASE i = k
      <4>1. CASE card.score = 0
        BY <2>3, <3>1, <3>2, <4>1 DEF Looked
      <4>2. CASE card.score # 0
        <5>1. PICK j \in DOMAIN rows : rows[j] = row
          BY <2>7, <4>2
        <5>2. rows[j].id = catalog[i].id
          BY <2>3, <2>6, <3>2, <5>1
        <5> QED
          BY <2>15, <3>1, <5>2 DEF Looked
      <4> QED
        BY <4>1, <4>2
    <3>3. CASE i # k
      <4>1. i < report.pos
        BY <1>1, <2>1, <2>17, <3>3
      <4>2. Looked(catalog[i].id)
        BY <1>2, <4>1
      <4>3. (\E j \in DOMAIN report.rows : report.rows[j].id = catalog[i].id)
            => \E j \in DOMAIN rows : rows[j].id = catalog[i].id
        BY <2>7
      <4> QED
        BY <2>15, <3>1, <4>2, <4>3 DEF Looked
    <3> QED
      BY <3>2, <3>3
  <2>18. ScanInv'
    <3>1. 1 <= report.pos + 1 /\ report.pos + 1 <= report.size + 1
      BY <1>1, <1>2, <1>7
    <3> QED
      BY <1>1, <2>7, <2>15, <2>16, <2>17, <3>1 DEF ScanInv
  <2> QED
    BY <2>15, <2>18
    DEF ReportsInv, Settled, ResolveInv, RowsInv, OpenInv, ToldInv, Running, Step, StewardAnswered, Late,
        CatalogSearchIsWhole, Answered, ReportFailsForCause
<1> QED
  BY <1>5, <1>6, <1>7

\* The term resolution looks seed datasets up.
LEMMA ResolveStep == ASSUME Own, Resolve PROVE ReportsInv'
<1>1. ReportsInv /\ Step("resolve") /\ IsReport(report) /\ report.pos \in Nat
  BY DEF Own, Resolve, ReportsInv, ReportTypeOK
<1>2. report.todo \in Seq({c \in Concepts : Indexed(c) # {}})
  BY <1>1 DEF ReportsInv, ResolveInv
<1>3. NextRead(report) /\ report.endpoint = "resolve" /\ Len(report.plan) = 1
  <2>1. OnCourse(report)
    BY DEF Own, ReportsInv, RunningInv
  <2>2. NextRead(report)
    BY <2>1, Course
  <2> QED
    BY <1>1, <2>2 DEF NextRead, Follows, Step
<1>4. CASE report.todo = <<>>
  <2>1. report' = Advanced(report) /\ SameFields(report, report)
    BY <1>4 DEF Resolve, SameFields
  <2>2. Settled' /\ report'.stage = "done" /\ report'.endpoint = "resolve"
    BY <1>1, <1>3, <2>1, AdvanceStep
  <2> QED
    BY <2>2
    DEF ReportsInv, Settled, ScanInv, ResolveInv, RowsInv, OpenInv, ToldInv, Running, Step, StewardAnswered,
        CatalogSearchIsWhole, Answered, ReportFailsForCause
<1>5. CASE report.todo # <<>>
  <2> DEFINE S == {c \in Concepts : Indexed(c) # {}}
  <2>1. Head(report.todo) \in S /\ Tail(report.todo) \in Seq(S)
    <3>1. report.todo \in Seq(S)
      BY <1>2
    <3> HIDE DEF S
    <3> QED
      BY <1>5, <3>1
  <2>2. FirstIndexed(Head(report.todo)) \in CardIds
    BY <1>1, <2>1, FirstIndexedIsThere DEF ReportsInv
  <2>3. PICK todo \in Seq(S) : todo = Tail(report.todo)
    BY <2>1
  <2>4. PICK rows : rows = Append(report.rows, [concept |-> Head(report.todo),
                                                terms |-> CardOf(FirstIndexed(Head(report.todo))).terms])
    OBVIOUS
  <2>5. PICK mid : mid = [report EXCEPT !.todo = todo]
    OBVIOUS
  <2>6. PICK r : r = [mid EXCEPT !.rows = rows]
    OBVIOUS
  <2>7. report' = r
    <3>1. report' = [report EXCEPT !.todo = Tail(report.todo),
                                   !.rows = Append(report.rows, [concept |-> Head(report.todo),
                                                terms |-> CardOf(FirstIndexed(Head(report.todo))).terms])]
      BY <1>5, <2>2 DEF Resolve
    <3> QED
      BY <2>3, <2>4, <2>5, <2>6, <3>1
  <2>8. IsReport(mid) /\ IsReport(r)
    BY <1>1, <2>5, <2>6, FieldSet
  <2>9. SameFields(mid, report) /\ mid.pos = report.pos /\ mid.stage = "run" /\ mid.todo = todo
    BY <1>1, <2>5 DEF SameFields, IsReport, Step
  <2>10. SameFields(r, report) /\ r.pos = report.pos /\ r.stage = "run" /\ r.todo = todo
    BY <2>6, <2>8, <2>9 DEF SameFields, IsReport
  <2>11. Settled' /\ report'.stage = "run" /\ Head(report'.plan) = "resolve" /\ report'.todo = todo
    BY <1>1, <2>7, <2>8, <2>10, StayStep DEF Step
  <2>12. ResolveInv'
    BY <2>11 DEF ResolveInv, Indexed
  <2> QED
    BY <2>11, <2>12
    DEF ReportsInv, Settled, ScanInv, RowsInv, OpenInv, ToldInv, Running, Step, StewardAnswered, Late,
        CatalogSearchIsWhole, Answered, ReportFailsForCause
<1> QED
  BY <1>4, <1>5

\* The ids of the catalog are copied.
LEMMA ListStep == ASSUME Own, List PROVE ReportsInv'
<1>1. ReportsInv /\ Step("list") /\ IsReport(report) /\ UNCHANGED <<catalog, past>>
  BY DEF Own, List, ReportsInv, ReportTypeOK
<1>2. PICK todo : todo = [i \in DOMAIN catalog |-> catalog[i].id]
  OBVIOUS
<1>3. /\ Len(catalog) \in Nat /\ DOMAIN catalog = 1..Len(catalog)
      /\ \A i \in DOMAIN catalog : catalog[i].id \in AllIds
  <2>1. /\ Len(catalog) \in Nat /\ DOMAIN catalog = 1..Len(catalog)
        /\ \A i \in DOMAIN catalog : catalog[i] \in Entries
    BY <1>1 DEF ReportsInv, ReportTypeOK
  <2> QED
    BY <2>1 DEF Entries
<1>4. /\ todo \in Seq(AllIds) /\ DOMAIN todo = DOMAIN catalog
      /\ \A i \in DOMAIN catalog : todo[i] = catalog[i].id
  BY <1>2, <1>3
<1>5. PICK mid : mid = [report EXCEPT !.todo = todo]
  OBVIOUS
<1>6. PICK r : r = [mid EXCEPT !.rows = <<>>]
  OBVIOUS
<1>7. report' = Advanced(r)
  BY <1>2, <1>5, <1>6 DEF List
<1>8. IsReport(mid) /\ IsReport(r)
  BY <1>1, <1>5, <1>6, FieldSet
<1>9. SameFields(mid, report) /\ mid.todo = todo /\ mid.open = report.open
  BY <1>1, <1>5 DEF SameFields, IsReport
<1>10. SameFields(r, report) /\ r.todo = todo /\ r.open = report.open /\ r.rows = <<>>
  BY <1>6, <1>8, <1>9 DEF SameFields, IsReport
<1>11. /\ Settled' /\ Before' = Before /\ NextRead(report)
       /\ report'.stage = IF Len(report.plan) = 1 THEN "done" ELSE "run"
       /\ Head(report'.plan) = Head(Tail(report.plan))
       /\ report'.todo = todo /\ report'.rows = <<>> /\ report'.open = report.open
  BY <1>7, <1>8, <1>10, AdvanceStep
<1>12. report'.stage = "run" /\ Head(report'.plan) = "validate" /\ report.open = <<>>
  BY <1>1, <1>11 DEF NextRead, Follows, Step, ReportsInv, RowsInv
<1>13. \A id \in Before : \E i \in DOMAIN todo : todo[i] = id
  BY <1>1, <1>4, BeforeIs DEF ReportsInv, Step
<1>14. \A i \in DOMAIN todo : todo[i] \in CardIds'
  BY <1>1, <1>4 DEF CardIds
<1>15. RowsInv'
  <2>1. <<>> \in Seq(VerdictRows) /\ DOMAIN <<>> = {}
    OBVIOUS
  <2> QED
    BY <1>4, <1>11, <1>12, <1>13, <1>14, <2>1 DEF RowsInv, Step
<1> QED
  BY <1>11, <1>12, <1>15
  DEF ReportsInv, Settled, ScanInv, ResolveInv, OpenInv, ToldInv, Running, Step, StewardAnswered, Late,
      CatalogSearchIsWhole, Answered, ReportFailsForCause

\* A dataset is validated, or the validation is summed up.
LEMMA ValidateStep == ASSUME Own, Validate PROVE ReportsInv'
<1>1. /\ ReportsInv /\ Step("validate") /\ IsReport(report) /\ UNCHANGED <<catalog, past>>
      /\ report.pos \in Nat /\ ReportTypeOK /\ CatalogInv /\ RunningInv /\ Running
  BY DEF Own, Validate, ReportsInv, ReportTypeOK
<1>2. /\ report.rows \in Seq(VerdictRows) /\ report.open = <<>> /\ report.todo \in Seq(AllIds)
      /\ \A i \in DOMAIN report.rows : ToldOf(report.rows[i])
      /\ \A i \in DOMAIN report.todo : report.todo[i] \in CardIds
      /\ \A id \in Before : HasRow(id) \/ \E i \in DOMAIN report.todo : report.todo[i] = id
  BY <1>1 DEF ReportsInv, RowsInv
<1>3. CASE report.todo = <<>>
  <2>1. PICK rate : rate = PassRate(report.rows)
    OBVIOUS
  <2>2. PICK shacl : shacl = IF "list" \in ToSet(report.plan) \/ report.endpoint # "pack"
                             THEN PassRate(report.rows) ELSE report.shacl
    OBVIOUS
  <2>3. PICK mid : mid = [report EXCEPT !.pass_rate = rate]
    OBVIOUS
  <2>4. PICK r : r = [mid EXCEPT !.shacl = shacl]
    OBVIOUS
  <2>5. Summarised(report) = r
    BY <2>1, <2>2, <2>3, <2>4 DEF Summarised
  <2>6. report' = Advanced(r)
    BY <1>3, <2>5 DEF Validate
  <2>7. IsReport(mid) /\ IsReport(r)
    BY <1>1, <2>3, <2>4, FieldSet
  <2>8. SameFields(mid, report) /\ mid.rows = report.rows /\ mid.open = report.open
    BY <1>1, <2>3 DEF SameFields, IsReport
  <2>9. SameFields(r, report) /\ r.rows = report.rows /\ r.open = report.open
    BY <2>4, <2>7, <2>8 DEF SameFields, IsReport
  <2>10. /\ Settled' /\ Before' = Before /\ NextRead(report)
         /\ report'.stage = IF Len(report.plan) = 1 THEN "done" ELSE "run"
         /\ Head(report'.plan) = Head(Tail(report.plan)) /\ report'.endpoint = report.endpoint
         /\ report'.pos = 1 /\ report'.rows = report.rows /\ report'.open = <<>>
    BY <1>2, <2>6, <2>7, <2>9, AdvanceStep
  <2>11. \/ report'.stage = "done" /\ report'.endpoint = "shacl"
         \/ report'.stage = "run" /\ Head(report'.plan) \in {"list", "patches"}
    BY <1>1, <2>10 DEF NextRead, Follows, Step
  <2>12. \A id \in Before : HasRow(id)
    BY <1>2, <1>3
  <2>13. RowsInv'
    <3>1. \A i \in DOMAIN report.rows : ToldOf(report.rows[i])'
      BY <1>1, <1>2, <2>10 DEF ToldOf, conforms
    <3>2. \A id \in Before' : HasRow(id)'
      BY <2>10, <2>12 DEF HasRow
    <3> QED
      BY <1>2, <2>10, <2>11, <3>1, <3>2 DEF RowsInv, Step
  <2>14. OpenInv'
    <3>1. <<>> \in Seq(Nat) /\ DOMAIN <<>> = {} /\ ToSet(<<>>) = {}
      BY DEF ToSet
    <3>2. ASSUME NEW p \in past'.open \cap Open' PROVE ~ (p < 1)
      <4>1. p \in 1..past'.patches /\ past'.patches \in Nat
        BY <2>10, <2>11 DEF Settled, StartedInv, ReportTypeOK
      <4> QED
        BY <4>1
    <3> QED
      BY <2>10, <3>1, <3>2 DEF OpenInv, ToSet
  <2> QED
    BY <2>10, <2>11, <2>13, <2>14
    DEF ReportsInv, Settled, ScanInv, ResolveInv, ToldInv, Running, Step, StewardAnswered, Late,
        CatalogSearchIsWhole, Answered, ReportFailsForCause
<1>4. CASE report.todo # <<>>
  <2>1. PICK id \in CardIds : id = Head(report.todo)
    <3>1. 1 \in DOMAIN report.todo /\ Head(report.todo) = report.todo[1]
      BY <1>2, <1>4
    <3> QED
      BY <1>2, <3>1
  <2>2. PICK todo \in Seq(AllIds) : todo = Tail(report.todo)
    <3>1. report.todo \in Seq(AllIds)
      BY <1>2
    <3>2. Tail(report.todo) \in Seq(AllIds)
      BY <1>4, <3>1
    <3> QED
      BY <3>2
  <2>3. /\ \A i \in DOMAIN todo : i + 1 \in DOMAIN report.todo /\ todo[i] = report.todo[i + 1]
        /\ \A i \in DOMAIN report.todo : report.todo[i] = id \/ \E j \in DOMAIN todo : todo[j] = report.todo[i]
    <3>1. /\ Len(report.todo) \in Nat /\ Len(report.todo) # 0 /\ DOMAIN report.todo = 1..Len(report.todo)
          /\ Len(todo) = Len(report.todo) - 1 /\ DOMAIN todo = 1..(Len(report.todo) - 1)
          /\ \A i \in 1..(Len(report.todo) - 1) : todo[i] = report.todo[i + 1]
          /\ id = report.todo[1]
      BY <1>2, <1>4, <2>1, <2>2
    <3>2. ASSUME NEW i \in DOMAIN report.todo, i # 1 PROVE \E j \in DOMAIN todo : todo[j] = report.todo[i]
      <4>1. i - 1 \in DOMAIN todo /\ (i - 1) + 1 = i
        BY <3>1, <3>2
      <4>2. todo[i - 1] = report.todo[i]
        BY <3>1, <4>1
      <4> QED
        BY <4>1, <4>2
    <3>3. ASSUME NEW i \in DOMAIN todo PROVE i + 1 \in DOMAIN report.todo /\ todo[i] = report.todo[i + 1]
      BY <3>1
    <3> QED
      BY <3>1, <3>2, <3>3
  <2>4. PICK card \in Cards : card = CardOf(id) /\ card \in past.cards[id] /\ id \in AllIds
    BY <1>1, CardOfNoted
  <2>5. PICK verdict \in BOOLEAN : verdict = conforms(card)
    <3>1. card.valid \in BOOLEAN /\ card.approved \in Nat
      BY ReportsAssumption
    <3>2. conforms(card) \in BOOLEAN
      BY <3>1 DEF conforms
    <3> QED
      BY <3>2
  <2>6. PICK row : row = [id |-> id, conforms |-> verdict]
    OBVIOUS
  <2>7. row \in VerdictRows /\ row.id = id /\ row.conforms = verdict
    BY <2>4, <2>6 DEF VerdictRows
  <2>8. PICK rows : rows = Append(report.rows, row)
    OBVIOUS
  <2>9. /\ rows \in Seq(VerdictRows)
        /\ \A i \in DOMAIN report.rows : i \in DOMAIN rows /\ rows[i] = report.rows[i]
        /\ Len(report.rows) + 1 \in DOMAIN rows
        /\ rows[Len(report.rows) + 1] = row
        /\ \A i \in DOMAIN rows : i \in DOMAIN report.rows \/ i = Len(report.rows) + 1
    BY <1>2, <2>7, <2>8, AppendExtends
  <2>10. PICK mid : mid = [report EXCEPT !.todo = todo]
    OBVIOUS
  <2>11. PICK r : r = [mid EXCEPT !.rows = rows]
    OBVIOUS
  <2>12. report' = r
    <3>1. report' = [report EXCEPT !.todo = Tail(report.todo),
                                   !.rows = Append(report.rows, [id |-> id, conforms |-> conforms(CardOf(id))])]
      BY <1>4, <2>1 DEF Validate
    <3> QED
      BY <2>2, <2>4, <2>5, <2>6, <2>8, <2>10, <2>11, <3>1
  <2>13. IsReport(mid) /\ IsReport(r)
    BY <1>1, <2>10, <2>11, FieldSet
  <2>14. SameFields(mid, report) /\ mid.pos = report.pos /\ mid.stage = "run" /\ mid.todo = todo /\ mid.open = report.open
    BY <1>1, <2>10 DEF SameFields, IsReport, Step
  <2>15. /\ SameFields(r, report) /\ r.pos = report.pos /\ r.stage = "run" /\ r.todo = todo
         /\ r.open = report.open /\ r.rows = rows
    BY <2>11, <2>13, <2>14 DEF SameFields, IsReport
  <2>16. /\ Settled' /\ Before' = Before /\ report'.stage = "run" /\ Head(report'.plan) = "validate"
         /\ report'.todo = todo /\ report'.rows = rows /\ report'.open = <<>>
    BY <1>1, <1>2, <2>12, <2>13, <2>15, StayStep DEF Step
  <2>17. ToldOf(row)
    <3>1. CASE verdict = TRUE
      BY <2>4, <2>5, <2>7, <3>1 DEF ToldOf
    <3>2. CASE verdict = FALSE
      BY <2>4, <2>5, <2>7, <3>2 DEF ToldOf
    <3> QED
      BY <3>1, <3>2
  <2>18. ASSUME NEW i \in DOMAIN rows PROVE ToldOf(report.rows[i])'
    <3>1. ToldOf(rows[i])
      <4>1. CASE i \in DOMAIN report.rows
        BY <1>2, <2>9, <4>1
      <4>2. CASE i = Len(report.rows) + 1
        BY <2>9, <2>17, <4>2
      <4> QED
        BY <2>9, <4>1, <4>2
    <3> QED
      BY <1>1, <2>16, <3>1 DEF ToldOf, conforms
  <2>19. \A i \in DOMAIN todo : todo[i] \in CardIds'
    <3>1. CardIds' = CardIds
      BY <1>1 DEF CardIds
    <3> QED
      BY <1>2, <2>3, <3>1
  <2>20. ASSUME NEW x \in Before
         PROVE  HasRow(x)' \/ \E i \in DOMAIN todo : todo[i] = x
    <3>1. HasRow(x) => HasRow(x)'
      BY <2>9, <2>16 DEF HasRow
    <3>2. x = id => HasRow(x)'
      BY <2>7, <2>9, <2>16 DEF HasRow
    <3> QED
      BY <1>2, <2>3, <3>1, <3>2
  <2>21. RowsInv'
    BY <2>9, <2>16, <2>18, <2>19, <2>20 DEF RowsInv, Step
  <2> QED
    BY <2>16, <2>21
    DEF ReportsInv, Settled, ScanInv, ResolveInv, OpenInv, ToldInv, Running, Step, StewardAnswered, Late,
        CatalogSearchIsWhole, Answered, ReportFailsForCause
<1> QED
  BY <1>3, <1>4

\* A list that grows with the positions names each patch once.
LEMMA NamedOnce ==
  ASSUME NEW s \in Seq(Nat), \A i, j \in DOMAIN s : i < j => s[i] < s[j]
  PROVE  Cardinality(ToSet(s)) = Len(s)
<1>1. Len(s) \in Nat /\ DOMAIN s = 1..Len(s) /\ \A i \in DOMAIN s : s[i] \in Nat
  OBVIOUS
<1> DEFINE T == ToSet(s)
           D == 1..Len(s)
<1>2. s \in [D -> T]
  BY <1>1 DEF ToSet
<1>3. ASSUME NEW i \in D, NEW j \in D, s[i] = s[j] PROVE i = j
  <2>1. CASE i < j
    BY <1>1, <1>3, <2>1
  <2>2. CASE j < i
    BY <1>1, <1>3, <2>2
  <2> QED
    BY <1>1, <2>1, <2>2
<1>4. \A e \in T : \E i \in D : s[i] = e
  BY <1>1 DEF ToSet
<1> HIDE DEF T
<1>5. s \in Bijection(D, T)
  BY <1>1, <1>2, <1>3, <1>4 DEF Bijection, Injection, IsInjective, Surjection
<1>6. ExistsBijection(D, T)
  BY <1>5 DEF ExistsBijection
<1>7. IsFiniteSet(D) /\ Cardinality(D) = Len(s)
  <2>1. 1 \in Int /\ Len(s) \in Int
    BY <1>1
  <2>2. /\ IsFiniteSet(1..Len(s))
        /\ Cardinality(1..Len(s)) = IF 1 > Len(s) THEN 0 ELSE Len(s) - 1 + 1
    BY <2>1, FS_Interval
  <2> QED
    BY <1>1, <2>2
<1> HIDE DEF D
<1>8. Cardinality(T) = Cardinality(D)
  BY <1>6, <1>7, FS_Bijection
<1> QED
  BY <1>7, <1>8 DEF T

\* A patch is dumped, or the queue is put together.
LEMMA PatchesStep == ASSUME Own, ListPatches PROVE ReportsInv'
<1>1. /\ ReportsInv /\ Step("patches") /\ IsReport(report) /\ UNCHANGED <<patches, catalog, past>>
      /\ report.pos \in Nat /\ ReportTypeOK /\ StartedInv /\ RunningInv /\ PatchesInv
  BY DEF Own, ListPatches, ReportsInv, ReportTypeOK, vars
<1>2. /\ report.rows \in Seq(VerdictRows)
      /\ \A i \in DOMAIN report.rows : ToldOf(report.rows[i])
      /\ \A id \in Before : HasRow(id)
  BY <1>1 DEF ReportsInv, RowsInv
<1>3. /\ 1 <= report.pos
      /\ report.open \in Seq(Nat)
      /\ \A i \in DOMAIN report.open : report.open[i] < report.pos
      /\ \A i, j \in DOMAIN report.open : i < j => report.open[i] < report.open[j]
      /\ ToSet(report.open) \subseteq past.open \cup (past.patches + 1)..Len(patches)
      /\ \A p \in past.open \cap Open : p < report.pos => p \in ToSet(report.open)
  BY <1>1 DEF ReportsInv, OpenInv
<1>4. /\ Len(patches) \in Nat /\ DOMAIN patches = 1..Len(patches) /\ past.patches \in Nat
      /\ Open \subseteq DOMAIN patches
  BY <1>1 DEF PatchesInv, ReviewTypeOK, ReportTypeOK, Open
<1>5. CASE PatchesEnd
  <2>1. PICK ready : ready = HandoffReady(report)
    OBVIOUS
  <2>2. PICK r : r = [report EXCEPT !.ready = ready]
    OBVIOUS
  <2>3. report' = Advanced(r)
    BY <1>5, <2>1, <2>2 DEF ListPatches
  <2>4. IsReport(r)
    BY <1>1, <2>2, FieldSet
  <2>5. SameFields(r, report) /\ r.rows = report.rows /\ r.open = report.open /\ r.ready = ready
    BY <1>1, <2>2 DEF SameFields, IsReport
  <2>6. /\ Settled' /\ Before' = Before /\ Open' = Open /\ NextRead(report)
        /\ report'.stage = IF Len(report.plan) = 1 THEN "done" ELSE "run"
        /\ Head(report'.plan) = Head(Tail(report.plan)) /\ report'.endpoint = report.endpoint
        /\ report'.rows = report.rows /\ report'.open = report.open /\ report'.ready = ready
    BY <2>3, <2>4, <2>5, AdvanceStep
  <2>7. \/ report'.stage = "done" /\ report'.endpoint = "steward"
        \/ report'.stage = "run" /\ Head(report'.plan) \in Late
    BY <1>1, <2>6 DEF NextRead, Follows, Step
  <2>8. \A i \in DOMAIN report.rows : report.rows[i].id \in AllIds /\ report.rows[i].conforms \in BOOLEAN
    <3>1. \A i \in DOMAIN report.rows : report.rows[i] \in VerdictRows
      BY <1>2
    <3> QED
      BY <3>1 DEF VerdictRows
  <2>9. ASSUME NEW id \in Before, \A c \in past.cards[id] : ~ conforms(c)
        PROVE  id \in Unconforming(report.rows)
    <3>1. PICK i \in DOMAIN report.rows : report.rows[i].id = id
      BY <1>2 DEF HasRow
    <3>2. ~ report.rows[i].conforms
      BY <1>2, <2>9, <3>1 DEF ToldOf
    <3> QED
      BY <3>1, <3>2 DEF Unconforming
  <2>10. \A id \in Unconforming(report.rows) : id \in AllIds /\ \E c \in past.cards[id] : ~ conforms(c)
    BY <1>2, <2>8 DEF Unconforming, ToldOf
  <2>11. past.open \cap Open \subseteq ToSet(report.open)
    <3> SUFFICES ASSUME NEW p \in past.open \cap Open PROVE p \in ToSet(report.open)
      OBVIOUS
    <3>1. p < report.pos
      BY <1>1, <1>4, <1>5 DEF PatchesEnd
    <3> QED
      BY <1>3, <3>1
  <2>12. Cardinality(ToSet(report.open)) = Len(report.open)
    BY <1>3, NamedOnce
  <2>13. ready => HandoffEarned
    <3> SUFFICES ASSUME ready PROVE HandoffEarned
      OBVIOUS
    <3>1. Unconforming(report.rows) = {} /\ report.open = <<>>
      BY <2>1 DEF HandoffReady
    <3>2. Before # {}
      <4>1. 1 \in 1..report.size
        BY <1>1 DEF ReportTypeOK, StartedInv, Step
      <4> QED
        BY <1>1, <4>1, BeforeIs DEF Step
    <3>3. ASSUME NEW id \in Before PROVE \E c \in past.cards[id] : conforms(c)
      <4>1. PICK i \in DOMAIN report.rows : report.rows[i].id = id
        BY <1>2 DEF HasRow
      <4>2. report.rows[i].conforms
        BY <3>1, <4>1 DEF Unconforming
      <4> QED
        BY <1>2, <4>1, <4>2 DEF ToldOf
    <3>4. past.open \cap Open = {}
      <4>1. ToSet(report.open) = {}
        BY <3>1 DEF ToSet
      <4> QED
        BY <2>11, <4>1
    <3> QED
      BY <3>2, <3>3, <3>4 DEF HandoffEarned
  <2>14. Told'
    <3>1. HandoffEarned => HandoffEarned'
      BY <1>1, <2>6 DEF HandoffEarned, conforms
    <3>2. /\ Before' = Before /\ Open' = Open /\ past' = past /\ patches' = patches /\ report'.ready = ready
          /\ Unconforming(report.rows)' = Unconforming(report.rows) /\ ToSet(report.open)' = ToSet(report.open)
          /\ report'.open = report.open
      BY <1>1, <2>6 DEF Unconforming, ToSet
    <3>3. \A id \in Before' : (\A c \in past'.cards[id] : ~ conforms(c)) => id \in Unconforming(report.rows)'
      BY <2>9, <3>2
    <3>4. \A id \in Unconforming(report.rows)' : \E c \in past'.cards[id] : ~ conforms(c)
      BY <2>10, <3>2
    <3>5. (past.open \cap Open \subseteq ToSet(report.open))'
      BY <2>11, <3>2
    <3>6. (ToSet(report.open) \subseteq past.open \cup (past.patches + 1)..Len(patches))'
      BY <1>3, <3>2
    <3>7. (Cardinality(ToSet(report.open)) = Len(report.open))'
      BY <2>12, <3>2
    <3>8. (report.ready => HandoffEarned)'
      BY <2>13, <3>1, <3>2
    <3>9. (Unconforming(report.rows) \subseteq AllIds)'
      BY <2>10, <3>2 DEF AllIds
    <3> QED
      BY <3>3, <3>4, <3>5, <3>6, <3>7, <3>8, <3>9 DEF Told, conforms
  <2> QED
    BY <2>6, <2>7, <2>14
    DEF ReportsInv, Settled, ScanInv, ResolveInv, RowsInv, OpenInv, ToldInv, Running, Step, StewardAnswered, Late,
        CatalogSearchIsWhole, Answered, ReportFailsForCause
<1>6. CASE ~ PatchesEnd
  <2>1. PICK k \in DOMAIN patches : k = report.pos
    BY <1>1, <1>3, <1>4, <1>6 DEF PatchesEnd
  <2>2. k \in Nat
    BY <1>1, <2>1
  <2>3. PICK open : open = IF patches[k].status = "proposed" THEN Append(report.open, k) ELSE report.open
    OBVIOUS
  <2>4. PICK mid : mid = [report EXCEPT !.pos = report.pos + 1]
    OBVIOUS
  <2>5. PICK r : r = [mid EXCEPT !.open = open]
    OBVIOUS
  <2>6. report' = r
    BY <1>6, <2>1, <2>3, <2>4, <2>5 DEF ListPatches
  <2>7. IsReport(mid)
    <3>1. PICK v : v = report.pos + 1
      OBVIOUS
    <3> QED
      BY <1>1, <2>4, <3>1, FieldSet
  <2>8. IsReport(r)
    BY <2>5, <2>7, FieldSet
  <2>9. SameFields(mid, report) /\ mid.pos = report.pos + 1 /\ mid.stage = "run" /\ mid.rows = report.rows
    BY <1>1, <2>4 DEF SameFields, IsReport, Step
  <2>10. SameFields(r, report) /\ r.pos = report.pos + 1 /\ r.stage = "run" /\ r.rows = report.rows /\ r.open = open
    BY <2>5, <2>7, <2>9 DEF SameFields, IsReport
  <2>11. /\ Settled' /\ Before' = Before /\ Open' = Open /\ report'.stage = "run" /\ Head(report'.plan) = "patches"
         /\ report'.pos = report.pos + 1 /\ report'.rows = report.rows /\ report'.open = open
    <3>1. r.pos \in Nat
      BY <1>1, <2>10
    <3> QED
      BY <1>1, <2>6, <2>8, <2>10, <3>1, StayStep DEF Step
  <2>12. RowsInv'
    <3>1. \A i \in DOMAIN report.rows : ToldOf(report.rows[i])'
      BY <1>1, <1>2, <2>11 DEF ToldOf, conforms
    <3>2. \A id \in Before' : HasRow(id)'
      BY <1>2, <2>11 DEF HasRow
    <3> QED
      BY <1>2, <2>11, <3>1, <3>2 DEF RowsInv, Step
  <2>13. /\ open \in Seq(Nat)
         /\ \A i \in DOMAIN open : open[i] < report.pos + 1
         /\ \A i, j \in DOMAIN open : i < j => open[i] < open[j]
         /\ ToSet(open) = ToSet(report.open) \cup (IF k \in Open THEN {k} ELSE {})
    <3>1. k \in Open <=> patches[k].status = "proposed"
      BY DEF Open
    <3>2. CASE k \notin Open
      <4>1. open = report.open
        BY <2>3, <3>1, <3>2
      <4>2. \A i \in DOMAIN report.open : report.open[i] \in Nat
        BY <1>3
      <4>3. \A i \in DOMAIN report.open : report.open[i] < report.pos + 1
        BY <1>1, <1>3, <4>2
      <4> QED
        BY <1>3, <3>2, <4>1, <4>3 DEF ToSet
    <3>3. CASE k \in Open
      <4>1. open = Append(report.open, k)
        BY <2>3, <3>1, <3>3
      <4>2. /\ Len(report.open) \in Nat /\ DOMAIN report.open = 1..Len(report.open)
            /\ \A i \in DOMAIN report.open : report.open[i] \in Nat
        BY <1>3
      <4>3. /\ open \in Seq(Nat)
            /\ \A i \in DOMAIN report.open : i \in DOMAIN open /\ open[i] = report.open[i]
            /\ Len(report.open) + 1 \in DOMAIN open
            /\ open[Len(report.open) + 1] = k
            /\ \A i \in DOMAIN open : i \in DOMAIN report.open \/ i = Len(report.open) + 1
        BY <1>3, <2>2, <4>1, AppendExtends
      <4>4. ASSUME NEW i \in DOMAIN open PROVE open[i] < report.pos + 1
        <5>1. CASE i \in DOMAIN report.open
          <6>1. open[i] = report.open[i] /\ report.open[i] \in Nat /\ report.open[i] < report.pos
            BY <1>3, <4>2, <4>3, <5>1
          <6> QED
            BY <1>1, <6>1
        <5>2. CASE i = Len(report.open) + 1
          <6>1. open[i] = report.pos
            BY <2>1, <4>3, <5>2
          <6> QED
            BY <1>1, <6>1
        <5> QED
          BY <4>3, <5>1, <5>2
      <4>5. ASSUME NEW i \in DOMAIN open, NEW j \in DOMAIN open, i < j PROVE open[i] < open[j]
        <5>1. i \in DOMAIN report.open
          <6>1. PICK n \in Nat : n = Len(report.open)
            BY <4>2
          <6>2. j \in 1..n \/ j = n + 1
            BY <4>2, <4>3, <6>1
          <6>3. i # n + 1
            BY <4>5, <6>2
          <6> QED
            BY <4>3, <6>1, <6>3
        <5>2. CASE j \in DOMAIN report.open
          BY <1>3, <4>3, <4>5, <5>1, <5>2
        <5>3. CASE j = Len(report.open) + 1
          BY <1>3, <2>1, <4>3, <5>1, <5>3
        <5> QED
          BY <4>3, <5>2, <5>3
      <4>6. ToSet(open) = ToSet(report.open) \cup {k}
        BY <4>3 DEF ToSet
      <4> QED
        BY <3>3, <4>3, <4>4, <4>5, <4>6
    <3> QED
      BY <3>2, <3>3
  <2>14. k \in Open => k \in past.open \cup (past.patches + 1)..Len(patches)
    <3> SUFFICES ASSUME k \in Open, k \notin past.open PROVE k \in (past.patches + 1)..Len(patches)
      OBVIOUS
    <3>1. ~ (k <= past.patches)
      BY <1>1 DEF RunningInv, Running, Step
    <3> QED
      BY <1>4, <2>2, <3>1
  <2>15. ASSUME NEW p \in past.open \cap Open, p < report.pos + 1 PROVE p \in ToSet(open)
    <3>1. p \in Nat
      BY <1>4
    <3>2. CASE p = k
      BY <2>13, <2>15, <3>2
    <3>3. CASE p # k
      <4>1. p < report.pos
        BY <1>1, <2>1, <2>15, <3>1, <3>3
      <4> QED
        BY <1>3, <2>13, <4>1
    <3> QED
      BY <3>2, <3>3
  <2>16. OpenInv'
    <3>1. ToSet(report.open)' = ToSet(open)
      BY <2>11 DEF ToSet
    <3>2. ToSet(open) \subseteq past.open \cup (past.patches + 1)..Len(patches)
      BY <1>3, <2>13, <2>14
    <3>3. 1 <= report.pos + 1
      BY <1>1
    <3> QED
      BY <1>1, <2>11, <2>13, <2>15, <3>1, <3>2, <3>3 DEF OpenInv
  <2> QED
    BY <2>11, <2>12, <2>16
    DEF ReportsInv, Settled, ScanInv, ResolveInv, ToldInv, Running, Step, StewardAnswered, Late,
        CatalogSearchIsWhole, Answered, ReportFailsForCause
<1> QED
  BY <1>5, <1>6

\* The numbers of an evidence pack come after its queue and leave it as it is.
LEMMA LateKeeps ==
  ASSUME Own, Head(report.plan) \in Late, NEW r, IsReport(r), SameFields(r, report),
         r.rows = report.rows, r.open = report.open, r.ready = report.ready, report' = Advanced(r)
  PROVE  ReportsInv'
<1>1. /\ Settled' /\ Before' = Before /\ Open' = Open /\ NextRead(report)
      /\ report'.stage = IF Len(report.plan) = 1 THEN "done" ELSE "run"
      /\ Head(report'.plan) = Head(Tail(report.plan)) /\ report'.endpoint = report.endpoint
      /\ report'.rows = report.rows /\ report'.open = report.open /\ report'.ready = report.ready
  BY AdvanceStep
<1>2. \/ report'.stage = "done" /\ report'.endpoint = "pack"
      \/ report'.stage = "run" /\ Head(report'.plan) \in Late
  BY <1>1 DEF NextRead, Follows
<1>3. Told
  BY DEF Own, ReportsInv, ToldInv
<1>4. Told'
  <2>1. /\ past' = past /\ patches' = patches
        /\ Unconforming(report.rows)' = Unconforming(report.rows) /\ ToSet(report.open)' = ToSet(report.open)
    BY <1>1 DEF Own, vars, Unconforming, ToSet
  <2>2. HandoffEarned' = HandoffEarned
    BY <1>1, <2>1 DEF HandoffEarned, conforms
  <2> QED
    BY <1>1, <1>3, <2>1, <2>2 DEF Told, conforms, AllIds
<1> QED
  BY <1>1, <1>2, <1>4
  DEF ReportsInv, Settled, ScanInv, ResolveInv, RowsInv, OpenInv, ToldInv, Running, Step, StewardAnswered, Late,
      CatalogSearchIsWhole, Answered, ReportFailsForCause

\* The pack asks the evidence store, which may raise.
LEMMA EvidenceStep == ASSUME Own, ReadEvidence PROVE ReportsInv'
<1>1. /\ IsReport(report) /\ NextRead(report)
      /\ Head(report.plan) \in {"events", "decisions"} /\ Head(report.plan) \in Late
  BY Course DEF Own, ReportsInv, ReportTypeOK, RunningInv, ReadEvidence, Step, Late
<1>2. CASE report' = Advanced(report)
  <2>1. PICK r : r = report
    OBVIOUS
  <2>2. IsReport(r) /\ SameFields(r, report) /\ report' = Advanced(r)
    BY <1>1, <1>2, <2>1 DEF SameFields
  <2> QED
    BY <1>1, <2>1, <2>2, LateKeeps
<1>3. CASE StoreMayFail /\ report' = Failed(report)
  <2>1. report.endpoint = "pack"
    BY <1>1 DEF NextRead, Follows
  <2> QED
    BY <1>1, <1>3, <2>1, FailStep
<1> QED
  BY <1>2, <1>3 DEF ReadEvidence

\* The rates and the gates of the pack.
LEMMA LateStep == ASSUME Own, Metadata \/ Coverage PROVE ReportsInv'
<1>1. IsReport(report)
  BY DEF Own, ReportsInv, ReportTypeOK
<1>2. CASE Step("metadata") /\ report' = Advanced([report EXCEPT !.metadata = metadata_validation_pass_rate])
  <2>1. PICK v : v = metadata_validation_pass_rate
    OBVIOUS
  <2>2. PICK r : r = [report EXCEPT !.metadata = v]
    OBVIOUS
  <2>3. /\ IsReport(r) /\ SameFields(r, report)
        /\ r.rows = report.rows /\ r.open = report.open /\ r.ready = report.ready
    BY <1>1, <2>2, FieldSet DEF SameFields, IsReport
  <2>4. report' = Advanced(r) /\ Head(report.plan) \in Late
    BY <1>2, <2>1, <2>2 DEF Step, Late
  <2> QED
    BY <2>3, <2>4, LateKeeps
<1>3. CASE Step("metadata_gate") /\ report' = Advanced([report EXCEPT !.metadata_gate = metadata_validation_pass_rate >= 950])
  <2>1. PICK v : v = (metadata_validation_pass_rate >= 950)
    OBVIOUS
  <2>2. PICK r : r = [report EXCEPT !.metadata_gate = v]
    OBVIOUS
  <2>3. /\ IsReport(r) /\ SameFields(r, report)
        /\ r.rows = report.rows /\ r.open = report.open /\ r.ready = report.ready
    BY <1>1, <2>2, FieldSet DEF SameFields, IsReport
  <2>4. report' = Advanced(r) /\ Head(report.plan) \in Late
    BY <1>3, <2>1, <2>2 DEF Step, Late
  <2> QED
    BY <2>3, <2>4, LateKeeps
<1>4. CASE Step("coverage") /\ report' = Advanced([report EXCEPT !.coverage = ontology_mapping_coverage])
  <2>1. PICK v : v = ontology_mapping_coverage
    OBVIOUS
  <2>2. PICK r : r = [report EXCEPT !.coverage = v]
    OBVIOUS
  <2>3. /\ IsReport(r) /\ SameFields(r, report)
        /\ r.rows = report.rows /\ r.open = report.open /\ r.ready = report.ready
    BY <1>1, <2>2, FieldSet DEF SameFields, IsReport
  <2>4. report' = Advanced(r) /\ Head(report.plan) \in Late
    BY <1>4, <2>1, <2>2 DEF Step, Late
  <2> QED
    BY <2>3, <2>4, LateKeeps
<1>5. CASE Step("coverage_gate") /\ report' = Advanced([report EXCEPT !.coverage_gate = CoverageGate])
  <2>1. PICK v : v = CoverageGate
    OBVIOUS
  <2>2. PICK r : r = [report EXCEPT !.coverage_gate = v]
    OBVIOUS
  <2>3. /\ IsReport(r) /\ SameFields(r, report)
        /\ r.rows = report.rows /\ r.open = report.open /\ r.ready = report.ready
    BY <1>1, <2>2, FieldSet DEF SameFields, IsReport
  <2>4. report' = Advanced(r) /\ Head(report.plan) \in Late
    BY <1>5, <2>1, <2>2 DEF Step, Late
  <2> QED
    BY <2>3, <2>4, LateKeeps
<1> QED
  BY <1>2, <1>3, <1>4, <1>5 DEF Metadata, Coverage

-----------------------------------------------------------------------------
(* The system *)

\* Nothing happens.
LEMMA ReportsStutter == ASSUME ReportsInv, UNCHANGED allVars PROVE ReportsInv'
<1>1. UNCHANGED <<vars, catalog, writes, report, past>>
  BY DEF allVars, reportVars
<1>2. PatchesInv'
  BY <1>1, PatchesNext DEF ReportsInv
<1>3. ReportTypeOK' /\ CatalogInv'
  BY <1>1 DEF ReportsInv, ReportTypeOK, IsReport, CatalogInv
<1>4. WorldStep
  <2>1. Len(catalog) \in Nat /\ Len(patches) \in Nat
    BY DEF ReportsInv, ReportTypeOK, PatchesInv, ReviewTypeOK
  <2>2. patches' = patches /\ Open' = Open
    BY <1>1 DEF vars, Open
  <2>3. Running => \A i \in DOMAIN catalog : catalog[i].card \in past.cards[catalog[i].id]
    BY DEF ReportsInv, RunningInv
  <2> QED
    BY <1>1, <2>1, <2>2, <2>3 DEF WorldStep
<1> QED
  BY <1>2, <1>3, <1>4, WorldKeeps

\* Every step keeps the invariant.
LEMMA ReportsStep == ReportsInv /\ [ReportsNext]_allVars => ReportsInv'
<1> SUFFICES ASSUME ReportsInv, [ReportsNext]_allVars PROVE ReportsInv'
  OBVIOUS
<1>1. CASE Report
  <2>1. Own
    BY <1>1 DEF Own, Running, Report, Scan, Resolve, List, Validate, ListPatches, ReadEvidence, Metadata, Coverage, Step
  <2> QED
    BY <1>1, <2>1, ScanStep, ResolveStep, ListStep, ValidateStep, PatchesStep, EvidenceStep, LateStep DEF Report
<1> QED
  BY <1>1, ReviewStep, RegisterStep, ReplaceStep, BeginStep, ReportsStutter DEF ReportsNext

\* Every reachable state of the catalog, the patches and a request that reads them
\* satisfies the invariant, whatever is registered, changed, proposed or reviewed
\* between two of its reads.
THEOREM ReportsAreInOrder == ReportsSpec => []ReportsInv
BY ReportsStart, ReportsStep, PTL DEF ReportsSpec

\* A search that answers passes over no dataset there was when it began, however the
\* catalog changes under its loop (sdp/catalog.py, search_catalog).
THEOREM CatalogSearchesAreWhole == ReportsSpec => []CatalogSearchIsWhole
<1>1. ReportsInv => CatalogSearchIsWhole
  BY DEF ReportsInv
<1> QED
  BY <1>1, ReportsAreInOrder, PTL

\* A search fails only when a dataset is registered under its loop, a pack only where it
\* asks an evidence store that raises (sdp/enterprise_evidence.py, by list_audit_events
\* and list_policy_decisions), and no other report fails: a look-up by an id read earlier
\* (sdp/ontology.py resolve_terms, sdp/semantic_validation.py) always finds its dataset.
THEOREM ReportsFailForCause == ReportsSpec => []ReportFailsForCause
<1>1. ReportsInv => ReportFailsForCause
  BY DEF ReportsInv
<1> QED
  BY <1>1, ReportsAreInOrder, PTL

\* The steward's queue (sdp/steward_review.py) has what was open all along, nothing that
\* never was, each patch once, and no hand-over while something was open all along.
THEOREM QueuesAreFaithful == ReportsSpec => []QueueIsFaithful
<1>1. ReportsInv => QueueIsFaithful
  BY DEF ReportsInv, ToldInv, Told, QueueIsFaithful
<1> QED
  BY <1>1, ReportsAreInOrder, PTL

\* Requests that read the patches, and changes of the catalog, leave the reviews alone:
\* seen through the patches, the system of the reports is that of the reviews, so a
\* verdict is signed and final there too.
THEOREM ReportsReviewPatches == ReportsSpec => Spec /\ []DecidedIsSigned /\ ConfirmedIsFinal
<1>1. ReportsInit => Init
  BY DEF ReportsInit
<1>2. [ReportsNext]_allVars => [Next]_vars
  BY DEF ReportsNext, Register, Replace, Begin, Report, allVars
<1>3. ReportsSpec => Spec
  BY <1>1, <1>2, PTL DEF ReportsSpec, Spec
<1> QED
  BY <1>3, VerdictsAreSigned, ConfirmedStaysFinal, PTL

-----------------------------------------------------------------------------
(* The evidence pack *)

\* The catalog is as it was when the request began.
Unmoved == writes = past.writes

AllConform == \A i \in DOMAIN catalog : conforms(catalog[i].card)

\* A row says of its dataset what is so.
Judged(row) ==
  \E j \in DOMAIN catalog : catalog[j].id = row.id /\ row.conforms = conforms(catalog[j].card)

\* What a pack r has, with k reads still to do, if the catalog is unmoved.
PackAt(r, k) ==
  /\ k \in {10, 8, 7} => \A i \in DOMAIN r.rows : Judged(r.rows[i])
  /\ k <= 9 /\ AllConform => r.shacl >= 950
  /\ k <= 6 /\ r.ready => AllConform
  /\ k <= 3 => r.metadata = metadata_validation_pass_rate
  /\ k <= 2 => r.coverage = ontology_mapping_coverage
  /\ k <= 1 => r.metadata_gate = (metadata_validation_pass_rate >= 950)
  /\ k <= 0 => r.coverage_gate = CoverageGate

PackInv ==
  /\ report.stage # "idle" => past.writes <= writes
  /\ report.stage # "idle" /\ Unmoved => report.size = Len(catalog)
  /\ Answered("pack") => report.plan = <<>>
  /\ report.stage \in {"run", "done"} /\ report.endpoint = "pack" /\ Unmoved =>
        PackAt(report, Len(report.plan))

-----------------------------------------------------------------------------
(* Rates *)

\* A number, in parts of 2000.
LEMMA Split ==
  ASSUME NEW j \in Nat
  PROVE  /\ j \div 2000 \in Nat /\ j % 2000 \in Nat /\ j % 2000 < 2000
         /\ j = 2000 * (j \div 2000) + (j % 2000)
<1>1. j \div 2000 \in Int /\ j % 2000 \in Int
  OBVIOUS
<1>2. j = 2000 * (j \div 2000) + (j % 2000)
  OBVIOUS
<1>3. 0 <= j % 2000 /\ j % 2000 < 2000
  OBVIOUS
<1>4. 0 <= j \div 2000
  BY <1>1, <1>2, <1>3
<1> QED BY <1>1, <1>2, <1>3, <1>4

\* All of some is a rate of at least 0.95 (it is 1).
LEMMA WholeRatio == ASSUME NEW n \in Nat, n # 0 PROVE ratio(n, n) >= 950
<1>1. PICK q : q = (2000 * n + n) \div (2 * n)
  OBVIOUS
<1>2. 2000 * n + n = 2001 * n /\ 2 * n \in Nat /\ 2 * n > 0
  OBVIOUS
<1>3. q \in Int /\ 2001 * n < (2 * n) * (q + 1)
  BY <1>1, <1>2
<1>4. q >= 950
  BY <1>3
<1> QED BY <1>1, <1>4 DEF ratio

\* _ratio rounds to three digits: a share of one in 2000 is not rounded away.
LEMMA SomeRatio == ASSUME NEW a \in Nat, NEW b \in Nat, b # 0, b <= 2000 * a PROVE ratio(a, b) > 0
<1>1. PICK q : q = (2000 * a + b) \div (2 * b)
  OBVIOUS
<1>2. q \in Int /\ 2000 * a + b < (2 * b) * (q + 1)
  BY <1>1
<1>3. q > 0
  BY <1>2
<1> QED BY <1>1, <1>3 DEF ratio

\* f counts something for each of n datasets.
Counts(f, n) == DOMAIN f = 1..n /\ \A i \in 1..n : f[i] \in Nat

\* There are finitely many mappings.
LEMMA PoolIsFinite ==
  ASSUME NEW n \in Nat, NEW f, Counts(f, n)
  PROVE  IsFiniteSet(Pooled(f))
<1>0. DOMAIN f = 1..n
  BY DEF Counts
<1> DEFINE Q == {{i} \X (1..f[i]) : i \in DOMAIN f}
           g == [i \in 1..n |-> {i} \X (1..f[i])]
<1>1. IsFiniteSet(1..n)
  BY FS_Interval
<1>2. g \in Surjection(1..n, Q)
  BY <1>0 DEF Surjection
<1>3. IsFiniteSet(Q)
  BY <1>1, <1>2, FS_Surjection
<1>4. ASSUME NEW T \in Q PROVE IsFiniteSet(T)
  <2>1. PICK i \in 1..n : T = {i} \X (1..f[i])
    BY <1>0
  <2>2. PICK k \in Nat : k = f[i]
    BY DEF Counts
  <2>3. IsFiniteSet(1..k)
    BY FS_Interval
  <2>4. IsFiniteSet({i})
    BY FS_Singleton
  <2> QED
    BY <2>1, <2>2, <2>3, <2>4, FS_Product
<1> HIDE DEF Q
<1>5. IsFiniteSet(UNION Q)
  BY <1>3, <1>4, FS_UNION
<1> QED
  BY <1>5 DEF Pooled, Q

Parts == 0..1999

\* Of each dataset's mappings, one in 2000 is approved.
Shares(f, g, n) == \A i \in 1..n : g[i] <= 2000 * f[i]

\* So that one in 2000 of all mappings is.
LEMMA PoolsCompare ==
  ASSUME NEW n \in Nat, NEW f, NEW g, Counts(f, n), Counts(g, n), Shares(f, g, n)
  PROVE  Cardinality(Pooled(g)) <= 2000 * Cardinality(Pooled(f))
<1> DEFINE h == [x \in Pooled(g) |-> <<<<x[1], ((x[2] - 1) \div 2000) + 1>>, (x[2] - 1) % 2000>>]
           T == Pooled(f) \X Parts
<1>1. ASSUME NEW x \in Pooled(g)
      PROVE  \E i \in 1..n, j \in Nat : x = <<i, j + 1>> /\ j < g[i]
  <2>0. PICK i \in 1..n : \E k \in 1..g[i] : x = <<i, k>>
    BY DEF Pooled, Counts
  <2>1. PICK k \in 1..g[i] : x = <<i, k>>
    BY <2>0
  <2>2. g[i] \in Nat
    BY DEF Counts
  <2>3. k - 1 \in Nat /\ (k - 1) + 1 = k /\ k - 1 < g[i]
    BY <2>2
  <2> QED
    BY <2>1, <2>3
<1>2. ASSUME NEW i \in 1..n, NEW k \in 1..f[i] PROVE <<i, k>> \in Pooled(f)
  BY DEF Pooled, Counts
<1>3. ASSUME NEW i \in 1..n, NEW j \in Nat, <<i, j + 1>> \in Pooled(g)
      PROVE  h[<<i, j + 1>>] = <<<<i, (j \div 2000) + 1>>, j % 2000>>
  <2>1. PICK x : x = <<i, j + 1>>
    OBVIOUS
  <2>2. x \in Pooled(g) /\ x[1] = i /\ x[2] = j + 1 /\ (j + 1) - 1 = j
    BY <1>3, <2>1
  <2>3. h[x] = <<<<x[1], ((x[2] - 1) \div 2000) + 1>>, (x[2] - 1) % 2000>>
    BY <2>2
  <2> QED
    BY <2>1, <2>2, <2>3
<1>4. ASSUME NEW x \in Pooled(g) PROVE h[x] \in T
  <2>1. PICK i \in 1..n, j \in Nat : x = <<i, j + 1>> /\ j < g[i]
    BY <1>1
  <2>2. PICK q \in Nat, r \in Nat : q = j \div 2000 /\ r = j % 2000 /\ r < 2000 /\ j = 2000 * q + r
    BY Split
  <2>3. PICK a \in Nat : a = f[i] /\ j < 2000 * a
    <3>1. f[i] \in Nat /\ g[i] \in Nat /\ g[i] <= 2000 * f[i]
      BY DEF Counts, Shares
    <3> QED
      BY <2>1, <3>1
  <2>4. q + 1 \in 1..a /\ r \in Parts
    BY <2>2, <2>3 DEF Parts
  <2>5. h[x] = <<<<i, q + 1>>, r>>
    BY <1>3, <2>1, <2>2
  <2>6. <<i, q + 1>> \in Pooled(f)
    BY <1>2, <2>3, <2>4
  <2>7. PICK u \in Pooled(f) : u = <<i, q + 1>>
    BY <2>6
  <2>8. h[x] = <<u, r>>
    BY <2>5, <2>7
  <2> HIDE DEF h
  <2> QED
    BY <2>4, <2>8
<1>5. ASSUME NEW x \in Pooled(g), NEW y \in Pooled(g), h[x] = h[y] PROVE x = y
  <2>1. PICK i \in 1..n, j \in Nat : x = <<i, j + 1>> /\ j < g[i]
    BY <1>1
  <2>2. PICK k \in 1..n, l \in Nat : y = <<k, l + 1>> /\ l < g[k]
    BY <1>1
  <2>3. h[x] = <<<<i, (j \div 2000) + 1>>, j % 2000>> /\ h[y] = <<<<k, (l \div 2000) + 1>>, l % 2000>>
    BY <1>3, <2>1, <2>2
  <2>4. PICK q \in Nat, r \in Nat : q = j \div 2000 /\ r = j % 2000 /\ j = 2000 * q + r
    BY Split
  <2>5. PICK p \in Nat, s \in Nat : p = l \div 2000 /\ s = l % 2000 /\ l = 2000 * p + s
    BY Split
  <2>6. i = k /\ q + 1 = p + 1 /\ r = s
    <3>1. PICK u : u = <<i, q + 1>>
      OBVIOUS
    <3>2. PICK v : v = <<k, p + 1>>
      OBVIOUS
    <3>3. h[x] = <<u, r>> /\ h[y] = <<v, s>>
      BY <2>3, <2>4, <2>5, <3>1, <3>2
    <3> HIDE DEF h
    <3>4. <<u, r>> = <<v, s>>
      BY <1>5, <3>3
    <3>5. u = v /\ r = s
      BY <3>4
    <3> QED
      BY <3>1, <3>2, <3>5
  <2>7. j = l
    BY <2>4, <2>5, <2>6
  <2> QED
    BY <2>1, <2>2, <2>6, <2>7
<1>6. h \in [Pooled(g) -> T]
  <2>1. PICK fun : fun = h
    OBVIOUS
  <2>2. fun = [x \in Pooled(g) |-> fun[x]]
    BY <2>1
  <2>3. \A x \in Pooled(g) : fun[x] \in T
    <3> HIDE DEF h, T
    <3> QED
      BY <1>4, <2>1
  <2> HIDE DEF h, T
  <2>4. fun \in [Pooled(g) -> T]
    BY <2>2, <2>3
  <2> QED
    BY <2>1, <2>4
<1>7. h \in Injection(Pooled(g), T)
  <2> HIDE DEF h, T
  <2> QED
    BY <1>5, <1>6 DEF Injection, IsInjective
<1>8. IsFiniteSet(Pooled(f)) /\ Cardinality(Pooled(f)) \in Nat
  BY PoolIsFinite, FS_CardinalityType
<1>9. IsFiniteSet(Parts) /\ Cardinality(Parts) = 2000
  <2>1. PICK b \in Int : b = 1999
    OBVIOUS
  <2>2. IsFiniteSet(0..b) /\ Cardinality(0..b) = IF 0 > b THEN 0 ELSE b - 0 + 1
    BY FS_Interval
  <2> QED
    BY <2>1, <2>2 DEF Parts
<1>10. IsFiniteSet(T) /\ Cardinality(T) = Cardinality(Pooled(f)) * 2000
  BY <1>8, <1>9, FS_Product
<1>11. Cardinality(Pooled(g)) <= Cardinality(T)
  <2> HIDE DEF h, T
  <2> QED
    BY <1>7, <1>10, FS_Injection
<1> QED
  BY <1>8, <1>10, <1>11

\* How many there are from 1 to n.
LEMMA CountTo == ASSUME NEW n \in Nat PROVE Cardinality(1..n) = n
<1>1. Cardinality(1..n) = IF 1 > n THEN 0 ELSE n - 1 + 1
  BY FS_Interval
<1> QED
  BY <1>1

\* If all rows conform, the rate of a validation is high.
LEMMA AllPass ==
  ASSUME NEW rows \in Seq(VerdictRows), rows # <<>>, \A i \in DOMAIN rows : rows[i].conforms
  PROVE  PassRate(rows) >= 950
<1>1. PICK n \in Nat : n = Len(rows) /\ n # 0 /\ DOMAIN rows = 1..n
  OBVIOUS
<1>2. {i \in DOMAIN rows : rows[i].conforms} = 1..n
  BY <1>1
<1>3. Cardinality(1..n) = n
  BY <1>1, CountTo
<1>4. PassRate(rows) = ratio(n, n)
  BY <1>1, <1>2, <1>3 DEF PassRate, CountIf
<1> QED
  BY <1>1, <1>4, WholeRatio

\* If all datasets conform, none has a gap in its metadata.
LEMMA AllValid ==
  ASSUME ReportTypeOK, catalog # <<>>, AllConform
  PROVE  metadata_validation_pass_rate >= 950
<1>1. PICK n \in Nat : n = Len(catalog) /\ n # 0 /\ DOMAIN catalog = 1..n
  BY DEF ReportTypeOK
<1>2. {i \in DOMAIN catalog : catalog[i].card.valid} = 1..n
  BY <1>1 DEF AllConform, conforms
<1>3. Cardinality(1..n) = n
  BY <1>1, CountTo
<1>4. metadata_validation_pass_rate = ratio(n, n)
  BY <1>1, <1>2, <1>3 DEF metadata_validation_pass_rate, CountIf
<1> QED
  BY <1>1, <1>4, WholeRatio

\* No dataset has more than 2000 mappings to an approved one.
MappingsMatter == \A c \in Cards : c.approved > 0 => c.mappings <= 2000 * c.approved

\* If all datasets conform, the coverage is not nothing.
LEMMA SomeCoverage ==
  ASSUME MappingsMatter, ReportTypeOK, catalog # <<>>, AllConform
  PROVE  ontology_mapping_coverage > 0
<1>1. PICK n \in Nat : n = Len(catalog) /\ n # 0 /\ DOMAIN catalog = 1..n
  BY DEF ReportTypeOK
<1>2. PICK f : f = [i \in DOMAIN catalog |-> catalog[i].card.approved]
  OBVIOUS
<1>3. PICK g : g = [i \in DOMAIN catalog |-> catalog[i].card.mappings]
  OBVIOUS
<1>4. ASSUME NEW i \in 1..n
      PROVE  f[i] \in Nat /\ f[i] > 0 /\ g[i] \in Nat /\ f[i] <= g[i] /\ g[i] <= 2000 * f[i]
  <2>1. PICK c \in Cards : c = catalog[i].card /\ c.approved > 0
    <3>1. catalog[i] \in Entries
      BY <1>1 DEF ReportTypeOK
    <3> QED
      BY <1>1, <3>1 DEF Entries, AllConform, conforms
  <2>2. c.mappings \in Nat /\ c.approved \in 0..c.mappings
    BY ReportsAssumption
  <2>3. c.mappings <= 2000 * c.approved
    BY <2>1 DEF MappingsMatter
  <2>4. f[i] = c.approved /\ g[i] = c.mappings
    BY <1>1, <1>2, <1>3, <2>1
  <2> QED
    BY <2>1, <2>2, <2>3, <2>4
<1>5. DOMAIN f = 1..n /\ DOMAIN g = 1..n
  BY <1>1, <1>2, <1>3
<1>6. Counts(f, n) /\ Counts(g, n)
  BY <1>4, <1>5 DEF Counts
<1>7. Shares(f, g, n)
  BY <1>4 DEF Shares
<1>8. Cardinality(Pooled(g)) <= 2000 * Cardinality(Pooled(f))
  BY <1>6, <1>7, PoolsCompare
<1>9. PICK a \in Nat, b \in Nat : a = Cardinality(Pooled(f)) /\ b = Cardinality(Pooled(g)) /\ b <= 2000 * a
  BY <1>6, <1>8, PoolIsFinite, FS_CardinalityType
<1>10. b # 0
  <2>1. 1 \in 1..n /\ 1 \in 1..g[1]
    BY <1>1, <1>4
  <2>2. <<1, 1>> \in Pooled(g)
    BY <1>5, <2>1 DEF Pooled
  <2> QED
    BY <1>6, <1>9, <2>2, PoolIsFinite, FS_EmptySet
<1>11. ontology_mapping_coverage = ratio(a, b)
  BY <1>2, <1>3, <1>9 DEF ontology_mapping_coverage
<1> QED
  BY <1>9, <1>10, <1>11, SomeRatio

-----------------------------------------------------------------------------
(* The course of a pack *)

\* The rest of a list, entry by entry.
LEMMA RestAt ==
  ASSUME NEW S, NEW s \in Seq(S), NEW k \in 1..Len(s)
  PROVE  /\ SubSeq(s, k, Len(s)) \in Seq(S)
         /\ \A i \in 1..(Len(s) - k + 1) : SubSeq(s, k, Len(s))[i] = s[k + i - 1]
<1>1. Len(s) \in Nat /\ k \in Nat /\ 1 <= k /\ k <= Len(s)
  OBVIOUS
<1> QED
  BY <1>1

\* Which read is next, by how many are left.
LEMMA PackCourse ==
  ASSUME NEW r, OnCourse(r), r.endpoint = "pack"
  PROVE  /\ Len(r.plan) \in 1..11 /\ Len(Tail(r.plan)) = Len(r.plan) - 1
         /\ Len(r.plan) = 1 => Tail(r.plan) = <<>>
         /\ Head(r.plan) = "list" => Len(r.plan) \in {11, 9}
         /\ Head(r.plan) = "validate" => Len(r.plan) \in {10, 8}
         /\ Head(r.plan) = "patches" => Len(r.plan) = 7
         /\ Head(r.plan) = "events" => Len(r.plan) = 6
         /\ Head(r.plan) = "decisions" => Len(r.plan) = 5
         /\ Head(r.plan) = "metadata" => Len(r.plan) = 4
         /\ Head(r.plan) = "coverage" => Len(r.plan) = 3
         /\ Head(r.plan) = "metadata_gate" => Len(r.plan) = 2
         /\ Head(r.plan) = "coverage_gate" => Len(r.plan) = 1
         /\ Len(r.plan) = 10 => "list" \in ToSet(r.plan)
         /\ Len(r.plan) = 8 => "list" \notin ToSet(r.plan)
<1>1. PICK P : P = Plan("pack")
  OBVIOUS
<1>2. P = <<"list", "validate", "list", "validate", "patches", "events", "decisions",
            "metadata", "coverage", "metadata_gate", "coverage_gate">>
  BY <1>1 DEF Plan
<1>3. /\ P \in Seq(Reads) /\ Len(P) = 11
      /\ P[1] = "list" /\ P[2] = "validate" /\ P[3] = "list" /\ P[4] = "validate" /\ P[5] = "patches"
      /\ P[6] = "events" /\ P[7] = "decisions"
      /\ P[8] = "metadata" /\ P[9] = "coverage" /\ P[10] = "metadata_gate" /\ P[11] = "coverage_gate"
  BY <1>2 DEF Reads, Late
<1>4. PICK k \in 1..11 : r.plan = SubSeq(P, k, 11)
  BY <1>1, <1>3 DEF OnCourse
<1>5. /\ Head(r.plan) = P[k] /\ Len(r.plan) = 12 - k /\ Tail(r.plan) = SubSeq(P, k + 1, 11)
  <2>1. k \in 1..Len(P)
    BY <1>3
  <2>2. /\ Head(SubSeq(P, k, Len(P))) = P[k] /\ Len(SubSeq(P, k, Len(P))) = Len(P) - k + 1
        /\ Tail(SubSeq(P, k, Len(P))) = SubSeq(P, k + 1, Len(P))
    BY <1>3, <2>1, RestOf
  <2>3. Len(P) = 11
    BY <1>3
  <2>4. r.plan = SubSeq(P, k, Len(P)) /\ Len(P) - k + 1 = 12 - k
    BY <1>4, <2>3
  <2> QED
    BY <2>2, <2>3, <2>4
<1>6. Len(SubSeq(P, k + 1, 11)) = 11 - k /\ (k = 11 => SubSeq(P, k + 1, 11) = <<>>)
  BY <1>3
<1>7. r.plan \in Seq(Reads) /\ \A i \in 1..(12 - k) : r.plan[i] = P[k + i - 1]
  <2>1. P \in Seq(Reads) /\ Len(P) = 11 /\ k \in 1..Len(P)
    BY <1>3
  <2>2. /\ SubSeq(P, k, Len(P)) \in Seq(Reads)
        /\ \A i \in 1..(Len(P) - k + 1) : SubSeq(P, k, Len(P))[i] = P[k + i - 1]
    BY <2>1, RestAt
  <2>3. Len(P) - k + 1 = 12 - k /\ r.plan = SubSeq(P, k, Len(P))
    BY <1>4, <2>1
  <2> QED
    BY <2>2, <2>3
<1>8. k \in {1, 2, 3, 4, 5, 6, 7, 8, 9, 10, 11}
  OBVIOUS
<1>9. k = 2 => "list" \in ToSet(r.plan)
  <2>1. SUFFICES ASSUME k = 2 PROVE "list" \in ToSet(r.plan)
    OBVIOUS
  <2>2. 2 \in 1..(12 - k) /\ DOMAIN r.plan = 1..(12 - k)
    BY <1>5, <1>7, <2>1
  <2>3. r.plan[2] = P[3]
    BY <1>7, <2>1, <2>2
  <2> QED
    BY <1>3, <2>2, <2>3 DEF ToSet
<1>10. k = 4 => "list" \notin ToSet(r.plan)
  <2>1. SUFFICES ASSUME k = 4, NEW i \in DOMAIN r.plan PROVE r.plan[i] # "list"
    BY DEF ToSet
  <2>2. i \in {1, 2, 3, 4, 5, 6, 7, 8}
    BY <1>5, <1>7, <2>1
  <2>3. r.plan[i] = P[i + 3]
    BY <1>7, <2>1, <2>2
  <2> QED
    BY <1>3, <2>2, <2>3
<1>11. P[k] = "list" => k \in {1, 3}
  BY <1>3, <1>8
<1>12. P[k] = "validate" => k \in {2, 4}
  BY <1>3, <1>8
<1>13. P[k] = "patches" => k = 5
  BY <1>3, <1>8
<1>14. P[k] = "metadata" => k = 8
  BY <1>3, <1>8
<1>15. P[k] = "coverage" => k = 9
  BY <1>3, <1>8
<1>16. P[k] = "metadata_gate" => k = 10
  BY <1>3, <1>8
<1>17. P[k] = "coverage_gate" => k = 11
  BY <1>3, <1>8
<1>e. (P[k] = "events" => k = 6) /\ (P[k] = "decisions" => k = 7)
  BY <1>3, <1>8
<1>18. k \in Nat /\ (Len(r.plan) = 10 => k = 2) /\ (Len(r.plan) = 8 => k = 4) /\ (Len(r.plan) = 1 => k = 11)
  BY <1>5
<1>19. Len(r.plan) \in 1..11 /\ Len(Tail(r.plan)) = Len(r.plan) - 1
  BY <1>5, <1>6
<1>20. /\ Head(r.plan) = "list" => Len(r.plan) \in {11, 9}
       /\ Head(r.plan) = "validate" => Len(r.plan) \in {10, 8}
  BY <1>5, <1>11, <1>12
<1>21. /\ Head(r.plan) = "patches" => Len(r.plan) = 7
       /\ Head(r.plan) = "events" => Len(r.plan) = 6
       /\ Head(r.plan) = "decisions" => Len(r.plan) = 5
       /\ Head(r.plan) = "metadata" => Len(r.plan) = 4
       /\ Head(r.plan) = "coverage" => Len(r.plan) = 3
       /\ Head(r.plan) = "metadata_gate" => Len(r.plan) = 2
       /\ Head(r.plan) = "coverage_gate" => Len(r.plan) = 1
  BY <1>5, <1>13, <1>14, <1>15, <1>16, <1>17, <1>e
<1> QED
  BY <1>5, <1>6, <1>9, <1>10, <1>18, <1>19, <1>20, <1>21

\* The other fields of a report that goes on.
LEMMA AdvancedNumbers ==
  ASSUME NEW r, IsReport(r)
  PROVE  /\ Advanced(r).shacl = r.shacl /\ Advanced(r).pass_rate = r.pass_rate
         /\ Advanced(r).metadata = r.metadata /\ Advanced(r).coverage = r.coverage
         /\ Advanced(r).metadata_gate = r.metadata_gate /\ Advanced(r).coverage_gate = r.coverage_gate
<1> DEFINE a == [r EXCEPT !.plan = Tail(r.plan)]
           b == [a EXCEPT !.pos = 1]
           c == [b EXCEPT !.stage = IF Len(r.plan) = 1 THEN "done" ELSE "run"]
<1>1. Advanced(r) = c
  BY DEF Advanced
<1>2. /\ c.shacl = r.shacl /\ c.pass_rate = r.pass_rate /\ c.metadata = r.metadata /\ c.coverage = r.coverage
      /\ c.metadata_gate = r.metadata_gate /\ c.coverage_gate = r.coverage_gate
  BY DEF IsReport
<1> HIDE DEF c
<1> QED
  BY <1>1, <1>2

\* What the step of a request leaves alone.
LEMMA PackWorld ==
  ASSUME Own
  PROVE  /\ Unmoved' = Unmoved /\ AllConform' = AllConform /\ Len(catalog)' = Len(catalog)
         /\ metadata_validation_pass_rate' = metadata_validation_pass_rate
         /\ ontology_mapping_coverage' = ontology_mapping_coverage /\ CoverageGate' = CoverageGate
         /\ \A row : Judged(row)' = Judged(row)
         /\ \A r, k : PackAt(r, k) => PackAt(r, k)'
<1>1. catalog' = catalog /\ writes' = writes /\ past' = past
  BY DEF Own
<1>2. Unmoved' = Unmoved /\ Len(catalog)' = Len(catalog)
  BY <1>1 DEF Unmoved
<1>3. AllConform' = AllConform
  BY <1>1 DEF AllConform, conforms
<1>4. metadata_validation_pass_rate' = metadata_validation_pass_rate
  BY <1>1 DEF metadata_validation_pass_rate, CountIf
<1>5. ontology_mapping_coverage' = ontology_mapping_coverage
  BY <1>1 DEF ontology_mapping_coverage
<1>6. CoverageGate' = CoverageGate
  BY <1>5 DEF CoverageGate
<1>7. \A row : Judged(row)' = Judged(row)
  BY <1>1 DEF Judged, conforms
<1>8. ASSUME NEW r, NEW k, PackAt(r, k) PROVE PackAt(r, k)'
  BY <1>3, <1>4, <1>5, <1>6, <1>7, <1>8 DEF PackAt
<1> QED
  BY <1>2, <1>3, <1>4, <1>5, <1>6, <1>7, <1>8

\* Two reports with the same numbers tell the same.
SameNumbers(s, r) ==
  /\ s.rows = r.rows /\ s.shacl = r.shacl /\ s.ready = r.ready /\ s.metadata = r.metadata
  /\ s.coverage = r.coverage /\ s.metadata_gate = r.metadata_gate /\ s.coverage_gate = r.coverage_gate

\* A pack goes on to its next read.
LEMMA PackAdvances ==
  ASSUME Own, PackInv, report.endpoint = "pack", NEW r, IsReport(r), SameFields(r, report),
         report' = Advanced(r), Unmoved => PackAt(r, Len(report.plan) - 1)
  PROVE  PackInv'
<1>1. /\ report'.plan = Tail(report.plan)
      /\ report'.stage = IF Len(report.plan) = 1 THEN "done" ELSE "run"
      /\ report'.endpoint = "pack" /\ report'.size = report.size
      /\ report'.rows = r.rows /\ report'.ready = r.ready
  BY AdvancedFields DEF SameFields
<1>2. SameNumbers(report', r)
  BY <1>1, AdvancedNumbers DEF SameNumbers
<1>3. OnCourse(report)
  BY DEF Own, ReportsInv, RunningInv
<1>4. Len(report'.plan) = Len(report.plan) - 1 /\ (Len(report.plan) = 1 => report'.plan = <<>>)
  BY <1>1, <1>3, PackCourse
<1>5. past.writes <= writes /\ (Unmoved => report.size = Len(catalog))
  BY DEF Own, Running, PackInv
<1>6. past'.writes <= writes' /\ (Unmoved' => report'.size = Len(catalog'))
  BY <1>1, <1>5, PackWorld DEF Own
<1>7. PICK k : k = Len(report.plan) - 1
  OBVIOUS
<1>8. Unmoved' => PackAt(r, k)'
  BY <1>7, PackWorld
<1>9. Unmoved' => PackAt(report, Len(report.plan))'
  BY <1>2, <1>4, <1>7, <1>8 DEF PackAt, SameNumbers
<1> QED
  BY <1>1, <1>4, <1>6, <1>9 DEF PackInv, Answered

\* A pack stays at its read.
LEMMA PackStays ==
  ASSUME Own, PackInv, report.endpoint = "pack", SameFields(report', report), report'.stage = "run",
         Unmoved => PackAt(report', Len(report.plan))
  PROVE  PackInv'
<1>1. past.writes <= writes /\ (Unmoved => report.size = Len(catalog))
  BY DEF Own, Running, PackInv
<1>2. past'.writes <= writes' /\ (Unmoved' => report'.size = Len(catalog'))
  BY <1>1, PackWorld DEF Own, SameFields
<1>3. Unmoved' => PackAt(report, Len(report.plan))'
  <2>1. PICK r : r = report'
    OBVIOUS
  <2>2. PICK k : k = Len(report.plan)
    OBVIOUS
  <2>3. Unmoved => PackAt(r, k)
    BY <2>1, <2>2
  <2>4. Unmoved' => PackAt(r, k)'
    BY <2>3, PackWorld
  <2> QED
    BY <2>1, <2>2, <2>4 DEF PackAt, SameFields
<1> QED
  BY <1>2, <1>3 DEF PackInv, Answered, SameFields

\* Other requests are no packs.
LEMMA OthersStay ==
  ASSUME Own, PackInv, report.endpoint # "pack", report'.endpoint = report.endpoint, report'.size = report.size
  PROVE  PackInv'
<1>1. past.writes <= writes /\ (Unmoved => report.size = Len(catalog))
  BY DEF Own, Running, PackInv
<1>2. past'.writes <= writes' /\ (Unmoved' => report'.size = Len(catalog'))
  BY <1>1, PackWorld DEF Own
<1> QED
  BY <1>2 DEF PackInv, Answered

\* A list is made: nothing is judged yet.
LEMMA PackList == ASSUME Own, PackInv, List PROVE PackInv'
<1>1. Step("list") /\ IsReport(report) /\ OnCourse(report) /\ NextRead(report)
  BY Course DEF Own, List, ReportsInv, ReportTypeOK, RunningInv
<1>2. PICK mid : mid = [report EXCEPT !.todo = [i \in DOMAIN catalog |-> catalog[i].id]]
  OBVIOUS
<1>3. PICK r : r = [mid EXCEPT !.rows = <<>>]
  OBVIOUS
<1>4. report' = Advanced(r)
  BY <1>2, <1>3 DEF List
<1>5. IsReport(mid) /\ IsReport(r)
  <2>1. PICK v : v = [i \in DOMAIN catalog |-> catalog[i].id]
    OBVIOUS
  <2> QED
    BY <1>1, <1>2, <1>3, <2>1, FieldSet
<1>6. SameFields(mid, report) /\ mid.shacl = report.shacl
  BY <1>1, <1>2 DEF SameFields, IsReport
<1>7. SameFields(r, report) /\ r.rows = <<>> /\ r.shacl = report.shacl
  BY <1>3, <1>5, <1>6 DEF SameFields, IsReport
<1>8. CASE report.endpoint = "pack"
  <2>1. PICK k : k = Len(report.plan)
    OBVIOUS
  <2>2. k \in {11, 9}
    BY <1>1, <1>8, <2>1, PackCourse DEF Step
  <2>3. Unmoved => PackAt(report, k)
    BY <1>8, <2>1 DEF Own, Running, PackInv
  <2>4. Unmoved => PackAt(r, k - 1)
    BY <1>7, <2>2, <2>3 DEF PackAt
  <2> QED
    BY <1>4, <1>5, <1>7, <1>8, <2>1, <2>4, PackAdvances
<1>9. CASE report.endpoint # "pack"
  BY <1>4, <1>5, <1>7, <1>9, AdvanceStep, OthersStay
<1> QED
  BY <1>8, <1>9

\* The first dataset of the catalog is among those there were at the start.
LEMMA SomethingBefore ==
  ASSUME Own
  PROVE  1 \in 1..report.size /\ catalog[1].id \in Before /\ catalog # <<>>
<1>1. report.size \in Nat /\ 1 <= report.size /\ report.size <= Len(catalog)
  BY DEF Own, Running, ReportsInv, ReportTypeOK, StartedInv
<1>2. 1 \in 1..report.size
  BY <1>1
<1>3. 1 \in DOMAIN catalog /\ catalog[1].id \in Before
  BY <1>2, BeforeIs DEF Own, Running, ReportsInv
<1> QED
  BY <1>2, <1>3

\* A dataset is validated, or the validation is summed up.
LEMMA PackValidate == ASSUME Own, PackInv, Validate PROVE PackInv'
<1>1. /\ Step("validate") /\ IsReport(report) /\ OnCourse(report) /\ NextRead(report)
      /\ CatalogInv /\ ReportTypeOK
  BY Course DEF Own, Validate, ReportsInv, ReportTypeOK, RunningInv
<1>2. /\ report.rows \in Seq(VerdictRows) /\ report.todo \in Seq(AllIds)
      /\ \A i \in DOMAIN report.todo : report.todo[i] \in CardIds
      /\ \A id \in Before : HasRow(id) \/ \E i \in DOMAIN report.todo : report.todo[i] = id
  BY <1>1 DEF Own, ReportsInv, RowsInv
<1>k. PICK k : k = Len(report.plan)
  OBVIOUS
<1>3. CASE report.todo = <<>>
  <2>1. PICK rate : rate = PassRate(report.rows)
    OBVIOUS
  <2>2. PICK shacl : shacl = IF "list" \in ToSet(report.plan) \/ report.endpoint # "pack"
                             THEN PassRate(report.rows) ELSE report.shacl
    OBVIOUS
  <2>3. PICK mid : mid = [report EXCEPT !.pass_rate = rate]
    OBVIOUS
  <2>4. PICK r : r = [mid EXCEPT !.shacl = shacl]
    OBVIOUS
  <2>5. Summarised(report) = r
    BY <2>1, <2>2, <2>3, <2>4 DEF Summarised
  <2>6. report' = Advanced(r)
    BY <1>3, <2>5 DEF Validate
  <2>7. IsReport(mid) /\ IsReport(r)
    BY <1>1, <2>3, <2>4, FieldSet
  <2>8. SameFields(mid, report) /\ mid.rows = report.rows
    BY <1>1, <2>3 DEF SameFields, IsReport
  <2>9. SameFields(r, report) /\ r.rows = report.rows /\ r.shacl = shacl
    BY <2>4, <2>7, <2>8 DEF SameFields, IsReport
  <2>10. CASE report.endpoint = "pack"
    <3>1. k \in {10, 8}
      BY <1>1, <1>k, <2>10, PackCourse DEF Step
    <3>2. Unmoved => PackAt(report, k)
      BY <1>k, <2>10 DEF Own, Running, PackInv
    <3>3. ASSUME Unmoved, AllConform PROVE shacl >= 950
      <4>1. CASE k = 10
        <5>1. "list" \in ToSet(report.plan)
          BY <1>1, <1>k, <2>10, <4>1, PackCourse
        <5>2. shacl = PassRate(report.rows)
          BY <2>2, <5>1
        <5>3. report.rows # <<>>
          BY <1>2, <1>3, SomethingBefore DEF HasRow
        <5>4. ASSUME NEW i \in DOMAIN report.rows PROVE report.rows[i].conforms
          <6>1. Judged(report.rows[i])
            BY <3>2, <3>3, <4>1 DEF PackAt
          <6>2. PICK j \in DOMAIN catalog : report.rows[i].conforms = conforms(catalog[j].card)
            BY <6>1 DEF Judged
          <6> QED
            BY <3>3, <6>2 DEF AllConform
        <5> QED
          BY <1>2, <5>2, <5>3, <5>4, AllPass
      <4>2. CASE k = 8
        <5>1. shacl = report.shacl
          BY <1>1, <1>k, <2>2, <2>10, <4>2, PackCourse
        <5> QED
          BY <3>2, <3>3, <4>2, <5>1 DEF PackAt
      <4> QED
        BY <3>1, <4>1, <4>2
    <3>4. Unmoved => PackAt(r, k - 1)
      BY <2>9, <3>1, <3>2, <3>3 DEF PackAt
    <3> QED
      BY <1>k, <2>6, <2>7, <2>9, <2>10, <3>4, PackAdvances
  <2>11. CASE report.endpoint # "pack"
    BY <2>6, <2>7, <2>9, <2>11, AdvanceStep, OthersStay
  <2> QED
    BY <2>10, <2>11
<1>4. CASE report.todo # <<>>
  <2>1. PICK id \in CardIds : id = Head(report.todo)
    <3>1. 1 \in DOMAIN report.todo /\ Head(report.todo) = report.todo[1]
      BY <1>2, <1>4
    <3> QED
      BY <1>2, <3>1
  <2>2. PICK verdict \in BOOLEAN : verdict = conforms(CardOf(id)) /\ id \in AllIds
    <3>1. PICK card \in Cards : card = CardOf(id) /\ id \in AllIds
      BY <1>1, CardOfNoted DEF Own, ReportsInv
    <3>2. card.valid \in BOOLEAN /\ card.approved \in Nat
      BY ReportsAssumption
    <3>3. conforms(card) \in BOOLEAN
      BY <3>2 DEF conforms
    <3> QED
      BY <3>1, <3>3
  <2>r. PICK row : row = [id |-> id, conforms |-> verdict]
    OBVIOUS
  <2>3. row \in VerdictRows /\ row.id = id /\ row.conforms = verdict
    BY <2>2, <2>r DEF VerdictRows
  <2>4. PICK rows : rows = Append(report.rows, row)
    OBVIOUS
  <2>5. PICK mid : mid = [report EXCEPT !.todo = Tail(report.todo)]
    OBVIOUS
  <2>6. PICK r : r = [mid EXCEPT !.rows = rows]
    OBVIOUS
  <2>7. report' = r
    <3>1. report' = [report EXCEPT !.todo = Tail(report.todo),
                                   !.rows = Append(report.rows, [id |-> id, conforms |-> conforms(CardOf(id))])]
      BY <1>4, <2>1 DEF Validate
    <3> QED
      BY <2>2, <2>r, <2>4, <2>5, <2>6, <3>1
  <2>8. IsReport(mid)
    <3>1. PICK v : v = Tail(report.todo)
      OBVIOUS
    <3> QED
      BY <1>1, <2>5, <3>1, FieldSet
  <2>9. SameFields(mid, report) /\ mid.stage = "run" /\ mid.shacl = report.shacl
    BY <1>1, <2>5 DEF SameFields, IsReport, Step
  <2>10. SameFields(r, report) /\ r.stage = "run" /\ r.rows = rows /\ r.shacl = report.shacl
    BY <2>6, <2>8, <2>9 DEF SameFields, IsReport
  <2>11. CASE report.endpoint = "pack"
    <3>1. k \in {10, 8}
      BY <1>1, <1>k, <2>11, PackCourse DEF Step
    <3>2. Unmoved => PackAt(report, k)
      BY <1>k, <2>11 DEF Own, Running, PackInv
    <3>3. ASSUME Unmoved, NEW i \in DOMAIN rows
          PROVE  Judged(rows[i])
      <4>1. \/ i \in DOMAIN report.rows /\ rows[i] = report.rows[i]
            \/ rows[i] = row
        BY <1>2, <2>3, <2>4, AppendExtends
      <4>2. CASE i \in DOMAIN report.rows /\ rows[i] = report.rows[i]
        BY <3>1, <3>2, <3>3, <4>2 DEF PackAt
      <4>3. CASE rows[i] = row
        <5>1. PICK j \in DOMAIN catalog : catalog[j].id = id
          BY DEF CardIds
        <5>2. CardOf(id) = catalog[j].card
          BY <1>1, <5>1, CardOfEntry
        <5> QED
          BY <2>2, <2>3, <4>3, <5>1, <5>2 DEF Judged
      <4> QED
        BY <4>1, <4>2, <4>3
    <3>4. Unmoved => PackAt(r, k)
      BY <2>10, <3>1, <3>2, <3>3 DEF PackAt
    <3> QED
      BY <1>k, <2>7, <2>10, <2>11, <3>4, PackStays
  <2>12. CASE report.endpoint # "pack"
    BY <2>7, <2>10, <2>12, OthersStay DEF SameFields
  <2> QED
    BY <2>11, <2>12
<1> QED
  BY <1>3, <1>4

\* A patch is listed, or the queue is put together: a hand-over means that all datasets
\* conform.
LEMMA PackPatches == ASSUME Own, PackInv, ListPatches PROVE PackInv'
<1>1. /\ Step("patches") /\ IsReport(report) /\ OnCourse(report) /\ NextRead(report)
      /\ CatalogInv /\ ReportTypeOK
  BY Course DEF Own, ListPatches, ReportsInv, ReportTypeOK, RunningInv
<1>2. report.rows \in Seq(VerdictRows) /\ \A id \in Before : HasRow(id)
  BY <1>1 DEF Own, ReportsInv, RowsInv
<1>k. PICK k : k = Len(report.plan)
  OBVIOUS
<1>3. CASE PatchesEnd
  <2>1. PICK ready : ready = HandoffReady(report)
    OBVIOUS
  <2>2. PICK r : r = [report EXCEPT !.ready = ready]
    OBVIOUS
  <2>3. report' = Advanced(r)
    BY <1>3, <2>1, <2>2 DEF ListPatches
  <2>4. IsReport(r)
    BY <1>1, <2>2, FieldSet
  <2>5. SameFields(r, report) /\ r.ready = ready /\ r.shacl = report.shacl
    BY <1>1, <2>2 DEF SameFields, IsReport
  <2>6. CASE report.endpoint = "pack"
    <3>1. k = 7
      BY <1>1, <1>k, <2>6, PackCourse DEF Step
    <3>2. Unmoved => PackAt(report, k)
      BY <1>k, <2>6 DEF Own, Running, PackInv
    <3>3. ASSUME Unmoved, ready PROVE AllConform
      <4>1. SUFFICES ASSUME NEW i \in DOMAIN catalog PROVE conforms(catalog[i].card)
        BY DEF AllConform
      <4>2. Unconforming(report.rows) = {}
        BY <2>1, <3>3 DEF HandoffReady
      <4>3. i \in 1..report.size
        <5>1. report.size = Len(catalog) /\ DOMAIN catalog = 1..Len(catalog)
          BY <1>1, <3>3 DEF Own, Running, PackInv, ReportTypeOK
        <5> QED
          BY <5>1
      <4>4. HasRow(catalog[i].id)
        BY <1>2, <4>3, BeforeIs DEF Own, Running, ReportsInv
      <4>5. PICK n \in DOMAIN report.rows : report.rows[n].id = catalog[i].id
        BY <4>4 DEF HasRow
      <4>6. report.rows[n].conforms
        BY <4>2 DEF Unconforming
      <4>7. PICK j \in DOMAIN catalog : catalog[j].id = report.rows[n].id /\ report.rows[n].conforms = conforms(catalog[j].card)
        BY <3>1, <3>2, <3>3 DEF PackAt, Judged
      <4>8. j = i
        BY <1>1, <4>5, <4>7 DEF CatalogInv
      <4> QED
        BY <4>6, <4>7, <4>8
    <3>4. Unmoved => PackAt(r, k - 1)
      BY <2>5, <3>1, <3>2, <3>3 DEF PackAt
    <3> QED
      BY <1>k, <2>3, <2>4, <2>5, <2>6, <3>4, PackAdvances
  <2>7. CASE report.endpoint # "pack"
    BY <2>3, <2>4, <2>5, <2>7, AdvanceStep, OthersStay
  <2> QED
    BY <2>6, <2>7
<1>4. CASE ~ PatchesEnd
  <2>1. PICK open : open = IF patches[report.pos].status = "proposed"
                           THEN Append(report.open, report.pos) ELSE report.open
    OBVIOUS
  <2>2. PICK mid : mid = [report EXCEPT !.pos = report.pos + 1]
    OBVIOUS
  <2>3. PICK r : r = [mid EXCEPT !.open = open]
    OBVIOUS
  <2>4. report' = r
    BY <1>4, <2>1, <2>2, <2>3 DEF ListPatches
  <2>5. IsReport(mid)
    <3>1. PICK v : v = report.pos + 1
      OBVIOUS
    <3> QED
      BY <1>1, <2>2, <3>1, FieldSet
  <2>6. SameFields(mid, report) /\ mid.stage = "run" /\ SameNumbers(mid, report)
    BY <1>1, <2>2 DEF SameFields, SameNumbers, IsReport, Step
  <2>7. SameFields(r, report) /\ r.stage = "run" /\ SameNumbers(r, report)
    BY <2>3, <2>5, <2>6 DEF SameFields, SameNumbers, IsReport
  <2>8. CASE report.endpoint = "pack"
    <3>1. Unmoved => PackAt(report, k)
      BY <1>k, <2>8 DEF Own, Running, PackInv
    <3>2. Unmoved => PackAt(r, k)
      BY <2>7, <3>1 DEF PackAt, SameNumbers
    <3> QED
      BY <1>k, <2>4, <2>7, <2>8, <3>2, PackStays
  <2>9. CASE report.endpoint # "pack"
    BY <2>4, <2>7, <2>9, OthersStay DEF SameFields
  <2> QED
    BY <2>8, <2>9
<1> QED
  BY <1>3, <1>4

\* The evidence store changes nothing of what the pack says, or the pack fails.
LEMMA PackEvidence == ASSUME Own, PackInv, ReadEvidence PROVE PackInv'
<1>1. IsReport(report) /\ OnCourse(report) /\ NextRead(report) /\ Head(report.plan) \in {"events", "decisions"}
  BY Course DEF Own, ReportsInv, ReportTypeOK, RunningInv, ReadEvidence, Step
<1>2. report.endpoint = "pack"
  BY <1>1 DEF NextRead, Follows, Late
<1>3. CASE report' = Advanced(report)
  <2>1. PICK k : k = Len(report.plan)
    OBVIOUS
  <2>2. k \in {6, 5}
    BY <1>1, <1>2, <2>1, PackCourse
  <2>3. Unmoved => PackAt(report, k)
    BY <1>2, <2>1 DEF Own, Running, PackInv
  <2>4. PICK r : r = report
    OBVIOUS
  <2>5. Unmoved => PackAt(r, k - 1)
    BY <2>2, <2>3, <2>4 DEF PackAt
  <2>6. IsReport(r) /\ SameFields(r, report) /\ report' = Advanced(r)
    BY <1>1, <1>3, <2>4 DEF SameFields
  <2> QED
    BY <1>2, <2>1, <2>5, <2>6, PackAdvances
<1>4. CASE report' = Failed(report)
  <2>1. report'.stage = "500" /\ report'.size = report.size
    BY <1>1, <1>4 DEF Failed, IsReport
  <2>2. past.writes <= writes /\ (Unmoved => report.size = Len(catalog))
    BY DEF Own, Running, PackInv
  <2>3. past'.writes <= writes' /\ (Unmoved' => report'.size = Len(catalog'))
    BY <2>1, <2>2, PackWorld DEF Own
  <2> QED
    BY <2>1, <2>3 DEF PackInv, Answered
<1> QED
  BY <1>3, <1>4 DEF ReadEvidence

\* The rates and the gates are those of the catalog.
LEMMA PackNumbers == ASSUME Own, PackInv, Metadata \/ Coverage PROVE PackInv'
<1>1. IsReport(report) /\ OnCourse(report) /\ NextRead(report)
  BY Course DEF Own, ReportsInv, ReportTypeOK, RunningInv
<1>2. report.endpoint = "pack"
  BY <1>1 DEF Metadata, Coverage, Step, NextRead, Follows, Late
<1>k. PICK k : k = Len(report.plan)
  OBVIOUS
<1>3. Unmoved => PackAt(report, k)
  BY <1>2, <1>k DEF Own, Running, PackInv
<1>4. CASE Step("metadata") /\ report' = Advanced([report EXCEPT !.metadata = metadata_validation_pass_rate])
  <2>1. PICK v : v = metadata_validation_pass_rate
    OBVIOUS
  <2>2. PICK r : r = [report EXCEPT !.metadata = v]
    OBVIOUS
  <2>3. IsReport(r) /\ report' = Advanced(r)
    BY <1>1, <1>4, <2>1, <2>2, FieldSet
  <2>4. SameFields(r, report) /\ r.metadata = v /\ r.shacl = report.shacl /\ r.ready = report.ready
    BY <1>1, <2>2 DEF SameFields, IsReport
  <2>5. k = 4
    BY <1>1, <1>2, <1>k, <1>4, PackCourse DEF Step
  <2>6. Unmoved => PackAt(r, k - 1)
    BY <1>3, <2>1, <2>4, <2>5 DEF PackAt
  <2> QED
    BY <1>2, <1>k, <2>3, <2>4, <2>6, PackAdvances
<1>5. CASE Step("coverage") /\ report' = Advanced([report EXCEPT !.coverage = ontology_mapping_coverage])
  <2>1. PICK v : v = ontology_mapping_coverage
    OBVIOUS
  <2>2. PICK r : r = [report EXCEPT !.coverage = v]
    OBVIOUS
  <2>3. IsReport(r) /\ report' = Advanced(r)
    BY <1>1, <1>5, <2>1, <2>2, FieldSet
  <2>4. /\ SameFields(r, report) /\ r.coverage = v /\ r.shacl = report.shacl /\ r.ready = report.ready
        /\ r.metadata = report.metadata
    BY <1>1, <2>2 DEF SameFields, IsReport
  <2>5. k = 3
    BY <1>1, <1>2, <1>k, <1>5, PackCourse DEF Step
  <2>6. Unmoved => PackAt(r, k - 1)
    BY <1>3, <2>1, <2>4, <2>5 DEF PackAt
  <2> QED
    BY <1>2, <1>k, <2>3, <2>4, <2>6, PackAdvances
<1>6. CASE Step("metadata_gate") /\ report' = Advanced([report EXCEPT !.metadata_gate = metadata_validation_pass_rate >= 950])
  <2>1. PICK v : v = (metadata_validation_pass_rate >= 950)
    OBVIOUS
  <2>2. PICK r : r = [report EXCEPT !.metadata_gate = v]
    OBVIOUS
  <2>3. IsReport(r) /\ report' = Advanced(r)
    <3>1. IsReport(r)
      BY <1>1, <2>2, FieldSet
    <3>2. report' = Advanced(r)
      BY <1>6, <2>1, <2>2
    <3> QED
      BY <3>1, <3>2
  <2>4. /\ SameFields(r, report) /\ r.metadata_gate = v /\ r.shacl = report.shacl /\ r.ready = report.ready
        /\ r.metadata = report.metadata /\ r.coverage = report.coverage
    BY <1>1, <2>2 DEF SameFields, IsReport
  <2>5. k = 2
    BY <1>1, <1>2, <1>k, <1>6, PackCourse DEF Step
  <2>6. Unmoved => PackAt(r, k - 1)
    BY <1>3, <2>1, <2>4, <2>5 DEF PackAt
  <2> QED
    BY <1>2, <1>k, <2>3, <2>4, <2>6, PackAdvances
<1>7. CASE Step("coverage_gate") /\ report' = Advanced([report EXCEPT !.coverage_gate = CoverageGate])
  <2>1. PICK v : v = CoverageGate
    OBVIOUS
  <2>2. PICK r : r = [report EXCEPT !.coverage_gate = v]
    OBVIOUS
  <2>3. IsReport(r) /\ report' = Advanced(r)
    BY <1>1, <1>7, <2>1, <2>2, FieldSet
  <2>4. /\ SameFields(r, report) /\ r.coverage_gate = v /\ r.shacl = report.shacl /\ r.ready = report.ready
        /\ r.metadata = report.metadata /\ r.coverage = report.coverage /\ r.metadata_gate = report.metadata_gate
    BY <1>1, <2>2 DEF SameFields, IsReport
  <2>5. k = 1
    BY <1>1, <1>2, <1>k, <1>7, PackCourse DEF Step
  <2>6. Unmoved => PackAt(r, k - 1)
    BY <1>3, <2>1, <2>4, <2>5 DEF PackAt
  <2> QED
    BY <1>2, <1>k, <2>3, <2>4, <2>6, PackAdvances
<1> QED
  BY <1>4, <1>5, <1>6, <1>7 DEF Metadata, Coverage

\* A change of the catalog: it is not unmoved any more.
LEMMA PackMoves ==
  ASSUME ReportsInv, PackInv, Register \/ Replace
  PROVE  PackInv'
<1>1. report' = report /\ writes' = writes + 1
  BY DEF Register, Replace
<1>2. past'.writes = past.writes
  BY DEF Register, Replace, Noted, ReportsInv, ReportTypeOK
<1>3. writes \in Nat /\ past.writes \in Nat
  BY DEF ReportsInv, ReportTypeOK
<1>4. report.stage # "idle" => past'.writes < writes'
  BY <1>1, <1>2, <1>3 DEF PackInv
<1>5. report.stage # "idle" => past'.writes <= writes' /\ ~ Unmoved'
  BY <1>1, <1>2, <1>3, <1>4 DEF Unmoved
<1> QED
  BY <1>1, <1>5 DEF PackInv, Answered

\* The pack does not see the reviews.
LEMMA PackRests == ASSUME PackInv, UNCHANGED reportVars PROVE PackInv'
<1>1. catalog' = catalog /\ writes' = writes /\ past' = past /\ report' = report
  BY DEF reportVars
<1>2. Unmoved' = Unmoved /\ AllConform' = AllConform /\ \A row : Judged(row)' = Judged(row)
  BY <1>1 DEF Unmoved, AllConform, Judged, conforms
<1>3. metadata_validation_pass_rate' = metadata_validation_pass_rate
  BY <1>1 DEF metadata_validation_pass_rate, CountIf
<1>4. ontology_mapping_coverage' = ontology_mapping_coverage /\ CoverageGate' = CoverageGate
  BY <1>1 DEF ontology_mapping_coverage, CoverageGate
<1>5. PackAt(report, Len(report.plan)) => PackAt(report, Len(report.plan))'
  BY <1>1, <1>2, <1>3, <1>4 DEF PackAt
<1> QED
  BY <1>1, <1>2, <1>5 DEF PackInv, Answered

\* A request begins.
LEMMA PackBegins == ASSUME ReportsInv, PackInv, Begin PROVE PackInv'
<1>1. PICK endpoint \in Endpoints, limit \in Limits :
        report' = [NoReport EXCEPT !.stage = "run", !.endpoint = endpoint, !.limit = limit,
                                   !.plan = Plan(endpoint), !.size = Len(catalog),
                                   !.todo = IF endpoint = "resolve" THEN IndexedConcepts ELSE <<>>]
  BY DEF Begin
<1>2. /\ report'.stage = "run" /\ report'.endpoint = endpoint /\ report'.plan = Plan(endpoint)
      /\ report'.size = Len(catalog) /\ report'.rows = <<>>
  BY <1>1 DEF NoReport
<1>3. catalog' = catalog /\ writes' = writes /\ past'.writes = writes /\ writes \in Nat
  BY DEF Begin, ReportsInv, ReportTypeOK
<1>4. endpoint = "pack" => Len(report'.plan) = 11
  <2>1. Plan("pack") = <<"list", "validate", "list", "validate", "patches", "events", "decisions",
                         "metadata", "coverage", "metadata_gate", "coverage_gate">>
    BY DEF Plan
  <2> QED
    BY <1>2, <2>1
<1>5. endpoint = "pack" => PackAt(report, Len(report.plan))'
  <2> SUFFICES ASSUME endpoint = "pack" PROVE PackAt(report, Len(report.plan))'
    OBVIOUS
  <2>1. PICK k : k = Len(report'.plan)
    OBVIOUS
  <2>2. k \notin {10, 8, 7} /\ ~ (k <= 9) /\ ~ (k <= 6) /\ ~ (k <= 3) /\ ~ (k <= 2) /\ ~ (k <= 1) /\ ~ (k <= 0)
    <3>1. k = 11
      BY <1>4, <2>1
    <3> QED
      BY <3>1
  <2> QED
    BY <2>1, <2>2 DEF PackAt
<1> QED
  BY <1>2, <1>3, <1>5 DEF PackInv, Answered

\* Every step keeps what is known of a pack.
LEMMA PackStep == ReportsInv /\ PackInv /\ [ReportsNext]_allVars => PackInv'
<1> SUFFICES ASSUME ReportsInv, PackInv, [ReportsNext]_allVars PROVE PackInv'
  OBVIOUS
<1>1. CASE Report
  <2>1. Own
    BY <1>1 DEF Own, Running, Report, Scan, Resolve, List, Validate, ListPatches, ReadEvidence, Metadata, Coverage, Step
  <2>2. CASE Scan \/ Resolve
    <3>1. OnCourse(report) /\ NextRead(report) /\ IsReport(report)
      BY <2>1, Course DEF Own, ReportsInv, RunningInv, ReportTypeOK
    <3>2. report.endpoint # "pack"
      BY <2>2, <3>1 DEF Scan, Resolve, Step, NextRead, Follows
    <3>3. report'.endpoint = report.endpoint /\ report'.size = report.size
      BY <2>2, <3>1 DEF Scan, Resolve, Advanced, Failed, IsReport
    <3> QED
      BY <2>1, <3>2, <3>3, OthersStay
  <2> QED
    BY <1>1, <2>1, <2>2, PackList, PackValidate, PackPatches, PackEvidence, PackNumbers DEF Report
<1>2. CASE UNCHANGED reportVars
  BY <1>2, PackRests
<1> QED
  BY <1>1, <1>2, PackMoves, PackBegins DEF ReportsNext, allVars

\* At import there is no pack.
LEMMA PackStart == ReportsInit => PackInv
BY DEF ReportsInit, NoReport, PackInv, Answered

\* A gate that was computed from a rate fits the rate.
LEMMA GateFits ==
  ASSUME NEW gate, NEW rate, NEW shown, NEW bound, gate = (rate >= bound), shown = rate
  PROVE  (gate <=> shown >= bound) /\ (rate >= bound => gate)
OBVIOUS

\* Unless the catalog changes meanwhile, an evidence pack (sdp/enterprise_evidence.py,
\* build_enterprise_evidence_pack) says one thing with its two validators, its rates and
\* its gates, though it reads the catalog six times, as long as no dataset has so many
\* mappings to an approved one that _ratio rounds their share to nothing.
THEOREM PacksAreCoherent == ASSUME MappingsMatter PROVE ReportsSpec => []PackIsCoherent
<1>1. ReportsInv /\ PackInv => PackIsCoherent
  <2> SUFFICES ASSUME ReportsInv, PackInv, Answered("pack"), Unmoved
               PROVE  /\ report.ready => report.metadata_gate /\ report.shacl >= 950 /\ report.coverage > 0
                      /\ report.metadata_gate <=> report.metadata >= 950
                      /\ report.coverage_gate <=> report.coverage >= 700
    BY DEF PackIsCoherent, Unmoved
  <2>1. report.plan = <<>> /\ PackAt(report, Len(report.plan))
    BY DEF PackInv, Answered
  <2>2. PackAt(report, 0)
    BY <2>1
  <2>3. /\ AllConform => report.shacl >= 950
        /\ report.ready => AllConform
        /\ report.metadata = metadata_validation_pass_rate
        /\ report.coverage = ontology_mapping_coverage
        /\ report.metadata_gate = (metadata_validation_pass_rate >= 950)
        /\ report.coverage_gate = CoverageGate
    BY <2>2 DEF PackAt
  <2>4. ReportTypeOK /\ catalog # <<>>
    <3>1. ReportTypeOK /\ 1 <= report.size /\ report.size <= Len(catalog)
      BY DEF ReportsInv, StartedInv, Answered
    <3> QED
      BY <3>1 DEF ReportTypeOK
  <2>5. AllConform => metadata_validation_pass_rate >= 950 /\ ontology_mapping_coverage > 0
    BY <2>4, AllValid, SomeCoverage
  <2>6. report.ready => report.shacl >= 950 /\ metadata_validation_pass_rate >= 950
    BY <2>3, <2>5
  <2>7. report.ready => report.coverage > 0
    BY <2>3, <2>5
  <2>8. PICK mg, m, r : mg = report.metadata_gate /\ m = report.metadata /\ r = metadata_validation_pass_rate
    OBVIOUS
  <2>9. (mg <=> m >= 950) /\ (r >= 950 => mg)
    BY <2>3, <2>8, GateFits
  <2>10. PICK cg, c, q : cg = report.coverage_gate /\ c = report.coverage /\ q = ontology_mapping_coverage
    OBVIOUS
  <2>11. cg <=> c >= 700
    BY <2>3, <2>10, GateFits DEF CoverageGate
  <2> QED
    BY <2>6, <2>7, <2>8, <2>9, <2>10, <2>11
<1> QED
  BY <1>1, PackStart, PackStep, ReportsAreInOrder, PTL DEF ReportsSpec
=============================================================================
