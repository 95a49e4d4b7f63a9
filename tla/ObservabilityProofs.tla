------------------------- MODULE ObservabilityProofs -------------------------
(***************************************************************************)
(* What operators may conclude from the sink and the metrics, for any number *)
(* of requests, any sizes of the buffers and every kind of sink.             *)
(***************************************************************************)
EXTENDS Observability, SequenceTheorems, TLAPS

-----------------------------------------------------------------------------
(* The inductive invariant *)

Stages == {"new", "handling", "scraping", "errors", "handled", "export", "done"}

ScrapeRecord == [observations : Nat, errors : Nat, answered : SUBSET Requests]

ObsTypeOK ==
  /\ stage \in [Requests -> Stages]
  /\ ring \in Seq(Requests)
  /\ errors \in Seq(Requests)
  /\ sink \in Seq(Requests)
  /\ late \in SUBSET Requests
  /\ scrape \in [Requests -> ScrapeRecord]
  /\ failures \in SUBSET Requests

\* As long as the buffer of errors has room, it tells of every failure; it is never
\* emptied.
ErrorsInv ==
  /\ Len(errors) < ErrorsSize => \A q \in failures : Listed(q, errors)
  /\ failures # {} => Len(errors) > 0

\* An answered request has been stored or has failed, and only answered requests are
\* in the sink, in the failures and among the posts that may still arrive.
SinkInv ==
  /\ Sink # "none" => \A q \in Requests : stage[q] = "done" => Listed(q, sink) \/ q \in failures
  /\ \A k \in DOMAIN sink : stage[sink[k]] = "done"
  /\ \A q \in failures : stage[q] = "done"
  /\ late \subseteq failures

\* What a scrape has counted before it has read the errors.
ScrapeInv ==
  \A q \in Requests :
     /\ stage[q] \in {"new", "handling", "scraping"} => scrape[q].answered = {}
     /\ stage[q] = "errors" => \A r \in scrape[q].answered : stage[r] = "done"

\* The request whose export holds the loop is the last in the ring, and a request is
\* in the ring once.
RingInv ==
  /\ \A i \in DOMAIN ring : stage[ring[i]] \in {"export", "done"}
  /\ \A i, j \in DOMAIN ring : ring[i] = ring[j] => i = j
  /\ \A q \in Requests : stage[q] = "export" =>
        loop = q /\ Len(ring) \in DOMAIN ring /\ ring[Len(ring)] = q

ObsInv ==
  /\ ObsTypeOK
  /\ ErrorsInv
  /\ SinkInv
  /\ ScrapeInv
  /\ NoErrorsMeansDelivered
  /\ RingInv
  /\ SinkFollowsRing

-----------------------------------------------------------------------------
(* Buffers *)

\* What a deque of a given length keeps: a suffix, the whole if it fits.
LEMMA LastOfProperties ==
  ASSUME NEW S, NEW s \in Seq(S), NEW n \in Nat \ {0}
  PROVE  LET off == IF Len(s) > n THEN Len(s) - n ELSE 0
         IN  /\ off \in Nat /\ off <= Len(s)
             /\ LastOf(n, s) \in Seq(S)
             /\ Len(LastOf(n, s)) = Len(s) - off
             /\ \A i \in 1..(Len(s) - off) : LastOf(n, s)[i] = s[i + off]
<1> DEFINE off == IF Len(s) > n THEN Len(s) - n ELSE 0
           t == SubSeq(s, off + 1, Len(s))
<1>1. Len(s) \in Nat /\ off \in Nat /\ off <= Len(s)
  OBVIOUS
<1>2. LastOf(n, s) = t
  BY DEF LastOf
<1> HIDE DEF off
<1>3. \A i \in (off + 1)..Len(s) : s[i] \in S
  BY <1>1
<1>4. /\ t \in Seq(S)
      /\ Len(t) = IF off + 1 <= Len(s) THEN Len(s) - (off + 1) + 1 ELSE 0
      /\ \A i \in 1..(Len(s) - (off + 1) + 1) : t[i] = s[(off + 1) + i - 1]
  BY <1>1, <1>3, SubSeqProperties
<1>5. Len(t) = Len(s) - off
  BY <1>1, <1>4
<1>6. ASSUME NEW i \in 1..(Len(s) - off) PROVE t[i] = s[i + off]
  <2>1. t[i] = s[(off + 1) + i - 1] /\ (off + 1) + i - 1 = i + off
    BY <1>1, <1>4
  <2> QED
    BY <2>1
<1> HIDE DEF t
<1>7. off \in Nat /\ off <= Len(s) /\ LastOf(n, s) \in Seq(S) /\ Len(LastOf(n, s)) = Len(s) - off
  BY <1>1, <1>2, <1>4, <1>5
<1>8. \A i \in 1..(Len(s) - off) : LastOf(n, s)[i] = s[i + off]
  BY <1>2, <1>6
<1> QED
  BY <1>7, <1>8 DEF off

\* t is what a deque of n elements at most holds once e has joined s: e is the last
\* one, the others were there, in the same order; none is lost while there is room.
Pushed(t, s, e, n) ==
  /\ Len(t) \in Nat /\ Len(t) > 0
  /\ t[Len(t)] = e
  /\ \E off \in Nat : \A i \in 1..(Len(t) - 1) : i + off \in DOMAIN s /\ t[i] = s[i + off]
  /\ Len(t) < n => t = Append(s, e) /\ Len(s) < n

\* An element that joins a deque.
LEMMA PushProperties ==
  ASSUME NEW S, NEW s \in Seq(S), NEW e \in S, NEW n \in Nat \ {0}
  PROVE  /\ LastOf(n, Append(s, e)) \in Seq(S)
         /\ Pushed(LastOf(n, Append(s, e)), s, e, n)
<1> DEFINE a == Append(s, e)
           off == IF Len(a) > n THEN Len(a) - n ELSE 0
           t == LastOf(n, a)
<1>1. /\ a \in Seq(S) /\ Len(s) \in Nat /\ Len(a) = Len(s) + 1
      /\ a[Len(s) + 1] = e
      /\ \A i \in 1..Len(s) : a[i] = s[i]
  OBVIOUS
<1> HIDE DEF a
<1>2. /\ off \in Nat /\ off <= Len(s)
      /\ t \in Seq(S)
      /\ Len(t) = Len(s) + 1 - off
      /\ \A i \in 1..(Len(s) + 1 - off) : t[i] = a[i + off]
  <2>1. /\ LastOf(n, a) \in Seq(S)
        /\ Len(LastOf(n, a)) = Len(a) - off
        /\ \A i \in 1..(Len(a) - off) : LastOf(n, a)[i] = a[i + off]
    BY <1>1, LastOfProperties
  <2>2. off \in Nat /\ off <= Len(s)
    BY <1>1
  <2> QED
    BY <1>1, <2>1, <2>2
<1>3. off = 0 <=> Len(s) + 1 <= n
  BY <1>1
<1>a. off # 0 => off = Len(s) + 1 - n
  BY <1>1
<1> HIDE DEF off, t
<1>4. Len(t) \in Nat /\ Len(t) > 0 /\ Len(t) + off = Len(s) + 1
  BY <1>1, <1>2
<1>5. t[Len(t)] = e
  BY <1>1, <1>2, <1>4
<1>6. ASSUME NEW i \in 1..(Len(t) - 1) PROVE i + off \in DOMAIN s /\ t[i] = s[i + off]
  <2>1. i + off \in 1..Len(s) /\ i \in 1..(Len(s) + 1 - off)
    BY <1>1, <1>2, <1>4
  <2> QED
    BY <1>1, <1>2, <2>1
<1>7. ASSUME Len(t) < n PROVE t = a /\ Len(s) < n
  <2>1. off = 0 /\ Len(s) < n
    BY <1>1, <1>2, <1>3, <1>4, <1>7, <1>a
  <2>2. Len(t) = Len(a) /\ \A i \in 1..Len(t) : t[i] = a[i]
    BY <1>1, <1>2, <1>4, <2>1
  <2> QED
    BY <1>1, <1>2, <2>1, <2>2, SeqEqual
<1>8. \E o \in Nat : \A i \in 1..(Len(t) - 1) : i + o \in DOMAIN s /\ t[i] = s[i + o]
  BY <1>2, <1>6
<1>9. Pushed(t, s, e, n)
  BY <1>4, <1>5, <1>7, <1>8 DEF Pushed, a
<1> QED
  BY <1>2, <1>9 DEF t, a

\* The sink is append-only.
LEMMA StoreProperties ==
  ASSUME NEW S, NEW s \in Seq(S), NEW e \in S
  PROVE  /\ Append(s, e) \in Seq(S)
         /\ Len(s) \in Nat
         /\ DOMAIN s = 1..Len(s)
         /\ DOMAIN Append(s, e) = 1..(Len(s) + 1)
         /\ Append(s, e)[Len(s) + 1] = e
         /\ \A k \in 1..Len(s) : Append(s, e)[k] = s[k]
         /\ \A q : Listed(q, s) => Listed(q, Append(s, e))
         /\ Listed(e, Append(s, e))
<1>1. /\ Append(s, e) \in Seq(S)
      /\ Len(s) \in Nat
      /\ DOMAIN s = 1..Len(s)
      /\ DOMAIN Append(s, e) = 1..(Len(s) + 1)
      /\ Append(s, e)[Len(s) + 1] = e
      /\ \A k \in 1..Len(s) : Append(s, e)[k] = s[k]
  OBVIOUS
<1>2. ASSUME NEW q, Listed(q, s) PROVE Listed(q, Append(s, e))
  <2>1. PICK k \in 1..Len(s) : s[k] = q
    BY <1>1, <1>2 DEF Listed
  <2>2. k \in 1..(Len(s) + 1)
    BY <1>1
  <2> QED
    BY <1>1, <2>1, <2>2 DEF Listed
<1>3. Len(s) + 1 \in 1..(Len(s) + 1)
  BY <1>1
<1>4. Listed(e, Append(s, e))
  BY <1>1, <1>3 DEF Listed
<1> QED
  BY <1>1, <1>2, <1>4

-----------------------------------------------------------------------------
(* The steps *)

\* Nothing has arrived yet.
LEMMA ObsInit == Init => ObsInv
<1> SUFFICES ASSUME Init PROVE ObsInv
  OBVIOUS
<1> USE DEF Init
<1>1. ObsTypeOK
  BY DEF ObsTypeOK, Stages, ScrapeRecord, NoScrape
<1>2. ErrorsInv /\ SinkInv /\ RingInv /\ SinkFollowsRing
  BY DEF ErrorsInv, SinkInv, RingInv, SinkFollowsRing
<1>3. ScrapeInv /\ NoErrorsMeansDelivered
  BY DEF ScrapeInv, NoErrorsMeansDelivered, NoScrape
<1> QED
  BY <1>1, <1>2, <1>3 DEF ObsInv

\* A request moves on to a stage before the export, and only its own scrape changes.
LEMMA QuietStep ==
  ASSUME ObsInv, NEW q \in Requests, NEW new \in {"handling", "scraping", "errors", "handled"},
         stage[q] \notin {"export", "done"},
         stage' = [stage EXCEPT ![q] = new],
         UNCHANGED <<loop, ring, errors, sink, late, failures>>
  PROVE  /\ ErrorsInv' /\ SinkInv' /\ RingInv' /\ SinkFollowsRing'
         /\ stage' \in [Requests -> Stages]
         /\ \A r \in Requests : stage'[r] \in {"export", "done"} <=> stage[r] \in {"export", "done"}
         /\ \A r \in Requests : r # q => stage'[r] = stage[r]
         /\ stage'[q] = new
<1> USE DEF ObsInv, ObsTypeOK
<1>1. /\ stage' \in [Requests -> Stages]
      /\ \A r \in Requests : r # q => stage'[r] = stage[r]
      /\ stage'[q] = new
  BY DEF Stages
<1>2. \A r \in Requests : /\ stage'[r] = "done" <=> stage[r] = "done"
                         /\ stage'[r] = "export" <=> stage[r] = "export"
  BY <1>1
<1>3. ErrorsInv' /\ SinkFollowsRing'
  BY DEF ErrorsInv, SinkFollowsRing, Listed
<1>4. SinkInv'
  <2>1. \A k \in DOMAIN sink : sink[k] \in Requests
    OBVIOUS
  <2> QED
    BY <1>2, <2>1 DEF SinkInv, Listed
<1>5. RingInv'
  <2>1. \A i \in DOMAIN ring : ring[i] \in Requests
    OBVIOUS
  <2> QED
    BY <1>2, <2>1 DEF RingInv
<1> QED
  BY <1>1, <1>2, <1>3, <1>4, <1>5

\* The middleware's first part.
LEMMA ArriveStep ==
  ASSUME ObsInv, NEW q \in Requests, Arrive(q)
  PROVE  ObsInv'
<1>1. PICK handler \in {"handling", "scraping"} : stage' = [stage EXCEPT ![q] = handler]
  BY DEF Arrive
<1>2. stage[q] = "new" /\ UNCHANGED <<loop, ring, errors, sink, late, scrape, failures>>
  BY DEF Arrive
<1>3. /\ ErrorsInv' /\ SinkInv' /\ RingInv' /\ SinkFollowsRing'
      /\ stage' \in [Requests -> Stages]
      /\ \A r \in Requests : stage'[r] \in {"export", "done"} <=> stage[r] \in {"export", "done"}
      /\ \A r \in Requests : r # q => stage'[r] = stage[r]
      /\ stage'[q] = handler
  BY <1>1, <1>2, QuietStep
<1>4. ObsTypeOK'
  BY <1>2, <1>3 DEF ObsInv, ObsTypeOK
<1>5. ScrapeInv'
  <2>1. \A r \in Requests : stage[r] = "done" => stage'[r] = "done"
    BY <1>2, <1>3
  <2>2. \A r \in Requests : scrape[r].answered \subseteq Requests
    BY DEF ObsInv, ObsTypeOK, ScrapeRecord
  <2> QED
    BY <1>1, <1>2, <1>3, <2>1, <2>2 DEF ObsInv, ScrapeInv
<1>6. NoErrorsMeansDelivered'
  BY <1>1, <1>2, <1>3 DEF ObsInv, NoErrorsMeansDelivered
<1> QED
  BY <1>3, <1>4, <1>5, <1>6 DEF ObsInv

\* A handler that is no scrape ends: its request has counted nothing.
LEMMA HandleStep ==
  ASSUME ObsInv, NEW q \in Requests, Handle(q)
  PROVE  ObsInv'
<1>1. /\ stage[q] = "handling"
      /\ stage' = [stage EXCEPT ![q] = "handled"]
      /\ UNCHANGED <<loop, ring, errors, sink, late, scrape, failures>>
  BY DEF Handle
<1>3. /\ ErrorsInv' /\ SinkInv' /\ RingInv' /\ SinkFollowsRing'
      /\ stage' \in [Requests -> Stages]
      /\ \A r \in Requests : r # q => stage'[r] = stage[r]
      /\ stage'[q] = "handled"
  BY <1>1, QuietStep
<1>4. ObsTypeOK'
  BY <1>1, <1>3 DEF ObsInv, ObsTypeOK
<1>5. ScrapeInv'
  <2>1. \A r \in Requests : stage[r] = "done" => stage'[r] = "done"
    BY <1>1, <1>3
  <2>2. \A r \in Requests : scrape[r].answered \subseteq Requests
    BY DEF ObsInv, ObsTypeOK, ScrapeRecord
  <2> QED
    BY <1>1, <1>3, <2>1, <2>2 DEF ObsInv, ScrapeInv
<1>6. NoErrorsMeansDelivered'
  <2>1. scrape[q].answered = {}
    BY <1>1 DEF ObsInv, ScrapeInv
  <2> QED
    BY <1>1, <1>3, <2>1 DEF ObsInv, NoErrorsMeansDelivered
<1> QED
  BY <1>3, <1>4, <1>5, <1>6 DEF ObsInv

\* The scrape notes who has been answered.
LEMMA ScrapeObservationsStep ==
  ASSUME ObsInv, NEW q \in Requests, ScrapeObservations(q)
  PROVE  ObsInv'
<1> DEFINE done == {r \in Requests : stage[r] = "done"}
           n == Len(list_request_observations(ReportLimit))
<1>1. /\ stage[q] = "scraping"
      /\ stage' = [stage EXCEPT ![q] = "errors"]
      /\ scrape' = [scrape EXCEPT ![q].observations = n, ![q].answered = done]
      /\ UNCHANGED <<loop, ring, errors, sink, late, failures>>
  BY DEF ScrapeObservations
<1>2. n \in Nat
  <2>1. ring \in Seq(Requests) /\ ReportLimit \in Nat \ {0}
    BY ObservabilityAssumption DEF ObsInv, ObsTypeOK
  <2>2. LastOf(ReportLimit, ring) \in Seq(Requests)
    BY <2>1, LastOfProperties
  <2> QED
    BY <2>2 DEF list_request_observations
<1>3. /\ ErrorsInv' /\ SinkInv' /\ RingInv' /\ SinkFollowsRing'
      /\ stage' \in [Requests -> Stages]
      /\ \A r \in Requests : r # q => stage'[r] = stage[r]
      /\ stage'[q] = "errors"
  BY <1>1, QuietStep
<1> HIDE DEF n
<1>4. /\ scrape' \in [Requests -> ScrapeRecord]
      /\ scrape'[q].answered = done
      /\ \A r \in Requests : r # q => scrape'[r] = scrape[r]
  <2>1. scrape \in [Requests -> ScrapeRecord]
    BY DEF ObsInv, ObsTypeOK
  <2>2. /\ scrape'[q] = [scrape[q] EXCEPT !.observations = n, !.answered = done]
        /\ \A r \in Requests : r # q => scrape'[r] = scrape[r]
        /\ DOMAIN scrape' = Requests
        /\ scrape' = [r \in Requests |-> scrape'[r]]
    BY <1>1, <2>1
  <2>a. done \in SUBSET Requests
    OBVIOUS
  <2> HIDE DEF done
  <2>b. scrape[q] \in [observations : Nat, errors : Nat, answered : SUBSET Requests]
    BY <2>1 DEF ScrapeRecord
  <2> DEFINE one == [scrape[q] EXCEPT !.observations = n]
  <2>c. one \in [observations : Nat, errors : Nat, answered : SUBSET Requests]
    BY <2>b, <1>2
  <2>d. scrape'[q] = [one EXCEPT !.answered = done]
    BY <2>2
  <2> HIDE DEF one
  <2>3. scrape'[q] \in ScrapeRecord /\ scrape'[q].answered = done
    BY <2>a, <2>c, <2>d DEF ScrapeRecord
  <2> QED
    BY <2>1, <2>2, <2>3
<1>5. ObsTypeOK'
  BY <1>1, <1>3, <1>4 DEF ObsInv, ObsTypeOK
<1>6. ScrapeInv'
  <2>1. \A r \in Requests : stage[r] = "done" => stage'[r] = "done"
    BY <1>1, <1>3
  <2>2. \A r \in Requests : scrape[r].answered \subseteq Requests
    BY DEF ObsInv, ObsTypeOK, ScrapeRecord
  <2> QED
    BY <1>1, <1>3, <1>4, <2>1, <2>2 DEF ObsInv, ScrapeInv
<1>7. NoErrorsMeansDelivered'
  BY <1>1, <1>3, <1>4 DEF ObsInv, NoErrorsMeansDelivered
<1> QED
  BY <1>3, <1>5, <1>6, <1>7 DEF ObsInv

\* The scrape reads the errors: none of them means that none has ever been.
LEMMA ScrapeErrorsStep ==
  ASSUME ObsInv, NEW q \in Requests, ScrapeErrors(q)
  PROVE  ObsInv'
<1> DEFINE n == Len(list_observability_export_errors)
<1>1. /\ stage[q] = "errors"
      /\ stage' = [stage EXCEPT ![q] = "handled"]
      /\ scrape' = [scrape EXCEPT ![q].errors = n]
      /\ UNCHANGED <<loop, ring, errors, sink, late, failures>>
  BY DEF ScrapeErrors
<1>2. n \in Nat /\ (n = 0 => failures = {})
  <2>1. errors \in Seq(Requests) /\ ErrorsSize \in Nat \ {0} /\ Len(errors) \in Nat
    BY ObservabilityAssumption DEF ObsInv, ObsTypeOK
  <2>2. LET off == IF Len(errors) > ErrorsSize THEN Len(errors) - ErrorsSize ELSE 0
        IN  n = Len(errors) - off
    BY <2>1, LastOfProperties DEF list_observability_export_errors
  <2>3. failures # {} => Len(errors) > 0
    BY DEF ObsInv, ErrorsInv
  <2> HIDE DEF n
  <2> QED
    BY <2>1, <2>2, <2>3
<1>3. /\ ErrorsInv' /\ SinkInv' /\ RingInv' /\ SinkFollowsRing'
      /\ stage' \in [Requests -> Stages]
      /\ \A r \in Requests : r # q => stage'[r] = stage[r]
      /\ stage'[q] = "handled"
  BY <1>1, QuietStep
<1> HIDE DEF n
<1>4. /\ scrape' \in [Requests -> ScrapeRecord]
      /\ scrape'[q].answered = scrape[q].answered
      /\ scrape'[q].errors = n
      /\ \A r \in Requests : r # q => scrape'[r] = scrape[r]
  <2>1. scrape \in [Requests -> ScrapeRecord]
    BY DEF ObsInv, ObsTypeOK
  <2>2. /\ scrape'[q] = [scrape[q] EXCEPT !.errors = n]
        /\ \A r \in Requests : r # q => scrape'[r] = scrape[r]
        /\ DOMAIN scrape' = Requests
        /\ scrape' = [r \in Requests |-> scrape'[r]]
    BY <1>1, <2>1
  <2>3. scrape'[q] \in ScrapeRecord /\ scrape'[q].answered = scrape[q].answered /\ scrape'[q].errors = n
    BY <1>2, <2>1, <2>2 DEF ScrapeRecord
  <2> QED
    BY <2>1, <2>2, <2>3
<1>5. ObsTypeOK'
  BY <1>1, <1>3, <1>4 DEF ObsInv, ObsTypeOK
<1>6. ScrapeInv'
  <2>1. \A r \in Requests : stage[r] = "done" => stage'[r] = "done"
    BY <1>1, <1>3
  <2>2. \A r \in Requests : scrape[r].answered \subseteq Requests
    BY DEF ObsInv, ObsTypeOK, ScrapeRecord
  <2> QED
    BY <1>1, <1>3, <1>4, <2>1, <2>2 DEF ObsInv, ScrapeInv
<1>7. NoErrorsMeansDelivered'
  <2>1. ASSUME n = 0, Sink # "none", NEW r \in scrape[q].answered PROVE Listed(r, sink)
    <3>1. r \in Requests /\ stage[r] = "done"
      BY <1>1 DEF ObsInv, ObsTypeOK, ScrapeRecord, ScrapeInv
    <3> QED
      BY <1>2, <2>1, <3>1 DEF ObsInv, SinkInv
  <2> QED
    BY <1>1, <1>3, <1>4, <2>1 DEF ObsInv, NoErrorsMeansDelivered
<1> QED
  BY <1>3, <1>5, <1>6, <1>7 DEF ObsInv

\* A request in the finally block joins the ring; until its export is over, no other
\* request does.
LEMMA RecordStep ==
  ASSUME ObsInv, NEW q \in Requests, record_request_observation(q)
  PROVE  ObsInv'
<1> DEFINE t == LastOf(RingSize, Append(ring, q))
<1>1. /\ loop = Nobody /\ stage[q] = "handled" /\ ring' = t
      /\ UNCHANGED <<errors, sink, late, scrape, failures>>
  BY DEF record_request_observation
<1>2. PICK new \in {"export", "done"} :
        /\ stage' = [stage EXCEPT ![q] = new]
        /\ new = "done" => Sink = "none"
        /\ new = "export" => loop' = q
  BY DEF record_request_observation, Exporting
<1>3. /\ stage \in [Requests -> Stages] /\ ring \in Seq(Requests) /\ sink \in Seq(Requests)
      /\ scrape \in [Requests -> ScrapeRecord] /\ failures \in SUBSET Requests
      /\ RingSize \in Nat \ {0}
  BY ObservabilityAssumption DEF ObsInv, ObsTypeOK
<1>4. t \in Seq(Requests) /\ Pushed(t, ring, q, RingSize)
  BY <1>3, PushProperties, Zenon
<1> HIDE DEF t
<1>5. PICK off \in Nat : \A i \in 1..(Len(t) - 1) : i + off \in DOMAIN ring /\ t[i] = ring[i + off]
  BY <1>4 DEF Pushed
<1>a. Len(t) \in Nat /\ Len(t) > 0 /\ t[Len(t)] = q
  BY <1>4 DEF Pushed
<1>6. DOMAIN t = 1..Len(t) /\ Len(t) \in DOMAIN t
  BY <1>4, <1>a
<1>7. /\ stage' \in [Requests -> Stages]
      /\ stage'[q] = new
      /\ \A r \in Requests : r # q => stage'[r] = stage[r]
      /\ \A r \in Requests : stage[r] = "done" => stage'[r] = "done"
  BY <1>1, <1>2, <1>3 DEF Stages
<1>8. \A r \in Requests : stage[r] # "export"
  BY <1>1, ObservabilityAssumption DEF ObsInv, RingInv
<1>9. \A i \in DOMAIN ring : ring[i] \in Requests /\ stage[ring[i]] = "done" /\ ring[i] # q
  <2>1. \A i \in DOMAIN ring : ring[i] \in Requests
    BY <1>3
  <2> QED
    BY <1>1, <1>8, <2>1 DEF ObsInv, RingInv
<1>10. \A k \in DOMAIN sink : sink[k] \in Requests /\ stage[sink[k]] = "done" /\ sink[k] # q
  <2>1. \A k \in DOMAIN sink : sink[k] \in Requests
    BY <1>3
  <2> QED
    BY <1>1, <2>1 DEF ObsInv, SinkInv
<1>11. ObsTypeOK'
  BY <1>1, <1>4, <1>a, <1>7 DEF ObsInv, ObsTypeOK
<1>12. ErrorsInv'
  BY <1>1 DEF ObsInv, ErrorsInv, Listed
<1>13. SinkInv'
  BY <1>1, <1>2, <1>3, <1>7, <1>10 DEF ObsInv, SinkInv, Listed
<1>14. ScrapeInv'
  <2>1. \A r \in Requests : scrape[r].answered \subseteq Requests
    BY <1>3 DEF ScrapeRecord
  <2> QED
    BY <1>1, <1>2, <1>7, <2>1 DEF ObsInv, ScrapeInv
<1>15. NoErrorsMeansDelivered'
  BY <1>1, <1>2, <1>7 DEF ObsInv, NoErrorsMeansDelivered
<1>16. ASSUME NEW i \in DOMAIN t, i # Len(t)
       PROVE  i + off \in DOMAIN ring /\ t[i] = ring[i + off] /\ t[i] # q
  BY <1>4, <1>a, <1>5, <1>6, <1>9, <1>16
<1>17. RingInv'
  <2>1. \A i \in DOMAIN t : stage'[t[i]] \in {"export", "done"}
    BY <1>2, <1>4, <1>a, <1>7, <1>9, <1>16
  <2>2. ASSUME NEW i \in DOMAIN t, NEW j \in DOMAIN t, t[i] = t[j] PROVE i = j
    <3>1. CASE i = Len(t) \/ j = Len(t)
      BY <1>4, <1>a, <1>16, <2>2, <3>1
    <3>2. CASE i # Len(t) /\ j # Len(t)
      <4>1. i + off = j + off
        BY <1>16, <2>2, <3>2 DEF ObsInv, RingInv
      <4> QED
        BY <1>6, <4>1
    <3> QED
      BY <3>1, <3>2
  <2>3. \A r \in Requests : stage'[r] = "export" => r = q /\ loop' = q
    BY <1>2, <1>7, <1>8
  <2> QED
    BY <1>1, <1>4, <1>a, <1>6, <2>1, <2>2, <2>3 DEF RingInv
<1>18. SinkFollowsRing'
  <2> SUFFICES ASSUME NEW i \in DOMAIN t, NEW j \in DOMAIN t, NEW k \in DOMAIN sink, NEW l \in DOMAIN sink,
                      i < j, sink[k] = t[i], sink[l] = t[j], t[i] \notin failures, t[j] \notin failures
               PROVE  k < l
    BY <1>1 DEF SinkFollowsRing
  <2>1. i # Len(t) /\ j # Len(t)
    BY <1>4, <1>a, <1>10
  <2>2. /\ i + off \in DOMAIN ring /\ t[i] = ring[i + off]
        /\ j + off \in DOMAIN ring /\ t[j] = ring[j + off]
    BY <1>16, <2>1
  <2>3. i + off < j + off
    BY <1>6
  <2> QED
    BY <2>2, <2>3 DEF ObsInv, SinkFollowsRing
<1> QED
  BY <1>11, <1>12, <1>13, <1>14, <1>15, <1>17, <1>18 DEF ObsInv

\* An export ends, one way or the other: what holds of both.
LEMMA ExportEnds ==
  ASSUME ObsInv, NEW q \in Requests, stage[q] = "export",
         stage' = [stage EXCEPT ![q] = "done"], UNCHANGED <<ring, scrape>>
  PROVE  /\ stage' \in [Requests -> Stages]
         /\ stage'[q] = "done"
         /\ \A r \in Requests : r # q => stage'[r] = stage[r]
         /\ \A r \in Requests : stage[r] = "done" => stage'[r] = "done"
         /\ RingInv' /\ ScrapeInv'
<1>1. /\ stage' \in [Requests -> Stages]
      /\ stage'[q] = "done"
      /\ \A r \in Requests : r # q => stage'[r] = stage[r]
      /\ \A r \in Requests : stage[r] = "done" => stage'[r] = "done"
  BY DEF ObsInv, ObsTypeOK, Stages
<1>2. RingInv'
  <2>1. \A i \in DOMAIN ring : ring[i] \in Requests
    BY DEF ObsInv, ObsTypeOK
  <2>2. \A r \in Requests : stage[r] = "export" => r = q
    BY DEF ObsInv, RingInv
  <2> QED
    BY <1>1, <2>1, <2>2 DEF ObsInv, RingInv
<1>3. ScrapeInv'
  <2>1. \A r \in Requests : scrape[r].answered \subseteq Requests
    BY DEF ObsInv, ObsTypeOK, ScrapeRecord
  <2> QED
    BY <1>1, <2>1 DEF ObsInv, ScrapeInv
<1> QED
  BY <1>1, <1>2, <1>3

\* The sink stores the last observation of the ring after all the others.
LEMMA ExportStep ==
  ASSUME ObsInv, NEW q \in Requests, Export(q)
  PROVE  ObsInv'
<1>1. /\ stage[q] = "export" /\ sink' = Append(sink, q)
      /\ stage' = [stage EXCEPT ![q] = "done"]
      /\ UNCHANGED <<ring, errors, late, scrape, failures>>
  BY DEF Export
<1>2. /\ stage' \in [Requests -> Stages]
      /\ stage'[q] = "done"
      /\ \A r \in Requests : r # q => stage'[r] = stage[r]
      /\ \A r \in Requests : stage[r] = "done" => stage'[r] = "done"
      /\ RingInv' /\ ScrapeInv'
  BY <1>1, ExportEnds
<1>3. sink \in Seq(Requests) /\ ring \in Seq(Requests) /\ failures \in SUBSET Requests
  BY DEF ObsInv, ObsTypeOK
<1>4. /\ sink' \in Seq(Requests) /\ Len(sink) \in Nat /\ DOMAIN sink = 1..Len(sink)
      /\ DOMAIN sink' = 1..(Len(sink) + 1)
      /\ sink'[Len(sink) + 1] = q
      /\ \A k \in 1..Len(sink) : sink'[k] = sink[k]
      /\ \A r : Listed(r, sink) => Listed(r, sink')
      /\ Listed(q, sink')
  BY <1>1, <1>3, StoreProperties
<1>5. ObsTypeOK'
  BY <1>1, <1>2, <1>4 DEF ObsInv, ObsTypeOK
<1>6. ErrorsInv'
  BY <1>1 DEF ObsInv, ErrorsInv, Listed
<1>7. SinkInv'
  <2>1. ASSUME NEW r \in Requests, Sink # "none", stage'[r] = "done"
        PROVE  Listed(r, sink') \/ r \in failures
    BY <1>2, <1>4, <2>1 DEF ObsInv, SinkInv
  <2>2. ASSUME NEW k \in DOMAIN sink' PROVE stage'[sink'[k]] = "done"
    <3>1. CASE k = Len(sink) + 1
      BY <1>2, <1>4, <3>1
    <3>2. CASE k \in DOMAIN sink
      <4>1. sink[k] \in Requests /\ stage[sink[k]] = "done"
        BY <1>3, <3>2 DEF ObsInv, SinkInv
      <4> QED
        BY <1>2, <1>4, <3>2, <4>1
    <3> QED
      BY <1>4, <3>1, <3>2
  <2> QED
    BY <1>1, <1>2, <1>3, <2>1, <2>2 DEF ObsInv, SinkInv
<1>8. NoErrorsMeansDelivered'
  BY <1>1, <1>2, <1>4 DEF ObsInv, NoErrorsMeansDelivered
<1>9. SinkFollowsRing'
  <2> SUFFICES ASSUME NEW i \in DOMAIN ring, NEW j \in DOMAIN ring,
                      NEW k \in DOMAIN sink', NEW l \in DOMAIN sink',
                      i < j, sink'[k] = ring[i], sink'[l] = ring[j],
                      ring[i] \notin failures, ring[j] \notin failures
               PROVE  k < l
    BY <1>1 DEF SinkFollowsRing
  <2>1. Len(ring) \in Nat /\ DOMAIN ring = 1..Len(ring) /\ ring[Len(ring)] = q /\ Len(ring) \in DOMAIN ring
    BY <1>1, <1>3 DEF ObsInv, RingInv
  <2>2. i # Len(ring)
    BY <2>1
  <2>3. ring[i] # q
    BY <2>1, <2>2 DEF ObsInv, RingInv
  <2>4. k \in DOMAIN sink /\ sink[k] = ring[i]
    BY <1>4, <2>3
  <2>5. CASE l = Len(sink) + 1
    BY <1>4, <2>4, <2>5
  <2>6. CASE l \in DOMAIN sink
    <3>1. sink[l] = ring[j]
      BY <1>4, <2>6
    <3> QED
      BY <2>4, <2>6, <3>1 DEF ObsInv, SinkFollowsRing
  <2> QED
    BY <1>4, <2>5, <2>6
<1> QED
  BY <1>2, <1>5, <1>6, <1>7, <1>8, <1>9 DEF ObsInv

\* A failed export is recorded before the answer goes out.
LEMMA ExportFailsStep ==
  ASSUME ObsInv, NEW q \in Requests, ExportFails(q)
  PROVE  ObsInv'
<1> DEFINE t == LastOf(ErrorsSize, Append(errors, q))
<1>1. /\ stage[q] = "export" /\ errors' = t /\ failures' = failures \cup {q}
      /\ late' \subseteq late \cup {q}
      /\ stage' = [stage EXCEPT ![q] = "done"]
      /\ UNCHANGED <<ring, sink, scrape>>
  BY DEF ExportFails, record_observability_export_error
<1>2. /\ stage' \in [Requests -> Stages]
      /\ stage'[q] = "done"
      /\ \A r \in Requests : r # q => stage'[r] = stage[r]
      /\ \A r \in Requests : stage[r] = "done" => stage'[r] = "done"
      /\ RingInv' /\ ScrapeInv'
  BY <1>1, ExportEnds
<1>3. errors \in Seq(Requests) /\ sink \in Seq(Requests) /\ failures \in SUBSET Requests
      /\ late \in SUBSET Requests /\ ErrorsSize \in Nat \ {0}
  BY ObservabilityAssumption DEF ObsInv, ObsTypeOK
<1>a. t \in Seq(Requests) /\ Pushed(t, errors, q, ErrorsSize)
  BY <1>3, PushProperties, Zenon
<1> HIDE DEF t
<1>4. /\ t \in Seq(Requests) /\ Len(t) \in Nat /\ Len(t) > 0
      /\ Len(t) < ErrorsSize => t = Append(errors, q) /\ Len(errors) < ErrorsSize
  BY <1>a DEF Pushed
<1>5. ObsTypeOK'
  BY <1>1, <1>2, <1>3, <1>4 DEF ObsInv, ObsTypeOK
<1>6. ErrorsInv'
  <2>1. ASSUME Len(t) < ErrorsSize, NEW r \in failures \cup {q} PROVE Listed(r, t)
    <3>1. t = Append(errors, q) /\ Len(errors) < ErrorsSize
      BY <1>4, <2>1
    <3>2. Listed(q, t) /\ \A x : Listed(x, errors) => Listed(x, t)
      BY <1>3, <3>1, StoreProperties
    <3> QED
      BY <3>1, <3>2 DEF ObsInv, ErrorsInv
  <2> QED
    BY <1>1, <1>4, <2>1 DEF ErrorsInv
<1>7. SinkInv'
  <2>1. \A k \in DOMAIN sink : sink[k] \in Requests
    BY <1>3
  <2> QED
    BY <1>1, <1>2, <1>3, <2>1 DEF ObsInv, SinkInv
<1>8. NoErrorsMeansDelivered'
  BY <1>1, <1>2 DEF ObsInv, NoErrorsMeansDelivered
<1>9. SinkFollowsRing'
  BY <1>1 DEF ObsInv, SinkFollowsRing
<1> QED
  BY <1>2, <1>5, <1>6, <1>7, <1>8, <1>9 DEF ObsInv

\* A post that had timed out is stored: its request counts as failed already.
LEMMA LateDeliveryStep ==
  ASSUME ObsInv, NEW q \in Requests, LateDelivery(q)
  PROVE  ObsInv'
<1>1. /\ q \in late /\ late' \subseteq late /\ sink' = Append(sink, q)
      /\ UNCHANGED <<stage, loop, ring, errors, scrape, failures>>
  BY DEF LateDelivery
<1>2. sink \in Seq(Requests) /\ q \in failures /\ stage[q] = "done"
  BY <1>1 DEF ObsInv, ObsTypeOK, SinkInv
<1>3. /\ sink' \in Seq(Requests) /\ Len(sink) \in Nat /\ DOMAIN sink = 1..Len(sink)
      /\ DOMAIN sink' = 1..(Len(sink) + 1)
      /\ sink'[Len(sink) + 1] = q
      /\ \A k \in 1..Len(sink) : sink'[k] = sink[k]
      /\ \A r : Listed(r, sink) => Listed(r, sink')
  BY <1>1, <1>2, StoreProperties
<1>4. ObsTypeOK'
  BY <1>1, <1>3 DEF ObsInv, ObsTypeOK
<1>5. ErrorsInv' /\ ScrapeInv' /\ RingInv'
  BY <1>1 DEF ObsInv, ErrorsInv, ScrapeInv, RingInv, Listed
<1>6. SinkInv'
  <2>1. \A k \in DOMAIN sink' : stage[sink'[k]] = "done"
    BY <1>2, <1>3 DEF ObsInv, SinkInv
  <2> QED
    BY <1>1, <1>3, <2>1 DEF ObsInv, SinkInv
<1>7. NoErrorsMeansDelivered'
  BY <1>1, <1>3 DEF ObsInv, NoErrorsMeansDelivered
<1>8. SinkFollowsRing'
  <2> SUFFICES ASSUME NEW i \in DOMAIN ring, NEW j \in DOMAIN ring,
                      NEW k \in DOMAIN sink', NEW l \in DOMAIN sink',
                      i < j, sink'[k] = ring[i], sink'[l] = ring[j],
                      ring[i] \notin failures, ring[j] \notin failures
               PROVE  k < l
    BY <1>1 DEF SinkFollowsRing
  <2>1. k \in DOMAIN sink /\ sink[k] = ring[i] /\ l \in DOMAIN sink /\ sink[l] = ring[j]
    BY <1>2, <1>3
  <2> QED
    BY <2>1 DEF ObsInv, SinkFollowsRing
<1> QED
  BY <1>4, <1>5, <1>6, <1>7, <1>8 DEF ObsInv

\* Every step, and stuttering.
LEMMA ObsNext == ObsInv /\ [Next]_vars => ObsInv'
<1> SUFFICES ASSUME ObsInv, [Next]_vars PROVE ObsInv'
  OBVIOUS
<1>1. CASE Next
  <2>1. PICK q \in Requests : Arrive(q) \/ Serve(q) \/ LateDelivery(q)
    BY <1>1 DEF Next
  <2> QED
    BY <2>1, ArriveStep, HandleStep, ScrapeObservationsStep, ScrapeErrorsStep, RecordStep,
       ExportStep, ExportFailsStep, LateDeliveryStep DEF Serve
<1>2. CASE UNCHANGED vars
  BY <1>2 DEF vars, ObsInv, ObsTypeOK, ErrorsInv, SinkInv, ScrapeInv, RingInv, Listed,
              NoErrorsMeansDelivered, SinkFollowsRing
<1> QED
  BY <1>1, <1>2

-----------------------------------------------------------------------------
(* The theorems *)

\* The buffers, the sink and the requests on their way through the middleware fit
\* together in every state.
THEOREM ObservationsAreInOrder == Spec => []ObsInv
<1> QED
  BY ObsInit, ObsNext, PTL DEF Spec

\* While the buffer of export errors has room, a request the middleware has answered
\* is in the sink or told of as an error.
THEOREM NothingIsLostUnseen == Spec => []DeliveredOrReported
<1>1. ObsInv => DeliveredOrReported
  BY DEF ObsInv, SinkInv, ErrorsInv, DeliveredOrReported
<1> QED
  BY <1>1, ObservationsAreInOrder, PTL

\* A scrape that finds no export error can rely on the sink for every request answered
\* before it began, however the scrape's two reads interleave with other requests.
THEOREM SilentMetricsCanBeTrusted == Spec => []NoErrorsMeansDelivered
<1>1. ObsInv => NoErrorsMeansDelivered
  BY DEF ObsInv
<1> QED
  BY <1>1, ObservationsAreInOrder, PTL

\* The sink holds the observations in the order of the ring, but for posts that had
\* timed out.
THEOREM SinkKeepsTheOrder == Spec => []SinkFollowsRing
<1>1. ObsInv => SinkFollowsRing
  BY DEF ObsInv
<1> QED
  BY <1>1, ObservationsAreInOrder, PTL

=============================================================================
