---------------------------- MODULE Observability ----------------------------
(***************************************************************************)
(* Request observations: the HTTP middleware of sdp/api.py and the ring      *)
(* buffers, log sink and metrics of sdp/observability.py.                    *)
(*                                                                         *)
(* The middleware is a coroutine.  Its first part runs when the request      *)
(* arrives; its finally block runs on the event loop, without an await, once *)
(* the handler is through, and blocks the loop while it writes to the sink.  *)
(* Handlers run in the thread pool, so a scrape of the metrics reads the two  *)
(* buffers at any two moments, the middle of another request's finally block *)
(* included.  Copying a deque into a list is one step (it runs under the     *)
(* interpreter lock).  reset_request_observability is for tests only.        *)
(*                                                                         *)
(* An observation is its request; an export error is the request whose       *)
(* export failed (the code keeps the exception's text).                      *)
(***************************************************************************)
EXTENDS Naturals, Sequences

CONSTANTS
  Requests,      \* requests that arrive while the process runs, each once
  RingSize,      \* maxlen of _REQUEST_OBSERVATIONS, 500 in the code
  ErrorsSize,    \* maxlen of _EXPORT_ERRORS, 50 in the code
  ReportLimit,   \* observations a manifest reads, 25 in the code
  Sink           \* scheme of SDP_LOG_SINK_URL

Nobody == "nobody"

ASSUME ObservabilityAssumption ==
  /\ Nobody \notin Requests
  /\ RingSize \in Nat \ {0}
  /\ ErrorsSize \in Nat \ {0}
  /\ ReportLimit \in 1..RingSize
  /\ Sink \in {"none", "file", "http", "other"}

VARIABLES
  stage,     \* per request: how far its coroutine and its handler are
  loop,      \* the request whose export holds the event loop, or Nobody
  ring,      \* _REQUEST_OBSERVATIONS
  errors,    \* _EXPORT_ERRORS
  sink,      \* lines the sink has stored
  late,      \* posts that timed out here and may still reach the sink
  scrape,    \* per request to /metrics: what its manifest counted, or NoScrape
  failures   \* history variable: the requests whose export failed, ever

vars == <<stage, loop, ring, errors, sink, late, scrape, failures>>

\* What prometheus_metrics_text prints of the two buffers, and (answered) which
\* requests had been answered when it began to read them.
NoScrape == [observations |-> 0, errors |-> 0, answered |-> {}]

Init ==
  /\ stage = [q \in Requests |-> "new"]
  /\ loop = Nobody
  /\ ring = <<>>
  /\ errors = <<>>
  /\ sink = <<>>
  /\ late = {}
  /\ scrape = [q \in Requests |-> NoScrape]
  /\ failures = {}

-----------------------------------------------------------------------------
\* The last n elements of s, or all of them: what a deque of that length keeps
\* and what s[-n:] selects.
LastOf(n, s) == SubSeq(s, IF Len(s) > n THEN Len(s) - n + 1 ELSE 1, Len(s))

\* The coroutine runs up to its await; the handler is a scrape or another one.
Arrive(q) ==
  /\ loop = Nobody
  /\ stage[q] = "new"
  /\ \E handler \in {"handling", "scraping"} : stage' = [stage EXCEPT ![q] = handler]
  /\ UNCHANGED <<loop, ring, errors, sink, late, scrape, failures>>

\* Any other handler: it returns or raises, and the finally block is due either way.
Handle(q) ==
  /\ stage[q] = "handling"
  /\ stage' = [stage EXCEPT ![q] = "handled"]
  /\ UNCHANGED <<loop, ring, errors, sink, late, scrape, failures>>

list_request_observations(limit) == LastOf(limit, ring)

\* Mutant: a post that timed out, and may have arrived, is no error.
list_observability_export_errors_Refused == SelectSeq(errors, LAMBDA q : q \notin late)

list_observability_export_errors == LastOf(ErrorsSize, errors)

\* build_observability_manifest reads the observations, then the errors.
ScrapeObservations(q) ==
  /\ stage[q] = "scraping"
  /\ stage' = [stage EXCEPT ![q] = "errors"]
  /\ scrape' = [scrape EXCEPT ![q].observations = Len(list_request_observations(ReportLimit)),
                              ![q].answered = {r \in Requests : stage[r] = "done"}]
  /\ UNCHANGED <<loop, ring, errors, sink, late, failures>>

ScrapeErrors(q) ==
  /\ stage[q] = "errors"
  /\ stage' = [stage EXCEPT ![q] = "handled"]
  /\ scrape' = [scrape EXCEPT ![q].errors = Len(list_observability_export_errors)]
  /\ UNCHANGED <<loop, ring, errors, sink, late, failures>>

-----------------------------------------------------------------------------
\* Mutant: the export is left to a background thread.
Exporting_Background(q) == Nobody

\* Who holds the loop once q's observation is in the ring.
Exporting(q) == q

\* The finally block up to the export.
record_request_observation(q) ==
  /\ loop = Nobody
  /\ stage[q] = "handled"
  /\ ring' = LastOf(RingSize, Append(ring, q))
  /\ IF Sink = "none"
     THEN stage' = [stage EXCEPT ![q] = "done"] /\ UNCHANGED loop
     ELSE stage' = [stage EXCEPT ![q] = "export"] /\ loop' = Exporting(q)
  /\ UNCHANGED <<errors, sink, late, scrape, failures>>

\* _export_to_sink returns; the answer goes out.
Export(q) ==
  /\ Sink \in {"file", "http"}
  /\ stage[q] = "export"
  /\ sink' = Append(sink, q)
  /\ stage' = [stage EXCEPT ![q] = "done"]
  /\ loop' = Nobody
  /\ UNCHANGED <<ring, errors, late, scrape, failures>>

\* Mutant: the error is not recorded.
record_observability_export_error_Dropped(q) == UNCHANGED errors

record_observability_export_error(q) == errors' = LastOf(ErrorsSize, Append(errors, q))

\* Mutant: a post without a timeout waits for an answer that does not come.
LoopFreed_Waits(arrives) == IF arrives THEN UNCHANGED loop ELSE loop' = Nobody

\* urlopen raises in time, whatever became of the post.
LoopFreed(arrives) == loop' = Nobody

\* _export_to_sink raises: an OSError, a refused or timed-out post, an unknown
\* scheme.  A post that timed out may have been accepted all the same, or later.
ExportFails(q) ==
  \E arrives \in {FALSE} \cup {Sink = "http"} :
     /\ stage[q] = "export"
     /\ record_observability_export_error(q)
     /\ failures' = failures \cup {q}
     /\ late' = IF arrives THEN late \cup {q} ELSE late
     /\ stage' = [stage EXCEPT ![q] = "done"]
     /\ LoopFreed(arrives)
     /\ UNCHANGED <<ring, sink, scrape>>

LateDelivery(q) ==
  /\ q \in late
  /\ late' = late \ {q}
  /\ sink' = Append(sink, q)
  /\ UNCHANGED <<stage, loop, ring, errors, scrape, failures>>

Serve(q) ==
  \/ Handle(q)
  \/ ScrapeObservations(q)
  \/ ScrapeErrors(q)
  \/ record_request_observation(q)
  \/ Export(q)
  \/ ExportFails(q)

Next == \E q \in Requests : Arrive(q) \/ Serve(q) \/ LateDelivery(q)

Spec == Init /\ [][Next]_vars

\* Handlers end, the event loop gets to every coroutine that stays ready, and an
\* export ends, by SDP_LOG_SINK_TIMEOUT_MS if need be.
FairSpec == Spec /\ \A q \in Requests : WF_vars(Serve(q))

-----------------------------------------------------------------------------
Listed(q, s) == \E i \in DOMAIN s : s[i] = q

\* An answered request is in the sink, or an export error tells of it, as long as
\* the error buffer has not overflowed.
DeliveredOrReported ==
  Len(errors) < ErrorsSize /\ Sink # "none" =>
     \A q \in Requests : stage[q] = "done" => Listed(q, sink) \/ Listed(q, errors)

\* The sink tells the story in the order of the ring buffer, since the loop is
\* blocked from the append to the end of the export; a post that timed out is
\* the one exception.
SinkFollowsRing ==
  \A i, j \in DOMAIN ring : \A k, l \in DOMAIN sink :
     /\ i < j /\ sink[k] = ring[i] /\ sink[l] = ring[j]
     /\ ring[i] \notin failures
     /\ ring[j] \notin failures
     => k < l

\* A request that arrived is answered: neither a slow sink nor a failing one
\* keeps the loop for ever.
EveryRequestIsRecorded ==
  \A q \in Requests : stage[q] # "new" ~> stage[q] = "done"

\* Whoever reads no export errors from the metrics can rely on the sink: it has
\* every request answered before the scrape began, although the scrape reads its
\* two buffers one after the other and errors beyond the buffer are forgotten.
NoErrorsMeansDelivered ==
  \A q \in Requests :
     stage[q] \in {"handled", "export", "done"} /\ scrape[q].errors = 0 /\ Sink # "none" =>
        \A r \in scrape[q].answered : Listed(r, sink)
=============================================================================
