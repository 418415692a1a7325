-------------------------------- MODULE MCRun --------------------------------
(* Instances of CouncilRun for TLC. *)
EXTENDS CouncilRun, TLC

CONSTANTS x, y, z, probe

MCStepOf == [o \in Outputs |-> IF o = z THEN 2 ELSE 1]

(* The step's output asked for twice, a probe between, the next step's.    *)
MCRequests == {<<x, x, z>>, <<x, probe, z>>}

Plain == [model |-> "declared", provider |-> "inside", content |-> TRUE,
          finish |-> "stop", error |-> FALSE, done |-> FALSE]
Part == [Plain EXCEPT !.finish = None]
Ex(kind, status, events, end) ==
  [kind |-> kind, status |-> status, events |-> events, end |-> end,
   reasoned |-> TRUE]

\* A success, and every way not to be one.
MCExchanges ==
  {Ex("buffered", 200, <<Plain>>, "closed"),
   Ex("stream", 200, <<Part, Plain>>, "closed"),
   [Ex("buffered", 200, <<Plain>>, "closed") EXCEPT !.reasoned = FALSE],
   Ex("refused", 200, <<>>, "closed"),
   Ex("unreadable", 200, <<>>, "closed"),
   Ex("status", 429, <<>>, "closed"),
   Ex("buffered", 200, <<[Plain EXCEPT !.model = "other"]>>, "closed"),
   Ex("buffered", 200, <<[Plain EXCEPT !.provider = None]>>, "closed"),
   Ex("stream", 200, <<[Part EXCEPT !.content = FALSE],
                       [Part EXCEPT !.content = FALSE, !.done = TRUE]>>, "closed"),
   Ex("stream", 200, <<[Part EXCEPT !.provider = "outside"], Plain>>, "closed"),
   Ex("stream", 200, <<[Part EXCEPT !.provider = "outside"]>>, "broken"),
   Ex("stream", 200, <<[Plain EXCEPT !.finish = "length"],
                       [Part EXCEPT !.done = TRUE]>>, "closed"),
   Ex("stream", 200, <<[Part EXCEPT !.error = TRUE]>>, "closed"),
   Ex("stream", 200, <<Part>>, "broken")}
==============================================================================
