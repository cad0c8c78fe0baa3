---------------------------- MODULE ProbeServer ----------------------------
(***************************************************************************)
(* internal/gateway/server.go with internal/metrics/metrics.go: the probe  *)
(* gateway.  Three goroutines share its state: Serve, which handles one    *)
(* datagram at a time; the HTTP handler that renders the metrics while     *)
(* Serve goes on; and the one that closes the socket when the process is   *)
(* told to stop.  Observe and the three atomic counters are only touched   *)
(* by Serve, so they change in one step; a metric update is two, finding   *)
(* the series (sampleFor) and adding to it.  Definitions named X_Y are     *)
(* mistaken variants of X.                                                 *)
(***************************************************************************)
EXTENDS DedupWindow, Sequences

CONSTANTS
  Datagrams,     \* what may arrive: [size, magic, version : BOOLEAN, id, path]
  MaxDatagrams,  \* bound: datagrams the server is sent
  SummaryEvery,  \* datagrams between two summaries: 1000 in the code
  MaxScrapes     \* bound: renderings of the metrics

VARIABLES
  pc,         \* Serve: "read", "metrics", "returned"
  todo,       \* the metric updates Handle still has to make, in order
  found,      \* sampleFor has found the series of the first of them
  counters,   \* the atomics: [firstCopies, duplicates, rejected]
  series,     \* metric family -> its series: labels -> value
  processed,  \* Serve's local counter
  summary,    \* the last Stats that logSummary reported, and processed then
  context,    \* "running" or "cancelled"
  conn,       \* "open" or "closed"
  scrape      \* the rendering in progress or last made

serverVars == <<pc, todo, found, counters, series, processed, summary>>
vars == <<windowVars, serverVars, context, conn, scrape>>

Families == {"packets", "rejects"}
Stats == counters

-----------------------------------------------------------------------------
\* UnmarshalProbe: the first check that fails names the reason; "" is none.
UnmarshalProbe(d) ==
  CASE ~d.size        -> "short"
    [] ~d.magic       -> "bad-magic"
    [] ~d.version     -> "unsupported-version"
    [] d.id \notin Ids -> "invalid-identity"
    [] OTHER          -> ""

\* PathTag.String: two known tags, every other byte is "unknown".
PathTagString(path) ==
  IF path \in {"wi-fi", "android-usb-tether"} THEN path ELSE "unknown"

Rejected(reason) == <<[family |-> "packets", label |-> <<"rejected", "unknown">>],
                      [family |-> "rejects", label |-> <<reason>>]>>
Counted(decision, path) ==
  <<[family |-> "packets", label |-> <<decision, path>>]>>

ServerInit ==
  /\ Init
  /\ pc = "read" /\ todo = <<>> /\ found = FALSE /\ processed = 0
  /\ counters = [firstCopies |-> 0, duplicates |-> 0, rejected |-> 0]
  /\ series = [f \in Families |-> <<>>]
  /\ summary = [stats |-> counters, processed |-> 0]
  /\ context = "running" /\ conn = "open"
  /\ scrape = [pc |-> "idle", left |-> {}, shown |-> [f \in Families |-> <<>>],
               made |-> 0, from |-> 0, to |-> 0]

HandleMalformed(d) ==
  /\ UnmarshalProbe(d) # ""
  /\ counters' = [counters EXCEPT !.rejected = @ + 1]
  /\ todo' = Rejected(UnmarshalProbe(d))
  /\ UNCHANGED windowVars

HandleProbe_CountsFirst(d) ==
  LET path == PathTagString(d.path) IN
  /\ UnmarshalProbe(d) = ""
  /\ Observe(d.id, path)
  /\ todo' = Counted("first-copy", path)
  /\ counters' = IF result'.decision = "first-copy"
                 THEN [counters EXCEPT !.firstCopies = @ + 1]
                 ELSE [counters EXCEPT !.duplicates = @ + 1]

HandleProbe(d) ==
  LET path == PathTagString(d.path) IN
  /\ UnmarshalProbe(d) = ""
  /\ Observe(d.id, path)
  /\ todo' = Counted(result'.decision, path)
  /\ counters' = IF result'.decision = "first-copy"
                 THEN [counters EXCEPT !.firstCopies = @ + 1]
                 ELSE [counters EXCEPT !.duplicates = @ + 1]

\* ReadFrom returns a datagram (a cancelled server reads on until its socket
\* is closed) and Handle begins.
Handle(d) ==
  /\ pc = "read" /\ conn = "open" /\ processed < MaxDatagrams
  /\ HandleMalformed(d) \/ HandleProbe(d)
  /\ pc' = "metrics" /\ found' = FALSE
  /\ UNCHANGED <<series, processed, summary, context, conn, scrape>>

SampleFor_Replaces ==
  /\ pc = "metrics" /\ todo # <<>> /\ ~found
  /\ LET u == Head(todo) IN
     series' = [series EXCEPT ![u.family] =
                  [l \in DOMAIN @ \cup {u.label} |->
                     IF l = u.label THEN 0 ELSE @[l]]]
  /\ found' = TRUE
  /\ UNCHANGED <<windowVars, pc, todo, counters, processed, summary,
                 context, conn, scrape>>

\* sampleFor, under the family's mutex: a series starts at zero.
SampleFor ==
  /\ pc = "metrics" /\ todo # <<>> /\ ~found
  /\ LET u == Head(todo) IN
     series' = [series EXCEPT ![u.family] =
                  [l \in DOMAIN @ \cup {u.label} |->
                     IF l \in DOMAIN @ THEN @[l] ELSE 0]]
  /\ found' = TRUE
  /\ UNCHANGED <<windowVars, pc, todo, counters, processed, summary,
                 context, conn, scrape>>

Add ==
  /\ pc = "metrics" /\ todo # <<>> /\ found
  /\ LET u == Head(todo) IN
     series' = [series EXCEPT ![u.family][u.label] = @ + 1]
  /\ todo' = Tail(todo) /\ found' = FALSE
  /\ UNCHANGED <<windowVars, pc, counters, processed, summary,
                 context, conn, scrape>>

\* Handle returns; every SummaryEvery-th datagram Serve logs the Stats.
HandleDone ==
  /\ pc = "metrics" /\ todo = <<>>
  /\ processed' = processed + 1
  /\ summary' = IF processed' % SummaryEvery = 0
                THEN [stats |-> Stats, processed |-> processed']
                ELSE summary
  /\ pc' = "read"
  /\ UNCHANGED <<windowVars, todo, found, counters, series,
                 context, conn, scrape>>

ServeReturns_Continues ==
  /\ pc = "read" /\ conn = "closed"
  /\ UNCHANGED vars

\* ReadFrom fails on the closed socket: Serve returns nil.
ServeReturns ==
  /\ pc = "read" /\ conn = "closed"
  /\ pc' = "returned"
  /\ UNCHANGED <<windowVars, todo, found, counters, series, processed, summary,
                 context, conn, scrape>>

\* ReadFrom fails on the open socket: Serve returns the error.
ServeFails ==
  /\ pc = "read" /\ conn = "open"
  /\ pc' = "returned"
  /\ UNCHANGED <<windowVars, todo, found, counters, series, processed, summary,
                 context, conn, scrape>>

Cancel ==
  /\ context = "running"
  /\ context' = "cancelled"
  /\ UNCHANGED <<windowVars, serverVars, conn, scrape>>

CloseConn ==
  /\ context = "cancelled" /\ conn = "open"
  /\ conn' = "closed"
  /\ UNCHANGED <<windowVars, serverVars, context, scrape>>

-----------------------------------------------------------------------------
\* The series of a family add up: one of no label yet counts nothing.
Value(f, label) == IF label \in DOMAIN f THEN f[label] ELSE 0
OfDecision(f, decision) == Value(f, <<decision, "android-usb-tether">>)
                           + Value(f, <<decision, "unknown">>)
                           + Value(f, <<decision, "wi-fi">>)
Total(f) == OfDecision(f, "duplicate") + OfDecision(f, "first-copy")
            + OfDecision(f, "rejected")
Reasons(f) == Value(f, <<"bad-magic">>) + Value(f, <<"invalid-identity">>)
              + Value(f, <<"short">>) + Value(f, <<"unsupported-version">>)

\* Render, one at a time under the registry's mutex.  A family is rendered by
\* copying its list of series and then loading them in label order.
LabelOrder(f) == IF f = "packets"
  THEN <<<<"duplicate", "android-usb-tether">>, <<"duplicate", "unknown">>,
         <<"duplicate", "wi-fi">>, <<"first-copy", "android-usb-tether">>,
         <<"first-copy", "unknown">>, <<"first-copy", "wi-fi">>,
         <<"rejected", "unknown">>>>
  ELSE <<<<"bad-magic">>, <<"invalid-identity">>, <<"short">>,
         <<"unsupported-version">>>>

RenderBegin ==
  /\ scrape.pc = "idle" /\ scrape.made < MaxScrapes
  /\ scrape' = [pc |-> "packets", left |-> DOMAIN series["packets"],
                shown |-> [f \in Families |-> <<>>], made |-> scrape.made,
                from |-> Total(series["packets"]), to |-> 0]
  /\ UNCHANGED <<windowVars, serverVars, context, conn>>

RenderLoad ==
  /\ scrape.pc \in Families
  /\ LET order == LabelOrder(scrape.pc) IN
     \E i \in DOMAIN order :
       /\ order[i] \in scrape.left
       /\ \A j \in 1..(i - 1) : order[j] \notin scrape.left
       /\ scrape' = [scrape EXCEPT
            !.left = @ \ {order[i]},
            !.shown[scrape.pc] = [l \in DOMAIN @ \cup {order[i]} |->
              IF l = order[i] THEN series[scrape.pc][l] ELSE @[l]]]
  /\ UNCHANGED <<windowVars, serverVars, context, conn>>

RenderNextFamily ==
  /\ scrape.pc = "packets" /\ scrape.left = {}
  /\ scrape' = [scrape EXCEPT !.pc = "rejects", !.left = DOMAIN series["rejects"],
                              !.to = Total(series["packets"])]
  /\ UNCHANGED <<windowVars, serverVars, context, conn>>

RenderDone ==
  /\ scrape.pc = "rejects" /\ scrape.left = {}
  /\ scrape' = [scrape EXCEPT !.pc = "idle", !.made = @ + 1]
  /\ UNCHANGED <<windowVars, serverVars, context, conn>>

-----------------------------------------------------------------------------
Render == RenderBegin \/ RenderLoad \/ RenderNextFamily \/ RenderDone
Serve == (\E d \in Datagrams : Handle(d)) \/ SampleFor \/ Add \/ HandleDone
         \/ ServeReturns \/ ServeFails
\* The process has ended.
Terminated == pc = "returned" /\ scrape.pc = "idle" /\ UNCHANGED vars

ServerNext == Serve \/ Cancel \/ CloseConn \/ Render \/ Terminated

\* Each goroutine runs on when it can; nothing makes datagrams arrive, the
\* operator stop the server or anyone ask for the metrics.
Fairness ==
  /\ WF_vars(SampleFor \/ Add \/ HandleDone \/ ServeReturns)
  /\ WF_vars(CloseConn)

ServerSpec == ServerInit /\ [][ServerNext]_vars /\ Fairness

-----------------------------------------------------------------------------
(* Every datagram is counted exactly once, in the atomics that Stats reports
   and in the metrics alike: between two datagrams the counters add up to
   the datagrams handled, each decision's series add up to its counter, the
   reject reasons add up to the rejections, and every summary logged is a
   cut between two datagrams, never inside one. *)
CountersConserve ==
  /\ pc = "read" =>
       /\ counters.firstCopies + counters.duplicates + counters.rejected
            = processed
       /\ OfDecision(series["packets"], "first-copy") = counters.firstCopies
       /\ OfDecision(series["packets"], "duplicate") = counters.duplicates
       /\ OfDecision(series["packets"], "rejected") = counters.rejected
       /\ Reasons(series["rejects"]) = counters.rejected
  /\ summary.stats.firstCopies + summary.stats.duplicates
       + summary.stats.rejected = summary.processed

(* A rendering made while Serve counts on shows a total that was true at
   some moment of it: series it listed too early to hold the newest
   datagrams, or loaded late, never push it outside the totals at its two
   ends.  Finished, one that shows a duplicate shows a first copy too, and one
   that shows rejections shows the reason of each but for the one Handle may
   be counting, although the series are listed and loaded one by one under no
   common lock.  (No more than that: a first-copy series created after the
   listing is missing beside duplicates counted since.) *)
ScrapeHonest ==
  LET packets == scrape.shown["packets"] IN
  /\ scrape.pc = "rejects" => Total(packets) \in scrape.from..scrape.to
  /\ (scrape.pc = "idle" /\ scrape.made > 0) =>
       /\ OfDecision(packets, "duplicate") > 0
            => OfDecision(packets, "first-copy") > 0
       /\ OfDecision(packets, "rejected") <= Reasons(scrape.shown["rejects"]) + 1

(* A server told to stop does stop: the goroutine that closes the socket
   wakes the read Serve is parked in, wherever in a datagram the signal
   found it. *)
ServeStops == context = "cancelled" ~> pc = "returned"
=============================================================================
