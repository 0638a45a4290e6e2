----------------------------- MODULE MonitorLogs -----------------------------
(***************************************************************************)
(* The live log of the monitor panel: MonitorPanel.tsx polls Loki through  *)
(* monitor:getLogs of main/index.ts, takes from every answer the entries   *)
(* it has not seen and keeps the last MAX_LOG_LINES of them.               *)
(*                                                                         *)
(* An entry is its time stamp, which is what the panel knows it by.  Polls *)
(* are not serialized: one may be sent before the last was answered, and   *)
(* answers come in any order.  An update of the list is computed when      *)
(* React renders next, which may be after other answers.                   *)
(***************************************************************************)
EXTENDS Naturals, FiniteSets, Sequences

CONSTANTS MAX_LOG_LINES,
          LOOK_BACK,  \* how far back a poll asks
          LIMIT,      \* entries in an answer
          LATE,       \* how late an entry may arrive at Loki
          MaxTime,    \* bound on the clock
          MaxPolls    \* bound on polls in flight

ASSUME MonitorAssumption ==
  /\ {MAX_LOG_LINES, LIMIT, MaxPolls} \subseteq Nat \ {0}
  /\ {LOOK_BACK, LATE, MaxTime} \subseteq Nat

VARIABLES
  now,          \* the clock
  loki,         \* entries Loki has
  running,      \* simStatus is running
  showMonitor,  \* the panel is mounted
  polls,        \* when the polls in flight were sent
  logs,         \* the entries shown
  updates,      \* the entries given to setLogs and not rendered yet, in order
  seenNs,       \* seenNsRef
  lokiReady, grafanaReady

panel       == <<polls, logs, updates, seenNs, lokiReady, grafanaReady>>
monitorVars == <<now, loki, running, showMonitor, panel>>

MonitorInit ==
  /\ now = 1 /\ loki = {} /\ running = FALSE /\ showMonitor = FALSE
  /\ polls = {} /\ logs = <<>> /\ updates = <<>> /\ seenNs = {}
  /\ lokiReady = FALSE /\ grafanaReady = FALSE

\* A component that is mounted, or unmounted, begins anew; answers to one that
\* is gone are not shown anywhere.
Fresh(first) ==
  /\ polls' = first /\ logs' = <<>> /\ updates' = <<>> /\ seenNs' = {}
  /\ lokiReady' = FALSE /\ grafanaReady' = FALSE

Newest(S) == {e \in S : Cardinality({n \in S : n > e}) < LIMIT}
Keys(list) == {list[i] : i \in DOMAIN list}

\* parseLokiResponse sorts by time.
Sorted(S, list) ==
  /\ Keys(list) = S
  /\ \A i, j \in DOMAIN list : i < j => list[i] < list[j]

-----------------------------------------------------------------------------
(* The lab and its log.                                                    *)

Tick ==
  /\ now < MaxTime /\ now' = now + 1
  /\ UNCHANGED <<loki, running, showMonitor, panel>>

\* Suricata or Zeek logs an event of now, or of a while ago.
Arrive(e) ==
  /\ running /\ e <= now /\ now <= e + LATE /\ e \notin loki
  /\ loki' = loki \cup {e}
  /\ UNCHANGED <<now, running, showMonitor, panel>>

LabStarts ==
  /\ ~running /\ running' = TRUE
  /\ UNCHANGED <<now, loki, showMonitor, panel>>

\* The panel closes with the lab, whose volumes go.
LabStops ==
  /\ running /\ running' = FALSE
  /\ loki' = {}
  /\ showMonitor' = FALSE /\ Fresh({})
  /\ UNCHANGED now

handleMonitorToggle ==
  /\ running
  /\ showMonitor' = ~showMonitor
  /\ Fresh(IF showMonitor THEN {} ELSE {now})
  /\ UNCHANGED <<now, loki, running>>

-----------------------------------------------------------------------------
(* The panel.                                                              *)

\* The timer does not wait for the answer to the poll before.
Poll ==
  /\ showMonitor /\ Cardinality(polls) < MaxPolls
  /\ polls' = polls \cup {now}
  /\ UNCHANGED <<now, loki, running, showMonitor, logs, updates, seenNs, lokiReady, grafanaReady>>

\* The newest LIMIT entries of the time asked about.
getLogs(sent) == Newest({e \in loki : e <= sent /\ sent <= e + LOOK_BACK})

\* Mutant of PollAnswered: what is seen is noted when it is rendered.
PollAnsweredUnseen(sent) ==
  /\ sent \in polls /\ polls' = polls \ {sent}
  /\ lokiReady' = TRUE
  /\ LET new == getLogs(sent) \ seenNs IN
       \E batch \in [1 .. Cardinality(new) -> new] :
         Sorted(new, batch) /\ updates' = updates \o batch
  /\ UNCHANGED <<now, loki, running, showMonitor, logs, grafanaReady, seenNs>>

PollAnswered(sent) ==
  /\ sent \in polls /\ polls' = polls \ {sent}
  /\ lokiReady' = TRUE
  /\ LET new == getLogs(sent) \ seenNs IN
       /\ seenNs' = seenNs \cup new
       /\ \E batch \in [1 .. Cardinality(new) -> new] :
            Sorted(new, batch) /\ updates' = updates \o batch
  /\ UNCHANGED <<now, loki, running, showMonitor, logs, grafanaReady>>

\* Loki is not up yet, breaks the connection or takes five seconds.
PollFails(sent) ==
  /\ sent \in polls /\ polls' = polls \ {sent}
  /\ UNCHANGED <<now, loki, running, showMonitor, logs, updates, seenNs, lokiReady, grafanaReady>>

\* The list grows and is cut at its old end, which comes to the same for all
\* updates at once as for one after the other.
Capped(list) ==
  IF Len(list) > MAX_LOG_LINES
  THEN SubSeq(list, Len(list) - MAX_LOG_LINES + 1, Len(list))
  ELSE list

Coming == logs \o updates

\* What an update pushes out is forgotten.
Render ==
  /\ updates # <<>> /\ updates' = <<>>
  /\ logs' = Capped(Coming)
  /\ seenNs' = seenNs \ (Keys(Coming) \ Keys(Capped(Coming)))
  /\ UNCHANGED <<now, loki, running, showMonitor, polls, lokiReady, grafanaReady>>

\* Grafana is asked until it answers once.
GrafanaAnswers ==
  /\ showMonitor /\ ~grafanaReady /\ grafanaReady' = TRUE
  /\ UNCHANGED <<now, loki, running, showMonitor, polls, logs, updates, seenNs, lokiReady>>

MonitorNext ==
  \/ Tick \/ \E e \in 1 .. MaxTime : Arrive(e)
  \/ LabStarts \/ LabStops \/ handleMonitorToggle
  \/ Poll \/ \E sent \in polls : PollAnswered(sent) \/ PollFails(sent)
  \/ Render \/ GrafanaAnswers

MonitorSpec == MonitorInit /\ [][MonitorNext]_monitorVars

-----------------------------------------------------------------------------

MonitorTypeOK ==
  /\ now \in Nat /\ loki \subseteq Nat /\ polls \subseteq Nat
  /\ running \in BOOLEAN /\ showMonitor \in BOOLEAN
  /\ logs \in Seq(Nat) /\ updates \in Seq(Nat) /\ seenNs \subseteq Nat
  /\ lokiReady \in BOOLEAN /\ grafanaReady \in BOOLEAN

\* Whatever the order of polls, answers and renders, no entry comes up twice,
\* and the panel remembers as seen exactly the entries that it shows or will:
\* none is held back for ever, and memory is bounded (MonitorPanel.tsx).
LogShown ==
  /\ \A i, j \in DOMAIN Coming : Coming[i] = Coming[j] => i = j
  /\ seenNs = Keys(Coming)
  /\ Len(logs) <= MAX_LOG_LINES
  /\ ~showMonitor => seenNs = {}
=============================================================================
