----------------------------- MODULE ReportQueue -----------------------------
(***************************************************************************)
(* The report queue of packages/modules/web-monitor                        *)
(* (modules/web/services/report-task.service.ts): ticks that may overlap   *)
(* pop a batch from a Redis list, collect rows for every destination,      *)
(* flush them, and queue the reports of a failed flush again.              *)
(***************************************************************************)
EXTENDS Naturals, FiniteSets, Sequences, SequencesExt

CONSTANTS
    Reports, Apps,
    AppOf,              \* the app of each report
    Destinations,       \* the kinds of rows, in the order they are flushed
    Drains,             \* ticks in progress, slots used again
    BatchSize, MaxAttempts, MaxDeadLetters,
    MaxLosses           \* bound

ASSUME QueueAssumption ==
    /\ AppOf \in [Reports -> Apps] /\ IsFiniteSet(Drains)
    /\ Destinations \in Seq(STRING) \ {<< >>} /\ IsInjective(Destinations)
    /\ {BatchSize, MaxAttempts, MaxDeadLetters} \subseteq Nat \ {0}
    /\ MaxLosses \in Nat

VARIABLES
    queue, deadLetters,     \* the two lists
    rows,                   \* how often a report was written per destination
    (* each tick *)
    drainPc, destination,   \* where it is, and the destination it flushes next
    batch, failedApps,
    (* history and bounds *)
    arrived, discarded,     \* reports that came, and those given up in a tick
    refusals,               \* flushes of its app that failed with the report
    losses

queueVars == <<queue, deadLetters, rows, drainPc, destination, batch, failedApps,
               arrived, discarded, refusals, losses>>

Kinds == ToSet(Destinations)
Messages == [report : Reports, attempts : 0 .. MaxAttempts]
ReportsOf(msgs) == {m.report : m \in msgs}

\* The counts of the history stop above the limit they are compared with.
Counted(n) == IF n > MaxAttempts THEN n ELSE n + 1

QueueTypeOK ==
    /\ queue \in Seq(Messages) /\ deadLetters \in Seq(Reports)
    /\ Len(deadLetters) <= MaxDeadLetters + losses
                              + Cardinality({d \in Drains : drainPc[d] = "trim"})
    /\ rows \in [Reports -> [Kinds -> 0 .. MaxAttempts + 1]]
    /\ drainPc \in [Drains -> {"idle", "collect", "flush", "requeue", "trim"}]
    /\ destination \in [Drains -> 1 .. Len(Destinations)]
    /\ batch \in [Drains -> SUBSET Messages]
    /\ failedApps \in [Drains -> SUBSET Apps]
    /\ arrived \subseteq Reports /\ discarded \subseteq arrived
    /\ refusals \in [Reports -> 0 .. MaxAttempts + 1]
    /\ losses \in 0 .. MaxLosses

QueueInit ==
    /\ queue = << >> /\ deadLetters = << >>
    /\ rows = [r \in Reports |-> [k \in Kinds |-> 0]]
    /\ drainPc = [d \in Drains |-> "idle"] /\ destination = [d \in Drains |-> 1]
    /\ batch = [d \in Drains |-> {}] /\ failedApps = [d \in Drains |-> {}]
    /\ arrived = {} /\ discarded = {} /\ refusals = [r \in Reports |-> 0]
    /\ losses = 0

-----------------------------------------------------------------------------
lists == <<queue, deadLetters>>
drainVars == <<drainPc, destination, batch, failedApps>>
queueHistory == <<arrived, discarded, refusals, losses>>

\* The SDK's report is pushed on the left.
Arrive(r) ==
    /\ r \notin arrived /\ arrived' = arrived \union {r}
    /\ queue' = <<[report |-> r, attempts |-> 0]>> \o queue
    /\ UNCHANGED <<deadLetters, rows, drainVars, discarded, refusals, losses>>

\* RPOP with a count.
Pop(d) ==
    /\ drainPc[d] = "idle" /\ queue # << >>
    /\ LET n == IF Len(queue) < BatchSize THEN Len(queue) ELSE BatchSize
           rest == Len(queue) - n
       IN  /\ batch' = [batch EXCEPT ![d] = ToSet(SubSeq(queue, rest + 1, Len(queue)))]
           /\ queue' = SubSeq(queue, 1, rest)
    /\ drainPc' = [drainPc EXCEPT ![d] = "collect"]
    /\ UNCHANGED <<deadLetters, rows, destination, failedApps, queueHistory>>

\* collectQueueItem on each item: what is malformed, of no known site, or throws
\* is dropped, and the rest of the batch goes on.
Collect(d, kept) ==
    /\ drainPc[d] = "collect" /\ kept \subseteq batch[d]
    /\ batch' = [batch EXCEPT ![d] = kept]
    /\ discarded' = discarded \union ReportsOf(batch[d] \ kept)
    /\ drainPc' = [drainPc EXCEPT ![d] = "flush"]
    /\ UNCHANGED <<lists, rows, destination, failedApps, arrived, refusals, losses>>

\* Mutant: the apps of the last destination that failed only.
MarkLatest(d, failing) == failing

Marked(d, failing) == failedApps[d] \union failing

\* One destination is flushed for each app; a write that fails may have landed.
Flush(d, failing, landed) ==
    /\ drainPc[d] = "flush" /\ failing \subseteq {AppOf[r] : r \in ReportsOf(batch[d])} /\ landed \subseteq failing
    /\ LET k == Destinations[destination[d]]
           written == {r \in ReportsOf(batch[d]) :
                          AppOf[r] \notin failing \/ AppOf[r] \in landed}
       IN  rows' = [r \in Reports |->
                       IF r \in written THEN [rows[r] EXCEPT ![k] = Counted(@)] ELSE rows[r]]
    /\ failedApps' = [failedApps EXCEPT ![d] = Marked(d, failing)]
    /\ IF destination[d] < Len(Destinations)
       THEN destination' = [destination EXCEPT ![d] = @ + 1] /\ UNCHANGED drainPc
       ELSE /\ drainPc' = [drainPc EXCEPT ![d] = "requeue"]
            /\ destination' = [destination EXCEPT ![d] = 1]
    /\ UNCHANGED <<lists, batch, queueHistory>>

\* The reports of the failed apps that are still to be queued again.
ToRetry(d) == {m \in batch[d] : AppOf[m.report] \in failedApps[d]}

AttemptsSpent(m) == m.attempts + 1 >= MaxAttempts

\* nextAttemptPayload.
NextAttempt(m) == [m EXCEPT !.attempts = @ + 1]

\* One report is pushed again, or parked, and then no longer in the tick.
Requeue(d, m) ==
    /\ drainPc[d] = "requeue" /\ m \in ToRetry(d)
    /\ IF AttemptsSpent(m)
       THEN /\ deadLetters' = <<m.report>> \o deadLetters
            /\ drainPc' = [drainPc EXCEPT ![d] = "trim"]
            /\ UNCHANGED queue
       ELSE /\ queue' = <<NextAttempt(m)>> \o queue
            /\ UNCHANGED <<deadLetters, drainPc>>
    /\ refusals' = [refusals EXCEPT ![m.report] = Counted(@)]
    /\ batch' = [batch EXCEPT ![d] = @ \ {m}]
    /\ UNCHANGED <<rows, destination, failedApps, arrived, discarded, losses>>

\* Mutant: the cap is applied one entry late.
TrimLate(d) ==
    /\ drainPc[d] = "trim"
    /\ deadLetters' = IF Len(deadLetters) <= MaxDeadLetters + 1 THEN deadLetters
                      ELSE SubSeq(deadLetters, 1, MaxDeadLetters + 1)
    /\ discarded' = discarded \union (ToSet(deadLetters) \ ToSet(deadLetters'))
    /\ drainPc' = [drainPc EXCEPT ![d] = "requeue"]
    /\ UNCHANGED <<queue, rows, destination, batch, failedApps, arrived, refusals,
                   losses>>

\* LTRIM drops the oldest dead letters.
Trim(d) ==
    /\ drainPc[d] = "trim"
    /\ deadLetters' = IF Len(deadLetters) <= MaxDeadLetters THEN deadLetters
                      ELSE SubSeq(deadLetters, 1, MaxDeadLetters)
    /\ discarded' = discarded \union (ToSet(deadLetters) \ ToSet(deadLetters'))
    /\ drainPc' = [drainPc EXCEPT ![d] = "requeue"]
    /\ UNCHANGED <<queue, rows, destination, batch, failedApps, arrived, refusals,
                   losses>>

Forget(d) ==
    /\ drainPc' = [drainPc EXCEPT ![d] = "idle"]
    /\ destination' = [destination EXCEPT ![d] = 1]
    /\ batch' = [batch EXCEPT ![d] = {}] /\ failedApps' = [failedApps EXCEPT ![d] = {}]

\* Mutant: a tick some of whose writes were refused does not end.
EndWhenWritten(d) ==
    /\ drainPc[d] = "requeue" /\ failedApps[d] = {}
    /\ Forget(d)
    /\ UNCHANGED <<lists, rows, queueHistory>>

EndDrain(d) ==
    /\ drainPc[d] = "requeue" /\ ToRetry(d) = {}
    /\ Forget(d)
    /\ UNCHANGED <<lists, rows, queueHistory>>

\* LPUSH or LTRIM throws out of the tick, or the process dies: what the tick had
\* popped and not pushed again is lost.
Lose(d) ==
    /\ drainPc[d] # "idle"
    /\ losses < MaxLosses /\ losses' = losses + 1
    /\ Forget(d)
    /\ UNCHANGED <<lists, rows, arrived, discarded, refusals>>

Flushing(d) == \E failing \in SUBSET Apps : \E landed \in SUBSET failing : Flush(d, failing, landed)

Draining(d) ==
    \/ Pop(d) \/ Trim(d) \/ EndDrain(d) \/ Flushing(d)
    \/ \E kept \in SUBSET batch[d] : Collect(d, kept)
    \/ \E m \in batch[d] : Requeue(d, m)

QueueNext ==
    \/ \E r \in Reports : Arrive(r)
    \/ \E d \in Drains : Draining(d) \/ Lose(d)

QueueSpec == QueueInit /\ [][QueueNext]_queueVars

\* The cron job starts a tick again and again and the awaited calls return; no
\* report needs to arrive and no write needs to succeed.
QueueIsDrained == \A d \in Drains : WF_queueVars(Draining(d))

-----------------------------------------------------------------------------
(* Properties *)

Stored(r) == \A k \in Kinds : rows[r][k] > 0

\* "Duplicates are acceptable for append-only analytics; loss is not": what was
\* not given up is stored, parked or on its way, whatever flushes fail, unless
\* a process died or Redis failed.
NothingIsLost ==
    losses = 0 =>
        \A r \in arrived \ discarded :
            \/ Stored(r) \/ r \in ToSet(deadLetters) \/ r \in ReportsOf(ToSet(queue))
            \/ \E d \in Drains : r \in ReportsOf(batch[d])

\* No report cycles for good: each one leaves the queue and the ticks, written,
\* parked or dropped, however often its writes are refused.
ReportsSettle ==
    \A r \in Reports :
        r \in arrived ~> /\ r \notin ReportsOf(ToSet(queue))
                        /\ \A d \in Drains : r \notin ReportsOf(batch[d])

\* A poison report does not cycle: nothing is delivered to a destination more
\* often than it may be attempted, ticks that overlap included.
DeliveriesAreBounded ==
    \A r \in Reports : \A k \in Kinds : rows[r][k] <= MaxAttempts

\* A report is parked only once every attempt was refused, and one report is in
\* one place at a time.
ParkedWhenRefused ==
    /\ \A r \in ToSet(deadLetters) : refusals[r] = MaxAttempts
    /\ \A d \in Drains : ReportsOf(batch[d]) \intersect ReportsOf(ToSet(queue)) = {}
    /\ \A d, e \in Drains :
           d # e => ReportsOf(batch[d]) \intersect ReportsOf(batch[e]) = {}

\* A report is written, parked or under way, at most as often as it may be
\* attempted, and given up for no other reason than that every attempt failed.
ReportsAreAccounted == NothingIsLost /\ DeliveriesAreBounded /\ ParkedWhenRefused
=============================================================================
