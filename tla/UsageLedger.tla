---------------------------- MODULE UsageLedger ----------------------------
(***************************************************************************)
(* What model calls use, and the limits on it: usage governance            *)
(* (packages/usage-governance/src/index.ts) over the ledger of             *)
(* packages/postgres-store/src/postgres-usage-ledger.ts, the calls of the  *)
(* model gateway, recovery of calls that never ended, the reconciliation   *)
(* and the attribution backfill of packages/chat-server/src/               *)
(* usage-backfill.ts.                                                      *)
(* One event per call holds an amount on the counters of its day and its   *)
(* month; ended events are added to the sums of their day.  The ledger     *)
(* keeps tokens and cost in neighbouring columns, written by the same      *)
(* statements in the same way: an amount here stands for either.           *)
(* A statement that locks the rows it changes is one step.  A statement    *)
(* that reads a snapshot and writes without such a lock is two.            *)
(***************************************************************************)
EXTENDS Integers, FiniteSetsExt

CONSTANTS
    Null,
    Calls,          \* calls of the model gateway
    Records,        \* usage a tool reports, which nobody admits
    Legacy,         \* events that processes of the previous release write
    Reserved,       \* [Calls -> Nat]: what admission reserves for a call, from its request
    Uses,           \* amounts a call may turn out to have used
    CallsPerDay, TokensPerDay, TokensPerMonth, \* the limits; Null for none
    DaysPerMonth,
    LastDay,        \* bound: the last day of the clock
    Parties         \* bound: which callers and legacy writers may take part in a behaviour together

Limit == Nat \cup {Null}
Amounts == [calls: Int, tokens: Int]
Nothing == [calls |-> 0, tokens |-> 0]

ASSUME UsageLedgerConstants ==
    /\ IsFiniteSet(Calls) /\ IsFiniteSet(Records) /\ IsFiniteSet(Legacy)
    /\ Calls \cap Records = {} /\ (Calls \cup Records) \cap Legacy = {}
    /\ Reserved \in [Calls -> Nat] /\ Uses \subseteq Nat
    /\ CallsPerDay \in Limit /\ TokensPerDay \in Limit /\ TokensPerMonth \in Limit
    /\ DaysPerMonth \in Nat \ {0} /\ LastDay \in Nat
    /\ Parties \subseteq SUBSET (Calls \cup Records \cup Legacy)
    /\ Null \notin Nat \cup Amounts

VARIABLES
    day,        \* the day of the database clock
    event,      \* model_usage_events
    counter,    \* model_usage_counters of the instance
    sums,       \* model_usage_daily_rollups
    pc,         \* where each caller is
    tries,      \* how often a caller has started counters
    seen,       \* what startCounters of a caller read
    recovery,   \* the calls that the recovery tick listed and has not settled
    recon,      \* the reconciliation under way: one at a time
    reconciled, \* what the reconciliation recorded: the day its last run began
    backfill    \* what the attribution backfill recorded

vars == <<day, event, counter, sums, pc, tries, seen, recovery, recon, reconciled, backfill>>
ledger == <<event, counter, sums>>
callers == <<pc, tries, seen>>
upkeep == <<recovery, recon, reconciled, backfill>>

Callers == Calls \cup Records
Events == Callers \cup Legacy
Days == 0..LastDay
MonthOf(d) == d \div DaysPerMonth
Periods == ({"day"} \X Days) \cup ({"month"} \X {MonthOf(d) : d \in Days})
PeriodsOf(d) == {<<"day", d>>, <<"month", MonthOf(d)>>}

\* What an event is added to a sum under besides its day: whether the backfill can still fill in its
\* purpose or region.
Attribution == {"plain", "named"}

\* A row; aged once the call is USAGE_ABANDONED_AFTER_MS old, released (history) once recovery took
\* it as abandoned.
Event == [status: {"none", "pending", "settled", "failed", "abandoned"}, day: Days,
          counted: Nat \cup {Null}, tokens: Nat, attribution: Attribution,
          aged: BOOLEAN, released: BOOLEAN]
Idle == [by |-> Null, since |-> 0, drift |-> <<>>]

\* The tables hold rows of their types, and a reserved, released or used amount is never negative.
TypeOK ==
    /\ day \in Days
    /\ event \in [Events -> Event]
    /\ counter \in [Periods -> Amounts \cup {Null}]
    /\ sums \in [Days \X Attribution -> Amounts]
    /\ pc \in [Callers -> {"count", "insert", "calling", "ended", "refused", "failed"}]
    /\ tries \in [Callers -> 0..3]
    /\ recovery \subseteq Calls
    /\ recon.by \in {Null, "schedule", "repair"}
    /\ reconciled \in Days \cup {Null}
    /\ backfill \in [after: SUBSET Legacy, changed: BOOLEAN, verifiedAt: Days \cup {Null},
                     repairNeeded: BOOLEAN]

Init ==
    /\ day = 0
    /\ event = [e \in Events |-> [status |-> "none", day |-> 0, counted |-> 0, tokens |-> 0,
                                  attribution |-> "plain", aged |-> FALSE, released |-> FALSE]]
    /\ counter = [p \in Periods |-> Null]
    /\ sums = [s \in Days \X Attribution |-> Nothing]
    /\ pc = [c \in Callers |-> "count"]
    /\ tries = [c \in Callers |-> 0]
    /\ seen = [c \in Callers |-> <<>>]
    /\ recovery = {}
    /\ recon = Idle
    /\ reconciled = Null
    /\ backfill = [after |-> {}, changed |-> FALSE, verifiedAt |-> Null, repairNeeded |-> FALSE]

-----------------------------------------------------------------------------
Written == {e \in Events : event[e].status # "none"}
Ended == {e \in Written : event[e].status # "pending"}
EventsOf(p) == {e \in Written : p \in PeriodsOf(event[e].day)}
SumOf(e) == <<event[e].day, event[e].attribution>>

\* What an event holds on its counters; one of the previous release holds its tokens.
countedTokens(ev) == IF ev.counted = Null THEN ev.tokens ELSE ev.counted

held == [e \in Events |-> countedTokens(event[e])]
used == [e \in Events |-> event[e].tokens]

\* What the events E hold on a counter, and what they add to a sum.
CountedBy(E) == [calls |-> Cardinality(E), tokens |-> SumFunctionOnSet(held, E)]
SummedBy(E) == [calls |-> Cardinality(E), tokens |-> SumFunctionOnSet(used, E)]

Plus(a, calls, tokens) == [calls |-> a.calls + calls, tokens |-> a.tokens + tokens]
Minus(a, b) == Plus(a, -b.calls, -b.tokens)

Present == \A p \in PeriodsOf(day) : counter[p] # Null

\* Those that have begun; another may join within the bound.
Active == {c \in Callers : pc[c] # "count" \/ tries[c] > 0} \cup (Written \cap Legacy)
Joins(e) == \E P \in Parties : Active \cup {e} \subseteq P

Goto(c, place) == pc' = [pc EXCEPT ![c] = place]

-----------------------------------------------------------------------------
\* countAndInsert: locks the counters of the day and the month, and with both present and every
\* limit kept adds to both and writes the event.

holds(limit, value) == limit # Null => value <= limit

\* Mutant: the limits are compared with what the counters held before the call.
within_before(p, amount) ==
    IF p[1] = "day"
    THEN holds(CallsPerDay, counter[p].calls + 1) /\ holds(TokensPerDay, counter[p].tokens)
    ELSE holds(TokensPerMonth, counter[p].tokens)

within(p, amount) ==
    IF p[1] = "day"
    THEN /\ holds(CallsPerDay, counter[p].calls + 1)
         /\ holds(TokensPerDay, counter[p].tokens + amount)
    ELSE holds(TokensPerMonth, counter[p].tokens + amount)

Count(amount) ==
    counter' = [p \in Periods |-> IF p \in PeriodsOf(day) THEN Plus(counter[p], 1, amount)
                                  ELSE counter[p]]

Insert(e, status, counted, tokens, attribution) ==
    event' = [event EXCEPT ![e] = [status |-> status, day |-> day, counted |-> counted,
                                   tokens |-> tokens, attribution |-> attribution,
                                   aged |-> FALSE, released |-> FALSE]]

\* admitModelUsageEvent.
AdmitModelUsageEvent(c) ==
    /\ pc[c] = "count" /\ c \in Calls
    /\ Present
    /\ \/ /\ \A p \in PeriodsOf(day) : within(p, Reserved[c])
          /\ Count(Reserved[c])
          /\ Insert(c, "pending", Reserved[c], 0, "named")
          /\ Goto(c, "calling")
       \/ /\ \E p \in PeriodsOf(day) : ~within(p, Reserved[c])
          /\ Goto(c, "refused")
          /\ UNCHANGED <<event, counter>>
    /\ UNCHANGED <<day, sums, tries, seen, upkeep>>

\* appendModelUsageEvent of recordModelUsage: no limit, and ended as it is written.
AppendModelUsageEvent(c, tokens) ==
    /\ pc[c] = "count" /\ c \in Records
    /\ Present
    /\ Count(tokens)
    /\ Insert(c, "settled", tokens, tokens, "named")
    /\ sums' = [sums EXCEPT ![<<day, "named">>] = Plus(@, 1, tokens)]
    /\ Goto(c, "ended")
    /\ UNCHANGED <<day, tries, seen, upkeep>>

\* A counter of the current period is missing, and the statement changed nothing: startCounters
\* reads the events of each period that has no counter ...
StartCountersReads(c) ==
    /\ pc[c] = "count"
    /\ ~Present
    /\ seen' = [seen EXCEPT ![c] = [p \in {q \in PeriodsOf(day) : counter[q] = Null} |->
                                        CountedBy(EventsOf(p))]]
    /\ Goto(c, "insert")
    /\ UNCHANGED <<day, ledger, tries, upkeep>>

\* ... and inserts them, on conflict do nothing.
started(c) == [p \in Periods |-> IF p \in DOMAIN seen[c] /\ counter[p] = Null THEN seen[c][p]
                                 ELSE counter[p]]

\* After COUNTER_START_ATTEMPTS the caller gives up.
StartCountersInserts(c) ==
    /\ pc[c] = "insert"
    /\ counter' = started(c)
    /\ seen' = [seen EXCEPT ![c] = <<>>]
    /\ tries' = [tries EXCEPT ![c] = @ + 1]
    /\ Goto(c, IF tries[c] + 1 < 3 THEN "count" ELSE "failed")
    /\ UNCHANGED <<day, event, sums, upkeep>>

-----------------------------------------------------------------------------
\* Mutant: the amounts of the settlement go to the counters of the day it is made on.
settledCounters_today(old, counted) ==
    [p \in Periods |-> IF p \in PeriodsOf(day) /\ counter[p] # Null
                       THEN Plus(counter[p], 0, counted - countedTokens(old)) ELSE counter[p]]

\* The counters with what the event held replaced.
settledCounters(old, counted) ==
    [p \in Periods |-> IF p \in PeriodsOf(old.day) /\ counter[p] # Null
                       THEN Plus(counter[p], 0, counted - countedTokens(old)) ELSE counter[p]]

\* settleModelUsageEvent: one statement, for an event whose status is one of from.  An abandoned
\* event is in the sums already, and that part is taken out again.
SettleModelUsageEvent(e, from, status, counted, tokens) ==
    LET old == event[e]
        counts == IF old.status = "pending" THEN 1 ELSE 0
        was == IF old.status = "pending" THEN 0 ELSE old.tokens
    IN IF old.status \in from
       THEN /\ event' = [event EXCEPT ![e] = [old EXCEPT
                   !.status = status, !.counted = counted, !.tokens = tokens, !.aged = FALSE,
                   !.released = old.released \/ status = "abandoned"]]
            /\ counter' = settledCounters(old, counted)
            /\ sums' = [sums EXCEPT ![SumOf(e)] = Plus(@, counts, tokens - was)]
       ELSE UNCHANGED ledger

settlesFrom == {"pending", "abandoned"}

\* settleModelCall of a call that ended: with what the provider reported or the gateway estimated,
\* with a report without tokens, for which the reservation stays, or with nothing, when no answer
\* began.  Its caller gets the answer or the error afterwards.  A call whose process died, or whose
\* admission or settlement was lost, takes no further step.
SettleModelCall(c) ==
    /\ pc[c] = "calling"
    /\ \/ \E tokens \in Uses : SettleModelUsageEvent(c, settlesFrom, "settled", tokens, tokens)
       \/ SettleModelUsageEvent(c, settlesFrom, "settled", Reserved[c], 0)
       \/ SettleModelUsageEvent(c, settlesFrom, "failed", 0, 0)
    /\ Goto(c, "ended")
    /\ UNCHANGED <<day, tries, seen, upkeep>>

\* USAGE_ABANDONED_AFTER_MS since a call was admitted, which may be running.
Age(c) ==
    /\ event[c].status = "pending" /\ ~event[c].aged
    /\ event' = [event EXCEPT ![c].aged = TRUE]
    /\ UNCHANGED <<day, counter, sums, callers, upkeep>>

\* Mutant: the calls of earlier days are not looked at.
pendingCalls_today == {c \in Calls : /\ event[c].status = "pending" /\ event[c].aged
                                     /\ event[c].day = day}

pendingCalls == {c \in Calls : event[c].status = "pending" /\ event[c].aged}

\* releaseAbandonedModelCalls lists the calls and settles each, a statement apart, while calls end
\* all the same.  A tick that dies in between leaves the rest to the next, which lists again.
ListPendingModelUsageEvents ==
    /\ recovery' = pendingCalls
    /\ UNCHANGED <<day, ledger, callers, recon, reconciled, backfill>>

releasesFrom == {"pending"}

ReleaseAbandonedModelCall(c) ==
    /\ c \in recovery
    /\ SettleModelUsageEvent(c, releasesFrom, "abandoned", 0, 0)
    /\ recovery' = recovery \ {c}
    /\ UNCHANGED <<day, callers, recon, reconciled, backfill>>

-----------------------------------------------------------------------------
\* A process of the previous release writes the event of a call that is over, and nothing else.  It
\* is plain when the backfill will find something to fill in.
LegacyWrites(e, tokens, attribution) ==
    /\ event[e].status = "none" /\ Joins(e)
    /\ Insert(e, "settled", Null, tokens, attribution)
    /\ UNCHANGED <<day, counter, sums, callers, upkeep>>

\* Mutant: only the current day is compared, however long ago the last run was.
comparedFrom_today(by, d) == IF by = "repair" \/ reconciled = Null THEN 0 ELSE d

\* The first day whose sums a reconciliation that began on the day d compares: that of the month of
\* the day before the last run, or every day on the first run and for a repair.
comparedFrom(by, d) ==
    IF by = "repair" \/ reconciled = Null THEN 0
    ELSE MonthOf((IF reconciled < d THEN reconciled ELSE d) - 1) * DaysPerMonth

\* reconcileModelUsage takes its lock and reads what the current counters hold beyond their events.
\* One that dies is rolled back: it is one that never began.
ReconcileReads(by) ==
    /\ recon.by = Null
    /\ by = "repair" => backfill.repairNeeded /\ backfill.after = {}
    /\ recon' = [by |-> by, since |-> day,
                 drift |-> [p \in {q \in PeriodsOf(day) : counter[q] # Null} |->
                                Minus(counter[p], CountedBy(EventsOf(p)))]]
    /\ UNCHANGED <<day, ledger, callers, recovery, reconciled, backfill>>

\* The difference is added: what was admitted or ended since it was read stays counted.
corrected(p) == Minus(counter[p], recon.drift[p])

\* The rest of the transaction: it corrects the counters, compares the sums with the ended events
\* and adds the difference, and commits with it what its caller records.  It is one step: a row it
\* corrects stays locked until the commit, and it adds to it what it compared.
ReconcileCommits(by) ==
    /\ recon.by = by
    /\ counter' = [p \in Periods |-> IF p \in DOMAIN recon.drift THEN corrected(p) ELSE counter[p]]
    /\ sums' = [s \in DOMAIN sums |-> IF s[1] >= comparedFrom(by, recon.since)
                                      THEN SummedBy({e \in Ended : SumOf(e) = s}) ELSE sums[s]]
    /\ IF by = "schedule"
       THEN reconciled' = recon.since /\ UNCHANGED backfill
       ELSE backfill' = [backfill EXCEPT !.repairNeeded = FALSE] /\ UNCHANGED reconciled
    /\ recon' = Idle
    /\ UNCHANGED <<day, event, callers, recovery>>

-----------------------------------------------------------------------------
\* The attribution backfill, whose runner is one job and works from what the last batch recorded.
\* Only the events of the previous release have anything to fill in, so a batch is told by which of
\* those it reads.

Unread == (Written \cap Legacy) \ backfill.after

\* A pass is due unless one that changed nothing ended less than a day ago.
PassIsDue == backfill.verifiedAt # day /\ recon.by # "repair"

owed(changed) == backfill.repairNeeded \/ changed

\* Mutant: the backfill fills in the counted amount as well.
filled_counted(ev) == [ev EXCEPT !.attribution = "named", !.counted = ev.tokens]

filled(ev) == [ev EXCEPT !.attribution = "named"]

\* One batch and where it ended, in one transaction.
BackfillBatch(e) ==
    /\ PassIsDue
    /\ e \in Unread
    /\ LET changed == event[e].attribution = "plain" IN
       /\ event' = [event EXCEPT ![e] = filled(@)]
       /\ backfill' = [after |-> backfill.after \cup {e}, changed |-> backfill.changed \/ changed,
                       verifiedAt |-> Null, repairNeeded |-> owed(changed)]
    /\ UNCHANGED <<day, counter, sums, callers, recovery, recon, reconciled>>

\* The batch after the last event ends the pass.
BackfillPassEnds ==
    /\ PassIsDue
    /\ Unread = {}
    /\ backfill' = [after |-> {}, changed |-> FALSE,
                    verifiedAt |-> IF backfill.changed THEN Null ELSE day,
                    repairNeeded |-> backfill.repairNeeded]
    /\ UNCHANGED <<day, ledger, callers, recovery, recon, reconciled>>

ClockTick ==
    /\ day < LastDay
    /\ day' = day + 1
    /\ UNCHANGED <<ledger, callers, upkeep>>

-----------------------------------------------------------------------------
Call(c) ==
    /\ Joins(c)
    /\ \/ StartCountersReads(c) \/ StartCountersInserts(c)
       \/ AdmitModelUsageEvent(c) \/ SettleModelCall(c)
       \/ \E tokens \in Uses : AppendModelUsageEvent(c, tokens)

Reconcilers == {"schedule", "repair"}

Backfill == BackfillPassEnds \/ \E e \in Legacy : BackfillBatch(e)

Recovery ==
    \/ \E c \in Calls : Age(c) \/ ReleaseAbandonedModelCall(c)
    \/ ListPendingModelUsageEvents

Next ==
    \/ \E c \in Callers : Call(c)
    \/ \E e \in Legacy, tokens \in Uses, a \in Attribution : LegacyWrites(e, tokens, a)
    \/ Recovery
    \/ \E by \in Reconcilers : ReconcileReads(by) \/ ReconcileCommits(by)
    \/ Backfill
    \/ ClockTick

Spec == Init /\ [][Next]_vars

\* Calls grow old, and recovery, reconciliation and backfill are schedules whose ticks keep running
\* (TicksKeepRunning of JobExecutor).  The two reconcilers take turns: the advisory lock is a queue.
\* Nothing is assumed of calls, which may hang or die, and of the previous release.
FairSpec ==
    /\ Spec
    /\ WF_vars(Recovery)
    /\ WF_vars(ReconcileReads("schedule")) /\ SF_vars(ReconcileReads("repair"))
    /\ WF_vars(\E by \in Reconcilers : ReconcileCommits(by))
    /\ WF_vars(Backfill)

-----------------------------------------------------------------------------
\* A counter holds what the events of its period hold, whoever started it, and whatever was settled
\* late, on another day, or while a reconciliation compared: it lacks at most events that a process
\* of the previous release wrote (countAndInsert, startCounters, settleModelUsageEvent,
\* reconcileLocked).
CountersMatchEvents ==
    \A p \in Periods : counter[p] # Null =>
        \E missed \in SUBSET (EventsOf(p) \cap Legacy) :
            counter[p] = CountedBy(EventsOf(p) \ missed)

\* The daily sums hold the ended events, each under its attribution and at most those of the
\* previous release missing, unless the backfill has recorded that it owes a comparison: also
\* when it was killed between any two of its transactions (createUsageAttributionBackfill).
SumsMatchEvents ==
    ~backfill.repairNeeded =>
        \E missed \in SUBSET (Ended \cap Legacy) :
            \A s \in DOMAIN sums : sums[s] = SummedBy({e \in Ended \ missed : SumOf(e) = s})

\* What limits are judged by and what is shown agree with the events: the counters, and the sums.
LedgerMatchesEvents == TypeOK /\ CountersMatchEvents /\ SumsMatchEvents

\* The calls of a period, and what admission knew that those count which recovery did not release.
admitted(p) == EventsOf(p) \cap Calls
foreseen == [c \in Calls |-> IF event[c].counted > Reserved[c] THEN Reserved[c]
                             ELSE event[c].counted]
booked(p) == SumFunctionOnSet(foreseen, {c \in admitted(p) : ~event[c].released})

\* However many processes ask at once, the calls of a period never hold more than its limits by
\* what admission knew of them: beyond that is only what a call used above its reservation, or
\* what came from a call that recovery had taken as abandoned (admitModelUsageEvent).
NeverOverbooked ==
    \A d \in Days :
        /\ holds(CallsPerDay, Cardinality(admitted(<<"day", d>>)))
        /\ holds(TokensPerDay, booked(<<"day", d>>))
        /\ holds(TokensPerMonth, booked(<<"month", MonthOf(d)>>))

\* Nothing takes back what a call was settled with: not recovery that listed it before, not a
\* second settlement (releaseAbandonedModelCalls).
SettledIsFinal ==
    [][\A e \in Events : event[e].status \in {"settled", "failed"} =>
           [event'[e] EXCEPT !.attribution = "named"] = [event[e] EXCEPT !.attribution = "named"]]_vars

\* A call whose process died, or that hangs, does not hold its reservation for ever.
EveryReservationEnds == \A c \in Calls : event[c].status = "pending" ~> event[c].status # "pending"

\* The sums come to be those of the events, with every event that a process of the previous release
\* wrote, however long no reconciliation ran (createUsageReconciliation).
SumsConverge ==
    <>[](\A s \in DOMAIN sums : sums[s] = SummedBy({e \in Ended : SumOf(e) = s}))
=============================================================================
