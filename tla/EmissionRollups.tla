---------------------------- MODULE EmissionRollups ----------------------------
(***************************************************************************)
(* What is read out of the metric events: the emissions of the carbon        *)
(* service (carbon/carbon.service.ts), the figures of the dashboard           *)
(* (dashboard/dashboard.service.ts), and the answers of a report              *)
(* (resolve of brsr/brsr.service.ts).  Each filters and adds on its own.      *)
(*                                                                         *)
(* events is a sequence of metric events, in the order in which the database  *)
(* returns them, and what is found of them a set of positions.  An instant is *)
(* 4 * month + p, months counted from the year 0: p = 0 is the first midnight  *)
(* of the month, 1 the midnight of its last day, 2 a second before its end,    *)
(* and 3 a millisecond.  Amounts are integers, in units of which a kWh makes   *)
(* CEA_TCO2E_PER_KWH; rounding is left out.                                   *)
(***************************************************************************)
EXTENDS Integers, Sequences, FiniteSets, Functions

CEA_TCO2E_PER_KWH == 7

Scope3Keys == {"ghg_scope3_cat1", "ghg_scope3_cat2"}   \* of fifteen

\* ghg_total stands for all keys that are no emission of a scope and no electricity.
Keys == {"ghg_scope1_total", "ghg_scope2_location", "ghg_scope2_market",
         "purchased_electricity_kwh", "ghg_total"} \cup Scope3Keys

\* What there can be in the table.  Nobody reports an event that ends before it begins.
IsLedger(events) ==
    /\ events \in Seq(Range(events))
    /\ \A e \in Range(events) : e.key \in Keys /\ e.from \in Int /\ e.to \in Int
                                /\ e.from <= e.to /\ e.value \in Int

\* The first month of the fiscal year that t is in, April to March.
MonthOf(t) == t \div 4
FiscalYearOf(t) == LET year == MonthOf(t) \div 12
                   IN 12 * (IF MonthOf(t) % 12 >= 3 THEN year ELSE year - 1) + 3
WholeYear(firstMonth) == [from |-> 4 * firstMonth, to |-> 4 * (firstMonth + 11) + 2]

Settled(e) == e.status \in {"APPROVED", "LOCKED"}

\* findMany: an empty list of nodes is no filter.
Fetch(events, nodes, period) ==
    {i \in DOMAIN events : /\ Settled(events[i])
                           /\ nodes = {} \/ events[i].node \in nodes
                           /\ events[i].from >= period.from /\ events[i].to <= period.to}

OfKeys(events, found, keys) == {i \in found : events[i].key \in keys}
ValueOf(events) == [i \in DOMAIN events |-> events[i].value]

\* resolveOverviewPeriod, and activeFy of the dashboard: the fiscal year in which the
\* latest settled event of the tenant ends, or else the one today is in.
YearOfLastRow(events, today) ==
    WholeYear(FiscalYearOf(IF events = <<>> THEN today ELSE events[Len(events)].to))
DefaultPeriod(events, today) ==
    LET ends == {events[i].to : i \in {j \in DOMAIN events : Settled(events[j])}}
    IN WholeYear(FiscalYearOf(IF ends = {} THEN today
                              ELSE CHOOSE t \in ends : \A u \in ends : u <= t))

\* A query that gives no period.  Without one a scope is of the fiscal year of today, the
\* overview of that of the latest event.
Unasked == [period |-> "default"]
resolvePeriod(asked, today) ==
    IF asked = Unasked THEN WholeYear(FiscalYearOf(today)) ELSE asked
resolveOverviewPeriod(events, asked, today) ==
    IF asked = Unasked THEN DefaultPeriod(events, today) ELSE asked

-------------------------------------------------------------------------------
(* CarbonService.                                                            *)

scopeKeys == <<{"ghg_scope1_total"}, {"ghg_scope2_location", "ghg_scope2_market"}, Scope3Keys>>

\* emissions with a scope: a total per key.
emissions(events, scope, nodes, asked, today) ==
    LET found == Fetch(events, nodes, resolvePeriod(asked, today))
    IN [key \in scopeKeys[scope] |->
           SumFunctionOnSet(ValueOf(events), OfKeys(events, found, {key}))]

asTco2e(events) ==
    [i \in DOMAIN events |->
        CASE events[i].key = "purchased_electricity_kwh" -> events[i].value * CEA_TCO2E_PER_KWH
          [] events[i].key = "ghg_total" -> 0
          [] OTHER -> events[i].value]

\* The months that events fall into, with their emissions.
InMonth(events, found, month) == {i \in found : MonthOf(events[i].to) = month}
ByMonth(events, found) ==
    [month \in {MonthOf(events[i].to) : i \in found} |->
        SumFunctionOnSet(asTco2e(events), InMonth(events, found, month))]

\* emissions without one.  What is purchased counts as Scope 2 beside the events of
\* Scope 2 itself.
emissionsOverview(events, nodes, asked, today) ==
    LET found == Fetch(events, nodes, resolveOverviewPeriod(events, asked, today))
        of(keys) == SumFunctionOnSet(asTco2e(events), OfKeys(events, found, keys))
        scope2Location == of({"ghg_scope2_location", "purchased_electricity_kwh"})
    IN [scope1 |-> of({"ghg_scope1_total"}), scope2Location |-> scope2Location,
        scope2Market |-> of({"ghg_scope2_market"}), scope3 |-> of(Scope3Keys),
        total |-> of({"ghg_scope1_total"}) + scope2Location + of(Scope3Keys),
        monthlyTrend |-> ByMonth(events, OfKeys(events, found, Keys \ {"ghg_total"}))]

\* netZero, with its amounts multiplied by 100 and by the years between the two.  The
\* baseline is of the calendar year, and of events of any status.
Baseline(events, year) ==
    SumFunctionOnSet(ValueOf(events), {i \in OfKeys(events, DOMAIN events, {"ghg_total"}) :
                                         MonthOf(events[i].to) \div 12 = year})
netZero(events, target) ==
    LET baseline == Baseline(events, target.baselineYear)
        years == target.targetYear - target.baselineYear
        scale == IF years > 0 THEN years ELSE 1
        reduction == IF years > 0 THEN baseline * target.reductionPercent ELSE 0
    IN [baseline |-> scale * 100 * baseline,
        target |-> scale * baseline * (100 - target.reductionPercent),
        pathway |-> [i \in 1 .. years + 1 |-> scale * 100 * baseline - (i - 1) * reduction]]

-------------------------------------------------------------------------------
(* DashboardService.                                                         *)

isEnergyOrGhg == {"purchased_electricity_kwh", "ghg_scope1_total", "ghg_scope2_location",
                  "ghg_scope2_market"} \cup Scope3Keys
toTco2e(events) ==
    [i \in DOMAIN events |-> IF events[i].key = "purchased_electricity_kwh"
                             THEN events[i].value * CEA_TCO2E_PER_KWH ELSE events[i].value]

\* The sparkline has the twelve months of the year.
fySparkline(events, found, period) ==
    [k \in 1 .. 12 |->
        SumFunctionOnSet(toTco2e(events), InMonth(events, found, MonthOf(period.from) + k - 1))]

priorYear(period) == [from |-> period.from - 48, to |-> period.to - 48]

kpis(events, today) ==
    LET period == DefaultPeriod(events, today)
        emitting(p) == OfKeys(events, Fetch(events, {}, p), isEnergyOrGhg)
    IN [total |-> SumFunctionOnSet(toTco2e(events), emitting(period)),
        before |-> SumFunctionOnSet(toTco2e(events), emitting(priorYear(period))),
        sparkline |-> fySparkline(events, emitting(period), period)]

-------------------------------------------------------------------------------
(* BrsrService.resolve, for one mapping.                                     *)

\* Each key of the mapping in turn takes its rows: a candidate is a key and a row, by
\* their positions.
Candidates(events, keys, nodes, period) ==
    {c \in (DOMAIN keys) \X {i \in Fetch(events, {}, period) : events[i].node \in nodes} :
        events[c[2]].key = keys[c[1]]}

\* A stable sort brings them into the order of descending ends.
SortsBefore(events, c, d) ==
    \/ events[c[2]].to > events[d[2]].to
    \/ /\ events[c[2]].to = events[d[2]].to
       /\ c[1] < d[1] \/ (c[1] = d[1] /\ c[2] < d[2])

\* The set of the value, empty where there is none.
resolve(events, keys, aggregation, nodes, period) ==
    LET candidates == Candidates(events, keys, nodes, period)
        value == [c \in candidates |-> events[c[2]].value]
    IN IF candidates = {} THEN {}
       ELSE {CASE aggregation = "MIN" ->
                    CHOOSE v \in Range(value) : \A w \in Range(value) : v <= w
               [] aggregation = "MAX" ->
                    CHOOSE v \in Range(value) : \A w \in Range(value) : v >= w
               [] aggregation = "LATEST" ->
                    value[CHOOSE c \in candidates :
                            \A d \in candidates \ {c} : SortsBefore(events, c, d)]
               [] aggregation = "FIRST" ->
                    value[CHOOSE c \in candidates :
                            \A d \in candidates \ {c} : SortsBefore(events, d, c)]
               [] OTHER -> SumFunctionOnSet(value, candidates)}   \* SUM, COUNT, WEIGHTED_AVG

-------------------------------------------------------------------------------
(* Properties.                                                               *)

\* The dashboard and the carbon page show one tenant the same year and the same
\* emissions, month by month -- but for the total, in which the dashboard has Scope 2
\* both by location and by market -- and on either page the months add up.
PagesAgree(events, today) ==
    LET period == DefaultPeriod(events, today)
        overview == emissionsOverview(events, {}, Unasked, today)
        page == kpis(events, today)
        inMonth(i) == LET k == MonthOf(period.from) + i - 1
                      IN IF k \in DOMAIN overview.monthlyTrend THEN overview.monthlyTrend[k] ELSE 0
    IN  /\ page.total = overview.total + overview.scope2Market
        /\ \A i \in 1 .. 12 : page.sparkline[i] = inMonth(i)
        /\ SumFunctionOnSet(page.sparkline, 1 .. 12) = page.total
        /\ DOMAIN overview.monthlyTrend \subseteq
              MonthOf(period.from) .. MonthOf(period.from) + 11

\* The overview has what the pages of the three scopes have, and besides only the
\* electricity.
ScopesAddUp(events, nodes, asked, today) ==
    LET overview == emissionsOverview(events, nodes, asked, today)
        scope(n) == emissions(events, n, nodes, asked, today)
        electricity == OfKeys(events, Fetch(events, nodes, resolvePeriod(asked, today)),
                              {"purchased_electricity_kwh"})
    IN  /\ overview.scope1 = scope(1)["ghg_scope1_total"]
        /\ overview.scope2Location = scope(2)["ghg_scope2_location"]
                                       + SumFunctionOnSet(asTco2e(events), electricity)
        /\ overview.scope2Market = scope(2)["ghg_scope2_market"]
        /\ overview.scope3 = SumFunctionOnSet(scope(3), Scope3Keys)

\* That the overview and the pages of the scopes agree, of any nodes, is certain for a
\* period that both are asked for.  Without one it takes a latest settled event of this
\* fiscal year, or none at all.  Where all of them ended before this year, the pages of
\* the scopes are empty, whatever the overview shows.
ScopesAgree(events, nodes, asked, today) ==
    LET thisYear == WholeYear(FiscalYearOf(today))
        past == \A i \in DOMAIN events : Settled(events[i]) => events[i].to < thisYear.from
        none == \A i \in DOMAIN events : ~Settled(events[i])
    IN  /\ asked # Unasked \/ none \/ DefaultPeriod(events, today) = thisYear
              => ScopesAddUp(events, nodes, asked, today)
        /\ asked = Unasked /\ past => \A n \in 1 .. 3 : \A key \in scopeKeys[n] :
                                          emissions(events, n, nodes, asked, today)[key] = 0

\* The year that is shown when none is asked for has the event that it was chosen by,
\* unless that event began in the year before or ends in the last second of its own; no
\* event is counted both in that year and in the one it is compared with; and of the
\* events of these two years only those are in neither that reach from one into the
\* other, or end in the last second between them.
YearHoldsItsEvent(events, today) ==
    LET period == DefaultPeriod(events, today)
        settled == {i \in DOMAIN events : Settled(events[i])}
        shown(p) == Fetch(events, {}, p)
    IN  /\ \A i \in settled : (\A j \in settled : events[j].to <= events[i].to) =>
              \/ i \in shown(period)
              \/ events[i].from < period.from \/ events[i].to = period.to + 1
        /\ shown(period) \cap shown(priorYear(period)) = {}
        /\ \A i \in settled : events[i].from >= period.from - 48 /\ events[i].to <= period.to =>
              \/ i \in shown(period) \cup shown(priorYear(period))
              \/ events[i].from < period.from /\ events[i].to >= period.from - 1

\* The orders in which the database may return events, the latest first.
Orders(events) ==
    {[i \in DOMAIN events |-> events[s[i]]] : s \in
        {s \in Bijection(DOMAIN events, DOMAIN events) :
            \A i, j \in DOMAIN events : i < j => events[s[i]].to >= events[s[j]].to}}

\* What a report says does not depend on the order in which the database returns rows
\* that end together, unless it is the latest or the first of those; and what it says of
\* the whole is what it says of the parts.
AnswersAreStable(events, keys, aggregation, nodes, period) ==
    LET answer(p, ns) == resolve(p, keys, aggregation, ns, period)
        tie == \E i, j \in DOMAIN events : i # j /\ events[i].to = events[j].to
    IN  /\ \/ tie /\ aggregation \in {"LATEST", "FIRST"}
           \/ \A p, q \in Orders(events) : answer(p, nodes) = answer(q, nodes)
        /\ \A p \in Orders(events) :
              LET amount(ns) == IF answer(p, ns) = {} THEN 0 ELSE CHOOSE v \in answer(p, ns) : TRUE
                  parts == UNION {answer(p, {n}) : n \in nodes}
              IN  /\ answer(p, nodes) = {} <=> parts = {}
                  /\ IF aggregation = "SUM"
                     THEN amount(nodes) = SumFunctionOnSet([n \in nodes |-> amount({n})], nodes)
                     ELSE answer(p, nodes) \subseteq parts

\* The pathway to a target that lies ahead goes from the baseline to the target, and down
\* year by year if there is something to reduce.
PathwayMeetsTarget(events, target) ==
    LET z == netZero(events, target)
    IN target.targetYear > target.baselineYear =>
        /\ Head(z.pathway) = z.baseline
        /\ z.pathway[Len(z.pathway)] = z.target
        /\ z.baseline >= 0 /\ target.reductionPercent >= 0 =>
              \A i \in 2 .. Len(z.pathway) : z.pathway[i] <= z.pathway[i - 1]
===============================================================================
