-------------------------------- MODULE Periods --------------------------------
(***************************************************************************)
(* Reporting periods: packages/shared/src/dates.ts.  Fiscal years and their *)
(* quarters for any start of the year, calendar months, and the split of a  *)
(* period into months.                                                      *)
(*                                                                         *)
(* An instant is midnight of a day or the last millisecond of it: twice the *)
(* number of the day, or that plus one.  The code takes one millisecond off *)
(* a midnight to get the end of the day before; here that is - 1 as well.   *)
(* Labels are abstracted to what their regular expressions capture.         *)
(***************************************************************************)
EXTENDS Integers, Sequences, FiniteSets, Functions

CONSTANTS FirstYear, LastYear   \* the years of the calendar (bounds)

ASSUME PeriodsAssumption == FirstYear \in Int /\ LastYear \in Int

\* A month is counted from the year 0, as 12 * year + month - 1, so that month 13 of a
\* year is the first of the next one, as it is for Date.UTC.
MonthIndex(year, month) == 12 * year + month - 1
YearOf(k) == k \div 12
MonthOf(k) == (k % 12) + 1

Leap(y) == (y % 4 = 0 /\ y % 100 # 0) \/ y % 400 = 0

LengthOfMonth(k) == CASE MonthOf(k) = 2 -> IF Leap(YearOf(k)) THEN 29 ELSE 28
                      [] MonthOf(k) \in {4, 6, 9, 11} -> 30
                      [] OTHER -> 31

Months == MonthIndex(FirstYear, 1) .. MonthIndex(LastYear + 1, 12)

\* The number of the first day of a month, and the days of the year before it.
DaysBefore == <<0, 31, 59, 90, 120, 151, 181, 212, 243, 273, 304, 334>>
FirstDay(k) ==
    LET y == YearOf(k)
        leapDays == (y - 1) \div 4 - (y - 1) \div 100 + (y - 1) \div 400
    IN 365 * y + leapDays + DaysBefore[MonthOf(k)] + (IF Leap(y) /\ MonthOf(k) > 2 THEN 1 ELSE 0)

DayOf(t) == t \div 2
MonthHolding(t) == CHOOSE k \in Months : /\ FirstDay(k) <= DayOf(t)
                                         /\ DayOf(t) < FirstDay(k) + LengthOfMonth(k)
DayOfMonth(t) == DayOf(t) - FirstDay(MonthHolding(t)) + 1

\* utc(): a day that the month does not have is one of the next month.
utc(year, month, day) == 2 * (FirstDay(MonthIndex(year, month)) + day - 1)
endOfDayUtc(t) == 2 * DayOf(t) + 1

\* setUTCMonth: the same day of another month, with the same overflow.
MonthsLater(t, n) == 2 * (FirstDay(MonthHolding(t) + n) + DayOfMonth(t) - 1)

MinOf(a, b) == IF a < b THEN a ELSE b
MaxOf(a, b) == IF a > b THEN a ELSE b

-------------------------------------------------------------------------------
(* Fiscal years.  A configuration says on which day of which month they      *)
(* start.                                                                    *)

FiscalYear(year, config) ==
    [year |-> year,
     startsAt |-> utc(year, config.startMonth, config.startDay),
     endsAt |-> utc(year + 1, config.startMonth, config.startDay) - 1]

\* getFiscalYear compares month and day, not the instants.
getFiscalYear(t, config) ==
    LET k == MonthHolding(t)
        started == \/ MonthOf(k) > config.startMonth
                   \/ MonthOf(k) = config.startMonth /\ DayOfMonth(t) >= config.startDay
    IN FiscalYear(IF started THEN YearOf(k) ELSE YearOf(k) - 1, config)

\* parsePeriod of "FY2024-25"; the second year of the label is not looked at.
ParseFiscalYear(year, config) ==
    [start |-> FiscalYear(year, config).startsAt, end |-> FiscalYear(year, config).endsAt]

\* parsePeriod of "Q3 FY2024-25".
ParseQuarter(q, year, config) ==
    LET month == ((config.startMonth - 1 + (q - 1) * 3) % 12) + 1
        inYear == IF config.startMonth + (q - 1) * 3 > 12 THEN year + 1 ELSE year
        start == utc(inYear, month, config.startDay)
    IN [start |-> start, end |-> MonthsLater(start, 3) - 1]

\* parsePeriod of "Apr 2024" and "2024-04".
ParseMonth(year, month) == [start |-> utc(year, month, 1), end |-> utc(year, month + 1, 1) - 1]

\* parsePeriod of "2024-04-01..2024-04-30".
ParseRange(from, to) == [start |-> from, end |-> endOfDayUtc(to)]

-------------------------------------------------------------------------------
(* Lengths and parts of periods.                                             *)

daysInPeriod(p) == DayOf(p.end) - DayOf(p.start) + 1

overlapDays(a, b) ==
    LET start == MaxOf(a.start, b.start)
        end == MinOf(a.end, b.end)
    IN IF end < start THEN 0 ELSE daysInPeriod([start |-> start, end |-> end])

\* The bucket that begins at start, and the first instant after its month.
Bucket(start, end) ==
    LET k == MonthHolding(start)
    IN [start |-> start, end |-> MinOf(2 * FirstDay(k + 1) - 1, end), year |-> YearOf(k), month |-> MonthOf(k)]

\* The months that begin in the period, after its first one: those the loop of
\* splitIntoMonths goes through.
MonthsBeginningIn(p) == {k \in Months : MonthHolding(p.start) < k /\ 2 * FirstDay(k) <= p.end}

splitIntoMonths(p) ==
    [i \in 1 .. Cardinality(MonthsBeginningIn(p)) + 1 |->
        Bucket(IF i = 1 THEN p.start ELSE 2 * FirstDay(MonthHolding(p.start) + i - 1), p.end)]

-------------------------------------------------------------------------------
(* Properties.                                                               *)

\* Every instant is in the fiscal year that getFiscalYear returns for it, the next
\* instant after that year is in the next one, and the four quarters tile the year:
\* wherever the year starts, up to the 28th.  (Where a month has no
\* such day, utc moves the start into the next month, which getFiscalYear does not.)
FiscalYearsTile(t, config) ==
    LET year == getFiscalYear(t, config)
        quarter == [q \in 1 .. 4 |-> ParseQuarter(q, year.year, config)]
    IN config.startDay <= 28 =>
        /\ year.startsAt <= t /\ t <= year.endsAt
        /\ getFiscalYear(year.endsAt + 1, config) = FiscalYear(year.year + 1, config)
        /\ quarter[1].start = ParseFiscalYear(year.year, config).start
        /\ \A q \in 1 .. 3 : quarter[q + 1].start = quarter[q].end + 1
        /\ quarter[4].end = ParseFiscalYear(year.year, config).end

\* The months a period is split into are the whole of it: each begins where the one
\* before it ends, and is the part of its calendar month that is in the period, so that
\* the days of the parts add up; and each could be asked for as a range of days.
MonthsTile(p) ==
    LET part == splitIntoMonths(p)
    IN  /\ part[1].start = p.start
        /\ part[Len(part)].end = p.end
        /\ \A i \in 1 .. Len(part) - 1 : part[i + 1].start = part[i].end + 1
        /\ \A i \in DOMAIN part :
              /\ daysInPeriod(part[i]) = overlapDays(ParseMonth(part[i].year, part[i].month), p)
              /\ ParseRange(2 * DayOf(part[i].start), 2 * DayOf(part[i].end)) =
                    [start |-> part[i].start, end |-> part[i].end]
        /\ SumFunction([i \in DOMAIN part |-> daysInPeriod(part[i])]) = daysInPeriod(p)
===============================================================================
