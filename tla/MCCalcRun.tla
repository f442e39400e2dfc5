------------------------------- MODULE MCCalcRun -------------------------------
(* CalcRun on a small instance: the built-in formula for b, one for c that reads *)
(* b, and a second one for c, which a user may create and which reads b without  *)
(* declaring it; a is an emission factor, and people report b in another unit.   *)
(* And, as initial states of their own, samples of the pure parts that runs rest *)
(* on or that belong to them: the order and the language of formulas, reporting  *)
(* periods, units, emission factors, the catalogue of metrics and disclosures,   *)
(* and the routes.  "part" says which of these a behaviour is about.             *)
EXTENDS CalcRun, Crosswalks, EmissionFactors, ApiRoutes, Periods

CONSTANTS
    Lists,            \* of formulas, to be sorted
    Trees,            \* to be written and read
    LanguageTokens,   \* to be read, in any order,
    TextLength        \* up to this many of them

Texts == UNION {[1 .. n -> LanguageTokens] : n \in 0 .. TextLength}

ASSUME SampleAssumption ==
    /\ \A fs \in Lists : /\ fs \in Seq(Range(fs))
                         /\ \A f \in Range(fs) : f # Undefined /\ f.in \in Seq(Range(f.in))
    /\ Trees \subseteq Node
    /\ LanguageTokens \subseteq Tokens
    /\ TextLength \in 0 .. MaxHeight

VARIABLES part, sample

allVars == <<vars, part, sample>>

NewFormula(id, out, in) ==
    [id |-> id, out |-> out, in |-> in, reads |-> ToSet(in), unit |-> "t"]

MCBuiltIn == NewFormula("builtin", "b", <<"a">>)
MCSeeded == {NewFormula("f1", "c", <<"b", "a">>)}
MCFormulas == MCSeeded \cup {[NewFormula("f2", "c", <<"a">>) EXCEPT !.reads = {"a", "b"}]}
MCFragile == MCFormulas \ MCSeeded
MCRequests == {{}, {"c"}}
MCReported == {<<"b", "mwh">>}

-------------------------------------------------------------------------------
(* Samples.                                                                  *)

\* Lists of up to three formulas over three keys, with repeated outputs and cycles.
OrderFormulas == {NewFormula(id, out, in) : id \in {1, 2}, out \in {"a", "b"},
                                            in \in {<<>>, <<"a">>, <<"b">>, <<"b", "c">>}}
                   \cup {NewFormula(3, "c", <<"a">>)}
MCLists == UNION {[1 .. n -> OrderFormulas] : n \in 0 .. 3}

\* Trees of up to two levels of operators over one reference.
RefX == Ref("x")
Over(S) ==
    {RefX} \cup {Unary(o, a) : o \in {"-", "!"}, a \in S}
        \cup {Bin(o, a, b) : o \in {"||", "&&", "==", "<", "-", "/"}, a \in S, b \in S}
        \cup {Cond(t, a, b) : t \in S, a \in S, b \in S} \cup {Call("f", <<a>>) : a \in S}
MCTrees == Over(Over({RefX})) \cup {Call("f", <<>>), Call("f", <<Num(1), Cond(RefX, RefX, RefX)>>)}

MCTokens == {Token("ident", "x"), Op("-"), Op("&&"), Mark("lparen"), Mark("rparen"),
             Mark("qmark"), Mark("colon"), Mark("comma")}

\* The first and the last days of the months around a leap day, morning and end; years
\* that start in several months, on the 1st, the 6th and the 28th; and periods of one day
\* to a little over a year.
Days == {FirstDay(k) + d : k \in MonthIndex(2023, 12) .. MonthIndex(2025, 2),
                             d \in {0, 4, 5, 26, 27, 28}}
Instants == {2 * d : d \in Days} \cup {2 * d + 1 : d \in Days}
Configs == [startMonth : {1, 2, 4, 12}, startDay : {1, 6, 28}]
Starts == {2 * (FirstDay(MonthIndex(2023, 12)) + d) : d \in {30, 31, 46, 89, 90, 91}}
Lengths == {1, 2, 28, 29, 30, 31, 32, 59, 60, 61, 62, 91, 92, 300, 366, 367}
Spans == {[start |-> s, end |-> s + 2 * n - 1] : s \in Starts, n \in Lengths}

MCInit ==
    /\ Init
    /\ \/ part = "runs" /\ sample = {}
       \/ part = "order" /\ sample \in Lists
       \/ part = "tree" /\ sample \in Trees
       \/ part = "text" /\ sample \in Texts
       \/ part = "day" /\ sample \in Instants \X Configs
       \/ part = "span" /\ sample \in Spans
       \/ part = "unit" /\ sample \in Symbols
       \/ part = "metric" /\ sample \in ALL
       \/ part = "disclosure" /\ sample \in Disclosures
       \/ part = "key" /\ sample \in KnownKeys
       \/ part = "factor" /\ sample \in FactorSamples
       \/ part = "route" /\ sample \in UNION {ToSet(c) : c \in Controllers}
       \/ part = "hook" /\ sample \in Queries \cup Mutations

\* Idempotency keys are told apart by being equal or not: the r-th run has one of the
\* first r.
KeysInOrder == \A r \in Runs : run[r] # NoRun => run[r].idempotencyKey <= r

MCNext == part = "runs" /\ Next /\ KeysInOrder' /\ UNCHANGED <<part, sample>>
MCSpec == MCInit /\ [][MCNext]_allVars /\ (part = "runs" => Fairness)

-------------------------------------------------------------------------------
(* The properties of the pure parts, of the samples.                         *)

\* Formulas are ordered and read as they are meant: topoSortFormulas orders a list or
\* refuses it, the latter only for a cycle (SortIsSound of FormulaOrder), among them every
\* list that the runs here can sort (SortsAreSound of CalcRun); what is written for a tree,
\* with no more parentheses than precedence asks for, is parsed to that tree
\* (WrittenIsParsed of FormulaLanguage); and nothing is accepted that is not a formula
\* (ParsedIsWritten).
FormulasAreSound == /\ part = "runs" => SortsAreSound
                    /\ part = "order" => SortIsSound(sample)
                    /\ part = "tree" => WrittenIsParsed(sample)
                    /\ part = "text" => ParsedIsWritten(sample)

\* What runs and reports rest on fits together: fiscal years and their quarters tile time
\* (FiscalYearsTile of Periods), the months of a period are the whole of it (MonthsTile),
\* every symbol of a unit has one meaning (UnitIsResolved of Units), the units a metric is
\* accepted in fit its own (UnitsOfMetricFit of Crosswalks), the lookups of a metric agree
\* with the disclosures (CrosswalksAgree), each disclosure can be answered from its
\* metrics (DisclosureIsAnswered), an answer that is a sum rolls up (SumsRollUp), and
\* emission factors and potentials are consistent (FactorsAreSound of EmissionFactors);
\* and routes are reached and serve the hooks of the web application, which have keys of
\* their own (RouteIsReached, HookIsServed and KeysAreDistinct of ApiRoutes).
CatalogueIsSound == /\ part = "day" => FiscalYearsTile(sample[1], sample[2])
                    /\ part = "span" => MonthsTile(sample)
                    /\ part = "unit" => UnitIsResolved(sample)
                    /\ part = "metric" => UnitsOfMetricFit(sample)
                    /\ part = "key" => CrosswalksAgree(sample)
                    /\ part = "disclosure" => DisclosureIsAnswered(sample[2]) /\ SumsRollUp(sample[2])
                    /\ part = "factor" => FactorsAreSound(sample)
                    /\ part = "route" => RouteIsReached(sample)
                    /\ part = "hook" => HookIsServed(sample) /\ KeysAreDistinct(sample)
===============================================================================
