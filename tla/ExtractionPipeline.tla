-------------------------- MODULE ExtractionPipeline --------------------------
(***************************************************************************)
(* What the AI engine makes of one document: the text layer of the file or  *)
(* Document AI, the dictionary and the language model for what it misses,   *)
(* validation, the score that decides on review, and the answer that goes   *)
(* back to the API.                                                         *)
(*                                                                         *)
(* A document is given by what the two ways of reading it yield: pairs of a *)
(* canonical label and a value, rows of numbers beside an energy unit, and  *)
(* what the model would say.  Dates are numbers; amounts and readings are   *)
(* decimals of so many places, as whole numbers of their last place: Scale   *)
(* of them make one.  Confidence is in thousandths.                          *)
(***************************************************************************)
EXTENDS Integers, Sequences, FiniteSets, FiniteSetsExt, Functions

CONSTANTS Files,     \* the documents the engine is sent
          Scale      \* 10 to the places of the decimals on them

VARIABLES file,      \* the document in hand
          answer     \* the response, or None

vars == <<file, answer>>

None == [status |-> "none"]

\* The model gives a confidence from 0 to 1, as it is asked to.
Pairs == [label : STRING, value : Int, exact : BOOLEAN, conf : 0 .. 1000]
Said == [value : Int, conf : 0 .. 1000]

LayoutOK(layout) == /\ layout.pairs \in Seq(Pairs)
                    /\ layout.rows \in Seq(Seq(Int))
                    /\ \A l \in DOMAIN layout.said : layout.said[l] \in Said
                    /\ layout.garbled \in BOOLEAN
                    /\ layout.typeConf \in 0 .. 1000

PipelineAssumption ==
    /\ \A f \in Files : f.text \in BOOLEAN /\ LayoutOK(f.native) /\ LayoutOK(f.scan)
    /\ Scale \in Nat \ {0}

Critical == {"account_number", "bill_amount", "bill_date"}
Dates == {"bill_date", "due_date"}
Charges == {"energy_charge", "rebate"}

ReviewThreshold == 950

Abs(n) == IF n < 0 THEN -n ELSE n
Largest(a, b) == IF a > b THEN a ELSE b
Least(a, b) == IF a < b THEN a ELSE b

\* Stands for a value that is no number, and no date.
Text == -1
Number(v) == v # Text

-------------------------------------------------------------------------------
(* map_layout                                                                *)

Field(value, conf) == [value |-> value, conf |-> conf, status |-> "UNVALIDATED"]

\* _plausible: a date must look like one; the other labels modelled take any value.
Plausible(label, value) == label \in Dates => Number(value)

\* The confidence of a pair: a label that only contains an alias counts 0.85.
PairConf(pair) == (pair.conf * (IF pair.exact THEN 1000 ELSE 955) + 500) \div 1000

\* Charges are kept whatever their value.
Kept(pair) == pair.label \in Charges \/ Plausible(pair.label, pair.value)

\* A later pair never replaces an earlier one of its label.
FirstKept(pairs, l) ==
    pairs[Min({i \in DOMAIN pairs : pairs[i].label = l /\ Kept(pairs[i])})]

FromDictionary(pairs) ==
    [l \in {pairs[i].label : i \in {i \in DOMAIN pairs : Kept(pairs[i])}} |->
        Field(FirstKept(pairs, l).value, PairConf(FirstKept(pairs, l)))]

\* LLM fallback: only for critical fields that are still missing.
WithModel(found, said) ==
    [l \in DOMAIN found \cup (DOMAIN said \cap Critical) |->
        IF l \in DOMAIN found THEN found[l] ELSE Field(said[l].value, said[l].conf)]

\* As if the difference need not be on the row.
AnyTriple(row) ==
    {t \in (DOMAIN row) \X (DOMAIN row) \X (DOMAIN row) :
        /\ Cardinality({t[1], t[2], t[3]}) = 3
        /\ row[t[1]] >= 100 * Scale
        /\ row[t[2]] > row[t[1]]
        /\ row[t[3]] > 0}

\* Positions of a row at which a previous reading, a current one and their difference are,
\* the last to less than half a unit.
Triples(row) ==
    {t \in (DOMAIN row) \X (DOMAIN row) \X (DOMAIN row) :
        /\ Cardinality({t[1], t[2], t[3]}) = 3
        /\ row[t[1]] >= 100 * Scale
        /\ row[t[2]] > row[t[1]]
        /\ 2 * Abs((row[t[2]] - row[t[1]]) - row[t[3]]) < Scale
        /\ row[t[3]] > 0}

Before(s, t) == \/ s[1] < t[1]
                \/ s[1] = t[1] /\ s[2] < t[2]
                \/ s[1] = t[1] /\ s[2] = t[2] /\ s[3] <= t[3]

\* The triple with the largest previous reading; the first of several.
BestTriple(row) ==
    LET largest == {t \in Triples(row) : \A s \in Triples(row) : row[s[1]] <= row[t[1]]}
    IN  CHOOSE t \in largest : \A s \in largest : Before(t, s)

\* The first number of the row that could be the multiplying factor.
Multiplier(row, t) ==
    LET Fits(n) == /\ 0 < n /\ n <= 1000 * Scale
                   /\ 2 * Abs((row[t[2]] - row[t[1]]) * n - Scale * row[t[3]]) < Scale * Scale
        fits == {i \in DOMAIN row : Fits(row[i])}
    IN  IF fits = {} THEN Scale ELSE row[Min(fits)]

Meter(row) ==
    LET t == BestTriple(row)
    IN [previous |-> Field(row[t[1]], 900),
        current |-> Field(row[t[2]], 900),
        factor |-> Field(Multiplier(row, t), 900),
        consumption |-> Field(row[t[3]], 900)]

\* _parse_meters: a row in which no triple balances is not a meter.
Meters(rows) == [i \in {i \in DOMAIN rows : Triples(rows[i]) # {}} |-> Meter(rows[i])]

\* All rows are in kWh: the first meter is also the energy taken from the grid.
GridImport(meters) ==
    IF DOMAIN meters = {} THEN <<>> ELSE <<meters[Min(DOMAIN meters)].consumption>>

MapLayout(layout) ==
    LET found == WithModel(FromDictionary(layout.pairs), layout.said)
        meters == Meters(layout.rows)
    IN [fields |-> Restrict(found, (DOMAIN found) \ Charges),
        charges |-> Restrict(found, (DOMAIN found) \cap Charges),
        meters |-> meters,
        flow |-> GridImport(meters),
        type |-> Field("ELECTRICITY_BILL", layout.typeConf)]

-------------------------------------------------------------------------------
(* validate                                                                  *)

ReadingsBalance(m) ==
    Abs((m.current.value - m.previous.value) * m.factor.value - Scale * m.consumption.value)
       <= Largest(Scale * Scale, (Scale * m.consumption.value) \div 200)

Marked(f, st) == [f EXCEPT !.status = st]

MarkMeter(m) ==
    LET st == IF ReadingsBalance(m) THEN "VALID" ELSE "INVALID"
    IN [previous |-> Marked(m.previous, st), current |-> Marked(m.current, st),
        factor |-> m.factor, consumption |-> Marked(m.consumption, st)]

ValueOf(fields, l) == IF l \in DOMAIN fields THEN fields[l].value ELSE Text

SignedCharge(charges, l) ==
    LET n == IF Number(ValueOf(charges, l)) THEN charges[l].value ELSE 0
    IN  IF l = "rebate" THEN -n ELSE n

\* The charges that were read add up to the amount of the bill, or nearly.
ChargesReconcile(doc) ==
    LET target == doc.fields["bill_amount"].value
        total == SignedCharge(doc.charges, "energy_charge") + SignedCharge(doc.charges, "rebate")
    IN  Abs(total - target) <= Largest(5 * Scale, Abs(target) \div 50)

CanReconcile(doc) == DOMAIN doc.charges # {} /\ Number(ValueOf(doc.fields, "bill_amount"))

CanCompareDates(doc) == \A l \in Dates : Number(ValueOf(doc.fields, l))
DatesOrdered(doc) == doc.fields["bill_date"].value <= doc.fields["due_date"].value

\* amount_plausibility: ten digits that begin like a mobile number, or too much money.
LooksLikePhone(n) == n >= 1000 * Scale
AmountImplausible(doc) == Number(ValueOf(doc.fields, "bill_amount"))
                             /\ LooksLikePhone(doc.fields["bill_amount"].value)

\* The statuses of the checks that could be made.
Checks(doc) ==
    {IF ReadingsBalance(doc.meters[i]) THEN "VALID" ELSE "INVALID" : i \in DOMAIN doc.meters}
    \cup (IF CanReconcile(doc) THEN {IF ChargesReconcile(doc) THEN "VALID" ELSE "FLAGGED"} ELSE {})
    \cup (IF CanCompareDates(doc) THEN {IF DatesOrdered(doc) THEN "VALID" ELSE "INVALID"} ELSE {})
    \cup (IF AmountImplausible(doc) THEN {"FLAGGED"} ELSE {})

Overall(checks) == IF "INVALID" \in checks THEN "INVALID"
                   ELSE IF "FLAGGED" \in checks THEN "FLAGGED"
                   ELSE IF checks # {} THEN "VALID" ELSE "UNVALIDATED"

Validate(doc) ==
    [fields |-> IF AmountImplausible(doc)
                THEN [doc.fields EXCEPT !["bill_amount"] = Marked(@, "FLAGGED")]
                ELSE doc.fields,
     charges |-> doc.charges,
     meters |-> [i \in DOMAIN doc.meters |-> MarkMeter(doc.meters[i])],
     flow |-> doc.flow,
     type |-> doc.type,
     overall |-> Overall(Checks(doc))]

-------------------------------------------------------------------------------
(* score                                                                     *)

Scored(f) ==
    [f EXCEPT !.conf = CASE f.status = "VALID" -> Least(1000, @ + 30)
                         [] f.status = "INVALID" -> (@ + 1) \div 2
                         [] f.status = "FLAGGED" -> (@ * 6 + 5) \div 10
                         [] OTHER -> @]

Weight(l) == IF l \in Critical THEN 3 ELSE 1

Total(h) == MapThenSumSet(LAMBDA x : h[x], DOMAIN h)

MeterConf(m) == m.previous.conf + m.current.conf + m.factor.conf + m.consumption.conf

\* Every field that was found counts in the confidence of the document, the critical
\* ones three times.
WeightedSum(doc) == Total([l \in DOMAIN doc.fields |-> Weight(l) * doc.fields[l].conf])
                      + Total([l \in DOMAIN doc.charges |-> doc.charges[l].conf])
                      + Total([i \in DOMAIN doc.meters |-> MeterConf(doc.meters[i])])
                      + Total([i \in DOMAIN doc.flow |-> doc.flow[i].conf])
                      + doc.type.conf

Weights(doc) == Total([l \in DOMAIN doc.fields |-> Weight(l)])
                  + Total([l \in DOMAIN doc.charges |-> 1])
                  + Total([i \in DOMAIN doc.meters |-> 4])
                  + Total([i \in DOMAIN doc.flow |-> 1])
                  + 1

ScoredMeter(m) == [previous |-> Scored(m.previous), current |-> Scored(m.current),
                   factor |-> Scored(m.factor), consumption |-> Scored(m.consumption)]

WithScores(doc) ==
    [doc EXCEPT !.fields = [l \in DOMAIN doc.fields |-> Scored(doc.fields[l])],
                !.meters = [i \in DOMAIN doc.meters |-> ScoredMeter(doc.meters[i])]]

OverallConfidence(doc) == (2 * WeightedSum(doc) + Weights(doc)) \div (2 * Weights(doc))

\* There is no reason for a review.
Ready(doc, confidence) == /\ Critical \subseteq DOMAIN doc.fields
                          /\ doc.overall \notin {"INVALID", "FLAGGED"}
                          /\ confidence >= ReviewThreshold

Score(doc) == LET scored == WithScores(doc)
                  confidence == OverallConfidence(scored)
              IN  [doc |-> scored, confidence |-> confidence, review |-> ~Ready(scored, confidence)]

-------------------------------------------------------------------------------
(* process                                                                   *)

\* _run_di
RunDI(layout) == Score(Validate(MapLayout(layout)))

\* The model was asked, and gave a confidence that is no number: fill raises.
Raises(layout) == /\ layout.garbled
                  /\ ~(Critical \subseteq DOMAIN FromDictionary(layout.pairs))

CriticalHealth(r) ==
    Cardinality({l \in Critical \cap DOMAIN r.doc.fields :
                   r.doc.fields[l].status \notin {"FLAGGED", "INVALID"}})

Better(alt, native) ==
    \/ CriticalHealth(alt) > CriticalHealth(native)
    \/ CriticalHealth(alt) = CriticalHealth(native) /\ alt.confidence > native.confidence

\* Document AI is not configured, answers, or raises.
Clouds == {"off", "up", "down"}

\* The document has a text layer: read it, and ask Document AI if that looks weak, which
\* may raise at no cost.
FromText(f, cloud) ==
    LET native == RunDI(f.native)
    IN  IF /\ native.review /\ cloud = "up" /\ ~Raises(f.scan)
           /\ Better(RunDI(f.scan), native)
        THEN RunDI(f.scan)
        ELSE native

\* A scan that only Document AI could read is never ready without it.
BestEffort(f) == [RunDI(f.native) EXCEPT !.review = TRUE]

Failed == [status |-> "FAILED"]

Process(f, cloud) ==
    CASE f.text /\ ~Raises(f.native) -> FromText(f, cloud)
      [] f.text /\ Raises(f.native) -> Failed
      [] ~f.text /\ cloud = "up" /\ ~Raises(f.scan) -> RunDI(f.scan)
      [] ~f.text /\ cloud = "up" /\ Raises(f.scan) -> Failed
      [] ~f.text /\ cloud = "down" -> Failed
      [] ~f.text /\ cloud = "off" /\ ~Raises(f.native) -> BestEffort(f)
      [] ~f.text /\ cloud = "off" /\ Raises(f.native) -> Failed

-------------------------------------------------------------------------------
(* The answer.                                                               *)

\* _to_response: every field with the one review flag of the document; the charges stay
\* behind.
Response(r) ==
    IF r = Failed THEN r
    ELSE [status |-> IF r.review THEN "NEEDS_REVIEW" ELSE "OK",
          values |-> [l \in DOMAIN r.doc.fields |-> r.doc.fields[l].value],
          consumption |-> [i \in DOMAIN r.doc.meters |-> r.doc.meters[i].consumption.value],
          result |-> r]

TypeOK == /\ file \in Files
          /\ answer = None \/ answer.status \in {"OK", "NEEDS_REVIEW", "FAILED"}
          /\ answer \notin {None, Failed} =>
                 /\ answer.result.confidence \in 0..1000
                 /\ \A l \in DOMAIN answer.values : answer.result.doc.fields[l].conf \in 0..1000

Init == /\ file \in Files
        /\ answer = None

\* _run_and_callback up to the callback, which always has something to deliver.
Extract(cloud) ==
    /\ answer = None
    /\ answer' = Response(Process(file, cloud))
    /\ UNCHANGED file

Next == \E cloud \in Clouds : Extract(cloud)

Spec == Init /\ [][Next]_vars

-------------------------------------------------------------------------------
(* Properties.                                                               *)

\* What goes back as OK, and is stored without the flag for review, is sound as it is
\* sent, whichever of the two readings was kept: all critical fields are in it, the bill
\* is not due before its date, the charges add up to the amount, which is not a
\* telephone number.
ReadyIsSound ==
    answer.status = "OK" =>
        LET v == answer.values
            doc == answer.result.doc
        IN  /\ Critical \subseteq DOMAIN v
            /\ "due_date" \in DOMAIN v /\ Number(v["bill_date"]) /\ Number(v["due_date"])
                  => v["bill_date"] <= v["due_date"]
            /\ Number(v["bill_amount"]) => ~LooksLikePhone(v["bill_amount"])
            /\ CanReconcile(doc) => ChargesReconcile(doc)

\* Asking Document AI never makes it worse: as many critical fields are trusted as the
\* text layer gave, and a text layer that is ready is what is sent.
EscalationHelps ==
    answer \notin {None, Failed} /\ file.text =>
        /\ CriticalHealth(answer.result) >= CriticalHealth(RunDI(file.native))
        /\ ~RunDI(file.native).review => answer.result = RunDI(file.native)

\* A document with a text layer fails for no fault of Document AI, and a document that
\* only Document AI can read is not passed as OK while it is away.
FailsForAReason ==
    /\ answer = Failed /\ file.text => Raises(file.native)
    /\ ~file.text /\ answer.status = "OK" => answer.result = RunDI(file.scan)

\* The consumption is the difference of the readings, to less than half a unit, and the
\* factor changes it by less than one.
PlainDifference(m) ==
    LET d == m.current.value - m.previous.value
    IN  /\ 2 * Abs(d - m.consumption.value) < Scale
        /\ d * Abs(m.factor.value - Scale) < Scale * Scale

\* The reading check of validate cannot fail: a row of the table is a meter only if its
\* difference is on the row, or nearly, and a meter whose consumption is a multiple of the
\* difference is reported with the difference, whatever multiplying factor the bill gives.
MetersAlwaysBalance ==
    answer \notin {None, Failed} =>
        \A i \in DOMAIN answer.result.doc.meters :
            LET m == answer.result.doc.meters[i]
            IN  m.consumption.status = "VALID" /\ PlainDifference(m)

\* What the engine answers of a document is sound: the four properties of an answer.
PipelineIsSound == ReadyIsSound /\ EscalationHelps /\ FailsForAReason /\ MetersAlwaysBalance
===============================================================================
