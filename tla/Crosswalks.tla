------------------------------- MODULE Crosswalks -------------------------------
(***************************************************************************)
(* Which disclosures a canonical metric answers, and the lookups over them:   *)
(* packages/frameworks/src/crosswalks/index.ts and index.ts.  The crosswalks  *)
(* are the disclosures' own lists of metrics, inverted, with a hand-made       *)
(* table merged in.                                                           *)
(***************************************************************************)
EXTENDS ClimateDisclosures, CanonicalMetrics, Units

getDisclosuresByFramework ==
    [BRSR |-> BRSR_DISCLOSURES, GRI |-> GRI_DISCLOSURES, SASB |-> SASB_DISCLOSURES,
     TCFD |-> TCFD_DISCLOSURES, IFRS_S1 |-> IFRS_S1_DISCLOSURES,
     IFRS_S2 |-> IFRS_S2_DISCLOSURES_1 \cup IFRS_S2_DISCLOSURES_2,
     CSRD_ESRS |-> ESRS_DISCLOSURES, CDP |-> CDP_DISCLOSURES]
FrameworkCode == DOMAIN getDisclosuresByFramework

GOLDEN_CROSSWALKS ==
   [electricity_kwh |-> [BRSR |-> {"P6.E.1"}, GRI |-> {"GRI 302-1"}, SASB |->
        {"RR-SE-130a.1", "RT-EE-130a.1", "EM-CM-130a.1", "EM-IS-130a.1", "RT-IG-130a.1",
        "TC-IM-130a.1", "TC-SI-130a.1"}, TCFD |-> {"TCFD-Metr-a"}, IFRS_S2 |-> {"S2.29(d)"},
        CSRD_ESRS |-> {"ESRS E1-5"}, CDP |-> {"C8.2a"}],
    electricity_from_renewable_kwh |-> [BRSR |-> {"P6.E.1", "P6.L.4"}, GRI |->
        {"GRI 302-1"}, SASB |-> {"RR-SE-130a.1", "TC-IM-130a.1", "TC-SI-130a.1"}, TCFD |->
        {"TCFD-Metr-a", "TCFD-Metr-c"}, IFRS_S2 |-> {"S2.29(g)"}, CSRD_ESRS |->
        {"ESRS E1-5"}, CDP |-> {"C8.2a"}],
    scope1_total_tco2e |-> [BRSR |-> {"P6.E.8"}, GRI |-> {"GRI 305-1"}, SASB |->
        {"EM-CM-110a.1", "EM-IS-110a.1"}, TCFD |-> {"TCFD-Metr-b", "TCFD-Metr-c"}, IFRS_S2
        |-> {"S2.29(a)"}, CSRD_ESRS |-> {"ESRS E1-6"}, CDP |-> {"C6.1"}],
    scope2_location_tco2e |-> [BRSR |-> {"P6.E.8"}, GRI |-> {"GRI 305-2"}, TCFD |->
        {"TCFD-Metr-b"}, IFRS_S2 |-> {"S2.29(b)"}, CSRD_ESRS |-> {"ESRS E1-6"}, CDP |->
        {"C6.3"}],
    scope2_market_tco2e |-> [BRSR |-> {"P6.E.8"}, GRI |-> {"GRI 305-2"}, TCFD |->
        {"TCFD-Metr-b"}, IFRS_S2 |-> {"S2.29(b)"}, CSRD_ESRS |-> {"ESRS E1-6"}, CDP |->
        {"C6.3"}],
    water_withdrawn_total_kl |-> [BRSR |-> {"P6.E.3", "P6.L.1"}, GRI |-> {"GRI 303-3"}, SASB
        |-> {"RR-SE-140a.1", "EM-CM-140a.1", "EM-IS-140a.1", "TC-IM-130a.2",
        "TC-SI-130a.2"}, CSRD_ESRS |-> {"ESRS E3-4"}, CDP |-> {"W1.2b"}],
    water_discharged_kl |-> [BRSR |-> {"P6.E.6"}, GRI |-> {"GRI 303-4"}, CSRD_ESRS |->
        {"ESRS E3-4"}, CDP |-> {"W1.2b"}],
    water_consumed_kl |-> [BRSR |-> {"P6.L.1"}, GRI |-> {"GRI 303-5"}, SASB |->
        {"RR-SE-140a.1", "TC-IM-130a.2", "TC-SI-130a.2"}, CSRD_ESRS |-> {"ESRS E3-4"}, CDP
        |-> {"W1.2b"}],
    waste_hazardous_kg |-> [BRSR |-> {"P6.E.10"}, GRI |-> {"GRI 306-3"}, SASB |->
        {"RR-SE-150a.1", "RT-EE-150a.1", "EM-CM-150a.1", "EM-IS-150a.1"}, CSRD_ESRS |->
        {"ESRS E5-5"}],
    ltifr |-> [BRSR |-> {"P3.E.11.a"}, GRI |-> {"GRI 403-9"}, SASB |-> {"EM-IS-320a.1",
        "RT-IG-320a.1"}, CSRD_ESRS |-> {"ESRS S1-14"}],
    women_in_workforce_pct |-> [BRSR |-> {"A.III.20.a"}, GRI |-> {"GRI 405-1"}, SASB |->
        {"TC-IM-330a.3", "TC-SI-330a.2"}, CSRD_ESRS |-> {"ESRS S1-9"}],
    gender_pay_gap_pct |-> [BRSR |-> {"P5.E.3"}, GRI |-> {"GRI 405-2"}, CSRD_ESRS |->
        {"ESRS S1-16"}],
    csr_spend_inr |-> [BRSR |-> {"P8.L.2"}, CSRD_ESRS |-> {"ESRS S3-4"}],
    data_breach_count |-> [BRSR |-> {"P9.E.3", "P9.L.5"}, SASB |-> {"TC-IM-230a.1",
        "TC-SI-230a.1"}, CSRD_ESRS |-> {"ESRS S4-4"}]]

golden(key, fw) ==
    IF key \in DOMAIN GOLDEN_CROSSWALKS /\ fw \in DOMAIN GOLDEN_CROSSWALKS[key]
    THEN GOLDEN_CROSSWALKS[key][fw] ELSE {}

\* inverteForFramework.
inverted(key, fw) ==
    {d.section_id : d \in {e \in getDisclosuresByFramework[fw] : key \in e.keys}}

\* buildCrosswalks: the two merged.  A key that neither knows has an empty crosswalk.
goldenFirst(key, fw) == IF golden(key, fw) # {} THEN golden(key, fw) ELSE inverted(key, fw)
merged(key, fw) == inverted(key, fw) \cup golden(key, fw)
getCrosswalk(key) == [fw \in FrameworkCode |-> merged(key, fw)]

KnownKeys ==
    CANONICAL_KEYS \cup DOMAIN GOLDEN_CROSSWALKS
        \cup UNION {d.keys : d \in UNION {getDisclosuresByFramework[fw] : fw \in FrameworkCode}}

getFrameworksContainingMetric(key) == {fw \in FrameworkCode : getCrosswalk(key)[fw] # {}}
getDisclosuresAnsweredByMetric(key) == UNION {getCrosswalk(key)[fw] : fw \in FrameworkCode}

-------------------------------------------------------------------------------
(* Properties.                                                               *)

Disclosures == UNION {{fw} \X getDisclosuresByFramework[fw] : fw \in FrameworkCode}

\* The value of a disclosure's formula when its metrics, and no others, are known: each in
\* its canonical unit.  Of all the values they can have, those that tell a formula that
\* fails from one that does not: none is zero, all are, or one is or is not.
Value(d, amount) ==
    evalNode(d.formula, [key \in d.keys |->
        Number(amount[key], 1, <<getCanonicalMetric(key).canonical_unit>>)])
Amounts(keys) ==
    {[key \in keys |-> 1], [key \in keys |-> 0]}
        \cup UNION {{[key \in keys |-> IF key = k THEN n ELSE 1 - n] : k \in keys} : n \in {0, 1}}

\* A disclosure can be answered from the metrics mapped to it: each is canonical, its
\* template shows no other, and its formula gives a number whatever they are worth: it
\* refers to no other, never divides by zero and adds no metrics of different units.
DisclosureIsAnswered(d) ==
    /\ d.keys \subseteq CANONICAL_KEYS
    /\ d.shown \subseteq d.keys
    /\ d.formula # NoFormula => \A amount \in Amounts(d.keys) : IsNumber(Value(d, amount))

\* The metrics of a formula that only adds.
Added(tree) ==
    LET added[t \in Node] == CASE t[1] = "ref" -> {t[2]}
                               [] t[1] = "bin" /\ t[2] = "+" -> added[t[3][1]] \cup added[t[3][2]]
                               [] OTHER -> {}
    IN added[tree]
IsASum(d) == d.formula # NoFormula /\ d.formula[1] = "bin" /\ Added(d.formula) # {}

\* The metric of two sites as its aggregation rule makes it: a ratio is restated from its
\* parts, which are not known here, so that nothing can be said of it.
RolledUp(key, x, y) == LET rule == getCanonicalMetric(key).aggregation_rule
                       IN CASE rule = "sum" -> x + y
                            [] rule \in {"last", "max"} -> y
                            [] OTHER -> 0

\* An answer that is a sum can be had either way: rolling the metrics up over two sites
\* and then adding them, or adding them at each site and then those.  It would not be the
\* same if one of the addends was a headcount of which the last value wins, or a ratio.
SumsRollUp(d) ==
    IsASum(d) => \A x, y \in {[key \in d.keys |-> 1], [key \in d.keys |-> 0]} :
        Compare(Value(d, [key \in d.keys |-> RolledUp(key, x[key], y[key])]),
                Arithmetic("+", Value(d, x), Value(d, y))) = 0

\* The lookups of a metric agree with the disclosures.  They give all that map it, and no
\* others but those of the hand-made table; an id that they give is that of one disclosure
\* of its framework, and of no other framework; and the frameworks said to contain the
\* metric are those that one of its answers is in.
CrosswalksAgree(key) ==
    /\ \A fw \in FrameworkCode :
          LET ids == getCrosswalk(key)[fw]
              named(id) == {e \in Disclosures : e[2].section_id = id}
          IN  /\ \A d \in getDisclosuresByFramework[fw] : key \in d.keys => d.section_id \in ids
              /\ \A id \in ids : \E d \in getDisclosuresByFramework[fw] :
                    /\ d.section_id = id /\ named(id) = {<<fw, d>>}
                    /\ key \in d.keys \/ id \in golden(key, fw)
    /\ getDisclosuresAnsweredByMetric(key) # {} <=> getFrameworksContainingMetric(key) # {}

\* The registry loads, for no key is given to two metrics, and of the units that a metric
\* is accepted in, those that are known as its own unit is convert to that one.  (The rest
\* cannot be converted at all: see README.)
UnitsOfMetricFit(m) ==
    /\ Loads
    /\ \A u \in m.allowed_units : lookup(u) # {} /\ lookup(m.canonical_unit) # {} =>
                                  canConvert(u, m.canonical_unit)
===============================================================================
