---------------------------- MODULE BrsrDisclosures ----------------------------
(***************************************************************************)
(* The disclosures of the BRSR: packages/frameworks/src/frameworks/brsr.ts,  *)
(* one definition for each of its arrays (a long array in parts).            *)
(* A disclosure has its section id, the canonical metrics mapped to it, the  *)
(* tree of its formula, and the metrics its narrative template shows.        *)
(* Question texts, response types and the mandatory flags are left out.      *)
(***************************************************************************)
EXTENDS FormulaLanguage

NoFormula == <<"none">>
Answer(id, keys, formula, shown) ==
    [section_id |-> id, keys |-> keys, formula |-> formula, shown |-> shown]
Plain(id, keys) == Answer(id, keys, NoFormula, {})

\* The formulas: a sum of metrics, and a ratio guarded against an empty whole.
Plus(keys) == FoldLeft(LAMBDA t, k : Bin("+", t, Ref(k)), Ref(keys[1]), Tail(keys))
Guarded(whole, value) == Cond(Bin(">", whole, Num(0)), value, Num(0))
Ratio(part, whole) == Guarded(whole, Bin("/", part, whole))
Percentage(part, whole) == Guarded(whole, Bin("*", Bin("/", part, whole), Num(100)))

\* The keys of the fifteen categories of Scope 3; the other files spell them out anew.
SCOPE3_KEYS == <<
    "scope3_cat1_tco2e", "scope3_cat2_tco2e", "scope3_cat3_tco2e", "scope3_cat4_tco2e",
    "scope3_cat5_tco2e", "scope3_cat6_tco2e", "scope3_cat7_tco2e", "scope3_cat8_tco2e",
    "scope3_cat9_tco2e", "scope3_cat10_tco2e", "scope3_cat11_tco2e", "scope3_cat12_tco2e",
    "scope3_cat13_tco2e", "scope3_cat14_tco2e", "scope3_cat15_tco2e">>

-------------------------------------------------------------------------------
(* BRSR: packages/frameworks/src/frameworks/brsr.ts                           *)

SECTION_A == {
    Plain("A.I.1", {}),
    Plain("A.I.2", {}),
    Plain("A.II.16", {}),
    Answer("A.III.18.a", {"employee_count_total", "employee_count_male", "employee_count_female",
        "employee_count_perm", "employee_count_temp", "employee_count_contract"}, NoFormula,
        {"employee_count_total", "employee_count_male", "employee_count_female"}),
    Plain("A.III.18.b", {"employee_count_pwd"}),
    Answer("A.III.20.a", {"women_in_workforce_pct", "women_in_management_pct", "women_on_board_pct"},
        Ref("women_in_workforce_pct"), {"women_in_workforce_pct", "women_in_management_pct",
        "women_on_board_pct"}),
    Answer("A.III.21", {"employee_turnover", "employee_count_perm"},
        Percentage(Ref("employee_turnover"), Ref("employee_count_perm")), {"employee_turnover"})}

SECTION_B == {
    Plain("B.1", {}),
    Plain("B.6", {}),
    Plain("B.7", {})}

P1 == {
    Answer("P1.E.1", {"anticorruption_training_pct", "training_coverage_pct"},
        Ref("anticorruption_training_pct"), {"anticorruption_training_pct"}),
    Answer("P1.E.2", {"fines_paid_inr"}, Ref("fines_paid_inr"), {"fines_paid_inr"}),
    Answer("P1.E.3", {"corruption_cases_disciplinary"}, Ref("corruption_cases_disciplinary"),
        {"corruption_cases_disciplinary"}),
    Answer("P1.E.4", {"whistleblower_cases_count"}, Ref("whistleblower_cases_count"), {}),
    Plain("P1.E.5", {}),
    Plain("P1.L.1", {}),
    Plain("P1.L.2", {})}

P2 == {
    Plain("P2.E.1", {}),
    Plain("P2.E.2", {}),
    Plain("P2.E.3", {"plastic_waste_kg", "e_waste_kg", "waste_hazardous_kg"}),
    Plain("P2.E.4", {"plastic_waste_kg", "e_waste_kg"}),
    Plain("P2.L.1", {}),
    Answer("P2.L.2", {"recycled_materials_tonnes", "virgin_materials_tonnes"},
        Percentage(Ref("recycled_materials_tonnes"), Plus(<<"recycled_materials_tonnes",
        "virgin_materials_tonnes">>)), {}),
    Plain("P2.L.3", {"plastic_waste_kg", "e_waste_kg", "waste_hazardous_kg"})}

P3_1 == {
    Plain("P3.E.1.a", {}),
    Plain("P3.E.1.b", {}),
    Plain("P3.E.2", {}),
    Plain("P3.E.3", {"employee_count_pwd"}),
    Plain("P3.E.4", {}),
    Plain("P3.E.5", {}),
    Plain("P3.E.6", {}),
    Plain("P3.E.7", {}),
    Answer("P3.E.8", {"training_hours_total", "training_hours_ehs", "training_hours_skill",
        "training_coverage_pct", "training_hours_per_employee"}, Ref("training_hours_total"),
        {"training_hours_total", "training_hours_per_employee", "training_coverage_pct"}),
    Plain("P3.E.9", {})}

P3_2 == {
    Plain("P3.E.10", {}),
    Answer("P3.E.11.a", {"ltifr", "trifr"}, Ref("ltifr"), {"ltifr", "trifr"}),
    Answer("P3.E.11.b", {"trifr"}, Ref("trifr"), {"trifr"}),
    Answer("P3.E.11.c", {"fatality_count_employees", "fatality_count_contractors"},
        Plus(<<"fatality_count_employees", "fatality_count_contractors">>), {}),
    Answer("P3.E.11.d", {"occupational_disease_cases"}, Ref("occupational_disease_cases"), {}),
    Plain("P3.E.12", {}),
    Plain("P3.E.13", {"human_rights_complaints_received", "human_rights_complaints_resolved"}),
    Plain("P3.E.14", {}),
    Plain("P3.E.15", {}),
    Plain("P3.L.1", {})}

P3_3 == {
    Plain("P3.L.2", {})}

P4 == {
    Plain("P4.E.1", {}),
    Plain("P4.E.2", {"local_communities_engaged"}),
    Plain("P4.L.1", {}),
    Plain("P4.L.2", {"csr_beneficiaries_count"})}

P5_1 == {
    Answer("P5.E.1", {"human_rights_training_pct"}, Ref("human_rights_training_pct"),
        {"human_rights_training_pct"}),
    Plain("P5.E.2", {}),
    Answer("P5.E.3", {"median_remuneration_male", "median_remuneration_female", "gender_pay_gap_pct",
        "ceo_to_worker_pay_ratio"}, Ref("gender_pay_gap_pct"), {"gender_pay_gap_pct",
        "ceo_to_worker_pay_ratio"}),
    Plain("P5.E.4", {}),
    Plain("P5.E.5", {}),
    Answer("P5.E.6", {"discrimination_complaints", "child_labour_incidents", "forced_labour_incidents",
        "human_rights_complaints_received", "human_rights_complaints_resolved"},
        Plus(<<"discrimination_complaints", "child_labour_incidents", "forced_labour_incidents">>),
        {"human_rights_complaints_received", "human_rights_complaints_resolved",
        "child_labour_incidents", "forced_labour_incidents"})}

P5_2 == {
    Plain("P5.E.7", {}),
    Plain("P5.E.8", {}),
    Plain("P5.E.9", {}),
    Plain("P5.L.1", {}),
    Plain("P5.L.2", {}),
    Plain("P5.L.3", {}),
    Plain("P5.L.4", {})}

P6_1 == {
    Answer("P6.E.1", {"electricity_kwh", "electricity_from_renewable_kwh", "electricity_from_grid_kwh",
        "diesel_l", "petrol_l", "lpg_kg", "lng_kg", "png_scm", "coal_tonnes", "biomass_tonnes",
        "steam_purchased_gj", "total_energy_consumed_gj", "energy_intensity_per_revenue"},
        Ref("total_energy_consumed_gj"), {"total_energy_consumed_gj",
        "electricity_from_renewable_kwh", "energy_intensity_per_revenue"}),
    Plain("P6.E.2", {}),
    Answer("P6.E.3", {"water_withdrawn_kl_groundwater", "water_withdrawn_kl_surface",
        "water_withdrawn_kl_third_party", "water_withdrawn_kl_seawater",
        "water_withdrawn_kl_produced", "water_withdrawn_total_kl"},
        Plus(<<"water_withdrawn_kl_groundwater", "water_withdrawn_kl_surface",
        "water_withdrawn_kl_third_party", "water_withdrawn_kl_seawater",
        "water_withdrawn_kl_produced">>), {"water_withdrawn_total_kl",
        "water_withdrawn_kl_groundwater", "water_withdrawn_kl_surface",
        "water_withdrawn_kl_third_party", "water_withdrawn_kl_seawater",
        "water_withdrawn_kl_produced"}),
    Answer("P6.E.4", {"water_intensity_per_revenue"}, Ref("water_intensity_per_revenue"),
        {"water_intensity_per_revenue"}),
    Plain("P6.E.5", {"water_recycled_kl", "water_discharged_kl"}),
    Answer("P6.E.6", {"water_discharged_kl"}, Ref("water_discharged_kl"), {}),
    Answer("P6.E.7", {"nox_kg", "sox_kg", "pm_kg", "voc_kg", "ods_kg"}, Plus(<<"nox_kg", "sox_kg",
        "pm_kg", "voc_kg">>), {"nox_kg", "sox_kg", "pm_kg", "voc_kg"})}

P6_2 == {
    Answer("P6.E.8", {"scope1_total_tco2e", "scope1_stationary_tco2e", "scope1_mobile_tco2e",
        "scope1_process_tco2e", "scope1_fugitive_tco2e", "scope2_location_tco2e",
        "scope2_market_tco2e", "ghg_intensity_per_revenue"}, Plus(<<"scope1_total_tco2e",
        "scope2_location_tco2e">>), {"scope1_total_tco2e", "scope2_location_tco2e",
        "ghg_intensity_per_revenue"}),
    Plain("P6.E.9", {}),
    Answer("P6.E.10", {"waste_hazardous_kg", "waste_non_hazardous_kg", "e_waste_kg", "plastic_waste_kg",
        "biomedical_waste_kg", "battery_waste_kg", "radioactive_waste_kg", "other_waste_kg",
        "waste_recycled_kg", "waste_to_landfill_kg", "waste_to_incineration_kg"},
        Plus(<<"waste_hazardous_kg", "waste_non_hazardous_kg", "e_waste_kg", "plastic_waste_kg",
        "biomedical_waste_kg", "battery_waste_kg", "radioactive_waste_kg", "other_waste_kg">>),
        {"waste_hazardous_kg", "waste_non_hazardous_kg", "plastic_waste_kg", "e_waste_kg",
        "waste_recycled_kg", "waste_to_landfill_kg"}),
    Plain("P6.E.11", {}),
    Answer("P6.E.12", {"protected_area_sqkm"}, Ref("protected_area_sqkm"), {}),
    Plain("P6.E.13", {"environmental_violations"}),
    Plain("P6.E.14", {"environmental_violations", "fines_paid_inr"})}

P6_3 == {
    Plain("P6.L.1", {"water_withdrawn_total_kl", "water_consumed_kl", "water_discharged_kl"}),
    Answer("P6.L.2", ToSet(SCOPE3_KEYS), Plus(SCOPE3_KEYS), {}),
    Plain("P6.L.3", {"protected_area_sqkm", "land_disturbed_ha", "land_restored_ha"}),
    Plain("P6.L.4", {"electricity_from_renewable_kwh"}),
    Plain("P6.L.5", {"climate_risks_identified_count"}),
    Plain("P6.L.6", {}),
    Plain("P6.L.7", {})}

P7 == {
    Plain("P7.E.1", {}),
    Plain("P7.E.2", {}),
    Plain("P7.E.3", {}),
    Plain("P7.L.1", {"political_contributions_inr"})}

P8 == {
    Plain("P8.E.1", {}),
    Answer("P8.E.2", {"displacement_count"}, Ref("displacement_count"), {}),
    Plain("P8.E.3", {}),
    Plain("P8.E.4", {}),
    Plain("P8.E.5", {"employee_new_hires"}),
    Plain("P8.L.1", {}),
    Answer("P8.L.2", {"csr_spend_inr", "csr_beneficiaries_count"}, Ref("csr_spend_inr"),
        {"csr_spend_inr", "csr_beneficiaries_count"}),
    Plain("P8.L.3", {}),
    Plain("P8.L.4", {}),
    Plain("P8.L.5", {"csr_beneficiaries_count"})}

P9_1 == {
    Plain("P9.E.1", {"customer_complaints_received", "customer_complaints_resolved"}),
    Plain("P9.E.2", {}),
    Answer("P9.E.3", {"customer_complaints_received", "customer_complaints_resolved",
        "data_breach_count"}, Ref("customer_complaints_received"), {"customer_complaints_received",
        "customer_complaints_resolved", "data_breach_count"}),
    Answer("P9.E.4", {"product_recall_count"}, Ref("product_recall_count"), {"product_recall_count"}),
    Plain("P9.E.5", {"data_breach_count"}),
    Plain("P9.E.6", {"data_breach_count", "product_recall_count", "fines_paid_inr"})}

P9_2 == {
    Plain("P9.L.1", {}),
    Plain("P9.L.2", {}),
    Plain("P9.L.3", {}),
    Answer("P9.L.4", {"customer_satisfaction_score"}, Ref("customer_satisfaction_score"),
        {"customer_satisfaction_score"}),
    Answer("P9.L.5", {"data_breach_count", "data_subjects_affected"}, Ref("data_breach_count"),
        {"data_breach_count", "data_subjects_affected"})}

\* The disclosures that two functions add: two on the board for each principle, and
\* the breakdowns of some answers.
expandPrincipleBoardOversight ==
    {Plain(id, {}) : id \in {
        "P1.B.1", "P1.B.2", "P2.B.1", "P2.B.2", "P3.B.1", "P3.B.2", "P4.B.1", "P4.B.2", "P5.B.1",
        "P5.B.2", "P6.B.1", "P6.B.2", "P7.B.1", "P7.B.2", "P8.B.1", "P8.B.2", "P9.B.1",
        "P9.B.2"}}
expandSubBreakouts ==
    {Plain(id, {}) : id \in {
        "P3.E.8a", "P3.E.8b", "P3.E.8c", "P3.E.8d", "P5.E.6a", "P5.E.6b", "P5.E.6c", "P5.E.6d",
        "P5.E.6e", "P5.E.6f", "P6.E.1a", "P6.E.1b", "P6.E.1c", "P6.E.8a", "P6.E.8b",
        "P6.E.10a", "P6.E.10b", "P6.E.10c", "P6.E.10d", "P6.E.10e", "P6.E.10f", "P6.E.10g",
        "P9.E.3a", "P9.E.3b", "P9.E.3c", "P9.E.3d", "P9.E.3e", "P9.E.3f", "P9.E.3g"}}

BRSR_DISCLOSURES == SECTION_A \cup SECTION_B \cup P1 \cup P2 \cup P3_1 \cup P3_2 \cup P3_3 \cup P4
                    \cup P5_1 \cup P5_2 \cup P6_1 \cup P6_2 \cup P6_3 \cup P7
                    \cup P8 \cup P9_1 \cup P9_2 \cup
                    expandPrincipleBoardOversight \cup expandSubBreakouts
===============================================================================
