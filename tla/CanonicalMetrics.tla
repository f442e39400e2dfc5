---------------------------- MODULE CanonicalMetrics ----------------------------
(***************************************************************************)
(* The registry of canonical metrics: packages/frameworks/src/canonical/    *)
(* metrics.ts, one definition for each of its arrays (a long array in parts). *)
(* A metric has its key, the unit its values are kept in, the other units it *)
(* is accepted in, and the rule by which the values of several facilities or *)
(* periods make one.  Names, descriptions, aliases, categories, dimensions   *)
(* and quality tiers are left out.                                          *)
(***************************************************************************)
EXTENDS Integers, SequencesExt

Metric(key, unit, others, rule) ==
    [key |-> key, canonical_unit |-> unit, allowed_units |-> {unit} \cup others,
     aggregation_rule |-> rule]

ENERGY_1 == {
    Metric("electricity_kwh", "kwh", {"mwh", "gwh", "gj", "mj"}, "sum"),
    Metric("electricity_from_renewable_kwh", "kwh", {"mwh", "gwh"}, "sum"),
    Metric("electricity_from_grid_kwh", "kwh", {"mwh", "gwh"}, "sum"),
    Metric("diesel_l", "l", {"kl", "gal_us", "gal_uk"}, "sum"),
    Metric("petrol_l", "l", {"kl", "gal_us"}, "sum"),
    Metric("lpg_kg", "kg", {"tonnes", "cylinder_14_2kg", "cylinder_19kg"}, "sum"),
    Metric("lng_kg", "kg", {"tonnes", "scm"}, "sum")}

ENERGY_2 == {
    Metric("png_scm", "scm", {"nm3", "mmbtu", "kwh"}, "sum"),
    Metric("coal_tonnes", "tonnes", {"kg"}, "sum"),
    Metric("biomass_tonnes", "tonnes", {"kg"}, "sum"),
    Metric("steam_purchased_gj", "gj", {"mj", "kwh", "mmbtu", "tonnes_steam"}, "sum"),
    Metric("total_energy_consumed_gj", "gj", {"tj", "kwh", "mwh"}, "sum"),
    Metric("energy_intensity_per_revenue", "gj_per_inr_crore", {"gj_per_usd_million"}, "ratio"),
    Metric("energy_intensity_per_employee", "gj_per_employee", {"kwh_per_employee"}, "ratio")}

WATER == {
    Metric("water_withdrawn_kl_groundwater", "kl", {"ml", "m3", "l"}, "sum"),
    Metric("water_withdrawn_kl_surface", "kl", {"ml", "m3"}, "sum"),
    Metric("water_withdrawn_kl_third_party", "kl", {"ml", "m3"}, "sum"),
    Metric("water_withdrawn_kl_seawater", "kl", {"ml", "m3"}, "sum"),
    Metric("water_withdrawn_kl_produced", "kl", {"ml", "m3"}, "sum"),
    Metric("water_withdrawn_total_kl", "kl", {"ml", "m3"}, "sum"),
    Metric("water_discharged_kl", "kl", {"ml", "m3"}, "sum"),
    Metric("water_consumed_kl", "kl", {"ml", "m3"}, "sum"),
    Metric("water_recycled_kl", "kl", {"ml", "m3"}, "sum"),
    Metric("water_intensity_per_revenue", "kl_per_inr_crore", {"kl_per_usd_million"}, "ratio")}

WASTE_1 == {
    Metric("waste_hazardous_kg", "kg", {"tonnes"}, "sum"),
    Metric("waste_non_hazardous_kg", "kg", {"tonnes"}, "sum"),
    Metric("waste_recycled_kg", "kg", {"tonnes"}, "sum"),
    Metric("waste_to_landfill_kg", "kg", {"tonnes"}, "sum"),
    Metric("waste_to_incineration_kg", "kg", {"tonnes"}, "sum"),
    Metric("e_waste_kg", "kg", {"tonnes"}, "sum")}

WASTE_2 == {
    Metric("plastic_waste_kg", "kg", {"tonnes"}, "sum"),
    Metric("biomedical_waste_kg", "kg", {"tonnes"}, "sum"),
    Metric("battery_waste_kg", "kg", {"tonnes"}, "sum"),
    Metric("radioactive_waste_kg", "kg", {"tonnes"}, "sum"),
    Metric("other_waste_kg", "kg", {"tonnes"}, "sum")}

GHG == {
    Metric("scope1_total_tco2e", "tco2e", {"kgco2e", "mtco2e"}, "sum"),
    Metric("scope1_stationary_tco2e", "tco2e", {"kgco2e"}, "sum"),
    Metric("scope1_mobile_tco2e", "tco2e", {"kgco2e"}, "sum"),
    Metric("scope1_process_tco2e", "tco2e", {"kgco2e"}, "sum"),
    Metric("scope1_fugitive_tco2e", "tco2e", {"kgco2e"}, "sum"),
    Metric("scope2_location_tco2e", "tco2e", {"kgco2e"}, "sum"),
    Metric("scope2_market_tco2e", "tco2e", {"kgco2e"}, "sum")}

SCOPE3 == {Metric(key, "tco2e", {"kgco2e"}, "sum") : key \in {
    "scope3_cat1_tco2e", "scope3_cat2_tco2e", "scope3_cat3_tco2e", "scope3_cat4_tco2e",
    "scope3_cat5_tco2e", "scope3_cat6_tco2e", "scope3_cat7_tco2e", "scope3_cat8_tco2e",
    "scope3_cat9_tco2e", "scope3_cat10_tco2e", "scope3_cat11_tco2e", "scope3_cat12_tco2e",
    "scope3_cat13_tco2e", "scope3_cat14_tco2e", "scope3_cat15_tco2e"}}

GHG_INTENSITY == {
    Metric("ghg_intensity_per_revenue", "tco2e_per_inr_crore", {"tco2e_per_usd_million"}, "ratio"),
    Metric("ghg_intensity_per_unit_output", "tco2e_per_unit", {"tco2e_per_tonne", "tco2e_per_mwh",
        "kgco2e_per_unit"}, "ratio")}

AIR == {
    Metric("nox_kg", "kg", {"tonnes"}, "sum"),
    Metric("sox_kg", "kg", {"tonnes"}, "sum"),
    Metric("pm_kg", "kg", {"tonnes"}, "sum"),
    Metric("voc_kg", "kg", {"tonnes"}, "sum"),
    Metric("ods_kg", "kg", {"tonnes"}, "sum")}

BIODIVERSITY == {
    Metric("protected_area_sqkm", "sqkm", {"ha", "acre"}, "sum"),
    Metric("land_disturbed_ha", "ha", {"sqkm", "acre"}, "sum"),
    Metric("land_restored_ha", "ha", {"sqkm"}, "sum")}

MATERIALS == {
    Metric("virgin_materials_tonnes", "tonnes", {"kg"}, "sum"),
    Metric("recycled_materials_tonnes", "tonnes", {"kg"}, "sum"),
    Metric("renewable_materials_tonnes", "tonnes", {"kg"}, "sum")}

WORKFORCE_1 == {
    Metric("employee_count_total", "count", {}, "last"),
    Metric("employee_count_male", "count", {}, "last"),
    Metric("employee_count_female", "count", {}, "last"),
    Metric("employee_count_lgbtq", "count", {}, "last"),
    Metric("employee_count_pwd", "count", {}, "last"),
    Metric("employee_count_perm", "count", {}, "last")}

WORKFORCE_2 == {
    Metric("employee_count_temp", "count", {}, "last"),
    Metric("employee_count_contract", "count", {}, "last"),
    Metric("employee_count_by_age_bracket", "count", {}, "last"),
    Metric("employee_new_hires", "count", {}, "sum"),
    Metric("employee_turnover", "count", {}, "sum")}

DIVERSITY == {
    Metric("women_in_workforce_pct", "pct", {"ratio"}, "ratio"),
    Metric("women_in_management_pct", "pct", {}, "ratio"),
    Metric("women_on_board_pct", "pct", {}, "ratio"),
    Metric("lgbtq_in_workforce_pct", "pct", {}, "ratio"),
    Metric("pwd_in_workforce_pct", "pct", {}, "ratio")}

COMPENSATION == {
    Metric("median_remuneration_male", "inr", {"inr_lakh", "inr_crore", "usd"}, "weighted_avg"),
    Metric("median_remuneration_female", "inr", {"inr_lakh", "inr_crore", "usd"}, "weighted_avg"),
    Metric("gender_pay_gap_pct", "pct", {}, "ratio"),
    Metric("ceo_to_worker_pay_ratio", "ratio", {}, "ratio")}

TRAINING == {
    Metric("training_hours_total", "hours", {"person_hours"}, "sum"),
    Metric("training_hours_ehs", "hours", {}, "sum"),
    Metric("training_hours_skill", "hours", {}, "sum"),
    Metric("training_coverage_pct", "pct", {}, "ratio"),
    Metric("training_hours_per_employee", "hours_per_employee", {}, "ratio")}

HEALTH_SAFETY == {
    Metric("ltifr", "per_million_hours", {"per_200k_hours"}, "ratio"),
    Metric("trifr", "per_million_hours", {"per_200k_hours"}, "ratio"),
    Metric("fatality_count_employees", "count", {}, "sum"),
    Metric("fatality_count_contractors", "count", {}, "sum"),
    Metric("near_miss_count", "count", {}, "sum"),
    Metric("occupational_disease_cases", "count", {}, "sum"),
    Metric("safety_training_coverage_pct", "pct", {}, "ratio")}

HUMAN_RIGHTS == {
    Metric("human_rights_training_pct", "pct", {}, "ratio"),
    Metric("human_rights_complaints_received", "count", {}, "sum"),
    Metric("human_rights_complaints_resolved", "count", {}, "sum"),
    Metric("child_labour_incidents", "count", {}, "sum"),
    Metric("forced_labour_incidents", "count", {}, "sum"),
    Metric("discrimination_complaints", "count", {}, "sum")}

COMMUNITY == {
    Metric("csr_spend_inr", "inr", {"inr_lakh", "inr_crore"}, "sum"),
    Metric("csr_beneficiaries_count", "count", {}, "sum"),
    Metric("local_communities_engaged", "count", {}, "sum"),
    Metric("displacement_count", "count", {}, "sum")}

CUSTOMER_1 == {
    Metric("customer_complaints_received", "count", {}, "sum"),
    Metric("customer_complaints_resolved", "count", {}, "sum"),
    Metric("product_recall_count", "count", {}, "sum"),
    Metric("customer_satisfaction_score", "score", {"pct", "nps"}, "weighted_avg"),
    Metric("data_breach_count", "count", {}, "sum"),
    Metric("data_subjects_affected", "count", {}, "sum")}

CUSTOMER_2 == {
    Metric("parental_leave_taken", "count", {}, "sum"),
    Metric("parental_leave_return_rate_pct", "pct", {}, "ratio"),
    Metric("collective_bargaining_coverage_pct", "pct", {}, "ratio"),
    Metric("supplier_local_pct", "pct", {}, "ratio"),
    Metric("supplier_assessed_count", "count", {}, "sum")}

BOARD == {
    Metric("board_size", "count", {}, "last"),
    Metric("independent_directors_count", "count", {}, "last"),
    Metric("women_directors_count", "count", {}, "last"),
    Metric("board_meetings_count", "count", {}, "sum"),
    Metric("board_attendance_pct", "pct", {}, "ratio"),
    Metric("ceo_chair_separation_bool", "bool", {}, "bool_any")}

ETHICS == {
    Metric("anticorruption_training_pct", "pct", {}, "ratio"),
    Metric("whistleblower_cases_count", "count", {}, "sum"),
    Metric("corruption_cases_disciplinary", "count", {}, "sum"),
    Metric("political_contributions_inr", "inr", {"inr_lakh", "inr_crore"}, "sum")}

RISK == {
    Metric("enterprise_risks_count", "count", {}, "last"),
    Metric("climate_risks_identified_count", "count", {}, "last"),
    Metric("tcfd_scenarios_used", "count", {}, "last")}

TAX == {
    Metric("effective_tax_rate_pct", "pct", {}, "ratio"),
    Metric("tax_paid_inr_by_country", "inr", {"inr_lakh", "inr_crore", "usd"}, "sum")}

COMPLIANCE_1 == {
    Metric("regulatory_actions_count", "count", {}, "sum"),
    Metric("fines_paid_inr", "inr", {"inr_lakh", "inr_crore"}, "sum"),
    Metric("environmental_violations", "count", {}, "sum"),
    Metric("data_privacy_violations", "count", {}, "sum"),
    Metric("ml_models_in_production", "count", {}, "last"),
    Metric("board_committee_count", "count", {}, "last"),
    Metric("esg_committee_exists_bool", "bool", {}, "bool_any")}

COMPLIANCE_2 == {
    Metric("director_independence_pct", "pct", {}, "ratio"),
    Metric("ceo_tenure_years", "years", {}, "last"),
    Metric("external_audit_qualifications", "count", {}, "sum"),
    Metric("transition_plan_adopted_bool", "bool", {}, "bool_any"),
    Metric("scope3_screened_categories_count", "count", {}, "last"),
    Metric("esg_targets_count", "count", {}, "last")}
-------------------------------------------------------------------------------
ARRAYS == <<ENERGY_1, ENERGY_2, WATER, WASTE_1, WASTE_2, GHG, SCOPE3, GHG_INTENSITY, AIR,
            BIODIVERSITY, MATERIALS, WORKFORCE_1, WORKFORCE_2, DIVERSITY,
            COMPENSATION, TRAINING, HEALTH_SAFETY, HUMAN_RIGHTS, COMMUNITY,
            CUSTOMER_1, CUSTOMER_2, BOARD, ETHICS, RISK, TAX, COMPLIANCE_1,
            COMPLIANCE_2>>
ALL == UNION {ARRAYS[i] : i \in DOMAIN ARRAYS}

\* buildRegistry throws when a key is there twice, and the package does not load.
CANONICAL_KEYS == {m.key : m \in ALL}
Loads == Cardinality(CANONICAL_KEYS) =
             FoldLeft(LAMBDA n, metrics : n + Cardinality(metrics), 0, ARRAYS)
getCanonicalMetric(key) == CHOOSE m \in ALL : m.key = key
===============================================================================
