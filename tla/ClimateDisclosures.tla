-------------------------- MODULE ClimateDisclosures --------------------------
(***************************************************************************)
(* The disclosures of TCFD, IFRS S1 and S2, ESRS and CDP: packages/           *)
(* frameworks/src/frameworks/tcfd.ts, ifrs.ts, csrd-esrs.ts and cdp.ts, in    *)
(* the form of BrsrDisclosures.                                              *)
(***************************************************************************)
EXTENDS GriDisclosures

-------------------------------------------------------------------------------
(* TCFD: packages/frameworks/src/frameworks/tcfd.ts                           *)

TCFD_DISCLOSURES == {
    Answer("TCFD-Gov-a", {"board_meetings_count"}, NoFormula, {"board_meetings_count"}),
    Plain("TCFD-Gov-b", {}),
    Answer("TCFD-Strat-a", {"climate_risks_identified_count"}, NoFormula,
        {"climate_risks_identified_count"}),
    Plain("TCFD-Strat-b", {}),
    Answer("TCFD-Strat-c", {"tcfd_scenarios_used"}, NoFormula, {"tcfd_scenarios_used"}),
    Plain("TCFD-Risk-a", {"enterprise_risks_count", "climate_risks_identified_count"}),
    Plain("TCFD-Risk-b", {}),
    Plain("TCFD-Risk-c", {"enterprise_risks_count"}),
    Plain("TCFD-Metr-a", {"ghg_intensity_per_revenue", "ghg_intensity_per_unit_output",
        "energy_intensity_per_revenue", "electricity_from_renewable_kwh"}),
    Answer("TCFD-Metr-b", ToSet(SCOPE3_KEYS) \cup {"scope1_total_tco2e", "scope2_location_tco2e",
        "scope2_market_tco2e"}, NoFormula, {"scope1_total_tco2e", "scope2_location_tco2e",
        "scope2_market_tco2e"}),
    Plain("TCFD-Metr-c", {"scope1_total_tco2e", "scope2_location_tco2e",
        "electricity_from_renewable_kwh"})}

-------------------------------------------------------------------------------
(* IFRS: packages/frameworks/src/frameworks/ifrs.ts                           *)

IFRS_S1_DISCLOSURES == {
    Plain("S1.27", {}),
    Plain("S1.28", {"board_size", "independent_directors_count"}),
    Plain("S1.30", {"enterprise_risks_count"}),
    Plain("S1.33", {}),
    Plain("S1.34", {}),
    Plain("S1.43", {}),
    Plain("S1.46", {}),
    Plain("S1.51", {})}

IFRS_S2_DISCLOSURES_1 == {
    Plain("S2.6", {}),
    Plain("S2.9", {"climate_risks_identified_count"}),
    Plain("S2.13", {"tcfd_scenarios_used"}),
    Plain("S2.25", {"climate_risks_identified_count"}),
    Answer("S2.29(a)", {"scope1_total_tco2e", "scope1_stationary_tco2e", "scope1_mobile_tco2e",
        "scope1_process_tco2e", "scope1_fugitive_tco2e"}, NoFormula, {"scope1_total_tco2e"}),
    Answer("S2.29(b)", {"scope2_location_tco2e", "scope2_market_tco2e"}, NoFormula,
        {"scope2_location_tco2e", "scope2_market_tco2e"}),
    Plain("S2.29(c)", ToSet(SCOPE3_KEYS))}

IFRS_S2_DISCLOSURES_2 == {
    Plain("S2.29(d)", {"ghg_intensity_per_unit_output", "ghg_intensity_per_revenue",
        "energy_intensity_per_revenue", "water_intensity_per_revenue"}),
    Plain("S2.29(e)", {}),
    Plain("S2.29(f)", {}),
    Plain("S2.29(g)", {"electricity_from_renewable_kwh"}),
    Plain("S2.29(h)", {}),
    Plain("S2.33", {"scope1_total_tco2e", "scope2_location_tco2e", "electricity_from_renewable_kwh"})}

-------------------------------------------------------------------------------
(* ESRS: packages/frameworks/src/frameworks/csrd-esrs.ts                      *)

ESRS_CROSS_CUTTING == {
    Plain("ESRS 1-1", {}),
    Plain("ESRS 2-BP-1", {}),
    Plain("ESRS 2-GOV-1", {"board_size", "independent_directors_count", "women_directors_count",
        "board_meetings_count", "board_attendance_pct"}),
    Plain("ESRS 2-SBM-1", {}),
    Plain("ESRS 2-IRO-1", {"enterprise_risks_count"})}

ESRS_E1 == {
    Plain("ESRS E1-1", {}),
    Plain("ESRS E1-4", {"scope1_total_tco2e", "scope2_location_tco2e"}),
    Answer("ESRS E1-5", {"electricity_kwh", "electricity_from_renewable_kwh",
        "electricity_from_grid_kwh", "diesel_l", "petrol_l", "lpg_kg", "lng_kg", "png_scm",
        "coal_tonnes", "biomass_tonnes", "total_energy_consumed_gj"}, NoFormula,
        {"total_energy_consumed_gj"}),
    Answer("ESRS E1-6", ToSet(SCOPE3_KEYS) \cup {"scope1_total_tco2e", "scope2_location_tco2e",
        "scope2_market_tco2e"}, NoFormula, {"scope1_total_tco2e", "scope2_location_tco2e",
        "scope2_market_tco2e"}),
    Plain("ESRS E1-7", {"land_restored_ha"}),
    Plain("ESRS E1-8", {})}

ESRS_E2 == {
    Plain("ESRS E2-4", {"nox_kg", "sox_kg", "pm_kg", "voc_kg", "ods_kg"}),
    Plain("ESRS E2-5", {})}

ESRS_E3 == {
    Answer("ESRS E3-4", {"water_withdrawn_total_kl", "water_consumed_kl", "water_discharged_kl",
        "water_recycled_kl"}, NoFormula, {"water_withdrawn_total_kl", "water_consumed_kl",
        "water_recycled_kl"})}

ESRS_E4 == {
    Plain("ESRS E4-5", {"protected_area_sqkm", "land_disturbed_ha", "land_restored_ha"})}

ESRS_E5 == {
    Plain("ESRS E5-4", {"virgin_materials_tonnes", "recycled_materials_tonnes",
        "renewable_materials_tonnes"}),
    Plain("ESRS E5-5", {"waste_hazardous_kg", "waste_non_hazardous_kg", "waste_recycled_kg",
        "waste_to_landfill_kg", "waste_to_incineration_kg", "e_waste_kg", "plastic_waste_kg"})}

ESRS_S1 == {
    Plain("ESRS S1-6", {"employee_count_total", "employee_count_male", "employee_count_female",
        "employee_count_perm", "employee_count_temp"}),
    Plain("ESRS S1-7", {"employee_count_contract"}),
    Plain("ESRS S1-9", {"women_in_workforce_pct", "women_in_management_pct", "pwd_in_workforce_pct",
        "employee_count_by_age_bracket"}),
    Plain("ESRS S1-13", {"training_hours_total", "training_hours_per_employee",
        "training_coverage_pct"}),
    Plain("ESRS S1-14", {"ltifr", "trifr", "fatality_count_employees", "fatality_count_contractors",
        "occupational_disease_cases"}),
    Answer("ESRS S1-16", {"gender_pay_gap_pct", "ceo_to_worker_pay_ratio", "median_remuneration_male",
        "median_remuneration_female"}, NoFormula, {"gender_pay_gap_pct", "ceo_to_worker_pay_ratio"}),
    Plain("ESRS S1-17", {"human_rights_complaints_received", "human_rights_complaints_resolved",
        "discrimination_complaints", "child_labour_incidents", "forced_labour_incidents"})}

ESRS_S2 == {
    Plain("ESRS S2-1", {}),
    Plain("ESRS S2-4", {"child_labour_incidents", "forced_labour_incidents"})}

ESRS_S3 == {
    Plain("ESRS S3-1", {}),
    Plain("ESRS S3-4", {"csr_spend_inr", "csr_beneficiaries_count", "displacement_count",
        "local_communities_engaged"})}

ESRS_S4 == {
    Plain("ESRS S4-1", {}),
    Plain("ESRS S4-4", {"customer_complaints_received", "customer_complaints_resolved",
        "product_recall_count", "customer_satisfaction_score", "data_breach_count",
        "data_subjects_affected"})}

ESRS_G1 == {
    Plain("ESRS G1-1", {}),
    Plain("ESRS G1-3", {"anticorruption_training_pct", "corruption_cases_disciplinary"}),
    Plain("ESRS G1-4", {"corruption_cases_disciplinary", "whistleblower_cases_count"}),
    Plain("ESRS G1-5", {"political_contributions_inr"})}

ESRS_DISCLOSURES == ESRS_CROSS_CUTTING \cup ESRS_E1 \cup ESRS_E2 \cup ESRS_E3 \cup ESRS_E4 \cup
                    ESRS_E5 \cup ESRS_S1 \cup ESRS_S2 \cup ESRS_S3 \cup
                    ESRS_S4 \cup ESRS_G1

-------------------------------------------------------------------------------
(* CDP: packages/frameworks/src/frameworks/cdp.ts                             *)

CDP_CLIMATE_DISCLOSURES == {
    Plain("C1.1a", {"board_size", "independent_directors_count"}),
    Plain("C1.2", {}),
    Plain("C2.1a", {"climate_risks_identified_count"}),
    Plain("C3.2", {"tcfd_scenarios_used"}),
    Plain("C4.1a", {"scope1_total_tco2e", "scope2_location_tco2e", "scope2_market_tco2e"}),
    Answer("C6.1", {"scope1_total_tco2e", "scope1_stationary_tco2e", "scope1_mobile_tco2e",
        "scope1_process_tco2e", "scope1_fugitive_tco2e"}, NoFormula, {"scope1_total_tco2e"}),
    Plain("C6.3", {"scope2_location_tco2e", "scope2_market_tco2e"}),
    Plain("C6.5", ToSet(SCOPE3_KEYS)),
    Plain("C6.10", {"ghg_intensity_per_revenue"}),
    Answer("C8.2a", {"electricity_kwh", "electricity_from_grid_kwh", "electricity_from_renewable_kwh",
        "diesel_l", "petrol_l", "lpg_kg", "lng_kg", "png_scm", "coal_tonnes", "biomass_tonnes",
        "steam_purchased_gj", "total_energy_consumed_gj"}, NoFormula, {"total_energy_consumed_gj",
        "electricity_from_renewable_kwh"}),
    Plain("C9.1", {"ghg_intensity_per_unit_output", "energy_intensity_per_revenue"})}

CDP_WATER_DISCLOSURES == {
    Plain("W1.1", {}),
    Answer("W1.2b", {"water_withdrawn_total_kl", "water_discharged_kl", "water_consumed_kl",
        "water_recycled_kl"}, NoFormula, {"water_withdrawn_total_kl", "water_discharged_kl",
        "water_consumed_kl"}),
    Plain("W1.2h", {"water_withdrawn_kl_groundwater", "water_withdrawn_kl_surface",
        "water_withdrawn_kl_third_party", "water_withdrawn_kl_seawater",
        "water_withdrawn_kl_produced"}),
    Plain("W3.3", {"climate_risks_identified_count"}),
    Plain("W6.1", {}),
    Plain("W7.1", {})}

CDP_FORESTS_DISCLOSURES == {
    Plain("F1.1", {"virgin_materials_tonnes", "renewable_materials_tonnes"}),
    Plain("F1.5", {}),
    Plain("F4.5", {"protected_area_sqkm", "land_disturbed_ha", "land_restored_ha"}),
    Plain("F6.1", {})}

CDP_DISCLOSURES == CDP_CLIMATE_DISCLOSURES \cup CDP_WATER_DISCLOSURES \cup
                   CDP_FORESTS_DISCLOSURES
===============================================================================
