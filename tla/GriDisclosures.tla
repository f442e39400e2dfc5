----------------------------- MODULE GriDisclosures -----------------------------
(***************************************************************************)
(* The disclosures of the GRI standards and of SASB: packages/frameworks/src/ *)
(* frameworks/gri.ts and sasb.ts, in the form of BrsrDisclosures.            *)
(***************************************************************************)
EXTENDS BrsrDisclosures

-------------------------------------------------------------------------------
(* GRI: packages/frameworks/src/frameworks/gri.ts                             *)

GRI_UNIVERSAL == {
    Plain("GRI 2-1", {}),
    Answer("GRI 2-7", {"employee_count_total", "employee_count_male", "employee_count_female",
        "employee_count_perm", "employee_count_temp"}, Ref("employee_count_total"),
        {"employee_count_total", "employee_count_male", "employee_count_female"}),
    Answer("GRI 2-8", {"employee_count_contract"}, Ref("employee_count_contract"), {}),
    Plain("GRI 2-9", {"board_size", "independent_directors_count", "women_directors_count"}),
    Answer("GRI 2-27", {"regulatory_actions_count", "fines_paid_inr"}, Ref("fines_paid_inr"), {}),
    Plain("GRI 3-1", {}),
    Plain("GRI 3-2", {}),
    Plain("GRI 3-3", {})}

GRI_ENERGY == {
    Answer("GRI 302-1", {"electricity_kwh", "electricity_from_renewable_kwh",
        "electricity_from_grid_kwh", "diesel_l", "petrol_l", "lpg_kg", "lng_kg", "png_scm",
        "coal_tonnes", "biomass_tonnes", "steam_purchased_gj", "total_energy_consumed_gj"},
        Ref("total_energy_consumed_gj"), {"total_energy_consumed_gj",
        "electricity_from_renewable_kwh"}),
    Plain("GRI 302-2", {"scope3_cat3_tco2e", "scope3_cat4_tco2e", "scope3_cat6_tco2e",
        "scope3_cat7_tco2e"}),
    Answer("GRI 302-3", {"energy_intensity_per_revenue", "energy_intensity_per_employee"},
        Ref("energy_intensity_per_revenue"), {"energy_intensity_per_revenue"}),
    Plain("GRI 302-4", {"total_energy_consumed_gj"}),
    Plain("GRI 302-5", {})}

GRI_WATER == {
    Plain("GRI 303-1", {}),
    Plain("GRI 303-2", {"water_discharged_kl"}),
    Answer("GRI 303-3", {"water_withdrawn_kl_groundwater", "water_withdrawn_kl_surface",
        "water_withdrawn_kl_third_party", "water_withdrawn_kl_seawater",
        "water_withdrawn_kl_produced", "water_withdrawn_total_kl"}, Ref("water_withdrawn_total_kl"),
        {"water_withdrawn_total_kl", "water_withdrawn_kl_groundwater", "water_withdrawn_kl_surface",
        "water_withdrawn_kl_third_party"}),
    Answer("GRI 303-4", {"water_discharged_kl"}, Ref("water_discharged_kl"), {}),
    Answer("GRI 303-5", {"water_consumed_kl", "water_recycled_kl", "water_intensity_per_revenue"},
        Ref("water_consumed_kl"), {"water_consumed_kl", "water_recycled_kl"})}

GRI_EMISSIONS == {
    Answer("GRI 305-1", {"scope1_total_tco2e", "scope1_stationary_tco2e", "scope1_mobile_tco2e",
        "scope1_process_tco2e", "scope1_fugitive_tco2e"}, Ref("scope1_total_tco2e"),
        {"scope1_total_tco2e", "scope1_stationary_tco2e", "scope1_mobile_tco2e",
        "scope1_process_tco2e", "scope1_fugitive_tco2e"}),
    Answer("GRI 305-2", {"scope2_location_tco2e", "scope2_market_tco2e"}, Ref("scope2_location_tco2e"),
        {"scope2_location_tco2e", "scope2_market_tco2e"}),
    Answer("GRI 305-3", ToSet(SCOPE3_KEYS), Plus(SCOPE3_KEYS), {}),
    Answer("GRI 305-4", {"ghg_intensity_per_revenue", "ghg_intensity_per_unit_output"},
        Ref("ghg_intensity_per_revenue"), {}),
    Plain("GRI 305-5", {"scope1_total_tco2e", "scope2_location_tco2e"}),
    Answer("GRI 305-6", {"ods_kg"}, Ref("ods_kg"), {}),
    Answer("GRI 305-7", {"nox_kg", "sox_kg", "pm_kg", "voc_kg"}, Plus(<<"nox_kg", "sox_kg", "pm_kg",
        "voc_kg">>), {"nox_kg", "sox_kg", "pm_kg", "voc_kg"})}

GRI_WASTE == {
    Plain("GRI 306-1", {}),
    Plain("GRI 306-2", {}),
    Answer("GRI 306-3", {"waste_hazardous_kg", "waste_non_hazardous_kg", "e_waste_kg",
        "plastic_waste_kg", "biomedical_waste_kg", "battery_waste_kg", "radioactive_waste_kg",
        "other_waste_kg"}, Plus(<<"waste_hazardous_kg", "waste_non_hazardous_kg", "e_waste_kg",
        "plastic_waste_kg", "biomedical_waste_kg", "battery_waste_kg", "radioactive_waste_kg",
        "other_waste_kg">>), {"waste_hazardous_kg", "waste_non_hazardous_kg"}),
    Answer("GRI 306-4", {"waste_recycled_kg"}, Ref("waste_recycled_kg"), {}),
    Answer("GRI 306-5", {"waste_to_landfill_kg", "waste_to_incineration_kg"},
        Plus(<<"waste_to_landfill_kg", "waste_to_incineration_kg">>), {})}

GRI_EMPLOYMENT == {
    Answer("GRI 401-1", {"employee_new_hires", "employee_turnover"}, NoFormula, {"employee_new_hires",
        "employee_turnover"}),
    Plain("GRI 401-2", {}),
    Plain("GRI 401-3", {})}

GRI_HEALTH_SAFETY == {
    Plain("GRI 403-1", {}),
    Plain("GRI 403-2", {"near_miss_count"}),
    Plain("GRI 403-3", {}),
    Plain("GRI 403-4", {}),
    Answer("GRI 403-5", {"safety_training_coverage_pct", "training_hours_ehs"},
        Ref("safety_training_coverage_pct"), {}),
    Plain("GRI 403-6", {}),
    Plain("GRI 403-7", {}),
    Plain("GRI 403-8", {}),
    Answer("GRI 403-9", {"ltifr", "trifr", "fatality_count_employees", "fatality_count_contractors"},
        Plus(<<"fatality_count_employees", "fatality_count_contractors">>), {"ltifr", "trifr",
        "fatality_count_employees", "fatality_count_contractors"}),
    Answer("GRI 403-10", {"occupational_disease_cases"}, Ref("occupational_disease_cases"), {})}

GRI_TRAINING == {
    Answer("GRI 404-1", {"training_hours_per_employee", "training_hours_total"},
        Ref("training_hours_per_employee"), {"training_hours_per_employee"}),
    Plain("GRI 404-2", {"training_hours_skill"}),
    Answer("GRI 404-3", {"training_coverage_pct"}, Ref("training_coverage_pct"), {})}

GRI_DIVERSITY == {
    Answer("GRI 405-1", {"women_in_workforce_pct", "women_in_management_pct", "women_on_board_pct",
        "pwd_in_workforce_pct", "employee_count_by_age_bracket"}, Ref("women_in_workforce_pct"),
        {"women_in_workforce_pct", "women_in_management_pct", "women_on_board_pct"}),
    Answer("GRI 405-2", {"gender_pay_gap_pct", "median_remuneration_male",
        "median_remuneration_female"}, Ratio(Ref("median_remuneration_female"),
        Ref("median_remuneration_male")), {"gender_pay_gap_pct"})}

GRI_SUPPLY_CHAIN == {
    Plain("GRI 308-1", {}),
    Plain("GRI 308-2", {}),
    Plain("GRI 414-1", {}),
    Plain("GRI 414-2", {"child_labour_incidents", "forced_labour_incidents"})}

GRI_DISCLOSURES == GRI_UNIVERSAL \cup GRI_ENERGY \cup GRI_WATER \cup GRI_EMISSIONS \cup GRI_WASTE
                   \cup GRI_EMPLOYMENT \cup GRI_HEALTH_SAFETY \cup
                   GRI_TRAINING \cup GRI_DIVERSITY \cup GRI_SUPPLY_CHAIN

-------------------------------------------------------------------------------
(* SASB: packages/frameworks/src/frameworks/sasb.ts                           *)

RR_SE == {
    Plain("RR-SE-130a.1", {"total_energy_consumed_gj", "electricity_from_grid_kwh",
        "electricity_from_renewable_kwh"}),
    Plain("RR-SE-140a.1", {"water_withdrawn_total_kl", "water_consumed_kl"}),
    Plain("RR-SE-150a.1", {"waste_hazardous_kg", "waste_recycled_kg"}),
    Plain("RR-SE-160a.1", {"land_disturbed_ha", "protected_area_sqkm"}),
    Plain("RR-SE-410a.1", {"recycled_materials_tonnes"})}

RT_EE == {
    Plain("RT-EE-130a.1", {"total_energy_consumed_gj", "electricity_from_grid_kwh",
        "electricity_from_renewable_kwh"}),
    Plain("RT-EE-150a.1", {"waste_hazardous_kg", "waste_recycled_kg", "e_waste_kg"}),
    Plain("RT-EE-410a.1", {}),
    Plain("RT-EE-410a.3", {}),
    Plain("RT-EE-440a.1", {"virgin_materials_tonnes", "recycled_materials_tonnes"})}

EM_CM == {
    Plain("EM-CM-110a.1", {"scope1_total_tco2e", "scope1_process_tco2e", "scope1_stationary_tco2e"}),
    Plain("EM-CM-120a.1", {"nox_kg", "sox_kg", "pm_kg", "voc_kg"}),
    Plain("EM-CM-130a.1", {"total_energy_consumed_gj", "electricity_from_renewable_kwh",
        "biomass_tonnes"}),
    Plain("EM-CM-140a.1", {"water_withdrawn_total_kl", "water_recycled_kl"}),
    Plain("EM-CM-150a.1", {"waste_hazardous_kg", "waste_non_hazardous_kg", "waste_recycled_kg"}),
    Plain("EM-CM-160a.1", {"protected_area_sqkm", "land_disturbed_ha", "land_restored_ha"})}

EM_IS == {
    Plain("EM-IS-110a.1", {"scope1_total_tco2e", "scope1_process_tco2e"}),
    Plain("EM-IS-120a.1", {"nox_kg", "sox_kg", "pm_kg", "voc_kg"}),
    Plain("EM-IS-130a.1", {"total_energy_consumed_gj", "coal_tonnes", "lng_kg", "png_scm"}),
    Plain("EM-IS-140a.1", {"water_withdrawn_total_kl", "water_recycled_kl"}),
    Plain("EM-IS-150a.1", {"waste_hazardous_kg", "waste_recycled_kg"}),
    Plain("EM-IS-320a.1", {"trifr", "ltifr", "fatality_count_employees", "fatality_count_contractors",
        "near_miss_count"})}

RT_IG == {
    Plain("RT-IG-130a.1", {"total_energy_consumed_gj", "electricity_from_grid_kwh",
        "electricity_from_renewable_kwh"}),
    Plain("RT-IG-320a.1", {"trifr", "ltifr", "fatality_count_employees"}),
    Plain("RT-IG-410a.1", {"scope3_cat11_tco2e"}),
    Plain("RT-IG-440a.1", {"virgin_materials_tonnes", "recycled_materials_tonnes"})}

TC_IM == {
    Plain("TC-IM-130a.1", {"total_energy_consumed_gj", "electricity_from_grid_kwh",
        "electricity_from_renewable_kwh"}),
    Plain("TC-IM-130a.2", {"water_withdrawn_total_kl", "water_consumed_kl"}),
    Plain("TC-IM-220a.1", {"data_breach_count"}),
    Plain("TC-IM-230a.1", {"data_breach_count", "data_subjects_affected"}),
    Plain("TC-IM-330a.3", {"women_in_workforce_pct", "women_in_management_pct"})}

TC_SI == {
    Plain("TC-SI-130a.1", {"total_energy_consumed_gj", "electricity_from_grid_kwh",
        "electricity_from_renewable_kwh"}),
    Plain("TC-SI-130a.2", {"water_withdrawn_total_kl", "water_consumed_kl"}),
    Plain("TC-SI-220a.1", {}),
    Plain("TC-SI-230a.1", {"data_breach_count", "data_subjects_affected"}),
    Plain("TC-SI-330a.2", {"women_in_workforce_pct", "women_in_management_pct"})}

SASB_DISCLOSURES == RR_SE \cup RT_EE \cup EM_CM \cup EM_IS \cup RT_IG \cup TC_IM \cup TC_SI
===============================================================================
