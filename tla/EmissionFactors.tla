---------------------------- MODULE EmissionFactors ----------------------------
(***************************************************************************)
(* Emission factors and global warming potentials: frameworks/src/factors     *)
(* and shared/src/gwp.ts of packages, and the rows that seed.ts stores for     *)
(* the API.  Factors are in thousandths of kg CO2e per unit, potentials in     *)
(* tenths; names of states are what is left after toLowerCase.                 *)
(***************************************************************************)
EXTENDS Units, SequencesExt

\* What a lookup gives when it throws or answers null: no factor is negative.
Missing == -1

-------------------------------------------------------------------------------
(* The grid of India: cea-india.ts.                                           *)

InRegion(region, states) == {[state |-> s[1], region |-> region, factor |-> s[2]] : s \in states}

CEA_GRID_FACTORS_2024 ==
    InRegion("Northern", {
        <<"punjab", 780>>, <<"haryana", 810>>, <<"delhi", 740>>, <<"rajasthan", 790>>,
        <<"uttar pradesh", 830>>, <<"uttarakhand", 500>>, <<"himachal pradesh", 300>>,
        <<"jammu and kashmir", 550>>, <<"ladakh", 550>>, <<"chandigarh", 780>>}) \cup
    InRegion("Western", {
        <<"maharashtra", 850>>, <<"gujarat", 820>>, <<"madhya pradesh", 910>>,
        <<"chhattisgarh", 940>>, <<"goa", 830>>, <<"dadra and nagar haveli", 830>>,
        <<"daman and diu", 830>>}) \cup
    InRegion("Southern", {
        <<"karnataka", 720>>, <<"tamil nadu", 650>>, <<"kerala", 450>>,
        <<"andhra pradesh", 750>>, <<"telangana", 780>>, <<"puducherry", 650>>,
        <<"lakshadweep", 850>>, <<"andaman and nicobar islands", 850>>}) \cup
    InRegion("Eastern", {
        <<"west bengal", 920>>, <<"bihar", 950>>, <<"jharkhand", 970>>, <<"odisha", 930>>,
        <<"sikkim", 250>>}) \cup
    InRegion("NorthEastern", {
        <<"assam", 550>>, <<"arunachal pradesh", 300>>, <<"manipur", 500>>,
        <<"meghalaya", 300>>, <<"mizoram", 400>>, <<"nagaland", 550>>, <<"tripura", 650>>})

CEA_REGIONAL_FACTORS_2024 ==
    [Northern |-> 780, Western |-> 850, Southern |-> 650, Eastern |-> 930,
     NorthEastern |-> 500, AllIndia |-> 716]

\* From 2018 to 2024.
CEA_ALL_INDIA_HISTORY ==
    [year \in 2018 .. 2024 |-> <<790, 770, 750, 730, 720, 718, 716>>[year - 2017]]

STATE_INDEX(state) == {f \in CEA_GRID_FACTORS_2024 : f.state = state}

\* The factor of a state is that of 2024 in every year; only an unknown state's depends
\* on the year.
getCeaFactor(state, year) ==
    IF STATE_INDEX(state) # {} THEN (CHOOSE f \in STATE_INDEX(state) : TRUE).factor
    ELSE IF year \in DOMAIN CEA_ALL_INDIA_HISTORY THEN CEA_ALL_INDIA_HISTORY[year]
    ELSE CEA_REGIONAL_FACTORS_2024.AllIndia

getCeaFactorByRegion(region) == CEA_REGIONAL_FACTORS_2024[region]

-------------------------------------------------------------------------------
(* Fuels: defra.ts.                                                           *)

Fuels(category, unit, rows) ==
    {[fuel_id |-> f[1], category |-> category, unit |-> unit, combustion |-> f[2], wtt |-> f[3]] :
        f \in rows}

DEFRA_FUEL_FACTORS_2024 ==
    Fuels("liquid_fuel", "litre", {
        <<"diesel", 2680, 610>>, <<"petrol", 2310, 610>>, <<"fuel_oil", 3160, 660>>,
        <<"kerosene", 2540, 550>>, <<"naphtha", 2120, 510>>}) \cup
    Fuels("gaseous_fuel", "kg", {
        <<"lpg", 1510, 220>>, <<"lng", 2550, 710>>, <<"cng", 2550, 420>>}) \cup
    Fuels("gaseous_fuel", "kwh", {<<"natural_gas", 180, 29>>}) \cup
    Fuels("solid_fuel", "tonne", {
        <<"coal_industrial", 2403000, 220000>>, <<"coal_electricity_gen", 2252000, 210000>>,
        <<"coking_coal", 3160000, 235000>>, <<"lignite", 1281000, 95000>>,
        <<"petroleum_coke", 3386000, 312000>>}) \cup
    Fuels("aviation", "litre", {
        <<"aviation_spirit", 2330, 540>>, <<"aviation_turbine_fuel", 2550, 550>>}) \cup
    Fuels("marine", "litre", {<<"marine_gas_oil", 2780, 620>>, <<"marine_fuel_oil", 3210, 670>>}) \cup
    Fuels("biofuel", "litre", {<<"biodiesel", 170, 550>>, <<"bioethanol", 12, 410>>}) \cup
    Fuels("biofuel", "tonne", {<<"wood_pellets", 39500, 92000>>, <<"biomass_solid", 26800, 67000>>})

getFuelFactor(fuelId) == {f \in DEFRA_FUEL_FACTORS_2024 : f.fuel_id = fuelId}

calcCombustionEmissions(fuelId, quantity) ==
    IF getFuelFactor(fuelId) = {} THEN Missing
    ELSE quantity * (CHOOSE f \in getFuelFactor(fuelId) : TRUE).combustion

calcWttEmissions(fuelId, quantity) ==
    IF getFuelFactor(fuelId) = {} THEN Missing
    ELSE quantity * (CHOOSE f \in getFuelFactor(fuelId) : TRUE).wtt

-------------------------------------------------------------------------------
(* Potentials: ipcc-gwp.ts of frameworks, gwp.ts of shared.                   *)

Gases == <<"CO2", "CH4", "CH4_FOSSIL", "CH4_NON_FOSSIL", "N2O", "HFC-23", "HFC-32", "HFC-125",
           "HFC-134a", "HFC-143a", "HFC-152a", "HFC-227ea", "HFC-236fa", "HFC-245fa", "R-404A",
           "R-407A", "R-407C", "R-410A", "R-507A", "SF6", "NF3", "PFC-14", "PFC-116", "PFC-218",
           "PFC-318">>
Gas == ToSet(Gases)

ByName(names, values) == [n \in ToSet(names) |-> values[CHOOSE i \in DOMAIN names : names[i] = n]]

GWP_AR5 ==
    ByName(Gases, <<10, 280, 300, 280, 2650, 124000, 6770, 31700, 13000, 48000, 1380, 33500,
                    80600, 8580, 39220, 21070, 17740, 20880, 39850, 235000, 161000, 66300,
                    111000, 89000, 95400>>)

GWP_AR6_100Y ==
    ByName(Gases, <<10, 279, 298, 270, 2730, 146000, 7710, 37400, 15300, 58100, 1640, 36000,
                    86900, 9620, 47280, 22620, 19080, 22560, 42820, 243000, 174000, 73800,
                    124000, 92900, 100000>>)

GWP_AR6_20Y ==
    ByName(Gases, <<10, 812, 825, 797, 2730, 153000, 26900, 67400, 41400, 78400, 5910, 58500,
                    82400, 31700, 69400, 43800, 41150, 47150, 71100, 183000, 134000, 53000,
                    89400, 67700, 71100>>)

GWP_AR4 ==
    ByName(Gases, <<10, 250, 250, 250, 2980, 148000, 6750, 35000, 14300, 44700, 1240, 32200,
                    98100, 10300, 39220, 21070, 17740, 20880, 39850, 228000, 172000, 73900,
                    122000, 88300, 103000>>)

TABLES == [AR4 |-> GWP_AR4, AR5 |-> GWP_AR5, AR6_100 |-> GWP_AR6_100Y, AR6_20 |-> GWP_AR6_20Y]

getGwp(gas, basis) == IF gas \in Gas THEN TABLES[basis][gas] ELSE Missing

toCO2e(gas, quantity, basis) ==
    IF gas \in Gas THEN quantity * getGwp(gas, basis) ELSE Missing

GhgSpecies == <<"CO2", "CH4_FOSSIL", "CH4_BIOGENIC", "N2O", "SF6", "NF3", "HFC_134a", "HFC_152a",
                "HFC_32", "HFC_125", "HFC_143a", "HFC_23", "PFC_CF4", "PFC_C2F6">>

GWP ==
    [AR5 |-> ByName(GhgSpecies, <<10, 300, 280, 2650, 235000, 161000, 13000, 1380, 6770, 31700,
                                  48000, 124000, 66300, 111000>>),
     AR6_100Y |-> ByName(GhgSpecies, <<10, 298, 270, 2730, 252000, 174000, 15300, 1640, 7710,
                                       37400, 58100, 146000, 73800, 124000>>),
     AR6_20Y |-> ByName(GhgSpecies, <<10, 825, 797, 2730, 183000, 134000, 41400, 5910, 26900,
                                      67400, 78400, 127000, 53000, 89400>>)]

gwp(species, basis) == IF species \in ToSet(GhgSpecies) THEN GWP[basis][species] ELSE Missing

co2eFromMass(massKg, species, basis) == massKg * gwp(species, basis)

\* An item is a species, a mass and its basis, if it has one of its own.
co2eFromKgArray(items, defaultBasis) ==
    FoldLeft(LAMBDA total, item :
                total + co2eFromMass(item.massKg, item.species,
                                     IF item.basis = "none" THEN defaultBasis ELSE item.basis),
             0, items)

-------------------------------------------------------------------------------
(* The rows of emission_factor that seed.ts stores.                           *)

Seeds(source, category, subCategory, unit, activities) ==
    {[source |-> source, category |-> category, subCategory |-> subCategory, unit |-> unit,
      activityType |-> a] : a \in activities}

CEA_STATE_FACTORS == {"IN-KA", "IN-TN", "IN-MH", "IN-GJ", "IN-AP", "IN-TS", "IN-KL", "IN-UP",
                      "IN-MP", "IN-RJ", "IN-WB", "IN-DL"}

DEFRA_FACTORS ==
    Seeds("DEFRA_2024", "FUEL", "STATIONARY", "kgCO2e/litre", {"DIESEL", "PETROL", "LPG", "KEROSENE"}) \cup
    Seeds("DEFRA_2024", "FUEL", "STATIONARY", "kgCO2e/m3", {"NATURAL_GAS"}) \cup
    Seeds("DEFRA_2024", "FUEL", "STATIONARY", "kgCO2e/tonne", {"COAL_STEAM", "COAL_COKING"}) \cup
    Seeds("DEFRA_2024", "FUEL", "MOBILE", "kgCO2e/litre", {"DIESEL", "PETROL"}) \cup
    Seeds("DEFRA_2024", "TRAVEL", "AIR", "kgCO2e/pkm", {"SHORT_HAUL_ECONOMY", "MEDIUM_HAUL_ECONOMY",
        "LONG_HAUL_ECONOMY", "LONG_HAUL_BUSINESS", "LONG_HAUL_FIRST"}) \cup
    Seeds("DEFRA_2024", "TRAVEL", "ROAD", "kgCO2e/km", {"CAR_AVERAGE"}) \cup
    Seeds("DEFRA_2024", "FREIGHT", "ROAD", "kgCO2e/km", {"VAN_DIESEL_AVG", "HGV_AVERAGE"}) \cup
    Seeds("DEFRA_2024", "REFRIGERANT", "HFC", "kgCO2e/kg", {"R134A", "R410A", "R32", "R23"})

\* These with their potentials.
IPCC_GWP_FACTORS == [CO2 |-> 10, CH4 |-> 279, N2O |-> 2730, SF6 |-> 243000, NF3 |-> 174000,
                     HFC_134A |-> 15300, HFC_32 |-> 7710]

WASTE_AND_WATER_FACTORS ==
    Seeds("DEFRA_2024", "WASTE", "LANDFILL", "kgCO2e/tonne", {"MUNICIPAL_MIXED", "PAPER"}) \cup
    Seeds("DEFRA_2024", "WASTE", "INCINERATION", "kgCO2e/tonne", {"MUNICIPAL_MIXED"}) \cup
    Seeds("DEFRA_2024", "WASTE", "RECYCLING", "kgCO2e/tonne", {"PAPER", "PLASTIC", "METAL", "GLASS"}) \cup
    Seeds("DEFRA_2024", "WATER", "SUPPLY", "kgCO2e/m3", {"POTABLE_SUPPLY"}) \cup
    Seeds("DEFRA_2024", "WATER", "TREATMENT", "kgCO2e/m3", {"WASTEWATER_TREATMENT", "INDUSTRIAL_EFFLUENT"})

\* The id a row is upserted under: a second row with it replaces the value of the first.
stableId(f) == <<f.source, f.category, f.subCategory, f.activityType>>

seedEmissionFactors == {stableId(f) : f \in DEFRA_FACTORS \cup WASTE_AND_WATER_FACTORS}
                         \cup {<<"cea_v18", region>> : region \in CEA_STATE_FACTORS}
                         \cup {<<"ipcc_ar6", a>> : a \in DOMAIN IPCC_GWP_FACTORS}

-------------------------------------------------------------------------------
(* Properties.                                                                *)

\* A state has one row, which getCeaFactor finds, in whatever year; the factor of its
\* region lies between the least and the greatest of the region's states, as an average
\* does; and a state that is not in the list gets the factor of India, which of 2024 is
\* the same in the regional table and in the history, and for later years stays that.
GridFactorFits(state) ==
    LET f == CHOOSE g \in CEA_GRID_FACTORS_2024 : g.state = state
        ofRegion == {g.factor : g \in {h \in CEA_GRID_FACTORS_2024 : h.region = f.region}}
    IN  /\ Cardinality(STATE_INDEX(state)) = 1
        /\ \A year \in 2017 .. 2026 : getCeaFactor(state, year) = f.factor
        /\ \E a, b \in ofRegion : a <= getCeaFactorByRegion(f.region) /\ getCeaFactorByRegion(f.region) <= b
        /\ \A year \in 2024 .. 2026 : getCeaFactor("elsewhere", year) = getCeaFactorByRegion("AllIndia")

\* A fuel has one row, with a unit that units.ts knows as one of volume, mass or energy.
\* What is burnt of a fossil fuel weighs more than its supply, of a biofuel less, so that
\* the two columns cannot be taken for each other.
FuelFactorFits(fuelId) ==
    LET f == CHOOSE g \in DEFRA_FUEL_FACTORS_2024 : g.fuel_id = fuelId
    IN  /\ Cardinality(getFuelFactor(fuelId)) = 1
        /\ \E u \in lookup(f.unit) : u.family \in {"VOLUME", "MASS", "ENERGY"}
        /\ (calcCombustionEmissions(fuelId, 3) > calcWttEmissions(fuelId, 3)) <=> f.category # "biofuel"

\* The name of a species in the other package.
SameGas(species) ==
    CASE species = "CH4_BIOGENIC" -> "CH4_NON_FOSSIL"
      [] species = "PFC_CF4" -> "PFC-14"
      [] species = "PFC_C2F6" -> "PFC-116"
      [] species \in {"HFC_134a", "HFC_152a", "HFC_32", "HFC_125", "HFC_143a", "HFC_23"} ->
            [HFC_134a |-> "HFC-134a", HFC_152a |-> "HFC-152a", HFC_32 |-> "HFC-32",
             HFC_125 |-> "HFC-125", HFC_143a |-> "HFC-143a", HFC_23 |-> "HFC-23"][species]
      [] OTHER -> species

SameBasis == [AR5 |-> "AR5", AR6_100Y |-> "AR6_100", AR6_20Y |-> "AR6_20"]

\* The two tables have different figures for these.
Disputed == {<<"SF6", "AR6_100Y">>, <<"HFC_23", "AR6_20Y">>}

\* The two packages give a mass of a gas the same weight, alone or in a list whose items
\* have bases of their own, the two disputed figures apart.
PackagesAgree(species) ==
    \A basis \in DOMAIN GWP :
       LET item == [species |-> species, massKg |-> 7, basis |-> basis]
           plain == [item EXCEPT !.basis = "none"]
           weight == toCO2e(SameGas(species), 7, SameBasis[basis])
       IN  <<species, basis>> \notin Disputed =>
              /\ co2eFromMass(7, species, basis) = weight
              /\ \A other \in DOMAIN GWP : co2eFromKgArray(<<item, item>>, other) = 2 * weight
              /\ co2eFromKgArray(<<plain>>, basis) = weight

\* What the refrigerants that are blends are made of.
Constituents == ("R-404A" :> {"HFC-125", "HFC-143a", "HFC-134a"})
                  @@ ("R-407A" :> {"HFC-32", "HFC-125", "HFC-134a"})
                  @@ ("R-407C" :> {"HFC-32", "HFC-125", "HFC-134a"})
                  @@ ("R-410A" :> {"HFC-32", "HFC-125"})
                  @@ ("R-507A" :> {"HFC-125", "HFC-143a"})

\* A gas has a potential under every basis, that of a blend lies between those of its
\* constituents, and methane of unknown origin between fossil methane and the other.
PotentialFits(gas) ==
    \A basis \in DOMAIN TABLES :
       LET between(parts) == \E a, b \in parts : /\ getGwp(a, basis) <= getGwp(gas, basis)
                                                 /\ getGwp(gas, basis) <= getGwp(b, basis)
       IN  /\ getGwp(gas, basis) > 0
           /\ gas \in DOMAIN Constituents => between(Constituents[gas])
           /\ gas = "CH4" => between({"CH4_FOSSIL", "CH4_NON_FOSSIL"})

\* No row that is seeded replaces another, as their ids differ, and a potential that is
\* seeded is that of the frameworks package.
SeedKeepsItsRows ==
    /\ Cardinality(seedEmissionFactors) =
          Cardinality(CEA_STATE_FACTORS) + Cardinality(DEFRA_FACTORS)
            + Cardinality(DOMAIN IPCC_GWP_FACTORS) + Cardinality(WASTE_AND_WATER_FACTORS)
    /\ \A a \in DOMAIN IPCC_GWP_FACTORS :
          IPCC_GWP_FACTORS[a] = getGwp(CASE a = "HFC_134A" -> "HFC-134a" [] a = "HFC_32" -> "HFC-32"
                                         [] OTHER -> a, "AR6_100")

\* The factors are consistent: GridFactorFits, FuelFactorFits, PackagesAgree and
\* PotentialFits of what a sample names, and SeedKeepsItsRows.
FactorsAreSound(sample) ==
    CASE sample[1] = "state" -> GridFactorFits(sample[2])
      [] sample[1] = "fuel" -> FuelFactorFits(sample[2])
      [] sample[1] = "species" -> PackagesAgree(sample[2])
      [] sample[1] = "gas" -> PotentialFits(sample[2])
      [] OTHER -> SeedKeepsItsRows

\* What there is to look up.
FactorSamples == ({"state"} \X {f.state : f \in CEA_GRID_FACTORS_2024})
                   \cup ({"fuel"} \X {f.fuel_id : f \in DEFRA_FUEL_FACTORS_2024})
                   \cup ({"species"} \X ToSet(GhgSpecies)) \cup ({"gas"} \X Gas)
                   \cup {<<"seed", "all">>}
===============================================================================
