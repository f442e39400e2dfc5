--------------------------------- MODULE Units ---------------------------------
(***************************************************************************)
(* Units of measure: packages/shared/src/units.ts.  A unit belongs to a      *)
(* family and is converted over the base unit of it.  Texts are those that    *)
(* remain after trim and toLowerCase; a factor stays the text of the number.  *)
(***************************************************************************)
EXTENDS Integers, FiniteSets

\* The calls of register() for a family, each with the lower-cased symbol, which is the
\* key that the unit is stored under.
Registered(family, units) == {[key |-> u[1], family |-> family, factor |-> u[2]] : u \in units}

UNITS ==
    Registered("ENERGY", {<<"j", "1">>, <<"kj", "1e3">>, <<"mj", "1e6">>, <<"gj", "1e9">>,
        <<"tj", "1e12">>, <<"wh", "3600">>, <<"kwh", "3.6e6">>, <<"mwh", "3.6e9">>, <<"gwh",
        "3.6e12">>, <<"twh", "3.6e15">>, <<"cal", "4.184">>, <<"kcal", "4184">>, <<"btu",
        "1055.06">>, <<"therm", "1.05506e8">>}) \cup
    Registered("MASS", {<<"kg", "1">>, <<"g", "1e-3">>, <<"mg", "1e-6">>, <<"t", "1e3">>,
        <<"lb", "0.45359237">>, <<"oz", "0.0283495231">>}) \cup
    Registered("VOLUME", {<<"l", "1">>, <<"ml", "1e-3">>, <<"kl", "1e3">>, <<"m3", "1e3">>,
        <<"cm3", "1e-3">>, <<"gal_us", "3.78541">>, <<"gal_uk", "4.54609">>, <<"bbl",
        "158.987">>}) \cup
    Registered("AREA", {<<"m2", "1">>, <<"cm2", "1e-4">>, <<"km2", "1e6">>, <<"ha", "1e4">>,
        <<"hectare", "1e4">>, <<"acre", "4046.8564224">>}) \cup
    Registered("DISTANCE", {<<"m", "1">>, <<"km", "1e3">>, <<"cm", "1e-2">>, <<"mi",
        "1609.344">>, <<"ft", "0.3048">>}) \cup
    Registered("TIME", {<<"s", "1">>, <<"min", "60">>, <<"h", "3600">>, <<"d", "86400">>}) \cup
    Registered("POWER", {<<"w", "1">>, <<"kw", "1e3">>, <<"mw", "1e6">>, <<"gw", "1e9">>,
        <<"hp", "745.6999">>}) \cup
    Registered("EMISSION", {<<"kgco2e", "1">>, <<"tco2e", "1e3">>, <<"gco2e", "1e-3">>,
        <<"mtco2e", "1e9">>}) \cup
    Registered("MONEY", {<<"usd", "1">>})

\* The other names of a unit.
Named(key, aliases) == {[alias |-> a, key |-> key] : a \in aliases}

ALIASES ==
    Named("kwh", {"kwh", "kilowatt-hour", "kilowatt hour", "kilowatt hours"}) \cup
    Named("mwh", {"mwh"}) \cup
    Named("gwh", {"gwh"}) \cup
    Named("twh", {"twh"}) \cup
    Named("btu", {"btu"}) \cup
    Named("therm", {"therms"}) \cup
    Named("t", {"tonne", "tonnes", "ton", "tons", "metric_ton", "metric ton", "metric tons",
        "metric_tons"}) \cup
    Named("lb", {"pound", "pounds", "lbs"}) \cup
    Named("oz", {"ounce", "ounces"}) \cup
    Named("g", {"gram", "grams"}) \cup
    Named("kg", {"kilogram", "kilograms"}) \cup
    Named("l", {"liter", "liters", "litre", "litres"}) \cup
    Named("ml", {"milliliter", "milliliters"}) \cup
    Named("m3", {"cubicmeter", "cubic meter", "cubic meters", "m^3"}) \cup
    Named("gal_us", {"gallon", "gallons", "us gallon"}) \cup
    Named("gal_uk", {"uk gallon", "imperial gallon"}) \cup
    Named("bbl", {"barrel", "barrels"}) \cup
    Named("m2", {"m^2", "sq m", "sqm"}) \cup
    Named("ha", {"hectares", "hectare"}) \cup
    Named("acre", {"acres"}) \cup
    Named("m", {"meter", "meters"}) \cup
    Named("km", {"kilometer", "kilometers"}) \cup
    Named("mi", {"mile", "miles"}) \cup
    Named("ft", {"feet", "foot"}) \cup
    Named("s", {"second", "seconds", "sec"}) \cup
    Named("min", {"minute", "minutes", "mins"}) \cup
    Named("h", {"hour", "hours", "hr", "hrs"}) \cup
    Named("d", {"day", "days"}) \cup
    Named("w", {"watt", "watts"}) \cup
    Named("kw", {"kilowatt", "kilowatts"}) \cup
    Named("mw", {"megawatt", "megawatts"}) \cup
    Named("hp", {"horsepower"}) \cup
    Named("kgco2e", {"kg co2e", "kgco2-e", "kg co2-e"}) \cup
    Named("tco2e", {"tco2-e", "t co2e"}) \cup
    Named("gco2e", {"g co2e"})

normalize(symbol) == IF \E a \in ALIASES : a.alias = symbol
                     THEN (CHOOSE a \in ALIASES : a.alias = symbol).key ELSE symbol

lookup(symbol) == {u \in UNITS : u.key = normalize(symbol)}

\* convert, as the two factors it multiplies and divides by; it throws otherwise.
Throw == <<>>
convert(from, to) ==
    LET fitting == {p \in lookup(from) \X lookup(to) : /\ p[1].family = p[2].family
                                                     /\ p[1].family # "MONEY"}
        converted == {<<p[1].factor, p[2].factor>> : p \in fitting}
    IN IF converted = {} THEN Throw ELSE CHOOSE c \in converted : TRUE

canConvert(from, to) ==
    \E f \in lookup(from), t \in lookup(to) : f.family = t.family /\ f.family # "MONEY"

Symbols == {u.key : u \in UNITS} \cup {a.alias : a \in ALIASES}

-------------------------------------------------------------------------------
(* Property.                                                                 *)

\* Every symbol, registered or an alias, has one unit: none is registered twice, which
\* the second time would silently replace the first (kl and kL are one key), no alias
\* leads nowhere, and one that hides a registered symbol means the same unit.  And
\* canConvert says yes to two symbols just when convert does not throw.
UnitIsResolved(symbol) ==
    /\ Cardinality(lookup(symbol)) = 1
    /\ Cardinality({a \in ALIASES : a.alias = symbol}) <= 1
    /\ \A u \in UNITS : u.key = symbol =>
          \E v \in lookup(symbol) : v.family = u.family /\ v.factor = u.factor
    /\ \A to \in {u.key : u \in UNITS} : canConvert(symbol, to) <=> convert(symbol, to) # Throw
===============================================================================
