------------------------------ MODULE Readings ------------------------------
(***************************************************************************)
(* What becomes of the values of a read: the channels that reached a car   *)
(* are merged (merge_channels), and the result is reconciled with the      *)
(* stored snapshot (reconcile). Both are functions of their arguments.     *)
(*                                                                         *)
(* A value is a number, 0 for what Python takes as false or, in a time     *)
(* stamp, for one that does not parse. Fields stands for the fields of     *)
(* VehicleData: one or two of each class that the code treats alike.       *)
(***************************************************************************)
EXTENDS Integers, Sequences, FiniteSets

None    == -1
Reading == {None} \cup Nat

LiveFields == {"battery_soc", "target_soc", "electric_range_km", "is_charging",
               "charging_state", "climatisation_active",
               "climate_remaining_time_min", "doors_locked"}
PinFields  == {"latitude", "longitude", "position_captured_at", "heading"}
BatteryEvidence    == {"battery_soc", "electric_range_km", "charging_state"}
CombustionEvidence == {"fuel_level", "combustion_range_km"}
CarryForwardFields == {"odometer_km", "battery_soc", "target_soc", "fuel_level",
                       "electric_range_km", "combustion_range_km", "last_seen_at"}
StaticFields    == {"model", "safe_state_implemented"}
PositionGroup   == {"latitude", "longitude", "parking_address", "position_captured_at"}
ContestedFields == {"battery_soc", "target_soc", "odometer_km"}

\* pack_energy is battery_available_kwh in per cent of battery_cap_kwh.
Fields == LiveFields \cup PinFields \cup CarryForwardFields \cup StaticFields
          \cup PositionGroup \cup {"battery_soc_from_hv", "pack_energy"}

\* brand stands for the name of the brand's own cloud.
BatchSources == {"eu_data_act"}
Channels     == BatchSources \cup {"website_authproxy", "mbb", "tibber",
                                   "companion_adb", "companion_relay", "brand"}
NoChannel    == "none"

\* The candidates for a contested field.
Candidates == {C \in SUBSET Nat : IsFiniteSet(C)}

\* field_sources says who a value is from, contested_fields what else the
\* portal delivered for a field under one capture time.
Snapshots ==
    [reading : [Fields -> Reading], field_sources : [Fields -> Channels \cup {NoChannel}],
     contested_fields : [ContestedFields -> Candidates],
     has_battery : BOOLEAN, has_combustion : BOOLEAN,
     is_electric : BOOLEAN, is_hybrid : BOOLEAN]

\* What one channel delivered.
ChannelReads ==
    [channel : Channels, vin : Nat, reading : [Fields -> Reading],
     contested_fields : [ContestedFields -> Candidates],
     has_battery : BOOLEAN, has_combustion : BOOLEAN,
     is_electric : BOOLEAN, is_hybrid : BOOLEAN]

-----------------------------------------------------------------------------
(* merge_channels. Sources are ordered by trust, each channel named once.  *)

Sources == {s \in Seq(ChannelReads) \ {<<>>} :
              \A i, j \in DOMAIN s : s[i].channel = s[j].channel => i = j}

Least(S) == CHOOSE i \in S : \A j \in S : i <= j

\* The first source of the latest stamp.
Newest(s, S, stamp) ==
    CHOOSE i \in S : \A j \in S : \/ s[j].reading[stamp] < s[i].reading[stamp]
                                  \/ s[j].reading[stamp] = s[i].reading[stamp] /\ i <= j

\* The sources that gaps may be filled from; vin 0 is none at all.
OfThisCar(s) ==
    {i \in DOMAIN s : i = 1 \/ 0 \in {s[1].vin, s[i].vin} \/ s[i].vin = s[1].vin}
OneCar(s) == OfThisCar(s) = DOMAIN s

Readers(s, x) == {i \in DOMAIN s : s[i].reading[x] # None}
LiveReaders(s, x) == {i \in Readers(s, x) : s[i].channel \notin BatchSources}
DatedPins(s) ==
    {i \in Readers(s, "latitude") \cap Readers(s, "longitude") :
        s[i].reading["position_captured_at"] > 0}
Stamped(s) == {i \in DOMAIN s : s[i].reading["last_seen_at"] > 0}

\* The source whose reading fills a field, or 0.
GapFilled(s, x) ==
    LET readers == Readers(s, x) \cap OfThisCar(s)
    IN  IF readers = {} THEN 0 ELSE Least(readers)

\* What the batch feed filled goes to the first live channel that reads it.
LiveSuperseded(s, x) ==
    LET i == GapFilled(s, x)
    IN  IF /\ x \in LiveFields /\ LiveReaders(s, x) # {}
           /\ i # 0 /\ s[i].channel \in BatchSources
        THEN Least(LiveReaders(s, x)) ELSE i

PinIsOlder(s) ==
    /\ DatedPins(s) # {}
    /\ GapFilled(s, "latitude") # Newest(s, DatedPins(s), "position_captured_at")

\* The source that a field of the merged snapshot is from, or 0.
FieldOwner(s, x) ==
    LET pin == Newest(s, DatedPins(s), "position_captured_at")
    IN  IF x \in PinFields /\ PinIsOlder(s) /\ s[pin].reading[x] # None
        THEN pin
        ELSE IF x = "last_seen_at" /\ Stamped(s) # {}
        THEN Newest(s, Stamped(s), "last_seen_at")
        ELSE LiveSuperseded(s, x)

\* drivetrain_from_evidence.
Evidence(reading, fields) == \E x \in fields : reading[x] # None

Merge(s) ==
    LET reading == [x \in Fields |->
                      IF FieldOwner(s, x) = 0 THEN None ELSE s[FieldOwner(s, x)].reading[x]]
        disputed == {i \in OfThisCar(s) :
                       \E x \in ContestedFields : s[i].contested_fields[x] # {}}
        battery == \/ Evidence(reading, BatteryEvidence)
                   \/ \E i \in DOMAIN s : s[i].has_battery
        combustion == \/ Evidence(reading, CombustionEvidence)
                      \/ \E i \in DOMAIN s : s[i].has_combustion
        known == battery \/ combustion
    IN  [reading |-> reading,
         field_sources |-> [x \in Fields |->
             IF FieldOwner(s, x) = 0 THEN NoChannel ELSE s[FieldOwner(s, x)].channel],
         contested_fields |->
             s[IF disputed = {} THEN 1 ELSE Least(disputed)].contested_fields,
         has_battery |-> battery, has_combustion |-> combustion,
         is_electric |-> IF known THEN battery /\ ~combustion ELSE s[1].is_electric,
         is_hybrid |-> IF known THEN battery /\ combustion ELSE s[1].is_hybrid]

\* annotate_provenance: a car with one channel keeps that channel's flags.
Annotated(read) ==
    [reading |-> read.reading,
     field_sources |-> [x \in Fields |->
         IF read.reading[x] = None THEN NoChannel ELSE read.channel],
     contested_fields |-> read.contested_fields,
     has_battery |-> read.has_battery, has_combustion |-> read.has_combustion,
     is_electric |-> read.is_electric, is_hybrid |-> read.is_hybrid]

-----------------------------------------------------------------------------
(* reconcile. p is the stored snapshot, f the fresh one, old the stored    *)
(* values once healed, m the values so far.                                *)

OdometerCeiling == 2000000

\* A range of the electric motor that the car does not have (#1316).
Phantom(p) ==
    /\ p.reading["electric_range_km"] # None
    /\ p.has_combustion /\ ~p.has_battery /\ ~p.is_electric /\ ~p.is_hybrid

HealCachedSentinels(p) ==
    [x \in Fields |->
        IF \/ x = "odometer_km" /\ p.reading[x] >= OdometerCeiling
           \/ x = "electric_range_km" /\ Phantom(p)
        THEN None ELSE p.reading[x]]

CarryForward(old, m) ==
    [x \in Fields |->
        IF \/ x \in CarryForwardFields /\ m[x] = None
           \/ x \in StaticFields /\ m[x] \in {None, 0} /\ old[x] > 0
        THEN old[x] ELSE m[x]]

SocIsLive(f) == f.field_sources["battery_soc"] \notin BatchSources \cup {NoChannel}

\* A leaf-only poll does not replace the charge level of the HV pair (#1195).
HoldSoc(old, m, f) ==
    [m EXCEPT !["battery_soc"] =
                IF /\ old["battery_soc_from_hv"] = 1 /\ m["battery_soc_from_hv"] = 0
                   /\ old["battery_soc"] # None /\ ~SocIsLive(f)
                THEN old["battery_soc"] ELSE @,
              !["battery_soc_from_hv"] =
                IF 1 \in {old["battery_soc_from_hv"], @} THEN 1 ELSE @]

KeepPosition(old, m) ==
    [x \in Fields |->
        IF x \in PositionGroup /\ m[x] = None
           /\ m["latitude"] = None /\ m["longitude"] = None
        THEN old[x] ELSE m[x]]

Distance(a, b) == IF a < b THEN b - a ELSE a - b
Nearest(S, v)  == CHOOSE a \in S : \A b \in S : Distance(a, v) <= Distance(b, v)
Highest(S)     == CHOOSE a \in S : \A b \in S : b <= a
LargeGap == 15

\* The rules of _resolve_contested_soc, in their order.
ResolveSoc(C, old, f) ==
    LET last   == old["battery_soc"]
        energy == f.reading["pack_energy"]
        near   == Nearest(C, energy)
        moved  == /\ None \notin {old["odometer_km"], f.reading["odometer_km"]}
                  /\ f.reading["odometer_km"] > old["odometer_km"]
    IN  IF energy # None /\ Distance(last, energy) >= LargeGap THEN near
        ELSE IF f.reading["is_charging"] = 1 /\ Highest(C) > last THEN Highest(C)
        ELSE IF energy # None
                /\ \A c \in C \ {near} : Distance(near, energy) < Distance(c, energy)
             THEN near
        ELSE IF moved /\ last \in C THEN Nearest(C \ {last}, last)
        ELSE Nearest(C, last)

\* Whether the candidates for a field are weighed at all.
Contested(x, old, m, f) ==
    /\ x \in ContestedFields
    /\ \E a, b \in f.contested_fields[x] : a # b
    /\ old[x] # None
    /\ x = "battery_soc" => m["battery_soc_from_hv"] # 1 /\ ~SocIsLive(f)

\* The candidates come under the names of the channel, of which up to three
\* stand for one field (_CONTESTED_ATTR) and are weighed in turn, so that the
\* last decides. Here a field has one set of candidates, that of the last name.
ResolveContested(old, m, f) ==
    [x \in Fields |->
        IF Contested(x, old, m, f)
        THEN IF x = "battery_soc" THEN ResolveSoc(f.contested_fields[x], old, f)
             ELSE Nearest(f.contested_fields[x], old[x])
        ELSE m[x]]

IsCharging(f) == f.reading["is_charging"] = 1 \/ f.reading["charging_state"] = 1

\* A charge level far above what the pack holds is a stale one.
EnergySanity(old, m, f) ==
    LET energy == f.reading["pack_energy"]
    IN  [m EXCEPT !["battery_soc"] =
            IF /\ ~Contested("battery_soc", old, m, f) /\ ~SocIsLive(f)
               /\ @ # None /\ energy # None /\ ~IsCharging(f)
               /\ @ - energy >= LargeGap
            THEN energy ELSE @]

\* The odometer and the time of the last reading only move forward.
NotBackwards(old, m) ==
    [m EXCEPT !["odometer_km"] =
                IF @ # None /\ @ < old["odometer_km"] THEN old["odometer_km"] ELSE @,
              !["last_seen_at"] =
                IF @ > 0 /\ @ < old["last_seen_at"] THEN old["last_seen_at"] ELSE @]

ClimateIdleGate(m) ==
    [m EXCEPT !["climate_remaining_time_min"] =
                IF m["climatisation_active"] = 0 /\ @ > 0 THEN 0 ELSE @]

ReconciledValues(p, f) ==
    LET old     == HealCachedSentinels(p)
        held    == KeepPosition(old, HoldSoc(old, CarryForward(old, f.reading), f))
        settled == ResolveContested(old, held, f)
    IN  ClimateIdleGate(NotBackwards(old, EnergySanity(old, settled, f)))

\* The flags are those of the fresh snapshot, raised by what was carried.
Reconcile(p, f) ==
    LET m          == ReconciledValues(p, f)
        battery    == f.has_battery \/ Evidence(m, BatteryEvidence)
        combustion == f.has_combustion \/ Evidence(m, CombustionEvidence)
    IN  [f EXCEPT !.reading = m,
                  !.has_battery = battery, !.has_combustion = combustion,
                  !.is_electric = @ \/ (battery /\ ~combustion),
                  !.is_hybrid   = @ \/ (battery /\ combustion)]

\* With no snapshot a read is stored as it is, but for the gate.
FirstReconcile(f) == [f EXCEPT !.reading = ClimateIdleGate(@)]
-----------------------------------------------------------------------------
(* Properties *)

\* For live telemetry "a live channel's reading must therefore always beat the
\* batch feed's, regardless of which channel is configured as primary"
\* (_channel_merge.py:62-64).
LiveBeatsBatch(s) ==
    \A x \in LiveFields : OneCar(s) /\ LiveReaders(s, x) # {} =>
        LET first == s[Least(LiveReaders(s, x))]
        IN  /\ Merge(s).reading[x] = first.reading[x]
            /\ Merge(s).field_sources[x] = first.channel

\* A channel that knows a position knows both coordinates, and dates nothing else.
WholePins(s) ==
    \A i \in DOMAIN s :
        /\ s[i].reading["latitude"] = None <=> s[i].reading["longitude"] = None
        /\ s[i].reading["position_captured_at"] # None => s[i].reading["latitude"] # None

\* The merged coordinates and their date are one channel's, and nobody has later
\* ones: "capture AGE, not channel class, is the right judge"
\* (_channel_merge.py:206).
PinIsTheFreshest(s) ==
    WholePins(s) /\ DatedPins(s) # {} =>
        \E i \in DatedPins(s) :
            /\ \A x \in PinFields \ {"heading"} : Merge(s).reading[x] = s[i].reading[x]
            /\ \A j \in DatedPins(s) : s[j].reading["position_captured_at"]
                                         <= s[i].reading["position_captured_at"]

\* No source has seen the car later than the merged snapshot says, which is what
\* raises the stale-data repair (_channel_merge.py:238-240).
SeenIsTheLatest(s) ==
    \A i \in Stamped(s) :
        s[i].reading["last_seen_at"] <= Merge(s).reading["last_seen_at"]

\* From the channel to the dashboard: "a live SoC stands untouched on both
\* branches" (vehicle_cache.py:580-581), and so does what a live channel says of
\* range, charging, climate and closures, whatever the snapshot held and the
\* portal delivered beside it. Two fields are not part of it: the climate's
\* remaining time, which is zeroed when the climate is off, and the target SoC.
LiveReadingStands(p, s) ==
    \A x \in LiveFields \ {"target_soc", "climate_remaining_time_min"} :
        OneCar(s) /\ LiveReaders(s, x) # {} =>
            Reconcile(p, Merge(s)).reading[x] = s[Least(LiveReaders(s, x))].reading[x]

\* "must never blank the dashboard" (vehicle_cache.py:5-6): what is carried is not
\* lost to a poll that omits it, and a position not to one without coordinates.
NothingBlanked(p, f) ==
    LET old == HealCachedSentinels(p)
        new == Reconcile(p, f).reading
    IN  /\ \A x \in CarryForwardFields : old[x] # None => new[x] # None
        /\ old["latitude"] # None /\ old["longitude"] # None =>
               new["latitude"] # None \/ new["longitude"] # None

\* The odometer and the time of the last reading never go back, whatever the
\* candidates of a contested delivery are; but for an odometer that no car can
\* have (#1122) and a stamp that does not parse.
OnlyForward(p, f) ==
    LET new == Reconcile(p, f).reading
    IN  /\ p.reading["odometer_km"] < OdometerCeiling =>
               p.reading["odometer_km"] <= new["odometer_km"]
        /\ f.reading["last_seen_at"] # 0 =>
               p.reading["last_seen_at"] <= new["last_seen_at"]

\* A phantom range of a combustion car does not come back, nor with it a battery.
OfCombustion(p) ==
    /\ p.has_combustion /\ ~p.has_battery /\ ~p.is_electric /\ ~p.is_hybrid
    /\ p.reading["battery_soc"] = None
NoBatterySeen(f) ==
    /\ ~f.has_battery /\ ~f.is_electric /\ ~f.is_hybrid
    /\ \A x \in BatteryEvidence : f.reading[x] = None
PhantomIsGone(p, f) ==
    OfCombustion(p) /\ NoBatterySeen(f) =>
        LET new == Reconcile(p, f)
        IN  /\ new.reading["electric_range_km"] = None
            /\ ~new.has_battery /\ ~new.is_electric /\ ~new.is_hybrid

\* The portal's feed is read more often than it changes. A delivery that was
\* reconciled once changes nothing when it is read again, if all that it contests
\* was known, its odometer is not contested, the car does not charge and the
\* pack's energy does not lie halfway between two charge levels.
Settled(p, f) ==
    /\ \A x \in ContestedFields : p.reading[x] # None
    /\ p.reading["odometer_km"] < OdometerCeiling
    /\ \A a, b \in f.contested_fields["odometer_km"] : a = b
    /\ f.reading["is_charging"] # 1
    /\ \A a, b \in f.contested_fields["battery_soc"] :
           Distance(a, f.reading["pack_energy"]) = Distance(b, f.reading["pack_energy"]) => a = b
RepeatChangesNothing(p, f) ==
    Settled(p, f) => Reconcile(Reconcile(p, f), f) = Reconcile(p, f)
-----------------------------------------------------------------------------
(* Where the code does not do what it says: examples *)

Unset == [x \in Fields |-> None]
Uncontested == [x \in ContestedFields |-> {}]

\* An electric car's snapshot of the batch feed's.
Portal(reading, contested) ==
    [reading |-> reading,
     field_sources |-> [x \in Fields |-> IF reading[x] = None THEN NoChannel ELSE "eu_data_act"],
     contested_fields |-> contested, has_battery |-> TRUE, has_combustion |-> FALSE,
     is_electric |-> TRUE, is_hybrid |-> FALSE]

\* Reading one delivery again and again shows two charge levels in turn. The
\* resolver is there because guessing "is what makes a charge level flip between
\* two numbers on a parked car" (vehicle_cache.py:542-543).
Alternates(p, f) ==
    LET one == Reconcile(p, f)
        two == Reconcile(one, f)
    IN  /\ one.reading["battery_soc"] # two.reading["battery_soc"]
        /\ Reconcile(two, f) = one

\* A parked car whose portal sends a fresh and a frozen block, odometer and
\* charge level twice each: the odometer stays at the frozen candidate, so the
\* car seems to have moved since the last poll, at every poll.
ParkedBefore == Portal([Unset EXCEPT !["battery_soc"] = 60, !["odometer_km"] = 1000], Uncontested)
ParkedTwins  == Portal([Unset EXCEPT !["battery_soc"] = 60, !["odometer_km"] = 1050],
                       [Uncontested EXCEPT !["battery_soc"] = {40, 60},
                                           !["odometer_km"] = {1000, 1050}])

\* A charging car at 40 with a frozen 94: the pack's energy picks the former,
\* and that the car charges the latter.
ChargingReading == [Unset EXCEPT !["battery_soc"] = 94, !["pack_energy"] = 45, !["is_charging"] = 1]
ChargingBefore  == Portal(ChargingReading, Uncontested)
ChargingTwins   == Portal(ChargingReading, [Uncontested EXCEPT !["battery_soc"] = {40, 94}])

\* A live channel's target SoC, replaced by a candidate of the portal's.
TargetReplaced(p, s) ==
    /\ OneCar(s) /\ LiveReaders(s, "target_soc") # {}
    /\ Reconcile(p, Merge(s)).reading["target_soc"]
           # s[Least(LiveReaders(s, "target_soc"))].reading["target_soc"]

TargetBefore == Portal([Unset EXCEPT !["target_soc"] = 70], Uncontested)
ReadBy(channel, reading, contested) ==
    [channel |-> channel, vin |-> 1, reading |-> reading, contested_fields |-> contested,
     has_battery |-> TRUE, has_combustion |-> FALSE,
     is_electric |-> TRUE, is_hybrid |-> FALSE]
TargetSources ==
    << ReadBy("website_authproxy", [Unset EXCEPT !["target_soc"] = 80], Uncontested),
       ReadBy("eu_data_act", [Unset EXCEPT !["target_soc"] = 90],
              [Uncontested EXCEPT !["target_soc"] = {70, 90}]) >>

\* "this can never produce a snapshot that claims both" (vehicle_cache.py:723)
ClaimsBoth(p) == p.is_electric /\ p.is_hybrid
HybridBefore ==
    [Portal([Unset EXCEPT !["fuel_level"] = 50], Uncontested)
        EXCEPT !.has_combustion = TRUE, !.is_electric = FALSE, !.is_hybrid = TRUE]
=============================================================================
