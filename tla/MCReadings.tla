----------------------------- MODULE MCReadings -----------------------------
(* Readings on small sets of sources and snapshots. Where a property tells  *)
(* fields apart only some of them vary; the others are unset.               *)
EXTENDS Readings

With(changes) == [x \in Fields |-> IF x \in DOMAIN changes THEN changes[x] ELSE None]

Source(channel, vin, reading) ==
    [channel |-> channel, vin |-> vin, reading |-> reading,
     contested_fields |-> Uncontested, has_battery |-> FALSE, has_combustion |-> FALSE,
     is_electric |-> FALSE, is_hybrid |-> FALSE]

\* Up to three channels, one of them the batch feed, in any order.
Names == {"eu_data_act", "website_authproxy", "brand"}
Orders == {n \in UNION {[1..k -> Names] : k \in 1..3} :
              \A i, j \in DOMAIN n : n[i] = n[j] => i = j}

\* Two live fields, read by any of the channels.
LiveReads == {With([battery_soc |-> a, doors_locked |-> b]) : a, b \in {None, 40, 94}}
\* Pins, with and without a date, and times of the last reading.
PinReads == {With([latitude |-> a, longitude |-> a, position_captured_at |-> t, last_seen_at |-> t])
               : a \in {None, 1}, t \in {None, 0, 1, 2}}
SourcesOf(readings) ==
    UNION {{[i \in DOMAIN n |-> Source(n[i], 1, r[i])] : r \in [DOMAIN n -> readings]}
              : n \in Orders}

MergeChecked ==
    /\ \A s \in SourcesOf(LiveReads) : LiveBeatsBatch(s)
    /\ \A s \in SourcesOf(PinReads) : PinIsTheFreshest(s) /\ SeenIsTheLatest(s)
ASSUME MergeChecked

SnapshotOf(reading, channel, contested, battery, combustion) ==
    [reading |-> reading,
     field_sources |-> [x \in Fields |-> IF reading[x] = None THEN NoChannel ELSE channel],
     contested_fields |-> contested,
     has_battery |-> battery, has_combustion |-> combustion,
     is_electric |-> battery /\ ~combustion, is_hybrid |-> battery /\ combustion]

\* A charge level, with what may overrule it.
SocBefore ==
    {SnapshotOf(With([battery_soc |-> a, battery_soc_from_hv |-> h,
                      odometer_km |-> 10, target_soc |-> 80]), "eu_data_act", Uncontested, TRUE, FALSE)
        : a \in {None, 40, 50, 94}, h \in {None, 0, 1}}
SocAfter ==
    {SnapshotOf(With([battery_soc |-> a, battery_soc_from_hv |-> h, pack_energy |-> e,
                    is_charging |-> g, odometer_km |-> o]),
              channel, [Uncontested EXCEPT !["battery_soc"] = c], TRUE, FALSE)
        : a \in {None, 40, 94}, h \in {None, 0, 1}, e \in {None, 45, 90},
          g \in {None, 0, 1}, o \in {None, 9, 11}, c \in {{}, {40, 94}, {30, 60}, {50, 60, 94}},
          channel \in {"eu_data_act", "brand"}}
SocChecked ==
    \A p \in SocBefore, f \in SocAfter :
        NothingBlanked(p, f) /\ OnlyForward(p, f) /\ RepeatChangesNothing(p, f)
ASSUME SocChecked

\* Odometer, stamps, position, range and flags.
CarKinds == {<<FALSE, FALSE>>, <<TRUE, FALSE>>, <<FALSE, TRUE>>, <<TRUE, TRUE>>}
Others == {With([odometer_km |-> o, last_seen_at |-> t, latitude |-> l, longitude |-> l,
                     electric_range_km |-> r, target_soc |-> 70])
                : o \in {None, 10, 12, OdometerCeiling}, t \in {None, 0, 1, 2},
                  l \in {None, 1}, r \in {None, 30}}
OtherBefore == {SnapshotOf(r, "brand", Uncontested, c[1], c[2]) : r \in Others, c \in CarKinds}
OtherAfter == {SnapshotOf(r, "brand", [Uncontested EXCEPT !["odometer_km"] = {10, 11}], c[1], c[2])
                  : r \in Others, c \in {<<FALSE, FALSE>>, <<FALSE, TRUE>>}}
OtherChecked ==
    \A p \in OtherBefore, f \in OtherAfter :
        NothingBlanked(p, f) /\ OnlyForward(p, f) /\ PhantomIsGone(p, f)
ASSUME OtherChecked

\* From the channels to the dashboard, the batch feed contesting its charge level.
DisputedSources ==
    {[i \in DOMAIN s |->
        IF s[i].channel = "eu_data_act"
        THEN [s[i] EXCEPT !.contested_fields["battery_soc"] = {40, 94},
                          !.reading["pack_energy"] = 45]
        ELSE s[i]]
       : s \in SourcesOf({With([battery_soc |-> a, battery_soc_from_hv |-> h])
                             : a \in {None, 40, 94}, h \in {None, 0}})}
StandsChecked == \A s \in DisputedSources, p \in SocBefore : LiveReadingStands(p, s)
ASSUME StandsChecked

DisagreementsChecked ==
    /\ Alternates(ParkedBefore, ParkedTwins) /\ ParkedTwins.reading["is_charging"] # 1
    /\ Alternates(ChargingBefore, ChargingTwins)
    /\ TargetReplaced(TargetBefore, TargetSources)
    /\ ClaimsBoth(Reconcile(HybridBefore, Portal(Unset, Uncontested)))
ASSUME DisagreementsChecked
=============================================================================
