--------------------------- MODULE Readings_proofs ---------------------------
(* What merge_channels and reconcile do with any sources and snapshots.     *)
EXTENDS Readings, FiniteSetTheorems, WellFoundedInduction, TLAPS

-----------------------------------------------------------------------------
(* Least, newest, nearest and highest *)

LEMMA LeastExists ==
  ASSUME NEW S, S \subseteq Nat, S # {}
  PROVE  Least(S) \in S /\ \A j \in S : Least(S) <= j
<1> DEFINE R == {ss \in Nat \X Nat : ss[1] < ss[2]}
<1>1. IsWellFoundedOn(R, Nat)
  BY NatLessThanWellFounded DEF OpToRel
<1>2. PICK x \in S : \A y \in S : <<y, x>> \notin R
  <2> HIDE DEF R
  <2> QED BY <1>1, WFMin
<1>3. ASSUME NEW y \in S PROVE x <= y
  <2>1. <<y, x>> \in Nat \X Nat /\ <<y, x>> \notin R
    BY <1>2
  <2>2. ~(y < x)
    BY <2>1
  <2> QED BY <2>2
<1> QED BY <1>3 DEF Least

LEMMA LeastBy ==
  ASSUME NEW S, S # {}, NEW g \in [S -> Nat]
  PROVE  \E a \in S : \A b \in S : g[a] <= g[b]
<1> DEFINE T == {g[a] : a \in S}
<1>1. T \subseteq Nat /\ T # {}
  OBVIOUS
<1>2. Least(T) \in T /\ \A t \in T : Least(T) <= t
  <2> HIDE DEF T
  <2> QED BY <1>1, LeastExists
<1>3. PICK a \in S : g[a] = Least(T)
  BY <1>2
<1> QED BY <1>2, <1>3

LEMMA NearestIs ==
  ASSUME NEW S, S \subseteq Nat, S # {}, NEW v \in Int
  PROVE  /\ Nearest(S, v) \in S
         /\ \A b \in S : Distance(Nearest(S, v), v) <= Distance(b, v)
<1> DEFINE g == [a \in S |-> Distance(a, v)]
<1>1. g \in [S -> Nat]
  BY DEF Distance
<1>2. \E a \in S : \A b \in S : g[a] <= g[b]
  <2> HIDE DEF g
  <2> QED BY <1>1, LeastBy
<1>3. \E a \in S : \A b \in S : Distance(a, v) <= Distance(b, v)
  BY <1>2
<1> QED BY <1>3 DEF Nearest

LEMMA NearestSelf ==
  ASSUME NEW S, S \subseteq Nat, NEW v \in S
  PROVE  Nearest(S, v) = v
<1>1. v \in Int /\ S # {}
  OBVIOUS
<1>2. /\ Nearest(S, v) \in S
      /\ Distance(Nearest(S, v), v) <= Distance(v, v)
  BY <1>1, NearestIs
<1>3. Nearest(S, v) \in Nat /\ v \in Nat
  BY <1>2
<1> QED BY <1>2, <1>3 DEF Distance

LEMMA GreatestBy ==
  ASSUME NEW S, S # {}, IsFiniteSet(S), NEW g \in [S -> Nat]
  PROVE  \E a \in S : \A b \in S : g[b] <= g[a]
<1> DEFINE Above(a) == {b \in S : g[b] > g[a]}
           h == [a \in S |-> Cardinality(Above(a))]
<1>1. \A a \in S : IsFiniteSet(Above(a)) /\ Cardinality(Above(a)) \in Nat
  BY FS_Subset, FS_CardinalityType
<1>2. PICK a \in S : \A b \in S : h[a] <= h[b]
  <2>1. h \in [S -> Nat]
    BY <1>1
  <2> HIDE DEF h
  <2> QED BY <2>1, LeastBy
<1>3. ASSUME NEW b \in S, g[b] > g[a] PROVE FALSE
  <2>1. Above(b) \subseteq Above(a) /\ Above(b) # Above(a)
    BY <1>3
  <2>2. Cardinality(Above(b)) < Cardinality(Above(a))
    <3> HIDE DEF Above
    <3> QED BY <1>1, <2>1, FS_Subset
  <2>3. h[a] <= h[b] /\ h[a] = Cardinality(Above(a)) /\ h[b] = Cardinality(Above(b))
    BY <1>2
  <2> HIDE DEF h, Above
  <2> QED BY <1>1, <2>2, <2>3
<1>4. \A b \in S : ~(g[b] > g[a])
  BY <1>3
<1> QED BY <1>4

LEMMA HighestIs ==
  ASSUME NEW S, S \in Candidates, S # {}
  PROVE  Highest(S) \in S /\ \A b \in S : b <= Highest(S)
<1> DEFINE g == [a \in S |-> a]
<1>1. S \subseteq Nat /\ IsFiniteSet(S)
  BY DEF Candidates
<1>2. \E a \in S : \A b \in S : g[b] <= g[a]
  <2>1. g \in [S -> Nat]
    BY <1>1
  <2> HIDE DEF g
  <2> QED BY <1>1, <2>1, GreatestBy
<1>3. \E a \in S : \A b \in S : b <= a
  BY <1>2
<1> QED BY <1>3 DEF Highest

\* Among indices: the first of those with the latest stamp.
LEMMA NewestIs ==
  ASSUME NEW s, NEW S, S # {}, S \subseteq Nat, IsFiniteSet(S), NEW stamp,
         \A i \in S : s[i].reading[stamp] \in Nat
  PROVE  /\ Newest(s, S, stamp) \in S
         /\ \A j \in S : s[j].reading[stamp] <= s[Newest(s, S, stamp)].reading[stamp]
<1> DEFINE g == [i \in S |-> s[i].reading[stamp]]
<1>1. PICK a \in S : \A b \in S : g[b] <= g[a]
  <2>1. g \in [S -> Nat]
    OBVIOUS
  <2> HIDE DEF g
  <2> QED BY <2>1, GreatestBy
<1> DEFINE T == {i \in S : g[i] = g[a]}
<1>2. Least(T) \in T /\ \A j \in T : Least(T) <= j
  <2>1. T \subseteq Nat /\ T # {}
    OBVIOUS
  <2> HIDE DEF T
  <2> QED BY <2>1, LeastExists
<1>3. \A j \in S : \/ s[j].reading[stamp] < s[Least(T)].reading[stamp]
                   \/ s[j].reading[stamp] = s[Least(T)].reading[stamp] /\ Least(T) <= j
  <2> TAKE j \in S
  <2>1. s[j].reading[stamp] <= s[Least(T)].reading[stamp]
    BY <1>1, <1>2
  <2>2. CASE s[j].reading[stamp] = s[Least(T)].reading[stamp]
    <3>1. j \in T
      BY <1>2, <2>2
    <3> QED BY <1>2, <2>2, <3>1
  <2>3. CASE s[j].reading[stamp] # s[Least(T)].reading[stamp]
    <3>1. Least(T) \in S
      BY <1>2
    <3>2. s[j].reading[stamp] \in Nat /\ s[Least(T)].reading[stamp] \in Nat
      BY <3>1
    <3>3. \A u, w \in Nat : u <= w /\ u # w => u < w
      OBVIOUS
    <3>4. s[j].reading[stamp] < s[Least(T)].reading[stamp]
      <4> HIDE DEF T
      <4> QED BY <2>1, <2>3, <3>2, <3>3, Zenon
    <3> QED BY <3>4
  <2> QED BY <2>2, <2>3
<1>4. \E i \in S : \A j \in S :
        \/ s[j].reading[stamp] < s[i].reading[stamp]
        \/ s[j].reading[stamp] = s[i].reading[stamp] /\ i <= j
  <2>1. Least(T) \in S
    BY <1>2
  <2> HIDE DEF T
  <2> QED BY <1>3, <2>1
<1> QED BY <1>4 DEF Newest

-----------------------------------------------------------------------------
(* merge_channels *)

LEMMA LiveFieldsIn ==
  /\ LiveFields \subseteq Fields /\ PinFields \subseteq Fields
  /\ CarryForwardFields \subseteq Fields /\ "last_seen_at" \in Fields
BY DEF Fields, CarryForwardFields

LEMMA SourcesShape ==
  ASSUME NEW s \in Sources
  PROVE  /\ DOMAIN s \subseteq Nat /\ IsFiniteSet(DOMAIN s)
         /\ 1 \in DOMAIN s /\ 0 \notin DOMAIN s
         /\ \A i \in DOMAIN s : s[i] \in ChannelReads
<1>1. s \in Seq(ChannelReads) /\ s # <<>>
  BY DEF Sources
<1>2. DOMAIN s = 1..Len(s) /\ Len(s) \in Nat /\ Len(s) # 0
  BY <1>1
<1>3. IsFiniteSet(1..Len(s))
  BY <1>2, FS_Interval
<1> QED BY <1>1, <1>2, <1>3

LEMMA ReadsShape ==
  ASSUME NEW s \in Sources, NEW i \in DOMAIN s, NEW x \in Fields
  PROVE  /\ s[i].reading[x] \in Reading
         /\ s[i].channel \in Channels /\ s[i].channel # NoChannel
<1>1. s[i] \in ChannelReads
  BY SourcesShape
<1> QED BY <1>1 DEF ChannelReads, Channels, BatchSources, NoChannel

\* The field x of the merged snapshot.
LEMMA MergedReading ==
  ASSUME NEW s, NEW x \in Fields, FieldOwner(s, x) # 0
  PROVE  /\ Merge(s).reading[x] = s[FieldOwner(s, x)].reading[x]
         /\ Merge(s).field_sources[x] = s[FieldOwner(s, x)].channel
BY DEF Merge

LEMMA LeastIsIt ==
  ASSUME NEW S, S \subseteq Nat, NEW a \in S, \A b \in S : a <= b
  PROVE  Least(S) = a
<1>1. Least(S) \in S /\ Least(S) <= a /\ a <= Least(S)
  BY LeastExists
<1>2. \A u, w \in Nat : u <= w /\ w <= u => u = w
  OBVIOUS
<1>3. Least(S) \in Nat /\ a \in Nat
  BY <1>1
<1> QED BY <1>1, <1>2, <1>3, Zenon

\* A live field that a live channel reads is the first such channel's.
LEMMA LiveOwner ==
  ASSUME NEW s \in Sources, NEW x \in LiveFields, OneCar(s), LiveReaders(s, x) # {}
  PROVE  /\ FieldOwner(s, x) = Least(LiveReaders(s, x))
         /\ Least(LiveReaders(s, x)) \in LiveReaders(s, x)
<1> DEFINE readers == Readers(s, x)
           live    == LiveReaders(s, x)
<1>1. /\ readers \subseteq Nat /\ live \subseteq readers
      /\ readers \cap OfThisCar(s) = readers /\ 0 \notin readers
  <2>1. DOMAIN s \subseteq Nat /\ 0 \notin DOMAIN s
    BY SourcesShape
  <2> QED BY <2>1 DEF Readers, LiveReaders, OneCar
<1>2. Least(live) \in live /\ \A j \in live : Least(live) <= j
  BY <1>1, LeastExists
<1>3. Least(readers) \in readers /\ \A j \in readers : Least(readers) <= j
  BY <1>1, <1>2, LeastExists
<1>4. GapFilled(s, x) = Least(readers)
  BY <1>1, <1>3 DEF GapFilled
<1>5. FieldOwner(s, x) = LiveSuperseded(s, x)
  BY DEF FieldOwner, LiveFields, PinFields
<1>6. CASE s[Least(readers)].channel \in BatchSources
  BY <1>1, <1>2, <1>3, <1>4, <1>5, <1>6 DEF LiveSuperseded
<1>7. CASE s[Least(readers)].channel \notin BatchSources
  <2>1. Least(readers) \in live
    BY <1>3, <1>7 DEF LiveReaders
  <2>2. Least(live) = Least(readers)
    <3> HIDE DEF readers, live
    <3> QED BY <1>1, <1>3, <2>1, LeastIsIt
  <2> QED BY <1>2, <1>4, <1>5, <1>7, <2>2 DEF LiveSuperseded
<1> QED BY <1>6, <1>7

\* Whatever the channels delivered and whichever is the primary one, live
\* telemetry is never the batch feed's while a live channel reads it.
THEOREM MergeLiveBeatsBatch ==
  ASSUME NEW s \in Sources
  PROVE  LiveBeatsBatch(s)
<1> SUFFICES ASSUME NEW x \in LiveFields, OneCar(s), LiveReaders(s, x) # {}
             PROVE  LET first == s[Least(LiveReaders(s, x))]
                    IN  /\ Merge(s).reading[x] = first.reading[x]
                        /\ Merge(s).field_sources[x] = first.channel
  BY DEF LiveBeatsBatch
<1>1. /\ FieldOwner(s, x) = Least(LiveReaders(s, x))
      /\ Least(LiveReaders(s, x)) \in LiveReaders(s, x)
  BY LiveOwner
<1>2. FieldOwner(s, x) # 0
  BY <1>1, SourcesShape DEF LiveReaders, Readers
<1> QED BY <1>1, <1>2, MergedReading, LiveFieldsIn

\* Whatever the channels delivered, the merged snapshot is dated by the one
\* that saw the car last.
THEOREM MergeSeenIsTheLatest ==
  ASSUME NEW s \in Sources
  PROVE  SeenIsTheLatest(s)
<1> DEFINE seen == "last_seen_at"
           newest == Newest(s, Stamped(s), seen)
<1> SUFFICES ASSUME NEW i \in Stamped(s)
             PROVE  s[i].reading[seen] <= Merge(s).reading[seen]
  BY DEF SeenIsTheLatest
<1>1. /\ Stamped(s) # {} /\ Stamped(s) \subseteq DOMAIN s
      /\ Stamped(s) \subseteq Nat /\ IsFiniteSet(Stamped(s))
  BY SourcesShape, FS_Subset DEF Stamped
<1>2. \A j \in Stamped(s) : s[j].reading[seen] \in Nat
  BY ReadsShape, LiveFieldsIn DEF Stamped, Reading, None
<1>3. newest \in Stamped(s) /\ s[i].reading[seen] <= s[newest].reading[seen]
  <2> HIDE DEF seen
  <2> QED BY <1>1, <1>2, NewestIs
<1>4. FieldOwner(s, seen) = newest
  BY <1>1 DEF FieldOwner, PinFields
<1>5. newest # 0
  BY <1>1, <1>3, SourcesShape
<1>6. Merge(s).reading[seen] = s[newest].reading[seen]
  BY <1>4, <1>5, MergedReading, LiveFieldsIn
<1> QED BY <1>3, <1>6

\* Whatever the channels delivered and in whichever order, the merged position
\* is one channel's, and no channel has a later one.
THEOREM MergePinIsTheFreshest ==
  ASSUME NEW s \in Sources
  PROVE  PinIsTheFreshest(s)
<1> DEFINE date == "position_captured_at"
           pin == Newest(s, DatedPins(s), date)
<1> SUFFICES ASSUME WholePins(s), DatedPins(s) # {}
             PROVE  \E i \in DatedPins(s) :
                       /\ \A x \in PinFields \ {"heading"} :
                              Merge(s).reading[x] = s[i].reading[x]
                       /\ \A j \in DatedPins(s) : s[j].reading[date] <= s[i].reading[date]
  BY DEF PinIsTheFreshest
<1>1. /\ DatedPins(s) \subseteq DOMAIN s /\ DOMAIN s \subseteq Nat
      /\ DatedPins(s) \subseteq Nat /\ IsFiniteSet(DatedPins(s)) /\ 0 \notin DOMAIN s
  <2>1. DatedPins(s) \subseteq DOMAIN s
    BY DEF DatedPins, Readers
  <2> QED BY <2>1, SourcesShape, FS_Subset
<1>2. \A j \in DatedPins(s) : s[j].reading[date] \in Nat /\ s[j].reading[date] # None
  BY <1>1, ReadsShape, LiveFieldsIn DEF DatedPins, Reading, None, PinFields
<1>3. pin \in DatedPins(s) /\ \A j \in DatedPins(s) : s[j].reading[date] <= s[pin].reading[date]
  <2> HIDE DEF date
  <2> QED BY <1>1, <1>2, NewestIs
<1>4. ASSUME NEW x \in PinFields \ {"heading"}
      PROVE  FieldOwner(s, x) = pin
  <2>1. x \in {"latitude", "longitude", date} /\ x \in PinFields
    BY <1>4 DEF PinFields
  <2>2. pin \in DOMAIN s /\ s[pin].reading[x] # None
    BY <1>1, <1>2, <1>3, <2>1 DEF DatedPins, Readers
  <2>3. CASE PinIsOlder(s)
    BY <2>1, <2>2, <2>3 DEF FieldOwner
  <2>4. CASE ~PinIsOlder(s)
    <3> DEFINE readers == Readers(s, "latitude") \cap OfThisCar(s)
    <3>1. GapFilled(s, "latitude") = pin
      BY <2>4 DEF PinIsOlder
    <3>2. readers # {} /\ readers \subseteq Nat /\ pin = Least(readers)
      BY <1>1, <2>2, <3>1 DEF GapFilled, Readers
    <3>3. pin \in readers /\ \A j \in readers : pin <= j
      <4> HIDE DEF readers, pin
      <4> QED BY <3>2, LeastExists
    <3>4. Readers(s, x) \cap OfThisCar(s) \subseteq readers
      BY <2>1 DEF WholePins, Readers
    <3>5. pin \in Readers(s, x) \cap OfThisCar(s)
      BY <2>2, <3>3 DEF Readers
    <3>6. Least(Readers(s, x) \cap OfThisCar(s)) = pin
      <4> HIDE DEF readers, pin
      <4> QED BY <3>2, <3>3, <3>4, <3>5, LeastIsIt
    <3>7. GapFilled(s, x) = pin
      BY <3>5, <3>6 DEF GapFilled
    <3> QED BY <2>1, <2>4, <3>7 DEF FieldOwner, LiveSuperseded, LiveFields
  <2> QED BY <2>3, <2>4
<1>5. ASSUME NEW x \in PinFields \ {"heading"}
      PROVE  Merge(s).reading[x] = s[pin].reading[x]
  <2>1. pin # 0
    BY <1>1, <1>3
  <2> QED BY <1>4, <2>1, MergedReading, LiveFieldsIn
<1> QED BY <1>3, <1>5

-----------------------------------------------------------------------------
(* The stages of reconcile, field by field *)

Values == [Fields -> Reading]

LEMMA SnapshotShape ==
  ASSUME NEW p \in Snapshots
  PROVE  /\ p.reading \in Values
         /\ \A x \in ContestedFields : p.contested_fields[x] \in Candidates
         /\ p.has_battery \in BOOLEAN /\ p.has_combustion \in BOOLEAN
         /\ p.is_electric \in BOOLEAN /\ p.is_hybrid \in BOOLEAN
BY DEF Snapshots, Values

LEMMA NamesIn ==
  /\ CarryForwardFields \subseteq Fields /\ StaticFields \subseteq Fields
  /\ PositionGroup \subseteq Fields /\ LiveFields \subseteq Fields
  /\ PinFields \subseteq Fields
  /\ "battery_soc_from_hv" \in Fields /\ "pack_energy" \in Fields
  /\ {"battery_soc", "target_soc", "odometer_km", "last_seen_at",
      "electric_range_km", "latitude", "longitude", "is_charging", "charging_state",
      "climatisation_active", "climate_remaining_time_min"} \subseteq Fields
  /\ ContestedFields \subseteq CarryForwardFields
BY DEF Fields, CarryForwardFields, LiveFields, PinFields, ContestedFields

LEMMA Healed ==
  ASSUME NEW p \in Snapshots
  PROVE  HealCachedSentinels(p) \in Values
<1>1. p.reading \in Values
  BY SnapshotShape
<1> QED BY <1>1 DEF HealCachedSentinels, Values, Reading

LEMMA CarriedAt ==
  ASSUME NEW old \in Values, NEW m \in Values
  PROVE  /\ CarryForward(old, m) \in Values
         /\ \A x \in Fields : CarryForward(old, m)[x] =
               IF \/ x \in CarryForwardFields /\ m[x] = None
                  \/ x \in StaticFields /\ m[x] \in {None, 0} /\ old[x] > 0
               THEN old[x] ELSE m[x]
BY DEF CarryForward, Values

LEMMA HeldAt ==
  ASSUME NEW old \in Values, NEW m \in Values, NEW f
  PROVE  /\ HoldSoc(old, m, f) \in Values
         /\ HoldSoc(old, m, f)["battery_soc"] =
               IF /\ old["battery_soc_from_hv"] = 1 /\ m["battery_soc_from_hv"] = 0
                  /\ old["battery_soc"] # None /\ ~SocIsLive(f)
               THEN old["battery_soc"] ELSE m["battery_soc"]
         /\ HoldSoc(old, m, f)["battery_soc_from_hv"] =
               IF 1 \in {old["battery_soc_from_hv"], m["battery_soc_from_hv"]}
               THEN 1 ELSE m["battery_soc_from_hv"]
         /\ \A x \in Fields \ {"battery_soc", "battery_soc_from_hv"} :
               HoldSoc(old, m, f)[x] = m[x]
<1>1. 1 \in Reading
  BY DEF Reading
<1> QED BY <1>1, NamesIn DEF HoldSoc, Values

LEMMA KeptAt ==
  ASSUME NEW old \in Values, NEW m \in Values
  PROVE  /\ KeepPosition(old, m) \in Values
         /\ \A x \in Fields : KeepPosition(old, m)[x] =
               IF x \in PositionGroup /\ m[x] = None
                  /\ m["latitude"] = None /\ m["longitude"] = None
               THEN old[x] ELSE m[x]
BY DEF KeepPosition, Values

\* What is chosen for a contested charge level is one of the candidates.
LEMMA ResolvedIn ==
  ASSUME NEW C \in Candidates, NEW old \in Values, NEW f \in Snapshots,
         \E a, b \in C : a # b
  PROVE  ResolveSoc(C, old, f) \in C
<1> DEFINE last   == old["battery_soc"]
           energy == f.reading["pack_energy"]
<1>1. C \subseteq Nat /\ C # {} /\ C \ {last} # {} /\ C \ {last} \subseteq Nat
  <2>1. PICK a, b \in C : a # b
    OBVIOUS
  <2>2. a \in C \ {last} \/ b \in C \ {last}
    BY <2>1
  <2> QED BY <2>2 DEF Candidates
<1>2. last \in Int /\ energy \in Int
  <2>1. f.reading \in Values
    BY SnapshotShape
  <2> QED BY <2>1, NamesIn DEF Values, Reading, None
<1>3. /\ Nearest(C, energy) \in C /\ Nearest(C, last) \in C
      /\ Nearest(C \ {last}, last) \in C \ {last}
  <2> HIDE DEF last, energy
  <2> QED BY <1>1, <1>2, NearestIs
<1>4. Highest(C) \in C
  BY <1>1, HighestIs
<1> QED BY <1>3, <1>4 DEF ResolveSoc

LEMMA SettledAt ==
  ASSUME NEW old \in Values, NEW m \in Values, NEW f \in Snapshots
  PROVE  /\ ResolveContested(old, m, f) \in Values
         /\ \A x \in Fields : ResolveContested(old, m, f)[x] =
               IF Contested(x, old, m, f)
               THEN IF x = "battery_soc" THEN ResolveSoc(f.contested_fields[x], old, f)
                    ELSE Nearest(f.contested_fields[x], old[x])
               ELSE m[x]
         /\ \A x \in Fields : Contested(x, old, m, f) =>
               /\ ResolveContested(old, m, f)[x] \in f.contested_fields[x]
               /\ ResolveContested(old, m, f)[x] \in Nat
<1> DEFINE r == ResolveContested(old, m, f)
<1>1. ASSUME NEW x \in Fields
      PROVE  r[x] = IF Contested(x, old, m, f)
                    THEN IF x = "battery_soc" THEN ResolveSoc(f.contested_fields[x], old, f)
                         ELSE Nearest(f.contested_fields[x], old[x])
                    ELSE m[x]
  BY DEF ResolveContested
<1>2. ASSUME NEW x \in Fields, Contested(x, old, m, f)
      PROVE  r[x] \in f.contested_fields[x] /\ r[x] \in Nat
  <2> DEFINE C == f.contested_fields[x]
  <2>1. C \in Candidates /\ \E a, b \in C : a # b
    BY <1>2, SnapshotShape DEF Contested
  <2>2. C \subseteq Nat /\ C # {} /\ old[x] \in Int
    BY <2>1 DEF Candidates, Values, Reading, None
  <2>3. ResolveSoc(C, old, f) \in C /\ Nearest(C, old[x]) \in C
    <3> HIDE DEF C
    <3> QED BY <2>1, <2>2, ResolvedIn, NearestIs
  <2> QED BY <1>1, <1>2, <2>2, <2>3
<1>3. r \in Values
  BY <1>1, <1>2 DEF ResolveContested, Values, Reading
<1> QED BY <1>1, <1>2, <1>3

LEMMA SanityAt ==
  ASSUME NEW old, NEW m \in Values, NEW f \in Snapshots
  PROVE  /\ EnergySanity(old, m, f) \in Values
         /\ EnergySanity(old, m, f)["battery_soc"] =
               IF /\ ~Contested("battery_soc", old, m, f) /\ ~SocIsLive(f)
                  /\ m["battery_soc"] # None /\ f.reading["pack_energy"] # None
                  /\ ~IsCharging(f)
                  /\ m["battery_soc"] - f.reading["pack_energy"] >= LargeGap
               THEN f.reading["pack_energy"] ELSE m["battery_soc"]
         /\ \A x \in Fields \ {"battery_soc"} : EnergySanity(old, m, f)[x] = m[x]
<1>1. f.reading["pack_energy"] \in Reading
  BY SnapshotShape, NamesIn DEF Values
<1> QED BY <1>1, NamesIn DEF EnergySanity, Values

LEMMA ForwardAt ==
  ASSUME NEW old \in Values, NEW m \in Values
  PROVE  /\ NotBackwards(old, m) \in Values
         /\ NotBackwards(old, m)["odometer_km"] =
               IF m["odometer_km"] # None /\ m["odometer_km"] < old["odometer_km"]
               THEN old["odometer_km"] ELSE m["odometer_km"]
         /\ NotBackwards(old, m)["last_seen_at"] =
               IF m["last_seen_at"] > 0 /\ m["last_seen_at"] < old["last_seen_at"]
               THEN old["last_seen_at"] ELSE m["last_seen_at"]
         /\ \A x \in Fields \ {"odometer_km", "last_seen_at"} : NotBackwards(old, m)[x] = m[x]
BY NamesIn DEF NotBackwards, Values

LEMMA GatedAt ==
  ASSUME NEW m \in Values
  PROVE  /\ ClimateIdleGate(m) \in Values
         /\ ClimateIdleGate(m)["climate_remaining_time_min"] =
               IF m["climatisation_active"] = 0 /\ m["climate_remaining_time_min"] > 0
               THEN 0 ELSE m["climate_remaining_time_min"]
         /\ \A x \in Fields \ {"climate_remaining_time_min"} : ClimateIdleGate(m)[x] = m[x]
<1>1. 0 \in Reading
  BY DEF Reading
<1> QED BY <1>1, NamesIn DEF ClimateIdleGate, Values

-----------------------------------------------------------------------------
(* What a field is after the whole of reconcile: old are the healed values. *)

Carried(old, f, x) == IF f.reading[x] = None THEN old[x] ELSE f.reading[x]

FromHv(old, f) == 1 \in {old["battery_soc_from_hv"], f.reading["battery_soc_from_hv"]}

Differing(C) == \E a, b \in C : a # b

SocHeld(old, f) ==
    IF /\ old["battery_soc_from_hv"] = 1 /\ f.reading["battery_soc_from_hv"] = 0
       /\ old["battery_soc"] # None /\ ~SocIsLive(f)
    THEN old["battery_soc"] ELSE Carried(old, f, "battery_soc")

SocDisputed(old, f) ==
    /\ Differing(f.contested_fields["battery_soc"])
    /\ old["battery_soc"] # None /\ ~FromHv(old, f) /\ ~SocIsLive(f)

Soc(old, f) ==
    IF SocDisputed(old, f) THEN ResolveSoc(f.contested_fields["battery_soc"], old, f)
    ELSE IF /\ ~SocIsLive(f) /\ SocHeld(old, f) # None /\ f.reading["pack_energy"] # None
            /\ ~IsCharging(f) /\ SocHeld(old, f) - f.reading["pack_energy"] >= LargeGap
         THEN f.reading["pack_energy"] ELSE SocHeld(old, f)

\* A contested target or odometer.
Picked(old, f, x) ==
    IF Differing(f.contested_fields[x]) /\ old[x] # None
    THEN Nearest(f.contested_fields[x], old[x]) ELSE Carried(old, f, x)

Odometer(old, f) ==
    LET new == Picked(old, f, "odometer_km")
    IN  IF new # None /\ new < old["odometer_km"] THEN old["odometer_km"] ELSE new

Seen(old, f) ==
    LET new == Carried(old, f, "last_seen_at")
    IN  IF new > 0 /\ new < old["last_seen_at"] THEN old["last_seen_at"] ELSE new

LEMMA ReconciledAre ==
  ASSUME NEW p \in Snapshots, NEW f \in Snapshots
  PROVE  LET old == HealCachedSentinels(p)
             new == ReconciledValues(p, f)
         IN  /\ new \in Values
             /\ new["battery_soc"] = Soc(old, f)
             /\ new["battery_soc_from_hv"] =
                   IF FromHv(old, f) THEN 1 ELSE f.reading["battery_soc_from_hv"]
             /\ new["target_soc"] = Picked(old, f, "target_soc")
             /\ new["odometer_km"] = Odometer(old, f)
             /\ new["last_seen_at"] = Seen(old, f)
             /\ \A x \in {"electric_range_km", "fuel_level", "combustion_range_km"} :
                   new[x] = Carried(old, f, x)
             /\ \A x \in StaticFields :
                   new[x] = IF f.reading[x] \in {None, 0} /\ old[x] > 0
                            THEN old[x] ELSE f.reading[x]
             /\ \A x \in PositionGroup :
                   new[x] = IF f.reading[x] = None /\ f.reading["latitude"] = None
                               /\ f.reading["longitude"] = None
                            THEN old[x] ELSE f.reading[x]
             /\ new["climate_remaining_time_min"] =
                   IF f.reading["climatisation_active"] = 0
                      /\ f.reading["climate_remaining_time_min"] > 0
                   THEN 0 ELSE f.reading["climate_remaining_time_min"]
             /\ \A x \in {"is_charging", "charging_state", "climatisation_active",
                           "doors_locked", "heading", "pack_energy"} :
                   new[x] = f.reading[x]
<1> DEFINE old == HealCachedSentinels(p)
           c == CarryForward(old, f.reading)
           h == HoldSoc(old, c, f)
           k == KeepPosition(old, h)
           r == ResolveContested(old, k, f)
           e == EnergySanity(old, r, f)
           n == NotBackwards(old, e)
           new == ReconciledValues(p, f)
<1>1. old \in Values /\ f.reading \in Values
  BY Healed, SnapshotShape
<1>2. /\ c \in Values
      /\ \A x \in Fields : c[x] =
            IF \/ x \in CarryForwardFields /\ f.reading[x] = None
               \/ x \in StaticFields /\ f.reading[x] \in {None, 0} /\ old[x] > 0
            THEN old[x] ELSE f.reading[x]
  <2> HIDE DEF old
  <2> QED BY <1>1, CarriedAt
<1>3. /\ h \in Values
      /\ h["battery_soc"] =
            IF /\ old["battery_soc_from_hv"] = 1 /\ c["battery_soc_from_hv"] = 0
               /\ old["battery_soc"] # None /\ ~SocIsLive(f)
            THEN old["battery_soc"] ELSE c["battery_soc"]
      /\ h["battery_soc_from_hv"] =
            IF 1 \in {old["battery_soc_from_hv"], c["battery_soc_from_hv"]}
            THEN 1 ELSE c["battery_soc_from_hv"]
      /\ \A x \in Fields \ {"battery_soc", "battery_soc_from_hv"} : h[x] = c[x]
  <2> HIDE DEF old, c
  <2> QED BY <1>1, <1>2, HeldAt
<1>4. /\ k \in Values
      /\ \A x \in Fields : k[x] =
            IF x \in PositionGroup /\ h[x] = None
               /\ h["latitude"] = None /\ h["longitude"] = None
            THEN old[x] ELSE h[x]
  <2> HIDE DEF old, h
  <2> QED BY <1>1, <1>3, KeptAt
<1>5. /\ r \in Values
      /\ \A x \in Fields : r[x] =
            IF Contested(x, old, k, f)
            THEN IF x = "battery_soc" THEN ResolveSoc(f.contested_fields[x], old, f)
                 ELSE Nearest(f.contested_fields[x], old[x])
            ELSE k[x]
  <2> HIDE DEF old, k
  <2> QED BY <1>1, <1>4, SettledAt
<1>6. /\ e \in Values
      /\ e["battery_soc"] =
            IF /\ ~Contested("battery_soc", old, r, f) /\ ~SocIsLive(f)
               /\ r["battery_soc"] # None /\ f.reading["pack_energy"] # None
               /\ ~IsCharging(f)
               /\ r["battery_soc"] - f.reading["pack_energy"] >= LargeGap
            THEN f.reading["pack_energy"] ELSE r["battery_soc"]
      /\ \A x \in Fields \ {"battery_soc"} : e[x] = r[x]
  <2> HIDE DEF old, r
  <2> QED BY <1>1, <1>5, SanityAt
<1>7. /\ n \in Values
      /\ n["odometer_km"] =
            IF e["odometer_km"] # None /\ e["odometer_km"] < old["odometer_km"]
            THEN old["odometer_km"] ELSE e["odometer_km"]
      /\ n["last_seen_at"] =
            IF e["last_seen_at"] > 0 /\ e["last_seen_at"] < old["last_seen_at"]
            THEN old["last_seen_at"] ELSE e["last_seen_at"]
      /\ \A x \in Fields \ {"odometer_km", "last_seen_at"} : n[x] = e[x]
  <2> HIDE DEF old, e
  <2> QED BY <1>1, <1>6, ForwardAt
<1>8. /\ ClimateIdleGate(n) \in Values
      /\ ClimateIdleGate(n)["climate_remaining_time_min"] =
            IF n["climatisation_active"] = 0 /\ n["climate_remaining_time_min"] > 0
            THEN 0 ELSE n["climate_remaining_time_min"]
      /\ \A x \in Fields \ {"climate_remaining_time_min"} : ClimateIdleGate(n)[x] = n[x]
  <2> HIDE DEF n
  <2> QED BY <1>7, GatedAt
<1>9. new = ClimateIdleGate(n)
  BY DEF ReconciledValues
<1> HIDE DEF old, c, h, k, r, e, n, new
<1>10. k["battery_soc_from_hv"] = IF FromHv(old, f) THEN 1 ELSE f.reading["battery_soc_from_hv"]
  <2>1. c["battery_soc_from_hv"] = f.reading["battery_soc_from_hv"]
    BY <1>2, NamesIn DEF CarryForwardFields, StaticFields
  <2>2. k["battery_soc_from_hv"] = h["battery_soc_from_hv"]
    BY <1>4, NamesIn DEF PositionGroup
  <2> QED BY <1>3, <2>1, <2>2 DEF FromHv
<1>11. k["battery_soc"] = SocHeld(old, f)
  <2>1. /\ c["battery_soc_from_hv"] = f.reading["battery_soc_from_hv"]
        /\ c["battery_soc"] = Carried(old, f, "battery_soc")
    BY <1>2, NamesIn DEF CarryForwardFields, StaticFields, Carried
  <2>2. k["battery_soc"] = h["battery_soc"]
    BY <1>4, NamesIn DEF PositionGroup
  <2> QED BY <1>3, <2>1, <2>2 DEF SocHeld
<1>12. \A x \in CarryForwardFields \ {"battery_soc"} : k[x] = Carried(old, f, x)
  BY <1>2, <1>3, <1>4, NamesIn DEF CarryForwardFields, StaticFields, PositionGroup, Carried
<1>13. \A x \in Fields \ ContestedFields : r[x] = k[x] /\ e[x] = k[x]
  BY <1>5, <1>6 DEF Contested, ContestedFields
<1>14. new["battery_soc"] = Soc(old, f)
  <2>1. Contested("battery_soc", old, k, f) <=> SocDisputed(old, f)
    BY <1>10 DEF Contested, SocDisputed, Differing, ContestedFields, FromHv
  <2>2. Contested("battery_soc", old, r, f) <=> SocDisputed(old, f)
    BY <1>10, <1>13, NamesIn DEF Contested, SocDisputed, Differing, ContestedFields, FromHv
  <2>3. r["battery_soc"] = IF SocDisputed(old, f)
                           THEN ResolveSoc(f.contested_fields["battery_soc"], old, f)
                           ELSE SocHeld(old, f)
    BY <1>5, <1>11, <2>1, NamesIn
  <2>4. new["battery_soc"] = e["battery_soc"]
    BY <1>7, <1>8, <1>9, NamesIn
  <2> QED BY <1>6, <2>2, <2>3, <2>4 DEF Soc
<1>15. \A x \in {"target_soc", "odometer_km"} : e[x] = Picked(old, f, x)
  <2> SUFFICES ASSUME NEW x \in {"target_soc", "odometer_km"}
               PROVE  e[x] = Picked(old, f, x)
    OBVIOUS
  <2>1. Contested(x, old, k, f) <=> Differing(f.contested_fields[x]) /\ old[x] # None
    BY DEF Contested, Differing, ContestedFields
  <2>2. k[x] = Carried(old, f, x)
    BY <1>12 DEF CarryForwardFields
  <2> QED BY <1>5, <1>6, <2>1, <2>2, NamesIn DEF Picked
<1>16. new["target_soc"] = Picked(old, f, "target_soc")
  BY <1>7, <1>8, <1>9, <1>15, NamesIn
<1>17. new["odometer_km"] = Odometer(old, f)
  <2>1. new["odometer_km"] = n["odometer_km"] /\ e["odometer_km"] = Picked(old, f, "odometer_km")
    BY <1>8, <1>9, <1>15, NamesIn
  <2> QED BY <1>7, <2>1 DEF Odometer
<1>18. new["last_seen_at"] = Seen(old, f)
  <2>1. new["last_seen_at"] = n["last_seen_at"]
    BY <1>8, <1>9, NamesIn
  <2>2. e["last_seen_at"] = Carried(old, f, "last_seen_at")
    BY <1>12, <1>13, NamesIn DEF CarryForwardFields, ContestedFields
  <2> QED BY <1>7, <2>1, <2>2 DEF Seen
<1>19. \A x \in Fields \ (ContestedFields \cup {"last_seen_at", "climate_remaining_time_min"}) :
          new[x] = k[x]
  BY <1>7, <1>8, <1>9, <1>13 DEF ContestedFields
<1>20. \A x \in {"electric_range_km", "fuel_level", "combustion_range_km"} :
          new[x] = Carried(old, f, x)
  BY <1>12, <1>19, NamesIn DEF CarryForwardFields, ContestedFields
<1>21. \A x \in StaticFields :
          new[x] = IF f.reading[x] \in {None, 0} /\ old[x] > 0
                   THEN old[x] ELSE f.reading[x]
  BY <1>2, <1>3, <1>4, <1>19, NamesIn
     DEF StaticFields, CarryForwardFields, PositionGroup, ContestedFields
<1>22. \A x \in PositionGroup :
          new[x] = IF f.reading[x] = None /\ f.reading["latitude"] = None
                      /\ f.reading["longitude"] = None
                   THEN old[x] ELSE f.reading[x]
  <2>1. \A x \in PositionGroup : h[x] = f.reading[x]
    BY <1>2, <1>3, NamesIn DEF StaticFields, CarryForwardFields, PositionGroup
  <2>2. \A x \in PositionGroup : new[x] = k[x]
    BY <1>19, NamesIn DEF PositionGroup, ContestedFields
  <2>3. {"latitude", "longitude"} \subseteq PositionGroup
    BY DEF PositionGroup
  <2> QED BY <1>4, <2>1, <2>2, <2>3, NamesIn
<1>23. \A x \in {"is_charging", "charging_state", "climatisation_active",
                  "doors_locked", "heading", "pack_energy", "climate_remaining_time_min"} :
          n[x] = f.reading[x]
  <2> SUFFICES ASSUME NEW x \in {"is_charging", "charging_state", "climatisation_active",
                  "doors_locked", "heading", "pack_energy", "climate_remaining_time_min"}
               PROVE  n[x] = f.reading[x]
    OBVIOUS
  <2>1. /\ x \in Fields
        /\ x \notin CarryForwardFields \cup StaticFields \cup PositionGroup \cup ContestedFields
        /\ x \notin {"battery_soc", "battery_soc_from_hv", "odometer_km", "last_seen_at"}
    BY DEF Fields, LiveFields, PinFields, CarryForwardFields, StaticFields, PositionGroup,
           ContestedFields
  <2>2. n[x] = k[x]
    BY <1>7, <1>13, <2>1
  <2> QED BY <1>2, <1>3, <1>4, <2>1, <2>2
<1>24. new["climate_remaining_time_min"] =
          IF f.reading["climatisation_active"] = 0 /\ f.reading["climate_remaining_time_min"] > 0
          THEN 0 ELSE f.reading["climate_remaining_time_min"]
  BY <1>8, <1>9, <1>23
<1>25. \A x \in {"is_charging", "charging_state", "climatisation_active",
                  "doors_locked", "heading", "pack_energy"} : new[x] = f.reading[x]
  <2>1. {"heading", "doors_locked", "pack_energy"} \subseteq Fields
    BY DEF Fields, LiveFields, PinFields
  <2> QED BY <1>8, <1>9, <1>23, <2>1, NamesIn
<1>26. new \in Values
  BY <1>8, <1>9
<1> QED BY <1>10, <1>14, <1>16, <1>17, <1>18, <1>20, <1>21, <1>22, <1>24, <1>25, <1>26,
           <1>4, <1>19, NamesIn DEF old, new, ContestedFields

-----------------------------------------------------------------------------
(* reconcile *)

LEMMA ReconcileIs ==
  ASSUME NEW p \in Snapshots, NEW f \in Snapshots
  PROVE  LET new == Reconcile(p, f)
             m == ReconciledValues(p, f)
         IN  /\ new.reading = m
             /\ new.has_battery = (f.has_battery \/ Evidence(m, BatteryEvidence))
             /\ new.has_combustion = (f.has_combustion \/ Evidence(m, CombustionEvidence))
             /\ new.is_electric = (f.is_electric \/ (new.has_battery /\ ~new.has_combustion))
             /\ new.is_hybrid = (f.is_hybrid \/ (new.has_battery /\ new.has_combustion))
             /\ new \in Snapshots
<1> DEFINE m == ReconciledValues(p, f)
<1>1. m \in [Fields -> Reading]
  BY ReconciledAre DEF Values
<1> HIDE DEF m
<1>2. /\ Evidence(m, BatteryEvidence) \in BOOLEAN
      /\ Evidence(m, CombustionEvidence) \in BOOLEAN
  BY DEF Evidence
<1> QED BY <1>1, <1>2 DEF Reconcile, Snapshots, m

\* A chosen candidate is a reading.
LEMMA ChosenIsReading ==
  ASSUME NEW p \in Snapshots, NEW f \in Snapshots
  PROVE  LET old == HealCachedSentinels(p)
         IN  /\ SocDisputed(old, f) =>
                   ResolveSoc(f.contested_fields["battery_soc"], old, f)
                     \in f.contested_fields["battery_soc"]
             /\ \A x \in {"target_soc", "odometer_km"} :
                   Differing(f.contested_fields[x]) =>
                      Nearest(f.contested_fields[x], old[x]) \in f.contested_fields[x]
             /\ \A x \in ContestedFields : f.contested_fields[x] \subseteq Nat
<1> DEFINE old == HealCachedSentinels(p)
<1>1. old \in Values
  BY Healed
<1> HIDE DEF old
<1>2. \A x \in ContestedFields : f.contested_fields[x] \in Candidates
  BY SnapshotShape
<1>3. SocDisputed(old, f) =>
        ResolveSoc(f.contested_fields["battery_soc"], old, f) \in f.contested_fields["battery_soc"]
  BY <1>1, <1>2, ResolvedIn DEF SocDisputed, Differing, ContestedFields
<1>4. ASSUME NEW x \in {"target_soc", "odometer_km"}, Differing(f.contested_fields[x])
      PROVE  Nearest(f.contested_fields[x], old[x]) \in f.contested_fields[x]
  <2>1. f.contested_fields[x] \subseteq Nat /\ f.contested_fields[x] # {}
    BY <1>2, <1>4 DEF Candidates, ContestedFields, Differing
  <2>2. old[x] \in Int
    BY <1>1, NamesIn DEF Values, Reading, None
  <2> QED BY <2>1, <2>2, NearestIs
<1> QED BY <1>2, <1>3, <1>4 DEF Candidates, old

\* Whatever the poll omits, contests or gets wrong: no value that is carried
\* over polls is lost, nor is a position.
THEOREM ReconcileNothingBlanked ==
  ASSUME NEW p \in Snapshots, NEW f \in Snapshots
  PROVE  NothingBlanked(p, f)
<1> DEFINE old == HealCachedSentinels(p)
           new == ReconciledValues(p, f)
<1>1. old \in Values /\ f.reading \in Values
  BY Healed, SnapshotShape
<1>2. Reconcile(p, f).reading = new
  BY ReconcileIs
<1>3. ASSUME NEW x \in CarryForwardFields, old[x] # None
      PROVE  new[x] # None
  <2>1. Carried(old, f, x) # None
    BY <1>3 DEF Carried
  <2>2. CASE x = "battery_soc"
    <3>1. SocDisputed(old, f) =>
            ResolveSoc(f.contested_fields["battery_soc"], old, f) \in Nat
      BY ChosenIsReading DEF ContestedFields
    <3>2. SocHeld(old, f) # None
      BY <2>1, <2>2 DEF SocHeld
    <3>3. Soc(old, f) # None
      BY <3>1, <3>2 DEF Soc, None
    <3> QED BY <2>2, <3>3, ReconciledAre
  <2>3. x \in {"target_soc", "odometer_km"} => Picked(old, f, x) # None
    <3> SUFFICES ASSUME x \in {"target_soc", "odometer_km"}
                 PROVE  Picked(old, f, x) # None
      OBVIOUS
    <3>1. Differing(f.contested_fields[x]) => Nearest(f.contested_fields[x], old[x]) \in Nat
      BY ChosenIsReading DEF ContestedFields
    <3> QED BY <2>1, <3>1 DEF Picked, None
  <2>4. CASE x = "target_soc"
    BY <2>3, <2>4, ReconciledAre
  <2>5. CASE x = "odometer_km"
    <3>1. Odometer(old, f) # None
      BY <1>3, <2>3, <2>5 DEF Odometer
    <3> QED BY <2>5, <3>1, ReconciledAre
  <2>6. CASE x = "last_seen_at"
    <3>1. Seen(old, f) # None
      BY <1>3, <2>1, <2>6 DEF Seen
    <3> QED BY <2>6, <3>1, ReconciledAre
  <2>7. CASE x \in {"electric_range_km", "fuel_level", "combustion_range_km"}
    BY <2>1, <2>7, ReconciledAre
  <2> QED BY <2>2, <2>4, <2>5, <2>6, <2>7 DEF CarryForwardFields
<1>4. ASSUME old["latitude"] # None, old["longitude"] # None
      PROVE  new["latitude"] # None \/ new["longitude"] # None
  BY <1>4, ReconciledAre DEF PositionGroup
<1> QED BY <1>2, <1>3, <1>4 DEF NothingBlanked

\* Whatever the poll says: the odometer and the time of the last reading never
\* go back.
THEOREM ReconcileOnlyForward ==
  ASSUME NEW p \in Snapshots, NEW f \in Snapshots
  PROVE  OnlyForward(p, f)
<1> DEFINE old == HealCachedSentinels(p)
           new == ReconciledValues(p, f)
<1>1. old \in Values /\ f.reading \in Values /\ p.reading \in Values /\ new \in Values
  BY Healed, SnapshotShape, ReconciledAre
<1>2. Reconcile(p, f).reading = new
  BY ReconcileIs
<1>3. ASSUME p.reading["odometer_km"] < OdometerCeiling
      PROVE  p.reading["odometer_km"] <= new["odometer_km"]
  <2>1. old["odometer_km"] = p.reading["odometer_km"]
    BY <1>1, <1>3, NamesIn DEF HealCachedSentinels, Values, Reading, None, OdometerCeiling
  <2>2. old["odometer_km"] # None => Picked(old, f, "odometer_km") # None
    <3>1. Differing(f.contested_fields["odometer_km"]) =>
             Nearest(f.contested_fields["odometer_km"], old["odometer_km"]) \in Nat
      BY ChosenIsReading DEF ContestedFields
    <3> QED BY <3>1 DEF Picked, Carried, None
  <2>3. new["odometer_km"] = Odometer(old, f)
    BY ReconciledAre
  <2>4. old["odometer_km"] \in Reading /\ new["odometer_km"] \in Reading
    BY <1>1, NamesIn DEF Values
  <2> HIDE DEF old, new
  <2> QED BY <2>1, <2>2, <2>3, <2>4 DEF Odometer, Reading, None
<1>4. ASSUME f.reading["last_seen_at"] # 0
      PROVE  p.reading["last_seen_at"] <= new["last_seen_at"]
  <2>1. old["last_seen_at"] = p.reading["last_seen_at"]
    BY NamesIn DEF HealCachedSentinels
  <2>2. new["last_seen_at"] = Seen(old, f)
    BY ReconciledAre
  <2>3. old["last_seen_at"] \in Reading /\ f.reading["last_seen_at"] \in Reading
    BY <1>1, NamesIn DEF Values
  <2> HIDE DEF old, new
  <2> QED BY <1>4, <2>1, <2>2, <2>3 DEF Seen, Carried, Reading, None
<1> QED BY <1>2, <1>3, <1>4 DEF OnlyForward

\* Whatever else the poll says: a combustion car does not get its phantom range
\* back, nor a battery from it.
THEOREM ReconcilePhantomIsGone ==
  ASSUME NEW p \in Snapshots, NEW f \in Snapshots
  PROVE  PhantomIsGone(p, f)
<1> DEFINE old == HealCachedSentinels(p)
           new == ReconciledValues(p, f)
<1> SUFFICES ASSUME OfCombustion(p), NoBatterySeen(f)
             PROVE  LET s == Reconcile(p, f)
                    IN  /\ s.reading["electric_range_km"] = None
                        /\ ~s.has_battery /\ ~s.is_electric /\ ~s.is_hybrid
  BY DEF PhantomIsGone
<1>1. \A x \in BatteryEvidence : f.reading[x] = None
  BY DEF NoBatterySeen
<1>2. old["battery_soc"] = None /\ old["electric_range_km"] = None
  BY NamesIn DEF HealCachedSentinels, Phantom, OfCombustion
<1>3. Carried(old, f, "battery_soc") = None /\ Carried(old, f, "electric_range_km") = None
  BY <1>1, <1>2 DEF Carried, BatteryEvidence
<1>4. new["electric_range_km"] = None
  BY <1>3, ReconciledAre
<1>5. new["battery_soc"] = None
  <2>1. Soc(old, f) = None
    BY <1>2, <1>3 DEF Soc, SocDisputed, SocHeld
  <2> QED BY <2>1, ReconciledAre
<1>6. new["charging_state"] = None
  BY <1>1, ReconciledAre DEF BatteryEvidence
<1>7. ~Evidence(new, BatteryEvidence)
  BY <1>4, <1>5, <1>6 DEF Evidence, BatteryEvidence
<1> HIDE DEF new
<1>8. ~f.has_battery /\ ~f.is_electric /\ ~f.is_hybrid
  BY DEF NoBatterySeen
<1> QED BY <1>4, <1>7, <1>8, ReconcileIs DEF new

-----------------------------------------------------------------------------
(* From the channels to the dashboard *)

LEMMA OwnerIn ==
  ASSUME NEW s \in Sources, NEW x \in Fields
  PROVE  FieldOwner(s, x) \in {0} \cup DOMAIN s
<1>1. DOMAIN s \subseteq Nat /\ IsFiniteSet(DOMAIN s)
  BY SourcesShape
<1>2. GapFilled(s, x) \in {0} \cup DOMAIN s
  <2>1. Readers(s, x) \cap OfThisCar(s) \subseteq DOMAIN s
    BY DEF Readers
  <2> QED BY <1>1, <2>1, LeastExists DEF GapFilled
<1>3. LiveSuperseded(s, x) \in {0} \cup DOMAIN s
  <2>1. LiveReaders(s, x) \subseteq DOMAIN s
    BY DEF LiveReaders, Readers
  <2>2. LiveReaders(s, x) # {} => Least(LiveReaders(s, x)) \in DOMAIN s
    BY <1>1, <2>1, LeastExists
  <2> QED BY <1>2, <2>2 DEF LiveSuperseded
<1>4. PinIsOlder(s) => Newest(s, DatedPins(s), "position_captured_at") \in DOMAIN s
  <2> SUFFICES ASSUME DatedPins(s) # {}
               PROVE  Newest(s, DatedPins(s), "position_captured_at") \in DOMAIN s
    BY DEF PinIsOlder
  <2>1. DatedPins(s) \subseteq DOMAIN s
    BY DEF DatedPins, Readers
  <2>2. IsFiniteSet(DatedPins(s)) /\ DatedPins(s) \subseteq Nat
    BY <1>1, <2>1, FS_Subset
  <2>3. \A i \in DatedPins(s) : s[i].reading["position_captured_at"] \in Nat
    BY <2>1, ReadsShape, LiveFieldsIn DEF DatedPins, Reading, None, PinFields
  <2>4. Newest(s, DatedPins(s), "position_captured_at") \in DatedPins(s)
    BY <2>2, <2>3, NewestIs
  <2> QED BY <2>1, <2>4
<1>5. Stamped(s) # {} => Newest(s, Stamped(s), "last_seen_at") \in DOMAIN s
  <2> SUFFICES ASSUME Stamped(s) # {}
               PROVE  Newest(s, Stamped(s), "last_seen_at") \in DOMAIN s
    OBVIOUS
  <2>1. Stamped(s) \subseteq DOMAIN s
    BY DEF Stamped
  <2>2. IsFiniteSet(Stamped(s)) /\ Stamped(s) \subseteq Nat
    BY <1>1, <2>1, FS_Subset
  <2>3. \A i \in Stamped(s) : s[i].reading["last_seen_at"] \in Nat
    BY <2>1, ReadsShape, LiveFieldsIn DEF Stamped, Reading, None
  <2>4. Newest(s, Stamped(s), "last_seen_at") \in Stamped(s)
    BY <2>2, <2>3, NewestIs
  <2> QED BY <2>1, <2>4
<1> QED BY <1>3, <1>4, <1>5 DEF FieldOwner

LEMMA MergeShape ==
  ASSUME NEW s \in Sources
  PROVE  Merge(s) \in Snapshots
<1> DEFINE m == Merge(s)
           disputed == {i \in OfThisCar(s) :
                          \E x \in ContestedFields : s[i].contested_fields[x] # {}}
<1>1. m.reading \in [Fields -> Reading]
  <2>1. \A x \in Fields : FieldOwner(s, x) # 0 => s[FieldOwner(s, x)].reading[x] \in Reading
    BY OwnerIn, ReadsShape
  <2> QED BY <2>1 DEF Merge, Reading
<1>2. m.field_sources \in [Fields -> Channels \cup {NoChannel}]
  <2>1. \A x \in Fields : FieldOwner(s, x) # 0 => s[FieldOwner(s, x)].channel \in Channels
    BY OwnerIn, ReadsShape
  <2>2. m.field_sources =
          [x \in Fields |-> IF FieldOwner(s, x) = 0 THEN NoChannel ELSE s[FieldOwner(s, x)].channel]
    BY Zenon DEF Merge
  <2> HIDE DEF m
  <2> QED BY <2>1, <2>2
<1>3. m.contested_fields \in [ContestedFields -> Candidates]
  <2>1. disputed \subseteq DOMAIN s
    BY DEF OfThisCar
  <2>2. (IF disputed = {} THEN 1 ELSE Least(disputed)) \in DOMAIN s
    <3> HIDE DEF disputed
    <3> QED BY <2>1, SourcesShape, LeastExists
  <2>3. s[IF disputed = {} THEN 1 ELSE Least(disputed)].contested_fields
          \in [ContestedFields -> Candidates]
    <3> HIDE DEF disputed
    <3> QED BY <2>2, SourcesShape DEF ChannelReads
  <2> QED BY <2>3 DEF Merge
<1>4. /\ m.has_battery \in BOOLEAN /\ m.has_combustion \in BOOLEAN
      /\ m.is_electric \in BOOLEAN /\ m.is_hybrid \in BOOLEAN
  <2>1. s[1].is_electric \in BOOLEAN /\ s[1].is_hybrid \in BOOLEAN
    BY SourcesShape DEF ChannelReads
  <2> QED BY <2>1 DEF Merge, Evidence
<1>5. m = [reading |-> m.reading, field_sources |-> m.field_sources,
           contested_fields |-> m.contested_fields,
           has_battery |-> m.has_battery, has_combustion |-> m.has_combustion,
           is_electric |-> m.is_electric, is_hybrid |-> m.is_hybrid]
  BY DEF Merge
<1> HIDE DEF m
<1> QED BY <1>1, <1>2, <1>3, <1>4, <1>5 DEF Snapshots, m

\* Whatever the snapshot held and whatever the portal delivered or contested
\* beside it: what a live channel says is what is shown, target and the
\* climate's remaining time excepted.
THEOREM ReadingsLiveReadingStands ==
  ASSUME NEW p \in Snapshots, NEW s \in Sources
  PROVE  LiveReadingStands(p, s)
<1> DEFINE f == Merge(s)
           old == HealCachedSentinels(p)
<1> SUFFICES ASSUME NEW x \in LiveFields \ {"target_soc", "climate_remaining_time_min"},
                    OneCar(s), LiveReaders(s, x) # {}
             PROVE  Reconcile(p, f).reading[x] = s[Least(LiveReaders(s, x))].reading[x]
  BY DEF LiveReadingStands
<1> DEFINE first == Least(LiveReaders(s, x))
<1>1. f \in Snapshots
  BY MergeShape
<1>2. f.reading[x] = s[first].reading[x] /\ f.field_sources[x] = s[first].channel
  BY MergeLiveBeatsBatch DEF LiveBeatsBatch
<1>3. first \in LiveReaders(s, x) /\ x \in Fields
  BY LiveOwner, LiveFieldsIn
<1>4. f.reading[x] # None
  BY <1>2, <1>3 DEF LiveReaders, Readers
<1>5. s[first].channel \notin BatchSources \cup {NoChannel}
  BY <1>3, ReadsShape DEF LiveReaders, Readers
<1> HIDE DEF f, first
<1>6. Reconcile(p, f).reading = ReconciledValues(p, f)
  BY <1>1, ReconcileIs
<1>7. CASE x = "battery_soc"
  <2>1. SocIsLive(f)
    BY <1>2, <1>5, <1>7 DEF SocIsLive
  <2>2. Soc(old, f) = f.reading["battery_soc"]
    BY <1>4, <1>7, <2>1 DEF Soc, SocDisputed, SocHeld, Carried
  <2> QED BY <1>1, <1>2, <1>6, <1>7, <2>2, ReconciledAre DEF first
<1>8. CASE x = "electric_range_km"
  BY <1>1, <1>2, <1>4, <1>6, <1>8, ReconciledAre DEF Carried, first
<1>9. CASE x \in {"is_charging", "charging_state", "climatisation_active", "doors_locked"}
  BY <1>1, <1>2, <1>6, <1>9, ReconciledAre DEF first
<1> QED BY <1>7, <1>8, <1>9 DEF LiveFields, f, first

-----------------------------------------------------------------------------
(* A delivery that is read again *)

\* The rules give the candidate they gave before.
LEMMA ResolvedAgain ==
  ASSUME NEW C \in Candidates, Differing(C), NEW f \in Snapshots,
         NEW old \in Values, NEW again \in Values,
         again["battery_soc"] = ResolveSoc(C, old, f),
         f.reading["is_charging"] # 1,
         \A a, b \in C : Distance(a, f.reading["pack_energy"])
                            = Distance(b, f.reading["pack_energy"]) => a = b,
         again["odometer_km"] # None => f.reading["odometer_km"] <= again["odometer_km"]
  PROVE  ResolveSoc(C, again, f) = ResolveSoc(C, old, f)
<1> DEFINE energy == f.reading["pack_energy"]
           near   == Nearest(C, energy)
<1>1. C \subseteq Nat /\ C # {}
  BY DEF Candidates, Differing
<1>2. f.reading \in Values
  BY SnapshotShape
<1>3. energy \in Int /\ f.reading["odometer_km"] \in Int /\ again["odometer_km"] \in Int
  BY <1>2, NamesIn DEF Values, Reading, None
<1>4. again["battery_soc"] \in C
  BY ResolvedIn DEF Differing
<1>5. ~(/\ None \notin {again["odometer_km"], f.reading["odometer_km"]}
        /\ f.reading["odometer_km"] > again["odometer_km"])
  BY <1>3
<1>6. CASE energy # None
  <2>1. near \in C /\ \A c \in C : Distance(near, energy) <= Distance(c, energy)
    <3> HIDE DEF energy
    <3> QED BY <1>1, <1>3, NearestIs
  <2>2. \A c \in C \ {near} : Distance(near, energy) < Distance(c, energy)
    <3> SUFFICES ASSUME NEW c \in C \ {near}
                 PROVE  Distance(near, energy) < Distance(c, energy)
      OBVIOUS
    <3>1. Distance(near, energy) # Distance(c, energy)
      BY <2>1
    <3>2. Distance(near, energy) \in Int /\ Distance(c, energy) \in Int
      BY <1>1, <1>3, <2>1 DEF Distance
    <3>3. \A u, w \in Int : u <= w /\ u # w => u < w
      OBVIOUS
    <3>4. Distance(near, energy) <= Distance(c, energy)
      BY <2>1
    <3> HIDE DEF near, energy
    <3> QED BY <3>1, <3>2, <3>3, <3>4
  <2>3. ResolveSoc(C, old, f) = near
    BY <1>6, <2>2 DEF ResolveSoc
  <2>4. ResolveSoc(C, again, f) = near
    BY <1>6, <2>2 DEF ResolveSoc
  <2> QED BY <2>3, <2>4
<1>7. CASE energy = None
  <2>1. ResolveSoc(C, again, f) = Nearest(C, again["battery_soc"])
    BY <1>5, <1>7 DEF ResolveSoc
  <2> QED BY <1>1, <1>4, <2>1, NearestSelf
<1> QED BY <1>6, <1>7

\* What reconcile gives depends on the stored snapshot by its values alone.
LEMMA SameValuesSameSnapshot ==
  ASSUME NEW p, NEW q, NEW f, ReconciledValues(p, f) = ReconciledValues(q, f)
  PROVE  Reconcile(p, f) = Reconcile(q, f)
BY Zenon DEF Reconcile

\* A delivery of the portal that was reconciled once may be read any number of
\* times: nothing of the snapshot changes.
THEOREM ReconcileRepeatChangesNothing ==
  ASSUME NEW p \in Snapshots, NEW f \in Snapshots
  PROVE  RepeatChangesNothing(p, f)
<1> SUFFICES ASSUME Settled(p, f)
             PROVE  Reconcile(Reconcile(p, f), f) = Reconcile(p, f)
  BY DEF RepeatChangesNothing
<1> DEFINE q     == Reconcile(p, f)
           first == HealCachedSentinels(p)
           again == HealCachedSentinels(q)
           one   == ReconciledValues(p, f)
           two   == ReconciledValues(q, f)
<1>1. /\ q \in Snapshots /\ q.reading = one
      /\ q.has_battery = (f.has_battery \/ Evidence(one, BatteryEvidence))
  BY ReconcileIs
<1>2. /\ first \in Values /\ again \in Values /\ f.reading \in Values
      /\ one \in Values /\ two \in Values /\ p.reading \in Values
  BY <1>1, Healed, SnapshotShape, ReconciledAre
<1>3. \A x \in ContestedFields : first[x] # None /\ one[x] # None
  <2>1. \A x \in ContestedFields : first[x] = p.reading[x] /\ p.reading[x] # None
    BY <1>2, NamesIn DEF Settled, HealCachedSentinels, ContestedFields, CarryForwardFields,
       Values, Reading, None, OdometerCeiling
  <2>2. NothingBlanked(p, f)
    BY ReconcileNothingBlanked
  <2> QED BY <1>1, <2>1, <2>2, NamesIn DEF NothingBlanked
<1>4. \A x \in Fields \ {"odometer_km"} : again[x] = one[x]
  <2>1. ~Phantom(q)
    BY <1>1 DEF Phantom, Evidence, BatteryEvidence
  <2> QED BY <1>1, <2>1 DEF HealCachedSentinels
<1>5. again["odometer_km"] = IF one["odometer_km"] >= OdometerCeiling
                             THEN None ELSE one["odometer_km"]
  BY <1>1, NamesIn DEF HealCachedSentinels
<1>6. first["odometer_km"] < OdometerCeiling
  BY <1>2, NamesIn DEF Settled, HealCachedSentinels, Values, Reading, None, OdometerCeiling
<1> HIDE DEF first, again, one, two
<1>7. /\ one["odometer_km"] = Odometer(first, f)
      /\ two["odometer_km"] = Odometer(again, f)
  BY <1>1, ReconciledAre DEF first, again, one, two
<1>8. \A o : Picked(o, f, "odometer_km") = Carried(o, f, "odometer_km")
  BY DEF Picked, Differing, Settled
<1>9. /\ f.reading["odometer_km"] <= one["odometer_km"]
      /\ two["odometer_km"] = one["odometer_km"]
  <2>1. /\ first["odometer_km"] \in Nat /\ one["odometer_km"] \in Nat
        /\ f.reading["odometer_km"] \in Reading
    BY <1>2, <1>3, NamesIn DEF Values, Reading, ContestedFields
  <2>2. first["odometer_km"] < OdometerCeiling
    BY <1>6
  <2> QED BY <1>5, <1>7, <1>8, <2>1, <2>2 DEF Odometer, Carried, Reading, None, OdometerCeiling
<1>10. two["battery_soc_from_hv"] = one["battery_soc_from_hv"]
       /\ (FromHv(again, f) <=> FromHv(first, f))
  <2>1. /\ one["battery_soc_from_hv"] =
              IF FromHv(first, f) THEN 1 ELSE f.reading["battery_soc_from_hv"]
        /\ two["battery_soc_from_hv"] =
              IF FromHv(again, f) THEN 1 ELSE f.reading["battery_soc_from_hv"]
    BY <1>1, ReconciledAre DEF first, again, one, two
  <2>2. again["battery_soc_from_hv"] = one["battery_soc_from_hv"]
    BY <1>4, NamesIn
  <2>3. FromHv(again, f) <=> FromHv(first, f)
    BY <2>1, <2>2 DEF FromHv
  <2> QED BY <2>1, <2>3
<1>11. two["battery_soc"] = one["battery_soc"]
  <2>1. /\ one["battery_soc"] = Soc(first, f) /\ two["battery_soc"] = Soc(again, f)
        /\ one["battery_soc_from_hv"] =
              IF FromHv(first, f) THEN 1 ELSE f.reading["battery_soc_from_hv"]
    BY <1>1, ReconciledAre DEF first, again, one, two
  <2>2. /\ again["battery_soc"] = one["battery_soc"]
        /\ again["battery_soc_from_hv"] = one["battery_soc_from_hv"]
        /\ again["battery_soc"] # None /\ first["battery_soc"] # None
    BY <1>3, <1>4, NamesIn DEF ContestedFields
  <2>3. SocDisputed(again, f) <=> SocDisputed(first, f)
    BY <1>10, <2>2 DEF SocDisputed
  <2>4. CASE SocDisputed(first, f)
    <3>1. /\ f.contested_fields["battery_soc"] \in Candidates
          /\ Differing(f.contested_fields["battery_soc"])
      BY <2>4, SnapshotShape DEF SocDisputed, ContestedFields
    <3>2. again["battery_soc"] = ResolveSoc(f.contested_fields["battery_soc"], first, f)
      BY <2>1, <2>2, <2>4 DEF Soc
    <3>3. again["odometer_km"] # None => f.reading["odometer_km"] <= again["odometer_km"]
      BY <1>5, <1>9
    <3>4. ResolveSoc(f.contested_fields["battery_soc"], again, f)
            = ResolveSoc(f.contested_fields["battery_soc"], first, f)
      BY <1>2, <3>1, <3>2, <3>3, ResolvedAgain DEF Settled
    <3> QED BY <2>1, <2>3, <2>4, <3>4 DEF Soc
  <2>5. CASE ~SocDisputed(first, f)
    <3>1. /\ first["battery_soc"] \in Nat /\ one["battery_soc"] \in Nat
          /\ f.reading["battery_soc"] \in Reading /\ f.reading["pack_energy"] \in Reading
      BY <1>2, <1>3, NamesIn DEF Values, Reading, ContestedFields
    <3>2. SocHeld(again, f) = SocHeld(first, f) \/ SocHeld(again, f) = one["battery_soc"]
      BY <2>1, <2>2 DEF SocHeld, Carried, FromHv
    <3>3. SocHeld(first, f) \in Nat
      BY <2>2, <3>1 DEF SocHeld, Carried, Reading, None
    <3> QED BY <2>1, <2>3, <2>5, <3>1, <3>2, <3>3 DEF Soc, Reading, None, LargeGap
  <2> QED BY <2>4, <2>5
<1>12. two["target_soc"] = one["target_soc"]
  <2> DEFINE C == f.contested_fields["target_soc"]
  <2>1. /\ one["target_soc"] = Picked(first, f, "target_soc")
        /\ two["target_soc"] = Picked(again, f, "target_soc")
    BY <1>1, ReconciledAre DEF first, again, one, two
  <2>2. /\ again["target_soc"] = one["target_soc"]
        /\ again["target_soc"] # None /\ first["target_soc"] # None
    BY <1>3, <1>4, NamesIn DEF ContestedFields
  <2>3. CASE Differing(C)
    <3>1. C \subseteq Nat /\ one["target_soc"] \in C
      BY <2>1, <2>2, <2>3, ChosenIsReading DEF Picked, ContestedFields, first
    <3>2. Nearest(C, again["target_soc"]) = one["target_soc"]
      <4> HIDE DEF C
      <4> QED BY <2>2, <3>1, NearestSelf
    <3> QED BY <2>1, <2>2, <2>3, <3>2 DEF Picked
  <2>4. CASE ~Differing(C)
    BY <2>1, <2>2, <2>4 DEF Picked, Carried
  <2> QED BY <2>3, <2>4
<1>13. two["last_seen_at"] = one["last_seen_at"]
  <2>1. one["last_seen_at"] = Seen(first, f) /\ two["last_seen_at"] = Seen(again, f)
    BY <1>1, ReconciledAre DEF first, again, one, two
  <2>2. again["last_seen_at"] = one["last_seen_at"]
    BY <1>4, NamesIn
  <2>3. /\ first["last_seen_at"] \in Reading /\ one["last_seen_at"] \in Reading
        /\ f.reading["last_seen_at"] \in Reading
    BY <1>2, NamesIn DEF Values
  <2> QED BY <2>1, <2>2, <2>3 DEF Seen, Carried, Reading, None
<1>14. \A x \in {"electric_range_km", "fuel_level", "combustion_range_km"} : two[x] = one[x]
  <2>1. \A x \in {"electric_range_km", "fuel_level", "combustion_range_km"} :
          /\ one[x] = Carried(first, f, x) /\ two[x] = Carried(again, f, x)
          /\ again[x] = one[x]
    BY <1>1, <1>4, NamesIn, ReconciledAre DEF first, again, one, two, CarryForwardFields
  <2> QED BY <2>1 DEF Carried
<1>15. \A x \in StaticFields : two[x] = one[x]
  <2>1. \A x \in StaticFields :
          /\ one[x] = IF f.reading[x] \in {None, 0} /\ first[x] > 0
                      THEN first[x] ELSE f.reading[x]
          /\ two[x] = IF f.reading[x] \in {None, 0} /\ again[x] > 0
                      THEN again[x] ELSE f.reading[x]
    BY <1>1, ReconciledAre DEF first, again, one, two
  <2>2. \A x \in StaticFields : again[x] = one[x]
    BY <1>4, NamesIn DEF StaticFields
  <2> QED BY <2>1, <2>2
<1>16. \A x \in PositionGroup : two[x] = one[x]
  <2>1. \A x \in PositionGroup :
          /\ one[x] = IF f.reading[x] = None /\ f.reading["latitude"] = None
                         /\ f.reading["longitude"] = None
                      THEN first[x] ELSE f.reading[x]
          /\ two[x] = IF f.reading[x] = None /\ f.reading["latitude"] = None
                         /\ f.reading["longitude"] = None
                      THEN again[x] ELSE f.reading[x]
    BY <1>1, ReconciledAre DEF first, again, one, two
  <2>2. \A x \in PositionGroup : again[x] = one[x]
    BY <1>4, NamesIn DEF PositionGroup
  <2> QED BY <2>1, <2>2
<1>17. /\ two["climate_remaining_time_min"] = one["climate_remaining_time_min"]
       /\ \A x \in {"is_charging", "charging_state", "climatisation_active",
                     "doors_locked", "heading", "pack_energy"} : two[x] = one[x]
  BY <1>1, ReconciledAre DEF one, two
<1>18. \A x \in Fields : two[x] = one[x]
  BY <1>9, <1>10, <1>11, <1>12, <1>13, <1>14, <1>15, <1>16, <1>17
     DEF Fields, LiveFields, PinFields, CarryForwardFields, StaticFields, PositionGroup
<1>19. two = one
  BY <1>2, <1>18 DEF Values
<1> QED BY <1>19, SameValuesSameSnapshot DEF one, two

-----------------------------------------------------------------------------
(* Where the code does not do what it says *)

LEMMA UnsetIn == Unset \in Values /\ Uncontested \in [ContestedFields -> Candidates]
<1>1. {} \in Candidates
  BY FS_EmptySet DEF Candidates
<1> QED BY <1>1 DEF Unset, Uncontested, Values, Reading

LEMMA PortalIn ==
  ASSUME NEW r \in Values, NEW c \in [ContestedFields -> Candidates]
  PROVE  Portal(r, c) \in Snapshots
BY DEF Portal, Snapshots, Values, Channels, BatchSources, NoChannel

LEMMA PairIn ==
  ASSUME NEW a \in Nat, NEW b \in Nat
  PROVE  {a, b} \in Candidates
<1>1. IsFiniteSet({a}) /\ IsFiniteSet({b})
  BY FS_Singleton
<1>2. IsFiniteSet({a} \cup {b})
  BY <1>1, FS_Union
<1> QED BY <1>2 DEF Candidates

LEMMA NearestOther ==
  ASSUME NEW a \in Nat, NEW b \in Nat, a # b
  PROVE  Nearest({a, b} \ {a}, a) = b /\ Nearest({a, b} \ {b}, b) = a
<1>1. {a, b} \ {a} = {b} /\ {a, b} \ {b} = {a}
  OBVIOUS
<1>2. Nearest({b}, a) \in {b} /\ Nearest({a}, b) \in {a}
  BY NearestIs
<1> QED BY <1>1, <1>2

\* The two levels of the witness below.
LEMMA NearestOfTwo ==
  Nearest({40, 60} \ {60}, 60) = 40 /\ Nearest({40, 60} \ {40}, 40) = 60
<1> DEFINE Other(a, b) == Nearest({a, b} \ {a}, a) = b /\ Nearest({a, b} \ {b}, b) = a
<1>1. \A a, b \in Nat : a # b => Other(a, b)
  BY NearestOther
<1>2. 40 \in Nat /\ 60 \in Nat /\ 40 # 60
  OBVIOUS
<1> HIDE DEF Other
<1>3. Other(40, 60)
  BY <1>1, <1>2
<1> QED BY <1>3 DEF Other

LEMMA TwoSources ==
  ASSUME NEW a \in ChannelReads, NEW b \in ChannelReads, a.channel # b.channel
  PROVE  /\ <<a, b>> \in Sources /\ DOMAIN <<a, b>> = {1, 2}
         /\ <<a, b>>[1] = a /\ <<a, b>>[2] = b
<1> DEFINE s == <<a, b>>
<1>1. s \in Seq(ChannelReads) /\ Len(s) = 2 /\ s[1] = a /\ s[2] = b
  OBVIOUS
<1> HIDE DEF s
<1>2. DOMAIN s = {1, 2} /\ s # <<>>
  <2>1. DOMAIN s = 1..2 /\ 1..2 = {1, 2}
    BY <1>1
  <2>2. s # <<>>
    <3>1. Len(<<>>) = 0
      OBVIOUS
    <3>2. 0 # 2
      OBVIOUS
    <3> QED BY <1>1, <3>1, <3>2, Zenon
  <2> QED BY <2>1, <2>2, Zenon
<1>3. s \in Sources
  BY <1>1, <1>2 DEF Sources
<1> QED BY <1>1, <1>2, <1>3 DEF s

LEMMA ReadByIn ==
  ASSUME NEW c \in Channels, NEW r \in Values, NEW d \in [ContestedFields -> Candidates]
  PROVE  /\ ReadBy(c, r, d) \in ChannelReads
         /\ ReadBy(c, r, d).channel = c /\ ReadBy(c, r, d).vin = 1
         /\ ReadBy(c, r, d).reading = r /\ ReadBy(c, r, d).contested_fields = d
BY DEF ReadBy, ChannelReads, Values

\* A live channel's target SoC can be replaced by a candidate of the batch feed's,
\* although live telemetry "must always beat the batch feed's"
\* (_channel_merge.py:62-64).
THEOREM ReadingsTargetIsReplaced ==
  \E p \in Snapshots, s \in Sources : TargetReplaced(p, s)
<1> DEFINE p == TargetBefore
           s == TargetSources
           x == "target_soc"
           f == Merge(s)
<1>1. p \in Snapshots /\ p.reading[x] = 70 /\ HealCachedSentinels(p)[x] = 70
  <2>1. p.reading = [Unset EXCEPT ![x] = 70]
    BY DEF TargetBefore, Portal
  <2>2. p.reading \in Values /\ p.reading[x] = 70
    BY <2>1, UnsetIn, NamesIn DEF Values, Reading
  <2>3. p \in Snapshots
    BY <2>1, <2>2, UnsetIn, PortalIn DEF TargetBefore
  <2> QED BY <2>2, <2>3, NamesIn DEF HealCachedSentinels
<1> DEFINE r == [Unset EXCEPT ![x] = 80]
           t == [Unset EXCEPT ![x] = 90]
           d == [Uncontested EXCEPT ![x] = {70, 90}]
<1>2. /\ r \in Values /\ r[x] = 80 /\ t \in Values /\ t[x] = 90
      /\ d \in [ContestedFields -> Candidates] /\ d[x] = {70, 90}
  <2>1. {70, 90} \in Candidates /\ x \in ContestedFields
    BY PairIn DEF ContestedFields
  <2> QED BY <2>1, UnsetIn, NamesIn DEF Values, Reading
<1>3. s = <<ReadBy("website_authproxy", r, Uncontested), ReadBy("eu_data_act", t, d)>>
  BY DEF TargetSources
<1> HIDE DEF p, s, r, t, d, x
<1>4. /\ s \in Sources /\ DOMAIN s = {1, 2}
      /\ s[1].channel = "website_authproxy" /\ s[2].channel = "eu_data_act"
      /\ s[1].vin = 1 /\ s[2].vin = 1
      /\ s[1].reading[x] = 80 /\ s[2].reading[x] = 90
      /\ s[1].contested_fields = Uncontested /\ s[2].contested_fields = d
  <2>1. "website_authproxy" \in Channels /\ "eu_data_act" \in Channels
    BY DEF Channels, BatchSources
  <2> DEFINE a == ReadBy("website_authproxy", r, Uncontested)
             b == ReadBy("eu_data_act", t, d)
  <2>2. /\ a \in ChannelReads /\ a.channel = "website_authproxy" /\ a.vin = 1
        /\ a.reading = r /\ a.contested_fields = Uncontested
        /\ b \in ChannelReads /\ b.channel = "eu_data_act" /\ b.vin = 1
        /\ b.reading = t /\ b.contested_fields = d
    BY <1>2, <2>1, UnsetIn, ReadByIn
  <2> HIDE DEF a, b
  <2>3. s = <<a, b>>
    BY <1>3 DEF a, b
  <2> QED BY <1>2, <2>2, <2>3, TwoSources
<1>5. OneCar(s) /\ LiveReaders(s, x) = {1}
  <2>1. OneCar(s)
    BY <1>4 DEF OneCar, OfThisCar
  <2>2. Readers(s, x) = {1, 2}
    BY <1>4 DEF Readers, None
  <2> QED BY <1>4, <2>1, <2>2 DEF LiveReaders, BatchSources
<1>6. Least(LiveReaders(s, x)) = 1
  BY <1>4, <1>5, LiveOwner DEF LiveFields, x
<1>7. f.contested_fields[x] = {70, 90}
  <2> DEFINE disputed == {i \in OfThisCar(s) :
                            \E y \in ContestedFields : s[i].contested_fields[y] # {}}
  <2>1. s[2].contested_fields[x] = {70, 90} /\ x \in ContestedFields
    BY <1>2, <1>4 DEF ContestedFields, x
  <2>2. \A y \in ContestedFields : s[1].contested_fields[y] = {}
    BY <1>4 DEF Uncontested
  <2>3. disputed = {2}
    BY <1>4, <1>5, <2>1, <2>2 DEF OneCar
  <2>4. Least(disputed) = 2
    <3> HIDE DEF disputed
    <3> QED BY <2>3, LeastExists
  <2>5. f.contested_fields = s[IF disputed = {} THEN 1 ELSE Least(disputed)].contested_fields
    BY Zenon DEF Merge
  <2> HIDE DEF disputed, f
  <2> QED BY <2>1, <2>3, <2>4, <2>5
<1>8. Picked(HealCachedSentinels(p), f, x) = 70
  <2>1. Nearest({70, 90}, 70) = 70
    BY NearestSelf
  <2>2. Differing({70, 90})
    BY DEF Differing
  <2> QED BY <1>1, <1>7, <2>1, <2>2 DEF Picked, None
<1>9. Reconcile(p, f).reading[x] = 70
  <2>1. f \in Snapshots
    BY <1>4, MergeShape
  <2> HIDE DEF f
  <2>2. Reconcile(p, f).reading = ReconciledValues(p, f)
    BY <1>1, <2>1, ReconcileIs
  <2>3. ReconciledValues(p, f)["target_soc"] = Picked(HealCachedSentinels(p), f, "target_soc")
    BY <1>1, <2>1, ReconciledAre
  <2> QED BY <1>8, <2>2, <2>3 DEF x
<1> QED BY <1>1, <1>4, <1>5, <1>6, <1>9 DEF TargetReplaced, x

\* A snapshot can claim to be both electric and hybrid, although "this can never
\* produce a snapshot that claims both" (vehicle_cache.py:723).
THEOREM ReconcileClaimsBoth ==
  \E p, f \in Snapshots : ~ClaimsBoth(p) /\ ~ClaimsBoth(f) /\ ClaimsBoth(Reconcile(p, f))
<1> DEFINE p == HybridBefore
           f == Portal(Unset, Uncontested)
           r == [Unset EXCEPT !["fuel_level"] = 50]
<1>1. r \in Values /\ r["fuel_level"] = 50 /\ "fuel_level" \in Fields
  BY UnsetIn, NamesIn DEF Values, Reading, CarryForwardFields
<1>2. /\ f \in Snapshots /\ f.reading = Unset
      /\ f.has_battery /\ f.is_electric /\ ~f.is_hybrid
  BY UnsetIn, PortalIn DEF Portal
<1>3. Portal(r, Uncontested) \in Snapshots
  BY <1>1, UnsetIn, PortalIn
<1>4. p \in Snapshots /\ p.reading = r /\ ~p.is_electric
  BY <1>3 DEF HybridBefore, Portal, Snapshots
<1>5. Carried(HealCachedSentinels(p), f, "fuel_level") = 50
  BY <1>1, <1>2, <1>4 DEF Carried, HealCachedSentinels, Unset
<1> HIDE DEF p, f, r
<1>6. ReconciledValues(p, f)["fuel_level"] = 50
  BY <1>2, <1>4, <1>5, ReconciledAre
<1>7. Evidence(ReconciledValues(p, f), CombustionEvidence)
  BY <1>6 DEF Evidence, CombustionEvidence, None
<1>8. ClaimsBoth(Reconcile(p, f))
  BY <1>2, <1>4, <1>7, ReconcileIs DEF ClaimsBoth
<1> QED BY <1>2, <1>4, <1>8 DEF ClaimsBoth

\* The fields that the examples of an alternating charge level leave alone.
Still == Fields \ {"battery_soc", "odometer_km", "pack_energy", "is_charging"}

\* When nothing else is known before or after, nothing else is.
LEMMA StillUnset ==
  ASSUME NEW p \in Snapshots, NEW f \in Snapshots,
         \A x \in Still : p.reading[x] = None /\ f.reading[x] = None
  PROVE  /\ \A x \in Still : ReconciledValues(p, f)[x] = None
         /\ \A x \in Fields : x # "odometer_km" => HealCachedSentinels(p)[x] = p.reading[x]
<1> DEFINE old == HealCachedSentinels(p)
           new == ReconciledValues(p, f)
<1>1. p.reading["electric_range_km"] = None
  BY DEF Still, Fields, LiveFields
<1>2. \A x \in Fields : x # "odometer_km" => old[x] = p.reading[x]
  BY <1>1 DEF HealCachedSentinels, Phantom
<1>3. \A x \in Still : old[x] = None /\ x \in Fields /\ f.reading[x] = None
  BY <1>2 DEF Still
<1>4. \A x \in Still : new[x] = None
  <2> HIDE DEF old, new
  <2>1. /\ new["battery_soc_from_hv"] =
              IF FromHv(old, f) THEN 1 ELSE f.reading["battery_soc_from_hv"]
        /\ new["target_soc"] = Picked(old, f, "target_soc")
        /\ new["last_seen_at"] = Seen(old, f)
        /\ \A x \in {"electric_range_km", "fuel_level", "combustion_range_km"} :
              new[x] = Carried(old, f, x)
        /\ \A x \in StaticFields :
              new[x] = IF f.reading[x] \in {None, 0} /\ old[x] > 0
                       THEN old[x] ELSE f.reading[x]
        /\ \A x \in PositionGroup :
              new[x] = IF f.reading[x] = None /\ f.reading["latitude"] = None
                          /\ f.reading["longitude"] = None
                       THEN old[x] ELSE f.reading[x]
        /\ new["climate_remaining_time_min"] =
              IF f.reading["climatisation_active"] = 0
                 /\ f.reading["climate_remaining_time_min"] > 0
              THEN 0 ELSE f.reading["climate_remaining_time_min"]
        /\ \A x \in {"charging_state", "climatisation_active",
                      "doors_locked", "heading"} : new[x] = f.reading[x]
    BY ReconciledAre DEF old, new
  <2>2. /\ StaticFields \subseteq Still /\ PositionGroup \subseteq Still
        /\ {"battery_soc_from_hv", "target_soc", "last_seen_at", "electric_range_km",
            "fuel_level", "combustion_range_km", "climate_remaining_time_min",
            "charging_state", "climatisation_active", "doors_locked", "heading"} \subseteq Still
    BY DEF Still, StaticFields, PositionGroup, Fields, LiveFields, PinFields, CarryForwardFields
  <2>3. /\ new["battery_soc_from_hv"] = None /\ new["target_soc"] = None
        /\ new["last_seen_at"] = None /\ new["climate_remaining_time_min"] = None
    BY <1>3, <2>1, <2>2 DEF FromHv, Picked, Seen, Carried, None
  <2>4. \A x \in {"electric_range_km", "fuel_level", "combustion_range_km"} : new[x] = None
    BY <1>3, <2>1, <2>2 DEF Carried
  <2>5. \A x \in StaticFields \cup PositionGroup : new[x] = None
    BY <1>3, <2>1, <2>2
  <2>6. \A x \in {"charging_state", "climatisation_active", "doors_locked", "heading"} :
          new[x] = None
    BY <1>3, <2>1, <2>2
  <2> QED BY <2>3, <2>4, <2>5, <2>6
          DEF Still, Fields, LiveFields, PinFields, CarryForwardFields, PositionGroup, StaticFields
<1> QED BY <1>2, <1>4

\* If two deliveries bring the values back, the third is the first again.
LEMMA BackAgain ==
  ASSUME NEW p \in Snapshots, NEW f \in Snapshots,
         p.reading["electric_range_km"] = None,
         Reconcile(Reconcile(p, f), f).reading = p.reading,
         Reconcile(p, f).reading["battery_soc"] # p.reading["battery_soc"]
  PROVE  Alternates(p, f)
<1> DEFINE two == Reconcile(Reconcile(p, f), f)
<1>1. ~Phantom(p) /\ ~Phantom(two)
  BY DEF Phantom
<1> HIDE DEF two
<1>2. HealCachedSentinels(two) = HealCachedSentinels(p)
  BY <1>1 DEF HealCachedSentinels, two
<1>3. ReconciledValues(two, f) = ReconciledValues(p, f)
  BY <1>2, Zenon DEF ReconciledValues
<1>4. Reconcile(two, f) = Reconcile(p, f)
  BY <1>3, SameValuesSameSnapshot
<1> QED BY <1>4 DEF Alternates, two

\* A charging car whose portal sends a fresh and a frozen charge level is shown
\* both in turn, for as long as the delivery stays the same, although the resolver
\* is there against a level that flips "between two numbers" (vehicle_cache.py:542-543).
THEOREM ReconcileChargingCarAlternates ==
  \E p, f \in Snapshots : f.reading["is_charging"] = 1 /\ Alternates(p, f)
<1> DEFINE p == ChargingBefore
           f == ChargingTwins
           r == ChargingReading
           C == {40, 94}
           q == Reconcile(p, f)
           two == Reconcile(q, f)
           first == HealCachedSentinels(p)
           again == HealCachedSentinels(q)
<1>1. /\ r \in Values /\ r["battery_soc"] = 94 /\ r["pack_energy"] = 45
      /\ r["is_charging"] = 1 /\ r["odometer_km"] = None
      /\ \A x \in Still : r[x] = None
  <2>1. 94 \in Reading /\ 45 \in Reading /\ 1 \in Reading
    BY DEF Reading
  <2> QED BY <2>1, UnsetIn, NamesIn DEF ChargingReading, Still, Unset, Values
<1>2. /\ p \in Snapshots /\ p.reading = r /\ f \in Snapshots /\ f.reading = r
      /\ f.contested_fields["battery_soc"] = C
      /\ f.contested_fields["odometer_km"] = {} /\ ~SocIsLive(f)
  <2> DEFINE d == [Uncontested EXCEPT !["battery_soc"] = C]
  <2>1. /\ d \in [ContestedFields -> Candidates] /\ d["battery_soc"] = C
        /\ d["odometer_km"] = {}
    <3>1. C \in Candidates
      BY PairIn
    <3> QED BY <3>1, UnsetIn DEF ContestedFields, Uncontested
  <2> HIDE DEF d, r
  <2>2. Portal(r, d) \in Snapshots /\ Portal(r, Uncontested) \in Snapshots
    BY <1>1, <2>1, UnsetIn, PortalIn
  <2>3. f = Portal(r, d) /\ p = Portal(r, Uncontested)
    BY DEF ChargingBefore, ChargingTwins, d, r
  <2>4. ~SocIsLive(Portal(r, d))
    BY NamesIn DEF SocIsLive, Portal, BatchSources
  <2> HIDE DEF p, f
  <2> QED BY <2>1, <2>2, <2>3, <2>4 DEF Portal
<1> HIDE DEF p, f, r
<1>3. /\ q \in Snapshots /\ q.reading = ReconciledValues(p, f)
      /\ two \in Snapshots /\ two.reading = ReconciledValues(q, f)
  BY <1>2, ReconcileIs
<1>4. /\ \A x \in Still : q.reading[x] = None
      /\ \A x \in Fields : x # "odometer_km" => first[x] = r[x]
  BY <1>1, <1>2, <1>3, StillUnset
<1>5. /\ \A x \in Still : two.reading[x] = None
      /\ \A x \in Fields : x # "odometer_km" => again[x] = q.reading[x]
  BY <1>1, <1>2, <1>3, <1>4, StillUnset
<1> HIDE DEF q, two, first, again
<1>6. /\ q.reading["battery_soc"] = Soc(first, f)
      /\ q.reading["odometer_km"] = Odometer(first, f)
      /\ two.reading["battery_soc"] = Soc(again, f)
      /\ two.reading["odometer_km"] = Odometer(again, f)
      /\ \A x \in {"pack_energy", "is_charging"} :
            q.reading[x] = f.reading[x] /\ two.reading[x] = f.reading[x]
  BY <1>2, <1>3, ReconciledAre DEF first, again
<1>7. Differing(C) /\ "battery_soc_from_hv" \in Still
  BY NamesIn DEF Differing, Still
<1>8. /\ ~FromHv(first, f) /\ ~FromHv(again, f)
      /\ first["battery_soc"] = 94
  BY <1>1, <1>2, <1>4, <1>5, <1>7, NamesIn DEF FromHv, None
<1>9. Nearest(C, 45) = 40
  <2>1. Nearest(C, 45) \in C /\ Distance(Nearest(C, 45), 45) <= Distance(40, 45)
    <3>1. C \subseteq Nat /\ C # {} /\ 40 \in C /\ 45 \in Int
      OBVIOUS
    <3> HIDE DEF C
    <3> QED BY <3>1, NearestIs
  <2> QED BY <2>1 DEF Distance
<1>10. q.reading["battery_soc"] = 40
  <2>1. SocDisputed(first, f)
    BY <1>2, <1>7, <1>8 DEF SocDisputed, None
  <2>2. ResolveSoc(C, first, f) = 40
    BY <1>1, <1>2, <1>8, <1>9 DEF ResolveSoc, Distance, LargeGap, None
  <2> QED BY <1>2, <1>6, <2>1, <2>2 DEF Soc
<1>11. two.reading["battery_soc"] = 94
  <2>1. again["battery_soc"] = 40
    BY <1>5, <1>10, NamesIn
  <2>2. SocDisputed(again, f)
    BY <1>2, <1>7, <1>8, <2>1 DEF SocDisputed, None
  <2>3. Highest(C) = 94
    <3>1. C \in Candidates /\ C # {}
      BY PairIn
    <3>2. Highest(C) \in C /\ 94 <= Highest(C)
      BY <3>1, HighestIs
    <3> QED BY <3>2
  <2>4. ResolveSoc(C, again, f) = 94
    BY <1>1, <1>2, <1>9, <2>1, <2>3 DEF ResolveSoc, Distance, LargeGap, None
  <2> QED BY <1>2, <1>6, <2>2, <2>4 DEF Soc
<1>12. two.reading["odometer_km"] = None
  <2>1. first["odometer_km"] = None
    BY <1>1, <1>2, NamesIn DEF HealCachedSentinels, first
  <2>2. q.reading["odometer_km"] = None
    BY <1>1, <1>2, <1>6, <2>1 DEF Odometer, Picked, Carried
  <2>3. again["odometer_km"] = None
    BY <2>2, NamesIn DEF HealCachedSentinels, again
  <2> QED BY <1>1, <1>2, <1>6, <2>3 DEF Odometer, Picked, Carried
<1>13. two.reading = p.reading
  <2>1. two.reading \in Values
    BY <1>3, SnapshotShape
  <2>2. \A x \in Fields : two.reading[x] = r[x]
    BY <1>1, <1>2, <1>5, <1>6, <1>11, <1>12 DEF Still
  <2> QED BY <1>1, <1>2, <2>1, <2>2 DEF Values
<1>14. Alternates(p, f)
  <2>1. p.reading["electric_range_km"] = None
    BY <1>1, <1>2, NamesIn DEF Still
  <2>2. q.reading["battery_soc"] # p.reading["battery_soc"]
    BY <1>1, <1>2, <1>10
  <2> QED BY <1>2, <1>13, <2>1, <2>2, BackAgain DEF q, two
<1> QED BY <1>1, <1>2, <1>14

\* So is a parked car whose portal sends two odometer readings as well: the lower
\* one is kept, and the car seems to have moved since, at every poll.
THEOREM ReconcileParkedCarAlternates ==
  \E p, f \in Snapshots : f.reading["is_charging"] # 1 /\ Alternates(p, f)
<1> DEFINE p == ParkedBefore
           f == ParkedTwins
           r == [Unset EXCEPT !["battery_soc"] = 60, !["odometer_km"] = 1000]
           t == [Unset EXCEPT !["battery_soc"] = 60, !["odometer_km"] = 1050]
           C == {40, 60}
           O == {1000, 1050}
           q == Reconcile(p, f)
           two == Reconcile(q, f)
           first == HealCachedSentinels(p)
           again == HealCachedSentinels(q)
<1>1. /\ r \in Values /\ r["battery_soc"] = 60 /\ r["odometer_km"] = 1000
      /\ r["pack_energy"] = None /\ r["is_charging"] = None
      /\ t \in Values /\ t["battery_soc"] = 60 /\ t["odometer_km"] = 1050
      /\ t["pack_energy"] = None /\ t["is_charging"] = None
      /\ \A x \in Still : r[x] = None /\ t[x] = None
  <2>1. 60 \in Reading /\ 1000 \in Reading /\ 1050 \in Reading
    BY DEF Reading
  <2> QED BY <2>1, UnsetIn, NamesIn DEF Still, Unset, Values
<1>2. /\ p \in Snapshots /\ p.reading = r /\ f \in Snapshots /\ f.reading = t
      /\ f.contested_fields["battery_soc"] = C
      /\ f.contested_fields["odometer_km"] = O /\ ~SocIsLive(f)
  <2> DEFINE d == [Uncontested EXCEPT !["battery_soc"] = C, !["odometer_km"] = O]
  <2>1. /\ d \in [ContestedFields -> Candidates] /\ d["battery_soc"] = C
        /\ d["odometer_km"] = O
    <3>1. C \in Candidates /\ O \in Candidates
      BY PairIn
    <3> QED BY <3>1, UnsetIn DEF ContestedFields, Uncontested
  <2> HIDE DEF d, r, t
  <2>2. Portal(t, d) \in Snapshots /\ Portal(r, Uncontested) \in Snapshots
    BY <1>1, <2>1, UnsetIn, PortalIn
  <2>3. f = Portal(t, d) /\ p = Portal(r, Uncontested)
    BY DEF ParkedBefore, ParkedTwins, d, r, t
  <2>4. ~SocIsLive(Portal(t, d))
    BY NamesIn DEF SocIsLive, Portal, BatchSources
  <2> HIDE DEF p, f
  <2> QED BY <2>1, <2>2, <2>3, <2>4 DEF Portal
<1> HIDE DEF p, f, r, t
<1>3. /\ q \in Snapshots /\ q.reading = ReconciledValues(p, f)
      /\ two \in Snapshots /\ two.reading = ReconciledValues(q, f)
  BY <1>2, ReconcileIs
<1>4. /\ \A x \in Still : q.reading[x] = None
      /\ \A x \in Fields : x # "odometer_km" => first[x] = r[x]
  BY <1>1, <1>2, <1>3, StillUnset
<1>5. /\ \A x \in Still : two.reading[x] = None
      /\ \A x \in Fields : x # "odometer_km" => again[x] = q.reading[x]
  BY <1>1, <1>2, <1>3, <1>4, StillUnset
<1> HIDE DEF q, two, first, again
<1>6. /\ q.reading["battery_soc"] = Soc(first, f)
      /\ q.reading["odometer_km"] = Odometer(first, f)
      /\ two.reading["battery_soc"] = Soc(again, f)
      /\ two.reading["odometer_km"] = Odometer(again, f)
      /\ \A x \in {"pack_energy", "is_charging"} :
            q.reading[x] = f.reading[x] /\ two.reading[x] = f.reading[x]
  BY <1>2, <1>3, ReconciledAre DEF first, again
<1>7. Differing(C) /\ Differing(O) /\ "battery_soc_from_hv" \in Still
  BY NamesIn DEF Differing, Still
<1>8. /\ ~FromHv(first, f) /\ ~FromHv(again, f)
      /\ first["battery_soc"] = 60
  BY <1>1, <1>2, <1>4, <1>5, <1>7, NamesIn DEF FromHv, None
\* The odometer stays at the lower candidate.
<1>9. \A o \in Values : o["odometer_km"] = 1000 => Odometer(o, f) = 1000
  <2>1. Nearest(O, 1000) = 1000
    BY NearestSelf
  <2> QED BY <1>2, <1>7, <2>1 DEF Odometer, Picked, None
<1>10. first["odometer_km"] = 1000 /\ again["odometer_km"] = 1000
       /\ two.reading["odometer_km"] = 1000
  <2>1. first \in Values /\ again \in Values
    BY <1>2, <1>3, Healed DEF first, again
  <2>2. first["odometer_km"] = 1000
    BY <1>1, <1>2, NamesIn DEF HealCachedSentinels, first, OdometerCeiling
  <2>3. q.reading["odometer_km"] = 1000
    BY <1>6, <1>9, <2>1, <2>2
  <2>4. again["odometer_km"] = 1000
    BY <2>3, NamesIn DEF HealCachedSentinels, again, OdometerCeiling
  <2> QED BY <1>6, <1>9, <2>1, <2>2, <2>4
\* So the car has moved, and the level that was shown is dropped.
<1>11. q.reading["battery_soc"] = 40
  <2>1. SocDisputed(first, f)
    BY <1>2, <1>7, <1>8 DEF SocDisputed, None
  <2>2. Nearest(C \ {60}, 60) = 40
    BY NearestOfTwo
  <2>3. ResolveSoc(C, first, f) = 40
    BY <1>1, <1>2, <1>8, <1>10, <2>2 DEF ResolveSoc, None
  <2> QED BY <1>2, <1>6, <2>1, <2>3 DEF Soc
<1>12. two.reading["battery_soc"] = 60
  <2>1. again["battery_soc"] = 40
    BY <1>5, <1>11, NamesIn
  <2>2. SocDisputed(again, f)
    BY <1>2, <1>7, <1>8, <2>1 DEF SocDisputed, None
  <2>3. Nearest(C \ {40}, 40) = 60
    BY NearestOfTwo
  <2>4. ResolveSoc(C, again, f) = 60
    BY <1>1, <1>2, <1>10, <2>1, <2>3 DEF ResolveSoc, None
  <2> QED BY <1>2, <1>6, <2>2, <2>4 DEF Soc
<1>13. two.reading = p.reading
  <2>1. two.reading \in Values
    BY <1>3, SnapshotShape
  <2>2. \A x \in Fields : two.reading[x] = r[x]
    BY <1>1, <1>2, <1>5, <1>6, <1>10, <1>12 DEF Still
  <2> QED BY <1>1, <1>2, <2>1, <2>2 DEF Values
<1>14. Alternates(p, f)
  <2>1. p.reading["electric_range_km"] = None
    BY <1>1, <1>2, NamesIn DEF Still
  <2>2. q.reading["battery_soc"] # p.reading["battery_soc"]
    BY <1>1, <1>2, <1>11
  <2> QED BY <1>2, <1>13, <2>1, <2>2, BackAgain DEF q, two
<1> QED BY <1>1, <1>2, <1>14 DEF None
=============================================================================
