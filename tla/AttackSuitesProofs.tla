-------------------------- MODULE AttackSuitesProofs --------------------------
(***************************************************************************)
(* Theorems about AttackSuites, for any corpora, configurations and        *)
(* questions, and for whatever a ranking, a seed or a generator decides.   *)
(***************************************************************************)
EXTENDS AttackSuites, IngestionProofs

-----------------------------------------------------------------------------
(* Result files: whatever version wrote a result, the chain restores it.   *)

\* What a file at version v of the chain holds of a result.
Holds(v, x, trials, samples, ms) ==
  /\ x = [k \in DOMAIN x |-> x[k]]
  /\ {"records", "screens", "metrics", "spec", "spec_hash"} \subseteq DOMAIN x
  /\ x.spec = x.spec_hash
  /\ "identity" \in DOMAIN x => x.identity = x.spec_hash
  /\ x.screens = samples
  /\ DOMAIN x.records = DOMAIN trials /\ x.records = [n \in DOMAIN trials |-> x.records[n]]
  /\ \A n \in DOMAIN trials :
       IF v = Unversioned THEN Without(x.records[n], {"foreign"}) = trials[n]
       ELSE x.records[n] = trials[n]
  /\ x.metrics = IF v < 6 THEN {Without(m, {"state"}) : m \in ms} ELSE ms

\* A trial and a metric as they are recorded.
Trials(trials) ==
  /\ trials = [n \in DOMAIN trials |-> trials[n]]
  /\ \A n \in DOMAIN trials : /\ trials[n] = [k \in DOMAIN trials[n] |-> trials[n][k]]
                              /\ DOMAIN trials[n] \subseteq RecordKeys
Measured(ms) ==
  \A m \in ms : m = [k \in DOMAIN m |-> m[k]] /\ "state" \in DOMAIN m /\ m.state = "measured"

\* What setdefault does to a record.
LEMMA SetDefaultIs ==
  ASSUME NEW x, NEW key, NEW value
  PROVE  LET y == SetDefault(x, key, value) IN
         /\ y = [k \in DOMAIN y |-> y[k]] /\ DOMAIN y = DOMAIN x \cup {key}
         /\ \A k \in DOMAIN x : y[k] = x[k]
         /\ key \notin DOMAIN x => y[key] = value
BY DEF SetDefault

\* What taking keys out does to a record.
LEMMA WithoutIs ==
  ASSUME NEW x, NEW keys
  PROVE  LET y == Without(x, keys) IN
         /\ y = [k \in DOMAIN y |-> y[k]] /\ DOMAIN y = DOMAIN x \ keys
         /\ \A k \in DOMAIN y : y[k] = x[k]
BY DEF Without

\* What is added to a record and taken from it again leaves it as it was.
LEMMA AddedAndTaken ==
  ASSUME NEW x, NEW key, NEW value, x = [k \in DOMAIN x |-> x[k]], key \notin DOMAIN x
  PROVE  Without(SetDefault(x, key, value), {key}) = x
BY DEF Without, SetDefault

\* What is taken from a record and put back leaves it as it was.
LEMMA TakenAndAdded ==
  ASSUME NEW x, NEW key, x = [k \in DOMAIN x |-> x[k]], key \in DOMAIN x
  PROVE  SetDefault(Without(x, {key}), key, x[key]) = x
BY DEF Without, SetDefault

\* A file of version v holds the result.
LEMMA WrittenHolds ==
  ASSUME NEW writer \in Writers, writer.version \in 1..6, NEW trials, NEW samples, NEW ms,
         Trials(trials)
  PROVE  LET raw == Written(writer, trials, samples, ms) IN
         /\ Holds(writer.version, raw, trials, samples, ms)
         /\ VersionOf(raw) = writer.version
<1> DEFINE v == writer.version
           Stored(r) == IF v = Unversioned THEN SetDefault(r, "foreign", {}) ELSE r
           stored == [n \in DOMAIN trials |-> Stored(trials[n])]
           rates == IF v < 6 THEN {Without(m, {"state"}) : m \in ms} ELSE ms
           all == [schema_version |-> v, run_id |-> "a run", ingestion |-> "a report",
                   spec |-> "a spec", spec_hash |-> "a spec", identity |-> "a spec",
                   records |-> stored, screens |-> samples, metrics |-> rates]
           late == (IF v < 2 THEN {"schema_version", "run_id"} ELSE {})
                   \cup (IF v < 3 THEN {"ingestion"} ELSE {})
                   \cup (IF v < 4 THEN {"identity"} ELSE {})
           raw == Written(writer, trials, samples, ms)
<1>1. raw = Without(all, late)
  BY DEF Written
<1>2. \A n \in DOMAIN trials :
        IF v = Unversioned THEN Without(stored[n], {"foreign"}) = trials[n]
        ELSE stored[n] = trials[n]
  <2>1. ASSUME NEW n \in DOMAIN trials, v = Unversioned
        PROVE  Without(stored[n], {"foreign"}) = trials[n]
    <3>1. "foreign" \notin DOMAIN trials[n]
      BY DEF Trials, RecordKeys, ScanKeys
    <3> QED
      BY <2>1, <3>1, AddedAndTaken DEF Trials
  <2> QED
    BY <2>1
<1>3. DOMAIN stored = DOMAIN trials /\ stored = [n \in DOMAIN trials |-> stored[n]]
  OBVIOUS
<1> HIDE DEF stored, rates
<1>4. /\ DOMAIN all = {"schema_version", "run_id", "ingestion", "spec", "spec_hash", "identity",
                       "records", "screens", "metrics"}
      /\ all.records = stored /\ all.screens = samples /\ all.metrics = rates
      /\ all.spec = "a spec" /\ all.spec_hash = "a spec" /\ all.identity = "a spec"
      /\ all.schema_version = v
  OBVIOUS
<1> HIDE DEF all
<1> HIDE DEF raw, late
<1>5. /\ raw = [k \in DOMAIN raw |-> raw[k]] /\ DOMAIN raw = DOMAIN all \ late
      /\ \A k \in DOMAIN raw : raw[k] = all[k]
  BY <1>1 DEF Without
<1> USE DEF late
<1>6. {"records", "screens", "metrics", "spec", "spec_hash"} \subseteq DOMAIN raw
  BY <1>4, <1>5
<1>7. /\ raw.records = stored /\ raw.screens = samples /\ raw.metrics = rates
      /\ raw.spec = "a spec" /\ raw.spec_hash = "a spec"
      /\ "identity" \in DOMAIN raw => raw.identity = "a spec"
      /\ "schema_version" \in DOMAIN raw => raw.schema_version = v
  <2>1. \A k \in DOMAIN raw : raw[k] = all[k]
    BY <1>5
  <2> HIDE DEF v
  <2>2. raw.records = stored /\ raw.screens = samples /\ raw.metrics = rates
    BY <1>4, <1>6, <2>1
  <2>3. raw.spec = "a spec" /\ raw.spec_hash = "a spec"
    BY <1>4, <1>6, <2>1
  <2>4. "identity" \in DOMAIN raw => raw.identity = "a spec"
    BY <1>4, <2>1
  <2>5. "schema_version" \in DOMAIN raw => raw.schema_version = v
    BY <1>4, <2>1
  <2> QED
    BY <2>2, <2>3, <2>4, <2>5
<1>8. VersionOf(raw) = v
  <2>1. CASE v < 2
    <3>1. v = 1 /\ "schema_version" \notin DOMAIN raw
      BY <1>5, <2>1
    <3> QED
      BY <3>1 DEF VersionOf, Unversioned
  <2>2. CASE ~(v < 2)
    <3>1. "schema_version" \in DOMAIN raw
      BY <1>4, <1>5, <2>2
    <3> QED
      BY <1>7, <3>1 DEF VersionOf
  <2> QED
    BY <2>1, <2>2
<1>9. raw.metrics = IF v < 6 THEN {Without(m, {"state"}) : m \in ms} ELSE ms
  BY <1>7 DEF rates
<1> HIDE DEF v, late
<1>10. Holds(v, raw, trials, samples, ms)
  BY <1>2, <1>3, <1>5, <1>6, <1>7, <1>9 DEF Holds
<1> QED
  BY <1>8, <1>10 DEF raw, v

\* A newer file says so.
LEMMA NewerIs ==
  ASSUME NEW writer, writer.version = 7, NEW trials, NEW samples, NEW ms
  PROVE  LET raw == Written(writer, trials, samples, ms) IN
         raw.schema_version = 7 /\ "schema_version" \in DOMAIN raw
<1> DEFINE v == writer.version
           Stored(r) == IF v = Unversioned THEN SetDefault(r, "foreign", {}) ELSE r
           stored == [n \in DOMAIN trials |-> Stored(trials[n])]
           of == IF v < 6 THEN {Without(m, {"state"}) : m \in ms} ELSE ms
           all == [schema_version |-> v, run_id |-> "a run", ingestion |-> "a report",
                   spec |-> "a spec", spec_hash |-> "a spec", identity |-> "a spec",
                   records |-> stored, screens |-> samples, metrics |-> of]
           late == (IF v < 2 THEN {"schema_version", "run_id"} ELSE {})
                   \cup (IF v < 3 THEN {"ingestion"} ELSE {})
                   \cup (IF v < 4 THEN {"identity"} ELSE {})
           raw == Written(writer, trials, samples, ms)
<1>1. raw = Without(all, late)
  BY DEF Written
<1>2. late = {}
  OBVIOUS
<1> HIDE DEF stored, of
<1>3. "schema_version" \in DOMAIN all /\ all.schema_version = 7
  OBVIOUS
<1> HIDE DEF all, raw, late
<1>4. "schema_version" \in DOMAIN raw /\ raw.schema_version = 7
  BY <1>1, <1>2, <1>3 DEF Without
<1> QED
  BY <1>4 DEF raw

\* A default leaves what a file holds of the result.
LEMMA MoreHolds ==
  ASSUME NEW v, NEW x, NEW trials, NEW samples, NEW ms, NEW key, NEW value,
         key \notin {"records", "screens", "metrics", "spec", "spec_hash"},
         key = "identity" => value = x.spec_hash,
         Holds(v, x, trials, samples, ms)
  PROVE  Holds(v, SetDefault(x, key, value), trials, samples, ms)
<1> DEFINE y == SetDefault(x, key, value)
<1>1. /\ y = [k \in DOMAIN y |-> y[k]] /\ DOMAIN y = DOMAIN x \cup {key}
      /\ \A k \in DOMAIN x : y[k] = x[k]
      /\ key \notin DOMAIN x => y[key] = value
  BY SetDefaultIs
<1> HIDE DEF y
<1>2. /\ y.records = x.records /\ y.screens = x.screens /\ y.metrics = x.metrics
      /\ y.spec = x.spec /\ y.spec_hash = x.spec_hash
  BY <1>1 DEF Holds
<1>3. "identity" \in DOMAIN y => y.identity = y.spec_hash
  BY <1>1, <1>2 DEF Holds
<1>4. Holds(v, y, trials, samples, ms)
  BY <1>1, <1>2, <1>3 DEF Holds
<1> QED
  BY <1>4 DEF y

\* From version 2 to 5 a result is held in one way.
LEMMA OlderHolds ==
  ASSUME NEW v \in 2..4, NEW x, NEW trials, NEW samples, NEW ms,
         Holds(v, x, trials, samples, ms)
  PROVE  Holds(v + 1, x, trials, samples, ms)
BY DEF Holds, Unversioned

\* The first migration restores the trials.
LEMMA OneToTwoHolds ==
  ASSUME NEW x, NEW trials, NEW samples, NEW ms, Holds(1, x, trials, samples, ms),
         trials = [n \in DOMAIN trials |-> trials[n]]
  PROVE  Holds(2, OneToTwo(x), trials, samples, ms)
<1> DEFINE y == SetDefault(x, "run_id", "None")
           bare == [n \in DOMAIN y.records |-> Without(y.records[n], {"foreign"})]
           z == [y EXCEPT !.records = bare]
<1>1. Holds(1, y, trials, samples, ms)
  BY MoreHolds
<1>2. z = OneToTwo(x)
  BY DEF OneToTwo
<1> HIDE DEF y
<1>3. bare = trials
  BY <1>1 DEF Holds, Unversioned
<1> HIDE DEF bare
<1>4. /\ z = [k \in DOMAIN z |-> z[k]] /\ DOMAIN z = DOMAIN y
      /\ \A k \in DOMAIN y \ {"records"} : z[k] = y[k]
      /\ z.records = bare
  BY <1>1 DEF Holds
<1> HIDE DEF z
<1>5. /\ z.screens = y.screens /\ z.metrics = y.metrics /\ z.spec = y.spec
      /\ z.spec_hash = y.spec_hash
      /\ "identity" \in DOMAIN y => z.identity = y.identity
  BY <1>1, <1>4 DEF Holds
<1>6. Holds(2, z, trials, samples, ms)
  BY <1>1, <1>3, <1>4, <1>5 DEF Holds, Unversioned
<1> QED
  BY <1>2, <1>6

\* The last migration restores the states of the metrics.
LEMMA FiveToSixHolds ==
  ASSUME NEW x, NEW trials, NEW samples, NEW ms, Holds(5, x, trials, samples, ms), Measured(ms)
  PROVE  Holds(6, FiveToSix(x), trials, samples, ms)
<1> DEFINE full == {SetDefault(m, "state", "measured") : m \in x.metrics}
           z == [x EXCEPT !.metrics = full]
<1>1. full = ms
  <2>1. \A m \in ms : SetDefault(Without(m, {"state"}), "state", "measured") = m
    <3> TAKE m \in ms
    <3>1. m = [k \in DOMAIN m |-> m[k]] /\ "state" \in DOMAIN m /\ m["state"] = "measured"
      BY DEF Measured
    <3> QED
      BY <3>1, TakenAndAdded
  <2>2. x.metrics = {Without(m, {"state"}) : m \in ms}
    BY DEF Holds
  <2> QED
    BY <2>1, <2>2
<1> HIDE DEF full
<1>2. /\ z = [k \in DOMAIN z |-> z[k]] /\ DOMAIN z = DOMAIN x
      /\ \A k \in DOMAIN x \ {"metrics"} : z[k] = x[k]
      /\ z.metrics = ms
  BY <1>1 DEF Holds
<1>3. z = FiveToSix(x)
  BY DEF full, FiveToSix
<1> HIDE DEF z
<1>4. /\ z.screens = x.screens /\ z.records = x.records /\ z.spec = x.spec
      /\ z.spec_hash = x.spec_hash
      /\ "identity" \in DOMAIN x => z.identity = x.identity
  BY <1>2 DEF Holds
<1>5. Holds(6, z, trials, samples, ms)
  BY <1>2, <1>4 DEF Holds, Unversioned
<1> QED
  BY <1>3, <1>5

\* A step of the chain restores what its version holds.
LEMMA StepHolds ==
  ASSUME NEW v \in 1..5, NEW x, NEW trials, NEW samples, NEW ms,
         Trials(trials), Measured(ms), Holds(v, x, trials, samples, ms)
  PROVE  Holds(v + 1, Step(v, x), trials, samples, ms)
<1>1. CASE v = 1
  <2>1. Holds(2, OneToTwo(x), trials, samples, ms)
    BY <1>1, OneToTwoHolds DEF Trials
  <2> QED
    BY <1>1, <2>1 DEF Step
<1>2. CASE v = 2
  <2>1. Holds(3, x, trials, samples, ms)
    BY <1>2, OlderHolds
  <2>2. Holds(3, SetDefault(x, "ingestion", "None"), trials, samples, ms)
    BY <2>1, MoreHolds
  <2> QED
    BY <1>2, <2>2 DEF Step, TwoToThree
<1>3. CASE v = 3
  <2>1. Holds(4, x, trials, samples, ms)
    BY <1>3, OlderHolds
  <2>2. Holds(4, SetDefault(x, "identity", x.spec_hash), trials, samples, ms)
    BY <2>1, MoreHolds
  <2>3. x.spec = x.spec_hash
    BY DEF Holds
  <2> QED
    BY <1>3, <2>2, <2>3 DEF Step, ThreeToFour
<1>4. CASE v = 4
  <2>1. Holds(5, x, trials, samples, ms)
    BY <1>4, OlderHolds
  <2> QED
    BY <1>4, <2>1 DEF Step
<1>5. CASE v = 5
  BY <1>5, FiveToSixHolds DEF Step
<1> QED
  BY <1>1, <1>2, <1>3, <1>4, <1>5

\* The chain as migrate_raw goes through it: up to its version the file as it
\* is, from there one step after the other.
Chain(raw) ==
  CHOOSE from : from = [v \in Unversioned..ResultSchemaVersion |->
    IF v <= VersionOf(raw) THEN raw ELSE Step(v - 1, from[v - 1])]

\* Each migration of the chain works on what the one before it left.
LEMMA ChainIs ==
  ASSUME NEW raw, VersionOf(raw) \in Nat \ {0}
  PROVE  /\ Chain(raw) = [v \in 1..6 |->
              IF v <= VersionOf(raw) THEN raw ELSE Step(v - 1, Chain(raw)[v - 1])]
         /\ Migrated(raw) = [SetDefault(Chain(raw)[6], "schema_version", 0)
                               EXCEPT !.schema_version = 6]
<1> DEFINE w == VersionOf(raw)
           second == IF 2 <= w THEN raw ELSE Step(1, raw)
           third == IF 3 <= w THEN raw ELSE Step(2, second)
           fourth == IF 4 <= w THEN raw ELSE Step(3, third)
           fifth == IF 5 <= w THEN raw ELSE Step(4, fourth)
           sixth == IF 6 <= w THEN raw ELSE Step(5, fifth)
           Body(from) == [v \in 1..6 |-> IF v <= w THEN raw ELSE Step(v - 1, from[v - 1])]
           f == [v \in 1..6 |-> IF v = 1 THEN raw ELSE IF v = 2 THEN second
                  ELSE IF v = 3 THEN third ELSE IF v = 4 THEN fourth
                  ELSE IF v = 5 THEN fifth ELSE sixth]
<1>1. f = Body(f)
  <2>1. \A v \in 1..6 : v = 1 \/ v = 2 \/ v = 3 \/ v = 4 \/ v = 5 \/ v = 6
    OBVIOUS
  <2>2. /\ f[1] = raw /\ f[2] = second /\ f[3] = third /\ f[4] = fourth
        /\ f[5] = fifth /\ f[6] = sixth
    <3> HIDE DEF second, third, fourth, fifth, sixth
    <3> QED
      OBVIOUS
  <2>3. w \in Nat /\ 1 <= w /\ 2 - 1 = 1 /\ 3 - 1 = 2 /\ 4 - 1 = 3 /\ 5 - 1 = 4 /\ 6 - 1 = 5
    OBVIOUS
  <2> HIDE DEF f, w
  <2>4. /\ f[1] = IF 1 <= w THEN raw ELSE Step(1 - 1, f[1 - 1])
        /\ f[2] = IF 2 <= w THEN raw ELSE Step(2 - 1, f[2 - 1])
        /\ f[3] = IF 3 <= w THEN raw ELSE Step(3 - 1, f[3 - 1])
    BY <2>2, <2>3
  <2>5. /\ f[4] = IF 4 <= w THEN raw ELSE Step(4 - 1, f[4 - 1])
        /\ f[5] = IF 5 <= w THEN raw ELSE Step(5 - 1, f[5 - 1])
        /\ f[6] = IF 6 <= w THEN raw ELSE Step(6 - 1, f[6 - 1])
    BY <2>2, <2>3
  <2>6. \A v \in 1..6 : f[v] = IF v <= w THEN raw ELSE Step(v - 1, f[v - 1])
    BY <2>1, <2>4, <2>5
  <2>7. f = [v \in 1..6 |-> f[v]]
    BY DEF f
  <2> QED
    BY <2>6, <2>7
<1> HIDE DEF f
<1>2. Chain(raw) = CHOOSE from : from = Body(from)
  BY DEF Chain, Unversioned, ResultSchemaVersion
<1>3. Chain(raw) = Body(Chain(raw))
  BY <1>1, <1>2
<1>4. Migrated(raw) = [SetDefault(Chain(raw)[6], "schema_version", 0)
                         EXCEPT !.schema_version = 6]
  BY Zenon DEF Migrated, Chain, Unversioned, ResultSchemaVersion
<1> QED
  BY <1>3, <1>4

\* What is read is what the writer recorded, and all but a newer file is read.
LEMMA MigratedHolds ==
  ASSUME NEW writer \in Writers, writer.version \in 1..6, NEW trials, NEW samples, NEW ms,
         Trials(trials), Measured(ms)
  PROVE  LET raw == Written(writer, trials, samples, ms) IN
         /\ Migrated(raw).records = trials /\ Migrated(raw).screens = samples
         /\ Migrated(raw).metrics = ms
         /\ Readable(raw)
<1> DEFINE raw == Written(writer, trials, samples, ms)
           w == writer.version
           c == Chain(raw)
           y == SetDefault(c[6], "schema_version", 0)
           z == Migrated(raw)
<1>1. Holds(w, raw, trials, samples, ms) /\ VersionOf(raw) = w
  BY WrittenHolds
<1>2. w \in 1..6
  OBVIOUS
<1> HIDE DEF raw, w
<1>3. /\ c = [v \in 1..6 |-> IF v <= w THEN raw ELSE Step(v - 1, c[v - 1])]
      /\ z = [y EXCEPT !.schema_version = 6]
  BY <1>1, <1>2, ChainIs
<1> HIDE DEF c, z
<1>4. \A v \in 1..6 : c[v] = IF v <= w THEN raw ELSE Step(v - 1, c[v - 1])
  BY <1>3
<1>5. c[w] = raw
  BY <1>2, <1>4
<1>6. \A v \in 1..5 : w <= v /\ Holds(v, c[v], trials, samples, ms)
                        => Holds(v + 1, c[v + 1], trials, samples, ms)
  <2> TAKE v \in 1..5
  <2> HAVE w <= v /\ Holds(v, c[v], trials, samples, ms)
  <2>1. Holds(v + 1, Step(v, c[v]), trials, samples, ms)
    BY StepHolds
  <2>2. v + 1 \in 1..6 /\ ~(v + 1 <= w) /\ (v + 1) - 1 = v
    BY <1>2
  <2>3. c[v + 1] = Step(v, c[v])
    BY <1>4, <2>2
  <2> QED
    BY <2>1, <2>3
<1>7. Holds(6, c[6], trials, samples, ms)
  <2> DEFINE G(v) == w <= v => Holds(v, c[v], trials, samples, ms)
  <2>1. G(1) /\ \A v \in 1..5 : G(v) => G(v + 1)
    <3>1. \A v \in 1..6 : w = v => Holds(v, c[v], trials, samples, ms)
      BY <1>1, <1>5
    <3>2. \A v \in 1..5 : w <= v + 1 => w <= v \/ w = v + 1
      BY <1>2
    <3>3. \A v \in 1..5 : v + 1 \in 1..6
      OBVIOUS
    <3>4. w <= 1 => w = 1
      BY <1>2
    <3> QED
      BY <1>6, <3>1, <3>2, <3>3, <3>4
  <2>2. 1 + 1 = 2 /\ 2 + 1 = 3 /\ 3 + 1 = 4 /\ 4 + 1 = 5 /\ 5 + 1 = 6
    OBVIOUS
  <2> HIDE DEF G
  <2>3. G(6)
    BY <2>1, <2>2
  <2> QED
    BY <1>2, <2>3 DEF G
<1>8. Holds(6, y, trials, samples, ms)
  BY <1>7, MoreHolds
<1>9. "schema_version" \in DOMAIN y
  BY DEF SetDefault
<1> HIDE DEF y
<1>10. /\ DOMAIN z = DOMAIN y
       /\ z.records = y.records /\ z.screens = y.screens /\ z.metrics = y.metrics
       /\ z.spec_hash = y.spec_hash
       /\ "identity" \in DOMAIN z => z.identity = y.identity
  BY <1>3, <1>8 DEF Holds
<1>11. z.records = trials /\ z.screens = samples /\ z.metrics = ms
  BY <1>8, <1>10 DEF Holds, Trials, Unversioned
<1>12. "identity" \in DOMAIN z => z.identity = z.spec_hash
  BY <1>8, <1>10 DEF Holds
<1>13. \A n \in DOMAIN z.records : DOMAIN z.records[n] \subseteq RecordKeys
  BY <1>11 DEF Trials
<1>14. Readable(raw)
  BY <1>1, <1>2, <1>12, <1>13 DEF Readable, z, Unversioned, ResultSchemaVersion
<1> QED
  BY <1>11, <1>14 DEF raw, z

-----------------------------------------------------------------------------
(* The rates of what a version recorded are among those of the run.        *)

\* What a metric says.
LEMMA MetricIs ==
  ASSUME NEW name, NEW part, NEW variant, NEW sample, NEW hit
  PROVE  LET m == Metric(name, part, variant, sample, hit) IN
         /\ m = [k \in DOMAIN m |-> m[k]] /\ "state" \in DOMAIN m /\ m.state = "measured"
BY DEF Metric

\* A metric as Metric makes it.
IsMetric(m) == \E name, part, variant, sample, hit : m = Metric(name, part, variant, sample, hit)

\* The metrics of a kind of attack are metrics.
LEMMA TypeMetricsAre ==
  ASSUME NEW D, NEW rs, NEW t
  PROVE  \A m \in TypeMetrics(D, rs, t) : IsMetric(m)
BY ZenonT(60) DEF TypeMetrics, IsMetric

\* The metrics of a condition are metrics.
LEMMA ConditionMetricsAre ==
  ASSUME NEW rs, NEW cleans, NEW screened, NEW d
  PROVE  \A m \in ConditionMetrics(rs, cleans, screened, d) : IsMetric(m)
BY Zenon DEF ConditionMetrics, IsMetric

\* A metric of the security suite is one of a kind of attack, or of a condition.
LEMMA SecurityMetricsAre ==
  ASSUME NEW D, NEW rs, NEW cleans, NEW screened
  PROVE  \A m : m \in SecurityMetrics(D, rs, cleans, screened) <=>
           /\ m.of > 0
           /\ \/ \E n \in DOMAIN rs : m \in TypeMetrics(D, rs, rs[n].type)
              \/ \E d \in D : Under(rs, d) # {} /\ m \in ConditionMetrics(rs, cleans, screened, d)
<1> TAKE m
<1> DEFINE types == {TypeMetrics(D, rs, t) : t \in {rs[n].type : n \in DOMAIN rs}}
           conditions == {ConditionMetrics(rs, cleans, screened, d)
                            : d \in {c \in D : Under(rs, c) # {}}}
           U == (UNION types) \cup (UNION conditions)
           SM == SecurityMetrics(D, rs, cleans, screened)
<1>1. SM = {x \in U : x.of > 0}
  BY Zenon DEF SecurityMetrics
<1>2. m \in UNION types <=> \E n \in DOMAIN rs : m \in TypeMetrics(D, rs, rs[n].type)
  OBVIOUS
<1>3. m \in UNION conditions
        <=> \E d \in D : Under(rs, d) # {} /\ m \in ConditionMetrics(rs, cleans, screened, d)
  OBVIOUS
<1> HIDE DEF types, conditions
<1>4. m \in U <=> m \in UNION types \/ m \in UNION conditions
  OBVIOUS
<1> HIDE DEF U, SM
<1>5. m \in SM <=> m \in U /\ m.of > 0
  BY <1>1
<1> QED
  BY <1>2, <1>3, <1>4, <1>5 DEF SM

\* Every metric of the security suite is one that was measured.
LEMMA MetricsMeasured ==
  ASSUME NEW D, NEW rs, NEW cleans, NEW screened
  PROVE  Measured(SecurityMetrics(D, rs, cleans, screened))
<1>1. \A m \in SecurityMetrics(D, rs, cleans, screened) : IsMetric(m)
  <2> TAKE m \in SecurityMetrics(D, rs, cleans, screened)
  <2>2. \/ \E t : m \in TypeMetrics(D, rs, t)
        \/ \E d : m \in ConditionMetrics(rs, cleans, screened, d)
    BY SecurityMetricsAre
  <2> QED
    BY <2>2, TypeMetricsAre, ConditionMetricsAre
<1> QED
  BY <1>1, MetricIs DEF Measured, IsMetric

\* A metric of the condition d that a sample of chunks has no part in is one
\* whatever was sampled; the one it has is left out of an empty sample.
LEMMA UnsampledCondition ==
  ASSUME NEW rs, NEW cleans, NEW screened, NEW d
  PROVE  /\ \A m \in ConditionMetrics(rs, cleans, {}, d) :
              m.of > 0 => m \in ConditionMetrics(rs, cleans, screened, d)
         /\ \A m \in ConditionMetrics(rs, cleans, screened, d) :
              m.name # "defense_clean_screen_rate" => m \in ConditionMetrics(rs, cleans, {}, d)
<1> DEFINE Of(s) == Metric("defense_clean_screen_rate", "", d, {c \in s : c.defense = d},
                           {c \in s : c.screened})
           Rest == ConditionMetrics(rs, cleans, {}, d) \ {Of({})}
<1>1. \A s : \A m : m \in ConditionMetrics(rs, cleans, s, d) => m = Of(s) \/ m \in ConditionMetrics(rs, cleans, {}, d)
  BY Zenon DEF ConditionMetrics
<1>2. \A s : \A m : m \in ConditionMetrics(rs, cleans, {}, d) => m = Of({}) \/ m \in ConditionMetrics(rs, cleans, s, d)
  BY Zenon DEF ConditionMetrics
<1>3. Of({}).of = Cardinality({c \in {} : c.defense = d})
  BY DEF Metric
<1>4. {c \in {} : c.defense = d} = {} /\ Cardinality({}) = 0
  BY FS_EmptySet
<1>5. ~(Of({}).of > 0)
  <2>1. Of({}).of = 0
    BY <1>3, <1>4
  <2> HIDE DEF Of
  <2> QED
    BY <2>1
<1>6. Of(screened).name = "defense_clean_screen_rate"
  BY DEF Metric
<1> HIDE DEF Of
<1> QED
  BY <1>1, <1>2, <1>5, <1>6

\* A trial is recorded with all its keys.
Complete(rs) == rs = [n \in DOMAIN rs |-> rs[n]] /\ \A n \in DOMAIN rs :
                  rs[n] = [k \in RecordKeys |-> rs[n][k]]

\* Where some keys of a scan are lost, the trials are chosen as where none is,
\* and carry the evidence that is left.
LEMMA LostChosen ==
  ASSUME NEW rs, Complete(rs), NEW lost \in SUBSET ScanKeys,
         NEW ts, ts = [n \in DOMAIN rs |-> Without(rs[n], lost)]
  PROVE  /\ DOMAIN ts = DOMAIN rs
         /\ \A n \in DOMAIN rs : \A k \in RecordKeys \ lost : ts[n][k] = rs[n][k]
         /\ \A n \in DOMAIN rs : /\ ts[n].retrieved = rs[n].retrieved /\ ts[n].type = rs[n].type
                                 /\ ts[n].succeeded = rs[n].succeeded
                                 /\ ts[n].defense = rs[n].defense /\ ts[n].qid = rs[n].qid
         /\ \A d : Under(ts, d) = Under(rs, d)
         /\ \A t, d : At(ts, t, d) = At(rs, t, d)
         /\ \A S \in SUBSET DOMAIN rs : \A keys \in SUBSET RecordKeys :
              Having(rs, S, keys) = S /\ Having(ts, S, keys) = IF keys \cap lost = {} THEN S ELSE {}
<1>1. DOMAIN ts = DOMAIN rs
  OBVIOUS
<1>2. \A n \in DOMAIN rs : DOMAIN rs[n] = RecordKeys
  BY DEF Complete
<1>3. \A n \in DOMAIN rs : /\ DOMAIN ts[n] = RecordKeys \ lost
                           /\ \A k \in RecordKeys \ lost : ts[n][k] = rs[n][k]
  BY <1>2 DEF Without
<1>4. {"retrieved", "type", "succeeded", "defense", "qid"} \subseteq RecordKeys \ lost
  BY DEF RecordKeys, ScanKeys
<1>5. \A n \in DOMAIN rs : /\ ts[n].retrieved = rs[n].retrieved /\ ts[n].type = rs[n].type
                           /\ ts[n].succeeded = rs[n].succeeded
                           /\ ts[n].defense = rs[n].defense /\ ts[n].qid = rs[n].qid
  BY <1>3, <1>4
<1>6. \A d : Under(ts, d) = Under(rs, d)
  BY <1>1, <1>5 DEF Under
<1>7. \A t, d : At(ts, t, d) = At(rs, t, d)
  <2> TAKE t, d
  <2>1. Under(ts, d) = Under(rs, d) /\ Under(rs, d) \subseteq DOMAIN rs
    BY <1>6 DEF Under
  <2> QED
    BY <2>1, <1>5 DEF At
<1>8. \A S \in SUBSET DOMAIN rs : \A keys \in SUBSET RecordKeys :
        Having(rs, S, keys) = S /\ Having(ts, S, keys) = IF keys \cap lost = {} THEN S ELSE {}
  <2> TAKE S \in SUBSET DOMAIN rs
  <2> TAKE keys \in SUBSET RecordKeys
  <2>1. Having(rs, S, keys) = S
    BY <1>2 DEF Having
  <2>2. CASE keys \cap lost = {}
    <3>1. \A n \in S : keys \subseteq DOMAIN ts[n]
      BY <1>3, <2>2
    <3> QED
      BY <2>1, <2>2, <3>1 DEF Having
  <2>3. CASE keys \cap lost # {}
    <3>1. \A n \in S : ~(keys \subseteq DOMAIN ts[n])
      BY <1>3, <2>3
    <3> QED
      BY <2>1, <2>3, <3>1 DEF Having
  <2> QED
    BY <2>2, <2>3
<1> QED
  BY <1>1, <1>3, <1>5, <1>6, <1>7, <1>8

\* A kind's metrics are those whose evidence is left.
LEMMA LostType ==
  ASSUME NEW rs, Complete(rs), NEW lost \in SUBSET ScanKeys,
         NEW ts, ts = [n \in DOMAIN rs |-> Without(rs[n], lost)], NEW D, NEW t
  PROVE  /\ \A m \in TypeMetrics(D, ts, t) : m.of > 0 => m \in TypeMetrics(D, rs, t)
         /\ \A m \in TypeMetrics(D, rs, t) :
              Evidence(m) \cap lost = {} => m \in TypeMetrics(D, ts, t)
<1> DEFINE retrieved(r) == {n \in DOMAIN r : r[n].retrieved}
           success(r) == {n \in DOMAIN r : r[n].succeeded}
           Of(r, f, d) == {n \in Having(r, At(r, t, d), {"family"}) : r[n].family = f}
           parts(r) == {x \in {"seen", "heldout"} \X D : Of(r, x[1], x[2]) # {}}
           scanned(r) == {d \in D : Having(r, At(r, t, d), {"compromised"}) = At(r, t, d)}
           First(r) == {Metric(RetrievalName(t), "", "",
                               UNION {At(r, t, d) : d \in Unstripped(D)}, retrieved(r))}
           Second(r) == {Metric(SuccessName(t), "", d, At(r, t, d), success(r)) : d \in D}
           Third(r) == {Metric(CompromiseName(t), "", d, At(r, t, d),
                          {n \in At(r, t, d) : r[n].compromised}) : d \in scanned(r)}
           Fourth(r) == {Metric(SuccessName(t), x[1], x[2], Of(r, x[1], x[2]), success(r))
                           : x \in parts(r)}
           Fifth(r) == {Metric(ScreenedName(t), x[1], x[2], Of(r, x[1], x[2]),
                          DOMAIN r \ retrieved(r)) : x \in parts(r)}
<1>1. \A r : TypeMetrics(D, r, t) = First(r) \cup Second(r) \cup Third(r) \cup Fourth(r) \cup Fifth(r)
  BY Zenon DEF TypeMetrics
<1>2. /\ DOMAIN ts = DOMAIN rs
      /\ \A n \in DOMAIN rs : \A k \in RecordKeys \ lost : ts[n][k] = rs[n][k]
      /\ \A n \in DOMAIN rs : /\ ts[n].retrieved = rs[n].retrieved /\ ts[n].type = rs[n].type
                              /\ ts[n].succeeded = rs[n].succeeded
                              /\ ts[n].defense = rs[n].defense
      /\ \A d : At(ts, t, d) = At(rs, t, d)
      /\ \A S \in SUBSET DOMAIN rs : \A keys \in SUBSET RecordKeys :
           Having(rs, S, keys) = S /\ Having(ts, S, keys) = IF keys \cap lost = {} THEN S ELSE {}
  BY LostChosen
<1>3. \A d : At(rs, t, d) \in SUBSET DOMAIN rs
  BY DEF At, Under
<1>4. retrieved(ts) = retrieved(rs) /\ success(ts) = success(rs)
  BY <1>2
<1>4a. \A d : At(ts, t, d) = At(rs, t, d)
  BY <1>2
<1>5. First(ts) = First(rs) /\ Second(ts) = Second(rs)
  <2>1. {At(ts, t, d) : d \in Unstripped(D)} = {At(rs, t, d) : d \in Unstripped(D)}
    BY Zenon, <1>4a
  <2> HIDE DEF retrieved, success
  <2> QED
    BY Zenon, <1>4, <1>4a, <2>1
<1>6. {"family"} \in SUBSET RecordKeys /\ {"compromised"} \in SUBSET RecordKeys
  BY DEF RecordKeys, ScanKeys
<1>7. "family" \in lost => Fourth(ts) = {} /\ Fifth(ts) = {}
  <2> HAVE "family" \in lost
  <2>1. \A d : Having(ts, At(ts, t, d), {"family"}) = {}
    BY <1>2, <1>3, <1>6
  <2>2. parts(ts) = {}
    BY <2>1
  <2> HIDE DEF parts, Of, success, retrieved
  <2> QED
    BY <2>2
<1>8. "family" \notin lost => Fourth(ts) = Fourth(rs) /\ Fifth(ts) = Fifth(rs)
  <2> HAVE "family" \notin lost
  <2>1. \A d : Having(ts, At(ts, t, d), {"family"}) = At(rs, t, d) /\ Having(rs, At(rs, t, d), {"family"}) = At(rs, t, d)
    BY <1>2, <1>3, <1>6
  <2>2. \A n \in DOMAIN rs : ts[n].family = rs[n].family
    BY <1>2, <1>6
  <2>3. \A f, d : Of(ts, f, d) = Of(rs, f, d)
    BY <1>3, <2>1, <2>2
  <2>4. parts(ts) = parts(rs)
    <3> HIDE DEF Of
    <3> QED
      BY <2>3
  <2>5. DOMAIN ts = DOMAIN rs
    BY <1>2
  <2> HIDE DEF parts, Of, success, retrieved
  <2> QED
    BY Zenon, <1>4, <2>3, <2>4, <2>5
<1>9. "compromised" \in lost => \A m \in Third(ts) : m.of = 0
  <2> HAVE "compromised" \in lost
  <2> TAKE m \in Third(ts)
  <2>1. PICK d \in scanned(ts) : m = Metric(CompromiseName(t), "", d, At(ts, t, d),
                                            {n \in At(ts, t, d) : ts[n].compromised})
    BY Zenon
  <2>2. At(ts, t, d) = {}
    BY <1>2, <1>3, <1>6, <2>1
  <2>3. m.of = Cardinality({})
    BY <2>1, <2>2 DEF Metric
  <2> QED
    BY <2>3, FS_EmptySet
<1>10. "compromised" \notin lost => Third(ts) = Third(rs)
  <2> HAVE "compromised" \notin lost
  <2> DEFINE comp(r, d) == {n \in At(r, t, d) : r[n].compromised}
  <2>0. \A d : /\ Having(ts, At(ts, t, d), {"compromised"}) = At(ts, t, d)
               /\ Having(rs, At(rs, t, d), {"compromised"}) = At(rs, t, d)
    <3> TAKE d
    <3>1. At(rs, t, d) \in SUBSET DOMAIN rs /\ At(ts, t, d) = At(rs, t, d)
      BY <1>3, <1>4a
    <3>2. {"compromised"} \cap lost = {}
      OBVIOUS
    <3>3. \A S \in SUBSET DOMAIN rs : /\ Having(rs, S, {"compromised"}) = S
                                      /\ Having(ts, S, {"compromised"}) = S
      BY <1>2, <1>6, <3>2
      <3> QED
      BY Zenon, <3>1, <3>3
  <2>1. scanned(ts) = D /\ scanned(rs) = D
    BY Zenon, <2>0
  <2>2. \A n \in DOMAIN rs : ts[n].compromised = rs[n].compromised
    BY <1>2, <1>6
  <2>3. \A d : comp(ts, d) = comp(rs, d)
    BY <1>2, <1>3, <2>2
  <2>4. \A r : Third(r) = {Metric(CompromiseName(t), "", d, At(r, t, d), comp(r, d)) : d \in scanned(r)}
    BY Zenon
  <2> HIDE DEF comp, scanned, Third
  <2> QED
    BY Zenon, <1>4a, <2>1, <2>3, <2>4
<1>11. \A m \in Third(rs) : "compromised" \in Evidence(m)
  <2> TAKE m \in Third(rs)
  <2>1. PICK d : m = Metric(CompromiseName(t), "", d, At(rs, t, d), {n \in At(rs, t, d) : rs[n].compromised})
    BY Zenon
  <2>2. m.name = CompromiseName(t)
    BY <2>1 DEF Metric
  <2>3. m.name \in {"poison_compromise_rate", "injection_compromise_rate"}
    BY <2>2 DEF CompromiseName
  <2>4. "compromised" \in ScanKeys
    BY DEF ScanKeys
  <2> HIDE DEF Third
  <2> QED
    BY <2>3, <2>4 DEF Evidence
<1>12. \A m \in Fourth(rs) \cup Fifth(rs) : "family" \in Evidence(m)
  <2> TAKE m \in Fourth(rs) \cup Fifth(rs)
  <2>1. \E x \in parts(rs) : \/ m = Metric(SuccessName(t), x[1], x[2], Of(rs, x[1], x[2]), success(rs))
                            \/ m = Metric(ScreenedName(t), x[1], x[2], Of(rs, x[1], x[2]), DOMAIN rs \ retrieved(rs))
    BY Zenon
  <2>2. \A x \in parts(rs) : x[1] \in {"seen", "heldout"}
    OBVIOUS
  <2> HIDE DEF parts, Of, success, retrieved, Fourth, Fifth
  <2>3. m.part \in {"seen", "heldout"}
    BY <2>1, <2>2 DEF Metric
  <2>4. "family" \in ScanKeys
    BY DEF ScanKeys
  <2> QED
    BY <2>3, <2>4 DEF Evidence
<1> HIDE DEF First, Second, Third, Fourth, Fifth
<1>13. \A m \in TypeMetrics(D, ts, t) : m.of > 0 => m \in TypeMetrics(D, rs, t)
  BY <1>1, <1>5, <1>7, <1>8, <1>9, <1>10
<1>14. \A m \in TypeMetrics(D, rs, t) : Evidence(m) \cap lost = {} => m \in TypeMetrics(D, ts, t)
  BY <1>1, <1>5, <1>8, <1>10, <1>11, <1>12
<1> QED
  BY <1>13, <1>14

\* A condition's metrics are those whose evidence is left.
LEMMA LostCondition ==
  ASSUME NEW rs, Complete(rs), NEW lost \in SUBSET ScanKeys,
         NEW ts, ts = [n \in DOMAIN rs |-> Without(rs[n], lost)],
         NEW cleans, NEW screened, NEW d
  PROVE  /\ \A m \in ConditionMetrics(ts, cleans, screened, d) :
              m.of > 0 => m \in ConditionMetrics(rs, cleans, screened, d)
         /\ \A m \in ConditionMetrics(rs, cleans, screened, d) :
              Evidence(m) \cap lost = {} => m \in ConditionMetrics(ts, cleans, screened, d)
<1> DEFINE H1(r) == Having(r, Under(r, d), {"matched", "own"})
           H2(r) == Having(r, Under(r, d), {"abstained"})
           A(r) == Metric("attack_abstention_rate", "", d, H2(r), {n \in H2(r) : r[n].abstained})
           B(r) == Metric("attack_competition_rate", "", d, H1(r), {n \in H1(r) : Competing(r[n]) # {}})
           C(r) == Metric("cross_question_contamination_rate", "", d, H1(r),
                          {n \in H1(r) : CrossQuestion(r[n]) # {}})
<1>1. \A r, s : \A m \in ConditionMetrics(r, cleans, screened, d) :
        m = A(r) \/ m = B(r) \/ m = C(r) \/ m \in ConditionMetrics(s, cleans, screened, d)
  <2> DEFINE clean == {n \in DOMAIN cleans : cleans[n].defense = d}
             Shared == {Metric("clean_abstention_rate", "", d, clean, {n \in clean : cleans[n].abstained}),
                        Metric("clean_answer_accuracy", "", d, clean, {n \in clean : cleans[n].match}),
                        Metric("defense_clean_screen_rate", "", d, {c \in screened : c.defense = d},
                               {c \in screened : c.screened})}
  <2>1. \A r : \A m : m \in ConditionMetrics(r, cleans, screened, d)
                       <=> m = A(r) \/ m = B(r) \/ m = C(r) \/ m \in Shared
    BY Zenon DEF ConditionMetrics
  <2> HIDE DEF A, B, C, Shared
  <2> QED
    BY Zenon, <2>1
<1>2. \A r : {A(r), B(r), C(r)} \subseteq ConditionMetrics(r, cleans, screened, d)
  <2> TAKE r
  <2>1. A(r) \in ConditionMetrics(r, cleans, screened, d)
    BY Zenon DEF ConditionMetrics
  <2>2. B(r) \in ConditionMetrics(r, cleans, screened, d)
    BY Zenon DEF ConditionMetrics
  <2>3. C(r) \in ConditionMetrics(r, cleans, screened, d)
    BY Zenon DEF ConditionMetrics
  <2> QED
    BY <2>1, <2>2, <2>3
<1>3. /\ Under(ts, d) = Under(rs, d) /\ Under(rs, d) \in SUBSET DOMAIN rs
      /\ \A n \in DOMAIN rs : \A k \in RecordKeys \ lost : ts[n][k] = rs[n][k]
      /\ \A n \in DOMAIN rs : ts[n].qid = rs[n].qid
  BY LostChosen DEF Under
<1>4. \A keys \in SUBSET RecordKeys :
        /\ Having(rs, Under(rs, d), keys) = Under(rs, d)
        /\ Having(ts, Under(ts, d), keys) = IF keys \cap lost = {} THEN Under(rs, d) ELSE {}
  <2> TAKE keys \in SUBSET RecordKeys
  <2>1. \A n \in Under(rs, d) : DOMAIN rs[n] = RecordKeys /\ DOMAIN ts[n] = RecordKeys \ lost
    BY <1>3 DEF Complete, Without
  <2>2. Having(rs, Under(rs, d), keys) = Under(rs, d)
    BY <2>1 DEF Having
  <2>3. CASE keys \cap lost = {}
    <3>1. \A n \in Under(rs, d) : keys \subseteq DOMAIN ts[n]
      BY <2>1, <2>3
    <3> QED
      BY <1>3, <2>2, <2>3, <3>1 DEF Having
  <2>4. CASE keys \cap lost # {}
    <3>1. \A n \in Under(rs, d) : ~(keys \subseteq DOMAIN ts[n])
      BY <2>1, <2>4
    <3> QED
      BY <1>3, <2>2, <2>4, <3>1 DEF Having
  <2> QED
    BY <2>3, <2>4
<1>5. {"matched", "own"} \in SUBSET RecordKeys /\ {"abstained"} \in SUBSET RecordKeys
  BY DEF RecordKeys, ScanKeys
<1>6. "abstained" \in lost => ~(A(ts).of > 0)
  <2> HAVE "abstained" \in lost
  <2>1. H2(ts) = {}
    BY <1>4, <1>5
  <2>2. A(ts).of = Cardinality({})
    BY <2>1 DEF Metric
  <2> HIDE DEF A
  <2> QED
    BY <2>2, FS_EmptySet
<1>7. "abstained" \notin lost => A(ts) = A(rs)
  <2> HAVE "abstained" \notin lost
  <2>1. H2(ts) = Under(rs, d) /\ H2(rs) = Under(rs, d)
    BY <1>4, <1>5
  <2>2. \A n \in Under(rs, d) : ts[n].abstained = rs[n].abstained
    BY <1>3, <1>5
  <2>3. {n \in H2(ts) : ts[n].abstained} = {n \in H2(rs) : rs[n].abstained}
    BY <2>1, <2>2
  <2> HIDE DEF H2
  <2> QED
    BY <2>1, <2>3
<1>8. {"matched", "own"} \cap lost # {} => ~(B(ts).of > 0) /\ ~(C(ts).of > 0)
  <2> HAVE {"matched", "own"} \cap lost # {}
  <2>1. H1(ts) = {}
    BY <1>4, <1>5
  <2>2. B(ts).of = Cardinality({}) /\ C(ts).of = Cardinality({})
    BY <2>1 DEF Metric
  <2> HIDE DEF B, C
  <2> QED
    BY <2>2, FS_EmptySet
<1>9. {"matched", "own"} \cap lost = {} => B(ts) = B(rs) /\ C(ts) = C(rs)
  <2> HAVE {"matched", "own"} \cap lost = {}
  <2>1. H1(ts) = Under(rs, d) /\ H1(rs) = Under(rs, d)
    BY <1>4, <1>5
  <2>2. \A n \in Under(rs, d) : ts[n].matched = rs[n].matched /\ ts[n].own = rs[n].own /\ ts[n].qid = rs[n].qid
    BY <1>3, <1>5
  <2>3. \A n \in Under(rs, d) : Competing(ts[n]) = Competing(rs[n]) /\ CrossQuestion(ts[n]) = CrossQuestion(rs[n])
    BY <2>2 DEF Competing, CrossQuestion, Foreign
  <2>4. /\ {n \in H1(ts) : Competing(ts[n]) # {}} = {n \in H1(rs) : Competing(rs[n]) # {}}
        /\ {n \in H1(ts) : CrossQuestion(ts[n]) # {}} = {n \in H1(rs) : CrossQuestion(rs[n]) # {}}
    BY <2>1, <2>3
  <2> HIDE DEF H1
  <2> QED
    BY <2>1, <2>4
<1>10. /\ "abstained" \in Evidence(A(rs))
       /\ {"matched", "own"} \subseteq Evidence(B(rs)) /\ {"matched", "own"} \subseteq Evidence(C(rs))
  <2>1. /\ A(rs).name = "attack_abstention_rate" /\ B(rs).name = "attack_competition_rate"
        /\ C(rs).name = "cross_question_contamination_rate"
    BY DEF Metric
  <2>2. {"abstained", "matched", "own"} \subseteq ScanKeys
    BY DEF ScanKeys
  <2> HIDE DEF A, B, C
  <2> QED
    BY <2>1, <2>2 DEF Evidence
<1> HIDE DEF A, B, C
<1>11. \A m \in ConditionMetrics(ts, cleans, screened, d) :
         m.of > 0 => m \in ConditionMetrics(rs, cleans, screened, d)
  BY <1>1, <1>2, <1>6, <1>7, <1>8, <1>9
<1>12. \A m \in ConditionMetrics(rs, cleans, screened, d) :
         Evidence(m) \cap lost = {} => m \in ConditionMetrics(ts, cleans, screened, d)
  BY <1>1, <1>2, <1>7, <1>9, <1>10
<1> QED
  BY <1>11, <1>12

\* What is summed up of what a writer recorded was measured in the run, and of
\* this only what its record is no evidence of is missing.
LEMMA RecordedMetrics ==
  ASSUME NEW writer \in Writers, NEW D, NEW rs, Complete(rs), NEW cleans, NEW screened
  PROVE  LET ms == SecurityMetrics(D, rs, cleans, screened)
             ns == SecurityMetrics(D, Recorded(writer, rs), cleans, Sampled(writer, screened))
         IN  /\ ns \subseteq ms
             /\ \A m \in ms \ ns :
                  ~(Evidence(m) \subseteq writer.scanned \cup IF writer.version < 5 THEN {} ELSE {"screens"})
<1> DEFINE lost == ScanKeys \ writer.scanned
           ts == Recorded(writer, rs)
           ss == Sampled(writer, screened)
           ms == SecurityMetrics(D, rs, cleans, screened)
           ns == SecurityMetrics(D, ts, cleans, ss)
           Screen(m) == m.name = "defense_clean_screen_rate"
<1>1. ss = screened \/ (ss = {} /\ writer.version < 5)
  BY DEF Sampled
<1>2. lost \in SUBSET ScanKeys /\ ts = [n \in DOMAIN rs |-> Without(rs[n], lost)]
  BY DEF Recorded
<1> HIDE DEF ts, ss, lost
<1>3. DOMAIN ts = DOMAIN rs /\ (\A n \in DOMAIN rs : ts[n].type = rs[n].type)
      /\ \A d : Under(ts, d) = Under(rs, d)
  BY <1>2, LostChosen
<1>4. \A m \in ns : m \in ms
  <2> TAKE m \in ns
  <2>1. /\ m.of > 0
        /\ \/ \E n \in DOMAIN rs : m \in TypeMetrics(D, ts, rs[n].type)
           \/ \E d \in D : Under(rs, d) # {} /\ m \in ConditionMetrics(ts, cleans, ss, d)
    BY <1>3, SecurityMetricsAre
  <2>2. \A d : m \in ConditionMetrics(ts, cleans, ss, d) => m \in ConditionMetrics(ts, cleans, screened, d)
    BY <1>1, <2>1, UnsampledCondition
  <2>3. \A d : m \in ConditionMetrics(ts, cleans, screened, d) => m \in ConditionMetrics(rs, cleans, screened, d)
    BY <1>2, <2>1, LostCondition
  <2>4. \A t : m \in TypeMetrics(D, ts, t) => m \in TypeMetrics(D, rs, t)
    BY <1>2, <2>1, LostType
  <2>5. \/ \E n \in DOMAIN rs : m \in TypeMetrics(D, rs, rs[n].type)
        \/ \E d \in D : Under(rs, d) # {} /\ m \in ConditionMetrics(rs, cleans, screened, d)
    BY <2>1, <2>2, <2>3, <2>4
  <2> QED
    BY <2>1, <2>5, SecurityMetricsAre
<1>5. \A m \in ms : Evidence(m) \cap lost = {} /\ (Screen(m) => ss = screened) => m \in ns
  <2> TAKE m \in ms
  <2> HAVE Evidence(m) \cap lost = {} /\ (Screen(m) => ss = screened)
  <2>1. /\ m.of > 0
        /\ \/ \E n \in DOMAIN rs : m \in TypeMetrics(D, rs, rs[n].type)
           \/ \E d \in D : Under(rs, d) # {} /\ m \in ConditionMetrics(rs, cleans, screened, d)
    BY SecurityMetricsAre
  <2>2. \A t : m \in TypeMetrics(D, rs, t) => m \in TypeMetrics(D, ts, t)
    BY <1>2, LostType
  <2>3. \A d : m \in ConditionMetrics(rs, cleans, screened, d) => m \in ConditionMetrics(ts, cleans, screened, d)
    BY <1>2, LostCondition
  <2>4. \A d : m \in ConditionMetrics(ts, cleans, screened, d) => m \in ConditionMetrics(ts, cleans, ss, d)
    BY <1>1, UnsampledCondition
  <2>5. \/ \E n \in DOMAIN ts : m \in TypeMetrics(D, ts, ts[n].type)
        \/ \E d \in D : Under(ts, d) # {} /\ m \in ConditionMetrics(ts, cleans, ss, d)
    BY <1>3, <2>1, <2>2, <2>3, <2>4
  <2> QED
    BY <2>1, <2>5, SecurityMetricsAre
<1> HIDE DEF ms, ns
<1>6. \A m \in ms \ ns :
        ~(Evidence(m) \subseteq writer.scanned \cup IF writer.version < 5 THEN {} ELSE {"screens"})
  <2> TAKE m \in ms \ ns
  <2>1. "screens" \notin ScanKeys
    BY DEF ScanKeys
  <2>2. CASE Evidence(m) \cap lost # {}
    BY <2>1, <2>2 DEF lost
  <2>3. CASE Screen(m) /\ ss # screened
    <3>1. "screens" \in Evidence(m)
      BY <2>3 DEF Evidence
    <3>2. writer.version < 5
      BY <1>1, <2>3
    <3>3. writer.scanned \subseteq ScanKeys
      BY DEF Writers
    <3> QED
      BY <2>1, <3>1, <3>2, <3>3
  <2> QED
    BY <1>5, <2>2, <2>3
<1> QED
  BY <1>4, <1>6 DEF ms, ns, ts, ss

-----------------------------------------------------------------------------
(* The inductive invariant.                                                *)

Planning == phase \in {"load", "poison", "injection", "canary"}

\* The order of the phases, and what none of them has begun yet.
Staged ==
  /\ config \in Configs /\ (Planning \/ Planned)
  /\ phase \in {"poison", "injection", "control", "read"} => Security
  /\ phase = "canary" => ~Security
  /\ IsSeq(planted) /\ (phase \in {"poison", "injection"} => IsSeq(todo))
  /\ phase = "load" => planted = <<>>
  /\ Planning => records = <<>>
  /\ Planning \/ phase = "embed" => flight = None

\* The placer knows every path there is, and every path given was new.
Placing ==
  /\ phase \in {"poison", "injection", "canary"} =>
       placer = [taken |-> Others(Len(planted) + 1), dirs |-> IF Homes = {} THEN {""} ELSE Homes]
  /\ phase = "canary" => \A n \in DOMAIN planted : planted[n].type = "canary"
  /\ PlantedPathsFresh

\* No question is attacked twice, nor is one chosen twice or after its attack.
Spread ==
  Security /\ config.disjoint =>
    /\ \A m, n \in DOMAIN planted : planted[m].qid = planted[n].qid => m = n
    /\ phase \in {"poison", "injection"} =>
         \A n \in DOMAIN todo :
           /\ \A m \in DOMAIN planted : planted[m].qid # todo[n]
           /\ \A m \in DOMAIN todo : todo[m] = todo[n] => m = n

\* A trial, under way or recorded, is one of an attack that is indexed, and so
\* are the markers it matched.
Traced ==
  Security =>
    /\ ~Planning => live = planted
    /\ phase = "trial" /\ flight # None => flight.of.attack \in ToSet(live)
    /\ \A n \in DOMAIN records :
         /\ \E a \in ToSet(live) : records[n].own = a.marker /\ records[n].qid = a.qid
         /\ \A x \in records[n].matched : \E a \in ToSet(live) :
              x.marker = a.marker /\ x.qid = a.qid

\* The records are complete, and the metrics are those of the records.
Summed ==
  /\ IsSeq(records) /\ Complete(records)
  /\ phase \in {"done", "read"} /\ Security =>
       metrics = SecurityMetrics(Conditions, records, controls, screens)

-----------------------------------------------------------------------------
(* Targets and jobs.                                                       *)

\* There are finitely many questions.
LEMMA FiniteQuestions == IsFiniteSet(Questions) /\ Cardinality(Questions) \in Nat
<1>1. DOMAIN Qids = 1..Len(Qids) /\ Len(Qids) \in Nat
  BY PlacementAssumption
<1>2. IsFiniteSet(1..Len(Qids))
  BY <1>1, FS_Interval
<1>3. Qids \in Surjection(1..Len(Qids), Questions)
  BY <1>1, PlacementAssumption DEF Surjection, Questions, ToSet
<1>4. IsFiniteSet(Questions)
  BY <1>2, <1>3, FS_Surjection
<1> QED
  BY <1>4, FS_CardinalityType

\* A set of questions in the order of their qids has each of them once.
LEMMA ByQidIs ==
  ASSUME NEW S \in SUBSET Questions, NEW s \in ByQid(S)
  PROVE  /\ IsSeq(s) /\ \A n \in DOMAIN s : s[n] \in S
         /\ \A m, n \in DOMAIN s : s[m] = s[n] => m = n
         /\ Len(s) <= Cardinality(Questions)
<1> DEFINE Rank(q) == CHOOSE n \in DOMAIN Qids : Qids[n] = q
<1>1. DOMAIN Qids = 1..Len(Qids) /\ Len(Qids) \in Nat
  BY PlacementAssumption
<1>2. \A q \in Questions : Rank(q) \in 1..Len(Qids)
  BY <1>1 DEF Questions, ToSet
<1>3. IsFiniteSet(Questions)
  BY FiniteQuestions
<1>4. Cardinality(S) \in Nat
  BY <1>3, FS_Subset, FS_CardinalityType
<1>5. /\ s \in [1..Cardinality(S) -> S]
      /\ \A a, b \in DOMAIN s : a < b => Rank(s[a]) < Rank(s[b])
  BY DEF ByQid
<1> HIDE DEF Rank
<1>6. IsSeq(s)
  BY <1>4, <1>5, SeqDef, SequenceIs
<1>7. \A n \in DOMAIN s : s[n] \in S
  BY <1>5
<1>8. \A m, n \in DOMAIN s : m < n => s[m] # s[n]
  BY <1>2, <1>5, <1>7
<1>9. \A m, n \in DOMAIN s : s[m] = s[n] => m = n
  <2>1. DOMAIN s \subseteq Int
    BY <1>4, <1>5
  <2> QED
    BY <1>8, <2>1
<1>10. Len(s) = Cardinality(S) /\ Cardinality(S) <= Cardinality(Questions)
  BY <1>3, <1>4, <1>5, <1>6, FS_Subset DEF IsSeq
<1> QED
  BY <1>6, <1>7, <1>9, <1>10

\* Chosen targets are questions of the pool, each once.
LEMMA ChosenIs ==
  ASSUME NEW pool \in SUBSET Questions, NEW want, NEW s \in Chosen(pool, want)
  PROVE  /\ IsSeq(s) /\ \A n \in DOMAIN s : s[n] \in pool
         /\ \A m, n \in DOMAIN s : s[m] = s[n] => m = n
         /\ Len(s) <= Cardinality(Questions)
<1>1. CASE want.enabled
  <2>1. PICK S \in Targets(pool, want.targets) : s \in ByQid(S)
    BY <1>1 DEF Chosen
  <2>2. S \in SUBSET pool
    BY DEF Targets
  <2> QED
    BY <2>1, <2>2, ByQidIs
<1>2. CASE ~want.enabled
  <2>1. s = <<>>
    BY <1>2 DEF Chosen
  <2>2. IsSeq(s) /\ Len(s) <= Cardinality(Questions)
    BY <2>1, FiniteQuestions DEF IsSeq
  <2> QED
    BY <2>1, <2>2
<1> QED
  BY <1>1, <1>2

\* A trial is one of an attack that is indexed.
LEMMA JobsAre ==
  ASSUME config \in Configs, IsSeq(live)
  PROVE  IsSeq(Jobs) /\ \A n \in 1..Len(Jobs) : Jobs[n].attack \in ToSet(live)
<1> DEFINE A == ToSet(live)
           S == [attack : A, defense : ToSet(config.defenses), style : 1..config.probes]
           Tried(d) == FlattenSeq([n \in DOMAIN live |->
             [p \in 1..config.probes |-> [attack |-> live[n], defense |-> d, style |-> p]]])
<1>1. /\ config.defenses \in Seq(ToSet(config.defenses)) /\ config.probes \in Nat
  BY ConfigsAssumption
<1>2. ASSUME NEW d \in ToSet(config.defenses) PROVE Tried(d) \in Seq(S)
  <2> DEFINE Probed(n) == [p \in 1..config.probes |-> [attack |-> live[n], defense |-> d, style |-> p]]
             tried == [n \in DOMAIN live |-> Probed(n)]
  <2>1. DOMAIN live = 1..Len(live) /\ Len(live) \in Nat /\ \A n \in DOMAIN live : live[n] \in A
    BY DEF IsSeq, ToSet
  <2>2. \A n \in DOMAIN live : Probed(n) \in Seq(S)
    <3> TAKE n \in DOMAIN live
    <3>1. live[n] \in A
      BY <2>1
    <3>2. Probed(n) \in [1..config.probes -> S]
      BY <3>1
    <3> HIDE DEF S, Probed
    <3> QED
      BY <1>1, <3>2, SeqDef
  <2>3. tried \in Seq(Seq(S))
    <3> HIDE DEF S, Probed
    <3>1. tried \in [1..Len(live) -> Seq(S)]
      BY <2>1, <2>2
    <3> HIDE DEF tried
    <3> QED
      BY <2>1, <3>1, SeqDef
  <2>4. FlattenSeq(tried) \in Seq(S)
    <3> HIDE DEF S, tried
    <3> QED
      BY <2>3, Flattened
  <2> QED
    BY <2>4
<1> DEFINE all == [d \in DOMAIN config.defenses |-> Tried(config.defenses[d])]
<1> HIDE DEF S, Tried
<1>3. all \in Seq(Seq(S))
  <2>1. /\ DOMAIN config.defenses = 1..Len(config.defenses) /\ Len(config.defenses) \in Nat
        /\ \A d \in DOMAIN config.defenses : config.defenses[d] \in ToSet(config.defenses)
    BY <1>1 DEF ToSet
  <2>2. all \in [1..Len(config.defenses) -> Seq(S)]
    BY <1>2, <2>1
  <2> HIDE DEF all
  <2> QED
    BY <2>1, <2>2, SeqDef
<1>4. Jobs = FlattenSeq(all)
  BY DEF Jobs, Tried
<1> HIDE DEF all
<1>5. Jobs \in Seq(S)
  BY <1>3, <1>4, Flattened
<1>6. IsSeq(Jobs) /\ \A n \in 1..Len(Jobs) : Jobs[n] \in S
  BY <1>5, SequenceIs
<1> QED
  BY <1>6 DEF S

\* The trial that is next is one of a live attack.
LEMMA JobIs ==
  ASSUME config \in Configs, IsSeq(live), IsSeq(records), Len(records) < Len(Jobs)
  PROVE  Job.attack \in ToSet(live)
<1>1. Len(records) \in Nat /\ Len(Jobs) \in Nat
  BY JobsAre DEF IsSeq
<1>2. Len(records) + 1 \in 1..Len(Jobs)
  BY <1>1
<1> QED
  BY <1>2, JobsAre DEF Job

-----------------------------------------------------------------------------
(* The invariant is one of every step.                                     *)

\* The suite and its configuration stay.
LEMMA SuiteStays ==
  ASSUME [Next]_vars
  PROVE  config' = config /\ Security' = Security
<1>1. config' = config
  <2>1. CASE Load
    BY <2>1 DEF Load
  <2>2. CASE Plant
    BY <2>2 DEF Plant
  <2>3. CASE BeginInjection
    BY <2>3 DEF BeginInjection
  <2>4. CASE AttacksPlanned
    BY <2>4 DEF AttacksPlanned
  <2>5. CASE CanariesPlanned
    BY <2>5 DEF CanariesPlanned
  <2>6. CASE Embed
    BY <2>6 DEF Embed
  <2>7. CASE Ask
    BY <2>7 DEF Ask
  <2>8. CASE Answered
    BY <2>8 DEF Answered
  <2>9. CASE BeginControls
    BY <2>9 DEF BeginControls
  <2>10. CASE Control
    BY <2>10 DEF Control
  <2>11. CASE Controlled
    BY <2>11 DEF Controlled
  <2>12. CASE Aggregate
    BY <2>12 DEF Aggregate
  <2>13. CASE AggregatePrivacy
    BY <2>13 DEF AggregatePrivacy
  <2>14. CASE ReadBack
    BY <2>14 DEF ReadBack
  <2>15. CASE UNCHANGED vars
    BY <2>15 DEF vars
  <2> QED
    BY <2>1, <2>2, <2>3, <2>4, <2>5, <2>6, <2>7, <2>8, <2>9, <2>10, <2>11, <2>12, <2>13, <2>14, <2>15 DEF Next
<1> QED
  BY <1>1 DEF Security

\* A trial under way is of the suite's plan, and leaves it alone.
LEMMA StagedStep ==
  ASSUME Staged, IsSeq(records), [Next]_vars
  PROVE  Staged'
<1> USE DEF Staged
<1>0. config' = config /\ Security' = Security
  BY SuiteStays
<1>1. CASE Load
  <2>1. planted' = planted /\ records' = records /\ flight' = flight /\ planted = <<>>
        /\ records = <<>> /\ flight = None
    BY <1>1 DEF Load, Planning
  <2>2. CASE Security
    <3>1. phase' = "poison" /\ todo' \in Chosen(Questions, config.poisoning)
      BY <1>1, <2>2 DEF Load
    <3>2. IsSeq(todo')
      BY <3>1, ChosenIs
    <3> QED
      BY <1>0, <2>1, <2>2, <3>1, <3>2 DEF Planning, Planned, Done, IsSeq
  <2>3. CASE ~Security
    <3>1. phase' = "canary"
      BY <1>1, <2>3 DEF Load
    <3> QED
      BY <1>0, <2>1, <2>3, <3>1 DEF Planning, Planned, Done, IsSeq
  <2> QED
    BY <2>2, <2>3
<1>2. CASE Plant
  <2>1. /\ phase \in {"poison", "injection", "canary"} /\ phase' = phase /\ todo # <<>>
        /\ todo' = Tail(todo) /\ records' = records /\ flight' = flight
        /\ \E e : planted' = Append(planted, e)
    BY <1>2 DEF Plant
  <2>2. IsSeq(planted')
    BY <2>1, Appended
  <2>3. phase \in {"poison", "injection"} => IsSeq(todo')
    BY <2>1, TailIs
  <2> QED
    BY <1>0, <2>1, <2>2, <2>3 DEF Planning, Planned, Done, IsSeq
<1>3. CASE BeginInjection
  <2>1. /\ phase = "poison" /\ phase' = "injection" /\ planted' = planted
        /\ records' = records /\ flight' = flight
        /\ todo' \in Chosen(InjectionPool, config.injection)
    BY <1>3 DEF BeginInjection
  <2>2. InjectionPool \in SUBSET Questions
    BY DEF InjectionPool
  <2>3. IsSeq(todo')
    BY <2>1, <2>2, ChosenIs
  <2> QED
    BY <1>0, <2>1, <2>3 DEF Planning, Planned, Done, IsSeq
<1>4. CASE AttacksPlanned
  BY <1>0, <1>4 DEF AttacksPlanned, Planning, Planned, Done, IsSeq, plan, results
<1>5. CASE CanariesPlanned
  BY <1>0, <1>5 DEF CanariesPlanned, Planning, Planned, Done, IsSeq, plan, results
<1>6. CASE Embed
  BY <1>0, <1>6 DEF Embed, Planning, Planned, Done, IsSeq, plan, results
<1>7. CASE Ask
  BY <1>0, <1>7 DEF Ask, Planning, Planned, Done, IsSeq, plan, results
<1>8. CASE Answered
  BY <1>0, <1>8 DEF Answered, Planning, Planned, Done, IsSeq, plan, results
<1>9. CASE BeginControls
  BY <1>0, <1>9 DEF BeginControls, Planning, Planned, Done, IsSeq, plan, results
<1>10. CASE Control
  BY <1>0, <1>10 DEF Control, Planning, Planned, Done, IsSeq, plan, results
<1>11. CASE Controlled
  BY <1>0, <1>11 DEF Controlled, Planning, Planned, Done, IsSeq, plan, results
<1>12. CASE Aggregate
  BY <1>0, <1>12 DEF Aggregate, Planning, Planned, Done, IsSeq, plan, results
<1>13. CASE AggregatePrivacy
  BY <1>0, <1>13 DEF AggregatePrivacy, Planning, Planned, Done, IsSeq, plan, results
<1>14. CASE ReadBack
  BY <1>0, <1>14 DEF ReadBack, Planning, Planned, Done, IsSeq, plan, results
<1>15. CASE UNCHANGED vars
  BY <1>0, <1>15 DEF vars, plan, results, Planning, Planned, Done, IsSeq
<1> QED
  BY <1>1, <1>2, <1>3, <1>4, <1>5, <1>6, <1>7, <1>8, <1>9, <1>10, <1>11, <1>12, <1>13, <1>14, <1>15 DEF Next

\* A record of a trial has the keys of one.
LEMMA RecordIs ==
  ASSUME NEW job, NEW text
  PROVE  Record(job, text) = [k \in RecordKeys |-> Record(job, text)[k]]
<1> DEFINE r == Record(job, text)
<1>1. r = [k \in DOMAIN r |-> r[k]] /\ DOMAIN r = RecordKeys
  BY DEF Record, RecordKeys, ScanKeys
<1> QED
  BY <1>1

\* A step keeps the metrics those of the records.
LEMMA SummedStep ==
  ASSUME Staged, Summed, [Next]_vars
  PROVE  Summed'
<1>0. config' = config /\ Security' = Security /\ Conditions' = Conditions
  BY SuiteStays DEF Conditions
<1>1. CASE Answered
  <2>1. PICK text \in Texts : records' = Append(records, Record(flight.of, text))
    BY <1>1 DEF Answered
  <2>2. phase' \notin {"done", "read"}
    BY <1>1 DEF Answered
  <2> DEFINE r == Record(flight.of, text)
             rs == Append(records, r)
  <2>3. r = [k \in RecordKeys |-> r[k]]
    BY RecordIs
  <2> HIDE DEF r
  <2>4. /\ IsSeq(rs) /\ DOMAIN records = 1..Len(records) /\ Len(records) \in Nat
        /\ DOMAIN rs = 1..Len(records) + 1
        /\ (\A n \in DOMAIN records : rs[n] = records[n]) /\ rs[Len(records) + 1] = r
    BY Appended DEF Summed
  <2> HIDE DEF rs
  <2>5. \A n \in DOMAIN rs : rs[n] = [k \in RecordKeys |-> rs[n][k]]
    <3> TAKE n \in DOMAIN rs
    <3>1. CASE n = Len(records) + 1
      BY <2>3, <2>4, <3>1
    <3>2. CASE n # Len(records) + 1
      <4>1. n \in DOMAIN records
        BY <2>4, <3>2
      <4> QED
        BY <2>4, <4>1 DEF Summed, Complete
    <3> QED
      BY <3>1, <3>2
  <2>6. rs = [n \in DOMAIN rs |-> rs[n]]
    BY <2>4 DEF IsSeq
  <2>7. Complete(rs)
    BY <2>5, <2>6 DEF Complete
  <2>8. records' = rs
    BY <2>1 DEF rs, r
  <2> QED
    BY <2>2, <2>4, <2>7, <2>8 DEF Summed
<1>2. ASSUME records' = records,
             phase' \in {"done", "read"} /\ Security =>
               metrics' = SecurityMetrics(Conditions, records, controls', screens')
      PROVE  Summed'
  BY <1>0, <1>2 DEF Summed
<1>3. CASE Load
  <2>1. records' = records /\ ~(phase' \in {"done", "read"} /\ Security)
    BY <1>3 DEF Load, Staged
  <2> QED
    BY <1>2, <2>1
<1>4. CASE Plant
  <2>1. records' = records /\ ~(phase' \in {"done", "read"} /\ Security)
    BY <1>4 DEF Plant, Staged
  <2> QED
    BY <1>2, <2>1
<1>5. CASE BeginInjection
  <2>1. records' = records /\ ~(phase' \in {"done", "read"} /\ Security)
    BY <1>5 DEF BeginInjection, Staged
  <2> QED
    BY <1>2, <2>1
<1>6. CASE AttacksPlanned
  <2>1. records' = records /\ ~(phase' \in {"done", "read"} /\ Security)
    BY <1>6 DEF AttacksPlanned, Staged
  <2> QED
    BY <1>2, <2>1
<1>7. CASE CanariesPlanned
  <2>1. records' = records /\ ~(phase' \in {"done", "read"} /\ Security)
    BY <1>7 DEF CanariesPlanned, Staged
  <2> QED
    BY <1>2, <2>1
<1>8. CASE Embed
  <2>1. records' = records /\ ~(phase' \in {"done", "read"} /\ Security)
    BY <1>8 DEF Embed, Staged
  <2> QED
    BY <1>2, <2>1
<1>9. CASE Ask
  <2>1. records' = records /\ ~(phase' \in {"done", "read"} /\ Security)
    BY <1>9 DEF Ask, Staged
  <2> QED
    BY <1>2, <2>1
<1>10. CASE BeginControls
  <2>1. records' = records /\ ~(phase' \in {"done", "read"} /\ Security)
    BY <1>10 DEF BeginControls, Staged
  <2> QED
    BY <1>2, <2>1
<1>11. CASE Control
  <2>1. records' = records /\ ~(phase' \in {"done", "read"} /\ Security)
    BY <1>11 DEF Control, Staged
  <2> QED
    BY <1>2, <2>1
<1>12. CASE Controlled
  <2>1. records' = records /\ ~(phase' \in {"done", "read"} /\ Security)
    BY <1>12 DEF Controlled, Staged
  <2> QED
    BY <1>2, <2>1
<1>13. CASE Aggregate
  <2>1. /\ records' = records /\ controls' = controls
        /\ metrics' = SecurityMetrics(Conditions, records, controls, screens')
    BY <1>13 DEF Aggregate
  <2> QED
    BY <1>2, <2>1
<1>14. CASE AggregatePrivacy
  <2>1. records' = records /\ ~(phase' \in {"done", "read"} /\ Security)
    BY <1>14 DEF AggregatePrivacy, Staged
  <2> QED
    BY <1>2, <2>1
<1>15. CASE ReadBack
  <2>1. /\ records' = records /\ controls' = controls /\ screens' = screens /\ metrics' = metrics
        /\ phase = "done"
    BY <1>15 DEF ReadBack
  <2> QED
    BY <1>2, <2>1 DEF Summed
<1>16. CASE UNCHANGED vars
  <2>1. /\ records' = records /\ phase' = phase /\ controls' = controls
        /\ screens' = screens /\ metrics' = metrics
    BY <1>16 DEF vars, results
  <2>2. phase \in {"done", "read"} /\ Security =>
          metrics = SecurityMetrics(Conditions, records, controls, screens)
    BY DEF Summed
  <2> QED
    BY <1>2, <2>1, <2>2
<1> QED
  BY <1>1, <1>3, <1>4, <1>5, <1>6, <1>7, <1>8, <1>9, <1>10, <1>11, <1>12, <1>13, <1>14, <1>15, <1>16 DEF Next

\* A step reads back only what was recorded.
LEMMA RereadStep ==
  ASSUME Staged, Summed, RereadNeverInvents, [Next]_vars
  PROVE  RereadNeverInvents'
<1>0. config' = config /\ Security' = Security /\ Conditions' = Conditions
  BY SuiteStays DEF Conditions
<1>1. CASE ReadBack
  <2>1. phase = "done" /\ Security
    BY <1>1 DEF ReadBack
  <2> DEFINE Trial(w) == Recorded(w, records)
             Sample_(w) == Sampled(w, screens)
             Ms(w) == SecurityMetrics(Conditions, Trial(w), controls, Sample_(w))
             Raw(w) == Written(w, Trial(w), Sample_(w), Ms(w))
  <2>2. PICK w \in Writers :
          file' = IF Readable(Raw(w)) THEN [is |-> "read", writer |-> w, result |-> Migrated(Raw(w))]
                  ELSE [is |-> "refused", writer |-> w]
    BY <1>1 DEF ReadBack
  <2>3. controls' = controls /\ metrics' = metrics
    BY <1>1 DEF ReadBack
  <2>4. metrics = SecurityMetrics(Conditions, records, controls, screens) /\ Complete(records)
    BY <2>1 DEF Summed
  <2>5. Trials(Trial(w))
    <3> DEFINE lost == ScanKeys \ w.scanned
    <3>1. Trial(w) = [n \in DOMAIN records |-> Without(records[n], lost)]
      BY DEF Recorded
    <3>2. \A n \in DOMAIN records : DOMAIN records[n] = RecordKeys
      BY <2>4 DEF Complete
    <3> HIDE DEF lost
    <3> QED
      BY <3>1, <3>2 DEF Trials, Without
  <2>6. Measured(Ms(w))
    BY MetricsMeasured
  <2>7. /\ Ms(w) \subseteq metrics
        /\ \A m \in metrics \ Ms(w) :
             ~(Evidence(m) \subseteq w.scanned \cup IF w.version < 5 THEN {} ELSE {"screens"})
    BY <2>4, RecordedMetrics
  <2>8. w.version \in 1..7
    BY DEF Writers, ResultSchemaVersion
  <2> HIDE DEF Trial, Sample_, Ms
  <2>9. CASE w.version \in 1..6
    <3>1. /\ Migrated(Raw(w)).records = Trial(w) /\ Migrated(Raw(w)).screens = Sample_(w)
          /\ Migrated(Raw(w)).metrics = Ms(w)
          /\ Readable(Raw(w))
      BY <2>5, <2>6, <2>9, MigratedHolds
    <3> HIDE DEF Raw
    <3>2. file' = [is |-> "read", writer |-> w, result |-> Migrated(Raw(w))]
      BY <2>2, <3>1
    <3>3. /\ file'.is = "read" /\ file'.writer = w /\ file'.result.records = Trial(w)
          /\ file'.result.screens = Sample_(w) /\ file'.result.metrics = Ms(w)
      BY <3>1, <3>2
    <3>4. Ms(w) = SecurityMetrics(Conditions, Trial(w), controls, Sample_(w))
      BY DEF Ms
    <3> QED
      BY <1>0, <2>3, <2>7, <2>9, <3>3, <3>4 DEF RereadNeverInvents, ResultSchemaVersion
  <2>10. CASE w.version = 7
    <3>1. VersionOf(Raw(w)) = 7
      <4>1. Raw(w).schema_version = 7 /\ "schema_version" \in DOMAIN Raw(w)
        BY <2>10, NewerIs
      <4> QED
        BY <4>1 DEF VersionOf
    <3>2. ~Readable(Raw(w))
      BY <3>1 DEF Readable, Unversioned, ResultSchemaVersion
    <3> HIDE DEF Raw
    <3>3. file'.is = "refused" /\ file'.writer = w
      BY <2>2, <3>2
    <3> QED
      BY <2>10, <3>3 DEF RereadNeverInvents, ResultSchemaVersion
  <2> QED
    BY <2>8, <2>9, <2>10
<1>2. CASE UNCHANGED vars
  <2>1. /\ phase' = phase /\ file' = file /\ metrics' = metrics /\ controls' = controls
    BY <1>2 DEF vars, results
  <2> QED
    BY <1>0, <2>1 DEF RereadNeverInvents
<1>3. ASSUME phase' # "read" PROVE RereadNeverInvents'
  BY <1>3 DEF RereadNeverInvents
<1>4. CASE Load
  BY <1>3, <1>4 DEF Load
<1>5. CASE Plant
  BY <1>3, <1>5 DEF Plant
<1>6. CASE BeginInjection
  BY <1>3, <1>6 DEF BeginInjection
<1>7. CASE AttacksPlanned
  BY <1>3, <1>7 DEF AttacksPlanned
<1>8. CASE CanariesPlanned
  BY <1>3, <1>8 DEF CanariesPlanned
<1>9. CASE Embed
  BY <1>3, <1>9 DEF Embed
<1>10. CASE Ask
  BY <1>3, <1>10 DEF Ask
<1>11. CASE Answered
  BY <1>3, <1>11 DEF Answered
<1>12. CASE BeginControls
  BY <1>3, <1>12 DEF BeginControls
<1>13. CASE Control
  BY <1>3, <1>13 DEF Control
<1>14. CASE Controlled
  BY <1>3, <1>14 DEF Controlled
<1>15. CASE Aggregate
  BY <1>3, <1>15 DEF Aggregate
<1>16. CASE AggregatePrivacy
  BY <1>3, <1>16 DEF AggregatePrivacy
<1> QED
  BY <1>1, <1>2, <1>4, <1>5, <1>6, <1>7, <1>8, <1>9, <1>10, <1>11, <1>12, <1>13, <1>14, <1>15, <1>16 DEF Next

\* A record says what was planted by an attack that is indexed.
LEMMA RecordTraced ==
  ASSUME NEW job, NEW text, job.attack \in ToSet(live)
  PROVE  LET r == Record(job, text) IN
         /\ \E a \in ToSet(live) : r.own = a.marker /\ r.qid = a.qid
         /\ \A x \in r.matched : \E a \in ToSet(live) : x.marker = a.marker /\ x.qid = a.qid
<1> DEFINE r == Record(job, text)
<1>1. r.own = job.attack.marker /\ r.qid = job.attack.qid /\ r.matched = MarkersPresent(text)
  BY DEF Record
<1> HIDE DEF r
<1>2. \A x \in MarkersPresent(text) : \E a \in ToSet(live) : x.marker = a.marker /\ x.qid = a.qid
  BY DEF MarkersPresent
<1> QED
  BY <1>1, <1>2 DEF r

\* A step traces every match to an attack.
LEMMA TracedStep ==
  ASSUME Staged, Summed, Traced, [Next]_vars
  PROVE  Traced'
<1>0. config' = config /\ Security' = Security
  BY SuiteStays
<1>1. SUFFICES ASSUME Security PROVE Traced'
  BY <1>0 DEF Traced
<1> DEFINE Good(n) == /\ \E a \in ToSet(live) : records[n].own = a.marker /\ records[n].qid = a.qid
                      /\ \A x \in records[n].matched : \E a \in ToSet(live) :
                           x.marker = a.marker /\ x.qid = a.qid
<1>2. \A n \in DOMAIN records : Good(n)
  BY <1>1 DEF Traced
<1>3. ~Planning => live = planted /\ IsSeq(live)
  BY <1>1 DEF Traced, Staged
<1>4. ASSUME ~Planning' => live' = planted', records' = records,
             live' = live \/ records = <<>>,
             phase' = "trial" /\ flight' # None => flight'.of.attack \in ToSet(live')
      PROVE  Traced'
  <2>1. \A n \in DOMAIN records' : Good(n)'
    <3>1. CASE live' = live
      BY <1>2, <1>4, <3>1
    <3>2. CASE records = <<>>
      BY <1>4, <3>2
    <3> QED
      BY <1>4, <3>1, <3>2
  <2> QED
    BY <1>0, <1>4, <2>1 DEF Traced
<1>5. CASE Load
  <2>1. records' = records /\ Planning' /\ live' = live /\ phase' # "trial"
    BY <1>1, <1>5 DEF Load, Planning
  <2> QED
    BY <1>4, <2>1
<1>6. CASE Plant
  <2>1. records' = records /\ Planning' /\ live' = live /\ phase' # "trial"
    BY <1>1, <1>6 DEF Plant, Planning
  <2> QED
    BY <1>4, <2>1
<1>7. CASE BeginInjection
  <2>1. records' = records /\ Planning' /\ live' = live /\ phase' # "trial"
    BY <1>1, <1>7 DEF BeginInjection, Planning
  <2> QED
    BY <1>4, <2>1
<1>8. CASE AttacksPlanned
  <2>1. records' = records /\ live' = planted' /\ phase' # "trial" /\ records = <<>>
    BY <1>8 DEF AttacksPlanned, Staged, Planning
  <2> QED
    BY <1>4, <2>1
<1>9. CASE CanariesPlanned
  BY <1>1, <1>9 DEF CanariesPlanned, Staged
<1>10. CASE Embed
  <2>1. /\ records' = records /\ live' = live /\ planted' = planted /\ ~Planning
        /\ phase' = "trial" => flight' = None
    BY <1>10 DEF Embed, Planning, Staged, plan
  <2> QED
    BY <1>3, <1>4, <2>1
<1>11. CASE Ask
  <2>1. /\ phase = "trial" /\ Len(records) < Len(Jobs) /\ phase' = phase
        /\ records' = records /\ live' = live /\ planted' = planted
    BY <1>11 DEF Ask, plan
  <2>2. ~Planning
    BY <2>1 DEF Planning
  <2>3. flight'.of = Job
    BY <1>11 DEF Ask, Pose
  <2>4. Job.attack \in ToSet(live)
    BY <1>3, <2>1, <2>2, JobIs DEF Staged, Summed
  <2> QED
    BY <1>3, <1>4, <2>1, <2>2, <2>3, <2>4
<1>12. CASE Answered
  <2>1. PICK text \in Texts : records' = Append(records, Record(flight.of, text))
    BY <1>12 DEF Answered
  <2>2. /\ phase = "trial" /\ flight # None /\ flight' = None
        /\ live' = live /\ planted' = planted
    BY <1>12 DEF Answered, plan
  <2>3. flight.of.attack \in ToSet(live) /\ live = planted
    BY <1>1, <2>2 DEF Traced, Planning
  <2> DEFINE r == Record(flight.of, text)
  <2>4. /\ \E a \in ToSet(live) : r.own = a.marker /\ r.qid = a.qid
        /\ \A x \in r.matched : \E a \in ToSet(live) : x.marker = a.marker /\ x.qid = a.qid
    BY <2>3, RecordTraced
  <2> HIDE DEF r
  <2>5. /\ DOMAIN records' = 1..Len(records) + 1 /\ DOMAIN records = 1..Len(records)
        /\ Len(records) \in Nat
        /\ (\A m \in DOMAIN records : records'[m] = records[m]) /\ records'[Len(records) + 1] = r
    BY <2>1, Appended DEF Summed, r
  <2>6. \A m \in DOMAIN records' : Good(m)'
    <3> TAKE m \in DOMAIN records'
    <3>1. CASE m = Len(records) + 1
      BY <2>2, <2>4, <2>5, <3>1
    <3>2. CASE m # Len(records) + 1
      <4>1. m \in DOMAIN records /\ records'[m] = records[m]
        BY <2>5, <3>2
      <4> QED
        BY <1>2, <2>2, <4>1
    <3> QED
      BY <3>1, <3>2
  <2> QED
    BY <2>2, <2>3, <2>6 DEF Traced
<1>13. CASE BeginControls
  <2>1. /\ records' = records /\ live' = live /\ planted' = planted /\ ~Planning
        /\ phase' = "trial" => flight' = None
    BY <1>13 DEF BeginControls, Planning, Staged, plan
  <2> QED
    BY <1>3, <1>4, <2>1
<1>14. CASE Control
  <2>1. /\ records' = records /\ live' = live /\ planted' = planted /\ ~Planning
        /\ phase' = "trial" => flight' = None
    BY <1>14 DEF Control, Planning, Staged, plan
  <2> QED
    BY <1>3, <1>4, <2>1
<1>15. CASE Controlled
  <2>1. /\ records' = records /\ live' = live /\ planted' = planted /\ ~Planning
        /\ phase' = "trial" => flight' = None
    BY <1>15 DEF Controlled, Planning, Staged, plan
  <2> QED
    BY <1>3, <1>4, <2>1
<1>16. CASE Aggregate
  <2>1. /\ records' = records /\ live' = live /\ planted' = planted /\ ~Planning
        /\ phase' = "trial" => flight' = None
    BY <1>16 DEF Aggregate, Planning, Staged, plan
  <2> QED
    BY <1>3, <1>4, <2>1
<1>17. CASE AggregatePrivacy
  <2>1. /\ records' = records /\ live' = live /\ planted' = planted /\ ~Planning
        /\ phase' = "trial" => flight' = None
    BY <1>17 DEF AggregatePrivacy, Planning, Staged, plan
  <2> QED
    BY <1>3, <1>4, <2>1
<1>18. CASE ReadBack
  <2>1. /\ records' = records /\ live' = live /\ planted' = planted /\ ~Planning
        /\ phase' = "trial" => flight' = None
    BY <1>18 DEF ReadBack, Planning, Staged, plan
  <2> QED
    BY <1>3, <1>4, <2>1
<1>19. CASE UNCHANGED vars
  <2>1. /\ records' = records /\ live' = live /\ planted' = planted /\ phase' = phase
        /\ flight' = flight
    BY <1>19 DEF vars, plan
  <2>2. ~Planning' => live' = planted'
    BY <1>3, <2>1 DEF Planning
  <2>3. phase = "trial" /\ flight # None => flight.of.attack \in ToSet(live)
    BY <1>1 DEF Traced
  <2> QED
    BY <1>4, <2>1, <2>2, <2>3
<1> QED
  BY <1>5, <1>6, <1>7, <1>8, <1>9, <1>10, <1>11, <1>12, <1>13, <1>14, <1>15, <1>16, <1>17, <1>18, <1>19 DEF Next

\* A step spreads the attacks over the questions as planned.
LEMMA SpreadStep ==
  ASSUME Staged, Spread, [Next]_vars
  PROVE  Spread'
<1>0. config' = config /\ Security' = Security
  BY SuiteStays
<1>1. SUFFICES ASSUME Security, config.disjoint PROVE Spread'
  BY <1>0 DEF Spread
<1>2. \A m, n \in DOMAIN planted : planted[m].qid = planted[n].qid => m = n
  BY <1>1 DEF Spread
<1>3. ASSUME planted' = planted, phase' \notin {"poison", "injection"} PROVE Spread'
  BY <1>2, <1>3 DEF Spread
<1>4. CASE Load
  <2>1. /\ planted' = planted /\ planted = <<>>
        /\ todo' \in Chosen(Questions, config.poisoning)
    BY <1>1, <1>4 DEF Load, Staged
  <2>2. \A m, n \in DOMAIN todo' : todo'[m] = todo'[n] => m = n
    BY <2>1, ChosenIs
  <2> QED
    BY <2>1, <2>2 DEF Spread
<1>5. CASE Plant
  <2>1. phase \in {"poison", "injection"} /\ todo # <<>> /\ todo' = Tail(todo) /\ phase' = phase
    BY <1>1, <1>5 DEF Plant, Staged
  <2>2. PICK path : planted' = Append(planted, Generated(path))
    BY <1>5 DEF Plant
  <2> DEFINE e == Generated(path)
  <2>3. e.qid = todo[1]
    BY <2>1 DEF Generated, PoisonAttack, InjectionAttack
  <2> HIDE DEF e
  <2>4. /\ DOMAIN planted = 1..Len(planted) /\ Len(planted) \in Nat
        /\ DOMAIN planted' = 1..Len(planted) + 1
        /\ (\A m \in DOMAIN planted : planted'[m] = planted[m]) /\ planted'[Len(planted) + 1] = e
    BY <2>2, Appended DEF Staged, e
  <2>5. /\ 1 \in DOMAIN todo
        /\ \A n \in DOMAIN todo' : n + 1 \in DOMAIN todo /\ n + 1 # 1 /\ n \in Nat /\ todo'[n] = todo[n + 1]
    BY <2>1, TailIs DEF Staged
  <2>6. \A n \in DOMAIN todo :
           /\ \A m \in DOMAIN planted : planted[m].qid # todo[n]
           /\ \A m \in DOMAIN todo : todo[m] = todo[n] => m = n
    BY <1>1, <2>1 DEF Spread
  <2>7. ASSUME NEW m \in DOMAIN planted', NEW n \in DOMAIN planted', planted'[m].qid = planted'[n].qid
        PROVE  m = n
    <3>1. \A k \in DOMAIN planted' : k = Len(planted) + 1 \/ k \in DOMAIN planted
      BY <2>4
    <3>2. \A k \in DOMAIN planted : planted'[k].qid # e.qid
      BY <2>3, <2>4, <2>5, <2>6
    <3> QED
      BY <1>2, <2>4, <2>7, <3>1, <3>2
  <2>8. ASSUME NEW n \in DOMAIN todo', NEW m \in DOMAIN planted' PROVE planted'[m].qid # todo'[n]
    <3>1. CASE m = Len(planted) + 1
      BY <2>3, <2>4, <2>5, <2>6, <3>1
    <3>2. CASE m # Len(planted) + 1
      <4>1. m \in DOMAIN planted
        BY <2>4, <3>2
      <4> QED
        BY <2>4, <2>5, <2>6, <4>1
    <3> QED
      BY <3>1, <3>2
  <2>9. ASSUME NEW n \in DOMAIN todo', NEW m \in DOMAIN todo', todo'[m] = todo'[n] PROVE m = n
    <3>1. n + 1 \in DOMAIN todo /\ m + 1 \in DOMAIN todo /\ n \in Nat /\ m \in Nat
          /\ todo[m + 1] = todo[n + 1]
      BY <2>5, <2>9
    <3>2. m + 1 = n + 1
      BY <2>6, <3>1
    <3> QED
      BY <3>1, <3>2
  <2> QED
    BY <2>7, <2>8, <2>9 DEF Spread
<1>6. CASE BeginInjection
  <2>1. planted' = planted /\ todo' \in Chosen(InjectionPool, config.injection)
    BY <1>6 DEF BeginInjection
  <2>2. InjectionPool \in SUBSET Questions
        /\ InjectionPool = Questions \ {planted[n].qid : n \in DOMAIN planted}
    BY <1>1 DEF InjectionPool
  <2>3. /\ \A n \in DOMAIN todo' : todo'[n] \in InjectionPool
        /\ \A m, n \in DOMAIN todo' : todo'[m] = todo'[n] => m = n
    BY <2>1, <2>2, ChosenIs
  <2>4. \A n \in DOMAIN todo' : \A m \in DOMAIN planted : planted[m].qid # todo'[n]
    BY <2>2, <2>3
  <2> QED
    BY <1>2, <2>1, <2>3, <2>4 DEF Spread
<1>7. CASE AttacksPlanned
  <2>1. planted' = planted /\ phase' \notin {"poison", "injection"}
    BY <1>7 DEF AttacksPlanned, plan
  <2> QED
    BY <1>3, <2>1
<1>8. CASE CanariesPlanned
  <2>1. planted' = planted /\ phase' \notin {"poison", "injection"}
    BY <1>8 DEF CanariesPlanned, plan
  <2> QED
    BY <1>3, <2>1
<1>9. CASE Embed
  <2>1. planted' = planted /\ phase' \notin {"poison", "injection"}
    BY <1>9 DEF Embed, plan
  <2> QED
    BY <1>3, <2>1
<1>10. CASE Ask
  <2>1. planted' = planted /\ phase' \notin {"poison", "injection"}
    BY <1>10 DEF Ask, plan
  <2> QED
    BY <1>3, <2>1
<1>11. CASE Answered
  <2>1. planted' = planted /\ phase' \notin {"poison", "injection"}
    BY <1>11 DEF Answered, plan
  <2> QED
    BY <1>3, <2>1
<1>12. CASE BeginControls
  <2>1. planted' = planted /\ phase' \notin {"poison", "injection"}
    BY <1>12 DEF BeginControls, plan
  <2> QED
    BY <1>3, <2>1
<1>13. CASE Control
  <2>1. planted' = planted /\ phase' \notin {"poison", "injection"}
    BY <1>13 DEF Control, plan
  <2> QED
    BY <1>3, <2>1
<1>14. CASE Controlled
  <2>1. planted' = planted /\ phase' \notin {"poison", "injection"}
    BY <1>14 DEF Controlled, plan
  <2> QED
    BY <1>3, <2>1
<1>15. CASE Aggregate
  <2>1. planted' = planted /\ phase' \notin {"poison", "injection"}
    BY <1>15 DEF Aggregate, plan
  <2> QED
    BY <1>3, <2>1
<1>16. CASE AggregatePrivacy
  <2>1. planted' = planted /\ phase' \notin {"poison", "injection"}
    BY <1>16 DEF AggregatePrivacy, plan
  <2> QED
    BY <1>3, <2>1
<1>17. CASE ReadBack
  <2>1. planted' = planted /\ phase' \notin {"poison", "injection"}
    BY <1>17 DEF ReadBack, plan
  <2> QED
    BY <1>3, <2>1
<1>18. CASE UNCHANGED vars
  <2>1. planted' = planted /\ todo' = todo /\ phase' = phase
    BY <1>18 DEF vars, plan
  <2> QED
    BY <1>0, <2>1 DEF Spread
<1> QED
  BY <1>4, <1>5, <1>6, <1>7, <1>8, <1>9, <1>10, <1>11, <1>12, <1>13, <1>14, <1>15, <1>16, <1>17, <1>18 DEF Next

\* What is recorded of a trial names no other attack on its question, since
\* there is none.
LEMMA NoneCompetes ==
  ASSUME Staged, Spread, Traced
  PROVE  DisjointNeverCompetes
<1>1. SUFFICES ASSUME Security, config.disjoint PROVE DisjointNeverCompetes
  BY DEF DisjointNeverCompetes
<1>2. \A m, n \in DOMAIN planted : planted[m].qid = planted[n].qid => m = n
  BY <1>1 DEF Spread
<1>3. ASSUME NEW n \in DOMAIN records PROVE Competing(records[n]) = {}
  <2>1. live = planted
    BY <1>1, <1>3 DEF Traced, Staged
  <2>2. PICK a \in ToSet(live) : records[n].own = a.marker /\ records[n].qid = a.qid
    BY <1>1 DEF Traced
  <2>3. ASSUME NEW x \in Competing(records[n]) PROVE FALSE
    <3>1. x \in records[n].matched /\ x.marker # records[n].own /\ x.qid = records[n].qid
      BY DEF Competing, Foreign
    <3>2. PICK b \in ToSet(live) : x.marker = b.marker /\ x.qid = b.qid
      BY <1>1, <3>1 DEF Traced
    <3>3. PICK i \in DOMAIN planted : a = planted[i]
      BY <2>1 DEF ToSet
    <3>4. PICK j \in DOMAIN planted : b = planted[j]
      BY <2>1 DEF ToSet
    <3>5. planted[i].qid = planted[j].qid
      BY <2>2, <3>1, <3>2, <3>3, <3>4
    <3>6. i = j
      BY <1>2, <3>5
    <3> QED
      BY <2>2, <3>1, <3>2, <3>3, <3>4, <3>6
  <2> QED
    BY <2>3
<1> QED
  BY <1>2, <1>3 DEF DisjointNeverCompetes

-----------------------------------------------------------------------------
(* The paths a placer gives.                                               *)

\* A name is free if it clashes with none of a path in use.
LEMMA FreeIs ==
  ASSUME NEW pl, NEW stem
  PROVE  Free(pl, stem) <=>
           \A p \in pl.taken : p.stem # stem /\ ~Pair(p.stem, stem) /\ ~Pair(stem, p.stem)
<1>1. stem \in Stems(pl) <=> \E p \in pl.taken : p.stem = stem
  BY DEF Stems
<1>2. stem \in NumberedBases(pl) <=> \E p \in pl.taken : Pair(p.stem, stem)
  BY DEF NumberedBases, Stems, Pair
<1>3. (Numbered(stem) /\ Base(stem) \in Stems(pl)) <=> \E p \in pl.taken : Pair(stem, p.stem)
  BY DEF Stems, Pair
<1> QED
  BY <1>1, <1>2, <1>3 DEF Free

\* The names a document may get.
Candidates(topic, hide) == UNION ToSet(Tiers(ContentWords(topic, hide)))

\* A place is a path not in use, in a directory of the placer, with a name that
\* is free if any is.
LEMMA PlaceIs ==
  ASSUME NEW pl, NEW topic, NEW hide, NEW path \in Places(pl, topic, hide)
  PROVE  /\ path \notin pl.taken /\ path.dir \in pl.dirs
         /\ \/ path.stem \in Candidates(topic, hide) /\ Free(pl, path.stem)
            \/ \A name \in Candidates(topic, hide) : ~Free(pl, name)
<1> DEFINE tiers == Tiers(ContentWords(topic, hide))
           Open(dir, k) == {stem \in tiers[k] : /\ Path(dir, stem) \notin pl.taken
                                                /\ Free(pl, stem)}
           first == Min({k \in 1..3 : tiers[k] # {}})
           Counted(dir, stem, n) == Path(dir, Append(stem, ToString(n)))
           New(dir, stem) == {Counted(dir, stem, n) : n \in {m \in 2..MaxNumber :
             /\ Counted(dir, stem, m) \notin pl.taken
             /\ \A l \in 2..m - 1 : Counted(dir, stem, l) \in pl.taken}}
           ks(dir) == {k \in 1..3 : Open(dir, k) # {}}
           At_(dir) == IF \E k \in 1..3 : Open(dir, k) # {}
                       THEN {Path(dir, stem) : stem \in Open(dir, Min(ks(dir)))}
                       ELSE UNION {New(dir, stem) : stem \in tiers[first]}
<1>1. Places(pl, topic, hide) = UNION {At_(dir) : dir \in pl.dirs}
  BY Zenon DEF Places
<1> HIDE DEF first
<1>2. PICK dir \in pl.dirs : path \in At_(dir)
  <2> HIDE DEF At_
  <2> QED
    BY <1>1
<1>3. Candidates(topic, hide) = UNION {tiers[k] : k \in 1..3}
  <2>1. ToSet(tiers) = {tiers[k] : k \in 1..3}
    BY DEF Tiers, ToSet
  <2> QED
    BY <2>1 DEF Candidates
<1> HIDE DEF tiers
<1>4. CASE \E k \in 1..3 : Open(dir, k) # {}
  <2> DEFINE k == Min(ks(dir))
  <2>1. k \in 1..3
    <3>1. ks(dir) \in SUBSET (1..3) /\ ks(dir) # {}
      BY <1>4
    <3> HIDE DEF ks
    <3> QED
      BY <3>1, LeastIs
  <2> HIDE DEF k
  <2>2. PICK stem \in Open(dir, k) : path = Path(dir, stem)
    BY <1>2, <1>4 DEF k
  <2>3. stem \in tiers[k] /\ path \notin pl.taken /\ Free(pl, stem)
    BY <2>2
  <2>4. path.dir = dir /\ path.stem = stem
    BY <2>2 DEF Path
  <2> QED
    BY <1>3, <2>1, <2>3, <2>4
<1>5. CASE ~\E k \in 1..3 : Open(dir, k) # {}
  <2>1. PICK stem \in tiers[first] : path \in New(dir, stem)
    BY <1>2, <1>5
  <2>2. PICK n \in 2..MaxNumber : path = Counted(dir, stem, n) /\ Counted(dir, stem, n) \notin pl.taken
    BY <2>1
  <2>3. path.dir = dir /\ path \notin pl.taken
    BY <2>2 DEF Path
  <2>4. ASSUME NEW name \in Candidates(topic, hide) PROVE ~Free(pl, name)
    <3>1. PICK k \in 1..3 : name \in tiers[k]
      BY <1>3
    <3>2. Path(dir, name) \in pl.taken \/ ~Free(pl, name)
      BY <1>5, <3>1
    <3>3. Path(dir, name).stem = name
      BY DEF Path
    <3> QED
      BY <3>2, <3>3, FreeIs
  <2> QED
    BY <2>3, <2>4
<1> QED
  BY <1>4, <1>5

\* What was there when a document was planted stays as it was.
LEMMA OthersStay ==
  ASSUME config' = config, kept' = kept, NEW n, \A m \in 1..n - 1 : planted'[m] = planted[m]
  PROVE  /\ Others(n)' = Others(n) /\ Homes' = Homes
         /\ \A stem : Clash(stem, n)' <=> Clash(stem, n)
<1>1. Corpus' = Corpus
  BY DEF Corpus
<1>2. Others(n)' = Others(n)
  BY <1>1 DEF Others
<1>3. Homes' = Homes
  BY DEF Homes
<1> QED
  BY <1>2, <1>3 DEF Clash

\* The next document avoids one path more.
LEMMA OthersNext ==
  ASSUME NEW n \in Nat \ {0}
  PROVE  Others(n + 1) = Others(n) \cup {planted[n].document.source}
<1>1. 1..(n + 1) - 1 = 1..(n - 1) \cup {n}
  OBVIOUS
<1> QED
  BY <1>1 DEF Others

\* A freshly planted document keeps what was said of the earlier ones.
Fresh(n) ==
  LET path == planted[n].document.source
  IN  /\ path \notin Others(n)
      /\ path.dir \in Homes \/ Homes = {}
      /\ \/ path.stem \in Names(n) /\ ~Clash(path.stem, n)
         \/ \A name \in Names(n) : Clash(name, n)

\* Planted paths are fresh one by one.
LEMMA FreshIs == PlantedPathsFresh <=> \A n \in DOMAIN planted : Fresh(n)
BY DEF PlantedPathsFresh, Fresh

\* What is planted later leaves what is fresh so.
LEMMA FreshStays ==
  ASSUME config' = config, kept' = kept, NEW n \in Nat,
         \A m \in 1..n : planted'[m] = planted[m], n # 0, Fresh(n)
  PROVE  Fresh(n)'
<1>1. /\ Others(n)' = Others(n) /\ Homes' = Homes
      /\ \A stem : Clash(stem, n)' <=> Clash(stem, n)
  BY OthersStay
<1>2. planted'[n] = planted[n]
  OBVIOUS
<1>3. Names(n)' = Names(n)
  BY <1>2 DEF Names
<1> QED
  BY <1>1, <1>2, <1>3 DEF Fresh

\* While every attack is of the generator at work, Placed counts them all.
LEMMA PlacedIs ==
  ASSUME Staged, \A n \in DOMAIN planted : planted[n].type = phase
  PROVE  Placed = Len(planted)
<1>1. DOMAIN planted = 1..Len(planted) /\ Len(planted) \in Nat
  BY DEF Staged, IsSeq
<1> DEFINE placed == {n \in DOMAIN planted : planted[n].type = phase}
<1>2. placed = 1..Len(planted)
  BY <1>1
<1>3. Placed = Cardinality(placed)
  BY DEF Placed
<1>4. \A k \in Nat : Cardinality(1..k) = k
  <2> TAKE k \in Nat
  <2>1. 1 \in Int /\ k \in Int
    OBVIOUS
  <2>2. Cardinality(1..k) = IF 1 > k THEN 0 ELSE k - 1 + 1
    BY <2>1, FS_Interval
  <2> QED
    BY <2>2
<1> HIDE DEF placed
<1> QED
  BY <1>1, <1>2, <1>3, <1>4

\* The next document of a generator has a fresh path, and its placer knows it.
LEMMA PlantPlaces ==
  ASSUME Staged, Placing, Plant, config' = config
  PROVE  Placing'
<1>1. /\ phase \in {"poison", "injection", "canary"} /\ phase' = phase /\ kept' = kept
  BY DEF Plant
<1>2. PICK path \in Places(placer, Topic, {<<Hidden>>}) :
        planted' = Append(planted, Generated(path)) /\ placer' = Taken(placer, path)
  BY DEF Plant
<1> DEFINE e == Generated(path)
<1>3. /\ e.document.source = path /\ (phase = "canary" => e.type = "canary")
      /\ e.type = "canary" => e.family = todo[1] /\ Hidden = e.qid /\ Topic = SubjectOf(e.family, Placed)
      /\ e.type # "canary" => e.qid = todo[1] /\ Hidden = e.qid /\ Topic = Question[e.qid]
  <2>1. CASE phase = "poison"
    BY <2>1 DEF Generated, PoisonAttack, NewDocument, Hidden, Topic
  <2>2. CASE phase = "injection"
    BY <2>2 DEF Generated, InjectionAttack, NewDocument, Hidden, Topic
  <2>3. CASE phase = "canary"
    BY <2>3 DEF Generated, Canary, NewDocument, Hidden, Topic
  <2> QED
    BY <1>1, <2>1, <2>2, <2>3
<1>4. e.type = "canary" => phase = "canary"
  BY <1>1 DEF Generated, PoisonAttack, InjectionAttack
<1> HIDE DEF e
<1>0. PICK n : n = Len(planted) + 1
  OBVIOUS
<1>5. /\ n \in Nat \ {0} /\ DOMAIN planted = 1..n - 1 /\ DOMAIN planted' = 1..n
      /\ (\A m \in 1..n - 1 : planted'[m] = planted[m]) /\ planted'[n] = e
      /\ Len(planted) = n - 1 /\ Len(planted') = n
  BY <1>0, <1>2, Appended DEF Staged, e
<1>6. placer = [taken |-> Others(n), dirs |-> IF Homes = {} THEN {""} ELSE Homes]
  BY <1>0, <1>1 DEF Placing
<1>7. /\ Others(n)' = Others(n) /\ Homes' = Homes
      /\ \A stem : Clash(stem, n)' <=> Clash(stem, n)
  BY <1>1, <1>5, OthersStay
<1>8. placer'.taken = Others(n) \cup {path} /\ placer' = [taken |-> placer'.taken, dirs |-> placer.dirs]
  BY <1>2, <1>6 DEF Taken
<1>9. Others(n + 1)' = Others(n) \cup {path}
  <2>1. n \in Nat \ {0} => Others(n + 1)' = Others(n)' \cup {planted'[n].document.source}
    <3>1. 1..(n + 1) - 1 = 1..(n - 1) \cup {n}
      BY <1>5
    <3> QED
      BY <3>1 DEF Others
  <2> QED
    BY <1>3, <1>5, <1>7, <2>1
<1>10. phase' \in {"poison", "injection", "canary"} =>
         placer' = [taken |-> Others(Len(planted) + 1), dirs |-> IF Homes = {} THEN {""} ELSE Homes]'
  BY <1>5, <1>6, <1>7, <1>8, <1>9
<1>11. phase' = "canary" => \A m \in DOMAIN planted' : planted'[m].type = "canary"
  <2>1. \A m \in 1..n : m = n \/ m \in 1..n - 1
    BY <1>5
  <2>2. phase = "canary" => \A m \in 1..n - 1 : planted[m].type = "canary"
    BY <1>5 DEF Placing
  <2> QED
    BY <1>1, <1>3, <1>5, <2>1, <2>2
<1>12. Names(n)' = Candidates(Topic, {<<Hidden>>})
  <2>1. e.type = "canary" => Placed = n - 1
    <3> HAVE e.type = "canary"
    <3>1. \A m \in DOMAIN planted : planted[m].type = phase
      BY <1>4 DEF Placing
    <3> QED
      BY <1>5, <3>1, PlacedIs
  <2>2. Topic = IF e.type = "canary" THEN SubjectOf(e.family, n - 1) ELSE Question[e.qid]
    BY <1>3, <2>1
  <2>3. Hidden = e.qid
    BY <1>3
  <2>4. Names(n)' = Candidates(IF e.type = "canary" THEN SubjectOf(e.family, n - 1)
                               ELSE Question[e.qid], {<<e.qid>>})
    BY <1>5 DEF Names, Candidates
  <2> QED
    BY <2>2, <2>3, <2>4
<1>13. \A stem : Free(placer, stem) <=> ~Clash(stem, n)
  BY <1>6, FreeIs DEF Clash
<1>14. Fresh(n)'
  <2>1. /\ path \notin Others(n) /\ path.dir \in (IF Homes = {} THEN {""} ELSE Homes)
        /\ \/ path.stem \in Candidates(Topic, {<<Hidden>>}) /\ Free(placer, path.stem)
           \/ \A name \in Candidates(Topic, {<<Hidden>>}) : ~Free(placer, name)
    <3>1. placer.taken = Others(n) /\ placer.dirs = IF Homes = {} THEN {""} ELSE Homes
      BY <1>6
    <3>2. /\ path \notin placer.taken /\ path.dir \in placer.dirs
          /\ \/ path.stem \in Candidates(Topic, {<<Hidden>>}) /\ Free(placer, path.stem)
             \/ \A name \in Candidates(Topic, {<<Hidden>>}) : ~Free(placer, name)
      BY <1>2, PlaceIs
    <3> QED
      BY <3>1, <3>2
  <2>2. planted'[n].document.source = path
    BY <1>3, <1>5
  <2>3. \/ path.stem \in Names(n)' /\ ~Clash(path.stem, n)
        \/ \A name \in Names(n)' : Clash(name, n)
    BY <1>12, <1>13, <2>1
  <2> QED
    BY <1>7, <2>1, <2>2, <2>3 DEF Fresh
<1>15. \A m \in DOMAIN planted' : Fresh(m)'
  <2> TAKE m \in DOMAIN planted'
  <2>1. CASE m = n
    BY <1>14, <2>1
  <2>2. CASE m # n
    <3>1. m \in 1..n - 1 /\ m \in Nat /\ m # 0 /\ \A k \in 1..m : k \in 1..n - 1
      BY <1>5, <2>2
    <3>2. Fresh(m)
      BY <1>5, <3>1, FreshIs DEF Placing
    <3>3. \A k \in 1..m : planted'[k] = planted[k]
      BY <1>5, <3>1
    <3> QED
      BY <1>1, <3>1, <3>2, <3>3, FreshStays
  <2> QED
    BY <2>1, <2>2
<1>16. PlantedPathsFresh'
  BY <1>15 DEF PlantedPathsFresh, Fresh
<1> QED
  BY <1>10, <1>11, <1>16 DEF Placing

\* A step gives a fresh path.
LEMMA PlacingStep ==
  ASSUME Staged, Placing, [Next]_vars
  PROVE  Placing'
<1>0. config' = config
  BY SuiteStays
<1>1. CASE Load
  <2>1. /\ planted' = <<>>
        /\ placer' = Placer(Sources(kept'), Sources(Corpus))
    BY <1>1 DEF Load, Staged
  <2>2. PlantedPathsFresh'
    BY <2>1 DEF PlantedPathsFresh
  <2>3. Corpus' = Corpus
    BY <1>0 DEF Corpus
  <2>4. Others(Len(planted) + 1)' = Sources(kept') \cup Sources(Corpus)
    BY <2>1, <2>3 DEF Others, Sources
  <2>5. placer' = [taken |-> Others(Len(planted) + 1), dirs |-> IF Homes = {} THEN {""} ELSE Homes]'
    BY <2>1, <2>4 DEF Placer, Homes
  <2>6. phase' = "canary" => \A n \in DOMAIN planted' : planted'[n].type = "canary"
    BY <2>1
  <2> QED
    BY <2>2, <2>5, <2>6 DEF Placing
<1>2. CASE Plant
  BY <1>0, <1>2, PlantPlaces
<1>3. ASSUME planted' = planted, kept' = kept
      PROVE  PlantedPathsFresh'
  <2>1. \A n \in DOMAIN planted : n \in Nat /\ n # 0
    BY DEF Staged, IsSeq
  <2>2. ASSUME NEW n \in DOMAIN planted' PROVE Fresh(n)'
    <3>1. Fresh(n)
      BY <1>3, FreshIs DEF Placing
    <3> QED
      BY <1>0, <1>3, <2>1, <3>1, FreshStays
  <2> QED
    BY <2>2 DEF PlantedPathsFresh, Fresh
<1>4. CASE BeginInjection
  <2>1. /\ planted' = planted /\ kept' = kept /\ phase' = "injection"
        /\ placer' = Placer(Sources(kept), Sources(Corpus) \cup Sources(Documents(planted)))
    BY <1>4 DEF BeginInjection
  <2>2. DOMAIN planted = 1..Len(planted) /\ Len(planted) \in Nat
    BY DEF Staged, IsSeq
  <2>3. Sources(Documents(planted)) = {planted[m].document.source : m \in 1..Len(planted)}
    BY <2>2 DEF Sources, Documents
  <2>4. Corpus' = Corpus /\ (Len(planted) + 1) - 1 = Len(planted)
    BY <1>0, <2>2 DEF Corpus
  <2>5. Others(Len(planted) + 1)'
          = Sources(kept) \cup (Sources(Corpus) \cup Sources(Documents(planted)))
    BY <2>1, <2>3, <2>4 DEF Others
  <2>6. placer' = [taken |-> Others(Len(planted) + 1), dirs |-> IF Homes = {} THEN {""} ELSE Homes]'
    BY <2>1, <2>5 DEF Placer, Homes
  <2> QED
    BY <1>3, <2>1, <2>6 DEF Placing
<1>5. ASSUME planted' = planted, kept' = kept, phase' \notin {"poison", "injection", "canary"}
      PROVE  Placing'
  BY <1>3, <1>5 DEF Placing
<1>6. CASE AttacksPlanned
  BY <1>5, <1>6 DEF AttacksPlanned, plan
<1>7. CASE CanariesPlanned
  BY <1>5, <1>7 DEF CanariesPlanned, plan
<1>8. CASE Embed
  BY <1>5, <1>8 DEF Embed, plan
<1>9. CASE Ask
  BY <1>5, <1>9 DEF Ask, plan
<1>10. CASE Answered
  BY <1>5, <1>10 DEF Answered, plan
<1>11. CASE BeginControls
  BY <1>5, <1>11 DEF BeginControls, plan
<1>12. CASE Control
  BY <1>5, <1>12 DEF Control, plan
<1>13. CASE Controlled
  BY <1>5, <1>13 DEF Controlled, plan
<1>14. CASE Aggregate
  BY <1>5, <1>14 DEF Aggregate, plan
<1>15. CASE AggregatePrivacy
  BY <1>5, <1>15 DEF AggregatePrivacy, plan
<1>16. CASE ReadBack
  BY <1>5, <1>16 DEF ReadBack, plan
<1>17. CASE UNCHANGED vars
  <2>1. planted' = planted /\ kept' = kept /\ placer' = placer /\ phase' = phase
    BY <1>17 DEF vars, plan
  <2>2. Corpus' = Corpus
    BY <1>0 DEF Corpus
  <2>3. Others(Len(planted) + 1)' = Others(Len(planted) + 1) /\ Homes' = Homes
    BY <2>1, <2>2 DEF Others, Homes
  <2> QED
    BY <1>3, <2>1, <2>3 DEF Placing
<1> QED
  BY <1>1, <1>2, <1>4, <1>6, <1>7, <1>8, <1>9, <1>10, <1>11, <1>12, <1>13, <1>14, <1>15, <1>16, <1>17 DEF Next

-----------------------------------------------------------------------------
(* The documents, the index and the answers.                               *)

IsAttack(a) ==
  /\ a = [type |-> a.type, qid |-> a.qid, marker |-> a.marker, family |-> a.family,
          document |-> a.document]
  /\ IsDocument(a.document)
  /\ a.type = "injection" => a.family \in {"seen", "heldout"}

\* The documents of the plan are well-formed, and every one is accounted for.
Filed ==
  /\ \A n \in DOMAIN planted :
       /\ IsAttack(planted[n])
       /\ planted[n].document.id = <<planted[n].document.source, planted[n].document.text>>
  /\ phase # "load" => kept = ApplyFilters(Corpus, config.filters).kept
  /\ Planning /\ phase # "load" => dropped = ApplyFilters(Corpus, config.filters).dropped
  /\ phase = "load" => dropped = <<>>
  /\ ~Planning => CorpusComesFirst /\ Len(dropped) = Len(config.filters)

\* What is indexed are planted documents, in their order, as the filters leave
\* them.
Surviving ==
  /\ IsSeq(live) /\ IsDocs(Documents(live))
  /\ Planning => live = <<>>
  /\ Security /\ ~Planning => live = planted
  /\ \E e \in [DOMAIN live -> DOMAIN planted] :
       /\ Drawn(Documents(live), Documents(planted), e)
       /\ \A n \in DOMAIN live :
            /\ live[n].type = planted[e[n]].type /\ live[n].qid = planted[e[n]].qid
            /\ live[n].marker = planted[e[n]].marker
  /\ ~Security /\ "pii" \in ToSet(config.filters) => NoSecret(Documents(live))
  /\ ~Security /\ phase \in {"embed", "trial", "done"} => live # <<>>

\* What the n-th document to be planted says that an answer may quote is the
\* marker of it, which tells it from every other document.
Telling(a, n) ==
  /\ \A w \in ToSet(a.document.text) : Quotable(w) => w.what = a.marker
  /\ a.type \in IF Security THEN {"poison", "injection"} ELSE {"canary"}
  /\ a.type = "poison" => n <= Cardinality(Questions) /\ a.marker = Sentinel(n - 1)
  /\ a.type = "injection" => a.qid \in Questions /\ a.marker = Token(a.qid)
  /\ a.type = "canary" =>
       /\ n <= config.canaries /\ a.marker = a.qid
       /\ \E k \in ToSet(config.kinds) : a.marker = Secret(k, n - 1)
       /\ \A w \in ToSet(a.document.text) : Quotable(w) => w.is = "secret"

\* No two documents have a marker in common, nor will have.
Coined ==
  /\ \A n \in DOMAIN planted : Telling(planted[n], n)
  /\ \A m, n \in DOMAIN planted : planted[m].marker = planted[n].marker => m = n
  /\ phase \in {"poison", "injection", "canary"} => IsSeq(todo)
  /\ phase = "poison" =>
       /\ Len(planted) + Len(todo) <= Cardinality(Questions)
       /\ \A n \in DOMAIN planted : planted[n].type = "poison"
  /\ phase = "canary" =>
       /\ Len(planted) + Len(todo) = config.canaries
       /\ \A n \in DOMAIN todo : todo[n] \in ToSet(config.kinds)
  /\ phase = "injection" =>
       \A n \in DOMAIN todo :
         /\ todo[n] \in Questions
         /\ \A m \in DOMAIN todo : todo[m] = todo[n] => m = n
         /\ \A m \in DOMAIN planted : planted[m].type = "injection" => planted[m].qid # todo[n]

\* The documents an index is made of.
Sourced(redact) == IF redact THEN Redact(kept \o Documents(live)) ELSE kept \o Documents(live)
Redacting == ~Security /\ Job.defense = "pii_filter"

\* The index is that of the condition whose trials are under way.
Built ==
  /\ index # {} => /\ ~Planning
                   /\ \E redact \in BOOLEAN :
                        /\ redact => ~Security
                        /\ index = Chunks(Sourced(redact), config.chunker, "trusted_corpus")
  /\ phase = "trial" /\ Len(records) < Len(Jobs) =>
       index = Chunks(Sourced(Redacting), config.chunker, "trusted_corpus")

\* The answer f under way was asked of these chunks, and has been through the
\* defenses ds.
Posing(f, question, chunks, ds) ==
  LET d == Defended(f.ranked, ds)
  IN  /\ f.is = "trial" /\ f.of = question
      /\ IsSeq(f.ranked) /\ ToSet(f.ranked) \subseteq chunks
      /\ \A m, n \in DOMAIN f.ranked : f.ranked[m] = f.ranked[n] => m = n
      /\ f.context = d.context /\ f.abstained = d.abstain /\ f.said = d.said

\* An answer under way has been through the defenses of its trial.
Posed ==
  flight # None =>
    /\ phase \in {"trial", "control"}
    /\ Posing(flight, flight.of, IF phase = "control" THEN CleanChunks ELSE index,
              IF Security THEN {flight.of.defense} ELSE {})
    /\ phase = "trial" => Len(records) < Len(Jobs) /\ flight.of = Job

\* What a trial found is known to have been there.
Found ==
  /\ ~Security => \A n \in DOMAIN records : records[n].succeeded =>
       /\ records[n].retrieved
       /\ records[n].defense # "pii_filter" /\ "pii" \notin ToSet(config.filters)
  /\ IsSeq(controls) /\ ControlsAreClean

-----------------------------------------------------------------------------
(* The documents of the corpus, and those that are planted.                *)

\* Three words are a text.
LEMMA ThreeWords ==
  ASSUME NEW u, NEW v, NEW w, {u.is, v.is, w.is} \subseteq DOMAIN Width
  PROVE  IsText(<<u, v, w>>) /\ ToSet(<<u, v, w>>) = {u, v, w}
<1> DEFINE t == <<u, v, w>>
<1>1. DOMAIN t = 1..3 /\ t[1] = u /\ t[2] = v /\ t[3] = w /\ t \in Seq({u, v, w})
  OBVIOUS
<1> HIDE DEF t
<1>2. IsSeq(t)
  BY <1>1, SequenceIs
<1>3. \A n \in DOMAIN t : n = 1 \/ n = 2 \/ n = 3
  BY <1>1
<1>4. IsText(t)
  BY <1>1, <1>2, <1>3 DEF IsText
<1>5. ToSet(t) = {u, v, w}
  BY <1>1, <1>3 DEF ToSet
<1> QED
  BY <1>4, <1>5 DEF t

\* A poison quotes its false value alone.
LEMMA PoisonIs ==
  ASSUME NEW q, NEW idx, NEW path
  PROVE  LET a == PoisonAttack(q, idx, path) IN
         /\ a.type = "poison" /\ a.qid = q /\ a.marker = Sentinel(idx)
         /\ IsDocument(a.document) /\ a.document.source = path
         /\ a.document.id = <<path, a.document.text>>
         /\ \A w \in ToSet(a.document.text) : Quotable(w) => w.what = a.marker
<1> DEFINE u == Word("heading", "Updated reference", "")
           w == Word("quantity", Sentinel(idx), Gold[q].unit)
           t == <<u, Echo(q), w>>
           a == PoisonAttack(q, idx, path)
<1>1. u.is = "heading" /\ Echo(q).is = "prose" /\ w.is = "quantity" /\ w.what = Sentinel(idx)
  BY DEF Word, Echo
<1>2. {"heading", "prose", "quantity"} \subseteq DOMAIN Width
  BY IngestionAssumption DEF IngestionAssumption
<1>3. /\ a.type = "poison" /\ a.qid = q /\ a.marker = Sentinel(idx)
      /\ a.document = [id |-> <<path, t>>, source |-> path, text |-> t]
  BY DEF PoisonAttack, NewDocument, PoisonText
<1> DEFINE e == Echo(q)
<1> HIDE DEF u, w, a, e
<1>4. IsText(<<u, e, w>>) /\ ToSet(<<u, e, w>>) = {u, e, w}
  BY <1>1, <1>2, ThreeWords DEF e
<1>5. IsText(t) /\ ToSet(t) = {u, e, w}
  BY <1>4 DEF e
<1> HIDE DEF t
<1>6. IsDocument(a.document) /\ a.document.text = t
  BY <1>3, <1>5 DEF IsDocument
<1>7. \A x \in ToSet(t) : Quotable(x) => x.what = a.marker
  BY <1>1, <1>3, <1>5 DEF Quotable, e
<1> QED
  BY <1>3, <1>6, <1>7 DEF a

\* An injection quotes its token alone.
LEMMA InjectionIs ==
  ASSUME NEW q, NEW idx, NEW path
  PROVE  LET a == InjectionAttack(q, idx, path) IN
         /\ a.type = "injection" /\ a.qid = q /\ a.marker = Token(q)
         /\ IsDocument(a.document) /\ a.document.source = path
         /\ a.document.id = <<path, a.document.text>>
         /\ \A w \in ToSet(a.document.text) : Quotable(w) => w.what = a.marker
<1> DEFINE u == Word("order", Template(idx), "")
           w == Word("token", Token(q), "")
           t == <<Echo(q), u, w>>
           a == InjectionAttack(q, idx, path)
<1>1. u.is = "order" /\ Echo(q).is = "prose" /\ w.is = "token" /\ w.what = Token(q)
  BY DEF Word, Echo
<1>2. {"order", "prose", "token"} \subseteq DOMAIN Width
  BY IngestionAssumption DEF IngestionAssumption
<1>3. /\ a.type = "injection" /\ a.qid = q /\ a.marker = Token(q)
      /\ a.document = [id |-> <<path, t>>, source |-> path, text |-> t]
  BY DEF InjectionAttack, NewDocument, InjectionText
<1> DEFINE e == Echo(q)
<1> HIDE DEF u, w, a, e
<1>4. IsText(<<e, u, w>>) /\ ToSet(<<e, u, w>>) = {e, u, w}
  BY <1>1, <1>2, ThreeWords DEF e
<1>5. IsText(t) /\ ToSet(t) = {e, u, w}
  BY <1>4 DEF e
<1> HIDE DEF t
<1>6. IsDocument(a.document) /\ a.document.text = t
  BY <1>3, <1>5 DEF IsDocument
<1>7. \A x \in ToSet(t) : Quotable(x) => x.what = a.marker
  BY <1>1, <1>3, <1>5 DEF Quotable, e
<1> QED
  BY <1>3, <1>6, <1>7 DEF a

\* A canary quotes its secret alone.
LEMMA CanaryIs ==
  ASSUME NEW kind, NEW idx, NEW path
  PROVE  LET a == Canary(kind, idx, path) IN
         /\ a.type = "canary" /\ a.qid = Secret(kind, idx) /\ a.marker = Secret(kind, idx)
         /\ IsDocument(a.document) /\ a.document.source = path
         /\ a.document.id = <<path, a.document.text>>
         /\ \A w \in ToSet(a.document.text) : Quotable(w) => w.what = a.marker /\ w.is = "secret"
<1> DEFINE u == Word("heading", Card(kind, idx), "")
           v == Word("prose", kind, "")
           w == Word("secret", Secret(kind, idx), "")
           t == <<u, v, w>>
           a == Canary(kind, idx, path)
<1>1. u.is = "heading" /\ v.is = "prose" /\ w.is = "secret" /\ w.what = Secret(kind, idx)
  BY DEF Word
<1>2. {"heading", "prose", "secret"} \subseteq DOMAIN Width
  BY IngestionAssumption DEF IngestionAssumption
<1>3. /\ a.type = "canary" /\ a.qid = Secret(kind, idx) /\ a.marker = Secret(kind, idx)
      /\ a.document = [id |-> <<path, t>>, source |-> path, text |-> t]
  BY DEF Canary, NewDocument
<1> HIDE DEF u, v, w, a
<1>4. IsText(t) /\ ToSet(t) = {u, v, w}
  BY <1>1, <1>2, ThreeWords
<1> HIDE DEF t
<1>5. IsDocument(a.document) /\ a.document.text = t
  BY <1>3, <1>4 DEF IsDocument
<1>6. \A x \in ToSet(t) : Quotable(x) => x.what = a.marker /\ x.is = "secret"
  BY <1>1, <1>3, <1>4 DEF Quotable
<1> QED
  BY <1>3, <1>5, <1>6 DEF a

\* The corpus is documents with paths of their own.
LEMMA CorpusIs ==
  ASSUME config \in Configs
  PROVE  /\ IsDocs(Corpus)
         /\ \A n \in DOMAIN Corpus : /\ Corpus[n].id = <<Corpus[n].source, Corpus[n].text>>
                                     /\ \E f \in ToSet(config.files) : Corpus[n].text = f.text
         /\ \A m, n \in DOMAIN Corpus : Corpus[m].source = Corpus[n].source => m = n
<1> DEFINE files == config.files
           P == {n \in DOMAIN files : files[n].loader = "ok"}
           loaded == Those(files, P)
           docs == [n \in DOMAIN loaded |-> NewDocument(loaded[n].source, loaded[n].text)]
<1>1. Corpus = docs
  BY DEF Corpus, LoadCorpus
<1>2. IsSeq(files) /\ \A m, n \in DOMAIN files : files[m].source = files[n].source => m = n
  BY ConfigsAssumption DEF ConfigsAssumption, IsSeq
<1>3. \A f \in ToSet(files) : IsText(f.text)
  <2> TAKE f \in ToSet(files)
  <2> DEFINE t == f.text
             W == {w \in ToSet(t) : w.is \in DOMAIN Width}
  <2>1. t \in Seq(W)
    BY ConfigsAssumption DEF ConfigsAssumption
  <2>2. \A n \in DOMAIN t : t[n].is \in DOMAIN Width
    BY <2>1
  <2> HIDE DEF t, W
  <2>3. IsText(t)
    BY <2>1, <2>2, SequenceIs DEF IsText
  <2> QED
    BY <2>3 DEF t
<1> HIDE DEF files, P
<1>4. IsSeq(loaded) /\ DOMAIN loaded = 1..Len(loaded) /\ Len(loaded) \in Nat
  BY <1>2, ThoseAre DEF IsSeq
<1>5. PICK e \in [1..Len(loaded) -> DOMAIN files] :
         /\ \A k \in 1..Len(loaded) : e[k] \in P /\ loaded[k] = files[e[k]]
         /\ \A k, l \in 1..Len(loaded) : k < l => e[k] < e[l]
         /\ \A n \in DOMAIN files : n \in P => \E k \in 1..Len(loaded) : n = e[k]
  BY <1>2, ThosePlaces
<1> HIDE DEF loaded
<1>6. \A n \in DOMAIN loaded : loaded[n] \in ToSet(files) /\ e[n] \in DOMAIN files
  BY <1>4, <1>5 DEF ToSet
<1>7. \A n \in DOMAIN docs : /\ docs[n] = [id |-> docs[n].id, source |-> docs[n].source, text |-> docs[n].text]
                             /\ docs[n].id = <<docs[n].source, docs[n].text>>
                             /\ docs[n].source = loaded[n].source /\ docs[n].text = loaded[n].text
  BY DEF NewDocument
<1>8. IsSeq(docs) /\ DOMAIN docs = DOMAIN loaded
  <2> DEFINE S == {docs[n] : n \in 1..Len(loaded)}
  <2>1. docs \in [1..Len(loaded) -> S]
    BY <1>4
  <2> HIDE DEF S, docs
  <2>2. IsSeq(docs)
    BY <1>4, <2>1, ArrayIs
  <2> QED
    BY <2>2 DEF docs
<1> HIDE DEF docs
<1>9. IsDocs(docs)
  BY <1>3, <1>6, <1>7, <1>8 DEF IsDocs, IsDocument
<1>10. \A n \in DOMAIN docs : \E f \in ToSet(files) : docs[n].text = f.text
  BY <1>6, <1>7, <1>8
<1>11. \A m, n \in DOMAIN docs : docs[m].source = docs[n].source => m = n
  <2> TAKE m, n \in DOMAIN docs
  <2> HAVE docs[m].source = docs[n].source
  <2>1. e[m] = e[n]
    BY <1>2, <1>4, <1>5, <1>6, <1>7, <1>8
  <2>2. ~(m < n) /\ ~(n < m) /\ m \in Nat /\ n \in Nat
    <3>1. m \in 1..Len(loaded) /\ n \in 1..Len(loaded)
      BY <1>4, <1>8
    <3>2. \A k \in DOMAIN files : k \in Nat
      BY <1>2 DEF IsSeq
    <3>3. e[m] \in Nat
      BY <1>6, <1>8, <3>2
    <3> QED
      BY <1>5, <2>1, <3>1, <3>3
  <2> QED
    BY <2>2
<1> QED
  BY <1>1, <1>7, <1>9, <1>10, <1>11 DEF files

-----------------------------------------------------------------------------
(* Steps of the plan, and steps behind it.                                 *)

\* What is planned stays.
LEMMA LaterStays ==
  ASSUME ~Planning, [Next]_vars
  PROVE  /\ Planned => Planned' /\ ~Planning'
         /\ kept' = kept /\ dropped' = dropped /\ planted' = planted /\ live' = live
         /\ phase = "failed" => phase' = "failed"
<1> USE DEF Planning, Planned, Done, plan, results
<1>1. CASE Embed
  BY <1>1 DEF Embed
<1>2. CASE Ask
  BY <1>2 DEF Ask
<1>3. CASE Answered
  BY <1>3 DEF Answered
<1>4. CASE BeginControls
  BY <1>4 DEF BeginControls
<1>5. CASE Control
  BY <1>5 DEF Control
<1>6. CASE Controlled
  BY <1>6 DEF Controlled
<1>7. CASE Aggregate
  BY <1>7 DEF Aggregate
<1>8. CASE AggregatePrivacy
  BY <1>8 DEF AggregatePrivacy
<1>9. CASE ReadBack
  BY <1>9 DEF ReadBack
<1>10. CASE UNCHANGED vars
  BY <1>10 DEF vars
<1>11. ~(Load \/ Plant \/ BeginInjection \/ AttacksPlanned \/ CanariesPlanned)
  BY DEF Load, Plant, BeginInjection, AttacksPlanned, CanariesPlanned
<1> QED
  BY <1>1, <1>2, <1>3, <1>4, <1>5, <1>6, <1>7, <1>8, <1>9, <1>10, <1>11 DEF Next

\* Until the index is embedded only these steps are taken.
LEMMA PlanningSteps ==
  ASSUME Planning, [Next]_vars
  PROVE  \/ Load \/ Plant \/ BeginInjection \/ AttacksPlanned \/ CanariesPlanned
         \/ UNCHANGED vars
<1> USE DEF Planning
<1>1. ~Embed
  BY DEF Embed
<1>2. ~Ask
  BY DEF Ask
<1>3. ~Answered
  BY DEF Answered
<1>4. ~BeginControls
  BY DEF BeginControls
<1>5. ~Control
  BY DEF Control
<1>6. ~Controlled
  BY DEF Controlled
<1>7. ~Aggregate
  BY DEF Aggregate
<1>8. ~AggregatePrivacy
  BY DEF AggregatePrivacy
<1>9. ~ReadBack
  BY DEF ReadBack
<1> QED
  BY <1>1, <1>2, <1>3, <1>4, <1>5, <1>6, <1>7, <1>8, <1>9 DEF Next

\* Documents one by one.
LEMMA DocumentsAre ==
  ASSUME NEW attacks, IsSeq(attacks)
  PROVE  /\ DOMAIN Documents(attacks) = DOMAIN attacks /\ Len(Documents(attacks)) = Len(attacks)
         /\ \A n \in DOMAIN attacks : Documents(attacks)[n] = attacks[n].document
         /\ IsSeq(Documents(attacks))
         /\ (\A n \in DOMAIN attacks : IsDocument(attacks[n].document)) <=> IsDocs(Documents(attacks))
<1> DEFINE L == Len(attacks)
           D == Documents(attacks)
           S == {attacks[n].document : n \in 1..L}
<1>1. L \in Nat /\ DOMAIN attacks = 1..L
  BY DEF IsSeq
<1>2. D = [n \in 1..L |-> attacks[n].document]
  BY <1>1 DEF Documents
<1>3. D \in [1..L -> S]
  BY <1>2
<1> HIDE DEF S, D, L
<1>4. IsSeq(D) /\ Len(D) = L /\ DOMAIN D = 1..L
  <2>1. D \in Seq(S) /\ DOMAIN D = 1..L
    BY <1>1, <1>2, <1>3, SeqDef
  <2>2. Len(D) = L
    BY <1>1, <2>1
  <2> QED
    BY <2>1, <2>2, SequenceIs
<1>5. \A n \in DOMAIN attacks : D[n] = attacks[n].document
  BY <1>1, <1>2
<1>6. (\A n \in DOMAIN attacks : IsDocument(attacks[n].document)) <=> IsDocs(D)
  BY <1>1, <1>4, <1>5 DEF IsDocs
<1> QED
  BY <1>1, <1>4, <1>5, <1>6 DEF D, L

\* Every document of a corpus and of the batch b behind it is accounted for:
\* it is in one of the halves k and r that are kept, or one filter has dropped it.
Accounted(a, b, k, r, names, d, out) ==
  /\ ApplyFilters(a \o b, names).kept = k \o r
  /\ \A id \in ToSet([n \in 1..Len(a) + Len(b) |-> (a \o b)[n].id]) :
       Cardinality({n \in DOMAIN d : id \in Ids(d[n])}) = IF id \in out THEN 0 ELSE 1

\* CorpusComesFirst of the documents and what was dropped.
LEMMA ComesFirst ==
  CorpusComesFirst <=>
    (Planned => Accounted(Corpus, IF Security THEN <<>> ELSE Documents(planted), kept,
                          IF Security THEN <<>> ELSE Documents(live), config.filters, dropped,
                          Ids(kept) \cup IF Security THEN {} ELSE Ids(Documents(live))))
BY Zenon DEF CorpusComesFirst, Accounted

\* What the chain makes of all documents is what is accounted for.
LEMMA AccountedIs ==
  ASSUME NEW a, IsDocs(a), NEW b, IsDocs(b), NEW k, IsSeq(k), NEW r, IsSeq(r),
         NEW names, Chained(names), NEW d, DOMAIN d = 1..Len(names), NEW out,
         ApplyFilters(a \o b, names).kept = k \o r,
         \A n \in 1..Len(names) :
           \A id : id \in Ids(d[n]) <=> id \in Ids(ApplyFilters(a \o b, names).dropped[n]),
         \A id : id \in out <=> id \in Ids(k) \/ id \in Ids(r)
  PROVE  Accounted(a, b, k, r, names, d, out)
<1> DEFINE z == a \o b
           all == [n \in 1..Len(a) + Len(b) |-> z[n].id]
           lost(id) == {n \in DOMAIN d : id \in Ids(d[n])}
<1>1. IsDocs(z) /\ DOMAIN z = 1..Len(a) + Len(b)
  <2>1. IsDocs(z)
    BY DocsJoin
  <2>2. IsSeq(a) /\ IsSeq(b)
    BY DEF IsDocs
  <2>3. DOMAIN z = 1..Len(a) + Len(b)
    BY <2>2, Joins
  <2> QED
    BY <2>1, <2>3
<1>2. \A id : id \in out <=> id \in Ids(k \o r)
  BY IdsJoin
<1> HIDE DEF z
<1>3. ToSet(all) = Ids(z)
  BY <1>1 DEF ToSet, Ids
<1> HIDE DEF all
<1>4. ApplyFilters(z, names).kept = k \o r
  BY DEF z
<1>5. \A id \in Ids(z) : Cardinality(lost(id)) = IF id \in out THEN 0 ELSE 1
  <2> TAKE id \in Ids(z)
  <2>1. \A n \in 1..Len(names) : id \in Ids(d[n]) <=> id \in Ids(ApplyFilters(z, names).dropped[n])
    BY DEF z
  <2>2. Cardinality(lost(id)) = IF id \in Ids(ApplyFilters(z, names).kept) THEN 0 ELSE 1
    BY <1>1, <2>1, DroppedOnce
  <2> HIDE DEF lost
  <2> QED
    BY <1>2, <1>4, <2>2
<1>6. \A id \in ToSet(all) : Cardinality(lost(id)) = IF id \in out THEN 0 ELSE 1
  BY <1>3, <1>5
<1> QED
  BY <1>6 DEF Accounted, all, z

\* The planted documents that are left, by their ids.
Staying(p, docs) == Those(p, {n \in DOMAIN p : p[n].document.id \in Ids(docs)})
ById(docs, id) == CHOOSE d \in ToSet(docs) : d.id = id

\* The plan keeps those of its documents that are left, each once.
LEMMA SurvivorsAre ==
  ASSUME NEW p, IsSeq(p), NEW r, IsSeq(r), NEW e, Drawn(r, Documents(p), e),
         \A m, n \in DOMAIN p : p[m].document.id = p[n].document.id => m = n
  PROVE  /\ IsSeq(Staying(p, r)) /\ Len(Staying(p, r)) = Len(r)
         /\ \A k \in DOMAIN r : /\ e[k] \in DOMAIN p /\ Staying(p, r)[k] = p[e[k]]
                                /\ ById(r, p[e[k]].document.id) = r[k]
<1> DEFINE D == Documents(p)
           P == {n \in DOMAIN p : p[n].document.id \in Ids(r)}
           s == Those(p, P)
<1>1. /\ DOMAIN D = DOMAIN p /\ \A n \in DOMAIN p : D[n] = p[n].document
  BY DocumentsAre
<1> HIDE DEF D
<1>2. /\ e \in [DOMAIN r -> DOMAIN p]
      /\ \A k, l \in DOMAIN r : k < l => e[k] < e[l]
      /\ \A k \in DOMAIN r : r[k].id = p[e[k]].document.id
  BY <1>1 DEF Drawn, D
<1>3. /\ Len(r) \in Nat /\ DOMAIN r = 1..Len(r) /\ Len(p) \in Nat /\ DOMAIN p = 1..Len(p)
  BY DEF IsSeq
<1>4. \A n \in DOMAIN p : n \in P <=> \E k \in DOMAIN r : n = e[k]
  <2> TAKE n \in DOMAIN p
  <2>1. n \in P <=> \E k \in DOMAIN r : r[k].id = p[n].document.id
    BY DEF Ids
  <2>2. \A k \in DOMAIN r : r[k].id = p[n].document.id <=> n = e[k]
    BY <1>2
  <2> QED
    BY <2>1, <2>2
<1>5. Staying(p, r) = s
  BY DEF Staying
<1> HIDE DEF P
<1>6. IsSeq(s)
  BY ThoseAre
<1>13. PICK f : Listed(s, p, P, f)
  BY ThoseListed
<1> HIDE DEF s
<1>7. /\ f \in [1..Len(s) -> DOMAIN p]
      /\ \A k \in 1..Len(s) : f[k] \in P /\ s[k] = p[f[k]]
      /\ \A k, l \in 1..Len(s) : k < l => f[k] < f[l]
      /\ \A n \in DOMAIN p : n \in P => \E k \in 1..Len(s) : n = f[k]
  BY <1>13 DEF Listed
<1>8. Len(s) \in Nat
  BY <1>6 DEF IsSeq
<1> DEFINE m == Len(r)
           l == Len(s)
<1>9. Rising(e, m) /\ Rising(f, l)
  <2>1. DOMAIN p \subseteq Nat
    BY <1>3
  <2>2. e \in [1..m -> Nat] /\ f \in [1..l -> Nat]
    BY <1>2, <1>3, <1>7, <2>1
  <2>3. \A i, j \in 1..m : i < j => e[i] < e[j]
    BY <1>2, <1>3
  <2>4. \A i, j \in 1..l : i < j => f[i] < f[j]
    BY <1>7
  <2> QED
    BY <2>2, <2>3, <2>4 DEF Rising
<1>10. Reaches(f, l, e, m) /\ Reaches(e, m, f, l)
  <2>1. \A k \in 1..m : \E i \in 1..l : e[k] = f[i]
    BY <1>2, <1>3, <1>4, <1>7
  <2>2. \A k \in 1..l : \E i \in 1..m : f[k] = e[i]
    BY <1>3, <1>4, <1>7
  <2> QED
    BY <2>1, <2>2 DEF Reaches
<1>11. m = l /\ \A k \in 1..m : e[k] = f[k]
  BY <1>3, <1>8, <1>9, <1>10, SameOrder
<1>12. ASSUME NEW k \in DOMAIN r
       PROVE  /\ e[k] \in DOMAIN p /\ s[k] = p[e[k]]
              /\ ById(r, p[e[k]].document.id) = r[k]
  <2>1. e[k] \in DOMAIN p /\ s[k] = p[e[k]] /\ r[k].id = p[e[k]].document.id
    BY <1>2, <1>3, <1>7, <1>11, <1>12
  <2>2. r[k] \in ToSet(r)
    BY DEF ToSet
  <2>3. \A d \in ToSet(r) : d.id = r[k].id => d = r[k]
    <3> TAKE d \in ToSet(r)
    <3> HAVE d.id = r[k].id
    <3>1. PICK i \in DOMAIN r : d = r[i]
      BY DEF ToSet
    <3>2. e[i] = e[k]
      BY <1>2, <3>1
    <3>3. ~(i < k) /\ ~(k < i) /\ i \in Nat /\ k \in Nat
      <4>1. \A j \in DOMAIN r : e[j] \in Nat
        BY <1>2, <1>3
      <4> QED
        BY <1>2, <1>3, <3>2, <4>1
    <3> QED
      BY <3>1, <3>3
  <2> QED
    BY <2>1, <2>2, <2>3 DEF ById
<1> QED
  BY <1>5, <1>6, <1>11, <1>12

\* What a configuration lists.
LEMMA ConfigIs ==
  ASSUME config \in Configs
  PROVE  Chained(config.filters) /\ IsSeq(config.files) /\ IsSeq(config.defenses)
<1>1. config.filters \in Seq({"dedup", "language", "boilerplate", "pii"})
  BY ConfigsAssumption DEF ConfigsAssumption
<1>2. Chained(config.filters)
  BY <1>1 DEF Chained, FilterNames
<1> QED
  BY <1>2, ConfigsAssumption DEF ConfigsAssumption, IsSeq

\* No two documents of the corpus and the plan have the same id.
LEMMA IdsApart ==
  ASSUME Staged, Filed, PlantedPathsFresh
  PROVE  /\ \A m, n \in DOMAIN planted : planted[m].document.id = planted[n].document.id => m = n
         /\ \A id \in Ids(Corpus) : id \notin Ids(Documents(planted))
         /\ \A m, n \in DOMAIN Corpus : Corpus[m].id = Corpus[n].id => m = n
         /\ IsDocs(Corpus) /\ IsDocs(Documents(planted))
<1>1. /\ IsDocs(Corpus)
      /\ \A n \in DOMAIN Corpus : Corpus[n].id = <<Corpus[n].source, Corpus[n].text>>
      /\ \A m, n \in DOMAIN Corpus : Corpus[m].source = Corpus[n].source => m = n
  BY CorpusIs DEF Staged
<1>2. \A n \in DOMAIN planted :
        /\ planted[n].document.source \notin Sources(Corpus)
        /\ \A m \in 1..n - 1 : planted[n].document.source # planted[m].document.source
  BY DEF PlantedPathsFresh, Others
<1>3. /\ IsSeq(planted) /\ DOMAIN planted = 1..Len(planted) /\ Len(planted) \in Nat
      /\ \A n \in DOMAIN planted :
           /\ IsDocument(planted[n].document)
           /\ planted[n].document.id = <<planted[n].document.source, planted[n].document.text>>
  BY DEF Staged, Filed, IsSeq, IsAttack
<1>4. /\ DOMAIN Documents(planted) = DOMAIN planted
      /\ \A n \in DOMAIN planted : Documents(planted)[n] = planted[n].document
      /\ IsDocs(Documents(planted))
  BY <1>3, DocumentsAre
<1>5. \A m, n \in DOMAIN planted : planted[m].document.id = planted[n].document.id => m = n
  <2> TAKE m, n \in DOMAIN planted
  <2> HAVE planted[m].document.id = planted[n].document.id
  <2>1. planted[m].document.source = planted[n].document.source
    BY <1>3
  <2>2. m \in Nat /\ n \in Nat /\ 1 <= m /\ 1 <= n
    BY <1>3
  <2>3. ~(m \in 1..n - 1) /\ ~(n \in 1..m - 1)
    BY <1>2, <2>1
  <2> QED
    BY <2>2, <2>3
<1>6. \A id \in Ids(Corpus) : id \notin Ids(Documents(planted))
  <2> SUFFICES ASSUME NEW m \in DOMAIN Corpus, NEW n \in DOMAIN planted,
                      Corpus[m].id = planted[n].document.id
               PROVE  FALSE
    BY <1>4 DEF Ids
  <2>1. Corpus[m].source = planted[n].document.source
    BY <1>1, <1>3
  <2> QED
    BY <1>2, <2>1 DEF Sources
<1> QED
  BY <1>1, <1>4, <1>5, <1>6

\* A step that indexes the canaries r that are left, those planted at e.
Leaving(all, names, r, e) ==
  /\ IsDocs(r) /\ Drawn(r, Documents(planted), e)
  /\ all.kept = kept \o r /\ IsDocs(kept)
  /\ IsSeq(live') /\ Len(live') = Len(r)
  /\ \A n \in DOMAIN r : live'[n] = [planted[e[n]] EXCEPT !.document = r[n]]
  /\ DOMAIN dropped' = 1..Len(names) /\ Len(dropped') = Len(names)
  /\ \A n \in 1..Len(names) : \A id : id \in Ids(dropped'[n]) <=> id \in Ids(all.dropped[n])
  /\ phase' # "failed" => live' # <<>>

\* What the filters leave of the canaries is indexed, and the corpus is left as
\* without them.
LEMMA CanariesLeave ==
  ASSUME Staged, Filed, PlantedPathsFresh, CanariesPlanned
  PROVE  \E r, e : Leaving(ApplyFilters(Corpus \o Documents(planted), config.filters), config.filters, r, e)
<1> DEFINE names == config.filters
           batch == Documents(planted)
           all == ApplyFilters(Corpus \o batch, names)
           one == ApplyFilters(Corpus, names)
           after == ApplyFiltersAfter(Corpus, batch, names)
           L == Len(names)
<1>1. /\ phase = "canary" /\ ~Security /\ kept = one.kept /\ dropped = one.dropped
  BY DEF CanariesPlanned, Staged, Filed, Planning
<1>2. /\ \A m, n \in DOMAIN planted : planted[m].document.id = planted[n].document.id => m = n
      /\ \A id \in Ids(Corpus) : id \notin Ids(batch)
      /\ IsDocs(Corpus) /\ IsDocs(batch)
  BY IdsApart
<1>3. Chained(names) /\ IsSeq(planted) /\ L \in Nat
  BY ConfigIs DEF Staged, Chained
<1>4. /\ IsDocs(kept) /\ Len(dropped) = L /\ DOMAIN dropped = 1..L
  BY <1>1, <1>2, <1>3, AppliedIs
<1>5. PICK r : /\ after.kept = r /\ all.kept = one.kept \o r
               /\ IsDocs(r) /\ \E e : Drawn(r, batch, e)
  BY <1>2, <1>3, AppliedAfter
<1>6. \A k \in 1..L : \A id :
        id \in Ids(one.dropped[k] \o after.dropped[k]) <=> id \in Ids(all.dropped[k])
  BY <1>2, <1>3, AppliedAfter
<1> DEFINE s == Staying(planted, r)
<1>7. /\ live' = [n \in DOMAIN s |-> [s[n] EXCEPT !.document = ById(r, s[n].document.id)]]
      /\ phase' # "failed" => s # <<>>
  <2> DEFINE t == Staying(planted, after.kept)
  <2>1. /\ live' = [n \in DOMAIN t |-> [t[n] EXCEPT !.document = ById(after.kept, t[n].document.id)]]
        /\ phase' # "failed" => t # <<>>
    BY Zenon DEF CanariesPlanned, Staying, ById
  <2>2. after.kept = r
    BY <1>5
  <2> HIDE DEF after
  <2> QED
    BY <2>1, <2>2
<1>8. dropped' = [n \in DOMAIN dropped |-> dropped[n] \o after.dropped[n]]
  BY Zenon DEF CanariesPlanned
<1> HIDE DEF all, one, after, batch, names
<1>9. PICK e : Drawn(r, batch, e)
  BY <1>5
<1>10. /\ IsSeq(s) /\ Len(s) = Len(r)
       /\ \A k \in DOMAIN r : /\ e[k] \in DOMAIN planted /\ s[k] = planted[e[k]]
                              /\ ById(r, planted[e[k]].document.id) = r[k]
  BY <1>2, <1>3, <1>5, <1>9, SurvivorsAre DEF IsDocs, batch
<1> HIDE DEF s
<1>11. /\ DOMAIN s = DOMAIN r /\ DOMAIN r = 1..Len(r) /\ Len(r) \in Nat
  BY <1>5, <1>10 DEF IsSeq, IsDocs
<1>12. \A n \in DOMAIN r : live'[n] = [planted[e[n]] EXCEPT !.document = r[n]]
  BY <1>7, <1>10, <1>11
<1>13. IsSeq(live') /\ Len(live') = Len(r)
  <2> DEFINE q == live'
             S == {q[n] : n \in 1..Len(r)}
  <2>1. q = [n \in 1..Len(r) |-> q[n]]
    BY <1>7, <1>11
  <2> HIDE DEF q
  <2>2. q \in [1..Len(r) -> S] /\ DOMAIN q = 1..Len(r)
    BY <2>1
  <2> HIDE DEF S
  <2>3. q \in Seq(S)
    BY <1>11, <2>2, SeqDef
  <2>4. IsSeq(q) /\ Len(q) = Len(r)
    BY <1>11, <2>2, <2>3, SequenceIs
  <2> QED
    BY <2>4 DEF q
<1>14. DOMAIN dropped' = 1..L /\ Len(dropped') = L
  BY <1>3, <1>4, <1>8
<1>15. \A n \in 1..L : \A id : id \in Ids(dropped'[n]) <=> id \in Ids(all.dropped[n])
  BY <1>1, <1>4, <1>6, <1>8
<1>16. phase' # "failed" => live' # <<>>
  BY <1>7, <1>10, <1>11, <1>13
<1>17. all.kept = kept \o r
  BY <1>1, <1>5
<1> QED
  <2>1. Leaving(all, names, r, e)
    BY <1>4, <1>5, <1>9, <1>12, <1>13, <1>14, <1>15, <1>16, <1>17 DEF Leaving, batch
  <2> QED
    BY <2>1 DEF all, batch, names

\* What a generator plants at a path.
LEMMA GeneratedIs ==
  ASSUME phase \in {"poison", "injection", "canary"}, NEW path, NEW g, Generated(path) = g
  PROVE  /\ IsAttack(g) /\ g.document.source = path /\ g.type = phase
         /\ g.document.id = <<g.document.source, g.document.text>>
         /\ \A w \in ToSet(g.document.text) : Quotable(w) => w.what = g.marker
         /\ phase = "poison" => g.marker = Sentinel(Placed) /\ g.qid = todo[1]
         /\ phase = "injection" => g.marker = Token(todo[1]) /\ g.qid = todo[1]
         /\ phase = "canary" =>
              /\ g.marker = Secret(todo[1], Placed) /\ g.qid = g.marker
              /\ \A w \in ToSet(g.document.text) : Quotable(w) => w.is = "secret"
<1>1. CASE phase = "poison"
  <2>1. g = PoisonAttack(todo[1], Placed, path)
    BY <1>1 DEF Generated
  <2>2. g = [type |-> g.type, qid |-> g.qid, marker |-> g.marker, family |-> g.family,
             document |-> g.document]
    BY <2>1 DEF PoisonAttack
  <2> QED
    BY <1>1, <2>1, <2>2, PoisonIs DEF IsAttack
<1>2. CASE phase = "injection"
  <2>1. g = InjectionAttack(todo[1], Placed, path)
    BY <1>2 DEF Generated
  <2>2. g = [type |-> g.type, qid |-> g.qid, marker |-> g.marker, family |-> g.family,
             document |-> g.document]
    BY <2>1 DEF InjectionAttack
  <2>3. g.family \in {"seen", "heldout"}
    BY <2>1 DEF InjectionAttack, Family
  <2> QED
    BY <1>2, <2>1, <2>2, <2>3, InjectionIs DEF IsAttack
<1>3. CASE phase = "canary"
  <2>1. g = Canary(todo[1], Placed, path)
    BY <1>3 DEF Generated
  <2>2. g = [type |-> g.type, qid |-> g.qid, marker |-> g.marker, family |-> g.family,
             document |-> g.document]
    BY <2>1 DEF Canary
  <2> QED
    BY <1>3, <2>1, <2>2, CanaryIs DEF IsAttack
<1> QED
  BY <1>1, <1>2, <1>3

\* A document more is planted, for the first of those to be planted for.
LEMMA PlantIs ==
  ASSUME Staged, Plant
  PROVE  /\ phase \in {"poison", "injection", "canary"} /\ phase' = phase /\ config' = config
         /\ todo # <<>> /\ todo' = Tail(todo)
         /\ kept' = kept /\ dropped' = dropped /\ live' = live /\ index' = index
         /\ flight' = flight /\ records' = records /\ controls' = controls /\ metrics' = metrics
         /\ Len(planted) \in Nat /\ DOMAIN planted = 1..Len(planted)
         /\ IsSeq(planted') /\ DOMAIN planted' = 1..Len(planted) + 1 /\ Len(planted') = Len(planted) + 1
         /\ \A n \in DOMAIN planted : planted'[n] = planted[n]
         /\ \E path : planted'[Len(planted) + 1] = Generated(path)
<1>1. PICK path : planted' = Append(planted, Generated(path))
  BY DEF Plant
<1> DEFINE g == Generated(path)
<1>2. IsSeq(planted)
  BY DEF Staged
<1> HIDE DEF g
<1>3. /\ Len(planted) \in Nat /\ DOMAIN planted = 1..Len(planted)
      /\ IsSeq(planted') /\ DOMAIN planted' = 1..Len(planted) + 1 /\ Len(planted') = Len(planted) + 1
      /\ \A n \in DOMAIN planted : planted'[n] = planted[n]
      /\ planted'[Len(planted) + 1] = g
  BY <1>1, <1>2, Appended DEF g
<1>4. \E p : planted'[Len(planted) + 1] = Generated(p)
  BY <1>3 DEF g
<1> QED
  BY <1>3, <1>4 DEF Plant, results

\* CorpusComesFirst of the next state.
LEMMA ComesFirstNext ==
  CorpusComesFirst' <=>
    (Planned' => Accounted(Corpus', IF Security' THEN <<>> ELSE Documents(planted'), kept',
                           IF Security' THEN <<>> ELSE Documents(live'), config.filters', dropped',
                           Ids(kept') \cup IF Security' THEN {} ELSE Ids(Documents(live'))))
BY Zenon DEF CorpusComesFirst, Accounted, Documents, Ids

\* The documents of the canaries that are left are what the filters left.
LEMMA LeftAre ==
  ASSUME Staged, Filed, NEW all, NEW names, NEW r, NEW e, Leaving(all, names, r, e)
  PROVE  /\ Documents(live') = r /\ DOMAIN live' = DOMAIN r /\ IsSeq(r)
         /\ e \in [DOMAIN live' -> DOMAIN planted]
         /\ \A n \in DOMAIN live' :
              /\ live'[n].type = planted[e[n]].type /\ live'[n].qid = planted[e[n]].qid
              /\ live'[n].marker = planted[e[n]].marker
<1>1. DOMAIN live' = DOMAIN r /\ IsSeq(r)
  BY DEF Leaving, IsDocs, IsSeq
<1>2. e \in [DOMAIN r -> DOMAIN planted]
  BY DocumentsAre DEF Leaving, Drawn, Staged
<1>3. ASSUME NEW n \in DOMAIN r
      PROVE  /\ live'[n].document = r[n]
             /\ live'[n].type = planted[e[n]].type /\ live'[n].qid = planted[e[n]].qid
             /\ live'[n].marker = planted[e[n]].marker
  <2>1. e[n] \in DOMAIN planted
    BY <1>2
  <2>2. live'[n] = [planted[e[n]] EXCEPT !.document = r[n]] /\ IsAttack(planted[e[n]])
    BY <2>1 DEF Leaving, Filed
  <2> DEFINE a == planted[e[n]]
  <2> HIDE DEF a
  <2>3. live'[n] = [a EXCEPT !.document = r[n]] /\ IsAttack(a)
    BY <2>2 DEF a
  <2>4. /\ live'[n].document = r[n] /\ live'[n].type = a.type /\ live'[n].qid = a.qid
        /\ live'[n].marker = a.marker
    BY <2>3 DEF IsAttack
  <2> QED
    BY <2>4 DEF a
<1> DEFINE q == Documents(live')
<1>4. q = [n \in DOMAIN r |-> r[n]]
  BY <1>1, <1>3 DEF Documents
<1>5. r = [n \in DOMAIN r |-> r[n]]
  BY <1>1 DEF IsSeq
<1> QED
  BY <1>1, <1>2, <1>3, <1>4, <1>5

\* What is filed of an attack.
Filing(a) == IsAttack(a) /\ a.document.id = <<a.document.source, a.document.text>>

\* Every document stays accounted for.
LEMMA FiledStep ==
  ASSUME Staged, Filed, PlantedPathsFresh, [Next]_vars
  PROVE  Filed'
<1> DEFINE filters == config.filters
           one == ApplyFilters(Corpus, filters)
<1>1. config' = config /\ Security' = Security /\ filters' = filters /\ Corpus' = Corpus
  BY SuiteStays DEF Corpus
<1>2. /\ Chained(filters) /\ Len(filters) \in Nat /\ IsDocs(Corpus) /\ IsDocs(Documents(planted))
  BY ConfigIs, IdsApart DEF Staged, Chained
<1>3. CASE Load
  <2>1. /\ planted' = planted /\ phase = "load" /\ phase' \in {"poison", "canary"}
        /\ kept' = one.kept /\ dropped' = one.dropped
    BY <1>3 DEF Load
  <2> HIDE DEF one
  <2>2. one' = one
    BY <1>1 DEF one
  <2> QED
    BY <1>1, <2>1, <2>2 DEF Filed, Planning, one
<1>4. CASE Plant
  <2>1. /\ phase \in {"poison", "injection", "canary"} /\ phase' = phase
        /\ kept' = kept /\ dropped' = dropped
        /\ DOMAIN planted = 1..Len(planted) /\ DOMAIN planted' = 1..Len(planted) + 1
        /\ Len(planted) \in Nat
        /\ \A n \in DOMAIN planted : planted'[n] = planted[n]
    BY <1>4, PlantIs
  <2>2. \E path : planted'[Len(planted) + 1] = Generated(path)
    BY <1>4, PlantIs
  <2>3. Filing(planted'[Len(planted) + 1])
    <3> DEFINE g == planted'[Len(planted) + 1]
    <3>1. PICK path : Generated(path) = g
      BY <2>2
    <3> HIDE DEF g
    <3>2. IsAttack(g) /\ g.document.id = <<g.document.source, g.document.text>>
      BY <2>1, <3>1, GeneratedIs
    <3> QED
      BY <3>2 DEF g, Filing
  <2>4. \A n \in DOMAIN planted' : n \in DOMAIN planted \/ n = Len(planted) + 1
    BY <2>1
  <2>5. \A n \in DOMAIN planted' : Filing(planted'[n])
    <3>1. \A n \in DOMAIN planted : Filing(planted[n])
      BY DEF Filed, Filing
    <3> QED
      BY <2>1, <2>3, <2>4, <3>1
  <2>6. /\ kept' = ApplyFilters(Corpus, filters).kept /\ dropped' = ApplyFilters(Corpus, filters).dropped
    BY <2>1 DEF Filed, Planning
  <2> QED
    BY <1>1, <2>1, <2>5, <2>6 DEF Filed, Planning, Filing
<1>5. CASE BeginInjection
  BY <1>1, <1>5 DEF BeginInjection, Filed, Planning
<1>6. CASE AttacksPlanned
  <2>1. /\ phase = "injection" /\ phase' = "embed" /\ planted' = planted /\ kept' = kept
        /\ dropped' = dropped /\ Security
    BY <1>6 DEF AttacksPlanned, Staged
  <2>2. kept = one.kept /\ dropped = one.dropped
    BY <2>1 DEF Filed, Planning
  <2>3. IsDocs(one.kept) /\ Len(one.dropped) = Len(filters) /\ DOMAIN one.dropped = 1..Len(filters)
    BY <1>2, AppliedIs
  <2>4. /\ Corpus \o <<>> = Corpus /\ one.kept \o <<>> = one.kept /\ IsDocs(<<>>) /\ IsSeq(<<>>)
        /\ Ids(<<>>) = {}
    BY <1>2, <2>3, JoinsEmpty DEF IsDocs, Ids
  <2> DEFINE k == kept
             out == Ids(k) \cup {}
  <2>5. Accounted(Corpus, <<>>, k, <<>>, filters, dropped, out)
    <3> DEFINE e == <<>>
               z == Corpus \o e
               d == dropped
    <3>1. ApplyFilters(z, filters).kept = k \o e
      BY <2>2, <2>4
    <3>2. \A n \in 1..Len(filters) : \A id : id \in Ids(d[n]) <=> id \in Ids(ApplyFilters(z, filters).dropped[n])
      BY <2>2, <2>4
    <3>3. \A id : id \in out <=> id \in Ids(k) \/ id \in Ids(e)
      BY <2>4
    <3>4. IsDocs(e) /\ IsSeq(e) /\ IsSeq(k) /\ DOMAIN d = 1..Len(filters)
      BY <2>2, <2>3, <2>4 DEF IsDocs
    <3> HIDE DEF e, d, k, out, filters
    <3>5. Accounted(Corpus, e, k, e, filters, d, out)
      BY <1>2, <3>1, <3>2, <3>3, <3>4, AccountedIs DEF z
    <3> QED
      BY <3>5 DEF e, d
  <2>6. CorpusComesFirst'
    BY <1>1, <2>1, <2>5, ComesFirstNext
  <2> QED
    BY <1>1, <2>1, <2>2, <2>3, <2>6 DEF Filed, Planning
<1>7. CASE CanariesPlanned
  <2> DEFINE batch == Documents(planted)
             z == Corpus \o batch
             all == ApplyFilters(z, filters)
  <2>1. /\ phase = "canary" /\ phase' \in {"embed", "failed"} /\ planted' = planted /\ kept' = kept
        /\ ~Security
    BY <1>7 DEF CanariesPlanned, Staged
  <2>2. PICK r, e : Leaving(all, filters, r, e)
    BY <1>7, CanariesLeave
  <2>3. Documents(live') = r
    BY <2>2, LeftAre
  <2> DEFINE out == Ids(kept) \cup Ids(r)
  <2>4. Accounted(Corpus, batch, kept, r, filters, dropped', out)
    <3> DEFINE d == dropped'
               k == kept
    <3>1. /\ all.kept = k \o r /\ DOMAIN d = 1..Len(filters) /\ IsSeq(k) /\ IsSeq(r)
          /\ \A n \in 1..Len(filters) : \A id : id \in Ids(d[n]) <=> id \in Ids(all.dropped[n])
      BY <2>2 DEF Leaving, IsDocs
    <3>2. \A id : id \in out <=> id \in Ids(k) \/ id \in Ids(r)
      OBVIOUS
    <3> HIDE DEF d, k, out, filters, batch
    <3>3. Accounted(Corpus, batch, k, r, filters, d, out)
      BY <1>2, <3>1, <3>2, AccountedIs DEF batch
    <3> QED
      BY <3>3 DEF d, k
  <2>5. CorpusComesFirst'
    BY <1>1, <2>1, <2>3, <2>4, ComesFirstNext
  <2>6. Len(dropped') = Len(filters)
    BY <2>2 DEF Leaving
  <2> QED
    BY <1>1, <2>1, <2>5, <2>6 DEF Filed, Planning
<1>8. CASE UNCHANGED vars
  <2>1. CorpusComesFirst' <=> CorpusComesFirst
    BY <1>1, <1>8, ComesFirst, ComesFirstNext DEF vars, plan, Planned
  <2> QED
    BY <1>1, <1>8, <2>1 DEF Filed, vars, plan, Planning
<1>9. CASE ~Planning
  <2>1. /\ Planned /\ Planned' /\ ~Planning'
        /\ kept' = kept /\ dropped' = dropped /\ planted' = planted /\ live' = live
    BY <1>9, LaterStays DEF Staged
  <2>2. CorpusComesFirst' <=> CorpusComesFirst
    BY <1>1, <2>1, ComesFirst, ComesFirstNext
  <2> QED
    BY <1>1, <1>9, <2>1, <2>2 DEF Filed, Planning
<1>10. CASE Planning
  BY <1>3, <1>4, <1>5, <1>6, <1>7, <1>8, <1>10, PlanningSteps
<1> QED
  BY <1>9, <1>10

-----------------------------------------------------------------------------
(* The index and the answers under way.                                    *)

\* What is drawn is drawn from itself.
LEMMA DrawnSelf ==
  ASSUME NEW s, IsSeq(s)
  PROVE  Drawn(s, s, [n \in DOMAIN s |-> n])
<1>1. DOMAIN s = 1..Len(s) /\ Len(s) \in Nat
  BY DEF IsSeq
<1> QED
  BY <1>1 DEF Drawn

\* What is indexed stays what the filters left of the plan.
LEMMA SurvivingStep ==
  ASSUME Staged, Filed, Surviving, PlantedPathsFresh, [Next]_vars
  PROVE  Surviving'
<1> DEFINE Kinship(d, e) ==
             /\ e \in [DOMAIN d -> DOMAIN planted]
             /\ Drawn(Documents(d), Documents(planted), e)
             /\ \A n \in DOMAIN d :
                  /\ d[n].type = planted[e[n]].type /\ d[n].qid = planted[e[n]].qid
                  /\ d[n].marker = planted[e[n]].marker
<1>1. config' = config /\ Security' = Security
  BY SuiteStays
<1>2. /\ Chained(config.filters) /\ Len(config.filters) \in Nat
      /\ IsDocs(Corpus) /\ IsDocs(Documents(planted)) /\ IsSeq(planted)
  BY ConfigIs, IdsApart DEF Staged, Chained
<1>3. CASE ~Planning
  <2>1. /\ ~Planning' /\ planted' = planted /\ live' = live
        /\ phase = "failed" => phase' = "failed"
        /\ phase \in {"embed", "trial", "failed", "control", "done", "read"}
    BY <1>3, LaterStays DEF Staged, Planned, Done
  <2>2. phase' \in {"embed", "trial", "done"} => phase \in {"embed", "trial", "done"} \/ Security
    BY <2>1 DEF Staged
  <2> QED
    BY <1>1, <1>3, <2>1, <2>2 DEF Surviving
<1>4. CASE AttacksPlanned
  <2>1. live' = planted /\ planted' = planted /\ phase' = "embed" /\ Security
    BY <1>4 DEF AttacksPlanned, Staged
  <2> DEFINE e == [n \in DOMAIN planted |-> n]
  <2>2. Kinship(planted, e)
    <3>1. DOMAIN Documents(planted) = DOMAIN planted /\ IsSeq(Documents(planted))
      BY <1>2, DocumentsAre
    <3>2. Drawn(Documents(planted), Documents(planted), e)
      BY <3>1, DrawnSelf
    <3> QED
      BY <3>2
  <2>3. \E x : Kinship(planted, x)
    BY <2>2
  <2> HIDE DEF e
  <2> QED
    BY <1>1, <1>2, <2>1, <2>3 DEF Surviving, Planning
<1>5. CASE CanariesPlanned
  <2> DEFINE all == ApplyFilters(Corpus \o Documents(planted), config.filters)
  <2>1. /\ phase' \in {"embed", "failed"} /\ planted' = planted /\ ~Security
    BY <1>5 DEF CanariesPlanned, Staged
  <2>2. PICK r, e : Leaving(all, config.filters, r, e)
    BY <1>5, CanariesLeave
  <2>3. IsDocs(Corpus \o Documents(planted))
    BY <1>2, DocsJoin
  <2>4. (\E k \in 1..Len(config.filters) : config.filters[k] = "pii") => NoSecret(all.kept)
    <3> DEFINE z == Corpus \o Documents(planted)
    <3> HIDE DEF z
    <3>1. (\E k \in 1..Len(config.filters) : config.filters[k] = "pii")
             => NoSecret(ApplyFilters(z, config.filters).kept)
      BY <1>2, <2>3, AppliedIs DEF z
    <3> QED
      BY <3>1 DEF z
  <2> HIDE DEF all
  <2>5. Documents(live') = r /\ Kinship(live', e) /\ IsSeq(live') /\ IsDocs(r)
    <3>1. /\ Documents(live') = r /\ e \in [DOMAIN live' -> DOMAIN planted]
          /\ \A n \in DOMAIN live' :
               /\ live'[n].type = planted[e[n]].type /\ live'[n].qid = planted[e[n]].qid
               /\ live'[n].marker = planted[e[n]].marker
      BY <2>2, LeftAre
    <3>2. Drawn(r, Documents(planted), e) /\ IsSeq(live') /\ IsDocs(r)
      BY <2>2 DEF Leaving
    <3> QED
      BY <3>1, <3>2
  <2>6. "pii" \in ToSet(config.filters) => NoSecret(r)
    <3> HAVE "pii" \in ToSet(config.filters)
    <3>1. DOMAIN config.filters = 1..Len(config.filters)
      BY ConfigsAssumption DEF ConfigsAssumption, Staged
    <3>2. NoSecret(all.kept)
      BY <2>4, <3>1 DEF ToSet
    <3>3. all.kept = kept \o r /\ IsSeq(kept) /\ IsSeq(r)
      BY <2>2 DEF Leaving, IsDocs
    <3>4. /\ DOMAIN (kept \o r) = 1..Len(kept) + Len(r)
          /\ \A n \in DOMAIN r : (kept \o r)[Len(kept) + n] = r[n]
          /\ Len(kept) \in Nat /\ Len(r) \in Nat /\ DOMAIN r = 1..Len(r)
      BY <3>3, Joins DEF IsSeq
    <3> DEFINE j == kept \o r
    <3> HIDE DEF j
    <3>5. \A n \in DOMAIN r : Len(kept) + n \in DOMAIN j /\ j[Len(kept) + n] = r[n]
      BY <3>4 DEF j
    <3>6. NoSecret(j)
      BY <3>2, <3>3 DEF j
    <3> QED
      BY <3>5, <3>6 DEF NoSecret
  <2>7. phase' # "failed" => live' # <<>>
    BY <2>2 DEF Leaving
  <2>8. \E x : Kinship(live', x)
    BY <2>5
  <2> QED
    BY <1>1, <2>1, <2>5, <2>6, <2>7, <2>8 DEF Surviving, Planning
<1>6. CASE Planning /\ live' = live /\ (Plant \/ planted' = planted) /\ Planning'
  <2>1. live = <<>> /\ live' = <<>> /\ DOMAIN live' = {}
    BY <1>6 DEF Surviving
  <2> DEFINE e == [n \in {} |-> n]
             q == Documents(live')
  <2>2. q = <<>>
    BY <2>1 DEF Documents
  <2>3. Drawn(q, Documents(planted'), e) /\ e \in [{} -> DOMAIN planted']
    BY <2>2 DEF Drawn
  <2> HIDE DEF e
  <2>4. IsDocs(q) /\ IsSeq(live') /\ NoSecret(q)
    <3>1. IsSeq(<<>>)
      BY DEF IsSeq
    <3>2. IsDocs(<<>>) /\ NoSecret(<<>>)
      BY <3>1 DEF IsDocs, NoSecret
    <3> QED
      BY <2>1, <2>2, <3>1, <3>2
  <2>5. phase' \notin {"embed", "trial", "done"}
    BY <1>6 DEF Planning
  <2>6. \E x \in [DOMAIN live' -> DOMAIN planted'] :
          /\ Drawn(Documents(live'), Documents(planted'), x)
          /\ \A n \in DOMAIN live' :
               /\ live'[n].type = planted'[x[n]].type /\ live'[n].qid = planted'[x[n]].qid
               /\ live'[n].marker = planted'[x[n]].marker
    BY <2>1, <2>3
  <2> QED
    BY <1>1, <1>6, <2>1, <2>2, <2>4, <2>5, <2>6 DEF Surviving
<1>7. CASE Planning
  <2>1. Load \/ Plant \/ BeginInjection \/ UNCHANGED vars =>
          live' = live /\ (Plant \/ planted' = planted) /\ Planning'
    BY <1>7 DEF Load, Plant, BeginInjection, vars, plan, Planning
  <2> QED
    BY <1>4, <1>5, <1>6, <1>7, <2>1, PlanningSteps
<1> QED
  BY <1>3, <1>7

\* The documents an index is made of are well-formed.
LEMMA SourcedAre ==
  ASSUME Staged, Filed, Surviving, phase # "load", NEW redact
  PROVE  IsDocs(kept) /\ IsDocs(kept \o Documents(live)) /\ IsDocs(Sourced(redact))
<1>1. IsDocs(kept)
  <2>1. kept = ApplyFilters(Corpus, config.filters).kept
    BY DEF Filed
  <2>2. IsDocs(Corpus) /\ Chained(config.filters)
    BY CorpusIs, ConfigIs DEF Staged
  <2> QED
    BY <2>1, <2>2, AppliedIs
<1>2. IsDocs(kept \o Documents(live))
  BY <1>1, DocsJoin DEF Surviving
<1>3. IsDocs(Redact(kept \o Documents(live)))
  <2> DEFINE z == kept \o Documents(live)
  <2> HIDE DEF z
  <2>1. IsDocs(Redact(z))
    BY <1>2, RedactIs DEF z
  <2> QED
    BY <2>1 DEF z
<1> QED
  BY <1>1, <1>2, <1>3 DEF Sourced

\* The trials are those of what is indexed.
LEMMA JobsStay ==
  ASSUME config' = config, live' = live
  PROVE  Jobs' = Jobs /\ (records' = records => Job' = Job)
<1>1. Jobs' = Jobs
  BY Zenon DEF Jobs
<1> QED
  BY <1>1 DEF Job

\* An index is built of what is kept, for the condition of its trials.
LEMMA BuiltStep ==
  ASSUME Staged, IsSeq(records), Surviving, Built, [Next]_vars
  PROVE  Built'
<1> DEFINE Made(redact) == Chunks(Sourced(redact), config.chunker, "trusted_corpus")
<1>1. config' = config /\ Security' = Security
  BY SuiteStays
<1>2. CASE Planning
  <2>1. index' = index /\ index = {} /\ phase' # "trial"
    <3>1. index = {}
      BY <1>2 DEF Built
    <3>2. index' = index /\ phase' # "trial"
      BY <1>2, PlanningSteps DEF Load, Plant, BeginInjection, AttacksPlanned, CanariesPlanned, vars, Planning
    <3> QED
      BY <3>1, <3>2
  <2> QED
    BY <2>1 DEF Built
<1>3. ASSUME ~Planning
      PROVE  /\ ~Planning' /\ kept' = kept /\ live' = live /\ Jobs' = Jobs
             /\ \A redact : Sourced(redact)' = Sourced(redact)
  <2>1. ~Planning' /\ kept' = kept /\ live' = live /\ Jobs' = Jobs
    <3>1. ~Planning' /\ kept' = kept /\ live' = live
      BY <1>3, LaterStays DEF Staged
    <3>2. Jobs' = Jobs
      BY <1>1, <3>1, JobsStay
    <3> QED
      BY <3>1, <3>2
  <2>2. Documents(live)' = Documents(live)
    BY <2>1 DEF Documents
  <2> QED
    BY <2>1, <2>2 DEF Sourced
<1>4. CASE Embed
  <2> DEFINE z == kept \o Documents(live)
             redact == ~Security /\ Job.defense = "pii_filter"
  <2>1. /\ index' = Chunks(IF redact THEN Redact(z) ELSE z, config.chunker, "trusted_corpus")
        /\ records' = records /\ phase = "embed"
    BY <1>4 DEF Embed
  <2>2. ~Planning
    BY <2>1 DEF Planning
  <2>3. index' = Made(Redacting) /\ Redacting \in BOOLEAN /\ (Redacting => ~Security)
    BY <2>1 DEF Redacting, Sourced
  <2>4. Redacting' = Redacting
    BY <1>1, <1>3, <2>1, <2>2, JobsStay DEF Redacting
  <2>5. Sourced(Redacting)' = Sourced(Redacting)
    BY <1>3, <2>2, <2>4 DEF Sourced
  <2>6. \E r \in BOOLEAN : (r => ~Security') /\ index' = Chunks(Sourced(r)', config'.chunker, "trusted_corpus")
    BY <1>1, <1>3, <2>2, <2>3
  <2>7. index' = Chunks(Sourced(Redacting)', config'.chunker, "trusted_corpus")
    BY <1>1, <2>3, <2>5
  <2> QED
    BY <1>3, <2>2, <2>6, <2>7 DEF Built
<1>5. CASE Answered
  <2>1. /\ phase = "trial" /\ index' = index /\ \E r : records' = Append(records, r)
        /\ phase' = IF /\ ~Security /\ Len(records) + 1 < Len(Jobs)
                       /\ Jobs[Len(records) + 2].defense # Job.defense
                    THEN "embed" ELSE "trial"
    BY <1>5 DEF Answered
  <2>2. ~Planning
    BY <2>1 DEF Planning
  <2>3. Len(records') = Len(records) + 1 /\ Len(records) \in Nat /\ Len(Jobs) \in Nat
    BY <2>1, Appended, JobsAre DEF Staged, Surviving, IsSeq
  <2>4. ASSUME phase' = "trial", Len(records') < Len(Jobs)'
        PROVE  index' = Made(Redacting) /\ Redacting' = Redacting
    <3>1. Len(records) < Len(Jobs) /\ Len(records) + 1 < Len(Jobs)
      BY <1>3, <2>2, <2>3, <2>4
    <3>2. index = Made(Redacting)
      BY <2>1, <3>1 DEF Built
    <3>3. Security \/ Jobs[Len(records) + 2].defense = Job.defense
      BY <2>1, <2>4, <3>1
    <3>4. Job' = Jobs[Len(records) + 2]
      BY <1>3, <2>2, <2>3 DEF Job
    <3> QED
      BY <1>1, <2>1, <3>2, <3>3, <3>4 DEF Redacting
  <2>5. phase' = "trial" /\ Len(records') < Len(Jobs)' =>
          index' = Chunks(Sourced(Redacting)', config'.chunker, "trusted_corpus")
    BY <1>1, <1>3, <2>2, <2>4 DEF Sourced
  <2>6. index' # {} => \E r \in BOOLEAN :
          (r => ~Security') /\ index' = Chunks(Sourced(r)', config'.chunker, "trusted_corpus")
    BY <1>1, <1>3, <2>1, <2>2 DEF Built
  <2> QED
    BY <1>3, <2>2, <2>5, <2>6 DEF Built
<1>6. CASE ~Planning /\ index' = index /\ records' = records /\ (phase' = phase \/ phase' # "trial")
  <2>1. Redacting' = Redacting /\ Jobs' = Jobs
    BY <1>1, <1>3, <1>6, JobsStay DEF Redacting
  <2>2. phase' = "trial" /\ Len(records') < Len(Jobs)' =>
          index' = Chunks(Sourced(Redacting)', config'.chunker, "trusted_corpus")
    BY <1>1, <1>3, <1>6, <2>1 DEF Sourced, Built
  <2>3. index' # {} => \E r \in BOOLEAN :
          (r => ~Security') /\ index' = Chunks(Sourced(r)', config'.chunker, "trusted_corpus")
    BY <1>1, <1>3, <1>6 DEF Built
  <2> QED
    BY <1>3, <1>6, <2>2, <2>3 DEF Built
<1>7. CASE ~Planning
  <2>1. Ask \/ BeginControls \/ Control \/ Controlled \/ Aggregate \/ AggregatePrivacy \/ ReadBack
          \/ UNCHANGED vars =>
          index' = index /\ records' = records /\ (phase' = phase \/ phase' # "trial")
    BY DEF Ask, BeginControls, Control, Controlled, Aggregate, AggregatePrivacy, ReadBack, vars
  <2>2. ~(Load \/ Plant \/ BeginInjection \/ AttacksPlanned \/ CanariesPlanned)
    BY <1>7 DEF Load, Plant, BeginInjection, AttacksPlanned, CanariesPlanned, Planning
  <2> QED
    BY <1>4, <1>5, <1>6, <1>7, <2>1, <2>2 DEF Next
<1> QED
  BY <1>2, <1>7

\* An answer that is asked for has been through its defenses.
LEMMA PoseIs ==
  ASSUME NEW question, NEW chunks, IsFiniteSet(chunks), NEW ds, Pose(question, chunks, ds)
  PROVE  flight' # None /\ Posing(flight', question, chunks, ds)
<1>1. PICK ranked \in Contexts(chunks) :
        LET d == Defended(ranked, ds)
        IN  flight' = [is |-> "trial", of |-> question, ranked |-> ranked,
                       context |-> d.context, abstained |-> d.abstain, said |-> d.said]
  BY DEF Pose
<1> DEFINE f == flight'
<1>2. /\ f.is = "trial" /\ f.of = question /\ f.ranked = ranked
      /\ f.context = Defended(ranked, ds).context /\ f.abstained = Defended(ranked, ds).abstain
      /\ f.said = Defended(ranked, ds).said
  BY <1>1
<1>3. /\ IsSeq(ranked) /\ ToSet(ranked) \subseteq chunks
      /\ \A m, n \in DOMAIN ranked : ranked[m] = ranked[n] => m = n
  BY ContextsAre
<1>4. f # None
  BY <1>2 DEF None
<1> HIDE DEF f
<1>5. Posing(f, question, chunks, ds)
  BY <1>2, <1>3 DEF Posing
<1> QED
  BY <1>4, <1>5 DEF f

\* Nothing but a trial or a control leaves an answer under way.
LEMMA PosedStep ==
  ASSUME Staged, Filed, Surviving, Built, Posed, [Next]_vars
  PROVE  Posed'
<1>1. config' = config /\ Security' = Security
  BY SuiteStays
<1>2. CASE Ask
  <2>1. /\ phase = "trial" /\ phase' = phase /\ Len(records) < Len(Jobs) /\ records' = records
        /\ index' = index /\ live' = live
        /\ Pose(Job, index, IF Security THEN {Job.defense} ELSE {})
    BY <1>2 DEF Ask, plan
  <2> DEFINE ds == IF Security THEN {Job.defense} ELSE {}
  <2>2. IsFiniteSet(index)
    <3>1. CASE index = {}
      BY <3>1, FS_EmptySet
    <3>2. CASE index # {}
      <4>1. PICK redact \in BOOLEAN : index = Chunks(Sourced(redact), config.chunker, "trusted_corpus")
        BY <3>2 DEF Built
      <4>2. IsDocs(Sourced(redact))
        BY <2>1, SourcedAre
      <4> QED
        BY <4>1, <4>2, FiniteChunks
    <3> QED
      BY <3>1, <3>2
  <2>3. flight' # None /\ Posing(flight', Job, index, ds)
    <3> HIDE DEF ds
    <3>1. Pose(Job, index, ds)
      BY <2>1 DEF ds
    <3> QED
      BY <2>2, <3>1, PoseIs
  <2>4. Job' = Job /\ Jobs' = Jobs
    BY <1>1, <2>1, JobsStay
  <2>5. flight'.of = Job
    BY <2>3 DEF Posing
  <2> QED
    BY <1>1, <2>1, <2>3, <2>4, <2>5 DEF Posed
<1>3. CASE Control
  <2> DEFINE q == [qid |-> todo[1].qid, defense |-> todo[1].defense]
             ds == {todo[1].defense}
  <2>1. /\ phase = "control" /\ phase' = phase /\ kept' = kept /\ Security
        /\ Pose(q, CleanChunks, ds)
    BY <1>3 DEF Control, Staged
  <2>2. IsFiniteSet(CleanChunks)
    <3>1. IsDocs(kept)
      BY <2>1, SourcedAre
    <3> QED
      BY <3>1, FiniteChunks DEF CleanChunks
  <2>3. q.defense = todo[1].defense
    OBVIOUS
  <2> HIDE DEF q
  <2>4. ds = {q.defense}
    BY <2>3
  <2> HIDE DEF ds
  <2>5. flight' # None /\ Posing(flight', q, CleanChunks, ds)
    BY <2>1, <2>2, PoseIs
  <2>6. flight'.of = q
    BY <2>5 DEF Posing
  <2>7. CleanChunks' = CleanChunks
    BY <1>1, <2>1 DEF CleanChunks
  <2> QED
    BY <1>1, <2>1, <2>4, <2>5, <2>6, <2>7 DEF Posed
<1>4. CASE Answered \/ Controlled
  BY <1>4 DEF Answered, Controlled, Posed
<1>5. CASE UNCHANGED vars
  <2>1. Jobs' = Jobs /\ Job' = Job
    BY <1>5, JobsStay DEF vars, plan
  <2>2. CleanChunks' = CleanChunks
    BY <1>5 DEF vars, plan, CleanChunks
  <2> QED
    BY <1>1, <1>5, <2>1, <2>2 DEF vars, plan, Posed
<1>6. CASE Load \/ Plant \/ BeginInjection \/ AttacksPlanned \/ CanariesPlanned \/ Embed
  <2>1. flight' = flight
    BY <1>6 DEF Load, Plant, BeginInjection, AttacksPlanned, CanariesPlanned, Embed
  <2>2. Planning \/ phase = "embed"
    BY <1>6 DEF Load, Plant, BeginInjection, AttacksPlanned, CanariesPlanned, Embed, Planning
  <2> QED
    BY <2>1, <2>2 DEF Staged, Posed
<1>7. CASE BeginControls \/ Aggregate \/ AggregatePrivacy \/ ReadBack
  <2>1. flight' = flight /\ (flight = None \/ phase = "done")
    BY <1>7 DEF BeginControls, Aggregate, AggregatePrivacy, ReadBack
  <2> QED
    BY <2>1 DEF Posed
<1> QED
  BY <1>2, <1>3, <1>4, <1>5, <1>6, <1>7 DEF Next

-----------------------------------------------------------------------------
(* Markers.                                                                *)

\* What the corpora and suites of the configurations say of the markers.
LEMMA MarkersAre ==
  /\ \A m, n \in 0..Cardinality(Questions) - 1 : Sentinel(m) = Sentinel(n) => m = n
  /\ \A p, q \in Questions : Token(p) = Token(q) => p = q
  /\ \A n \in 0..Cardinality(Questions) - 1, q \in Questions : Sentinel(n) # Token(q)
  /\ \A c \in Configs : c.suite # "security" =>
       \A j, k \in ToSet(c.kinds), m, n \in 0..c.canaries - 1 :
         Secret(j, m) = Secret(k, n) \/ Embeds(Secret(j, m), Secret(k, n)) => m = n
BY MarkersAssumption

\* The corpus says no marker.
LEMMA CorpusSays ==
  ASSUME NEW c \in Configs, NEW f \in ToSet(c.files), NEW w \in ToSet(f.text), Quotable(w)
  PROVE  \A m \in Markers(c) : ~Embeds(w.what, m)
BY MarkersAssumption DEF Quotable

\* Documents planted at different times have different markers, unless both are
\* injections for one question.
LEMMA MarkersApart ==
  ASSUME config \in Configs, NEW a, NEW b, NEW m \in Nat, NEW n \in Nat, 1 <= m, m < n,
         Telling(a, m), Telling(b, n),
         a.type = "injection" /\ b.type = "injection" => a.qid # b.qid
  PROVE  a.marker # b.marker
<1>1. Cardinality(Questions) \in Nat
  BY FiniteQuestions
<1>2. CASE Security
  <2>1. a.type \in {"poison", "injection"} /\ b.type \in {"poison", "injection"}
    BY <1>2 DEF Telling
  <2>2. a.type = "poison" => a.marker = Sentinel(m - 1) /\ m - 1 \in 0..Cardinality(Questions) - 1
    BY <1>1 DEF Telling
  <2>3. b.type = "poison" => b.marker = Sentinel(n - 1) /\ n - 1 \in 0..Cardinality(Questions) - 1
    BY <1>1 DEF Telling
  <2>4. /\ a.type = "injection" => a.marker = Token(a.qid) /\ a.qid \in Questions
        /\ b.type = "injection" => b.marker = Token(b.qid) /\ b.qid \in Questions
    BY DEF Telling
  <2>5. m - 1 # n - 1
    OBVIOUS
  <2> DEFINE i == m - 1
             j == n - 1
  <2> HIDE DEF i, j
  <2>6. /\ a.type = "poison" => a.marker = Sentinel(i) /\ i \in 0..Cardinality(Questions) - 1
        /\ b.type = "poison" => b.marker = Sentinel(j) /\ j \in 0..Cardinality(Questions) - 1
        /\ i # j
    BY <2>2, <2>3, <2>5 DEF i, j
  <2> QED
    BY <2>1, <2>4, <2>6, MarkersAre
<1>3. CASE ~Security
  <2>1. a.type = "canary" /\ b.type = "canary" /\ config.suite # "security"
    BY <1>3 DEF Telling, Security
  <2>2. config.canaries \in Nat
    BY <2>1, ConfigsAssumption
  <2>3. PICK k \in ToSet(config.kinds) : a.marker = Secret(k, m - 1)
    BY <2>1 DEF Telling
  <2>4. PICK l \in ToSet(config.kinds) : b.marker = Secret(l, n - 1)
    BY <2>1 DEF Telling
  <2>5. m - 1 \in 0..config.canaries - 1 /\ n - 1 \in 0..config.canaries - 1 /\ m - 1 # n - 1
    BY <2>1, <2>2 DEF Telling
  <2> DEFINE i == m - 1
             j == n - 1
             u == config.canaries - 1
  <2> HIDE DEF i, j
  <2>6. a.marker = Secret(k, i) /\ b.marker = Secret(l, j) /\ i \in 0..u /\ j \in 0..u /\ i # j
    BY <2>3, <2>4, <2>5 DEF i, j
  <2> QED
    BY <2>1, <2>6, MarkersAre
<1> QED
  BY <1>2, <1>3

\* The marker of a planted document is one of those the suite may plant.
LEMMA TellingMarks ==
  ASSUME config \in Configs, NEW a, NEW n \in Nat, 1 <= n, Telling(a, n)
  PROVE  a.marker \in Markers(config)
<1>1. CASE Security
  <2>1. Markers(config) = {Sentinel(m) : m \in 0..Cardinality(Questions) - 1} \cup {Token(q) : q \in Questions}
    BY <1>1 DEF Markers, Security
  <2>2. CASE a.type = "poison"
    <3>1. n <= Cardinality(Questions) /\ a.marker = Sentinel(n - 1)
      BY <2>2 DEF Telling
    <3>2. n - 1 \in 0..Cardinality(Questions) - 1
      BY <3>1, FiniteQuestions
    <3> QED
      BY <2>1, <3>1, <3>2
  <2>3. CASE a.type = "injection"
    <3>1. a.qid \in Questions /\ a.marker = Token(a.qid)
      BY <2>3 DEF Telling
    <3> QED
      BY <2>1, <3>1
  <2> QED
    BY <1>1, <2>2, <2>3 DEF Telling
<1>2. CASE ~Security
  <2>1. Markers(config) = {Secret(k, m) : k \in ToSet(config.kinds), m \in 0..config.canaries - 1}
    BY <1>2 DEF Markers, Security
  <2>2. a.type = "canary" /\ n <= config.canaries /\ config.canaries \in Nat
    BY <1>2, ConfigsAssumption DEF Telling, Security
  <2>3. PICK k \in ToSet(config.kinds) : a.marker = Secret(k, n - 1)
    BY <2>2 DEF Telling
  <2>4. n - 1 \in 0..config.canaries - 1
    BY <2>2
  <2> QED
    BY <2>1, <2>3, <2>4
<1> QED
  BY <1>1, <1>2

\* What a planted document tells does not change.
LEMMA TellingStays ==
  ASSUME config' = config
  PROVE  \A a, n : Telling(a, n)' <=> Telling(a, n)
<1>1. Security' = Security
  BY DEF Security
<1> QED
  BY <1>1 DEF Telling

\* Canaries take their kinds in turn.
LEMMA KindsAre ==
  ASSUME config \in Configs, ~Security, NEW s,
         s = [n \in 1..config.canaries |-> config.kinds[((n - 1) % Len(config.kinds)) + 1]]
  PROVE  IsSeq(s) /\ Len(s) = config.canaries /\ \A n \in DOMAIN s : s[n] \in ToSet(config.kinds)
<1>1. /\ config.canaries \in Nat /\ config.kinds \in Seq(ToSet(config.kinds)) /\ config.kinds # <<>>
  BY ConfigsAssumption DEF Security
<1> DEFINE N == config.canaries
           kinds == config.kinds
           S == ToSet(kinds)
           L == Len(kinds)
<1>2. L \in Nat \ {0} /\ DOMAIN kinds = 1..L /\ \A n \in DOMAIN kinds : kinds[n] \in S
  BY <1>1
<1>3. \A n \in 1..N : ((n - 1) % L) + 1 \in 1..L
  <2>1. \A x \in Nat, l \in Nat \ {0} : (x % l) + 1 \in 1..l
    OBVIOUS
  <2> TAKE n \in 1..N
  <2>2. n - 1 \in Nat
    BY <1>1
  <2> QED
    BY <1>2, <2>1, <2>2
<1>4. s = [n \in 1..N |-> kinds[((n - 1) % L) + 1]]
  OBVIOUS
<1>5. N \in Nat
  BY <1>1
<1> HIDE DEF N, kinds, S, L
<1>6. s \in [1..N -> S]
  BY <1>2, <1>3, <1>4
<1>7. s \in Seq(S) /\ DOMAIN s = 1..N /\ Len(s) = N
  BY <1>5, <1>6, ArrayIs
<1>8. IsSeq(s)
  BY <1>7, SequenceIs
<1>9. Len(s) = N
  <2>1. DOMAIN s = 1..Len(s) /\ Len(s) \in Nat
    BY <1>8, Extent
  <2>2. \A i, j \in Nat : 1..i = 1..j => i = j
    OBVIOUS
  <2> QED
    BY <1>5, <1>7, <2>1, <2>2
<1> QED
  BY <1>6, <1>7, <1>8, <1>9 DEF N, S, kinds

\* The next marker is that of no document before.
LEMMA CoinedPlant ==
  ASSUME Staged, Coined, Plant, config' = config
  PROVE  Coined'
<1> DEFINE L == Len(planted)
           g == planted'[L + 1]
<1>1. /\ phase \in {"poison", "injection", "canary"} /\ phase' = phase
      /\ todo # <<>> /\ todo' = Tail(todo)
      /\ L \in Nat /\ DOMAIN planted = 1..L /\ DOMAIN planted' = 1..L + 1 /\ Len(planted') = L + 1
      /\ \A n \in DOMAIN planted : planted'[n] = planted[n]
  BY PlantIs
<1>2. PICK path : Generated(path) = g
  BY PlantIs
<1> HIDE DEF g
<1>3. /\ g.type = phase
      /\ \A w \in ToSet(g.document.text) : Quotable(w) => w.what = g.marker
      /\ phase = "poison" => g.marker = Sentinel(Placed) /\ g.qid = todo[1]
      /\ phase = "injection" => g.marker = Token(todo[1]) /\ g.qid = todo[1]
      /\ phase = "canary" =>
           /\ g.marker = Secret(todo[1], Placed) /\ g.qid = g.marker
           /\ \A w \in ToSet(g.document.text) : Quotable(w) => w.is = "secret"
  BY <1>1, <1>2, GeneratedIs
<1>4. IsSeq(todo)
  BY <1>1 DEF Coined
<1>5. /\ IsSeq(todo') /\ 1 \in DOMAIN todo /\ Len(todo) \in Nat \ {0} /\ Len(todo') = Len(todo) - 1
      /\ \A n \in DOMAIN todo' : n + 1 \in DOMAIN todo /\ n + 1 # 1 /\ n \in Nat /\ todo'[n] = todo[n + 1]
  BY <1>1, <1>4, TailIs
<1>6. \A n \in DOMAIN planted : Telling(planted[n], n)
  BY DEF Coined
<1>7. phase = "poison" \/ phase = "canary" => Placed = L
  <2> HAVE phase = "poison" \/ phase = "canary"
  <2>1. \A n \in DOMAIN planted : planted[n].type = phase
    <3>1. CASE phase = "poison"
      BY <3>1 DEF Coined
    <3>2. CASE phase = "canary"
      <4>1. ~Security
        BY <3>2 DEF Staged
      <4> QED
        BY <3>2, <4>1, <1>6 DEF Telling
    <3> QED
      BY <3>1, <3>2
  <2> QED
    BY <2>1, PlacedIs
<1>8. Telling(g, L + 1)
  <2>1. CASE phase = "poison"
    <3>1. L + 1 <= Cardinality(Questions)
      BY <1>1, <1>5, <2>1, FiniteQuestions DEF Coined
    <3>2. Security /\ L + 1 - 1 = L
      BY <1>1, <2>1 DEF Staged
    <3> QED
      BY <1>3, <1>7, <2>1, <3>1, <3>2 DEF Telling
  <2>2. CASE phase = "injection"
    <3>1. todo[1] \in Questions /\ Security
      BY <1>5, <2>2 DEF Coined, Staged
    <3> QED
      BY <1>3, <2>2, <3>1 DEF Telling
  <2>3. CASE phase = "canary"
    <3>1. ~Security /\ todo[1] \in ToSet(config.kinds) /\ L + 1 - 1 = L
      BY <1>1, <1>5, <2>3 DEF Coined, Staged
    <3>2. L + 1 <= config.canaries
      BY <1>1, <1>5, <2>3 DEF Coined
    <3>3. g.marker = Secret(todo[1], (L + 1) - 1)
      BY <1>3, <1>7, <2>3, <3>1
    <3>4. \E k \in ToSet(config.kinds) : g.marker = Secret(k, (L + 1) - 1)
      BY <3>1, <3>3
    <3>5. g.type = "canary" /\ g.qid = g.marker
      BY <1>3, <2>3
    <3>6. /\ \A w \in ToSet(g.document.text) : Quotable(w) => w.is = "secret"
          /\ \A w \in ToSet(g.document.text) : Quotable(w) => w.what = g.marker
      BY <1>3, <2>3
    <3> QED
      BY <3>1, <3>2, <3>4, <3>5, <3>6 DEF Telling
  <2> QED
    BY <1>1, <2>1, <2>2, <2>3
<1>9. \A m \in DOMAIN planted : planted[m].marker # g.marker
  <2> TAKE m \in DOMAIN planted
  <2>1. planted[m].type = "injection" /\ g.type = "injection" => planted[m].qid # g.qid
    BY <1>3, <1>5 DEF Coined
  <2>2. m \in Nat /\ 1 <= m /\ m < L + 1 /\ L + 1 \in Nat
    BY <1>1
  <2>3. Telling(planted[m], m) /\ config \in Configs
    BY <1>6 DEF Staged
  <2> DEFINE a == planted[m]
             k == L + 1
  <2> HIDE DEF a, k
  <2>4. a.marker # g.marker
    BY <1>8, <2>1, <2>2, <2>3, MarkersApart DEF a, k
  <2> QED
    BY <2>4 DEF a
<1>10. \A n \in DOMAIN planted' : n \in DOMAIN planted \/ n = L + 1
  BY <1>1
<1>11. planted'[L + 1] = g
  BY DEF g
<1> HIDE DEF L
<1>12. \A n \in DOMAIN planted' : Telling(planted'[n], n)
  BY <1>1, <1>6, <1>8, <1>10, <1>11
<1>13. \A n \in DOMAIN planted' : Telling(planted[n], n)'
  BY <1>12, TellingStays
<1>14. \A m, n \in DOMAIN planted' : planted'[m].marker = planted'[n].marker => m = n
  <2>1. \A m, n \in DOMAIN planted : planted[m].marker = planted[n].marker => m = n
    BY DEF Coined
  <2> QED
    BY <1>1, <1>9, <1>10, <1>11, <2>1
<1>15. phase' = "poison" =>
         /\ Len(planted') + Len(todo') <= Cardinality(Questions)
         /\ \A n \in DOMAIN planted' : planted'[n].type = "poison"
  <2> HAVE phase' = "poison"
  <2>1. L + Len(todo) <= Cardinality(Questions) /\ \A n \in DOMAIN planted : planted[n].type = "poison"
    BY <1>1 DEF Coined, L
  <2>2. L + 1 + (Len(todo) - 1) = L + Len(todo)
    BY <1>1, <1>5
  <2> QED
    BY <1>1, <1>3, <1>5, <1>10, <1>11, <2>1, <2>2
<1>16. phase' = "canary" =>
         /\ Len(planted') + Len(todo') = config'.canaries
         /\ \A n \in DOMAIN todo' : todo'[n] \in ToSet(config'.kinds)
  <2> HAVE phase' = "canary"
  <2>1. L + Len(todo) = config.canaries /\ \A n \in DOMAIN todo : todo[n] \in ToSet(config.kinds)
    BY <1>1 DEF Coined, L
  <2>2. L + 1 + (Len(todo) - 1) = L + Len(todo)
    BY <1>1, <1>5
  <2> QED
    BY <1>1, <1>5, <2>1, <2>2
<1>17. phase' = "injection" =>
         \A n \in DOMAIN todo' :
           /\ todo'[n] \in Questions
           /\ \A m \in DOMAIN todo' : todo'[m] = todo'[n] => m = n
           /\ \A m \in DOMAIN planted' : planted'[m].type = "injection" => planted'[m].qid # todo'[n]
  <2> HAVE phase' = "injection"
  <2>1. \A n \in DOMAIN todo :
           /\ todo[n] \in Questions
           /\ \A m \in DOMAIN todo : todo[m] = todo[n] => m = n
           /\ \A m \in DOMAIN planted : planted[m].type = "injection" => planted[m].qid # todo[n]
    BY <1>1 DEF Coined
  <2> TAKE n \in DOMAIN todo'
  <2>2. n + 1 \in DOMAIN todo /\ n + 1 # 1 /\ n \in Nat /\ todo'[n] = todo[n + 1]
    BY <1>5
  <2>3. \A m \in DOMAIN todo' : todo'[m] = todo'[n] => m = n
    <3> TAKE m \in DOMAIN todo'
    <3>1. m + 1 \in DOMAIN todo /\ m \in Nat /\ todo'[m] = todo[m + 1]
      BY <1>5
    <3>2. todo[m + 1] = todo[n + 1] => m + 1 = n + 1
      BY <2>1, <2>2, <3>1
    <3> QED
      BY <2>2, <3>1, <3>2
  <2>4. g.qid = todo[1] /\ todo[1] # todo[n + 1]
    BY <1>1, <1>3, <1>5, <2>1, <2>2
  <2> QED
    BY <1>1, <1>10, <1>11, <2>1, <2>2, <2>3, <2>4
<1> QED
  BY <1>5, <1>13, <1>14, <1>15, <1>16, <1>17 DEF Coined

\* No two documents ever come to share a marker.
LEMMA CoinedStep ==
  ASSUME Staged, Coined, [Next]_vars
  PROVE  Coined'
<1>1. config' = config /\ Security' = Security
  BY SuiteStays
<1>2. \A a, n : Telling(a, n)' <=> Telling(a, n)
  BY <1>1, TellingStays
<1>3. CASE Plant
  BY <1>1, <1>3, CoinedPlant
<1>4. CASE Load
  <2>1. planted = <<>> /\ planted' = <<>> /\ DOMAIN planted' = {} /\ Len(planted') = 0
    BY <1>4 DEF Load, Staged
  <2>2. CASE Security
    <3>1. phase' = "poison" /\ todo' \in Chosen(Questions, config.poisoning)
      BY <1>4, <2>2 DEF Load
    <3>2. IsSeq(todo') /\ Len(todo') <= Cardinality(Questions)
      BY <3>1, ChosenIs
    <3>3. 0 + Len(todo') <= Cardinality(Questions)
      BY <3>2 DEF IsSeq
    <3> QED
      BY <2>1, <3>1, <3>2, <3>3 DEF Coined
  <2>3. CASE ~Security
    <3>1. /\ phase' = "canary"
          /\ todo' = [n \in 1..config.canaries |-> config.kinds[((n - 1) % Len(config.kinds)) + 1]]
      BY <1>4, <2>3 DEF Load
    <3>2. IsSeq(todo') /\ Len(todo') = config.canaries /\ \A n \in DOMAIN todo' : todo'[n] \in ToSet(config.kinds)
      BY <2>3, <3>1, KindsAre DEF Staged
    <3>3. 0 + Len(todo') = config.canaries
      BY <3>2 DEF IsSeq
    <3> QED
      BY <1>1, <2>1, <3>1, <3>2, <3>3 DEF Coined
  <2> QED
    BY <2>2, <2>3
<1>5. CASE BeginInjection
  <2>1. /\ phase = "poison" /\ phase' = "injection" /\ planted' = planted
        /\ todo' \in Chosen(InjectionPool, config.injection)
    BY <1>5 DEF BeginInjection
  <2>2. InjectionPool \in SUBSET Questions
    BY DEF InjectionPool
  <2>3. /\ IsSeq(todo') /\ \A n \in DOMAIN todo' : todo'[n] \in InjectionPool
        /\ \A m, n \in DOMAIN todo' : todo'[m] = todo'[n] => m = n
    BY <2>1, <2>2, ChosenIs
  <2>4. \A m \in DOMAIN planted : planted[m].type = "poison"
    BY <2>1 DEF Coined
  <2> QED
    BY <1>2, <2>1, <2>2, <2>3, <2>4 DEF Coined
<1>6. CASE AttacksPlanned
  BY <1>2, <1>6 DEF AttacksPlanned, Coined
<1>7. CASE CanariesPlanned
  BY <1>2, <1>7 DEF CanariesPlanned, Coined
<1>8. CASE UNCHANGED vars
  BY <1>1, <1>2, <1>8 DEF vars, plan, Coined
<1>9. CASE ~Planning
  <2>1. planted' = planted /\ ~Planning'
    BY <1>9, LaterStays DEF Staged
  <2> QED
    BY <1>2, <2>1 DEF Coined, Planning
<1> QED
  BY <1>3, <1>4, <1>5, <1>6, <1>7, <1>8, <1>9, PlanningSteps

\* What is kept of the corpus says only what a file does.
LEMMA KeptWords ==
  ASSUME Staged, Filed, phase # "load", NEW n \in DOMAIN kept, NEW w \in ToSet(kept[n].text), Quotable(w)
  PROVE  \E f \in ToSet(config.files) : w \in ToSet(f.text)
<1>1. IsDocs(Corpus) /\ Chained(config.filters) /\ kept = ApplyFilters(Corpus, config.filters).kept
  BY CorpusIs, ConfigIs DEF Staged, Filed
<1>2. PICK e : Drawn(kept, Corpus, e)
  BY <1>1, AppliedIs
<1>3. e[n] \in DOMAIN Corpus /\ (w \in ToSet(Corpus[e[n]].text) \/ w = Redaction)
  BY <1>2 DEF Drawn
<1>4. w # Redaction
  BY NothingRedacted
<1>5. \E f \in ToSet(config.files) : Corpus[e[n]].text = f.text
  BY <1>3, CorpusIs DEF Staged
<1> QED
  BY <1>3, <1>4, <1>5

\* What an index is made of says what a file does, or an indexed document of
\* the plan.
LEMMA SourcedWords ==
  ASSUME Staged, Filed, Surviving, phase # "load", NEW redact \in BOOLEAN,
         NEW n \in DOMAIN Sourced(redact), NEW w \in ToSet(Sourced(redact)[n].text), Quotable(w)
  PROVE  /\ redact => w.is # "secret"
         /\ \/ \E f \in ToSet(config.files) : w \in ToSet(f.text)
            \/ \E j \in DOMAIN live : /\ w \in ToSet(live[j].document.text)
                                      /\ Sourced(redact)[n].id = live[j].document.id
<1> DEFINE z == kept \o Documents(live)
           S == Sourced(redact)
<1>1. IsDocs(kept) /\ IsDocs(z) /\ IsDocs(Documents(live)) /\ IsSeq(live)
  BY SourcedAre DEF Surviving
<1>2. n \in DOMAIN z /\ w \in ToSet(z[n].text) /\ S[n].id = z[n].id /\ (redact => w.is # "secret")
  <2>1. CASE redact
    <3> HIDE DEF z
    <3>1. S = Redact(z)
      BY <2>1 DEF Sourced, z
    <3>2. /\ DOMAIN Redact(z) = DOMAIN z /\ NoSecret(Redact(z))
          /\ \A i \in DOMAIN z : Redact(z)[i].text = Redacted(z[i].text) /\ Redact(z)[i].id = z[i].id
      BY <1>1, RedactIs
    <3>3. n \in DOMAIN z /\ IsText(z[n].text)
      BY <1>1, <3>1, <3>2 DEF IsDocs, IsDocument
    <3>4. w \in ToSet(Redacted(z[n].text))
      BY <3>1, <3>2, <3>3
    <3>5. w.is # "secret" /\ (w \in ToSet(z[n].text) \/ w = Redaction)
      BY <3>3, <3>4, RedactedIs
    <3>6. w # Redaction
      BY NothingRedacted
    <3> QED
      BY <3>1, <3>2, <3>3, <3>5, <3>6
  <2>2. CASE ~redact
    BY <2>2 DEF Sourced
  <2> QED
    BY <2>1, <2>2
<1> HIDE DEF S
<1>3. /\ Len(kept) \in Nat /\ DOMAIN kept = 1..Len(kept)
      /\ Len(Documents(live)) \in Nat /\ DOMAIN Documents(live) = 1..Len(Documents(live))
      /\ DOMAIN z = 1..Len(kept) + Len(Documents(live))
      /\ \A m \in 1..Len(kept) : z[m] = kept[m]
      /\ \A m \in 1..Len(Documents(live)) : z[Len(kept) + m] = Documents(live)[m]
  BY <1>1, Joins DEF IsDocs
<1> HIDE DEF z
<1>4. CASE n \in 1..Len(kept)
  <2>1. n \in DOMAIN kept /\ w \in ToSet(kept[n].text)
    BY <1>2, <1>3, <1>4
  <2> QED
    BY <1>2, <2>1, KeptWords
<1>5. CASE n \notin 1..Len(kept)
  <2> DEFINE D == Documents(live)
  <2>1. \E m \in 1..Len(D) : n = Len(kept) + m
    <3>1. n \in Nat /\ n > Len(kept) /\ n <= Len(kept) + Len(D)
      BY <1>2, <1>3, <1>5
    <3>2. n - Len(kept) \in 1..Len(D) /\ n = Len(kept) + (n - Len(kept))
      BY <1>3, <3>1
    <3> QED
      BY <3>2
  <2>2. PICK m \in 1..Len(D) : n = Len(kept) + m
    BY <2>1
  <2>3. z[n] = D[m]
    BY <1>3, <2>2
  <2>4. m \in DOMAIN live /\ D[m] = live[m].document
    BY <1>1, <1>3, DocumentsAre
  <2> QED
    BY <1>2, <2>3, <2>4 DEF S
<1> QED
  BY <1>4, <1>5 DEF S

\* What is indexed was planted, in this order.
LEMMA LiveDrawn ==
  ASSUME Staged, Surviving, Coined
  PROVE  \E e \in [DOMAIN live -> DOMAIN planted] :
           /\ Drawn(Documents(live), Documents(planted), e)
           /\ \A n \in DOMAIN live : live[n].marker = planted[e[n]].marker
           /\ \A j, k \in DOMAIN live : e[j] = e[k] => j = k
           /\ \A n \in DOMAIN live : e[n] \in Nat /\ 1 <= e[n] /\ Telling(planted[e[n]], e[n])
<1>1. PICK e \in [DOMAIN live -> DOMAIN planted] :
        /\ Drawn(Documents(live), Documents(planted), e)
        /\ \A n \in DOMAIN live :
             /\ live[n].type = planted[e[n]].type /\ live[n].qid = planted[e[n]].qid
             /\ live[n].marker = planted[e[n]].marker
  BY DEF Surviving
<1>2. DOMAIN Documents(live) = DOMAIN live
  BY DocumentsAre DEF Surviving
<1>3. \A m, n \in DOMAIN live : m < n => e[m] < e[n]
  BY <1>1, <1>2 DEF Drawn
<1>4. DOMAIN live = 1..Len(live) /\ Len(live) \in Nat /\ DOMAIN planted = 1..Len(planted) /\ Len(planted) \in Nat
  BY Extent DEF Surviving, Staged
<1>5. \A n \in DOMAIN live : e[n] \in DOMAIN planted
  BY <1>1
<1>6. \A n \in DOMAIN live : n \in Nat /\ e[n] \in Nat /\ 1 <= e[n]
  BY <1>4, <1>5
<1>7. \A j, k \in DOMAIN live : e[j] = e[k] => j = k
  <2> TAKE j, k \in DOMAIN live
  <2> HAVE e[j] = e[k]
  <2>1. ~(j < k) /\ ~(k < j)
    BY <1>3, <1>6
  <2> QED
    BY <1>6, <2>1
<1>8. \A n \in DOMAIN live : Telling(planted[e[n]], e[n])
  BY <1>5 DEF Coined
<1> QED
  BY <1>1, <1>6, <1>7, <1>8

\* An indexed document says its own marker and no other; that of a canary is a
\* secret.
LEMMA LiveWords ==
  ASSUME Staged, Surviving, Coined, NEW j \in DOMAIN live,
         NEW w \in ToSet(live[j].document.text), Quotable(w)
  PROVE  w.what = live[j].marker /\ (~Security => w.is = "secret")
<1>1. PICK e \in [DOMAIN live -> DOMAIN planted] :
        /\ Drawn(Documents(live), Documents(planted), e)
        /\ \A n \in DOMAIN live : live[n].marker = planted[e[n]].marker
        /\ \A n \in DOMAIN live : e[n] \in Nat /\ 1 <= e[n] /\ Telling(planted[e[n]], e[n])
  BY LiveDrawn
<1>2. /\ DOMAIN Documents(live) = DOMAIN live /\ DOMAIN Documents(planted) = DOMAIN planted
      /\ \A n \in DOMAIN live : Documents(live)[n] = live[n].document
      /\ \A n \in DOMAIN planted : Documents(planted)[n] = planted[n].document
  BY DocumentsAre DEF Surviving, Staged
<1>3. e[j] \in DOMAIN planted
  BY <1>1
<1>4. w \in ToSet(planted[e[j]].document.text) \/ w = Redaction
  BY <1>1, <1>2, <1>3 DEF Drawn
<1>5. w # Redaction
  BY NothingRedacted
<1>6. Telling(planted[e[j]], e[j]) /\ live[j].marker = planted[e[j]].marker
  BY <1>1
<1> QED
  BY <1>4, <1>5, <1>6 DEF Telling

\* Indexed documents have markers of their own, and one canary's secret is not
\* a part of another's.
LEMMA LiveApart ==
  ASSUME Staged, Surviving, Coined, NEW j \in DOMAIN live, NEW k \in DOMAIN live,
         \/ live[j].marker = live[k].marker
         \/ ~Security /\ Embeds(live[j].marker, live[k].marker)
  PROVE  j = k
<1>1. PICK e \in [DOMAIN live -> DOMAIN planted] :
        /\ \A n \in DOMAIN live : live[n].marker = planted[e[n]].marker
        /\ \A m, n \in DOMAIN live : e[m] = e[n] => m = n
        /\ \A n \in DOMAIN live : e[n] \in Nat /\ 1 <= e[n] /\ Telling(planted[e[n]], e[n])
  BY LiveDrawn
<1>2. live[j].marker = live[k].marker => e[j] = e[k]
  BY <1>1 DEF Coined
<1>3. ASSUME ~Security, Embeds(live[j].marker, live[k].marker) PROVE e[j] = e[k]
  <2>1. /\ config \in Configs /\ config.suite # "security"
        /\ config.canaries \in Nat
    BY <1>3, ConfigsAssumption DEF Staged, Security
  <2>2. \A n \in DOMAIN live :
          /\ e[n] \in Nat /\ 1 <= e[n] /\ e[n] <= config.canaries
          /\ \E c \in ToSet(config.kinds) : live[n].marker = Secret(c, e[n] - 1)
    BY <1>1, <1>3 DEF Telling
  <2>3. PICK c \in ToSet(config.kinds) : live[j].marker = Secret(c, e[j] - 1)
    BY <2>2
  <2>4. PICK d \in ToSet(config.kinds) : live[k].marker = Secret(d, e[k] - 1)
    BY <2>2
  <2> DEFINE m == e[j] - 1
             n == e[k] - 1
             u == config.canaries - 1
  <2>5. m \in 0..u /\ n \in 0..u
    BY <2>1, <2>2
  <2>6. (m = n) => e[j] = e[k]
    BY <2>2
  <2> HIDE DEF m, n
  <2>7. Embeds(Secret(c, m), Secret(d, n))
    BY <1>3, <2>3, <2>4 DEF m, n
  <2> QED
    BY <2>1, <2>5, <2>6, <2>7, MarkersAre
<1> QED
  BY <1>1, <1>2, <1>3

\* The marker of an indexed document is one of those the suite may plant.
LEMMA LiveMarks ==
  ASSUME Staged, Surviving, Coined, NEW a \in ToSet(live)
  PROVE  a.marker \in Markers(config)
<1>1. PICK k \in DOMAIN live : a = live[k]
  BY DEF ToSet
<1>2. PICK n \in DOMAIN planted : live[k].marker = planted[n].marker
  BY DEF Surviving
<1>3. n \in Nat /\ 1 <= n /\ Telling(planted[n], n)
  BY Extent DEF Staged, Coined
<1> DEFINE b == planted[n]
<1> HIDE DEF b
<1>4. b.marker \in Markers(config)
  BY <1>3, TellingMarks DEF b, Staged
<1> QED
  BY <1>1, <1>2, <1>4 DEF b

\* No word of the corpus has the marker of an indexed document in it.
LEMMA MarkerUnsaid ==
  ASSUME Staged, Surviving, Coined, NEW a \in ToSet(live), NEW f \in ToSet(config.files),
         NEW w \in ToSet(f.text), Quotable(w)
  PROVE  ~Embeds(w.what, a.marker)
BY LiveMarks, CorpusSays DEF Staged

\* A word in the context of a trial that a marker is found in is the marker of
\* an attack in this context; and no secret passes a redaction.
LEMMA TrialOrigin ==
  ASSUME Staged, Filed, Surviving, Coined, Built, Posed, phase = "trial", flight # None,
         NEW a \in ToSet(live), NEW v, Quoted(flight.context, v), Embeds(v, a.marker)
  PROVE  \E b \in Present :
           /\ b.marker = v
           /\ ~Security => b = a /\ ~Redacting /\ "pii" \notin ToSet(config.filters)
<1> DEFINE ctx == flight.context
           ds == IF Security THEN {flight.of.defense} ELSE {}
<1>1. Posing(flight, flight.of, index, ds) /\ Len(records) < Len(Jobs)
  BY DEF Posed
<1>2. IsSeq(flight.ranked) /\ ToSet(flight.ranked) \subseteq index /\ ctx = Defended(flight.ranked, ds).context
  BY <1>1 DEF Posing
<1> HIDE DEF ds
<1>3. \A n \in DOMAIN ctx : ctx[n] \in index
  <2> DEFINE r == flight.ranked
  <2> HIDE DEF r
  <2>1. ToSet(Defended(r, ds).context) \subseteq ToSet(r)
    BY <1>2, AnswersQuote DEF r
  <2>2. \A n \in DOMAIN ctx : ctx[n] \in ToSet(ctx)
    BY DEF ToSet
  <2> QED
    BY <1>2, <2>1, <2>2 DEF r
<1>4. PICK n \in DOMAIN ctx : \E w \in ToSet(ctx[n].text) : Quotable(w) /\ w.what = v
  BY DEF Quoted
<1>5. PICK w \in ToSet(ctx[n].text) : Quotable(w) /\ w.what = v
  BY <1>4
<1>6. PICK k \in DOMAIN live : a = live[k]
  BY DEF ToSet
<1> DEFINE docs == Sourced(Redacting)
           c == ctx[n]
<1>7. index = Chunks(docs, config.chunker, "trusted_corpus") /\ IsDocs(docs) /\ Redacting \in BOOLEAN
  BY <1>1, SourcedAre DEF Built, Redacting
<1> HIDE DEF docs, ctx
<1>8. c \in Chunks(docs, config.chunker, "trusted_corpus")
  BY <1>3, <1>4, <1>7
<1> HIDE DEF c
<1>9. \E i \in DOMAIN docs : \E s \in ToSet(Spans(docs[i].text, config.chunker)) :
        /\ c.doc = docs[i].id /\ c.span = s /\ c.text = SubSeq(docs[i].text, s[1], s[2])
        /\ \A x \in ToSet(c.text) : x \in ToSet(docs[i].text)
  BY <1>7, <1>8, ChunkIs
<1>10. PICK i \in DOMAIN docs : c.doc = docs[i].id /\ \A x \in ToSet(c.text) : x \in ToSet(docs[i].text)
  BY <1>9
<1>11. w \in ToSet(docs[i].text)
  BY <1>5, <1>10 DEF c
<1>12. /\ Redacting => w.is # "secret"
       /\ \/ \E f \in ToSet(config.files) : w \in ToSet(f.text)
          \/ \E j \in DOMAIN live : /\ w \in ToSet(live[j].document.text)
                                    /\ docs[i].id = live[j].document.id
  BY <1>5, <1>7, <1>10, <1>11, SourcedWords DEF docs
<1>13. \A f \in ToSet(config.files) : w \notin ToSet(f.text)
  BY <1>5, MarkerUnsaid
<1>14. PICK j \in DOMAIN live : w \in ToSet(live[j].document.text) /\ docs[i].id = live[j].document.id
  BY <1>12, <1>13
<1> DEFINE b == live[j]
<1>15. b.marker = v /\ (~Security => w.is = "secret")
  BY <1>5, <1>14, LiveWords
<1>16. c.doc = b.document.id /\ b \in ToSet(live)
  BY <1>10, <1>14 DEF ToSet
<1>17. ~Security => ~Redacting
  BY <1>12, <1>15
<1>18. ~Security => "pii" \notin ToSet(config.filters)
  <2> SUFFICES ASSUME ~Security, "pii" \in ToSet(config.filters) PROVE FALSE
    OBVIOUS
  <2>1. NoSecret(Documents(live))
    BY DEF Surviving
  <2>2. j \in DOMAIN Documents(live) /\ Documents(live)[j] = live[j].document
    BY DocumentsAre DEF Surviving
  <2> QED
    BY <1>14, <1>15, <2>1, <2>2 DEF NoSecret
<1>19. ~Security => b = a
  <2> SUFFICES ASSUME ~Security PROVE b = a
    OBVIOUS
  <2>1. Embeds(live[j].marker, live[k].marker)
    BY <1>6, <1>15
  <2>2. j = k
    BY <2>1, LiveApart
  <2> QED
    BY <1>6, <2>2
<1>20. b \in Present
  BY <1>4, <1>16 DEF Present, c, ctx
<1> QED
  BY <1>15, <1>17, <1>18, <1>19, <1>20

\* No answer to a clean question can say a marker.
LEMMA ControlOrigin ==
  ASSUME Staged, Filed, Surviving, Coined, Posed, phase = "control", flight # None,
         NEW a \in ToSet(live), NEW v, Embeds(v, a.marker)
  PROVE  ~Quoted(flight.context, v)
<1> SUFFICES ASSUME Quoted(flight.context, v) PROVE FALSE
  OBVIOUS
<1> DEFINE ctx == flight.context
           ds == IF Security THEN {flight.of.defense} ELSE {}
<1>1. Posing(flight, flight.of, CleanChunks, ds)
  BY DEF Posed
<1>2. IsSeq(flight.ranked) /\ ToSet(flight.ranked) \subseteq CleanChunks /\ ctx = Defended(flight.ranked, ds).context
  BY <1>1 DEF Posing
<1> HIDE DEF ds
<1>3. \A n \in DOMAIN ctx : ctx[n] \in CleanChunks
  <2> DEFINE r == flight.ranked
  <2> HIDE DEF r
  <2>1. ToSet(Defended(r, ds).context) \subseteq ToSet(r)
    BY <1>2, AnswersQuote DEF r
  <2>2. \A n \in DOMAIN ctx : ctx[n] \in ToSet(ctx)
    BY DEF ToSet
  <2> QED
    BY <1>2, <2>1, <2>2 DEF r
<1>4. PICK n \in DOMAIN ctx : \E w \in ToSet(ctx[n].text) : Quotable(w) /\ w.what = v
  BY DEF Quoted
<1>5. PICK w \in ToSet(ctx[n].text) : Quotable(w) /\ w.what = v
  BY <1>4
<1> DEFINE c == ctx[n]
<1>7. IsDocs(kept)
  BY SourcedAre
<1> HIDE DEF ctx
<1>8. c \in Chunks(kept, config.chunker, "trusted_corpus")
  BY <1>3, <1>4 DEF CleanChunks
<1> HIDE DEF c
<1>9. \E i \in DOMAIN kept : \E s \in ToSet(Spans(kept[i].text, config.chunker)) :
        /\ c.doc = kept[i].id /\ c.span = s /\ c.text = SubSeq(kept[i].text, s[1], s[2])
        /\ \A x \in ToSet(c.text) : x \in ToSet(kept[i].text)
  BY <1>7, <1>8, ChunkIs
<1>10. PICK i \in DOMAIN kept : \A x \in ToSet(c.text) : x \in ToSet(kept[i].text)
  BY <1>9
<1>11. w \in ToSet(kept[i].text)
  BY <1>5, <1>10 DEF c
<1>12. PICK f \in ToSet(config.files) : w \in ToSet(f.text)
  BY <1>5, <1>11, KeptWords
<1> QED
  BY <1>5, <1>12, MarkerUnsaid

\* What an answer says is in a word of its context.
LEMMA TextsQuote ==
  ASSUME Posed, flight # None, NEW text \in Texts, NEW what, Says(text, what)
  PROVE  \E v : Quoted(flight.context, v) /\ Embeds(v, what)
<1> DEFINE chunks == IF phase = "control" THEN CleanChunks ELSE index
           ds == IF Security THEN {flight.of.defense} ELSE {}
<1>1. Posing(flight, flight.of, chunks, ds)
  BY DEF Posed
<1> HIDE DEF chunks, ds
<1>2. /\ IsSeq(flight.ranked) /\ flight.context = Defended(flight.ranked, ds).context
      /\ flight.said = Defended(flight.ranked, ds).said
  BY <1>1 DEF Posing
<1>3. PICK w \in text : Embeds(w.what, what)
  BY DEF Says
<1>4. CASE flight.abstained
  <2>1. w \in flight.said
    BY <1>3, <1>4 DEF Texts
  <2> QED
    BY <1>2, <1>3, <2>1, AnswersQuote
<1>5. CASE ~flight.abstained
  <2>1. text \in Replies(flight.context)
    BY <1>5 DEF Texts
  <2> QED
    BY <1>3, <2>1, RepliesQuote
<1> QED
  BY <1>4, <1>5

\* What is recorded of a trial is true of its context.
LEMMA RecordProves ==
  ASSUME Staged, Filed, Surviving, Coined, Built, Posed, IsSeq(records),
         phase = "trial", flight # None, NEW text \in Texts, NEW r, r = Record(flight.of, text)
  PROVE  /\ \A m \in r.matched : \E b \in Present : Embeds(b.marker, m.marker)
         /\ r.succeeded /\ ~r.retrieved => \E b \in Present : b.marker # r.own /\ Embeds(b.marker, r.own)
         /\ ~Security /\ r.succeeded =>
              r.retrieved /\ r.defense # "pii_filter" /\ "pii" \notin ToSet(config.filters)
         /\ r.retrieved \in BOOLEAN /\ r.succeeded \in BOOLEAN
<1> DEFINE job == flight.of
           a == job.attack
           present == MarkersPresent(text)
           doc == a.document.id
           here == \E n \in DOMAIN flight.context : flight.context[n].doc = doc
<1>1. /\ r.matched = present /\ r.succeeded = (\E m \in present : m.marker = a.marker)
      /\ r.retrieved = here /\ r.defense = job.defense /\ r.own = a.marker
  BY DEF Record, Succeeded
<1>2. \A x \in ToSet(live) : Says(text, x.marker) =>
        \E b \in Present :
          /\ Embeds(b.marker, x.marker)
          /\ ~Security => b = x /\ ~Redacting /\ "pii" \notin ToSet(config.filters)
  <2> SUFFICES ASSUME NEW x \in ToSet(live), Says(text, x.marker)
               PROVE  \E b \in Present :
                        /\ Embeds(b.marker, x.marker)
                        /\ ~Security => b = x /\ ~Redacting /\ "pii" \notin ToSet(config.filters)
    OBVIOUS
  <2>1. PICK v : Quoted(flight.context, v) /\ Embeds(v, x.marker)
    BY TextsQuote
  <2> QED
    BY <2>1, TrialOrigin
<1>3. job = Job /\ a \in ToSet(live)
  <2>1. job = Job /\ Len(records) < Len(Jobs)
    BY DEF Posed
  <2>2. Job.attack \in ToSet(live)
    BY <2>1, JobIs DEF Staged, Surviving
  <2> QED
    BY <2>1, <2>2
<1>4. \A m \in present : \E x \in ToSet(live) : Says(text, x.marker) /\ m.marker = x.marker
  BY DEF MarkersPresent
<1>5. a \in Present <=> here
  BY <1>3 DEF Present
<1> HIDE DEF present, here, a
<1>6. \A m \in r.matched : \E b \in Present : Embeds(b.marker, m.marker)
  BY <1>1, <1>2, <1>4
<1>7. r.succeeded => Says(text, a.marker)
  BY <1>1, <1>4
<1>8. \A b \in Present : b.marker = a.marker => b = a
  <2> SUFFICES ASSUME NEW b \in Present, b.marker = a.marker PROVE b = a
    OBVIOUS
  <2>1. PICK j \in DOMAIN live : b = live[j]
    BY DEF Present, ToSet
  <2>2. PICK k \in DOMAIN live : a = live[k]
    BY <1>3 DEF ToSet
  <2>3. j = k
    BY <2>1, <2>2, LiveApart
  <2> QED
    BY <2>1, <2>2, <2>3
<1>9. r.succeeded /\ ~r.retrieved => \E b \in Present : b.marker # r.own /\ Embeds(b.marker, r.own)
  <2> HAVE r.succeeded /\ ~r.retrieved
  <2>1. PICK b \in Present : Embeds(b.marker, a.marker)
    BY <1>2, <1>3, <1>7
  <2>2. b # a
    BY <1>1, <1>5
  <2> QED
    BY <1>1, <1>8, <2>1, <2>2
<1>10. ~Security /\ r.succeeded =>
         r.retrieved /\ r.defense # "pii_filter" /\ "pii" \notin ToSet(config.filters)
  <2> HAVE ~Security /\ r.succeeded
  <2>1. a \in Present /\ ~Redacting /\ "pii" \notin ToSet(config.filters)
    BY <1>2, <1>3, <1>7
  <2>2. job.defense # "pii_filter"
    BY <1>3, <2>1 DEF Redacting
  <2> QED
    BY <1>1, <1>5, <2>1, <2>2
<1>11. r.retrieved \in BOOLEAN /\ r.succeeded \in BOOLEAN
  BY <1>1 DEF here
<1> QED
  BY <1>6, <1>9, <1>10, <1>11

\* The record a step appends is that of the trial under way.
LEMMA RecordedLast ==
  ASSUME Answered, IsSeq(records)
  PROVE  /\ phase = "trial" /\ flight # None
         /\ \E text \in Texts : records'[Len(records')] = Record(flight.of, text)
<1>1. phase = "trial" /\ flight # None
  BY DEF Answered
<1>2. PICK text \in Texts : records' = Append(records, Record(flight.of, text))
  BY DEF Answered
<1> DEFINE r == Record(flight.of, text)
<1> HIDE DEF r
<1>3. records'[Len(records')] = r
  BY <1>2, Appended DEF r
<1> QED
  BY <1>1, <1>3 DEF r

\* The attack under trial is indexed.
LEMMA PosedAttack ==
  ASSUME Staged, Surviving, Posed, IsSeq(records), phase = "trial", flight # None
  PROVE  flight.of.attack \in ToSet(live)
<1>1. flight.of = Job /\ Len(records) < Len(Jobs)
  BY DEF Posed
<1> QED
  BY <1>1, JobIs DEF Staged, Surviving

\* No two indexed attacks have one marker.
LEMMA LiveOne ==
  ASSUME Staged, Surviving, Coined
  PROVE  \A x, y \in ToSet(live) : x.marker = y.marker => x = y
<1> TAKE x, y \in ToSet(live)
<1> HAVE x.marker = y.marker
<1>1. PICK j \in DOMAIN live : x = live[j]
  BY DEF ToSet
<1>2. PICK k \in DOMAIN live : y = live[k]
  BY DEF ToSet
<1> QED
  BY <1>1, <1>2, LiveApart

\* What is found stays what was there.
LEMMA FoundStep ==
  ASSUME Staged, Filed, Surviving, Coined, Built, Posed, IsSeq(records), Found, [Next]_vars
  PROVE  Found'
<1>1. config' = config /\ Security' = Security
  BY SuiteStays
<1>2. CASE Answered
  <2>1. phase = "trial" /\ flight # None /\ controls' = controls
    BY <1>2 DEF Answered
  <2>2. PICK text \in Texts : records' = Append(records, Record(flight.of, text))
    BY <1>2 DEF Answered
  <2> DEFINE r == Record(flight.of, text)
  <2>3. ~Security /\ r.succeeded =>
          /\ r.retrieved
          /\ r.defense # "pii_filter" /\ "pii" \notin ToSet(config.filters)
    BY <2>1, RecordProves
  <2> HIDE DEF r
  <2>4. /\ DOMAIN records' = 1..Len(records) + 1 /\ DOMAIN records = 1..Len(records)
        /\ \A n \in DOMAIN records : records'[n] = records[n]
        /\ records'[Len(records) + 1] = r /\ Len(records) \in Nat
    BY <2>2, Appended DEF r
  <2>5. \A n \in DOMAIN records' : n \in DOMAIN records \/ n = Len(records) + 1
    BY <2>4
  <2>6. ~Security => \A n \in DOMAIN records' : records'[n].succeeded =>
          /\ records'[n].retrieved
          /\ records'[n].defense # "pii_filter" /\ "pii" \notin ToSet(config.filters)
    BY <2>3, <2>4, <2>5 DEF Found
  <2> QED
    BY <1>1, <2>1, <2>6 DEF Found, ControlsAreClean
<1>3. CASE Controlled
  <2>1. phase = "control" /\ flight # None /\ records' = records
    BY <1>3 DEF Controlled
  <2>2. \E c : controls' = Append(controls, c) /\ c.markers = {}
    <3>1. PICK text \in Texts :
            controls' = Append(controls,
              [qid |-> flight.of.qid, defense |-> flight.of.defense, abstained |-> flight.abstained,
               match |-> Matches(text, Gold[flight.of.qid]),
               markers |-> MarkersPresent(text)])
      BY <1>3 DEF Controlled
    <3>2. \A x \in ToSet(live) : ~Says(text, x.marker)
      <4> TAKE x \in ToSet(live)
      <4>1. \A v : Embeds(v, x.marker) => ~Quoted(flight.context, v)
        BY <2>1, ControlOrigin
      <4> QED
        BY <2>1, <4>1, TextsQuote
    <3>3. MarkersPresent(text) = {}
      BY <3>2 DEF MarkersPresent
    <3> QED
      BY <3>1, <3>3
  <2>3. PICK c : controls' = Append(controls, c) /\ c.markers = {}
    BY <2>2
  <2>4. /\ IsSeq(controls') /\ DOMAIN controls' = 1..Len(controls) + 1 /\ DOMAIN controls = 1..Len(controls)
        /\ \A n \in DOMAIN controls : controls'[n] = controls[n]
        /\ controls'[Len(controls) + 1] = c /\ Len(controls) \in Nat
    BY <2>3, Appended DEF Found
  <2>5. \A n \in DOMAIN controls' : n \in DOMAIN controls \/ n = Len(controls) + 1
    BY <2>4
  <2>6. ControlsAreClean'
    BY <2>3, <2>4, <2>5 DEF Found, ControlsAreClean
  <2> QED
    BY <1>1, <2>1, <2>4, <2>6 DEF Found
<1>4. ASSUME controls' = controls, records' = records PROVE Found'
  BY <1>1, <1>4 DEF Found, ControlsAreClean
<1>5. CASE Load
  BY <1>4, <1>5 DEF Load
<1>6. CASE Plant
  BY <1>4, <1>6 DEF Plant
<1>7. CASE BeginInjection
  BY <1>4, <1>7 DEF BeginInjection
<1>8. CASE AttacksPlanned
  BY <1>4, <1>8 DEF AttacksPlanned
<1>9. CASE CanariesPlanned
  BY <1>4, <1>9 DEF CanariesPlanned
<1>10. CASE Embed
  BY <1>4, <1>10 DEF Embed
<1>11. CASE Ask
  BY <1>4, <1>11 DEF Ask
<1>12. CASE BeginControls
  BY <1>4, <1>12 DEF BeginControls
<1>13. CASE Control
  BY <1>4, <1>13 DEF Control
<1>14. CASE Aggregate \/ AggregatePrivacy \/ ReadBack
  BY <1>4, <1>14 DEF Aggregate, AggregatePrivacy, ReadBack
<1>15. CASE UNCHANGED vars
  BY <1>4, <1>15 DEF vars
<1> QED
  BY <1>2, <1>3, <1>5, <1>6, <1>7, <1>8, <1>9, <1>10, <1>11, <1>12, <1>13, <1>14, <1>15 DEF Next

-----------------------------------------------------------------------------
(* What is indexed, and what it covers.                                    *)

\* Each document that is indexed has an id of its own.
LEMMA IndexedApart ==
  ASSUME Staged, Filed, Surviving, PlantedPathsFresh, phase # "load", NEW z, z = kept \o Documents(live)
  PROVE  \A m, n \in DOMAIN z : z[m].id = z[n].id => m = n
<1>1. /\ \A m, n \in DOMAIN planted : planted[m].document.id = planted[n].document.id => m = n
      /\ \A id \in Ids(Corpus) : id \notin Ids(Documents(planted))
      /\ \A m, n \in DOMAIN Corpus : Corpus[m].id = Corpus[n].id => m = n
      /\ IsDocs(Corpus) /\ IsSeq(planted)
  BY IdsApart DEF Staged
<1>2. PICK e : Drawn(kept, Corpus, e)
  BY <1>1, AppliedIs, ConfigIs DEF Filed, Staged
<1>3. PICK f \in [DOMAIN live -> DOMAIN planted] : Drawn(Documents(live), Documents(planted), f)
  BY DEF Surviving
<1> DEFINE D == Documents(live)
<1>4. IsSeq(kept) /\ IsSeq(D)
  <2>1. IsDocs(kept)
    BY SourcedAre
  <2>2. IsDocs(D)
    BY DEF Surviving
  <2> QED
    BY <2>1, <2>2 DEF IsDocs
<1>5. /\ Len(kept) \in Nat /\ DOMAIN kept = 1..Len(kept)
      /\ Len(D) \in Nat /\ DOMAIN D = 1..Len(D) /\ DOMAIN z = 1..Len(kept) + Len(D)
      /\ \A m \in 1..Len(kept) : z[m] = kept[m]
      /\ \A m \in 1..Len(D) : z[Len(kept) + m] = D[m]
  <2> HIDE DEF D
  <2> QED
    BY <1>4, Joins DEF D
<1>6. /\ DOMAIN Documents(planted) = DOMAIN planted
      /\ \A n \in DOMAIN planted : Documents(planted)[n] = planted[n].document
  BY <1>1, DocumentsAre
<1>7. \A m, n \in DOMAIN kept : kept[m].id = kept[n].id => m = n
  <2> SUFFICES ASSUME NEW m \in DOMAIN kept, NEW n \in DOMAIN kept, kept[m].id = kept[n].id PROVE m = n
    OBVIOUS
  <2>1. e[m] \in DOMAIN Corpus /\ e[n] \in DOMAIN Corpus /\ kept[m].id = Corpus[e[m]].id /\ kept[n].id = Corpus[e[n]].id
    BY <1>2 DEF Drawn
  <2>2. e[m] = e[n] /\ DOMAIN Corpus = 1..Len(Corpus)
    BY <1>1, <2>1, Extent DEF IsDocs
  <2>3. (m < n => e[m] < e[n]) /\ (n < m => e[n] < e[m])
    BY <1>2 DEF Drawn
  <2> QED
    BY <1>5, <2>1, <2>2, <2>3
<1>8. \A m, n \in DOMAIN D : D[m].id = D[n].id => m = n
  <2> SUFFICES ASSUME NEW m \in DOMAIN D, NEW n \in DOMAIN D, D[m].id = D[n].id PROVE m = n
    OBVIOUS
  <2> HIDE DEF D
  <2>1. f[m] \in DOMAIN planted /\ f[n] \in DOMAIN planted
        /\ D[m].id = planted[f[m]].document.id /\ D[n].id = planted[f[n]].document.id
    BY <1>3, <1>6 DEF Drawn, D
  <2>2. f[m] = f[n] /\ DOMAIN planted = 1..Len(planted)
    BY <1>1, <2>1, Extent
  <2>3. (m < n => f[m] < f[n]) /\ (n < m => f[n] < f[m])
    BY <1>3 DEF Drawn, D
  <2> QED
    BY <1>5, <2>1, <2>2, <2>3
<1>9. \A m \in DOMAIN kept, n \in DOMAIN D : kept[m].id # D[n].id
  <2> TAKE m \in DOMAIN kept, n \in DOMAIN D
  <2>1. kept[m].id \in Ids(Corpus)
    BY <1>2 DEF Drawn, Ids
  <2>2. D[n].id \in Ids(Documents(planted))
    BY <1>3 DEF Drawn, Ids
  <2> QED
    BY <1>1, <2>1, <2>2
<1> HIDE DEF D
<1>10. \A m \in DOMAIN z : \/ m \in DOMAIN kept /\ z[m] = kept[m]
                           \/ \E k \in DOMAIN D : m = Len(kept) + k /\ z[m] = D[k]
  <2> TAKE m \in DOMAIN z
  <2>1. CASE m \in 1..Len(kept)
    BY <2>1, <1>5
  <2>2. CASE m \notin 1..Len(kept)
    <3>1. m - Len(kept) \in 1..Len(D) /\ m = Len(kept) + (m - Len(kept))
      BY <1>5, <2>2
    <3> QED
      BY <1>5, <3>1
  <2> QED
    BY <2>1, <2>2
<1> QED
  BY <1>7, <1>8, <1>9, <1>10

\* An index covers the documents it is made of.
LEMMA IndexCovers ==
  ASSUME Staged, Filed, Surviving, PlantedPathsFresh, Built
  PROVE  ChunksCover
<1> SUFFICES ASSUME index # {} PROVE ChunksCover
  BY DEF ChunksCover
<1>1. phase # "load"
  BY DEF Built, Planning
<1>2. PICK redact \in BOOLEAN : index = Chunks(Sourced(redact), config.chunker, "trusted_corpus")
  BY DEF Built
<1> DEFINE z == kept \o Documents(live)
           S == Sourced(redact)
<1>3. IsDocs(z) /\ IsDocs(S)
  BY <1>1, SourcedAre
<1>4. \A m, n \in DOMAIN z : z[m].id = z[n].id => m = n
  BY <1>1, IndexedApart
<1> HIDE DEF z
<1>5. DOMAIN S = DOMAIN z /\ \A n \in DOMAIN z : S[n].id = z[n].id /\ DOMAIN S[n].text = DOMAIN z[n].text
  <2>1. CASE redact
    <3>1. S = Redact(z)
      BY <2>1 DEF Sourced, z
    <3>2. DOMAIN Redact(z) = DOMAIN z
          /\ \A i \in DOMAIN z : Redact(z)[i].text = Redacted(z[i].text) /\ Redact(z)[i].id = z[i].id
      BY <1>3, RedactIs
    <3>3. \A i \in DOMAIN z : IsText(z[i].text)
      BY <1>3 DEF IsDocs, IsDocument
    <3> QED
      BY <3>1, <3>2, <3>3, RedactedIs
  <2>2. CASE ~redact
    BY <2>2 DEF Sourced, z
  <2> QED
    BY <2>1, <2>2
<1> HIDE DEF S
<1>6. Covering(index, S)
  BY <1>2, <1>3, <1>4, <1>5, ChunksCovering DEF S
<1>7. \A d \in ToSet(z) :
        UNION {c.span[1]..c.span[2] : c \in {x \in index : x.doc = d.id}} = DOMAIN d.text
  <2> SUFFICES ASSUME NEW n \in DOMAIN z
               PROVE UNION {c.span[1]..c.span[2] : c \in {x \in index : x.doc = z[n].id}} = DOMAIN z[n].text
    BY DEF ToSet
  <2>1. n \in DOMAIN S /\ S[n].id = z[n].id /\ DOMAIN S[n].text = DOMAIN z[n].text
    BY <1>5
  <2>2. UNION {c.span[1]..c.span[2] : c \in {x \in index : x.doc = S[n].id}} = DOMAIN S[n].text
    BY <1>6, <2>1 DEF Covering
  <2> QED
    BY <2>1, <2>2
<1> QED
  BY <1>6, <1>7 DEF Covering, ChunksCover, z

\* No chunk of a redacted index has a secret.
LEMMA NoneSecret ==
  ASSUME Staged, Filed, Surviving, Built, phase = "trial", ~Security, Len(records) < Len(Jobs),
         Job.defense = "pii_filter" \/ "pii" \in ToSet(config.filters),
         NEW c \in index, NEW n \in DOMAIN c.text
  PROVE  c.text[n].is # "secret"
<1>1. phase # "load" /\ index = Chunks(Sourced(Redacting), config.chunker, "trusted_corpus")
  BY DEF Built
<1> DEFINE z == kept \o Documents(live)
           S == Sourced(Redacting)
<1>2. IsDocs(z) /\ IsDocs(S) /\ IsDocs(kept)
  BY <1>1, SourcedAre
<1> HIDE DEF z
<1>3. NoSecret(S)
  <2>1. CASE Redacting
    <3>1. S = Redact(z)
      BY <2>1 DEF Sourced, z
    <3> QED
      BY <1>2, <3>1, RedactIs
  <2>2. CASE ~Redacting
    <3>1. S = z /\ "pii" \in ToSet(config.filters)
      BY <2>2 DEF Sourced, z, Redacting
    <3>2. NoSecret(kept)
      <4>1. kept = ApplyFilters(Corpus, config.filters).kept
        BY <1>1 DEF Filed
      <4>2. IsDocs(Corpus) /\ Chained(config.filters)
        BY CorpusIs, ConfigIs DEF Staged
      <4>3. \E k \in 1..Len(config.filters) : config.filters[k] = "pii"
        <5>1. IsSeq(config.filters)
          BY ConfigsAssumption, SequenceIs DEF Staged, ConfigsAssumption
        <5> QED
          BY <3>1, <5>1, Extent DEF ToSet
      <4> QED
        BY <4>1, <4>2, <4>3, AppliedIs
    <3>3. NoSecret(Documents(live)) /\ IsSeq(Documents(live)) /\ IsSeq(kept)
      BY <1>2, <3>1 DEF Surviving, IsDocs
    <3> DEFINE D == Documents(live)
    <3> HIDE DEF D
    <3>4. /\ Len(kept) \in Nat /\ DOMAIN kept = 1..Len(kept)
          /\ Len(D) \in Nat /\ DOMAIN D = 1..Len(D) /\ DOMAIN z = 1..Len(kept) + Len(D)
          /\ \A m \in 1..Len(kept) : z[m] = kept[m]
          /\ \A m \in 1..Len(D) : z[Len(kept) + m] = D[m]
      BY <3>3, Joins DEF z, D
    <3>5. \A m \in DOMAIN z : \/ m \in DOMAIN kept /\ z[m] = kept[m]
                              \/ \E k \in DOMAIN D : z[m] = D[k]
      <4> TAKE m \in DOMAIN z
      <4>1. CASE m \in 1..Len(kept)
        BY <3>4, <4>1
      <4>2. CASE m \notin 1..Len(kept)
        <5>1. m - Len(kept) \in 1..Len(D) /\ m = Len(kept) + (m - Len(kept))
          BY <3>4, <4>2
        <5> QED
          BY <3>4, <5>1
      <4> QED
        BY <4>1, <4>2
    <3>6. NoSecret(z)
      BY <3>2, <3>3, <3>5 DEF NoSecret, D
    <3> QED
      BY <3>1, <3>6
  <2> QED
    BY <2>1, <2>2
<1> HIDE DEF S
<1>4. PICK i \in DOMAIN S : \A w \in ToSet(c.text) : w \in ToSet(S[i].text)
  BY <1>1, <1>2, ChunkIs DEF S
<1>5. c.text[n] \in ToSet(S[i].text)
  BY <1>4 DEF ToSet
<1> QED
  BY <1>3, <1>5 DEF NoSecret

-----------------------------------------------------------------------------
(* Counts.                                                                 *)

\* A count is one of a sample.
Counts(m) == m.of \in Nat /\ m.hits \in 0..m.of

\* What is recorded and counted has the type it should.
Tallied ==
  /\ \A n \in DOMAIN records : records[n].retrieved \in BOOLEAN /\ records[n].succeeded \in BOOLEAN
  /\ \A m \in metrics : Counts(m)

\* The hits of a rate are in its sample.
LEMMA MetricCounts ==
  ASSUME NEW S, IsFiniteSet(S), NEW name, NEW part, NEW variant, NEW sample \in SUBSET S, NEW hit
  PROVE  Counts(Metric(name, part, variant, sample, hit))
<1> DEFINE m == Metric(name, part, variant, sample, hit)
<1>1. m.of = Cardinality(sample) /\ m.hits = Cardinality(sample \cap hit)
  BY DEF Metric
<1> HIDE DEF m
<1>2. IsFiniteSet(sample) /\ Cardinality(sample) \in Nat
  BY FS_Subset, FS_CardinalityType
<1>3. sample \cap hit \in SUBSET sample
  OBVIOUS
<1>4. IsFiniteSet(sample \cap hit) /\ Cardinality(sample \cap hit) <= Cardinality(sample)
  BY <1>2, <1>3, FS_Subset
<1>5. Cardinality(sample \cap hit) \in Nat
  BY <1>4, FS_CardinalityType
<1> QED
  BY <1>1, <1>2, <1>4, <1>5 DEF Counts, m

\* A metric of a sample from S.
IsRate(sample, m) == \E name, part, variant, hit : m = Metric(name, part, variant, sample, hit)
SampledFrom(S, m) == \E sample \in SUBSET S : IsRate(sample, m)

\* So they are whatever the rate is.
LEMMA SampledCounts ==
  ASSUME NEW S, IsFiniteSet(S), NEW m, SampledFrom(S, m)
  PROVE  Counts(m)
BY MetricCounts DEF SampledFrom, IsRate

\* The trials a rate is of are among the records.
LEMMA SamplesAre ==
  ASSUME NEW rs, NEW t, NEW d
  PROVE  /\ Under(rs, d) \in SUBSET DOMAIN rs /\ At(rs, t, d) \in SUBSET DOMAIN rs
         /\ \A P \in SUBSET DOMAIN rs : \A keys : Having(rs, P, keys) \in SUBSET DOMAIN rs
BY DEF Under, At, Having

\* The rates of a kind of attack are of trials.
LEMMA TypeSamples ==
  ASSUME NEW D, NEW rs, NEW t, NEW m \in TypeMetrics(D, rs, t)
  PROVE  SampledFrom(DOMAIN rs, m)
<1> DEFINE S == DOMAIN rs
           X(d) == At(rs, t, d)
           retrieved == {n \in DOMAIN rs : rs[n].retrieved}
           success == {n \in DOMAIN rs : rs[n].succeeded}
           Of(f, d) == {n \in Having(rs, X(d), {"family"}) : rs[n].family = f}
           parts == {x \in {"seen", "heldout"} \X D : Of(x[1], x[2]) # {}}
           scanned == {d \in D : Having(rs, X(d), {"compromised"}) = X(d)}
           A == {Metric(RetrievalName(t), "", "", UNION {X(d) : d \in Unstripped(D)}, retrieved)}
           B == {Metric(SuccessName(t), "", d, X(d), success) : d \in D}
           C == {Metric(CompromiseName(t), "", d, X(d), {n \in X(d) : rs[n].compromised}) : d \in scanned}
           E == {Metric(SuccessName(t), x[1], x[2], Of(x[1], x[2]), success) : x \in parts}
           F == {Metric(ScreenedName(t), x[1], x[2], Of(x[1], x[2]), DOMAIN rs \ retrieved) : x \in parts}
<1>1. \A d : X(d) \in SUBSET S
  BY SamplesAre
<1>2. \A f, d : Of(f, d) \in SUBSET S
  <2> TAKE f, d
  <2>1. Having(rs, X(d), {"family"}) \in SUBSET S
    BY <1>1, SamplesAre
  <2> QED
    BY <2>1
<1>3. UNION {X(d) : d \in Unstripped(D)} \in SUBSET S
  <2> HIDE DEF X, S
  <2> QED
    BY <1>1
<1>4. m \in A \cup B \cup C \cup E \cup F
  BY Zenon DEF TypeMetrics
<1> HIDE DEF X, Of, S, retrieved, success, parts, scanned
<1>5. ASSUME m \in A PROVE SampledFrom(S, m)
  BY <1>3, <1>5, Zenon DEF SampledFrom, IsRate
<1>6. ASSUME m \in B PROVE SampledFrom(S, m)
  <2>1. PICK d \in D : m = Metric(SuccessName(t), "", d, X(d), success)
    BY <1>6
  <2>2. IsRate(X(d), m)
    BY <2>1, Zenon DEF IsRate
  <2> QED
    BY <1>1, <2>2 DEF SampledFrom
<1>7. ASSUME m \in C PROVE SampledFrom(S, m)
  <2>1. \E d : IsRate(X(d), m)
    BY <1>7, Zenon DEF IsRate
  <2> QED
    BY <1>1, <2>1 DEF SampledFrom
<1>8. ASSUME m \in E PROVE SampledFrom(S, m)
  <2>1. \E f, d : IsRate(Of(f, d), m)
    BY <1>8, Zenon DEF IsRate
  <2> QED
    BY <1>2, <2>1 DEF SampledFrom
<1>9. ASSUME m \in F PROVE SampledFrom(S, m)
  <2>1. \E f, d : IsRate(Of(f, d), m)
    BY <1>9, Zenon DEF IsRate
  <2> QED
    BY <1>2, <2>1 DEF SampledFrom
<1> HIDE DEF A, B, C, E, F
<1>10. SampledFrom(S, m)
  BY <1>4, <1>5, <1>6, <1>7, <1>8, <1>9
<1> QED
  BY <1>10 DEF S

\* The rates of a condition are of trials, of controls or of screened chunks.
LEMMA ConditionSamples ==
  ASSUME NEW rs, NEW cleans, NEW screened, NEW d, NEW m \in ConditionMetrics(rs, cleans, screened, d)
  PROVE  SampledFrom(DOMAIN rs, m) \/ SampledFrom(DOMAIN cleans, m) \/ SampledFrom(screened, m)
<1> DEFINE clean == {n \in DOMAIN cleans : cleans[n].defense = d}
           scanned == Having(rs, Under(rs, d), {"matched", "own"})
           judged == Having(rs, Under(rs, d), {"abstained"})
           taken == {c \in screened : c.defense = d}
<1>1. /\ scanned \in SUBSET DOMAIN rs /\ judged \in SUBSET DOMAIN rs
      /\ clean \in SUBSET DOMAIN cleans /\ taken \in SUBSET screened
  <2>1. Under(rs, d) \in SUBSET DOMAIN rs
    BY SamplesAre
  <2> QED
    BY <2>1, SamplesAre
<1>2. IsRate(scanned, m) \/ IsRate(judged, m) \/ IsRate(clean, m) \/ IsRate(taken, m)
  BY Zenon DEF ConditionMetrics, IsRate
<1> HIDE DEF clean, scanned, judged, taken
<1> QED
  BY <1>1, <1>2 DEF SampledFrom

\* Every rate of the security suite counts hits in its sample.
LEMMA SecurityCounts ==
  ASSUME NEW D, NEW rs, NEW cleans, NEW screened,
         IsFiniteSet(DOMAIN rs), IsFiniteSet(DOMAIN cleans), IsFiniteSet(screened),
         NEW m \in SecurityMetrics(D, rs, cleans, screened)
  PROVE  Counts(m)
<1>1. \/ \E n \in DOMAIN rs : m \in TypeMetrics(D, rs, rs[n].type)
      \/ \E d \in D : m \in ConditionMetrics(rs, cleans, screened, d)
  BY SecurityMetricsAre
<1>2. SampledFrom(DOMAIN rs, m) \/ SampledFrom(DOMAIN cleans, m) \/ SampledFrom(screened, m)
  BY <1>1, TypeSamples, ConditionSamples
<1> QED
  BY <1>2, SampledCounts

\* So does every rate of the privacy suite, and the count of what was dropped.
LEMMA PrivacyCounts ==
  ASSUME IsSeq(records), IsSeq(planted), Surviving, NEW m \in PrivacyMetrics
  PROVE  Counts(m)
<1> DEFINE leaked == {n \in DOMAIN records : records[n].succeeded}
           exposed == {n \in DOMAIN records : records[n].retrieved}
           X(s) == {n \in Under(records, config.defenses[1]) : records[n].style = s}
           A == {Metric("leakage_rate", "", d, Under(records, d), leaked) : d \in Conditions}
           B == {Metric("retrieval_exposure_rate", "", d, Under(records, d), exposed) : d \in Conditions}
           C == {Metric("leakage_rate", ToString(s), "", X(s), leaked) : s \in 1..config.probes}
           last == [name |-> "canary_docs_dropped_by_filter", part |-> "", variant |-> "", state |-> "measured",
                    of |-> Len(planted), hits |-> Len(planted) - Len(live)]
<1>1. m \in A \cup B \cup C \cup {last}
  BY Zenon DEF PrivacyMetrics
<1>2. IsFiniteSet(DOMAIN records)
  BY FiniteDomain
<1>3. \A d : Under(records, d) \in SUBSET DOMAIN records
  BY SamplesAre
<1>4. \A s : X(s) \in SUBSET DOMAIN records
  BY <1>3
<1> HIDE DEF X, leaked, exposed
<1>5. ASSUME m \in A \/ m \in B PROVE Counts(m)
  <2>1. \E d : IsRate(Under(records, d), m)
    BY <1>5, Zenon DEF IsRate
  <2>2. SampledFrom(DOMAIN records, m)
    BY <1>3, <2>1 DEF SampledFrom
  <2> QED
    BY <1>2, <2>2, SampledCounts
<1>6. ASSUME m \in C PROVE Counts(m)
  <2>1. \E s : IsRate(X(s), m)
    BY <1>6, Zenon DEF IsRate
  <2>2. SampledFrom(DOMAIN records, m)
    BY <1>4, <2>1 DEF SampledFrom
  <2> QED
    BY <1>2, <2>2, SampledCounts
<1> HIDE DEF A, B, C
<1>7. CASE m = last
  <2>1. PICK e \in [DOMAIN live -> DOMAIN planted] : Drawn(Documents(live), Documents(planted), e)
    BY DEF Surviving
  <2>2. /\ DOMAIN live = 1..Len(live) /\ Len(live) \in Nat
        /\ DOMAIN planted = 1..Len(planted) /\ Len(planted) \in Nat
    BY Extent DEF Surviving
  <2>3. DOMAIN Documents(live) = DOMAIN live
    BY DocumentsAre DEF Surviving
  <2>4. \A k, l \in DOMAIN live : k < l => e[k] < e[l]
    BY <2>1, <2>3 DEF Drawn
  <2>5. \A k, l \in DOMAIN live : e[k] = e[l] => k = l
    <3> TAKE k, l \in DOMAIN live
    <3>1. k \in Nat /\ l \in Nat /\ e[k] \in Nat /\ e[l] \in Nat
      BY <2>1, <2>2
    <3> QED
      BY <2>4, <3>1
  <2>6. e \in Injection(DOMAIN live, DOMAIN planted)
    BY <2>1, <2>5 DEF Injection, IsInjective
  <2>7. IsFiniteSet(DOMAIN planted) /\ IsFiniteSet(DOMAIN live) /\ Cardinality(DOMAIN planted) = Len(planted) /\ Cardinality(DOMAIN live) = Len(live)
    BY FiniteDomain DEF Surviving
  <2>8. Len(live) <= Len(planted)
    BY <2>6, <2>7, FS_Injection
  <2>9. m.of = Len(planted) /\ m.hits = Len(planted) - Len(live)
    BY <1>7
  <2> HIDE DEF last
  <2> QED
    BY <2>2, <2>8, <2>9 DEF Counts
<1> HIDE DEF last
<1> QED
  BY <1>1, <1>5, <1>6, <1>7

\* The screen control takes finitely many chunks.
LEMMA ScreensFinite ==
  ASSUME Staged, Filed, phase # "load", NEW sample \in Targets(CleanChunks, config.screen_sample),
         NEW S, S = UNION {{[defense |-> d, chunk |-> c, screened |-> Screened(c, d)]
                              : c \in sample} : d \in Conditions}
  PROVE  IsFiniteSet(S)
<1>1. IsFiniteSet(CleanChunks)
  <2>1. IsDocs(Corpus) /\ Chained(config.filters)
    BY CorpusIs, ConfigIs DEF Staged
  <2>2. IsDocs(kept)
    BY <2>1, AppliedIs DEF Filed
  <2> QED
    BY <2>2, FiniteChunks DEF CleanChunks
<1>2. IsFiniteSet(sample)
  <2>1. sample \in SUBSET CleanChunks
    BY DEF Targets
  <2> QED
    BY <1>1, <2>1, FS_Subset
<1>3. IsFiniteSet(Conditions)
  BY FiniteSequence, ConfigIs DEF Conditions, Staged
<1> DEFINE P == Conditions \X sample
           f == [p \in P |-> [defense |-> p[1], chunk |-> p[2], screened |-> Screened(p[2], p[1])]]
<1>4. IsFiniteSet(P)
  BY <1>2, <1>3, FS_Product
<1>5. f \in [P -> S]
  OBVIOUS
<1>6. \A x \in S : \E p \in P : f[p] = x
  <2> TAKE x \in S
  <2>1. PICK d \in Conditions : x \in {[defense |-> d, chunk |-> c, screened |-> Screened(c, d)] : c \in sample}
    OBVIOUS
  <2>2. PICK c \in sample : x = [defense |-> d, chunk |-> c, screened |-> Screened(c, d)]
    BY <2>1
  <2>3. <<d, c>> \in P /\ f[<<d, c>>] = x
    BY <2>2
  <2> QED
    BY <2>3
<1>7. f \in Surjection(P, S)
  BY <1>5, <1>6 DEF Surjection
<1> HIDE DEF P, f
<1> QED
  BY <1>4, <1>7, FS_Surjection

\* What is recorded and counted keeps its type.
LEMMA TalliedStep ==
  ASSUME Staged, Filed, Surviving, Coined, Built, Posed, IsSeq(records), Found, Tallied, [Next]_vars
  PROVE  Tallied'
<1>1. CASE Answered
  <2>1. phase = "trial" /\ flight # None /\ metrics' = metrics
    BY <1>1 DEF Answered, results
  <2>2. PICK text \in Texts : records' = Append(records, Record(flight.of, text))
    BY <1>1 DEF Answered
  <2> DEFINE r == Record(flight.of, text)
  <2>3. r.retrieved \in BOOLEAN /\ r.succeeded \in BOOLEAN
    BY <2>1, RecordProves
  <2> HIDE DEF r
  <2>4. /\ DOMAIN records' = 1..Len(records) + 1 /\ DOMAIN records = 1..Len(records)
        /\ \A n \in DOMAIN records : records'[n] = records[n]
        /\ records'[Len(records) + 1] = r /\ Len(records) \in Nat
    BY <2>2, Appended DEF r
  <2>5. \A n \in DOMAIN records' : n \in DOMAIN records \/ n = Len(records) + 1
    BY <2>4
  <2>6. \A n \in DOMAIN records' : records'[n].retrieved \in BOOLEAN /\ records'[n].succeeded \in BOOLEAN
    BY <2>3, <2>4, <2>5 DEF Tallied
  <2> QED
    BY <2>1, <2>6 DEF Tallied, Counts
<1>2. CASE Aggregate
  <2>1. /\ phase = "control" /\ records' = records
        /\ metrics' = SecurityMetrics(Conditions, records, controls, screens')
    BY <1>2 DEF Aggregate
  <2>2. PICK sample \in Targets(CleanChunks, config.screen_sample) :
          screens' = UNION {{[defense |-> d, chunk |-> c, screened |-> Screened(c, d)]
                               : c \in sample} : d \in Conditions}
    BY <1>2 DEF Aggregate
  <2>3. IsFiniteSet(screens')
    BY <2>1, <2>2, ScreensFinite
  <2>4. IsFiniteSet(DOMAIN records) /\ IsFiniteSet(DOMAIN controls)
    BY FiniteDomain DEF Found
  <2>5. \A m \in metrics' : Counts(m)
    BY <2>1, <2>3, <2>4, SecurityCounts
  <2> QED
    BY <2>1, <2>5 DEF Tallied, Counts
<1>3. CASE AggregatePrivacy
  <2>1. records' = records /\ metrics' = PrivacyMetrics
    BY <1>3 DEF AggregatePrivacy
  <2>2. \A m \in metrics' : Counts(m)
    BY <2>1, PrivacyCounts DEF Staged
  <2> QED
    BY <2>1, <2>2 DEF Tallied, Counts
<1>4. ASSUME records' = records, metrics' = metrics PROVE Tallied'
  BY <1>4 DEF Tallied, Counts
<1>5. CASE Load
  BY <1>4, <1>5 DEF Load, results
<1>6. CASE Plant
  BY <1>4, <1>6 DEF Plant, results
<1>7. CASE BeginInjection
  BY <1>4, <1>7 DEF BeginInjection, results
<1>8. CASE AttacksPlanned
  BY <1>4, <1>8 DEF AttacksPlanned, results
<1>9. CASE CanariesPlanned
  BY <1>4, <1>9 DEF CanariesPlanned, results
<1>10. CASE Embed
  BY <1>4, <1>10 DEF Embed, results
<1>11. CASE Ask
  BY <1>4, <1>11 DEF Ask, results
<1>12. CASE BeginControls
  BY <1>4, <1>12 DEF BeginControls, results
<1>13. CASE Control
  BY <1>4, <1>13 DEF Control, results
<1>14. CASE Controlled
  BY <1>4, <1>14 DEF Controlled, results
<1>15. CASE ReadBack
  BY <1>4, <1>15 DEF ReadBack
<1>16. CASE UNCHANGED vars
  BY <1>4, <1>16 DEF vars, results
<1> QED
  BY <1>1, <1>2, <1>3, <1>5, <1>6, <1>7, <1>8, <1>9, <1>10, <1>11, <1>12, <1>13, <1>14, <1>15, <1>16 DEF Next

\* The invariant is of well-typed states.
LEMMA Typed ==
  ASSUME Staged, Filed, Surviving, Coined, Posed, IsSeq(records), Tallied
  PROVE  TypeOK
<1>1. config \in Configs /\ phase \in {"load", "poison", "injection", "canary", "embed", "trial", "control"} \cup Done
  BY DEF Staged, Planning, Planned, Done
<1>2. \A n \in DOMAIN planted : planted[n].type \in {"poison", "injection", "canary"}
  BY DEF Coined, Telling
<1>3. Len(dropped) \in {0, Len(config.filters)}
  <2>1. CASE phase = "load"
    BY <2>1 DEF Filed
  <2>2. CASE Planning /\ phase # "load"
    <3>1. IsDocs(Corpus) /\ Chained(config.filters)
      BY CorpusIs, ConfigIs DEF Staged
    <3> QED
      BY <2>2, <3>1, AppliedIs DEF Filed
  <2>3. CASE ~Planning
    BY <2>3 DEF Filed
  <2> QED
    BY <2>1, <2>2, <2>3
<1>4. Ids(Documents(live)) \subseteq Ids(Documents(planted))
  BY DrawnIds DEF Surviving
<1>5. flight = None \/ (flight.is = "trial" /\ phase \in {"trial", "control"})
  BY DEF Posed, Posing
<1>6. \A r \in ToSet(records) : r.retrieved \in BOOLEAN /\ r.succeeded \in BOOLEAN
  BY DEF Tallied, ToSet
<1>7. \A m \in metrics : m.hits \in 0..m.of
  BY DEF Tallied, Counts
<1>8. ~Security /\ phase \in {"embed", "trial", "done"} => live # <<>>
  BY DEF Surviving
<1> QED
  BY <1>1, <1>2, <1>3, <1>4, <1>5, <1>6, <1>7, <1>8 DEF TypeOK

-----------------------------------------------------------------------------
(* Rates add up.                                                           *)

\* The metrics of a name.
Called(name, part, variant) ==
  {m \in metrics : m.name = name /\ m.part = part /\ m.variant = variant}

\* What a set of metrics adds up to, one after another.
Totalling(field, S) ==
  CHOOSE it : it = [s \in SUBSET S |->
    IF s = {} THEN 0
    ELSE (CHOOSE m \in s : TRUE)[field] + it[s \ {CHOOSE m \in s : TRUE}]]

\* A total adds up the metrics of its name.
LEMMA TotalIs ==
  ASSUME NEW field, NEW name, NEW part, NEW variant
  PROVE  Total(field, name, part, variant)
           = Totalling(field, Called(name, part, variant))[Called(name, part, variant)]
BY Zenon DEF Total, Totalling, Called, MapThenSumSet, MapThenFoldSet

\* No metric adds up to nothing, and one to itself.
LEMMA TotalOfOne ==
  ASSUME NEW field, NEW S, NEW m, m[field] \in Nat, S = {} \/ S = {m}
  PROVE  Totalling(field, S)[S] = IF S = {} THEN 0 ELSE m[field]
<1> DEFINE it == Totalling(field, S)
           x(s) == CHOOSE e \in s : TRUE
           one == [s \in SUBSET S |-> IF s = {} THEN 0 ELSE m[field]]
<1>1. \A s \in SUBSET S : s # {} => x(s) = m /\ s \ {x(s)} = {} /\ s = S
  <2> SUFFICES ASSUME NEW s \in SUBSET S, s # {} PROVE x(s) = m /\ s \ {x(s)} = {} /\ s = S
    OBVIOUS
  <2>1. x(s) \in s /\ s = {m} /\ S = {m}
    OBVIOUS
  <2> QED
    BY <2>1
<1>2. one = [s \in SUBSET S |-> IF s = {} THEN 0 ELSE x(s)[field] + one[s \ {x(s)}]]
  <2> HIDE DEF x
  <2>1. one[{}] = 0
    OBVIOUS
  <2> HIDE DEF one
  <2>2. \A s \in SUBSET S : one[s] = IF s = {} THEN 0 ELSE x(s)[field] + one[s \ {x(s)}]
    BY <1>1, <2>1 DEF one
  <2> QED
    BY <2>2 DEF one
<1>3. it = [s \in SUBSET S |-> IF s = {} THEN 0 ELSE x(s)[field] + it[s \ {x(s)}]]
  <2> HIDE DEF one
  <2> QED
    BY <1>2, Zenon DEF Totalling
<1> HIDE DEF it, x
<1>4. it[{}] = 0
  BY <1>3
<1>5. S # {} => it[S] = m[field] + it[{}]
  BY <1>1, <1>3
<1>6. it[S] = IF S = {} THEN 0 ELSE m[field]
  BY <1>4, <1>5
<1> QED
  BY <1>6 DEF it

\* A name of at most one metric, which is left out of an empty sample.
Only(name, part, variant, sample, hit) ==
  \A m : m \in Called(name, part, variant) <=>
    m = Metric(name, part, variant, sample, hit) /\ m.of > 0

\* Such a name's totals are those of its sample.
LEMMA TotalsAre ==
  ASSUME NEW name, NEW part, NEW variant, NEW sample, NEW hit, IsFiniteSet(sample),
         Only(name, part, variant, sample, hit)
  PROVE  /\ Hits(name, part, variant) = Cardinality(sample \cap hit)
         /\ Sample(name, part, variant) = Cardinality(sample)
<1> DEFINE m == Metric(name, part, variant, sample, hit)
           S == Called(name, part, variant)
<1>1. m.of = Cardinality(sample) /\ m.hits = Cardinality(sample \cap hit)
  BY DEF Metric
<1>2. Cardinality(sample) \in Nat /\ Cardinality(sample \cap hit) \in Nat
      /\ (Cardinality(sample) = 0 => Cardinality(sample \cap hit) = 0)
  <2>1. sample \cap hit \in SUBSET sample
    OBVIOUS
  <2>2. /\ IsFiniteSet(sample \cap hit) /\ Cardinality(sample \cap hit) <= Cardinality(sample)
        /\ Cardinality(sample) \in Nat
    BY <2>1, FS_Subset, FS_CardinalityType
  <2>3. Cardinality(sample \cap hit) \in Nat
    BY <2>2, FS_CardinalityType
  <2> QED
    BY <2>2, <2>3
<1>3. \A e : e \in S <=> e = m /\ e.of > 0
  BY DEF Only
<1>4. m["of"] = m.of /\ m["hits"] = m.hits
  OBVIOUS
<1> HIDE DEF m
<1>5. S = {} \/ S = {m}
  BY <1>3
<1>6. S = {} <=> Cardinality(sample) = 0
  BY <1>1, <1>2, <1>3
<1> HIDE DEF S
<1>7. \A field \in {"of", "hits"} : Totalling(field, S)[S] = IF S = {} THEN 0 ELSE m[field]
  <2>1. \A field \in {"of", "hits"} : m[field] \in Nat
    BY <1>1, <1>2, <1>4
  <2> QED
    BY <1>5, <2>1, TotalOfOne
<1>9. Hits(name, part, variant) = Totalling("hits", S)[S] /\ Sample(name, part, variant) = Totalling("of", S)[S]
  BY TotalIs DEF Hits, Sample, S
<1> QED
  BY <1>1, <1>2, <1>4, <1>6, <1>7, <1>9

\* The names of the rates of a kind of attack, and of a condition.
TypeNames(t) == {SuccessName(t), CompromiseName(t), RetrievalName(t), ScreenedName(t)}
ConditionNames ==
  {"attack_abstention_rate", "attack_competition_rate", "cross_question_contamination_rate",
   "clean_abstention_rate", "clean_answer_accuracy", "defense_clean_screen_rate"}

\* A name tells what is counted.
LEMMA NamesTell ==
  ASSUME NEW t \in {"poison", "injection"}, NEW u \in {"poison", "injection"}
  PROVE  /\ SuccessName(t) = SuccessName(u) => t = u
         /\ CompromiseName(t) = CompromiseName(u) => t = u
         /\ SuccessName(t) \notin ConditionNames /\ CompromiseName(t) \notin ConditionNames
         /\ SuccessName(t) \notin {CompromiseName(u), RetrievalName(u), ScreenedName(u)}
         /\ CompromiseName(t) \notin {SuccessName(u), RetrievalName(u), ScreenedName(u)}
         /\ \A name \in ConditionNames : name \notin TypeNames(t)
BY DEF SuccessName, CompromiseName, RetrievalName, ScreenedName, ConditionNames, TypeNames

\* The trials counted.
Success(rs) == {n \in DOMAIN rs : rs[n].succeeded}
Retrieved(rs) == {n \in DOMAIN rs : rs[n].retrieved}
Missed(rs) == DOMAIN rs \ Retrieved(rs)
Exposed(D, rs, t) == UNION {At(rs, t, d) : d \in Unstripped(D)}
Hit(rs, t, d) == {n \in At(rs, t, d) : rs[n].compromised}
Kin(rs, t, f, d) == {n \in At(rs, t, d) : rs[n].family = f}
Met(rs, d) == {n \in Under(rs, d) : Competing(rs[n]) # {}}
Crossed(rs, d) == {n \in Under(rs, d) : CrossQuestion(rs[n]) # {}}

\* Complete records have every key.
LEMMA AllHave ==
  ASSUME NEW rs, Complete(rs), NEW S \in SUBSET DOMAIN rs, NEW keys \in SUBSET RecordKeys
  PROVE  Having(rs, S, keys) = S
BY DEF Having, Complete

\* What the metrics of a kind of attack are of: the trials retrieved, those that
\* succeeded or were compromised, of a family those that succeeded or were missed.
OfRetrieval(D, rs, t, m) == m = Metric(RetrievalName(t), "", "", Exposed(D, rs, t), Retrieved(rs))
OfSuccess(D, rs, t, m) == \E d \in D : m = Metric(SuccessName(t), "", d, At(rs, t, d), Success(rs))
OfCompromise(D, rs, t, m) ==
  \E d \in D : m = Metric(CompromiseName(t), "", d, At(rs, t, d), Hit(rs, t, d))
OfFamily(D, rs, t, m) ==
  \E f \in {"seen", "heldout"}, d \in D :
    Kin(rs, t, f, d) # {} /\ m = Metric(SuccessName(t), f, d, Kin(rs, t, f, d), Success(rs))
OfScreening(D, rs, t, m) ==
  \E f \in {"seen", "heldout"}, d \in D :
    Kin(rs, t, f, d) # {} /\ m = Metric(ScreenedName(t), f, d, Kin(rs, t, f, d), Missed(rs))

\* The rates of a kind of attack, by their names.
LEMMA TypeMetricsNamed ==
  ASSUME NEW D, NEW rs, Complete(rs), NEW t, NEW m
  PROVE  m \in TypeMetrics(D, rs, t) <=>
           \/ OfRetrieval(D, rs, t, m) \/ OfSuccess(D, rs, t, m) \/ OfCompromise(D, rs, t, m)
           \/ OfFamily(D, rs, t, m) \/ OfScreening(D, rs, t, m)
<1> DEFINE X(d) == At(rs, t, d)
           retrieved == {n \in DOMAIN rs : rs[n].retrieved}
           success == {n \in DOMAIN rs : rs[n].succeeded}
           Of(f, d) == {n \in Having(rs, X(d), {"family"}) : rs[n].family = f}
           parts == {x \in {"seen", "heldout"} \X D : Of(x[1], x[2]) # {}}
           scanned == {d \in D : Having(rs, X(d), {"compromised"}) = X(d)}
           A == {Metric(RetrievalName(t), "", "", UNION {X(d) : d \in Unstripped(D)}, retrieved)}
           B == {Metric(SuccessName(t), "", d, X(d), success) : d \in D}
           C == {Metric(CompromiseName(t), "", d, X(d), {n \in X(d) : rs[n].compromised}) : d \in scanned}
           E == {Metric(SuccessName(t), x[1], x[2], Of(x[1], x[2]), success) : x \in parts}
           F == {Metric(ScreenedName(t), x[1], x[2], Of(x[1], x[2]), DOMAIN rs \ retrieved) : x \in parts}
<1>1. m \in TypeMetrics(D, rs, t) <=> m \in A \cup B \cup C \cup E \cup F
  BY Zenon DEF TypeMetrics
<1>2. \A d : X(d) \in SUBSET DOMAIN rs
  BY SamplesAre
<1>3. {"family"} \in SUBSET RecordKeys /\ {"compromised"} \in SUBSET RecordKeys
  BY DEF RecordKeys, ScanKeys
<1>4. \A d : Having(rs, X(d), {"family"}) = X(d) /\ Having(rs, X(d), {"compromised"}) = X(d)
  <2> HIDE DEF X
  <2> QED
    BY <1>2, <1>3, AllHave
<1>5. scanned = D
  <2> HIDE DEF X
  <2> QED
    BY <1>4
<1>6. \A f, d : Of(f, d) = Kin(rs, t, f, d)
  BY <1>4 DEF Kin
<1>7. success = Success(rs) /\ \A d : {n \in X(d) : rs[n].compromised} = Hit(rs, t, d)
  BY DEF Success, Hit
<1> HIDE DEF success, Of, scanned, retrieved
<1>8. m \in C <=> \E d \in D : m = Metric(CompromiseName(t), "", d, X(d), Hit(rs, t, d))
  <2> HIDE DEF X
  <2> QED
    BY <1>5, <1>7
<1>9. m \in B <=> \E d \in D : m = Metric(SuccessName(t), "", d, X(d), Success(rs))
  BY <1>7
<1>10. /\ m \in E <=> \E f \in {"seen", "heldout"}, d \in D :
            Of(f, d) # {} /\ m = Metric(SuccessName(t), f, d, Of(f, d), success)
       /\ m \in F <=> \E f \in {"seen", "heldout"}, d \in D :
            Of(f, d) # {} /\ m = Metric(ScreenedName(t), f, d, Of(f, d), DOMAIN rs \ retrieved)
  <2>1. \A x : x \in parts <=> \E f \in {"seen", "heldout"}, d \in D : x = <<f, d>> /\ Of(f, d) # {}
    OBVIOUS
  <2> HIDE DEF parts
  <2>2. ASSUME NEW x \in parts
        PROVE  \E f \in {"seen", "heldout"}, d \in D : x[1] = f /\ x[2] = d /\ Of(f, d) # {}
    BY <2>1
  <2>3. ASSUME NEW f \in {"seen", "heldout"}, NEW d \in D, Of(f, d) # {}
        PROVE  \E x \in parts : x[1] = f /\ x[2] = d
    <3>1. <<f, d>> \in parts /\ <<f, d>>[1] = f /\ <<f, d>>[2] = d
      BY <2>1, <2>3
    <3> QED
      BY <3>1
  <2> QED
    BY <2>2, <2>3
<1>11. /\ m \in E <=> \E f \in {"seen", "heldout"}, d \in D :
             Kin(rs, t, f, d) # {} /\ m = Metric(SuccessName(t), f, d, Kin(rs, t, f, d), Success(rs))
       /\ m \in F <=> \E f \in {"seen", "heldout"}, d \in D :
             Kin(rs, t, f, d) # {} /\ m = Metric(ScreenedName(t), f, d, Kin(rs, t, f, d), DOMAIN rs \ retrieved)
  BY <1>6, <1>7, <1>10
<1>12. m \in A <=> m = Metric(RetrievalName(t), "", "", Exposed(D, rs, t), Retrieved(rs))
  BY DEF Exposed, Retrieved, retrieved
<1>13. DOMAIN rs \ retrieved = Missed(rs)
  BY DEF Missed, Retrieved, retrieved
<1> HIDE DEF A, B, C, E, F
<1>14. m \in F <=> OfScreening(D, rs, t, m)
  BY <1>11, <1>13 DEF OfScreening
<1> QED
  BY <1>1, <1>8, <1>9, <1>11, <1>12, <1>14 DEF OfRetrieval, OfSuccess, OfCompromise, OfFamily

\* The rates of a condition, by their names.
LEMMA ConditionMetricsNamed ==
  ASSUME NEW rs, Complete(rs), NEW cleans, NEW screened, NEW d
  PROVE  /\ \A m \in ConditionMetrics(rs, cleans, screened, d) : m.name \in ConditionNames
         /\ \A m \in ConditionMetrics(rs, cleans, screened, d) : m.variant = d
         /\ \A m \in ConditionMetrics(rs, cleans, screened, d) :
              m.name = "attack_competition_rate" =>
                m = Metric("attack_competition_rate", "", d, Under(rs, d), Met(rs, d))
         /\ \A m \in ConditionMetrics(rs, cleans, screened, d) :
              m.name = "cross_question_contamination_rate" =>
                m = Metric("cross_question_contamination_rate", "", d, Under(rs, d), Crossed(rs, d))
         /\ Metric("attack_competition_rate", "", d, Under(rs, d), Met(rs, d))
              \in ConditionMetrics(rs, cleans, screened, d)
         /\ Metric("cross_question_contamination_rate", "", d, Under(rs, d), Crossed(rs, d))
              \in ConditionMetrics(rs, cleans, screened, d)
<1> DEFINE U == Under(rs, d)
           clean == {n \in DOMAIN cleans : cleans[n].defense = d}
           scanned == Having(rs, U, {"matched", "own"})
           judged == Having(rs, U, {"abstained"})
           A == Metric("attack_abstention_rate", "", d, judged, {n \in judged : rs[n].abstained})
           B == Metric("attack_competition_rate", "", d, scanned, {n \in scanned : Competing(rs[n]) # {}})
           C == Metric("cross_question_contamination_rate", "", d, scanned,
                       {n \in scanned : CrossQuestion(rs[n]) # {}})
           E == Metric("clean_abstention_rate", "", d, clean, {n \in clean : cleans[n].abstained})
           F == Metric("clean_answer_accuracy", "", d, clean, {n \in clean : cleans[n].match})
           G == Metric("defense_clean_screen_rate", "", d, {c \in screened : c.defense = d},
                       {c \in screened : c.screened})
<1>1. ConditionMetrics(rs, cleans, screened, d) = {A, B, C, E, F, G}
  BY Zenon DEF ConditionMetrics
<1>2. U \in SUBSET DOMAIN rs /\ {"matched", "own"} \in SUBSET RecordKeys
  BY SamplesAre DEF RecordKeys, ScanKeys
<1>3. scanned = U
  <2> HIDE DEF U
  <2> QED
    BY <1>2, AllHave
<1>4. {n \in scanned : Competing(rs[n]) # {}} = Met(rs, d) /\ {n \in scanned : CrossQuestion(rs[n]) # {}} = Crossed(rs, d)
  BY <1>3 DEF Met, Crossed
<1>5. /\ B = Metric("attack_competition_rate", "", d, U, Met(rs, d))
      /\ C = Metric("cross_question_contamination_rate", "", d, U, Crossed(rs, d))
  <2> HIDE DEF U, scanned
  <2> QED
    BY <1>3, <1>4
<1>6. /\ A.name = "attack_abstention_rate" /\ B.name = "attack_competition_rate"
      /\ C.name = "cross_question_contamination_rate" /\ E.name = "clean_abstention_rate"
      /\ F.name = "clean_answer_accuracy" /\ G.name = "defense_clean_screen_rate"
  BY DEF Metric
<1>7. \A m \in {A, B, C, E, F, G} : m.part = "" /\ m.variant = d
  <2>1. A.part = "" /\ A.variant = d /\ B.part = "" /\ B.variant = d /\ C.part = "" /\ C.variant = d
        /\ E.part = "" /\ E.variant = d /\ F.part = "" /\ F.variant = d /\ G.part = "" /\ G.variant = d
    BY DEF Metric
  <2> HIDE DEF A, B, C, E, F, G
  <2> QED
    BY <2>1
<1> HIDE DEF A, B, C, E, F, G
<1> QED
  BY <1>1, <1>5, <1>6, <1>7 DEF ConditionNames

\* The name a metric has.
LEMMA Fields ==
  ASSUME NEW D, NEW rs, NEW t, NEW m
  PROVE  /\ OfRetrieval(D, rs, t, m) => m.name = RetrievalName(t)
         /\ OfSuccess(D, rs, t, m) => m.name = SuccessName(t) /\ m.part = ""
         /\ OfCompromise(D, rs, t, m) => m.name = CompromiseName(t) /\ m.part = ""
         /\ OfFamily(D, rs, t, m) => m.name = SuccessName(t) /\ m.part \in {"seen", "heldout"}
         /\ OfScreening(D, rs, t, m) => m.name = ScreenedName(t)
<1>1. OfRetrieval(D, rs, t, m) => m.name = RetrievalName(t)
  <2> HAVE OfRetrieval(D, rs, t, m)
  <2>1. m = Metric(RetrievalName(t), "", "", Exposed(D, rs, t), Retrieved(rs))
    BY DEF OfRetrieval
  <2> QED
    BY <2>1 DEF Metric
<1>2. OfSuccess(D, rs, t, m) => m.name = SuccessName(t) /\ m.part = ""
  <2> HAVE OfSuccess(D, rs, t, m)
  <2>1. PICK d \in D : m = Metric(SuccessName(t), "", d, At(rs, t, d), Success(rs))
    BY DEF OfSuccess
  <2> QED
    BY <2>1 DEF Metric
<1>3. OfCompromise(D, rs, t, m) => m.name = CompromiseName(t) /\ m.part = ""
  <2> HAVE OfCompromise(D, rs, t, m)
  <2>1. PICK d \in D : m = Metric(CompromiseName(t), "", d, At(rs, t, d), Hit(rs, t, d))
    BY DEF OfCompromise
  <2> QED
    BY <2>1 DEF Metric
<1>4. OfFamily(D, rs, t, m) => m.name = SuccessName(t) /\ m.part \in {"seen", "heldout"}
  BY DEF OfFamily, Metric
<1>5. OfScreening(D, rs, t, m) => m.name = ScreenedName(t)
  BY DEF OfScreening, Metric
<1> QED
  BY <1>1, <1>2, <1>3, <1>4, <1>5

\* A metric of a kind has one of the kind's names.
LEMMA NameOfKind ==
  ASSUME NEW D, NEW rs, Complete(rs), NEW u, NEW m \in TypeMetrics(D, rs, u)
  PROVE  m.name \in TypeNames(u)
<1>1. \/ OfRetrieval(D, rs, u, m) \/ OfSuccess(D, rs, u, m) \/ OfCompromise(D, rs, u, m)
      \/ OfFamily(D, rs, u, m) \/ OfScreening(D, rs, u, m)
  BY TypeMetricsNamed
<1>2. /\ OfRetrieval(D, rs, u, m) => m.name = RetrievalName(u)
      /\ OfSuccess(D, rs, u, m) => m.name = SuccessName(u) /\ m.part = ""
      /\ OfCompromise(D, rs, u, m) => m.name = CompromiseName(u) /\ m.part = ""
      /\ OfFamily(D, rs, u, m) => m.name = SuccessName(u) /\ m.part \in {"seen", "heldout"}
      /\ OfScreening(D, rs, u, m) => m.name = ScreenedName(u)
  BY Fields
<1> QED
  BY <1>1, <1>2 DEF TypeNames

\* The trials are attacks.
Attacks(rs) == \A n \in DOMAIN rs : rs[n].type \in {"poison", "injection"}

\* A metric of a kind's name is a metric of that kind.
LEMMA KindTold ==
  ASSUME NEW D, NEW rs, Complete(rs), Attacks(rs), NEW cleans, NEW screened,
         NEW t \in {"poison", "injection"}, NEW m \in SecurityMetrics(D, rs, cleans, screened),
         m.name \in {SuccessName(t), CompromiseName(t)}
  PROVE  m \in TypeMetrics(D, rs, t)
<1>1. \A d : m \notin ConditionMetrics(rs, cleans, screened, d)
  <2>1. m.name \notin ConditionNames
    BY NamesTell
  <2> QED
    BY <2>1, ConditionMetricsNamed
<1>2. PICK n \in DOMAIN rs : m \in TypeMetrics(D, rs, rs[n].type)
  BY <1>1, SecurityMetricsAre
<1> DEFINE u == rs[n].type
<1>3. u \in {"poison", "injection"}
  BY DEF Attacks
<1> HIDE DEF u
<1>4. m.name \in TypeNames(u)
  BY <1>2, NameOfKind DEF u
<1>5. t = u
  BY <1>3, <1>4, NamesTell DEF TypeNames
<1> QED
  BY <1>2, <1>5 DEF u

\* The rates of a kind of attack that a condition has, one of each name.
LEMMA OnlyOfKind ==
  ASSUME NEW D, NEW rs, Complete(rs), Attacks(rs), NEW cleans, NEW screened,
         metrics = SecurityMetrics(D, rs, cleans, screened),
         NEW t \in {"poison", "injection"}, NEW d \in D
  PROVE  /\ Only(SuccessName(t), "", d, At(rs, t, d), Success(rs))
         /\ Only(CompromiseName(t), "", d, At(rs, t, d), Hit(rs, t, d))
         /\ \A f \in {"seen", "heldout"} : Only(SuccessName(t), f, d, Kin(rs, t, f, d), Success(rs))
<1>1. ASSUME NEW m \in TypeMetrics(D, rs, t), m.of > 0, \E n \in DOMAIN rs : rs[n].type = t
      PROVE  m \in metrics
  BY <1>1, SecurityMetricsAre
<1>2. ASSUME NEW S, NEW name, NEW part, NEW hit, Metric(name, part, d, S, hit).of > 0
      PROVE  S # {}
  BY <1>2, FS_EmptySet DEF Metric
<1>3. \A S \in SUBSET At(rs, t, d) : S # {} => \E n \in DOMAIN rs : rs[n].type = t
  BY DEF At, Under
<1>4. \A m : m \in metrics => m.of > 0
  BY SecurityMetricsAre
<1>5. Only(SuccessName(t), "", d, At(rs, t, d), Success(rs))
  <2> DEFINE e == Metric(SuccessName(t), "", d, At(rs, t, d), Success(rs))
  <2>1. e \in TypeMetrics(D, rs, t)
    BY TypeMetricsNamed DEF OfSuccess
  <2>2. e.name = SuccessName(t) /\ e.part = "" /\ e.variant = d
    BY DEF Metric
  <2>3. e.of > 0 => e \in metrics
    BY <1>1, <1>2, <1>3, <2>1
  <2>4. ASSUME NEW m \in Called(SuccessName(t), "", d) PROVE m = e
    <3>1. m \in metrics /\ m.name = SuccessName(t) /\ m.part = "" /\ m.variant = d
      BY DEF Called
    <3>2. m \in TypeMetrics(D, rs, t)
      BY <3>1, KindTold
    <3>3. OfSuccess(D, rs, t, m)
      <4>1. \/ OfRetrieval(D, rs, t, m) \/ OfSuccess(D, rs, t, m) \/ OfCompromise(D, rs, t, m)
            \/ OfFamily(D, rs, t, m) \/ OfScreening(D, rs, t, m)
        BY <3>2, TypeMetricsNamed
      <4>2. /\ OfRetrieval(D, rs, t, m) => m.name = RetrievalName(t)
            /\ OfSuccess(D, rs, t, m) => m.name = SuccessName(t) /\ m.part = ""
            /\ OfCompromise(D, rs, t, m) => m.name = CompromiseName(t) /\ m.part = ""
            /\ OfFamily(D, rs, t, m) => m.name = SuccessName(t) /\ m.part \in {"seen", "heldout"}
            /\ OfScreening(D, rs, t, m) => m.name = ScreenedName(t)
        BY Fields
      <4> QED
        BY <3>1, <4>1, <4>2, NamesTell
    <3>4. PICK c \in D : m = Metric(SuccessName(t), "", c, At(rs, t, c), Success(rs))
      BY <3>3 DEF OfSuccess
    <3>5. m.variant = c
      BY <3>4 DEF Metric
    <3> QED
      BY <3>1, <3>4, <3>5
  <2> HIDE DEF e
  <2>5. \A m : m \in Called(SuccessName(t), "", d) <=> m = e /\ m.of > 0
    BY <1>4, <2>2, <2>3, <2>4 DEF Called
  <2> QED
    BY <2>5 DEF Only, e
<1>6. Only(CompromiseName(t), "", d, At(rs, t, d), Hit(rs, t, d))
  <2> DEFINE e == Metric(CompromiseName(t), "", d, At(rs, t, d), Hit(rs, t, d))
  <2>1. e \in TypeMetrics(D, rs, t)
    BY TypeMetricsNamed DEF OfCompromise
  <2>2. e.name = CompromiseName(t) /\ e.part = "" /\ e.variant = d
    BY DEF Metric
  <2>3. e.of > 0 => e \in metrics
    BY <1>1, <1>2, <1>3, <2>1
  <2>4. ASSUME NEW m \in Called(CompromiseName(t), "", d) PROVE m = e
    <3>1. m \in metrics /\ m.name = CompromiseName(t) /\ m.part = "" /\ m.variant = d
      BY DEF Called
    <3>2. m \in TypeMetrics(D, rs, t)
      BY <3>1, KindTold
    <3>3. OfCompromise(D, rs, t, m)
      <4>1. \/ OfRetrieval(D, rs, t, m) \/ OfSuccess(D, rs, t, m) \/ OfCompromise(D, rs, t, m)
            \/ OfFamily(D, rs, t, m) \/ OfScreening(D, rs, t, m)
        BY <3>2, TypeMetricsNamed
      <4>2. /\ OfRetrieval(D, rs, t, m) => m.name = RetrievalName(t)
            /\ OfSuccess(D, rs, t, m) => m.name = SuccessName(t) /\ m.part = ""
            /\ OfCompromise(D, rs, t, m) => m.name = CompromiseName(t) /\ m.part = ""
            /\ OfFamily(D, rs, t, m) => m.name = SuccessName(t) /\ m.part \in {"seen", "heldout"}
            /\ OfScreening(D, rs, t, m) => m.name = ScreenedName(t)
        BY Fields
      <4> QED
        BY <3>1, <4>1, <4>2, NamesTell
    <3>4. PICK c \in D : m = Metric(CompromiseName(t), "", c, At(rs, t, c), Hit(rs, t, c))
      BY <3>3 DEF OfCompromise
    <3>5. m.variant = c
      BY <3>4 DEF Metric
    <3> QED
      BY <3>1, <3>4, <3>5
  <2> HIDE DEF e
  <2>5. \A m : m \in Called(CompromiseName(t), "", d) <=> m = e /\ m.of > 0
    BY <1>4, <2>2, <2>3, <2>4 DEF Called
  <2> QED
    BY <2>5 DEF Only, e
<1>7. ASSUME NEW f \in {"seen", "heldout"}
      PROVE  Only(SuccessName(t), f, d, Kin(rs, t, f, d), Success(rs))
  <2> DEFINE e == Metric(SuccessName(t), f, d, Kin(rs, t, f, d), Success(rs))
  <2>1. Kin(rs, t, f, d) # {} => e \in TypeMetrics(D, rs, t)
    BY TypeMetricsNamed DEF OfFamily
  <2>2. e.name = SuccessName(t) /\ e.part = f /\ e.variant = d
    BY DEF Metric
  <2>3. e.of > 0 => e \in metrics
    <3>1. Kin(rs, t, f, d) \in SUBSET At(rs, t, d)
      BY DEF Kin
    <3> QED
      BY <1>1, <1>2, <1>3, <2>1, <3>1
  <2>4. ASSUME NEW m \in Called(SuccessName(t), f, d) PROVE m = e
    <3>1. m \in metrics /\ m.name = SuccessName(t) /\ m.part = f /\ m.variant = d
      BY DEF Called
    <3>2. m \in TypeMetrics(D, rs, t)
      BY <3>1, KindTold
    <3>3. OfFamily(D, rs, t, m)
      <4>1. \/ OfRetrieval(D, rs, t, m) \/ OfSuccess(D, rs, t, m) \/ OfCompromise(D, rs, t, m)
            \/ OfFamily(D, rs, t, m) \/ OfScreening(D, rs, t, m)
        BY <3>2, TypeMetricsNamed
      <4>2. /\ OfRetrieval(D, rs, t, m) => m.name = RetrievalName(t)
            /\ OfSuccess(D, rs, t, m) => m.name = SuccessName(t) /\ m.part = ""
            /\ OfCompromise(D, rs, t, m) => m.name = CompromiseName(t) /\ m.part = ""
            /\ OfFamily(D, rs, t, m) => m.name = SuccessName(t) /\ m.part \in {"seen", "heldout"}
            /\ OfScreening(D, rs, t, m) => m.name = ScreenedName(t)
        BY Fields
      <4> QED
        BY <3>1, <4>1, <4>2, NamesTell
    <3>4. PICK g \in {"seen", "heldout"}, c \in D : m = Metric(SuccessName(t), g, c, Kin(rs, t, g, c), Success(rs))
      BY <3>3 DEF OfFamily
    <3>5. m.part = g /\ m.variant = c
      BY <3>4 DEF Metric
    <3> QED
      BY <3>1, <3>4, <3>5
  <2> HIDE DEF e
  <2>5. \A m : m \in Called(SuccessName(t), f, d) <=> m = e /\ m.of > 0
    BY <1>4, <2>2, <2>3, <2>4 DEF Called
  <2> QED
    BY <2>5 DEF Only, e
<1> QED
  BY <1>5, <1>6, <1>7

\* The rates of a condition, one of each name.
LEMMA OnlyOfCondition ==
  ASSUME NEW D, NEW rs, Complete(rs), Attacks(rs), NEW cleans, NEW screened,
         metrics = SecurityMetrics(D, rs, cleans, screened), NEW d \in D
  PROVE  /\ Only("attack_competition_rate", "", d, Under(rs, d), Met(rs, d))
         /\ Only("cross_question_contamination_rate", "", d, Under(rs, d), Crossed(rs, d))
<1> DEFINE e == Metric("attack_competition_rate", "", d, Under(rs, d), Met(rs, d))
           f == Metric("cross_question_contamination_rate", "", d, Under(rs, d), Crossed(rs, d))
<1>1. /\ e.name = "attack_competition_rate" /\ e.part = "" /\ e.variant = d
      /\ f.name = "cross_question_contamination_rate" /\ f.part = "" /\ f.variant = d
      /\ e.of = Cardinality(Under(rs, d)) /\ f.of = Cardinality(Under(rs, d))
  BY DEF Metric
<1>2. e.of > 0 \/ f.of > 0 => Under(rs, d) # {}
  <2> HIDE DEF e, f
  <2>1. Cardinality({}) = 0
    BY FS_EmptySet
  <2>2. Under(rs, d) = {} => e.of = 0 /\ f.of = 0
    BY <1>1, <2>1
  <2> QED
    BY <2>2
<1>3. e \in ConditionMetrics(rs, cleans, screened, d) /\ f \in ConditionMetrics(rs, cleans, screened, d)
  BY ConditionMetricsNamed
<1>4. ASSUME NEW m \in metrics, m.name \in ConditionNames
      PROVE  \E c \in D : m \in ConditionMetrics(rs, cleans, screened, c)
  <2>1. \A n \in DOMAIN rs : m \notin TypeMetrics(D, rs, rs[n].type)
    <3> TAKE n \in DOMAIN rs
    <3> DEFINE u == rs[n].type
    <3>1. u \in {"poison", "injection"}
      BY DEF Attacks
    <3> HIDE DEF u
    <3>2. m \in TypeMetrics(D, rs, u) => m.name \in TypeNames(u)
      BY NameOfKind
    <3>3. m.name \notin TypeNames(u)
      BY <1>4, <3>1, NamesTell
    <3> QED
      BY <3>2, <3>3 DEF u
  <2> QED
    BY <2>1, SecurityMetricsAre
<1>5. ASSUME NEW m \in metrics, m.variant = d, m.name \in ConditionNames
      PROVE  /\ m.name = "attack_competition_rate" => m = e
             /\ m.name = "cross_question_contamination_rate" => m = f
  <2>1. PICK c \in D : m \in ConditionMetrics(rs, cleans, screened, c)
    BY <1>4, <1>5
  <2>2. \A x \in ConditionMetrics(rs, cleans, screened, c) : x.variant = c
    BY ConditionMetricsNamed
  <2>3. m \in ConditionMetrics(rs, cleans, screened, d)
    BY <1>5, <2>1, <2>2
  <2>4. /\ \A x \in ConditionMetrics(rs, cleans, screened, d) :
             x.name = "attack_competition_rate" => x = e
        /\ \A x \in ConditionMetrics(rs, cleans, screened, d) :
             x.name = "cross_question_contamination_rate" => x = f
    BY ConditionMetricsNamed
  <2> QED
    BY <2>3, <2>4
<1>6. /\ e.of > 0 => e \in metrics
      /\ f.of > 0 => f \in metrics
      /\ \A m \in metrics : m.of > 0
  BY <1>2, <1>3, SecurityMetricsAre
<1>7. {"attack_competition_rate", "cross_question_contamination_rate"} \subseteq ConditionNames
  BY DEF ConditionNames
<1> HIDE DEF e, f
<1>8. \A m : m \in Called("attack_competition_rate", "", d) <=> m = e /\ m.of > 0
  BY <1>1, <1>5, <1>6, <1>7 DEF Called
<1>9. \A m : m \in Called("cross_question_contamination_rate", "", d) <=> m = f /\ m.of > 0
  BY <1>1, <1>5, <1>6, <1>7 DEF Called
<1> QED
  BY <1>8, <1>9 DEF Only, e, f

\* What a trial's record says of the markers it matched: the attack succeeded if
\* its own is among them, and compromises if there is any.
Scoring(r) ==
  /\ r.type \in {"poison", "injection"}
  /\ r.type = "injection" => r.family \in {"seen", "heldout"}
  /\ r.compromised <=> r.matched # {}
  /\ r.succeeded <=> \E m \in r.matched : m.marker = r.own

\* The parts of a finite set that have nothing in common.
LEMMA PartsAdd ==
  ASSUME NEW S, IsFiniteSet(S), NEW A \in SUBSET S, NEW B \in SUBSET S
  PROVE  /\ IsFiniteSet(A) /\ IsFiniteSet(B) /\ IsFiniteSet(A \cup B)
         /\ Cardinality(A) \in Nat /\ Cardinality(B) \in Nat /\ Cardinality(A \cup B) \in Nat
         /\ Cardinality(A \cup B) <= Cardinality(A) + Cardinality(B)
         /\ A \cap B = {} => Cardinality(A \cup B) = Cardinality(A) + Cardinality(B)
         /\ A \subseteq B => Cardinality(A) <= Cardinality(B)
<1>1. IsFiniteSet(A) /\ IsFiniteSet(B) /\ A \cup B \in SUBSET S /\ A \cap B \in SUBSET S
  BY FS_Subset
<1>2. IsFiniteSet(A \cup B) /\ IsFiniteSet(A \cap B)
  BY <1>1, FS_Subset
<1>3. /\ Cardinality(A) \in Nat /\ Cardinality(B) \in Nat /\ Cardinality(A \cup B) \in Nat
      /\ Cardinality(A \cap B) \in Nat
  BY <1>1, <1>2, FS_CardinalityType
<1>4. Cardinality(A \cup B) = Cardinality(A) + Cardinality(B) - Cardinality(A \cap B)
  BY <1>1, FS_Union
<1>5. A \cap B = {} => Cardinality(A \cap B) = 0
  BY FS_EmptySet
<1>6. A \subseteq B => Cardinality(A) <= Cardinality(B)
  BY <1>1, FS_Subset
<1> QED
  BY <1>1, <1>2, <1>3, <1>4, <1>5, <1>6

\* A part of a finite set and what is beyond it.
LEMMA Beyond ==
  ASSUME NEW S, IsFiniteSet(S), NEW W \in SUBSET S, NEW A \in SUBSET W
  PROVE  /\ Cardinality(W) = Cardinality(A) + Cardinality(W \ A)
         /\ Cardinality(A) \in Nat /\ Cardinality(W \ A) \in Nat
<1> DEFINE B == W \ A
<1>1. A \in SUBSET S /\ B \in SUBSET S /\ W = A \cup B /\ A \cap B = {}
  OBVIOUS
<1> HIDE DEF B
<1>2. Cardinality(W) = Cardinality(A) + Cardinality(B) /\ Cardinality(A) \in Nat /\ Cardinality(B) \in Nat
  <2>1. Cardinality(A \cup B) = Cardinality(A) + Cardinality(B)
    BY <1>1, PartsAdd
  <2>2. Cardinality(A) \in Nat /\ Cardinality(B) \in Nat
    BY <1>1, PartsAdd
  <2> QED
    BY <1>1, <2>1, <2>2
<1> QED
  BY <1>2 DEF B

\* What the records of a condition add up to.
LEMMA RecordsAddUp ==
  ASSUME NEW rs, IsFiniteSet(DOMAIN rs), \A n \in DOMAIN rs : Scoring(rs[n]), NEW d
  PROVE  LET P == At(rs, "poison", d)
             J == At(rs, "injection", d)
             S == Success(rs)
             G(X, Y) == Cardinality(X \cap Y) - Cardinality(X \cap S)
         IN  /\ G(P, Hit(rs, "poison", d)) >= 0 /\ G(J, Hit(rs, "injection", d)) >= 0
             /\ G(P, Hit(rs, "poison", d)) + G(J, Hit(rs, "injection", d))
                  <= Cardinality(Under(rs, d) \cap Met(rs, d)) + Cardinality(Under(rs, d) \cap Crossed(rs, d))
             /\ Cardinality(J \cap S) = Cardinality(Kin(rs, "injection", "seen", d) \cap S)
                                          + Cardinality(Kin(rs, "injection", "heldout", d) \cap S)
             /\ Cardinality(J) = Cardinality(Kin(rs, "injection", "seen", d))
                                   + Cardinality(Kin(rs, "injection", "heldout", d))
<1> DEFINE N == DOMAIN rs
           P == At(rs, "poison", d)
           J == At(rs, "injection", d)
           S == Success(rs)
           HP == Hit(rs, "poison", d)
           HJ == Hit(rs, "injection", d)
           Seen_ == Kin(rs, "injection", "seen", d)
           Held == Kin(rs, "injection", "heldout", d)
           M == Under(rs, d) \cap Met(rs, d)
           C == Under(rs, d) \cap Crossed(rs, d)
           RestP == (P \cap HP) \ (P \cap S)
           RestJ == (J \cap HJ) \ (J \cap S)
<1>1. ASSUME NEW n \in N
      PROVE  /\ n \in P <=> rs[n].defense = d /\ rs[n].type = "poison"
             /\ n \in J <=> rs[n].defense = d /\ rs[n].type = "injection"
             /\ n \in S <=> rs[n].succeeded
             /\ n \in HP <=> n \in P /\ rs[n].compromised
             /\ n \in HJ <=> n \in J /\ rs[n].compromised
             /\ n \in Seen_ <=> n \in J /\ rs[n].family = "seen"
             /\ n \in Held <=> n \in J /\ rs[n].family = "heldout"
             /\ n \in M <=> rs[n].defense = d /\ Competing(rs[n]) # {}
             /\ n \in C <=> rs[n].defense = d /\ CrossQuestion(rs[n]) # {}
  BY DEF At, Under, Success, Hit, Kin, Met, Crossed
<1>2. /\ P \subseteq N /\ J \subseteq N /\ S \subseteq N /\ HP \subseteq N /\ HJ \subseteq N
      /\ Seen_ \subseteq N /\ Held \subseteq N /\ M \subseteq N /\ C \subseteq N
  BY DEF At, Under, Success, Hit, Kin, Met, Crossed
<1>3. ASSUME NEW n \in N
      PROVE  /\ rs[n].succeeded => rs[n].compromised
             /\ rs[n].compromised /\ ~rs[n].succeeded =>
                  Competing(rs[n]) # {} \/ CrossQuestion(rs[n]) # {}
             /\ rs[n].type = "injection" => rs[n].family \in {"seen", "heldout"}
  <2> DEFINE r == rs[n]
  <2>1. Scoring(r)
    OBVIOUS
  <2> HIDE DEF r
  <2>2. r.succeeded => r.compromised
    BY <2>1 DEF Scoring
  <2>3. ASSUME r.compromised, ~r.succeeded
        PROVE  Competing(r) # {} \/ CrossQuestion(r) # {}
    <3>1. PICK m \in r.matched : m.marker # r.own
      BY <2>1, <2>3 DEF Scoring
    <3> QED
      BY <3>1 DEF Competing, CrossQuestion, Foreign
  <2> QED
    BY <2>1, <2>2, <2>3 DEF Scoring, r
<1> HIDE DEF N, P, J, S, HP, HJ, Seen_, Held, M, C
<1>4. P \cap S \subseteq P \cap HP /\ J \cap S \subseteq J \cap HJ
  BY <1>1, <1>2, <1>3
<1>5. (RestP \cup RestJ) \subseteq (M \cup C) /\ RestP \cap RestJ = {}
  BY <1>1, <1>2, <1>3
<1>6. J = Seen_ \cup Held /\ Seen_ \cap Held = {}
  BY <1>1, <1>2, <1>3
<1>7. IsFiniteSet(N)
  BY DEF N
<1>8. /\ Cardinality(P \cap HP) = Cardinality(P \cap S) + Cardinality(RestP)
      /\ Cardinality(P \cap S) \in Nat /\ Cardinality(RestP) \in Nat
  <2> DEFINE W == P \cap HP
             A == P \cap S
  <2>1. W \in SUBSET N /\ A \in SUBSET W
    BY <1>2, <1>4
  <2>2. RestP = W \ A
    OBVIOUS
  <2> HIDE DEF RestP, W, A
  <2>3. Cardinality(W) = Cardinality(A) + Cardinality(W \ A) /\ Cardinality(A) \in Nat /\ Cardinality(W \ A) \in Nat
    BY <1>7, <2>1, Beyond
  <2> QED
    BY <2>2, <2>3 DEF W, A
<1>9. /\ Cardinality(J \cap HJ) = Cardinality(J \cap S) + Cardinality(RestJ)
      /\ Cardinality(J \cap S) \in Nat /\ Cardinality(RestJ) \in Nat
  <2> DEFINE W == J \cap HJ
             A == J \cap S
  <2>1. W \in SUBSET N /\ A \in SUBSET W
    BY <1>2, <1>4
  <2>2. RestJ = W \ A
    OBVIOUS
  <2> HIDE DEF RestJ, W, A
  <2>3. Cardinality(W) = Cardinality(A) + Cardinality(W \ A) /\ Cardinality(A) \in Nat /\ Cardinality(W \ A) \in Nat
    BY <1>7, <2>1, Beyond
  <2> QED
    BY <2>2, <2>3 DEF W, A
<1>10. Cardinality(RestP) + Cardinality(RestJ) <= Cardinality(M) + Cardinality(C)
  <2>1. RestP \in SUBSET N /\ RestJ \in SUBSET N /\ M \in SUBSET N /\ C \in SUBSET N
        /\ RestP \cup RestJ \in SUBSET N /\ M \cup C \in SUBSET N
    BY <1>2
  <2> DEFINE R == RestP \cup RestJ
             F == M \cup C
  <2>2. R \subseteq F
    BY <1>5
  <2> HIDE DEF RestP, RestJ
  <2>3. Cardinality(R) = Cardinality(RestP) + Cardinality(RestJ)
    <3>1. RestP \in SUBSET N /\ RestJ \in SUBSET N /\ RestP \cap RestJ = {}
      BY <1>5, <2>1
    <3>2. Cardinality(RestP \cup RestJ) = Cardinality(RestP) + Cardinality(RestJ)
      BY <1>7, <3>1, PartsAdd
    <3> QED
      BY <3>2
  <2>4. Cardinality(F) <= Cardinality(M) + Cardinality(C)
    BY <1>7, <2>1, PartsAdd
  <2>5. R \in SUBSET N /\ F \in SUBSET N
    BY <2>1
  <2> HIDE DEF R, F
  <2>6. Cardinality(R) <= Cardinality(F) /\ Cardinality(R) \in Nat /\ Cardinality(F) \in Nat
    BY <1>7, <2>2, <2>5, PartsAdd
  <2>7. Cardinality(M) \in Nat /\ Cardinality(C) \in Nat
    BY <1>7, <2>1, PartsAdd
  <2> QED
    BY <1>8, <1>9, <2>3, <2>4, <2>6, <2>7
<1>11. Cardinality(J) = Cardinality(Seen_) + Cardinality(Held)
  BY SMTT(30), <1>2, <1>6, <1>7, PartsAdd
<1>12. Cardinality(J \cap S) = Cardinality(Seen_ \cap S) + Cardinality(Held \cap S)
  <2> DEFINE A == Seen_ \cap S
             B == Held \cap S
  <2>1. J \cap S = A \cup B /\ A \cap B = {} /\ A \in SUBSET N /\ B \in SUBSET N
    BY <1>2, <1>6
  <2> HIDE DEF A, B
  <2>2. Cardinality(A \cup B) = Cardinality(A) + Cardinality(B)
    BY SMTT(30), <1>7, <2>1, PartsAdd
  <2> QED
    BY <2>1, <2>2 DEF A, B
<1> HIDE DEF RestP, RestJ
<1>13. Cardinality(M) \in Nat /\ Cardinality(C) \in Nat
  BY <1>2, <1>7, PartsAdd
<1>14. /\ Cardinality(P \cap HP) - Cardinality(P \cap S) = Cardinality(RestP)
       /\ Cardinality(J \cap HJ) - Cardinality(J \cap S) = Cardinality(RestJ)
  BY <1>8, <1>9
<1> QED
  BY <1>8, <1>9, <1>10, <1>11, <1>12, <1>14 DEF P, J, S, HP, HJ, Seen_, Held, M, C

\* Every trial of an attack is recorded so.
Scored == Security => \A n \in DOMAIN records : Scoring(records[n])

\* A trial's record is scored on the markers it matched.
LEMMA RecordScored ==
  ASSUME NEW job, job.attack.type \in {"poison", "injection"},
         job.attack.type = "injection" => job.attack.family \in {"seen", "heldout"}, NEW text
  PROVE  Scoring(Record(job, text))
<1> DEFINE r == Record(job, text)
<1>1. /\ r.type = job.attack.type /\ r.family = job.attack.family /\ r.own = job.attack.marker
      /\ r.matched = MarkersPresent(text) /\ r.compromised = (MarkersPresent(text) # {})
      /\ r.succeeded = Succeeded(job.attack, MarkersPresent(text))
  BY DEF Record
<1> HIDE DEF r
<1>2. Succeeded(job.attack, MarkersPresent(text)) <=> \E m \in r.matched : m.marker = r.own
  BY <1>1 DEF Succeeded
<1>3. r.succeeded <=> \E m \in r.matched : m.marker = r.own
  BY <1>1, <1>2
<1>4. r.compromised <=> r.matched # {}
  BY <1>1
<1> QED
  BY <1>1, <1>3, <1>4 DEF Scoring, r

\* A step scores every trial it records.
LEMMA ScoredStep ==
  ASSUME Staged, Traced, Filed, Coined, IsSeq(records), Scored, [Next]_vars
  PROVE  Scored'
<1>0. config' = config /\ Security' = Security
  BY SuiteStays
<1> SUFFICES ASSUME Security PROVE \A n \in DOMAIN records' : Scoring(records'[n])
  BY <1>0 DEF Scored, Scoring, Competing
<1>1. \A n \in DOMAIN records : Scoring(records[n])
  BY DEF Scored
<1>2. CASE Answered
  <2>1. PICK text \in Texts : records' = Append(records, Record(flight.of, text))
    BY <1>2 DEF Answered
  <2>2. phase = "trial" /\ flight # None
    BY <1>2 DEF Answered
  <2> DEFINE a == flight.of.attack
             r == Record(flight.of, text)
  <2>3. a \in ToSet(live) /\ live = planted
    BY <2>2 DEF Traced, Planning
  <2>4. PICK n \in DOMAIN planted : a = planted[n]
    BY <2>3 DEF ToSet
  <2>5. a.type \in {"poison", "injection"} /\ (a.type = "injection" => a.family \in {"seen", "heldout"})
    BY <2>4 DEF Coined, Telling, Filed, IsAttack
  <2>6. Scoring(r)
    BY <2>5, RecordScored
  <2> HIDE DEF r
  <2>7. /\ DOMAIN records' = 1..Len(records) + 1 /\ DOMAIN records = 1..Len(records)
        /\ Len(records) \in Nat
        /\ (\A m \in DOMAIN records : records'[m] = records[m]) /\ records'[Len(records) + 1] = r
    BY <2>1, Appended DEF r
  <2>8. \A m \in DOMAIN records' : m \in DOMAIN records \/ m = Len(records) + 1
    BY <2>7
  <2> QED
    BY <1>1, <2>6, <2>7, <2>8
<1>3. ASSUME records' = records PROVE \A n \in DOMAIN records' : Scoring(records'[n])
  BY <1>1, <1>3
<1>4. Answered \/ records' = records
  BY DEF Next, Load, Plant, BeginInjection, AttacksPlanned, CanariesPlanned, Embed, Ask,
     BeginControls, Control, Controlled, Aggregate, AggregatePrivacy, ReadBack, vars, results
<1> QED
  BY <1>2, <1>3, <1>4

\* So the rates of every condition add up.
LEMMA RatesAdd ==
  ASSUME Summed, Scored
  PROVE  RatesAddUp
<1> SUFFICES ASSUME phase \in {"done", "read"}, Security, NEW d \in Conditions
             PROVE  LET Gap(t) == Hits(CompromiseName(t), "", d) - Hits(SuccessName(t), "", d)
                        Complied(f) == Hits(SuccessName("injection"), f, d)
                        Injected(f) == Sample(SuccessName("injection"), f, d)
                    IN  /\ \A t \in {records[n].type : n \in DOMAIN records} :
                             /\ Sample(SuccessName(t), "", d) = Sample(CompromiseName(t), "", d)
                             /\ Gap(t) >= 0
                        /\ Gap("poison") + Gap("injection")
                             <= Hits("attack_competition_rate", "", d) + Hits("cross_question_contamination_rate", "", d)
                        /\ Complied("") = Complied("seen") + Complied("heldout")
                        /\ Injected("") = Injected("seen") + Injected("heldout")
  BY DEF RatesAddUp
<1> DEFINE rs == records
           S == Success(rs)
           T(t) == At(rs, t, d)
           H(t) == Hit(rs, t, d)
           F(f) == Kin(rs, "injection", f, d)
           U == Under(rs, d)
<1>1. /\ metrics = SecurityMetrics(Conditions, rs, controls, screens)
      /\ Complete(rs) /\ IsFiniteSet(DOMAIN rs)
      /\ \A n \in DOMAIN rs : Scoring(rs[n])
  BY FiniteDomain DEF Summed, Scored
<1>2. Attacks(rs)
  BY <1>1 DEF Attacks, Scoring
<1>3. /\ U \in SUBSET DOMAIN rs /\ \A t : T(t) \in SUBSET DOMAIN rs
      /\ \A f : F(f) \in SUBSET DOMAIN rs
  BY DEF Under, At, Kin
<1>4. /\ IsFiniteSet(U) /\ \A t : IsFiniteSet(T(t))
      /\ \A f : IsFiniteSet(F(f))
  <2> HIDE DEF U, T, F, rs
  <2> QED
    BY <1>1, <1>3, FS_Subset
<1>5. \A t \in {"poison", "injection"} :
        /\ Only(SuccessName(t), "", d, T(t), S) /\ Only(CompromiseName(t), "", d, T(t), H(t))
        /\ \A f \in {"seen", "heldout"} : Only(SuccessName(t), f, d, Kin(rs, t, f, d), S)
  BY <1>1, <1>2, OnlyOfKind
<1>6. /\ Only("attack_competition_rate", "", d, U, Met(rs, d))
      /\ Only("cross_question_contamination_rate", "", d, U, Crossed(rs, d))
  BY <1>1, <1>2, OnlyOfCondition
<1>7. ASSUME NEW t \in {"poison", "injection"}
      PROVE  /\ Hits(SuccessName(t), "", d) = Cardinality(T(t) \cap S)
             /\ Sample(SuccessName(t), "", d) = Cardinality(T(t))
             /\ Hits(CompromiseName(t), "", d) = Cardinality(T(t) \cap H(t))
             /\ Sample(CompromiseName(t), "", d) = Cardinality(T(t))
  <2>1. Only(SuccessName(t), "", d, T(t), S) /\ Only(CompromiseName(t), "", d, T(t), H(t))
    BY <1>5
  <2>2. IsFiniteSet(T(t))
    BY <1>4
  <2> DEFINE X == T(t)
             Y == H(t)
             a == SuccessName(t)
             b == CompromiseName(t)
  <2> HIDE DEF X, Y, S, a, b
  <2>3. IsFiniteSet(X) /\ Only(a, "", d, X, S) /\ Only(b, "", d, X, Y)
    BY <2>1, <2>2 DEF X, Y, a, b
  <2>4. Hits(a, "", d) = Cardinality(X \cap S) /\ Sample(a, "", d) = Cardinality(X)
    BY ZenonT(40), <2>3, TotalsAre
  <2>5. Hits(b, "", d) = Cardinality(X \cap Y) /\ Sample(b, "", d) = Cardinality(X)
    BY ZenonT(40), <2>3, TotalsAre
  <2> QED
    BY <2>4, <2>5 DEF X, Y, a, b
<1>8. ASSUME NEW f \in {"seen", "heldout"}
      PROVE  /\ Hits(SuccessName("injection"), f, d) = Cardinality(F(f) \cap S)
             /\ Sample(SuccessName("injection"), f, d) = Cardinality(F(f))
  <2>1. Only(SuccessName("injection"), f, d, F(f), S) /\ IsFiniteSet(F(f))
    BY <1>4, <1>5
  <2> DEFINE X == F(f)
             a == SuccessName("injection")
  <2> HIDE DEF X, S, a
  <2>2. Only(a, f, d, X, S) /\ IsFiniteSet(X)
    BY <2>1 DEF X, a
  <2>3. Hits(a, f, d) = Cardinality(X \cap S) /\ Sample(a, f, d) = Cardinality(X)
    BY SMTT(30), <2>2, TotalsAre
  <2> QED
    BY <2>3 DEF X, a
<1>9. /\ Hits("attack_competition_rate", "", d) = Cardinality(U \cap Met(rs, d))
      /\ Hits("cross_question_contamination_rate", "", d) = Cardinality(U \cap Crossed(rs, d))
  <2> DEFINE M == Met(rs, d)
             C == Crossed(rs, d)
  <2> HIDE DEF U, M, C
  <2>1. IsFiniteSet(U) /\ Only("attack_competition_rate", "", d, U, M)
        /\ Only("cross_question_contamination_rate", "", d, U, C)
    BY <1>4, <1>6 DEF M, C
  <2>2. /\ Hits("attack_competition_rate", "", d) = Cardinality(U \cap M)
        /\ Sample("attack_competition_rate", "", d) = Cardinality(U)
    BY ZenonT(40), <2>1, TotalsAre
  <2>3. /\ Hits("cross_question_contamination_rate", "", d) = Cardinality(U \cap C)
        /\ Sample("cross_question_contamination_rate", "", d) = Cardinality(U)
    BY ZenonT(40), <2>1, TotalsAre
  <2> QED
    BY <2>2, <2>3 DEF M, C
<1> DEFINE G(t) == Cardinality(T(t) \cap H(t)) - Cardinality(T(t) \cap S)
<1>10. /\ G("poison") >= 0 /\ G("injection") >= 0
       /\ G("poison") + G("injection") <= Cardinality(U \cap Met(rs, d)) + Cardinality(U \cap Crossed(rs, d))
       /\ Cardinality(T("injection") \cap S) = Cardinality(F("seen") \cap S) + Cardinality(F("heldout") \cap S)
       /\ Cardinality(T("injection")) = Cardinality(F("seen")) + Cardinality(F("heldout"))
  BY <1>1, RecordsAddUp
<1>11. \A t \in {rs[n].type : n \in DOMAIN rs} : t \in {"poison", "injection"}
  BY <1>2 DEF Attacks
<1> HIDE DEF rs, S, T, H, F, U
<1> QED
  BY <1>7, <1>8, <1>9, <1>10, <1>11 DEF rs

-----------------------------------------------------------------------------
(* The theorems.                                                           *)

\* The invariant of the suites, from which the theorems below follow.
IInv ==
  /\ Staged /\ Placing /\ Spread /\ Traced /\ Summed /\ RereadNeverInvents
  /\ Filed /\ Surviving /\ Coined /\ Built /\ Posed /\ Found /\ Tallied /\ Scored

\* The invariant holds at first: nothing is planned yet,
LEMMA InitiallyPlanned == Init => Staged /\ Placing /\ Spread /\ Traced /\ Summed /\ RereadNeverInvents
<1> SUFFICES ASSUME Init
             PROVE  Staged /\ Placing /\ Spread /\ Traced /\ Summed /\ RereadNeverInvents
  OBVIOUS
<1>1. /\ config \in Configs /\ phase = "load" /\ planted = <<>> /\ todo = <<>> /\ live = <<>>
      /\ records = <<>> /\ flight = None
  BY DEF Init
<1>2. IsSeq(<<>>)
  BY DEF IsSeq
<1>3. Staged
  BY <1>1, <1>2 DEF Staged, Planning
<1>4. Placing
  BY <1>1 DEF Placing, PlantedPathsFresh
<1>5. Spread
  BY <1>1 DEF Spread
<1>6. Traced
  BY <1>1 DEF Traced, Planning
<1>7. Summed
  BY <1>1, <1>2 DEF Summed, Complete
<1>8. RereadNeverInvents
  BY <1>1 DEF RereadNeverInvents
<1> QED
  BY <1>3, <1>4, <1>5, <1>6, <1>7, <1>8

\* and nothing is filed, indexed, asked or counted.
LEMMA InitiallyFiled == Init => Filed /\ Surviving /\ Coined /\ Built /\ Posed /\ Found /\ Tallied /\ Scored
<1> SUFFICES ASSUME Init PROVE Filed /\ Surviving /\ Coined /\ Built /\ Posed /\ Found /\ Tallied /\ Scored
  OBVIOUS
<1>1. /\ config \in Configs /\ phase = "load" /\ planted = <<>> /\ todo = <<>> /\ live = <<>>
      /\ records = <<>> /\ flight = None /\ dropped = <<>> /\ index = {} /\ controls = <<>>
      /\ metrics = {}
  BY DEF Init
<1>2. IsSeq(<<>>) /\ DOMAIN <<>> = {} /\ Len(<<>>) = 0
  BY DEF IsSeq
<1>3. Filed
  BY <1>1, <1>2 DEF Filed, Planning
<1>4. Documents(<<>>) = <<>>
  BY <1>2 DEF Documents
<1>5. Surviving
  <2>1. Drawn(Documents(live), Documents(planted), <<>>) /\ IsDocs(Documents(live))
    BY <1>1, <1>2, <1>4 DEF Drawn, IsDocs
  <2>2. <<>> \in [DOMAIN live -> DOMAIN planted]
    BY <1>1, <1>2
  <2>3. \E e \in [DOMAIN live -> DOMAIN planted] :
          /\ Drawn(Documents(live), Documents(planted), e)
          /\ \A n \in DOMAIN live :
               /\ live[n].type = planted[e[n]].type /\ live[n].qid = planted[e[n]].qid
               /\ live[n].marker = planted[e[n]].marker
    BY <2>1, <2>2, <1>1, <1>2
  <2>4. NoSecret(Documents(live))
    BY <1>1, <1>2, <1>4 DEF NoSecret
  <2> QED
    BY <1>1, <1>2, <2>1, <2>3, <2>4 DEF Surviving, Planning
<1>6. Coined
  BY <1>1, <1>2 DEF Coined
<1>7. Built /\ Posed
  BY <1>1 DEF Built, Posed
<1>8. Found
  BY <1>1, <1>2 DEF Found, ControlsAreClean
<1>9. Tallied /\ Scored
  BY <1>1, <1>2 DEF Tallied, Scored
<1> QED
  BY <1>3, <1>5, <1>6, <1>7, <1>8, <1>9

\* Every step keeps the invariant.
LEMMA IInvStep == IInv /\ [Next]_vars => IInv'
<1> SUFFICES ASSUME IInv, [Next]_vars PROVE IInv'
  OBVIOUS
<1>1. IsSeq(records) /\ PlantedPathsFresh
  BY DEF IInv, Summed, Placing
<1>2. Staged' /\ Placing' /\ Spread' /\ Traced' /\ Summed' /\ RereadNeverInvents'
  BY <1>1, StagedStep, PlacingStep, SpreadStep, TracedStep, SummedStep, RereadStep DEF IInv
<1>3. Filed' /\ Surviving' /\ Coined' /\ Built' /\ Posed' /\ Found' /\ Tallied' /\ Scored'
  BY <1>1, FiledStep, SurvivingStep, CoinedStep, BuiltStep, PosedStep, FoundStep, TalliedStep, ScoredStep DEF IInv
<1> QED
  BY <1>2, <1>3 DEF IInv

\* The invariant of the suites holds in every state.
THEOREM Invariant == Spec => []IInv
<1>1. Init => IInv
  BY InitiallyPlanned, InitiallyFiled DEF IInv
<1> QED
  BY <1>1, IInvStep, PTL DEF Spec

\* CorpusPlacer never gives a path that is in use, leaves the directories of
\* the corpus, and takes a clashing name only when every name clashes.
THEOREM PlantedApart == Spec => []PlantedPathsFresh
<1>1. IInv => PlantedPathsFresh
  BY DEF IInv, Placing
<1> QED
  BY <1>1, Invariant, PTL

\* With disjoint_targets no question is attacked twice, and no trial records a
\* competing marker.
THEOREM OneAttackEach == Spec => []DisjointNeverCompetes
<1>1. IInv => DisjointNeverCompetes
  BY NoneCompetes DEF IInv
<1> QED
  BY <1>1, Invariant, PTL

\* migrate_raw restores what a writer of any version recorded, so what is read
\* has no metric that was not measured and lacks none that was recorded.
THEOREM ReadAsMeasured == Spec => []RereadNeverInvents
<1>1. IInv => RereadNeverInvents
  BY DEF IInv
<1> QED
  BY <1>1, Invariant, PTL

\* Whatever the chain drops of the canaries, it keeps of the corpus what it
\* would without them, and every document is kept or dropped by one filter.
THEOREM CorpusFirst == Spec => []CorpusComesFirst
<1>1. IInv => CorpusComesFirst
  <2> SUFFICES ASSUME IInv PROVE CorpusComesFirst
    OBVIOUS
  <2>1. CASE Planning
    BY <2>1 DEF Planning, CorpusComesFirst, Planned, Done
  <2>2. CASE ~Planning
    BY <2>2 DEF IInv, Filed
  <2> QED
    BY <2>1, <2>2
<1> QED
  BY <1>1, Invariant, PTL

\* No answer to a question on the clean index carries a planted marker.
THEOREM CleanControls == Spec => []ControlsAreClean
<1>1. IInv => ControlsAreClean
  BY DEF IInv, Found
<1> QED
  BY <1>1, Invariant, PTL

\* Every marker an answer carries is that of an attack in the context, or a part
\* of it, and a success that was not retrieved owes it to such a part.
THEOREM MarkersTraced == Spec => MarkersHaveOrigin
<1> DEFINE Proven == records' # records =>
       LET r == records'[Len(records')]
       IN  /\ \A m \in r.matched : \E a \in Present : Embeds(a.marker, m.marker)
           /\ r.succeeded /\ ~r.retrieved =>
                \E a \in Present : a.marker # r.own /\ Embeds(a.marker, r.own)
<1>1. ASSUME IInv, [Next]_vars PROVE Proven \/ UNCHANGED vars
  <2>1. CASE Answered
    <3> DEFINE r == records'[Len(records')]
    <3>1. phase = "trial" /\ flight # None /\ \E text \in Texts : r = Record(flight.of, text)
      BY <1>1, <2>1, RecordedLast DEF IInv, Summed
    <3>2. /\ \A m \in r.matched : \E a \in Present : Embeds(a.marker, m.marker)
          /\ r.succeeded /\ ~r.retrieved =>
               \E a \in Present : a.marker # r.own /\ Embeds(a.marker, r.own)
      BY <1>1, <3>1, RecordProves DEF IInv, Summed
    <3> QED
      BY <3>2
  <2>2. ASSUME records' = records PROVE Proven
    BY <2>2
  <2> QED
    BY <1>1, <2>1, <2>2 DEF Next, Load, Plant, BeginInjection, AttacksPlanned, CanariesPlanned, Embed, Ask,
       BeginControls, Control, Controlled, Aggregate, AggregatePrivacy, ReadBack, vars
<1>2. IInv /\ [Next]_vars => [Proven]_vars
  BY <1>1
<1> QED
  BY <1>2, Invariant, PTL DEF Spec, MarkersHaveOrigin

\* Where no marker is a part of another, and only for this reason, one that is
\* found in an answer proves where it comes from, as _markers_present says.
THEOREM MarkersProve ==
  ASSUME \A c \in Configs : \A m, n \in Markers(c) : Embeds(n, m) => m = n
  PROVE  Spec => MarkersProveOrigin
<1> DEFINE Proven == records' # records =>
       LET r == records'[Len(records')]
       IN  /\ \A m \in r.matched : \E a \in Present : a.marker = m.marker /\ a.qid = m.qid
           /\ r.succeeded => r.retrieved
<1>1. ASSUME IInv, [Next]_vars PROVE Proven \/ UNCHANGED vars
  <2>1. CASE Answered
    <3> DEFINE r == records'[Len(records')]
    <3>1. phase = "trial" /\ flight # None /\ \E text \in Texts : r = Record(flight.of, text)
      BY <1>1, <2>1, RecordedLast DEF IInv, Summed
    <3>2. /\ \A m \in r.matched : \E b \in Present : Embeds(b.marker, m.marker)
          /\ r.succeeded /\ ~r.retrieved => \E b \in Present : b.marker # r.own /\ Embeds(b.marker, r.own)
      BY <1>1, <3>1, RecordProves DEF IInv, Summed
    <3>3. /\ \A m \in r.matched : \E x \in ToSet(live) : m.marker = x.marker /\ m.qid = x.qid
          /\ r.own = flight.of.attack.marker
      BY <3>1 DEF Record, MarkersPresent
    <3>4. Present \subseteq ToSet(live) /\ flight.of.attack \in ToSet(live)
      <4>1. Present \subseteq ToSet(live)
        BY DEF Present
      <4>2. Staged /\ Surviving /\ Posed /\ IsSeq(records)
        BY <1>1 DEF IInv, Summed
      <4>3. flight.of.attack \in ToSet(live)
        BY <3>1, <4>2, PosedAttack
      <4> QED
        BY <4>1, <4>3
    <3>5. \A x, y \in ToSet(live) : Embeds(y.marker, x.marker) => x.marker = y.marker
      BY <1>1, LiveMarks DEF IInv, Staged
    <3>6. \A x, y \in ToSet(live) : x.marker = y.marker => x = y
      BY <1>1, LiveOne DEF IInv
    <3> HIDE DEF r
    <3>7. \A m \in r.matched : \E a \in Present : a.marker = m.marker /\ a.qid = m.qid
      <4> TAKE m \in r.matched
      <4>1. PICK b \in Present : Embeds(b.marker, m.marker)
        BY <3>2
      <4>2. PICK x \in ToSet(live) : m.marker = x.marker /\ m.qid = x.qid
        BY <3>3
      <4>3. b = x
        BY <3>4, <3>5, <3>6, <4>1, <4>2
      <4> QED
        BY <4>1, <4>2, <4>3
    <3>8. r.succeeded => r.retrieved
      BY <3>2, <3>3, <3>4, <3>5
    <3> QED
      BY <3>7, <3>8 DEF r
  <2>2. ASSUME records' = records PROVE Proven
    BY <2>2
  <2> QED
    BY <1>1, <2>1, <2>2 DEF Next, Load, Plant, BeginInjection, AttacksPlanned, CanariesPlanned, Embed, Ask,
       BeginControls, Control, Controlled, Aggregate, AggregatePrivacy, ReadBack, vars
<1>2. IInv /\ [Next]_vars => [Proven]_vars
  BY <1>1
<1> QED
  BY <1>2, Invariant, PTL DEF Spec, MarkersProveOrigin

\* The screen control deletes of a clean chunk what the defense would.
THEOREM Predicted == Spec => []ScreenPredicts
<1>1. IInv => ScreenPredicts
  <2> SUFFICES ASSUME IInv, flight # None, Security,
                      NEW n \in DOMAIN flight.ranked
               PROVE  LET c == flight.ranked[n]
                      IN  /\ Screened(c, flight.of.defense) /\ ~flight.abstained =>
                               c \notin ToSet(flight.context)
                          /\ ~Screened(c, flight.of.defense) /\ c \notin ToSet(flight.context) =>
                               \E q \in Quantities(c) : q.unit \in Conflicts(flight.ranked)
    BY DEF ScreenPredicts
  <2> DEFINE s == flight.ranked
             d == flight.of.defense
  <2>1. /\ IsSeq(s) /\ flight.context = Defended(s, {d}).context
        /\ flight.abstained = Defended(s, {d}).abstain
    BY DEF IInv, Posed, Posing
  <2>2. n \in DOMAIN s
    OBVIOUS
  <2> HIDE DEF s, d
  <2>3. /\ Screened(s[n], d) /\ ~Defended(s, {d}).abstain => s[n] \notin ToSet(Defended(s, {d}).context)
        /\ ~Screened(s[n], d) /\ s[n] \notin ToSet(Defended(s, {d}).context) =>
             \E q \in Quantities(s[n]) : q.unit \in Conflicts(s)
    BY <2>1, <2>2, DefendedIs
  <2> QED
    BY <2>1, <2>3 DEF s, d
<1> QED
  BY <1>1, Invariant, PTL

\* Whatever the chunker and the filters, the index covers each document it is
\* made of, with no larger an overlap than it is set to.
THEOREM IndexCovering == Spec => []ChunksCover
<1>1. IInv => ChunksCover
  BY IndexCovers DEF IInv, Placing
<1> QED
  BY <1>1, Invariant, PTL

\* Nothing leaks through a redaction: neither the index nor an answer has a
\* secret where the filters or the defense take them out.
THEOREM RedactionProtects == Spec => []RedactionHolds
<1>1. IInv => RedactionHolds
  <2> SUFFICES ASSUME IInv PROVE RedactionHolds
    OBVIOUS
  <2>1. ~Security => \A n \in DOMAIN records : records[n].succeeded =>
          /\ records[n].retrieved
          /\ records[n].defense # "pii_filter" /\ "pii" \notin ToSet(config.filters)
    BY DEF IInv, Found
  <2>2. ~Security /\ phase = "trial" /\ Len(records) < Len(Jobs)
          /\ (Job.defense = "pii_filter" \/ "pii" \in ToSet(config.filters)) =>
            \A c \in index : \A n \in DOMAIN c.text : c.text[n].is # "secret"
    BY NoneSecret DEF IInv
  <2> QED
    BY <2>1, <2>2 DEF RedactionHolds
<1> QED
  BY <1>1, Invariant, PTL

\* Every state is well-formed: every rate counts hits in its sample, and the
\* privacy suite goes on only with a canary.
THEOREM TypeCorrect == Spec => []TypeOK
<1>1. IInv => TypeOK
  BY Typed DEF IInv, Summed
<1> QED
  BY <1>1, Invariant, PTL

\* What is ranked for an answer is chunks of the trusted corpus, each once.
LEMMA RankedVouched ==
  ASSUME IInv, flight # None
  PROVE  Vouched(flight.ranked)
<1> DEFINE chunks == IF phase = "control" THEN CleanChunks ELSE index
           s == flight.ranked
<1>1. /\ IsSeq(s) /\ ToSet(s) \subseteq chunks
      /\ \A m, n \in DOMAIN s : s[m] = s[n] => m = n
      /\ phase \in {"trial", "control"}
  BY DEF IInv, Posed, Posing
<1>2. \A redact \in BOOLEAN : IsDocs(kept) /\ IsDocs(Sourced(redact))
  BY <1>1, SourcedAre DEF IInv
<1>3. \A c \in CleanChunks : IsSeq(c.text) /\ c.provenance.verified /\ c.provenance.trust = 10
  BY <1>2, TrustedChunks DEF CleanChunks
<1>4. \A c \in index : IsSeq(c.text) /\ c.provenance.verified /\ c.provenance.trust = 10
  <2> TAKE c \in index
  <2>1. PICK redact \in BOOLEAN : index = Chunks(Sourced(redact), config.chunker, "trusted_corpus")
    BY DEF IInv, Built
  <2> QED
    BY <1>2, <2>1, TrustedChunks
<1>5. \A n \in DOMAIN s : s[n] \in chunks
  BY <1>1 DEF ToSet
<1>6. \A c \in chunks : IsSeq(c.text) /\ c.provenance.verified /\ c.provenance.trust = 10
  BY <1>3, <1>4
<1> HIDE DEF chunks, s
<1>7. Vouched(s)
  BY <1>1, <1>5, <1>6 DEF Vouched
<1> QED
  BY <1>7 DEF s

\* answer_integrity removes a chunk only for a value that fewer documents state
\* than some other, and a conflict it leaves is one of a document it has
\* removed a chunk of.
THEOREM ConflictsSettled == Spec => []ConflictsDecided
<1>1. IInv => ConflictsDecided
  <2> DEFINE s == flight.ranked
             t == flight.context
             d == flight.of.defense
             removed == {n \in DOMAIN s : s[n] \notin ToSet(t)}
             Lost == \A n \in removed : \E c, e \in Claims(s) :
                       /\ c.chunk = n /\ e.unit = c.unit
                       /\ Cardinality(StatedBy(s, e.unit, e.value)) > Cardinality(StatedBy(s, c.unit, c.value))
             Left == \A unit \in Conflicts(t) : \E n \in removed :
                       \E c \in Claims(t) : c.unit = unit /\ c.doc = s[n].doc
  <2>1. ASSUME IInv, flight # None, Security, ~flight.abstained, d = "answer_integrity"
        PROVE  Lost /\ Left
    <3>1. /\ t = Defended(s, {d}).context /\ flight.abstained = Defended(s, {d}).abstain
      BY <2>1 DEF IInv, Posed, Posing
    <3>2. Vouched(s)
      BY <2>1, RankedVouched
    <3> HIDE DEF s, d, t
    <3>3. Removes(s, t) /\ Leaves(s, t)
      BY <2>1, <3>1, <3>2, IntegrityIs
    <3>4. Lost
      BY <3>3 DEF Removes
    <3>5. Left
      BY <3>3 DEF Leaves
    <3> QED
      BY <3>4, <3>5
  <2>2. (flight # None /\ Security /\ ~flight.abstained /\ d = "answer_integrity" => Lost /\ Left)
          => ConflictsDecided
    BY Zenon DEF ConflictsDecided, StatedBy
  <2> QED
    BY <2>1, <2>2
<1> QED
  BY <1>1, Invariant, PTL

\* Of every condition the two kinds of rates have one sample, what compromises
\* an answer without being its attack's success competes or crosses questions,
\* and the families of the injections make up the whole.
THEOREM RatesBalance == Spec => []RatesAddUp
<1>1. IInv => RatesAddUp
  BY RatesAdd DEF IInv
<1> QED
  BY <1>1, Invariant, PTL
=============================================================================
