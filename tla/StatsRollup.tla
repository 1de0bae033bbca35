---------------------------- MODULE StatsRollup ----------------------------
(***************************************************************************)
(* Statistics of finished and running matches: the rollup job              *)
(* (src/master/internal/statsrollup/job.go over store/rollup.go), and the  *)
(* answer httpapi/stats.go composes of stored days and live matches with   *)
(* the aggregates of stats/stats.go.                                       *)
(*                                                                         *)
(* A key is a project and the rest of a rollup row's dimensions (region,   *)
(* semver, environment).  Every match holds one player.  Time is counted   *)
(* in fractions of a day; the two reads of one answer are taken as one.    *)
(***************************************************************************)
EXTENDS Integers, Sequences, FiniteSetsExt

CONSTANTS
    KeysOf,                  \* per match row 1, 2, ...: the <<project, rest>> it may have
    DayLen, LastTick,        \* bounds: fractions of a day, the end of time
    MaxRollupFaults          \* bound: failed days, restarts, deleted projects

StatMatches == DOMAIN KeysOf
StatKeys == UNION {KeysOf[m] : m \in StatMatches}

VARIABLES
    now, matchRow,    \* the clock, matches
    stored,           \* match_stats_daily and match_ccu_daily, per day
    pass,             \* the job's pass in flight
    mended,           \* history: days the last pass took on, but those that failed
                      \* or whose figures have changed since it began
    rollupFaults

statsVars == <<now, matchRow, stored, pass, mended, rollupFaults>>

Running == -1
Absent == [key |-> <<>>]
Deleted == [key |-> <<"">>]   \* match ids are not used again
Projects == {k[1] : k \in StatKeys}
Platform == ""
DayOf(t) == t \div DayLen
Days == 0..DayOf(LastTick)
Today == DayOf(now)
Rows == {m \in StatMatches : matchRow[m] \notin {Absent, Deleted}}
Sum(f) == FoldFunction(+, 0, f)   \* of the values of a function
Lesser(a, b) == IF a < b THEN a ELSE b
Greater(a, b) == IF a < b THEN b ELSE a

-----------------------------------------------------------------------------
(* Aggregates over a set of match rows M (stats.go).                       *)

Start(m) == matchRow[m].start
Ended(m) == matchRow[m].end # Running
EndOf(m, at) == IF Ended(m) THEN matchRow[m].end ELSE at
Dur(m) == matchRow[m].end - Start(m)

\* overlapSeconds of the match and day d.
Overlap(m, d, at) ==
    Greater(0, Lesser(EndOf(m, at), (d + 1) * DayLen) - Greater(Start(m), d * DayLen))

\* StatMatchesOverlapping.
Overlapping(from, to) ==
    {m \in Rows : Start(m) < to /\ (Ended(m) => matchRow[m].end >= from)}

OfProject(M, p) == {m \in M : p \in {Platform, matchRow[m].key[1]}}

\* Starts, durations and slots: a match counts on the day it started, its slots
\* on every day of the axis it ran.
AggregateDaily(M, axis, at) ==
    LET cells == {<<DayOf(Start(m)), matchRow[m].key>> : m \in M}
                    \cup (axis \X {matchRow[m].key : m \in M})
        of(c) == {m \in M : matchRow[m].key = c[2]}
        started(c) == {m \in of(c) : DayOf(Start(m)) = c[1]}
        finished(c) == {m \in started(c) : Ended(m)}
        slots(c) == IF c[1] \in axis THEN Sum([m \in of(c) |-> Overlap(m, c[1], at)]) ELSE 0
        used == {c \in cells : started(c) # {} \/ slots(c) > 0}
    IN  {[day |-> c[1], key |-> c[2], matches |-> Cardinality(started(c)),
          durSum |-> Sum([m \in finished(c) |-> Dur(m)]), durCount |-> Cardinality(finished(c)),
          slots |-> slots(c)] : c \in used}

\* peakCCUByDay: an arrival at the moment of a departure counts before it.
PeakCCU(M, d, at) ==
    LET there == {m \in M : Start(m) < (d + 1) * DayLen /\ EndOf(m, at) > d * DayLen}
        at_(t) == {m \in there : Start(m) <= t /\ t <= EndOf(m, at)}
    IN  Max({Cardinality(at_(t)) : t \in d * DayLen .. (d + 1) * DayLen})

\* What recomputeDay writes of what it has read.
DayRollup(d, at) ==
    LET M == Overlapping(d * DayLen, (d + 1) * DayLen)
    IN  [dims |-> {x \in AggregateDaily(M, {d}, at) : x.day = d},
         peak |-> [p \in Projects \cup {Platform} |-> PeakCCU(OfProject(M, p), d, at)]]

Exact(d) == stored[d] = DayRollup(d, now)

-----------------------------------------------------------------------------
(* The answer of /v1/stats (httpapi/stats.go and stats.go).                *)

Axis(n) == {d \in Days : d <= Today /\ d > Today - n}
LiveStart == Today - 1

\* Mutant: the days before the axis that live matches began on are kept.
FilterDimsFrom_Kept(dims, from) == dims

FilterDimsFrom(dims, from) == {x \in dims : x.day >= from}

RollupDims(days, p) == {x \in UNION {stored[d].dims : d \in days} : p \in {Platform, x.key[1]}}
RollupPeakCCU(d, p) == stored[d].peak[p]

\* statsDims: stored days up to the day before yesterday, the rest from matches.
StatsDims(p, n) ==
    LET axis == Axis(n)
        old == {d \in axis : d < LiveStart}
        live == axis \ old
        M == OfProject(Overlapping(LiveStart * DayLen, now), p)
    IN  [dims |-> RollupDims(old, p) \cup FilterDimsFrom(AggregateDaily(M, live, now), Min(live)),
         peak |-> [d \in axis |-> IF d \in old THEN RollupPeakCCU(d, p) ELSE PeakCCU(M, d, now)]]

\* stackAccum: what the entries of S, each with its key, day and value, add up to.
Stack(S, axis) ==
    [k \in {x.key : x \in S} |->
        [d \in axis |-> Sum([x \in {e \in S : e.key = k /\ e.day = d} |-> x.val])]]

DimKey(x) == x.key[2]
StackFromDims(dims, axis, field) ==
    Stack({[of |-> x, key |-> DimKey(x), day |-> x.day, val |-> x[field]] : x \in dims}, axis)

MatchKey(m) == matchRow[m].key[2]
StackByRegionDay(M, axis) ==
    Stack({[of |-> m, key |-> MatchKey(m), day |-> DayOf(Start(m)), val |-> 1] : m \in M}, axis)

DropZeroMatchSemvers(count) == {<<k, count[k]>> : k \in {j \in DOMAIN count : count[j] > 0}}

\* An average is the pair it is the quotient of.
BuildOverviewFromDaily(a, axis) ==
    LET dur(S) == <<Sum([x \in S |-> x.durSum]), Sum([x \in S |-> x.durCount])>>
        matches(S) == Sum([x \in S |-> x.matches])
    IN  [matchesPerDay |-> StackFromDims(a.dims, axis, "matches"),
         peakPerDay |-> a.peak, avg |-> dur(a.dims),
         avgPerDay |-> [d \in axis |-> dur({x \in a.dims : x.day = d})],
         versions |-> DropZeroMatchSemvers(
            [k \in {DimKey(x) : x \in a.dims} |-> matches({x \in a.dims : DimKey(x) = k})])]

BuildCostFromDaily(a, axis) ==
    LET used == {x \in a.dims : x.slots > 0}
    IN  [byKey |-> StackFromDims(used, axis, "slots"),
         total |-> Sum([x \in used |-> x.slots])]

-----------------------------------------------------------------------------
(* The same straight from the match rows (BuildOverview, BuildCost).       *)

AvgDuration(M) == LET F == {m \in M : Ended(m)} IN <<Sum([m \in F |-> Dur(m)]), Cardinality(F)>>

VersionDistribution(M) ==
    {<<k, Cardinality({m \in M : MatchKey(m) = k})>> : k \in {MatchKey(m) : m \in M}}

BuildOverview(M, axis) ==
    LET begun == {m \in M : DayOf(Start(m)) \in axis}
    IN  [matchesPerDay |-> StackByRegionDay(begun, axis),
         peakPerDay |-> [d \in axis |-> PeakCCU(M, d, now)], avg |-> AvgDuration(begun),
         avgPerDay |-> [d \in axis |-> AvgDuration({m \in begun : DayOf(Start(m)) = d})],
         versions |-> VersionDistribution(begun)]

BuildCost(M, axis) ==
    LET used == {u \in M \X axis : Overlap(u[1], u[2], now) > 0}
        slots(u) == Overlap(u[1], u[2], now)
        entry(u) == [of |-> u[1], key |-> MatchKey(u[1]), day |-> u[2], val |-> slots(u)]
    IN  [byKey |-> Stack({entry(u) : u \in used}, axis),
         total |-> Sum([u \in used |-> slots(u)])]

-----------------------------------------------------------------------------
(* Matches, projects and time.                                             *)

EmptyDay == [dims |-> {}, peak |-> [p \in Projects \cup {Platform} |-> 0]]
NoPass == [todo |-> <<>>, read |-> <<>>, backfill |-> FALSE]

Init ==
    /\ now = 0 /\ matchRow = [m \in StatMatches |-> Absent]
    /\ stored = [d \in Days |-> EmptyDay] /\ pass = NoPass
    /\ mended = {} /\ rollupFaults = 0

RollupFault == rollupFaults < MaxRollupFaults /\ rollupFaults' = rollupFaults + 1

Tock ==
    /\ now < LastTick /\ now' = now + 1 /\ pass.todo = <<>>
    /\ mended' = mended \ {Today}
    /\ UNCHANGED <<matchRow, stored, pass, rollupFaults>>

\* The days whose figures the end of a match may change.
Touched(m) == DayOf(Start(m)) .. Today

MatchStart(m, k) ==
    /\ matchRow[m] = Absent /\ \A i \in 1 .. m - 1 : matchRow[i] # Absent
    /\ matchRow' = [matchRow EXCEPT ![m] = [key |-> k, start |-> now, end |-> Running]]
    /\ mended' = mended \ {Today}
    /\ UNCHANGED <<now, stored, pass, rollupFaults>>

MatchEnd(m) ==
    /\ m \in Rows /\ ~Ended(m)
    /\ matchRow' = [matchRow EXCEPT ![m].end = now]
    /\ mended' = mended \ Touched(m)
    /\ UNCHANGED <<now, stored, pass, rollupFaults>>

\* The project's rollup rows go by its slug; the platform's peak stays.
DeleteProject(p) ==
    LET M == {m \in Rows : matchRow[m].key[1] = p}
    IN  /\ M # {} /\ RollupFault
        /\ matchRow' = [m \in StatMatches |-> IF m \in M THEN Deleted ELSE matchRow[m]]
        /\ stored' = [d \in Days |->
                        [dims |-> {x \in stored[d].dims : x.key[1] # p},
                         peak |-> [stored[d].peak EXCEPT ![p] = 0]]]
        /\ mended' = {}
        /\ UNCHANGED <<now, pass>>

-----------------------------------------------------------------------------
(* The job: Backfill once, then ticks.                                     *)

Begin(days, backfill) ==
    /\ pass' = [todo |-> days, read |-> <<>>, backfill |-> backfill]
    /\ mended' = IF backfill THEN {d \in Days : d < LiveStart}
                 ELSE mended \cup ({LiveStart, Today} \cap Days)

\* The days no tick computes again.
Settled == [i \in 1 .. Greater(0, Today - 1) |-> i - 1]

\* The process starts with Backfill.
Restart ==
    /\ RollupFault /\ Begin(Settled, TRUE)
    /\ UNCHANGED <<now, matchRow, stored>>

TickDays == IF Today = 0 THEN <<Today>> ELSE <<Today - 1, Today>>

Tick ==
    /\ pass.todo = <<>> /\ Begin(TickDays, FALSE)
    /\ UNCHANGED <<now, matchRow, stored, rollupFaults>>

ReadDay ==
    /\ pass.todo # <<>> /\ pass.read = <<>>
    /\ pass' = [pass EXCEPT !.read = <<DayRollup(Head(pass.todo), now)>>]
    /\ UNCHANGED <<now, matchRow, stored, mended, rollupFaults>>

\* Backfill skips a day that fails, a tick ends.
Remaining == [pass EXCEPT !.todo = IF pass.backfill THEN Tail(pass.todo) ELSE <<>>, !.read = <<>>]

DayFails ==
    /\ pass.todo # <<>> /\ RollupFault
    /\ pass' = Remaining
    /\ mended' = mended \ (IF pass.backfill THEN {Head(pass.todo)}
                          ELSE {pass.todo[i] : i \in 1..Len(pass.todo)})
    /\ UNCHANGED <<now, matchRow, stored>>

UpsertRollupDay ==
    /\ pass.read # <<>>
    /\ stored' = [stored EXCEPT ![Head(pass.todo)] = pass.read[1]]
    /\ pass' = [pass EXCEPT !.todo = Tail(pass.todo), !.read = <<>>]
    /\ UNCHANGED <<now, matchRow, mended, rollupFaults>>

-----------------------------------------------------------------------------
Next ==
    \/ Tock
    \/ \E m \in StatMatches : MatchEnd(m) \/ \E k \in KeysOf[m] : MatchStart(m, k)
    \/ \E p \in Projects : DeleteProject(p)
    \/ Restart \/ Tick \/ ReadDay \/ DayFails \/ UpsertRollupDay

Spec == Init /\ [][Next]_statsVars

-----------------------------------------------------------------------------
(* Properties.                                                             *)

\* A key that has matches on no day may still be listed: the rollup lists those
\* of matches that began before the axis.
Plain(o) == [o EXCEPT !.matchesPerDay =
    {c \in {<<k, @[k]>> : k \in DOMAIN @} : \E d \in DOMAIN c[2] : c[2][d] > 0}]

\* Composed of stored days and live matches, the answer is what the match rows
\* say, for the platform and for every project, whatever the axis, whenever the
\* stored days are right (a pass in flight makes no difference to it).
StatsAreTrue ==
    pass.todo = <<>> => \A n \in 1 .. Today + 1, p \in Projects \cup {Platform} :
        LET axis == Axis(n)
            a == StatsDims(p, n)
            M == OfProject({m \in Rows : Start(m) < now}, p)
        IN  (\A d \in axis : d < LiveStart => Exact(d)) =>
                /\ Plain(BuildOverviewFromDaily(a, axis)) = Plain(BuildOverview(M, axis))
                /\ BuildCostFromDaily(a, axis) = BuildCost(M, axis)

\* A finished pass leaves every day it took on right, but those that failed or
\* whose figures changed since: after a Backfill only the last two days are left,
\* and the ticks look after these.
PassRepairs == pass.todo = <<>> => \A d \in mended : Exact(d)
=============================================================================
