--------------------------- MODULE ScheduleAlgebra ---------------------------
(* Day schedules, rule sets and annual schedules as the code keeps them: a   *)
(* day is a sequence of values, a rule set two default days and an optional  *)
(* day for each kind of day, an annual schedule a rule set for every date.   *)
(* Operations on annual schedules work on periods, the maximal runs of dates *)
(* that share one rule set object, and those on rule sets slot by slot. The  *)
(* last part writes a schedule as the fields of a Schedule:Compact object.   *)
(*                                                                           *)
(* A rule set, which the code compares by reference, carries an `id`.        *)
(* Nothing is ever changed in place: an operation makes a new schedule or is *)
(* refused, and a refused one leaves the caller the schedule it had.         *)
EXTENDS ScheduleTypes, FiniteSets, SequencesExt

CONSTANTS
    Days,          \* the dates of the year, 1..n (365 in the code)
    Steps,         \* the steps of a day, 1..n (144 of ten minutes in the code)
    Weekday,       \* the kinds of day that fall back to the weekdays default
    Weekend,       \* the other kinds but the holiday
    Operands,      \* the annual schedules a caller has
    Numbers,       \* the numbers a caller uses
    MaxOperations  \* how many operations a caller applies in a row

ASSUME ScheduleAssumption ==
    /\ Cardinality(Days) \in Nat \ {0} /\ Days = 1..Cardinality(Days)
    /\ Cardinality(Steps) \in Nat \ {0} /\ Steps = 1..Cardinality(Steps)
    /\ Weekday # {} /\ Weekend # {} /\ Weekday \cap Weekend = {}
    /\ {"holiday", "design"} \cap (Weekday \cup Weekend) = {}
    /\ Numbers \subseteq Int /\ MaxOperations \in Nat

VARIABLES
    schedule,      \* the annual schedule the caller is working on
    operations     \* how many operations made it

vars == <<schedule, operations>>

Kinds == Weekday \union Weekend \union {"holiday"}

None == [type |-> "none"]
Refused == [type |-> "refused"]

(***************************************************************************)
(* Day schedules                                                           *)
(***************************************************************************)
\* Every constructor and operation ends here: the values are validated.
NewDay(type, values) ==
    IF \A s \in Steps : Legal(type, values[s])
    THEN [type |-> type, values |-> values]
    ELSE Refused

ZipDays(op, l, r) ==
    IF /\ ZipDefined(op, l.type, r.type)
       /\ \A s \in Steps : Computable(op, l.values[s], r.values[s])
    THEN NewDay(ZipType(op, l.type, r.type),
                [s \in Steps |-> Value(op, l.values[s], r.values[s])])
    ELSE Refused

MapDay(op, day, n) ==
    IF ScalarDefined(op, day.type) /\ \A s \in Steps : Computable(op, day.values[s], n)
    THEN NewDay(ScalarType(op, day.type), [s \in Steps |-> Value(op, day.values[s], n)])
    ELSE Refused

InvertDay(day) ==
    IF day.type = "onoff"
    THEN NewDay("onoff", [s \in Steps |-> IF day.values[s] = 1 THEN 0 ELSE 1])
    ELSE Refused

\* A bound that a caller leaves out is one that no value reaches.
ClipDay(day, low, high) ==
    LET raised(v) == IF v > low THEN v ELSE low
        clipped(v) == IF raised(v) < high THEN raised(v) ELSE high
    IN  IF low <= high
        THEN NewDay(day.type, [s \in Steps |-> clipped(day.values[s])])
        ELSE Refused

DayMaximum(day) == Max({day.values[s] : s \in Steps})

NormalizeDay(day) ==
    LET divisor == IF DayMaximum(day) = 0 THEN 1 ELSE DayMaximum(day)
    IN  IF \A s \in Steps : Divides(day.values[s], divisor)
        THEN NewDay(IF day.type = "onoff" THEN "real" ELSE day.type,
                    [s \in Steps |-> Quotient(day.values[s], divisor)])
        ELSE Refused

DayAsType(day, type) == NewDay(type, day.values)

WhereDay(condition, yes, no) ==
    IF condition.type = "onoff" /\ yes.type = no.type
    THEN NewDay(yes.type, [s \in Steps |-> IF condition.values[s] = 1 THEN yes.values[s]
                                                                     ELSE no.values[s]])
    ELSE Refused

\* Segments: the last step of each run of equal values, with the value.
Compactize(day) ==
    {<<s, day.values[s]>> : s \in {u \in Steps : u + 1 \notin Steps
                                                 \/ day.values[u + 1] # day.values[u]}}

(***************************************************************************)
(* Rule sets                                                               *)
(***************************************************************************)
Default(rules, k) == IF k \in Weekday THEN rules.weekdays ELSE rules.weekends

GetDaySchedule(rules, k) ==
    IF rules.days[k] = None THEN Default(rules, k) ELSE rules.days[k]

\* A rule set of one type, or a refusal if a slot could not be computed.
NewRules(weekdays, weekends, days) ==
    LET slots == {weekdays, weekends} \union ({days[k] : k \in Kinds} \ {None})
    IN  IF Cardinality({slot.type : slot \in slots}) = 1 /\ Refused \notin slots
        THEN [type |-> weekdays.type, weekdays |-> weekdays, weekends |-> weekends, days |-> days]
        ELSE Refused

Slots(rules) == {rules.weekdays, rules.weekends} \union ({rules.days[k] : k \in Kinds} \ {None})

\* Each slot of a rule set becomes what `made` has for its day.
MapRules(rules, made) ==
    NewRules(made[rules.weekdays], made[rules.weekends],
             [k \in Kinds |-> IF rules.days[k] = None THEN None ELSE made[rules.days[k]]])

\* A kind of day is overridden in the result if it is in one of the operands.
CombineRules(l, r, made) ==
    NewRules(made[l.weekdays][r.weekdays], made[l.weekends][r.weekends],
             [k \in Kinds |-> IF l.days[k] = None /\ r.days[k] = None
                              THEN None
                              ELSE made[GetDaySchedule(l, k)][GetDaySchedule(r, k)]])

\* Mutant: an override of the right operand alone is lost.
RulesWithLeft(op, l, r) ==
    NewRules(ZipDays(op, l.weekdays, r.weekdays), ZipDays(op, l.weekends, r.weekends),
             [k \in Kinds |-> IF l.days[k] = None
                              THEN None
                              ELSE ZipDays(op, GetDaySchedule(l, k), GetDaySchedule(r, k))])

RulesWith(op, l, r) ==
    CombineRules(l, r, [x \in Slots(l) |-> [y \in Slots(r) |-> ZipDays(op, x, y)]])

RulesWithNumber(op, rules, n) == MapRules(rules, [day \in Slots(rules) |-> MapDay(op, day, n)])

WhereRules(condition, yes, no) ==
    LET override(k) == {condition.days[k], yes.days[k], no.days[k]} # {None}
    IN  IF condition.type = "onoff" /\ yes.type = no.type
        THEN NewRules(WhereDay(condition.weekdays, yes.weekdays, no.weekdays),
                      WhereDay(condition.weekends, yes.weekends, no.weekends),
                      [k \in Kinds |-> IF override(k)
                                       THEN WhereDay(GetDaySchedule(condition, k),
                                                     GetDaySchedule(yes, k),
                                                     GetDaySchedule(no, k))
                                       ELSE None])
        ELSE Refused

(***************************************************************************)
(* Annual schedules                                                        *)
(***************************************************************************)
\* A date starts a period when it has not the rule set object of the day before.
Starts(annual) == {d \in Days : d = 1 \/ annual.at[d].id # annual.at[d - 1].id}

\* The last date before the next boundary, `boundaries` holding the first dates.
EndOf(start, boundaries) ==
    CHOOSE e \in Days : /\ e >= start
                        /\ e + 1 \in boundaries \union {Cardinality(Days) + 1}
                        /\ \A d \in start + 1..e : d \notin boundaries

Periods(annual) ==
    {[start |-> b, end |-> EndOf(b, Starts(annual)), rules |-> annual.at[b].rules] :
        b \in Starts(annual)}

\* First dates and dates after the last ones, of all the schedules.
Boundaries(annuals) ==
    UNION {{p.start, p.end + 1} : p \in UNION {Periods(a) : a \in annuals}}

Unified(annuals) ==
    LET B == Boundaries(annuals)
    IN  {[start |-> b, end |-> Min({c \in B : c > b}) - 1] : b \in {c \in B : \E e \in B : e > c}}

\* FindRuleSet: the rule set a compact schedule has on a date.
FindRuleSet(annual, d) == (CHOOSE p \in Periods(annual) : d \in p.start..p.end).rules

\* An annual schedule from periods, each with the new rule set `made` has for it.
FromPeriods(periods, made) ==
    IF /\ \A p \in periods : made[p] # Refused
       /\ Cardinality({made[p].type : p \in periods}) = 1
    THEN [type |-> made[CHOOSE p \in periods : TRUE].type,
          at |-> [d \in Days |-> LET p == CHOOSE q \in periods : d \in q.start..q.end
                                 IN  [id |-> p.start, rules |-> made[p]]]]
    ELSE Refused

Combine(l, r, op) ==
    LET periods == Unified({l, r})
    IN  FromPeriods(periods, [p \in periods |-> RulesWith(op, FindRuleSet(l, p.start),
                                                             FindRuleSet(r, p.start))])

RuleSets(annual) == {annual.at[d].rules : d \in Days}

MapCompact(annual, made) ==
    FromPeriods(Periods(annual), [p \in Periods(annual) |-> made[p.rules]])

\* Each day of each rule set becomes what `made` has for it.
MapDays(annual, made) ==
    MapCompact(annual, [rules \in RuleSets(annual) |-> MapRules(rules, made)])

Where(condition, yes, no) ==
    LET periods == Unified({condition, yes, no})
    IN  FromPeriods(periods, [p \in periods |-> WhereRules(FindRuleSet(condition, p.start),
                                                             FindRuleSet(yes, p.start),
                                                             FindRuleSet(no, p.start))])

\* A rule set object is put on the dates first..last.
Apply(annual, entry, first, last) ==
    IF entry.rules.type = annual.type
    THEN [annual EXCEPT !.at = [d \in Days |-> IF d \in first..last THEN entry ELSE annual.at[d]]]
    ELSE Refused

Everyday(entry) == [type |-> entry.rules.type, at |-> [d \in Days |-> entry]]

\* FromWindows of rule sets: on each date the last window that covers it.
FromWindows(default, windows) ==
    LET covering(d) == {i \in DOMAIN windows : d \in windows[i].first..windows[i].last}
    IN  IF \A i \in DOMAIN windows : windows[i].entry.rules.type = default.rules.type
        THEN [type |-> default.rules.type,
              at |-> [d \in Days |-> IF covering(d) = {} THEN default
                                                       ELSE windows[Max(covering(d))].entry]]
        ELSE Refused

\* FromWindows of values: a constant schedule on which one window after another is applied.
FromValueWindows(default, windows) ==
    LET step(annual, w) == IF annual = Refused THEN Refused
                                               ELSE Apply(annual, w.entry, w.first, w.last)
    IN  FoldLeft(step, Everyday(default), windows)

(***************************************************************************)
(* What the constructors let through: days of legal values, rule sets and  *)
(* annual schedules of one type                                            *)
(***************************************************************************)
DaysOf(type) ==
    {day \in [type : {type}, values : [Steps -> Int]] :
        \A s \in Steps : Legal(type, day.values[s])}

RulesOf(type) ==
    [type : {type}, weekdays : DaysOf(type), weekends : DaysOf(type),
     days : [Kinds -> DaysOf(type) \union {None}]]

IsAnnual(annual) ==
    /\ annual.type \in Types /\ annual = [type |-> annual.type, at |-> annual.at]
    /\ \A d \in Days : annual.at[d].rules \in RulesOf(annual.type)

\* The caller's rule set objects: one id is one object, and an id that is a
\* date is left for the objects that operations make.
Entries == {o.at[d] : o \in Operands, d \in Days}

ASSUME OperandAssumption ==
    /\ \A o \in Operands : IsAnnual(o)
    /\ \A e, f \in Entries : e.id = f.id => e.rules = f.rules
    /\ \A e \in Entries : e.id \notin Days

(***************************************************************************)
(* The caller                                                              *)
(***************************************************************************)
Init == schedule \in Operands /\ operations = 0

\* The result replaces the schedule unless the operation is refused.
Becomes(result) ==
    /\ operations < MaxOperations
    /\ result # Refused
    /\ schedule' = result
    /\ operations' = operations + 1

CombineWith == \E op \in ZipOps, o \in Operands : Becomes(Combine(schedule, o, op))

AllDays == UNION {Slots(rules) : rules \in RuleSets(schedule)}

\* A schedule has no minimum and maximum with a number; a rule set has.
Map == \E op \in ScalarOps \ {"MIN", "MAX"}, n \in Numbers :
           Becomes(MapCompact(schedule, [rules \in RuleSets(schedule) |->
                                            RulesWithNumber(op, rules, n)]))

Invert == Becomes(MapDays(schedule, [day \in AllDays |-> InvertDay(day)]))

Normalize == Becomes(MapDays(schedule, [day \in AllDays |-> NormalizeDay(day)]))

Clip == \E low, high \in Numbers :
            Becomes(MapDays(schedule, [day \in AllDays |-> ClipDay(day, low, high)]))

\* A deep copy is the schedule as the type it has.
AsType == \E type \in Types :
              Becomes(MapDays(schedule, [day \in AllDays |-> DayAsType(day, type)]))

Select == schedule.type = "onoff" /\ \E yes, no \in Operands : Becomes(Where(schedule, yes, no))

Overwrite == \E o \in Operands, d, first, last \in Days :
                 first <= last /\ Becomes(Apply(schedule, o.at[d], first, last))

Next == CombineWith \/ Map \/ Invert \/ Normalize \/ Clip \/ AsType \/ Select \/ Overwrite

Spec == Init /\ [][Next]_vars

(***************************************************************************)
(* Writing a schedule as a Schedule:Compact object                         *)
(***************************************************************************)
Entry(for, day) == [for |-> for, until |-> Compactize(day)]

\* One entry for a group of kinds, or one for each kind of the group that may differ.
GroupEntries(rules, group, apart, day) ==
    IF apart THEN {Entry({k}, day[k]) : k \in group}
             ELSE {Entry(group, Default(rules, CHOOSE k \in group : TRUE))}

\* "AllOtherDays" is every kind that no entry names.
WithOthers(entries, day) ==
    entries \union {Entry((Kinds \union {"design"}) \ UNION {e.for : e \in entries}, day)}

\* Mutant: the other days are written as weekdays.
RuleSetFieldsAsWeekdays(rules) ==
    LET overridden(k) == rules.days[k] # None
        day == [k \in Kinds |-> GetDaySchedule(rules, k)]
    IN  WithOthers(GroupEntries(rules, Weekday, \E k \in Weekday : overridden(k), day)
                   \union GroupEntries(rules, Weekend, \E k \in Weekend : overridden(k), day)
                   \union (IF overridden("holiday") THEN {Entry({"holiday"}, day["holiday"])} ELSE {}),
                   rules.weekdays)

\* Schedule.ToIdfObject and RuleSet.ToIdfCompactExpression
RuleSetFields(rules) ==
    LET overridden(k) == rules.days[k] # None
        day == [k \in Kinds |-> GetDaySchedule(rules, k)]
    IN  WithOthers(GroupEntries(rules, Weekday, \E k \in Weekday : overridden(k), day)
                   \union GroupEntries(rules, Weekend, \E k \in Weekend : overridden(k), day)
                   \union (IF overridden("holiday") THEN {Entry({"holiday"}, day["holiday"])} ELSE {}),
                   rules.weekends)

\* The exporter of a SimpleDragon model: overrides equal to the default are dropped.
LegacyFields(rules) ==
    LET distinct(k) == rules.days[k] # None /\ rules.days[k] # Default(rules, k)
        day == [k \in Kinds |-> IF distinct(k) THEN rules.days[k] ELSE Default(rules, k)]
    IN  WithOthers(GroupEntries(rules, Weekday, \E k \in Weekday : distinct(k), day)
                   \union GroupEntries(rules, Weekend, \E k \in Weekend : distinct(k), day)
                   \union (IF distinct("holiday") THEN {Entry({"holiday"}, day["holiday"])} ELSE {}),
                   rules.weekends)

\* The exporter of an InvisibleDragon model: every kind, the design days as holidays.
ModelFields(rules) ==
    {Entry({k}, GetDaySchedule(rules, k)) : k \in Kinds \ {"holiday"}}
    \union {Entry({"holiday", "design"}, GetDaySchedule(rules, "holiday"))}

\* "Through: <date>" with the fields of the period's rule set.
ToIdf(annual, fields) == {<<p.end, fields[p.rules]>> : p \in Periods(annual)}

\* What EnergyPlus reads: the first Through, the entry of the kind, the first Until.
First(pairs, n) == (CHOOSE p \in pairs : p[1] >= n /\ \A q \in pairs : q[1] >= n => p[1] <= q[1])[2]

Read(object, d, k, s) == First((CHOOSE e \in First(object, d) : k \in e.for).until, s)

(***************************************************************************)
(* Properties                                                              *)
(***************************************************************************)
\* Schedules have one type, and it admits every value in every slot.
TypeOK ==
    /\ operations \in 0..MaxOperations
    /\ schedule.type \in Types
    /\ \A d \in Days : \A day \in Slots(schedule.at[d].rules) :
          day.type = schedule.type /\ \A s \in Steps : Legal(day.type, day.values[s])

\* The year a schedule stands for.
Meaning(annual) ==
    [type |-> annual.type,
     at |-> [d \in Days |-> [k \in Kinds |-> GetDaySchedule(annual.at[d].rules, k).values]]]

Year == INSTANCE ScheduleYear WITH
            year <- Meaning(schedule), Others <- {Meaning(o) : o \in Operands}

\* Operations on periods, overrides and defaults compute what the operation
\* says at every step of every kind of day of every date.
ImplementsYear == Year!Spec

\* Each of the three exports reads back as the schedule on every date, for
\* every kind of day of the calendar, whichever overrides it leaves out, and
\* names no kind of day in two entries of a date, which EnergyPlus refuses.
ReadsBack(fields) ==
    LET object == ToIdf(schedule, fields)
    IN  \A d \in Days :
           /\ \A k \in Kinds \union {"design"} :
                 Cardinality({e \in First(object, d) : k \in e.for}) = 1
           /\ \A k \in Kinds, s \in Steps :
                 Read(object, d, k, s) = GetDaySchedule(schedule.at[d].rules, k).values[s]

ExportsReadBack ==
    /\ ReadsBack([rules \in RuleSets(schedule) |-> RuleSetFields(rules)])
    /\ ReadsBack([rules \in RuleSets(schedule) |-> LegacyFields(rules)])
    /\ ReadsBack([rules \in RuleSets(schedule) |-> ModelFields(rules)])

\* The two ways to lay windows over a year, which the code writes twice, agree
\* on every date and on what they refuse, for windows that overlap or repeat.
Windows ==
    {[first |-> f, last |-> l, entry |-> o.at[d]] : f, l, d \in Days, o \in Operands}

WindowsAgree ==
    operations = 0 =>
        \A v, w \in {x \in Windows : x.first <= x.last} :
            FromWindows(schedule.at[1], <<v, w>>) = FromValueWindows(schedule.at[1], <<v, w>>)

\* A schedule keeps its type and legal values, is written as it is meant by
\* all three exports, and comes out the same from either constructor that lays
\* windows over a year.
ScheduleSound == TypeOK /\ ExportsReadBack /\ WindowsAgree
=============================================================================
