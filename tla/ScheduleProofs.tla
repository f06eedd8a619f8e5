--------------------------- MODULE ScheduleProofs ---------------------------
(***************************************************************************)
(* Theorems about rule sets, for any kinds of weekday and weekend, any     *)
(* overrides, any numbers of steps and any values, and about the annual    *)
(* schedules a caller makes of them: that every sequence of operations     *)
(* does to the year what the operations say, and that each schedule is     *)
(* exported as it is meant.                                                *)
(***************************************************************************)
EXTENDS ScheduleAlgebra, TLAPS, WellFoundedInduction, FiniteSetTheorems

(* A rule set whose days have types.                                       *)
Typed(rules) == \A day \in Slots(rules) : day.type \in Types

(* The day a rule set has for a kind of day is one of its slots.           *)
LEMMA DayIsSlot ==
    ASSUME NEW rules, NEW k \in Kinds
    PROVE  GetDaySchedule(rules, k) \in Slots(rules)
  BY DEF GetDaySchedule, Default, Slots

(* The type an operation gives its result is a type of schedule.           *)
LEMMA ResultTyped ==
    ASSUME NEW op, NEW l \in Types, NEW r \in Types
    PROVE  ZipType(op, l, r) \in Types
  <1>1. Strongest(l, r) \in Types
    BY Zenon DEF Strongest, Types
  <1>2. "onoff" \in Types
    BY DEF Types
  <1> QED
    BY <1>1, <1>2, Zenon DEF ZipType

(* The result of an operation is a day or a refusal, never a missing one.  *)
LEMMA ZipIsDay ==
    ASSUME NEW op, NEW x, NEW y, x.type \in Types, y.type \in Types
    PROVE  ZipDays(op, x, y) # None
  <1>1. Refused # None
    BY DEF Refused, None
  <1>2. ASSUME NEW type \in Types, NEW values PROVE NewDay(type, values) # None
    <2>1. CASE NewDay(type, values) = Refused
      BY <1>1, <2>1
    <2>2. CASE NewDay(type, values) = [type |-> type, values |-> values]
      <3>1. NewDay(type, values).type = type
        BY <2>2
      <3>2. None.type = "none"
        BY DEF None
      <3> QED
        BY <3>1, <3>2 DEF Types
    <2> QED
      BY <2>1, <2>2 DEF NewDay
  <1> QED
    BY <1>1, <1>2, ResultTyped DEF ZipDays

(* An operation on two rule sets computes, for every kind of day, the      *)
(* operation on the days they have for it, whether it is overridden in both*)
(* of them, in one or in none.                                             *)
THEOREM CombinesEveryKind ==
    ASSUME NEW op, NEW l, NEW r, Typed(l), Typed(r),
           RulesWith(op, l, r) # Refused, NEW k \in Kinds
    PROVE  GetDaySchedule(RulesWith(op, l, r), k)
           = ZipDays(op, GetDaySchedule(l, k), GetDaySchedule(r, k))
  <1> DEFINE made == [x \in Slots(l) |-> [y \in Slots(r) |-> ZipDays(op, x, y)]]
             both(j) == GetDaySchedule(l, j) \in Slots(l) /\ GetDaySchedule(r, j) \in Slots(r)
             days == [j \in Kinds |-> IF l.days[j] = None /\ r.days[j] = None THEN None
                                      ELSE made[GetDaySchedule(l, j)][GetDaySchedule(r, j)]]
  <1>1. \A x \in Slots(l), y \in Slots(r) : made[x][y] = ZipDays(op, x, y)
    OBVIOUS
  <1>2. l.weekdays \in Slots(l) /\ l.weekends \in Slots(l)
        /\ r.weekdays \in Slots(r) /\ r.weekends \in Slots(r)
    BY DEF Slots
  <1>3. /\ RulesWith(op, l, r).weekdays = ZipDays(op, l.weekdays, r.weekdays)
        /\ RulesWith(op, l, r).weekends = ZipDays(op, l.weekends, r.weekends)
        /\ RulesWith(op, l, r).days = days
    <2>1. RulesWith(op, l, r) = NewRules(made[l.weekdays][r.weekdays],
                                         made[l.weekends][r.weekends], days)
      BY DEF RulesWith, CombineRules
    <2> HIDE DEF made, days
    <2>2. RulesWith(op, l, r) = [type |-> made[l.weekdays][r.weekdays].type,
                                 weekdays |-> made[l.weekdays][r.weekdays],
                                 weekends |-> made[l.weekends][r.weekends], days |-> days]
      BY <2>1 DEF NewRules
    <2> QED
      BY <2>2, <1>1, <1>2
  <1>4. both(k)
    BY DayIsSlot
  <1>5. CASE l.days[k] = None /\ r.days[k] = None
    <2>1. RulesWith(op, l, r).days[k] = None
      BY <1>3, <1>5
    <2> QED
      BY <1>3, <1>5, <2>1 DEF GetDaySchedule, Default
  <1>6. CASE ~(l.days[k] = None /\ r.days[k] = None)
    <2>1. days[k] = ZipDays(op, GetDaySchedule(l, k), GetDaySchedule(r, k))
      BY <1>1, <1>4, <1>6
    <2>2. GetDaySchedule(l, k).type \in Types /\ GetDaySchedule(r, k).type \in Types
      BY <1>4 DEF Typed
    <2>3. days[k] # None
      BY <2>1, <2>2, ZipIsDay
    <2> QED
      BY <1>3, <2>1, <2>3 DEF GetDaySchedule
  <1> QED
    BY <1>5, <1>6

(* What entries say of the kinds of day they name is what the rule set has.*)
Tell(entries, rules) ==
    \A e \in entries : /\ e.for \subseteq Kinds \cup {"design"}
                       /\ \A k \in e.for \cap Kinds :
                             e.until = Compactize(GetDaySchedule(rules, k))

Cover(entries, kinds) == \A k \in kinds : \E e \in entries : k \in e.for

(* An entry says what it is made of.                                       *)
LEMMA EntryFields ==
    ASSUME NEW for, NEW day
    PROVE  Entry(for, day).for = for /\ Entry(for, day).until = Compactize(day)
  BY DEF Entry

(* The entries of the weekdays or of the weekends, together or apart.      *)
LEMMA GroupTells ==
    ASSUME NEW rules, NEW group \in {Weekday, Weekend}, NEW apart \in BOOLEAN, NEW day,
           \A k \in group : day[k] = GetDaySchedule(rules, k),
           ~apart => \A k \in group : GetDaySchedule(rules, k) = Default(rules, k)
    PROVE  /\ Tell(GroupEntries(rules, group, apart, day), rules)
           /\ Cover(GroupEntries(rules, group, apart, day), group)
  <1> DEFINE first == CHOOSE k \in group : TRUE
  <1>1. group \subseteq Kinds /\ group # {}
    BY ScheduleAssumption DEF Kinds
  <1>2. CASE apart
    <2>1. GroupEntries(rules, group, apart, day) = {Entry({k}, day[k]) : k \in group}
      BY <1>2 DEF GroupEntries
    <2>2. \A k \in group : /\ Entry({k}, day[k]).for = {k}
                           /\ Entry({k}, day[k]).until = Compactize(GetDaySchedule(rules, k))
      BY EntryFields
    <2>3. Tell({Entry({k}, day[k]) : k \in group}, rules)
      <3> SUFFICES ASSUME NEW k \in group
                   PROVE  /\ Entry({k}, day[k]).for \subseteq Kinds \cup {"design"}
                          /\ \A j \in Entry({k}, day[k]).for \cap Kinds :
                                Entry({k}, day[k]).until = Compactize(GetDaySchedule(rules, j))
        BY DEF Tell
      <3>1. Entry({k}, day[k]).for = {k} /\ k \in Kinds
        BY <1>1, <2>2
      <3> QED
        BY <2>2, <3>1
    <2>4. Cover({Entry({k}, day[k]) : k \in group}, group)
      <3> SUFFICES ASSUME NEW k \in group
                   PROVE  \E e \in {Entry({j}, day[j]) : j \in group} : k \in e.for
        BY DEF Cover
      <3> WITNESS Entry({k}, day[k]) \in {Entry({j}, day[j]) : j \in group}
      <3> QED
        BY <2>2
    <2> QED
      BY <2>1, <2>3, <2>4
  <1>3. CASE ~apart
    <2>1. GroupEntries(rules, group, apart, day) = {Entry(group, Default(rules, first))}
      BY <1>3 DEF GroupEntries
    <2>2. first \in group
      BY <1>1
    <2>3. \A k \in group : Default(rules, k) = Default(rules, first)
      BY <2>2, ScheduleAssumption DEF Default
    <2>4. Entry(group, Default(rules, first)).for = group
      BY EntryFields
    <2>5. \A k \in group : Entry(group, Default(rules, first)).until
                            = Compactize(GetDaySchedule(rules, k))
      BY <1>3, <2>3, EntryFields
    <2> HIDE DEF first
    <2>6. Tell({Entry(group, Default(rules, first))}, rules)
      BY <1>1, <2>4, <2>5 DEF Tell
    <2>7. Cover({Entry(group, Default(rules, first))}, group)
      BY <2>4 DEF Cover
    <2> QED
      BY <2>1, <2>6, <2>7
  <1> QED
    BY <1>2, <1>3

(* "AllOtherDays" with the weekends' default completes entries that leave  *)
(* out at most a holiday that is not overridden.                           *)
LEMMA OthersTell ==
    ASSUME NEW rules, NEW entries, Tell(entries, rules),
           Cover(entries, Weekday \cup Weekend),
           Cover(entries, {"holiday"}) \/ GetDaySchedule(rules, "holiday") = rules.weekends
    PROVE  /\ Tell(WithOthers(entries, rules.weekends), rules)
           /\ Cover(WithOthers(entries, rules.weekends), Kinds \cup {"design"})
  <1> DEFINE named == UNION {e.for : e \in entries}
             rest == (Kinds \cup {"design"}) \ named
             others == Entry(rest, rules.weekends)
  <1>1. WithOthers(entries, rules.weekends) = entries \cup {others}
    BY DEF WithOthers
  <1>2. others.for = rest /\ others.until = Compactize(rules.weekends)
    BY EntryFields
  <1>3. \A k \in rest \cap Kinds : k = "holiday" /\ GetDaySchedule(rules, k) = rules.weekends
    BY DEF Cover, Kinds
  <1> HIDE DEF others
  <1>4. Tell(entries \cup {others}, rules)
    BY <1>2, <1>3 DEF Tell
  <1>5. Cover(entries \cup {others}, Kinds \cup {"design"})
    BY <1>2 DEF Cover
  <1> QED
    BY <1>1, <1>4, <1>5

(* What three sets of entries say together.                                *)
LEMMA Together ==
    ASSUME NEW rules, NEW A, NEW B, NEW C, NEW K, NEW L, NEW M,
           Tell(A, rules), Tell(B, rules), Tell(C, rules),
           Cover(A, K), Cover(B, L), Cover(C, M)
    PROVE  Tell(A \cup B \cup C, rules) /\ Cover(A \cup B \cup C, K \cup L \cup M)
  <1>1. Tell(A \cup B \cup C, rules)
    BY DEF Tell
  <1>2. Cover(A \cup B \cup C, K \cup L \cup M)
    BY DEF Cover
  <1> QED
    BY <1>1, <1>2

(* Entries for the groups, the holiday if it is set apart, and the others. *)
LEMMA GroupedTells ==
    ASSUME NEW rules, NEW day, NEW apart \in [Kinds -> BOOLEAN],
           \A k \in Kinds : day[k] = GetDaySchedule(rules, k),
           \A k \in Kinds : ~apart[k] => GetDaySchedule(rules, k) = Default(rules, k)
    PROVE  LET entries ==
                 WithOthers(GroupEntries(rules, Weekday, \E k \in Weekday : apart[k], day)
                            \union GroupEntries(rules, Weekend, \E k \in Weekend : apart[k], day)
                            \union (IF apart["holiday"] THEN {Entry({"holiday"}, day["holiday"])}
                                                        ELSE {}),
                            rules.weekends)
           IN  Tell(entries, rules) /\ Cover(entries, Kinds \cup {"design"})
  <1> DEFINE A == GroupEntries(rules, Weekday, \E k \in Weekday : apart[k], day)
             B == GroupEntries(rules, Weekend, \E k \in Weekend : apart[k], day)
             C == IF apart["holiday"] THEN {Entry({"holiday"}, day["holiday"])} ELSE {}
             M == IF apart["holiday"] THEN {"holiday"} ELSE {}
  <1>0. "holiday" \in Kinds /\ Weekday \subseteq Kinds /\ Weekend \subseteq Kinds
    BY DEF Kinds
  <1>1. Tell(A, rules) /\ Cover(A, Weekday)
    <2>1. (\E k \in Weekday : apart[k]) \in BOOLEAN
      OBVIOUS
    <2>2. ~(\E k \in Weekday : apart[k]) =>
             \A k \in Weekday : GetDaySchedule(rules, k) = Default(rules, k)
      BY <1>0
    <2> QED
      BY <1>0, <2>1, <2>2, GroupTells
  <1>2. Tell(B, rules) /\ Cover(B, Weekend)
    <2>1. (\E k \in Weekend : apart[k]) \in BOOLEAN
      OBVIOUS
    <2>2. ~(\E k \in Weekend : apart[k]) =>
             \A k \in Weekend : GetDaySchedule(rules, k) = Default(rules, k)
      BY <1>0
    <2> QED
      BY <1>0, <2>1, <2>2, GroupTells
  <1>3. Tell(C, rules) /\ Cover(C, M)
    <2>1. /\ Entry({"holiday"}, day["holiday"]).for = {"holiday"}
          /\ Entry({"holiday"}, day["holiday"]).until
             = Compactize(GetDaySchedule(rules, "holiday"))
      BY <1>0, EntryFields
    <2>2. CASE apart["holiday"]
      BY <1>0, <2>1, <2>2 DEF Tell, Cover
    <2>3. CASE ~apart["holiday"]
      BY <2>3 DEF Tell, Cover
    <2> QED
      BY <2>2, <2>3
  <1> HIDE DEF A, B, C
  <1>4. Tell(A \cup B \cup C, rules) /\ Cover(A \cup B \cup C, Weekday \cup Weekend \cup M)
    <2> HIDE DEF M
    <2> QED
      BY <1>1, <1>2, <1>3, Together
  <1>5. Cover(A \cup B \cup C, Weekday \cup Weekend)
    BY <1>4 DEF Cover
  <1>6. Cover(A \cup B \cup C, {"holiday"}) \/ GetDaySchedule(rules, "holiday") = rules.weekends
    <2>1. CASE apart["holiday"]
      BY <1>4, <2>1 DEF Cover
    <2>2. CASE ~apart["holiday"]
      <3>1. GetDaySchedule(rules, "holiday") = Default(rules, "holiday")
        BY <1>0, <2>2
      <3>2. "holiday" \notin Weekday
        BY ScheduleAssumption
      <3> QED
        BY <3>1, <3>2 DEF Default
    <2> QED
      BY <2>1, <2>2
  <1>7. /\ Tell(WithOthers(A \cup B \cup C, rules.weekends), rules)
        /\ Cover(WithOthers(A \cup B \cup C, rules.weekends), Kinds \cup {"design"})
    BY <1>4, <1>5, <1>6, OthersTell
  <1> QED
    BY <1>7 DEF A, B, C

(* The export of a rule set, which leaves overridden kinds of day apart,   *)
(* has for every kind of day an entry, and every entry tells what the rule *)
(* set has.                                                                *)
THEOREM RuleSetExported ==
    ASSUME NEW rules
    PROVE  /\ Tell(RuleSetFields(rules), rules)
           /\ Cover(RuleSetFields(rules), Kinds \cup {"design"})
  <1> DEFINE apart == [k \in Kinds |-> rules.days[k] # None]
             day == [k \in Kinds |-> GetDaySchedule(rules, k)]
             A == GroupEntries(rules, Weekday, \E k \in Weekday : apart[k], day)
             B == GroupEntries(rules, Weekend, \E k \in Weekend : apart[k], day)
             C == IF apart["holiday"] THEN {Entry({"holiday"}, day["holiday"])} ELSE {}
  <1>1. apart \in [Kinds -> BOOLEAN] /\ \A k \in Kinds : day[k] = GetDaySchedule(rules, k)
    OBVIOUS
  <1>2. \A k \in Kinds : ~apart[k] => GetDaySchedule(rules, k) = Default(rules, k)
    BY DEF GetDaySchedule
  <1>3. /\ (\E k \in Weekday : apart[k]) <=> \E k \in Weekday : rules.days[k] # None
        /\ (\E k \in Weekend : apart[k]) <=> \E k \in Weekend : rules.days[k] # None
        /\ apart["holiday"] <=> rules.days["holiday"] # None
    BY DEF Kinds
  <1>4. RuleSetFields(rules) = WithOthers(A \cup B \cup C, rules.weekends)
    BY <1>3 DEF RuleSetFields
  <1> HIDE DEF apart, day
  <1>5. /\ Tell(WithOthers(A \cup B \cup C, rules.weekends), rules)
        /\ Cover(WithOthers(A \cup B \cup C, rules.weekends), Kinds \cup {"design"})
    BY <1>1, <1>2, GroupedTells
  <1> QED
    BY <1>4, <1>5

(* So has the export of a SimpleDragon model, which drops overrides equal  *)
(* to the default.                                                         *)
THEOREM LegacyExported ==
    ASSUME NEW rules
    PROVE  /\ Tell(LegacyFields(rules), rules)
           /\ Cover(LegacyFields(rules), Kinds \cup {"design"})
  <1> DEFINE apart == [k \in Kinds |-> rules.days[k] # None /\ rules.days[k] # Default(rules, k)]
             day == [k \in Kinds |-> IF rules.days[k] # None /\ rules.days[k] # Default(rules, k)
                                     THEN rules.days[k] ELSE Default(rules, k)]
             A == GroupEntries(rules, Weekday, \E k \in Weekday : apart[k], day)
             B == GroupEntries(rules, Weekend, \E k \in Weekend : apart[k], day)
             C == IF apart["holiday"] THEN {Entry({"holiday"}, day["holiday"])} ELSE {}
  <1>1. apart \in [Kinds -> BOOLEAN] /\ \A k \in Kinds : day[k] = GetDaySchedule(rules, k)
    BY DEF GetDaySchedule
  <1>2. \A k \in Kinds : ~apart[k] => GetDaySchedule(rules, k) = Default(rules, k)
    BY DEF GetDaySchedule
  <1>3. \A k \in Kinds : apart[k] <=> rules.days[k] # None /\ rules.days[k] # Default(rules, k)
    OBVIOUS
  <1>4. LegacyFields(rules) = WithOthers(A \cup B \cup C, rules.weekends)
    BY <1>3 DEF LegacyFields, Kinds
  <1> HIDE DEF apart, day
  <1>5. /\ Tell(WithOthers(A \cup B \cup C, rules.weekends), rules)
        /\ Cover(WithOthers(A \cup B \cup C, rules.weekends), Kinds \cup {"design"})
    BY <1>1, <1>2, GroupedTells
  <1> QED
    BY <1>4, <1>5

(* And so has the export of an InvisibleDragon model, which writes every   *)
(* kind of day and the design days with the holidays.                      *)
THEOREM ModelExported ==
    ASSUME NEW rules
    PROVE  /\ Tell(ModelFields(rules), rules)
           /\ Cover(ModelFields(rules), Kinds \cup {"design"})
  <1> DEFINE each == {Entry({k}, GetDaySchedule(rules, k)) : k \in Kinds \ {"holiday"}}
             shared == Entry({"holiday", "design"}, GetDaySchedule(rules, "holiday"))
  <1>1. ModelFields(rules) = each \cup {shared}
    BY DEF ModelFields
  <1>2. "holiday" \in Kinds /\ "design" \notin Kinds
    BY ScheduleAssumption DEF Kinds
  <1>3. /\ shared.for = {"holiday", "design"}
        /\ shared.until = Compactize(GetDaySchedule(rules, "holiday"))
    BY EntryFields
  <1>4. \A k \in Kinds \ {"holiday"} :
          /\ Entry({k}, GetDaySchedule(rules, k)).for = {k}
          /\ Entry({k}, GetDaySchedule(rules, k)).until = Compactize(GetDaySchedule(rules, k))
    BY EntryFields
  <1> HIDE DEF shared
  <1>5. Tell(each \cup {shared}, rules)
    <2> SUFFICES ASSUME NEW e \in each \cup {shared}
                 PROVE  /\ e.for \subseteq Kinds \cup {"design"}
                        /\ \A k \in e.for \cap Kinds : e.until = Compactize(GetDaySchedule(rules, k))
      BY DEF Tell
    <2>1. CASE e = shared
      BY <1>2, <1>3, <2>1
    <2>2. CASE e \in each
      <3>1. PICK k \in Kinds \ {"holiday"} : e = Entry({k}, GetDaySchedule(rules, k))
        BY <2>2
      <3> QED
        BY <1>4, <3>1
    <2> QED
      BY <2>1, <2>2
  <1>6. Cover(each \cup {shared}, Kinds \cup {"design"})
    <2> SUFFICES ASSUME NEW k \in Kinds \cup {"design"}
                 PROVE  \E e \in each \cup {shared} : k \in e.for
      BY DEF Cover
    <2>1. CASE k \in {"holiday", "design"}
      BY <1>3, <2>1
    <2>2. CASE k \in Kinds \ {"holiday"}
      <3>1. Entry({k}, GetDaySchedule(rules, k)) \in each \cup {shared}
        BY <2>2
      <3> QED
        BY <1>4, <2>2, <3>1
    <2> QED
      BY <2>1, <2>2
  <1> QED
    BY <1>1, <1>5, <1>6

(***************************************************************************)
(* The year split into periods: maximal runs of dates with one rule set    *)
(* object cover it without overlap, and so do the common periods of several*)
(* schedules.                                                              *)
(***************************************************************************)

LastDate == Cardinality(Days)

(* The dates of the year are 1..LastDate.                                  *)
LEMMA Dates == LastDate \in Nat /\ LastDate >= 1 /\ Days = 1..LastDate
  BY ScheduleAssumption DEF LastDate

(* A set of natural numbers has a least element ...                        *)
LEMMA Least ==
    ASSUME NEW S, S \subseteq Nat, S # {}
    PROVE  \E m \in S : \A x \in S : m <= x
  <1> DEFINE R == {p \in Nat \X Nat : p[1] < p[2]}
  <1>1. IsWellFoundedOn(R, Nat)
    BY NatLessThanWellFounded DEF OpToRel
  <1> HIDE DEF R
  <1>2. PICK m \in S : \A x \in S : ~(<<x, m>> \in R)
    BY <1>1, WFMin
  <1>3. \A x \in S : ~(x < m)
    BY <1>2 DEF R
  <1> QED
    BY <1>3

(* ... and, if it is bounded, a greatest.                                  *)
LEMMA Greatest ==
    ASSUME NEW S, NEW n \in Nat, S \subseteq 0..n, S # {}
    PROVE  \E m \in S : \A x \in S : x <= m
  <1> DEFINE T == {n - x : x \in S}
  <1>1. T \subseteq Nat /\ T # {}
    <2>1. \A x \in S : n - x \in Nat
      OBVIOUS
    <2> QED
      BY <2>1
  <1> HIDE DEF T
  <1>2. PICK t \in T : \A x \in T : t <= x
    BY <1>1, Least
  <1>3. PICK m \in S : t = n - m
    BY <1>2 DEF T
  <1>4. \A x \in S : n - m <= n - x
    BY <1>2, <1>3 DEF T
  <1> QED
    BY <1>3, <1>4

(* Intervals that begin on the dates B and have none of them inside cover  *)
(* the year without overlap.                                               *)
Splits(P, B) ==
    /\ \A p \in P : /\ p.start \in B \cap Days /\ p.end \in Days /\ p.start <= p.end
                    /\ \A c \in p.start + 1..p.end : c \notin B
    /\ \A d \in Days : \E p \in P : d \in p.start..p.end
    /\ \A p, q \in P : \A d \in p.start..p.end : d \in q.start..q.end => p = q

(* Intervals do not overlap if no two have the same start.                 *)
LEMMA Apart ==
    ASSUME NEW P, NEW B,
           \A p \in P : /\ p.start \in B \cap Days /\ p.end \in Days /\ p.start <= p.end
                        /\ \A c \in p.start + 1..p.end : c \notin B,
           \A d \in Days : \E p \in P : d \in p.start..p.end,
           \A p, q \in P : p.start = q.start => p = q
    PROVE  Splits(P, B)
  <1> SUFFICES ASSUME NEW p \in P, NEW q \in P, NEW d \in p.start..p.end,
                      d \in q.start..q.end
               PROVE  p = q
    BY DEF Splits
  <1>1. p.start \in Int /\ q.start \in Int /\ p.end \in Int /\ q.end \in Int /\ d \in Int
    BY Dates
  <1>2. ~(p.start < q.start)
    <2> SUFFICES ASSUME p.start < q.start PROVE FALSE
      OBVIOUS
    <2>1. q.start \in p.start + 1..p.end
      BY <1>1
    <2> QED
      BY <2>1
  <1>3. ~(q.start < p.start)
    <2> SUFFICES ASSUME q.start < p.start PROVE FALSE
      OBVIOUS
    <2>1. p.start \in q.start + 1..q.end
      BY <1>1
    <2> QED
      BY <2>1
  <1> QED
    BY <1>1, <1>2, <1>3

(* The date before the next start, or the last one.                        *)
LEMMA EndExists ==
    ASSUME NEW B, NEW b \in B, B \subseteq Days
    PROVE  LET e == EndOf(b, B) IN
           /\ e \in Days /\ b <= e /\ e + 1 \in B \union {LastDate + 1}
           /\ \A d \in b + 1..e : d \notin B
  <1> DEFINE T == {c \in B \union {LastDate + 1} : c > b}
  <1>1. T \subseteq Nat /\ T # {}
    <2>1. LastDate + 1 \in T
      BY Dates
    <2>2. \A c \in B \union {LastDate + 1} : c \in Nat
      BY Dates
    <2> QED
      BY <2>1, <2>2
  <1>2. PICK m \in T : \A x \in T : m <= x
    BY <1>1, Least
  <1>3. m - 1 \in Days /\ b <= m - 1
    BY <1>2, Dates
  <1>4. (m - 1) + 1 \in B \union {LastDate + 1}
    BY <1>2, Dates
  <1>5. \A d \in b + 1..m - 1 : d \notin B
    <2> SUFFICES ASSUME NEW d \in b + 1..m - 1, d \in B PROVE FALSE
      OBVIOUS
    <2>1. d \in T
      BY Dates
    <2> QED
      BY <1>2, <2>1, Dates
  <1> HIDE DEF T
  <1> DEFINE Good(e) == /\ e >= b /\ e + 1 \in B \union {Cardinality(Days) + 1}
                        /\ \A d \in b + 1..e : d \notin B
  <1>6. Good(m - 1)
    BY <1>3, <1>4, <1>5, Dates DEF LastDate
  <1>7. EndOf(b, B) = CHOOSE e \in Days : Good(e)
    BY DEF EndOf
  <1>8. EndOf(b, B) \in Days /\ Good(EndOf(b, B))
    <2> HIDE DEF Good
    <2> QED
      BY <1>3, <1>6, <1>7
  <1> QED
    BY <1>8, Dates DEF LastDate

(* The periods of a schedule cover the year.                               *)
LEMMA PeriodsSplit ==
    ASSUME NEW a
    PROVE  /\ Splits(Periods(a), Starts(a))
           /\ Starts(a) \subseteq Days /\ 1 \in Starts(a)
           /\ \A p \in Periods(a) : p.end + 1 \in Starts(a) \union {LastDate + 1}
           /\ \A p \in Periods(a) : p.rules = a.at[p.start].rules
           /\ \A b \in Starts(a) : \E p \in Periods(a) : p.start = b
  <1> DEFINE B == Starts(a)
             P == Periods(a)
             per(b) == [start |-> b, end |-> EndOf(b, B), rules |-> a.at[b].rules]
  <1>1. B \subseteq Days /\ 1 \in B
    BY Dates DEF Starts
  <1>2. P = {per(b) : b \in B}
    BY DEF Periods
  <1>3. \A b \in B : /\ EndOf(b, B) \in Days /\ b <= EndOf(b, B)
                     /\ EndOf(b, B) + 1 \in B \union {LastDate + 1}
                     /\ \A c \in b + 1..EndOf(b, B) : c \notin B
    BY <1>1, EndExists
  <1>4. \A p \in P : /\ p.start \in B /\ p = per(p.start)
                     /\ p.end = EndOf(p.start, B) /\ p.rules = a.at[p.start].rules
    BY <1>2
  <1>5. \A b \in B : per(b) \in P /\ per(b).start = b /\ per(b).end = EndOf(b, B)
    BY <1>2
  <1> HIDE DEF B, P, per
  <1>6. \A d \in Days : \E p \in P : d \in p.start..p.end
    <2> SUFFICES ASSUME NEW d \in Days PROVE \E p \in P : d \in p.start..p.end
      OBVIOUS
    <2>1. \E m \in {b \in B : b <= d} : \A x \in {b \in B : b <= d} : x <= m
      <3>1. \A b \in B : b \in 0..LastDate
        BY <1>1, Dates
      <3>2. 1 <= d
        BY Dates
      <3>3. {b \in B : b <= d} \subseteq 0..LastDate /\ 1 \in {b \in B : b <= d}
        BY <1>1, <3>1, <3>2
      <3> QED
        BY <3>3, Dates, Greatest
    <2>2. PICK m \in B : m <= d /\ \A x \in B : x <= d => x <= m
      BY <2>1
    <2>3. d <= EndOf(m, B)
      <3> SUFFICES ASSUME EndOf(m, B) < d PROVE FALSE
        BY <1>1, <1>3, Dates
      <3>1. EndOf(m, B) + 1 \in B
        BY <1>1, <1>3, Dates
      <3> QED
        BY <1>1, <1>3, <2>2, <3>1, Dates
    <2>4. d \in m..EndOf(m, B)
      BY <1>1, <1>3, <2>2, <2>3, Dates
    <2> QED
      BY <1>5, <2>4
  <1>7. \A p, q \in P : p.start = q.start => p = q
    BY <1>4
  <1>8. \A p \in P : /\ p.start \in B \cap Days /\ p.end \in Days /\ p.start <= p.end
                     /\ \A c \in p.start + 1..p.end : c \notin B
    BY <1>1, <1>3, <1>4
  <1>9. Splits(P, B)
    BY <1>6, <1>7, <1>8, Apart
  <1>10. \A p \in P : p.end + 1 \in B \union {LastDate + 1} /\ p.rules = a.at[p.start].rules
    BY <1>3, <1>4
  <1>11. \A b \in B : \E p \in P : p.start = b
    BY <1>5
  <1> QED
    BY <1>1, <1>9, <1>10, <1>11 DEF P, B

(* Within a period the rule set object stays.                              *)
LEMMA SameObject ==
    ASSUME NEW a, NEW b \in Days, NEW d \in Days, b <= d,
           \A c \in b + 1..d : c \notin Starts(a)
    PROVE  a.at[d].id = a.at[b].id
  <1> SUFFICES ASSUME a.at[d].id # a.at[b].id PROVE FALSE
    OBVIOUS
  <1> DEFINE T == {c \in b..d : a.at[c].id # a.at[b].id}
  <1>1. d \in T
    BY Dates
  <1>2. \A c \in T : c \in Nat
    BY Dates
  <1> HIDE DEF T
  <1>3. PICK m \in T : \A x \in T : m <= x
    BY <1>1, <1>2, Least
  <1>4. m \in b..d /\ a.at[m].id # a.at[b].id
    BY <1>3 DEF T
  <1>5. m # b
    BY <1>4
  <1>6. m - 1 \in b..d /\ m \in b + 1..d /\ m \in Days /\ m # 1
    BY <1>4, <1>5, Dates
  <1>7. m - 1 \notin T
    BY <1>3, <1>6
  <1>8. a.at[m - 1].id = a.at[b].id
    BY <1>6, <1>7 DEF T
  <1>9. m \in Starts(a)
    BY <1>4, <1>6, <1>8 DEF Starts
  <1> QED
    BY <1>6, <1>9

(* One id is one rule set.                                                 *)
Identified(a) ==
    \A d, e \in Days : a.at[d].id = a.at[e].id => a.at[d].rules = a.at[e].rules

(* FindRuleSet finds the rule set of the date.                             *)
LEMMA Found ==
    ASSUME NEW a, Identified(a), NEW d \in Days
    PROVE  FindRuleSet(a, d) = a.at[d].rules
  <1> DEFINE p == CHOOSE q \in Periods(a) : d \in q.start..q.end
  <1>1. p \in Periods(a) /\ d \in p.start..p.end
    BY PeriodsSplit DEF Splits
  <1> HIDE DEF p
  <1>2. p.start \in Days /\ p.end \in Days /\ \A c \in p.start + 1..p.end : c \notin Starts(a)
    BY <1>1, PeriodsSplit DEF Splits
  <1>3. \A c \in p.start + 1..d : c \notin Starts(a)
    BY <1>1, <1>2, Dates
  <1>4. p.start <= d
    BY <1>1, <1>2, Dates
  <1>5. a.at[d].id = a.at[p.start].id
    BY <1>2, <1>3, <1>4, SameObject
  <1>6. p.rules = a.at[p.start].rules
    BY <1>1, PeriodsSplit
  <1> QED
    BY <1>2, <1>5, <1>6 DEF FindRuleSet, Identified, p

(* The periods cut at the boundaries of several schedules cover the year,  *)
(* and none of the schedules changes within one.                           *)
LEMMA UnifiedSplit ==
    ASSUME NEW A, A # {}
    PROVE  /\ Splits(Unified(A), Boundaries(A))
           /\ \A a \in A : Starts(a) \subseteq Boundaries(A)
  <1> DEFINE B == Boundaries(A)
             P == Unified(A)
             after(b) == {c \in B : c > b}
             per(b) == [start |-> b, end |-> Min(after(b)) - 1]
  <1>1. \A a \in A : \A p \in Periods(a) : p.start \in B /\ p.end + 1 \in B
    BY DEF Boundaries
  <1>2. \A a \in A : Starts(a) \subseteq B
    BY <1>1, PeriodsSplit
  <1>3. 1 \in B
    BY <1>2, PeriodsSplit
  <1>4. LastDate + 1 \in B
    <2>1. PICK a \in A : TRUE
      OBVIOUS
    <2>2. LastDate \in Days
      BY Dates
    <2>3. PICK p \in Periods(a) : LastDate \in p.start..p.end
      BY <2>2, PeriodsSplit DEF Splits
    <2>4. p.end \in Days /\ p.start \in Days
      BY PeriodsSplit DEF Splits
    <2>5. p.end = LastDate
      BY <2>3, <2>4, Dates
    <2> QED
      BY <1>1, <2>1, <2>5
  <1>5. \A c \in B : c \in 1..LastDate + 1
    <2> SUFFICES ASSUME NEW a \in A, NEW p \in Periods(a)
                 PROVE  p.start \in 1..LastDate + 1 /\ p.end + 1 \in 1..LastDate + 1
      BY DEF Boundaries
    <2>1. p.end \in Days /\ p.start \in Days
      BY PeriodsSplit DEF Splits
    <2> QED
      BY <2>1, Dates
  <1>6. P = {per(b) : b \in {c \in B : \E e \in B : e > c}}
    BY DEF Unified
  <1> HIDE DEF B, P
  <1>7. \A b \in B : b \in Days <=> \E e \in B : e > b
    BY <1>4, <1>5, Dates
  <1>8. \A b \in B \cap Days : /\ Min(after(b)) \in B /\ Min(after(b)) > b
                              /\ \A c \in B : c > b => Min(after(b)) <= c
    <2> SUFFICES ASSUME NEW b \in B, b \in Days
                 PROVE  /\ Min(after(b)) \in after(b)
                        /\ \A c \in after(b) : Min(after(b)) <= c
      OBVIOUS
    <2>0. \A c \in B : c \in Nat
      BY <1>5, Dates
    <2>1. after(b) \subseteq Nat
      BY <2>0
    <2>2. after(b) # {}
      BY <1>7
    <2> HIDE DEF after
    <2>3. \E m \in after(b) : \A x \in after(b) : m <= x
      BY <2>1, <2>2, Least
    <2> QED
      BY <2>3 DEF Min
  <1>9. \A p \in P : p.start \in B \cap Days /\ p.end = Min(after(p.start)) - 1 /\ p = per(p.start)
    <2> SUFFICES ASSUME NEW p \in P
                 PROVE  p.start \in B \cap Days /\ p.end = Min(after(p.start)) - 1 /\ p = per(p.start)
      OBVIOUS
    <2>1. PICK b \in {c \in B : \E e \in B : e > c} : p = per(b)
      BY <1>6
    <2>2. p.start = b /\ p.end = Min(after(b)) - 1
      BY <2>1
    <2>3. b \in B \cap Days
      BY <1>7
    <2> QED
      BY <2>1, <2>2, <2>3
  <1>10. \A b \in B \cap Days : per(b) \in P /\ per(b).start = b /\ per(b).end = Min(after(b)) - 1
    BY <1>6, <1>7
  <1> HIDE DEF per, after
  <1>11. \A p \in P : /\ p.end \in Days /\ p.start <= p.end
                      /\ \A c \in p.start + 1..p.end : c \notin B
    <2> SUFFICES ASSUME NEW p \in P
                 PROVE  /\ p.end \in Days /\ p.start <= p.end
                        /\ \A c \in p.start + 1..p.end : c \notin B
      OBVIOUS
    <2> DEFINE m == Min(after(p.start))
    <2>1. /\ p.start \in B /\ p.start \in Days /\ p.end = m - 1
          /\ m \in B /\ m > p.start /\ \A c \in B : c > p.start => m <= c
      BY <1>8, <1>9
    <2> HIDE DEF m
    <2>2. m \in 1..LastDate + 1
      BY <1>5, <2>1
    <2> QED
      BY <2>1, <2>2, Dates
  <1>12. \A d \in Days : \E p \in P : d \in p.start..p.end
    <2> SUFFICES ASSUME NEW d \in Days PROVE \E p \in P : d \in p.start..p.end
      OBVIOUS
    <2>1. \E m \in {b \in B : b <= d} : \A x \in {b \in B : b <= d} : x <= m
      <3>1. \A b \in B : b \in 0..LastDate + 1
        BY <1>5, Dates
      <3>2. 1 <= d /\ LastDate + 1 \in Nat
        BY Dates
      <3>3. {b \in B : b <= d} \subseteq 0..LastDate + 1 /\ 1 \in {b \in B : b <= d}
        BY <1>3, <3>1, <3>2
      <3> QED
        BY <3>2, <3>3, Greatest
    <2>2. PICK m \in B : m <= d /\ \A x \in B : x <= d => x <= m
      BY <2>1
    <2>3. m \in Days
      BY <1>5, <2>2, Dates
    <2> DEFINE n == Min(after(m))
    <2>4. n \in B /\ n > m
      BY <1>8, <2>2, <2>3
    <2>5. per(m) \in P /\ per(m).start = m /\ per(m).end = n - 1
      BY <1>10, <2>2, <2>3
    <2> HIDE DEF n
    <2>6. n \in Int /\ m \in Int /\ d \in Int
      <3>1. n \in 1..LastDate + 1
        BY <1>5, <2>4
      <3> QED
        BY <2>3, <3>1, Dates
    <2>7. ~(n <= d)
      BY <2>2, <2>4, <2>6
    <2>8. d \in m..n - 1
      BY <2>2, <2>6, <2>7
    <2> QED
      BY <2>5, <2>8
  <1>13. \A p, q \in P : p.start = q.start => p = q
    BY <1>9
  <1>14. Splits(P, B)
    BY <1>9, <1>11, <1>12, <1>13, Apart
  <1> QED
    BY <1>2, <1>14 DEF B, P

(* On every date of such a period each schedule has the rule set of its    *)
(* first date.                                                             *)
LEMMA UnifiedFinds ==
    ASSUME NEW A, NEW a \in A, Identified(a), NEW p \in Unified(A), NEW d \in p.start..p.end
    PROVE  d \in Days /\ FindRuleSet(a, p.start) = a.at[d].rules
  <1>1. /\ p.start \in Days /\ p.end \in Days /\ Starts(a) \subseteq Boundaries(A)
        /\ \A c \in p.start + 1..p.end : c \notin Boundaries(A)
    BY UnifiedSplit DEF Splits
  <1>2. d \in Days /\ p.start <= d /\ \A c \in p.start + 1..d : c \in p.start + 1..p.end
    BY <1>1, Dates
  <1>3. a.at[d].id = a.at[p.start].id
    BY <1>1, <1>2, SameObject
  <1>4. a.at[d].rules = a.at[p.start].rules
    BY <1>1, <1>2, <1>3 DEF Identified
  <1> QED
    BY <1>1, <1>2, <1>4, Found

(***************************************************************************)
(* What the operations on days and rule sets make.                         *)
(***************************************************************************)

Names == Types \union {"refused"}

(* A refusal and a missing day are no schedules of any type.               *)
LEMMA TypeNames ==
    /\ "refused" \notin Types /\ "none" \notin Types
    /\ Refused.type = "refused" /\ None.type = "none"
    /\ Refused # None
  <1>1. Refused.type = "refused" /\ None.type = "none"
    BY DEF Refused, None
  <1>2. "refused" \notin Types /\ "none" \notin Types
    BY DEF Types
  <1> QED
    BY <1>1, <1>2

(* Days and rule sets of some type.                                        *)
SomeDay == UNION {DaysOf(t) : t \in Types}
SomeRules == UNION {RulesOf(t) : t \in Types}

(* What is known of a day that the constructor let through.                *)
LEMMA DayFields ==
    ASSUME NEW x \in SomeDay
    PROVE  /\ x.type \in Types /\ x \in DaysOf(x.type) /\ x # Refused /\ x # None
           /\ x.values \in [Steps -> Int] /\ \A s \in Steps : Legal(x.type, x.values[s])
  <1>1. PICK t \in Types : x \in DaysOf(t)
    BY DEF SomeDay
  <1>2. x \in [type : {t}, values : [Steps -> Int]] /\ \A s \in Steps : Legal(t, x.values[s])
    BY <1>1 DEF DaysOf
  <1>3. x.type = t /\ x.values \in [Steps -> Int]
    BY <1>2
  <1> QED
    BY <1>1, <1>2, <1>3, TypeNames

(* A day of a type has that type.                                          *)
LEMMA DayOfType ==
    ASSUME NEW t \in Types, NEW x \in DaysOf(t)
    PROVE  x \in SomeDay /\ x.type = t
  <1>1. x \in SomeDay
    BY DEF SomeDay
  <1>2. x \in [type : {t}, values : [Steps -> Int]]
    BY DEF DaysOf
  <1> QED
    BY <1>1, <1>2

(* The constructor of days refuses illegal values and nothing else.        *)
LEMMA NewDayMade ==
    ASSUME NEW type \in Types, NEW values \in [Steps -> Int]
    PROVE  /\ NewDay(type, values) \in DaysOf(type) \union {Refused}
           /\ NewDay(type, values) # Refused =>
                 /\ NewDay(type, values) = [type |-> type, values |-> values]
                 /\ \A s \in Steps : Legal(type, values[s])
  <1>1. CASE \A s \in Steps : Legal(type, values[s])
    <2>1. NewDay(type, values) = [type |-> type, values |-> values]
      BY <1>1 DEF NewDay
    <2>2. [type |-> type, values |-> values] \in DaysOf(type)
      BY <1>1 DEF DaysOf
    <2> QED
      BY <1>1, <2>1, <2>2
  <1>2. CASE ~ \A s \in Steps : Legal(type, values[s])
    BY <1>2 DEF NewDay
  <1> QED
    BY <1>1, <1>2

(* Cardinality one of a set of types means one type.                       *)
LEMMA OneName ==
    ASSUME NEW T, T \subseteq Names, Cardinality(T) = 1
    PROVE  \E t \in Names : T = {t}
  <1>1. IsFiniteSet({}) /\ IsFiniteSet({} \union {"temperature"})
    BY FS_EmptySet, FS_AddElement
  <1>2. IsFiniteSet({"temperature"} \union {"onoff"})
    BY <1>1, FS_AddElement
  <1>3. IsFiniteSet({"temperature", "onoff"} \union {"fraction"})
    BY <1>2, FS_AddElement
  <1>4. IsFiniteSet({"temperature", "onoff", "fraction"} \union {"real"})
    BY <1>3, FS_AddElement
  <1>5. IsFiniteSet(Types \union {"refused"})
    BY <1>4, FS_AddElement DEF Types
  <1>6. IsFiniteSet(T)
    BY <1>5, FS_Subset DEF Names
  <1>7. \E t : T = {t}
    BY <1>6, FS_Singleton
  <1> QED
    BY <1>7

(* What is known of a rule set that the constructor let through.           *)
LEMMA RulesFields ==
    ASSUME NEW t \in Types, NEW r \in RulesOf(t)
    PROVE  /\ r.type = t /\ r # Refused
           /\ r.weekdays \in DaysOf(t) /\ r.weekends \in DaysOf(t)
           /\ r.days \in [Kinds -> DaysOf(t) \union {None}]
           /\ \A day \in Slots(r) : day \in DaysOf(t)
           /\ \A k \in Kinds : GetDaySchedule(r, k) \in DaysOf(t) \cap Slots(r)
           /\ Typed(r)
  <1>1. /\ r.type = t
        /\ r.weekdays \in DaysOf(t) /\ r.weekends \in DaysOf(t)
        /\ r.days \in [Kinds -> DaysOf(t) \union {None}]
    BY DEF RulesOf
  <1>2. r # Refused
    BY <1>1, TypeNames
  <1>3. \A day \in Slots(r) : day \in DaysOf(t)
    BY <1>1 DEF Slots
  <1>4. \A k \in Kinds : GetDaySchedule(r, k) \in DaysOf(t) \cap Slots(r)
    BY <1>3, DayIsSlot
  <1>5. Typed(r)
    BY <1>3, DayOfType DEF Typed
  <1> QED
    BY <1>1, <1>2, <1>3, <1>4, <1>5

(* What a rule set is made of is of its type.                              *)
LEMMA NewRulesMade ==
    ASSUME NEW w \in SomeDay \union {Refused}, NEW e \in SomeDay \union {Refused},
           NEW days \in [Kinds -> SomeDay \union {Refused, None}]
    PROVE  /\ NewRules(w, e, days) \in SomeRules \union {Refused}
           /\ NewRules(w, e, days) # Refused =>
                 /\ NewRules(w, e, days) =
                       [type |-> w.type, weekdays |-> w, weekends |-> e, days |-> days]
                 /\ NewRules(w, e, days) \in RulesOf(w.type) /\ w.type \in Types
                 /\ w # Refused /\ e # Refused
                 /\ \A k \in Kinds : days[k] \in DaysOf(w.type) \union {None}
  <1> DEFINE slots == {w, e} \union ({days[k] : k \in Kinds} \ {None})
             names == {slot.type : slot \in slots}
             new == [type |-> w.type, weekdays |-> w, weekends |-> e, days |-> days]
  <1>1. CASE ~(Cardinality(names) = 1 /\ Refused \notin slots)
    BY <1>1 DEF NewRules
  <1>2. CASE Cardinality(names) = 1 /\ Refused \notin slots
    <2>1. NewRules(w, e, days) = new
      BY <1>2 DEF NewRules
    <2>2. \A x \in slots : x \in SomeDay
      BY <1>2
    <2>3. names \subseteq Names
      BY <2>2, DayFields DEF Names
    <2>4. PICK t \in Names : names = {t}
      <3> HIDE DEF names
      <3> QED
        BY <1>2, <2>3, OneName
    <2>5. w \in slots /\ e \in slots /\ \A k \in Kinds : days[k] # None => days[k] \in slots
      OBVIOUS
    <2>6. \A x \in slots : x.type = t
      BY <2>4
    <2> HIDE DEF slots
    <2>7. t \in Types /\ w.type = t
      BY <2>2, <2>5, <2>6, DayFields
    <2>8. \A x \in slots : x \in DaysOf(t)
      BY <2>2, <2>6, DayFields
    <2>9. w \in DaysOf(t) /\ e \in DaysOf(t) /\ days \in [Kinds -> DaysOf(t) \union {None}]
      BY <2>5, <2>8
    <2>10. new \in RulesOf(t)
      BY <2>7, <2>9 DEF RulesOf
    <2>11. w # Refused /\ e # Refused
      BY <2>2, <2>5, DayFields
    <2> HIDE DEF new
    <2>12. new \in SomeRules
      BY <2>7, <2>10 DEF SomeRules
    <2> QED
      BY <2>1, <2>7, <2>9, <2>10, <2>11, <2>12 DEF new
  <1> QED
    BY <1>1, <1>2

(* A rule set has a type of schedule and is no refusal.                    *)
LEMMA SomeRulesFields ==
    ASSUME NEW r \in SomeRules
    PROVE  r.type \in Types /\ r \in RulesOf(r.type) /\ r # Refused
  <1>1. PICK t \in Types : r \in RulesOf(t)
    BY DEF SomeRules
  <1> QED
    BY <1>1, RulesFields

(* Slot by slot, a rule set becomes what is made of each of its days.      *)
LEMMA MapRulesMade ==
    ASSUME NEW r \in SomeRules, NEW made,
           \A day \in Slots(r) : made[day] \in SomeDay \union {Refused}
    PROVE  /\ MapRules(r, made) \in SomeRules \union {Refused}
           /\ MapRules(r, made) # Refused =>
                 \A k \in Kinds :
                    /\ GetDaySchedule(MapRules(r, made), k) = made[GetDaySchedule(r, k)]
                    /\ made[GetDaySchedule(r, k)] \in DaysOf(MapRules(r, made).type)
  <1> DEFINE days == [k \in Kinds |-> IF r.days[k] = None THEN None ELSE made[r.days[k]]]
             new == MapRules(r, made)
  <1>1. r \in RulesOf(r.type) /\ r.type \in Types
    BY SomeRulesFields
  <1>2. /\ r.weekdays \in Slots(r) /\ r.weekends \in Slots(r)
        /\ \A k \in Kinds : r.days[k] # None => r.days[k] \in Slots(r)
    BY DEF Slots
  <1>3. days \in [Kinds -> SomeDay \union {Refused, None}]
    BY <1>2
  <1>4. new = NewRules(made[r.weekdays], made[r.weekends], days)
    BY DEF MapRules
  <1>5. /\ new \in SomeRules \union {Refused}
        /\ new # Refused =>
              /\ new.type = made[r.weekdays].type /\ new.type \in Types
              /\ new.weekdays = made[r.weekdays] /\ new.weekends = made[r.weekends]
              /\ new.days = days /\ new \in RulesOf(new.type)
    <2> HIDE DEF days, new
    <2>1. /\ new \in SomeRules \union {Refused}
          /\ new # Refused =>
                /\ new = [type |-> made[r.weekdays].type, weekdays |-> made[r.weekdays],
                          weekends |-> made[r.weekends], days |-> days]
                /\ new \in RulesOf(made[r.weekdays].type) /\ made[r.weekdays].type \in Types
      BY <1>2, <1>3, <1>4, NewRulesMade
    <2> QED
      BY <2>1
  <1>6. ASSUME new # Refused, NEW k \in Kinds
        PROVE  /\ GetDaySchedule(new, k) = made[GetDaySchedule(r, k)]
               /\ GetDaySchedule(new, k) \in DaysOf(new.type)
    <2>1. GetDaySchedule(new, k) \in DaysOf(new.type)
      BY <1>5, <1>6, RulesFields
    <2>2. CASE r.days[k] = None
      <3>1. new.days[k] = None
        BY <1>5, <1>6, <2>2
      <3> HIDE DEF new
      <3> QED
        BY <1>5, <1>6, <2>1, <2>2, <3>1 DEF GetDaySchedule, Default
    <2>3. CASE r.days[k] # None
      <3>1. new.days[k] = made[r.days[k]]
        BY <1>5, <1>6, <2>3
      <3>2. made[r.days[k]] # None
        <4>1. made[r.days[k]] \in SomeDay \union {Refused}
          BY <1>2, <2>3
        <4> QED
          BY <4>1, DayFields, TypeNames
      <3> HIDE DEF new
      <3> QED
        BY <2>1, <2>3, <3>1, <3>2 DEF GetDaySchedule
    <2> QED
      BY <2>1, <2>2, <2>3
  <1> QED
    BY <1>5, <1>6

(* An operation on two days makes a day or is refused.                     *)
LEMMA ValueTyped ==
    ASSUME NEW op \in ZipOps \union ScalarOps, NEW x \in Int, NEW y \in Int,
           Computable(op, x, y)
    PROVE  Value(op, x, y) \in Int
  <1>1. \A a, b : Divides(a, b) => Quotient(a, b) \in -200..200
    BY Zenon DEF Divides, Quotient
  <1>2. op = "DIV" => Quotient(x, y) \in Int
    BY <1>1 DEF Computable
  <1>3. op = "RDIV" => Quotient(y, x) \in Int
    BY <1>1 DEF Computable
  <1>4. op \in {"MUL", "ADD", "SUB", "RSUB", "DIV", "RDIV", "MIN", "MAX", "AND", "OR",
                "EQ", "NE", "LT", "LE", "GT", "GE"}
    BY DEF ZipOps, ScalarOps, Comparisons
  <1>5. CASE op \in {"AND", "OR", "EQ", "NE", "LT", "LE", "GT", "GE"}
    BY <1>5 DEF Value, Bit
  <1>6. CASE op \in {"MUL", "ADD", "SUB", "RSUB", "MIN", "MAX"}
    BY <1>6 DEF Value
  <1>7. CASE op \in {"DIV", "RDIV"}
    BY <1>2, <1>3, <1>7 DEF Value
  <1> QED
    BY <1>4, <1>5, <1>6, <1>7

(* What an operation on two days makes, and when it is refused.            *)
LEMMA ZipMade ==
    ASSUME NEW op \in ZipOps, NEW l \in SomeDay, NEW r \in SomeDay
    PROVE  /\ ZipDays(op, l, r) \in SomeDay \union {Refused}
           /\ ZipDays(op, l, r) # Refused =>
                 /\ ZipDefined(op, l.type, r.type)
                 /\ ZipDays(op, l, r).type = ZipType(op, l.type, r.type)
                 /\ \A s \in Steps :
                       /\ Computable(op, l.values[s], r.values[s])
                       /\ Legal(ZipType(op, l.type, r.type), Value(op, l.values[s], r.values[s]))
                 /\ ZipDays(op, l, r).values = [s \in Steps |-> Value(op, l.values[s], r.values[s])]
  <1> DEFINE t == ZipType(op, l.type, r.type)
             v == [s \in Steps |-> Value(op, l.values[s], r.values[s])]
             can == /\ ZipDefined(op, l.type, r.type)
                    /\ \A s \in Steps : Computable(op, l.values[s], r.values[s])
  <1>1. t \in Types
    BY DayFields, ResultTyped
  <1>2. CASE ~can
    BY <1>2 DEF ZipDays
  <1>3. CASE can
    <2>1. ZipDays(op, l, r) = NewDay(t, v)
      BY <1>3 DEF ZipDays
    <2>2. v \in [Steps -> Int]
      <3> SUFFICES ASSUME NEW s \in Steps PROVE Value(op, l.values[s], r.values[s]) \in Int
        OBVIOUS
      <3>1. l.values[s] \in Int /\ r.values[s] \in Int
        BY DayFields
      <3> QED
        BY <1>3, <3>1, ValueTyped
    <2>3. \A s \in Steps : v[s] = Value(op, l.values[s], r.values[s])
      OBVIOUS
    <2> HIDE DEF t, v
    <2>4. /\ NewDay(t, v) \in SomeDay \union {Refused}
          /\ NewDay(t, v) # Refused => /\ NewDay(t, v) = [type |-> t, values |-> v]
                                       /\ \A s \in Steps : Legal(t, v[s])
      BY <1>1, <2>2, NewDayMade, DayOfType
    <2>5. NewDay(t, v) # Refused => NewDay(t, v).type = t /\ NewDay(t, v).values = v
      BY <2>4
    <2> QED
      BY <1>3, <2>1, <2>3, <2>4, <2>5 DEF t, v
  <1> QED
    BY <1>2, <1>3

(* An operation on two rule sets.                                          *)
LEMMA RulesWithMade ==
    ASSUME NEW op \in ZipOps, NEW l \in SomeRules, NEW r \in SomeRules
    PROVE  /\ RulesWith(op, l, r) \in SomeRules \union {Refused}
           /\ RulesWith(op, l, r) # Refused =>
                 \A k \in Kinds :
                    LET x == GetDaySchedule(l, k)
                        y == GetDaySchedule(r, k)
                    IN  /\ GetDaySchedule(RulesWith(op, l, r), k) = ZipDays(op, x, y)
                        /\ x \in DaysOf(l.type) /\ y \in DaysOf(r.type)
                        /\ ZipDays(op, x, y) \in DaysOf(RulesWith(op, l, r).type)
  <1> DEFINE made == [x \in Slots(l) |-> [y \in Slots(r) |-> ZipDays(op, x, y)]]
             days == [k \in Kinds |-> IF l.days[k] = None /\ r.days[k] = None
                              THEN None
                              ELSE made[GetDaySchedule(l, k)][GetDaySchedule(r, k)]]
             new == RulesWith(op, l, r)
  <1>1. /\ l \in RulesOf(l.type) /\ l.type \in Types
        /\ r \in RulesOf(r.type) /\ r.type \in Types
    BY SomeRulesFields
  <1>2. /\ \A x \in Slots(l) : x \in SomeDay
        /\ \A y \in Slots(r) : y \in SomeDay
        /\ Typed(l) /\ Typed(r)
    BY <1>1, RulesFields, DayOfType
  <1>3. \A x \in Slots(l), y \in Slots(r) :
           made[x][y] = ZipDays(op, x, y) /\ made[x][y] \in SomeDay \union {Refused}
    BY <1>2, ZipMade
  <1>4. l.weekdays \in Slots(l) /\ l.weekends \in Slots(l)
        /\ r.weekdays \in Slots(r) /\ r.weekends \in Slots(r)
    BY DEF Slots
  <1>5. \A k \in Kinds : /\ GetDaySchedule(l, k) \in Slots(l) /\ GetDaySchedule(r, k) \in Slots(r)
                         /\ GetDaySchedule(l, k) \in DaysOf(l.type)
                         /\ GetDaySchedule(r, k) \in DaysOf(r.type)
    BY <1>1, RulesFields
  <1>6. new = NewRules(made[l.weekdays][r.weekdays], made[l.weekends][r.weekends], days)
    BY DEF RulesWith, CombineRules
  <1> HIDE DEF made
  <1>7. days \in [Kinds -> SomeDay \union {Refused, None}]
    BY <1>3, <1>5
  <1> HIDE DEF days, new
  <1>8. /\ new \in SomeRules \union {Refused}
        /\ new # Refused => new \in RulesOf(made[l.weekdays][r.weekdays].type)
                              /\ made[l.weekdays][r.weekdays].type \in Types
    BY <1>3, <1>4, <1>6, <1>7, NewRulesMade
  <1>9. new # Refused => \A k \in Kinds : GetDaySchedule(new, k) \in DaysOf(new.type)
    BY <1>8, RulesFields
  <1>10. new # Refused => \A k \in Kinds :
            GetDaySchedule(new, k) = ZipDays(op, GetDaySchedule(l, k), GetDaySchedule(r, k))
    BY <1>2, CombinesEveryKind DEF new
  <1> QED
    BY <1>5, <1>8, <1>9, <1>10 DEF new

(* Where one schedule chooses between two others.                          *)
LEMMA WhereDayMade ==
    ASSUME NEW c \in SomeDay, NEW y \in SomeDay, NEW n \in SomeDay
    PROVE  /\ WhereDay(c, y, n) \in SomeDay \union {Refused}
           /\ WhereDay(c, y, n) # Refused =>
                 c.type = "onoff" /\ y.type = n.type /\ WhereDay(c, y, n).type = y.type
           /\ WhereDay(c, y, n) # Refused =>
                 LET v == [s \in Steps |-> IF c.values[s] = 1 THEN y.values[s] ELSE n.values[s]]
                 IN  WhereDay(c, y, n).values = v /\ \A s \in Steps : Legal(y.type, v[s])
  <1> DEFINE v == [s \in Steps |-> IF c.values[s] = 1 THEN y.values[s] ELSE n.values[s]]
  <1>1. v \in [Steps -> Int] /\ y.type \in Types
    BY DayFields
  <1> HIDE DEF v
  <1>2. /\ NewDay(y.type, v) \in SomeDay \union {Refused}
        /\ NewDay(y.type, v) # Refused => /\ NewDay(y.type, v) = [type |-> y.type, values |-> v]
                                          /\ \A s \in Steps : Legal(y.type, v[s])
    BY <1>1, NewDayMade, DayOfType
  <1>3. NewDay(y.type, v) # Refused => NewDay(y.type, v).type = y.type /\ NewDay(y.type, v).values = v
    BY <1>2
  <1>4. CASE c.type = "onoff" /\ y.type = n.type
    <2>1. WhereDay(c, y, n) = NewDay(y.type, v)
      BY <1>4 DEF WhereDay, v
    <2> QED
      BY <1>2, <1>3, <1>4, <2>1 DEF v
  <1>5. CASE ~(c.type = "onoff" /\ y.type = n.type)
    BY <1>5 DEF WhereDay
  <1> QED
    BY <1>4, <1>5

(* A selection has the type of what it selects from.                       *)
LEMMA WhereType ==
    ASSUME NEW c, NEW y, NEW n, WhereDay(c, y, n) # Refused
    PROVE  WhereDay(c, y, n).type = y.type
  BY DEF WhereDay, NewDay

(* What a selection on rule sets makes of every kind of day.               *)
LEMMA WhereRulesMade ==
    ASSUME NEW c \in SomeRules, NEW y \in SomeRules, NEW n \in SomeRules
    PROVE  /\ WhereRules(c, y, n) \in SomeRules \union {Refused}
           /\ WhereRules(c, y, n) # Refused =>
                 /\ c.type = "onoff" /\ y.type = n.type /\ WhereRules(c, y, n).type = y.type
                 /\ \A k \in Kinds :
                       LET x == WhereDay(GetDaySchedule(c, k), GetDaySchedule(y, k),
                                         GetDaySchedule(n, k))
                       IN  /\ GetDaySchedule(WhereRules(c, y, n), k) = x
                           /\ x \in DaysOf(y.type)
  <1> DEFINE at(k) == WhereDay(GetDaySchedule(c, k), GetDaySchedule(y, k), GetDaySchedule(n, k))
             days == [k \in Kinds |-> IF {c.days[k], y.days[k], n.days[k]} # {None}
                                      THEN at(k) ELSE None]
             w == WhereDay(c.weekdays, y.weekdays, n.weekdays)
             e == WhereDay(c.weekends, y.weekends, n.weekends)
             new == WhereRules(c, y, n)
  <1>1. /\ c \in RulesOf(c.type) /\ c.type \in Types
        /\ y \in RulesOf(y.type) /\ y.type \in Types
        /\ n \in RulesOf(n.type) /\ n.type \in Types
    BY SomeRulesFields
  <1>2. \A k \in Kinds : /\ GetDaySchedule(c, k) \in SomeDay
                         /\ GetDaySchedule(y, k) \in SomeDay
                         /\ GetDaySchedule(n, k) \in SomeDay
    BY <1>1, RulesFields, DayOfType
  <1>3. \A k \in Kinds : at(k) \in SomeDay \union {Refused}
    BY <1>2, WhereDayMade
  <1>4. days \in [Kinds -> SomeDay \union {Refused, None}]
    BY <1>3
  <1>5. /\ c.weekdays \in SomeDay /\ y.weekdays \in SomeDay /\ n.weekdays \in SomeDay
        /\ c.weekends \in SomeDay /\ y.weekends \in SomeDay /\ n.weekends \in SomeDay
        /\ y.weekdays.type = y.type
    BY <1>1, RulesFields, DayOfType
  <1>6. w \in SomeDay \union {Refused} /\ e \in SomeDay \union {Refused}
        /\ (w # Refused => w.type = y.type)
    <2>1. e \in SomeDay \union {Refused}
      BY <1>5, WhereDayMade
    <2>2. w \in SomeDay \union {Refused}
      BY <1>5, WhereDayMade
    <2>3. w # Refused => w.type = y.weekdays.type
      BY WhereType
    <2> QED
      BY <1>5, <2>1, <2>2, <2>3
  <1>7. CASE ~(c.type = "onoff" /\ y.type = n.type)
    BY <1>7 DEF WhereRules
  <1>8. CASE c.type = "onoff" /\ y.type = n.type
    <2>1. new = NewRules(w, e, days)
      BY <1>8 DEF WhereRules
    <2>2. \A k \in Kinds : days[k] = IF {c.days[k], y.days[k], n.days[k]} # {None}
                                    THEN at(k) ELSE None
      OBVIOUS
    <2> HIDE DEF w, e, days, new, at
    <2>3. /\ new \in SomeRules \union {Refused}
          /\ new # Refused =>
                /\ new = [type |-> w.type, weekdays |-> w, weekends |-> e, days |-> days]
                /\ new \in RulesOf(w.type) /\ w.type \in Types /\ w # Refused
      BY <1>4, <1>6, <2>1, NewRulesMade
    <2>4. ASSUME new # Refused, NEW k \in Kinds
          PROVE  GetDaySchedule(new, k) = at(k)
      <3>1. new.days = days /\ new.weekdays = w /\ new.weekends = e
        BY <2>3, <2>4
      <3>2. CASE {c.days[k], y.days[k], n.days[k]} # {None}
        <4>1. new.days[k] = at(k)
          BY <2>2, <3>1, <3>2
        <4>2. at(k) # None
          BY <1>3, DayFields, TypeNames
        <4> QED
          BY <4>1, <4>2 DEF GetDaySchedule
      <3>3. CASE {c.days[k], y.days[k], n.days[k]} = {None}
        <4>1. new.days[k] = None
          BY <2>2, <3>1, <3>3
        <4>2. c.days[k] = None /\ y.days[k] = None /\ n.days[k] = None
          BY <3>3
        <4>3. /\ GetDaySchedule(c, k) = Default(c, k) /\ GetDaySchedule(y, k) = Default(y, k)
              /\ GetDaySchedule(n, k) = Default(n, k) /\ GetDaySchedule(new, k) = Default(new, k)
          BY <4>1, <4>2 DEF GetDaySchedule
        <4> QED
          BY <3>1, <4>3 DEF Default, at, w, e
      <3> QED
        BY <3>2, <3>3
    <2>5. ASSUME new # Refused, NEW k \in Kinds
          PROVE  GetDaySchedule(new, k) \in DaysOf(y.type)
      <3>1. w.type = y.type
        BY <1>6, <2>3, <2>5
      <3> QED
        BY <1>1, <2>3, <2>5, <3>1, RulesFields
    <2>6. new # Refused => new.type = y.type
      BY <1>1, <1>6, <2>3, RulesFields
    <2> QED
      BY <1>8, <2>3, <2>4, <2>5, <2>6 DEF new, at
  <1> QED
    BY <1>7, <1>8

(***************************************************************************)
(* What the operations on annual schedules make.                           *)
(***************************************************************************)

(* A schedule whose rule sets come from operations.                        *)
Made(a) == IsAnnual(a) /\ Identified(a) /\ \A d \in Days : a.at[d].id \in Days

(* A schedule from periods has on each date what its period has.           *)
LEMMA FromPeriodsMade ==
    ASSUME NEW P, NEW B, Splits(P, B), NEW made,
           \A p \in P : made[p] \in SomeRules \union {Refused},
           FromPeriods(P, made) # Refused
    PROVE  /\ Made(FromPeriods(P, made))
           /\ \A p \in P : \A d \in p.start..p.end :
                 /\ FromPeriods(P, made).at[d].rules = made[p]
                 /\ made[p] # Refused /\ made[p].type = FromPeriods(P, made).type
  <1> DEFINE R == FromPeriods(P, made)
             one == CHOOSE p \in P : TRUE
             per(d) == CHOOSE q \in P : d \in q.start..q.end
             names == {made[p].type : p \in P}
  <1>1. /\ \A p \in P : made[p] # Refused
        /\ Cardinality(names) = 1
        /\ R = [type |-> made[one].type,
                at |-> [d \in Days |-> [id |-> per(d).start, rules |-> made[per(d)]]]]
    BY DEF FromPeriods
  <1>2. \A p \in P : made[p] \in SomeRules
    BY <1>1
  <1>3. \E t \in Names : names = {t}
    <2>1. names \subseteq Names
      BY <1>2, SomeRulesFields DEF Names
    <2> HIDE DEF names
    <2> QED
      BY <1>1, <2>1, OneName
  <1>4. PICK t \in Names : \A p \in P : made[p].type = t
    BY <1>3
  <1>5. \A d \in Days : per(d) \in P /\ d \in per(d).start..per(d).end
    BY DEF Splits
  <1>6. \A p \in P : \A d \in p.start..p.end : d \in Days /\ per(d) = p
    <2> SUFFICES ASSUME NEW p \in P, NEW d \in p.start..p.end
                 PROVE  d \in Days /\ per(d) = p
      OBVIOUS
    <2>1. p.start \in Days /\ p.end \in Days
      BY DEF Splits
    <2>2. d \in Days
      BY <2>1, Dates
    <2>3. per(d) \in P /\ d \in per(d).start..per(d).end
      BY <1>5, <2>2
    <2> HIDE DEF per
    <2> QED
      BY <2>2, <2>3 DEF Splits
  <1> HIDE DEF R, per, names
  <1>7. 1 \in Days
    BY Dates
  <1>8. one \in P
    BY <1>5, <1>7
  <1> HIDE DEF one
  <1>9. /\ R.type = t /\ R = [type |-> R.type, at |-> R.at]
        /\ \A d \in Days : R.at[d] = [id |-> per(d).start, rules |-> made[per(d)]]
    BY <1>1, <1>4, <1>8
  <1>10. \A d \in Days : R.at[d].id = per(d).start /\ R.at[d].rules = made[per(d)]
    <2> TAKE d \in Days
    <2>1. R.at[d] = [id |-> per(d).start, rules |-> made[per(d)]]
      BY <1>9
    <2> QED
      BY <2>1
  <1>11. t \in Types
    BY <1>2, <1>4, <1>8, SomeRulesFields
  <1>12. IsAnnual(R)
    <2>1. \A d \in Days : R.at[d].rules \in RulesOf(t)
      BY <1>2, <1>4, <1>5, <1>10, SomeRulesFields
    <2> QED
      BY <1>9, <1>11, <2>1 DEF IsAnnual
  <1>13. Identified(R)
    <2> SUFFICES ASSUME NEW d \in Days, NEW e \in Days, R.at[d].id = R.at[e].id
                 PROVE  R.at[d].rules = R.at[e].rules
      BY DEF Identified
    <2>1. per(d) \in P /\ per(e) \in P /\ per(d).start = per(e).start
      BY <1>5, <1>10
    <2>2. per(d).start \in per(d).start..per(d).end /\ per(e).start \in per(e).start..per(e).end
      BY <2>1, Dates DEF Splits
    <2>3. per(d) = per(e)
      BY <1>6, <2>1, <2>2
    <2> QED
      BY <1>10, <2>3
  <1>14. \A d \in Days : R.at[d].id \in Days
    BY <1>5, <1>10 DEF Splits
  <1>15. \A p \in P : \A d \in p.start..p.end :
            R.at[d].rules = made[p] /\ made[p] # Refused /\ made[p].type = R.type
    BY <1>1, <1>4, <1>6, <1>9, <1>10
  <1> QED
    BY <1>12, <1>13, <1>14, <1>15 DEF R, Made

(* The rule set of a date has the type of the schedule.                    *)
LEMMA AnnualRules ==
    ASSUME NEW a, IsAnnual(a), NEW d \in Days
    PROVE  a.at[d].rules \in SomeRules /\ a.at[d].rules.type = a.type /\ a.type \in Types
           /\ a.at[d].rules \in RulesOf(a.type)
  BY RulesFields DEF IsAnnual, SomeRules

(* Two schedules are combined date by date.                                *)
LEMMA CombineMade ==
    ASSUME NEW op \in ZipOps, NEW l, NEW r, IsAnnual(l), IsAnnual(r),
           Identified(l), Identified(r), Combine(l, r, op) # Refused
    PROVE  /\ Made(Combine(l, r, op))
           /\ \A d \in Days :
                 /\ Combine(l, r, op).at[d].rules = RulesWith(op, l.at[d].rules, r.at[d].rules)
                 /\ RulesWith(op, l.at[d].rules, r.at[d].rules) # Refused
  <1> DEFINE P == Unified({l, r})
             made == [p \in P |-> RulesWith(op, FindRuleSet(l, p.start), FindRuleSet(r, p.start))]
             R == Combine(l, r, op)
  <1>1. R = FromPeriods(P, made)
    BY DEF Combine
  <1>2. Splits(P, Boundaries({l, r}))
    BY UnifiedSplit
  <1>3. \A p \in P : \A d \in p.start..p.end :
           /\ d \in Days /\ FindRuleSet(l, p.start) = l.at[d].rules
           /\ FindRuleSet(r, p.start) = r.at[d].rules
    BY UnifiedFinds
  <1>4. \A p \in P : \A d \in p.start..p.end :
           made[p] = RulesWith(op, l.at[d].rules, r.at[d].rules)
    BY <1>3
  <1>5. \A p \in P : p.start \in p.start..p.end
    BY <1>2, Dates DEF Splits
  <1> HIDE DEF P, made, R
  <1>6. \A p \in P : made[p] \in SomeRules \union {Refused}
    BY <1>3, <1>4, <1>5, AnnualRules, RulesWithMade
  <1>7. /\ Made(R)
        /\ \A p \in P : \A d \in p.start..p.end : R.at[d].rules = made[p] /\ made[p] # Refused
    BY <1>1, <1>2, <1>6, FromPeriodsMade DEF R
  <1>8. \A d \in Days : /\ R.at[d].rules = RulesWith(op, l.at[d].rules, r.at[d].rules)
                        /\ RulesWith(op, l.at[d].rules, r.at[d].rules) # Refused
    <2> SUFFICES ASSUME NEW d \in Days
                 PROVE  /\ R.at[d].rules = RulesWith(op, l.at[d].rules, r.at[d].rules)
                        /\ RulesWith(op, l.at[d].rules, r.at[d].rules) # Refused
      OBVIOUS
    <2>1. PICK p \in P : d \in p.start..p.end
      BY <1>2 DEF Splits
    <2> QED
      BY <1>4, <1>7, <2>1
  <1> QED
    BY <1>7, <1>8 DEF R

(* One schedule chooses between two others date by date.                   *)
LEMMA WhereMade ==
    ASSUME NEW c, NEW y, NEW n, IsAnnual(c), IsAnnual(y), IsAnnual(n),
           Identified(c), Identified(y), Identified(n), Where(c, y, n) # Refused
    PROVE  /\ Made(Where(c, y, n))
           /\ \A d \in Days :
                 /\ Where(c, y, n).at[d].rules
                    = WhereRules(c.at[d].rules, y.at[d].rules, n.at[d].rules)
                 /\ WhereRules(c.at[d].rules, y.at[d].rules, n.at[d].rules) # Refused
  <1> DEFINE P == Unified({c, y, n})
             made == [p \in P |-> WhereRules(FindRuleSet(c, p.start), FindRuleSet(y, p.start),
                                             FindRuleSet(n, p.start))]
             R == Where(c, y, n)
             at(d) == WhereRules(c.at[d].rules, y.at[d].rules, n.at[d].rules)
  <1>1. R = FromPeriods(P, made)
    BY DEF Where
  <1>2. Splits(P, Boundaries({c, y, n}))
    BY UnifiedSplit
  <1>3. \A p \in P : \A d \in p.start..p.end :
           /\ d \in Days /\ FindRuleSet(c, p.start) = c.at[d].rules
           /\ FindRuleSet(y, p.start) = y.at[d].rules
           /\ FindRuleSet(n, p.start) = n.at[d].rules
    BY UnifiedFinds
  <1>4. \A p \in P : \A d \in p.start..p.end : made[p] = at(d)
    BY <1>3
  <1>5. \A p \in P : p.start \in p.start..p.end
    BY <1>2, Dates DEF Splits
  <1>6. \A d \in Days : at(d) \in SomeRules \union {Refused}
    BY AnnualRules, WhereRulesMade
  <1> HIDE DEF P, made, R, at
  <1>7. \A p \in P : made[p] \in SomeRules \union {Refused}
    BY <1>3, <1>4, <1>5, <1>6
  <1>8. /\ Made(R)
        /\ \A p \in P : \A d \in p.start..p.end : R.at[d].rules = made[p] /\ made[p] # Refused
    BY <1>1, <1>2, <1>7, FromPeriodsMade DEF R
  <1>9. \A d \in Days : R.at[d].rules = at(d) /\ at(d) # Refused
    <2> SUFFICES ASSUME NEW d \in Days PROVE R.at[d].rules = at(d) /\ at(d) # Refused
      OBVIOUS
    <2>1. PICK p \in P : d \in p.start..p.end
      BY <1>2 DEF Splits
    <2> QED
      BY <1>4, <1>8, <2>1
  <1> QED
    BY <1>8, <1>9 DEF R, at

(* The rule set of a period is that of each of its dates.                  *)
LEMMA PeriodRules ==
    ASSUME NEW a, Identified(a), NEW p \in Periods(a), NEW d \in p.start..p.end
    PROVE  d \in Days /\ p.rules = a.at[d].rules
  <1>1. /\ p.start \in Days /\ p.end \in Days /\ p.rules = a.at[p.start].rules
        /\ \A c \in p.start + 1..p.end : c \notin Starts(a)
    BY PeriodsSplit DEF Splits
  <1>2. d \in Days /\ p.start <= d /\ \A c \in p.start + 1..d : c \in p.start + 1..p.end
    BY <1>1, Dates
  <1>3. a.at[d].id = a.at[p.start].id
    BY <1>1, <1>2, SameObject
  <1> QED
    BY <1>1, <1>2, <1>3 DEF Identified

(* A schedule is mapped date by date.                                      *)
LEMMA MapCompactMade ==
    ASSUME NEW a, IsAnnual(a), Identified(a), NEW made,
           \A d \in Days : made[a.at[d].rules] \in SomeRules \union {Refused},
           MapCompact(a, made) # Refused
    PROVE  /\ Made(MapCompact(a, made))
           /\ \A d \in Days : /\ MapCompact(a, made).at[d].rules = made[a.at[d].rules]
                              /\ made[a.at[d].rules] # Refused
  <1> DEFINE P == Periods(a)
             new == [p \in P |-> made[p.rules]]
             R == MapCompact(a, made)
  <1>1. R = FromPeriods(P, new)
    BY DEF MapCompact
  <1>2. Splits(P, Starts(a))
    BY PeriodsSplit
  <1>3. \A p \in P : \A d \in p.start..p.end : d \in Days /\ new[p] = made[a.at[d].rules]
    BY PeriodRules
  <1>4. \A p \in P : p.start \in p.start..p.end
    BY <1>2, Dates DEF Splits
  <1> HIDE DEF P, new, R
  <1>5. \A p \in P : new[p] \in SomeRules \union {Refused}
    BY <1>3, <1>4
  <1>6. /\ Made(R)
        /\ \A p \in P : \A d \in p.start..p.end : R.at[d].rules = new[p] /\ new[p] # Refused
    BY <1>1, <1>2, <1>5, FromPeriodsMade DEF R
  <1>7. \A d \in Days : R.at[d].rules = made[a.at[d].rules] /\ made[a.at[d].rules] # Refused
    <2> SUFFICES ASSUME NEW d \in Days
                 PROVE  R.at[d].rules = made[a.at[d].rules] /\ made[a.at[d].rules] # Refused
      OBVIOUS
    <2>1. PICK p \in P : d \in p.start..p.end
      BY <1>2 DEF Splits
    <2> QED
      BY <1>3, <1>6, <2>1
  <1> QED
    BY <1>6, <1>7 DEF R

(***************************************************************************)
(* Operations day by day, and the steps of the abstract year.              *)
(***************************************************************************)

(* The day a schedule has for a kind of day on a date.                     *)
DayAt(a, d, k) == GetDaySchedule(a.at[d].rules, k)

(* The day of a date is legal, and is what the year stands for.            *)
LEMMA DayAtMade ==
    ASSUME NEW a, IsAnnual(a), NEW d \in Days, NEW k \in Kinds
    PROVE  /\ DayAt(a, d, k) \in DaysOf(a.type) /\ DayAt(a, d, k) \in SomeDay
           /\ DayAt(a, d, k).type = a.type /\ DayAt(a, d, k) \in Slots(a.at[d].rules)
           /\ Meaning(a).at[d][k] = DayAt(a, d, k).values
  BY AnnualRules, RulesFields, DayOfType DEF DayAt, Meaning

(* Two schedules are combined day by day, over any periods of either.      *)
LEMMA CombinePointwise ==
    ASSUME NEW op \in ZipOps, NEW l, NEW r, IsAnnual(l), IsAnnual(r),
           Identified(l), Identified(r), Combine(l, r, op) # Refused
    PROVE  /\ Made(Combine(l, r, op))
           /\ \A d \in Days, k \in Kinds :
                 /\ DayAt(Combine(l, r, op), d, k) = ZipDays(op, DayAt(l, d, k), DayAt(r, d, k))
                 /\ ZipDays(op, DayAt(l, d, k), DayAt(r, d, k)) \in DaysOf(Combine(l, r, op).type)
  <1> DEFINE R == Combine(l, r, op)
  <1>1. /\ Made(R)
        /\ \A d \in Days : /\ R.at[d].rules = RulesWith(op, l.at[d].rules, r.at[d].rules)
                           /\ RulesWith(op, l.at[d].rules, r.at[d].rules) # Refused
    BY CombineMade
  <1>2. IsAnnual(R)
    BY <1>1 DEF Made
  <1> HIDE DEF R
  <1>3. ASSUME NEW d \in Days, NEW k \in Kinds
        PROVE  /\ DayAt(R, d, k) = ZipDays(op, DayAt(l, d, k), DayAt(r, d, k))
               /\ ZipDays(op, DayAt(l, d, k), DayAt(r, d, k)) \in DaysOf(R.type)
    <2>1. l.at[d].rules \in SomeRules /\ r.at[d].rules \in SomeRules
      BY AnnualRules
    <2>2. DayAt(R, d, k) = ZipDays(op, DayAt(l, d, k), DayAt(r, d, k))
      BY <1>1, <2>1, RulesWithMade DEF DayAt
    <2>3. DayAt(R, d, k) \in DaysOf(R.type)
      BY <1>2, DayAtMade
    <2> QED
      BY <2>2, <2>3
  <1> QED
    BY <1>1, <1>3 DEF R

(* There is a date, a step and a kind of day.                              *)
LEMMA SomePoint == 1 \in Days /\ 1 \in Steps /\ "holiday" \in Kinds
  BY ScheduleAssumption DEF Kinds

(* The abstract specification has its own copies of the operators on types *)
(* and values.                                                             *)
LEMMA SameLegal == \A t, v : Year!Legal(t, v) <=> Legal(t, v)
  BY DEF Year!Legal, Legal

(* The abstract year uses the type rules of two schedules, ...             *)
LEMMA SameZip ==
    \A op, l, r : /\ Year!ZipDefined(op, l, r) <=> ZipDefined(op, l, r)
                  /\ Year!ZipType(op, l, r) = ZipType(op, l, r)
  BY DEF Year!ZipDefined, ZipDefined, Year!ZipType, ZipType, Year!Strongest, Strongest,
         Year!Comparisons, Comparisons

(* ... the type rules of a schedule and a number, ...                      *)
LEMMA SameScalar ==
    \A op, t : /\ Year!ScalarDefined(op, t) <=> ScalarDefined(op, t)
               /\ Year!ScalarType(op, t) = ScalarType(op, t)
  BY DEF Year!ScalarDefined, ScalarDefined, Year!ScalarType, ScalarType,
         Year!Comparisons, Comparisons

(* ... the quotient, ...                                                   *)
LEMMA SameQuotient ==
    \A x, y : (Year!Divides(x, y) <=> Divides(x, y)) /\ Year!Quotient(x, y) = Quotient(x, y)
  BY DEF Year!Divides, Divides, Year!Quotient, Quotient

(* ... the values ...                                                      *)
LEMMA SameValue ==
    \A op, x, y : /\ Year!Computable(op, x, y) <=> Computable(op, x, y)
                  /\ Year!Value(op, x, y) = Value(op, x, y)
  BY SameQuotient DEF Year!Computable, Computable, Year!Value, Value, Year!Bit, Bit

(* ... and the operations of the schedules.                                *)
LEMMA SameNames ==
    Year!ZipOps = ZipOps /\ Year!ScalarOps = ScalarOps /\ Year!Types = Types
  BY DEF Year!ZipOps, ZipOps, Year!ScalarOps, ScalarOps, Year!Types, Types,
         Year!Comparisons, Comparisons

(* Combining two schedules is a step of the abstract year.                 *)
LEMMA CombineRefines ==
    ASSUME NEW op \in ZipOps, NEW o, IsAnnual(schedule), IsAnnual(o), IsAnnual(schedule'),
           Identified(schedule), Identified(o), Combine(schedule, o, op) # Refused,
           schedule' = Combine(schedule, o, op)
    PROVE  Year!CombineWith(op, Meaning(o))
  <1> DEFINE t == ZipType(op, schedule.type, o.type)
             F(d, k, s) == Value(op, DayAt(schedule, d, k).values[s], DayAt(o, d, k).values[s])
  <1>1. \A d \in Days, k \in Kinds :
           /\ ZipDefined(op, schedule.type, o.type)
           /\ DayAt(schedule', d, k).type = t
           /\ DayAt(schedule', d, k).values = [s \in Steps |-> F(d, k, s)]
           /\ \A s \in Steps :
                 /\ Computable(op, DayAt(schedule, d, k).values[s], DayAt(o, d, k).values[s])
                 /\ Legal(t, F(d, k, s))
    <2> SUFFICES ASSUME NEW d \in Days, NEW k \in Kinds
                 PROVE  /\ ZipDefined(op, schedule.type, o.type)
                        /\ DayAt(schedule', d, k).type = t
                        /\ DayAt(schedule', d, k).values = [s \in Steps |-> F(d, k, s)]
                        /\ \A s \in Steps :
                              /\ Computable(op, DayAt(schedule, d, k).values[s],
                                                DayAt(o, d, k).values[s])
                              /\ Legal(t, F(d, k, s))
      OBVIOUS
    <2> DEFINE x == DayAt(schedule, d, k)
               y == DayAt(o, d, k)
    <2>1. x \in SomeDay /\ x.type = schedule.type /\ y \in SomeDay /\ y.type = o.type
      BY DayAtMade
    <2>2. DayAt(schedule', d, k) = ZipDays(op, x, y) /\ ZipDays(op, x, y) \in SomeDay
      <3>1. DayAt(schedule', d, k) \in SomeDay
        BY DayAtMade
      <3> QED
        BY <3>1, CombinePointwise
    <2>3. ZipDays(op, x, y) # Refused
      BY <2>2, DayFields
    <2> HIDE DEF x, y
    <2>4. /\ ZipDefined(op, schedule.type, o.type)
          /\ DayAt(schedule', d, k).type = t
          /\ \A s \in Steps : /\ Computable(op, x.values[s], y.values[s])
                              /\ Legal(t, Value(op, x.values[s], y.values[s]))
          /\ DayAt(schedule', d, k).values = [s \in Steps |-> Value(op, x.values[s], y.values[s])]
      BY <2>1, <2>2, <2>3, ZipMade
    <2> QED
      BY <2>4 DEF x, y
  <1>2. ZipDefined(op, schedule.type, o.type) /\ schedule'.type = t
    BY <1>1, SomePoint, DayAtMade
  <1>3. /\ Meaning(schedule).type = schedule.type /\ Meaning(o).type = o.type
        /\ \A d \in Days, k \in Kinds :
              /\ Meaning(schedule).at[d][k] = DayAt(schedule, d, k).values
              /\ Meaning(o).at[d][k] = DayAt(o, d, k).values
    BY DayAtMade DEF Meaning
  <1>4. Meaning(schedule)' = [type |-> t, at |-> [d \in Days |-> [k \in Kinds |-> [s \in Steps |-> F(d, k, s)]]]]
    BY <1>1, <1>2 DEF Meaning, DayAt
  <1>5. Meaning(schedule)' =
           [type |-> Year!ZipType(op, Meaning(schedule).type, Meaning(o).type),
            at |-> [d \in Days |-> [k \in Kinds |-> [s \in Steps |->
               Year!Value(op, Meaning(schedule).at[d][k][s], Meaning(o).at[d][k][s])]]]]
    BY <1>3, <1>4, SameZip, SameValue
  <1>6. \A d \in Days, k \in Kinds, s \in Steps :
           /\ Year!Computable(op, Meaning(schedule).at[d][k][s], Meaning(o).at[d][k][s])
           /\ Year!Legal(Year!ZipType(op, Meaning(schedule).type, Meaning(o).type),
                         Year!Value(op, Meaning(schedule).at[d][k][s], Meaning(o).at[d][k][s]))
    BY <1>1, <1>3, SameZip, SameValue, SameLegal
  <1>7. Year!ZipDefined(op, Meaning(schedule).type, Meaning(o).type)
    BY <1>2, <1>3, SameZip
  <1> QED
    BY <1>5, <1>6, <1>7 DEF Year!CombineWith, Year!AtEvery

(* Operations on the days of one schedule.                                 *)
LEMMA MapDayMade ==
    ASSUME NEW op \in ScalarOps, NEW x \in SomeDay, NEW n \in Int
    PROVE  /\ MapDay(op, x, n) \in SomeDay \union {Refused}
           /\ MapDay(op, x, n) # Refused =>
                 /\ ScalarDefined(op, x.type)
                 /\ MapDay(op, x, n).type = ScalarType(op, x.type)
                 /\ \A s \in Steps : /\ Computable(op, x.values[s], n)
                                     /\ Legal(ScalarType(op, x.type), Value(op, x.values[s], n))
                 /\ MapDay(op, x, n).values = [s \in Steps |-> Value(op, x.values[s], n)]
  <1> DEFINE t == ScalarType(op, x.type)
             v == [s \in Steps |-> Value(op, x.values[s], n)]
             can == ScalarDefined(op, x.type) /\ \A s \in Steps : Computable(op, x.values[s], n)
  <1>1. t \in Types
    <2>1. x.type \in Types /\ "onoff" \in Types /\ "real" \in Types
      BY DayFields DEF Types
    <2> QED
      BY <2>1, Zenon DEF ScalarType
  <1>2. CASE ~can
    BY <1>2 DEF MapDay
  <1>3. CASE can
    <2>1. MapDay(op, x, n) = NewDay(t, v)
      BY <1>3 DEF MapDay
    <2>2. v \in [Steps -> Int]
      <3> SUFFICES ASSUME NEW s \in Steps PROVE Value(op, x.values[s], n) \in Int
        OBVIOUS
      <3>1. x.values[s] \in Int
        BY DayFields
      <3> QED
        BY <1>3, <3>1, ValueTyped
    <2>3. \A s \in Steps : v[s] = Value(op, x.values[s], n)
      OBVIOUS
    <2> HIDE DEF t, v
    <2>4. /\ NewDay(t, v) \in SomeDay \union {Refused}
          /\ NewDay(t, v) # Refused => /\ NewDay(t, v) = [type |-> t, values |-> v]
                                       /\ \A s \in Steps : Legal(t, v[s])
      BY <1>1, <2>2, NewDayMade, DayOfType
    <2>5. NewDay(t, v) # Refused => NewDay(t, v).type = t /\ NewDay(t, v).values = v
      BY <2>4
    <2> QED
      BY <1>3, <2>1, <2>3, <2>4, <2>5 DEF t, v
  <1> QED
    BY <1>2, <1>3

(* What an inversion makes of a day.                                       *)
LEMMA InvertDayMade ==
    ASSUME NEW x \in SomeDay
    PROVE  /\ InvertDay(x) \in SomeDay \union {Refused}
           /\ InvertDay(x) # Refused =>
                 /\ x.type = "onoff" /\ InvertDay(x).type = "onoff"
                 /\ \A s \in Steps : Legal("onoff", 1 - x.values[s])
                 /\ InvertDay(x).values = [s \in Steps |-> 1 - x.values[s]]
  <1> DEFINE v == [s \in Steps |-> IF x.values[s] = 1 THEN 0 ELSE 1]
             u == [s \in Steps |-> 1 - x.values[s]]
  <1>1. CASE x.type # "onoff"
    BY <1>1 DEF InvertDay
  <1>2. CASE x.type = "onoff"
    <2>1. \A s \in Steps : x.values[s] \in 0..1
      <3>1. \A s \in Steps : Legal("onoff", x.values[s])
        BY <1>2, DayFields
      <3> QED
        BY <3>1 DEF Legal
    <2>2. v = u /\ v \in [Steps -> Int]
      BY <2>1
    <2>3. "onoff" \in Types
      BY DEF Types
    <2>4. InvertDay(x) = NewDay("onoff", v)
      BY <1>2 DEF InvertDay
    <2>5. \A s \in Steps : u[s] = 1 - x.values[s]
      OBVIOUS
    <2> HIDE DEF u, v
    <2>6. /\ InvertDay(x) \in SomeDay \union {Refused}
          /\ InvertDay(x) # Refused => /\ InvertDay(x) = [type |-> "onoff", values |-> u]
                                       /\ \A s \in Steps : Legal("onoff", u[s])
      BY <2>2, <2>3, <2>4, NewDayMade, DayOfType
    <2>7. InvertDay(x) # Refused => InvertDay(x).type = "onoff" /\ InvertDay(x).values = u
      BY <2>6
    <2> QED
      BY <1>2, <2>5, <2>6, <2>7 DEF u
  <1> QED
    BY <1>1, <1>2

Divisor(x) == IF DayMaximum(x) = 0 THEN 1 ELSE DayMaximum(x)

(* What a division by the maximum makes of a day.                          *)
LEMMA NormalizeDayMade ==
    ASSUME NEW x \in SomeDay
    PROVE  LET t == IF x.type = "onoff" THEN "real" ELSE x.type
           IN  /\ NormalizeDay(x) \in SomeDay \union {Refused}
               /\ NormalizeDay(x) # Refused =>
                     /\ NormalizeDay(x).type = t
                     /\ \A s \in Steps : /\ Divides(x.values[s], Divisor(x))
                                         /\ Legal(t, Quotient(x.values[s], Divisor(x)))
                     /\ NormalizeDay(x).values = [s \in Steps |-> Quotient(x.values[s], Divisor(x))]
  <1> DEFINE t == IF x.type = "onoff" THEN "real" ELSE x.type
             v == [s \in Steps |-> Quotient(x.values[s], Divisor(x))]
             can == \A s \in Steps : Divides(x.values[s], Divisor(x))
  <1>1. t \in Types
    BY DayFields DEF Types
  <1>2. CASE ~can
    BY <1>2 DEF NormalizeDay, Divisor
  <1>3. CASE can
    <2>1. NormalizeDay(x) = NewDay(t, v)
      BY <1>3 DEF NormalizeDay, Divisor
    <2>2. v \in [Steps -> Int]
      <3>1. \A a, b : Divides(a, b) => Quotient(a, b) \in -200..200
        BY Zenon DEF Divides, Quotient
      <3> QED
        BY <1>3, <3>1
    <2>3. \A s \in Steps : v[s] = Quotient(x.values[s], Divisor(x))
      OBVIOUS
    <2> HIDE DEF t, v
    <2>4. /\ NewDay(t, v) \in SomeDay \union {Refused}
          /\ NewDay(t, v) # Refused => /\ NewDay(t, v) = [type |-> t, values |-> v]
                                       /\ \A s \in Steps : Legal(t, v[s])
      BY <1>1, <2>2, NewDayMade, DayOfType
    <2>5. NewDay(t, v) # Refused => NewDay(t, v).type = t /\ NewDay(t, v).values = v
      BY <2>4
    <2> QED
      BY <1>3, <2>1, <2>3, <2>4, <2>5 DEF t, v
  <1> QED
    BY <1>2, <1>3

Clipped(v, low, high) == IF v < low THEN low ELSE IF v > high THEN high ELSE v

(* What clipping makes of a day.                                           *)
LEMMA ClipDayMade ==
    ASSUME NEW x \in SomeDay, NEW low \in Int, NEW high \in Int
    PROVE  /\ ClipDay(x, low, high) \in SomeDay \union {Refused}
           /\ ClipDay(x, low, high) # Refused =>
                 /\ low <= high /\ ClipDay(x, low, high).type = x.type
                 /\ \A s \in Steps : Legal(x.type, Clipped(x.values[s], low, high))
                 /\ ClipDay(x, low, high).values =
                       [s \in Steps |-> Clipped(x.values[s], low, high)]
  <1> DEFINE raised(w) == IF w > low THEN w ELSE low
             v == [s \in Steps |-> IF raised(x.values[s]) < high THEN raised(x.values[s]) ELSE high]
             u == [s \in Steps |-> Clipped(x.values[s], low, high)]
  <1>1. CASE ~(low <= high)
    BY <1>1 DEF ClipDay
  <1>2. CASE low <= high
    <2>1. \A s \in Steps : x.values[s] \in Int
      BY DayFields
    <2>2. v = u /\ v \in [Steps -> Int]
      BY <1>2, <2>1 DEF Clipped
    <2>3. x.type \in Types
      BY DayFields
    <2>4. ClipDay(x, low, high) = NewDay(x.type, v)
      BY <1>2 DEF ClipDay
    <2>5. \A s \in Steps : u[s] = Clipped(x.values[s], low, high)
      OBVIOUS
    <2> HIDE DEF u, v
    <2>6. /\ ClipDay(x, low, high) \in SomeDay \union {Refused}
          /\ ClipDay(x, low, high) # Refused =>
                /\ ClipDay(x, low, high) = [type |-> x.type, values |-> u]
                /\ \A s \in Steps : Legal(x.type, u[s])
      BY <2>2, <2>3, <2>4, NewDayMade, DayOfType
    <2>7. ClipDay(x, low, high) # Refused =>
             ClipDay(x, low, high).type = x.type /\ ClipDay(x, low, high).values = u
      BY <2>6
    <2> QED
      BY <1>2, <2>5, <2>6, <2>7 DEF u
  <1> QED
    BY <1>1, <1>2

(* What a change of type makes of a day.                                   *)
LEMMA AsTypeMade ==
    ASSUME NEW x \in SomeDay, NEW t \in Types
    PROVE  /\ DayAsType(x, t) \in SomeDay \union {Refused}
           /\ DayAsType(x, t) # Refused =>
                 /\ DayAsType(x, t).type = t /\ DayAsType(x, t).values = x.values
                 /\ \A s \in Steps : Legal(t, x.values[s])
  <1>1. x.values \in [Steps -> Int]
    BY DayFields
  <1>2. /\ DayAsType(x, t) \in SomeDay \union {Refused}
        /\ DayAsType(x, t) # Refused => /\ DayAsType(x, t) = [type |-> t, values |-> x.values]
                                        /\ \A s \in Steps : Legal(t, x.values[s])
    BY <1>1, NewDayMade, DayOfType DEF DayAsType
  <1> QED
    BY <1>2

(* A schedule whose days are mapped has, for every kind of day of every    *)
(* date, what its day is mapped to.                                        *)
LEMMA MapDaysPointwise ==
    ASSUME NEW a, IsAnnual(a), Identified(a), NEW made,
           \A d \in Days : \A day \in Slots(a.at[d].rules) : made[day] \in SomeDay \union {Refused},
           MapDays(a, made) # Refused
    PROVE  /\ Made(MapDays(a, made))
           /\ \A d \in Days, k \in Kinds : DayAt(MapDays(a, made), d, k) = made[DayAt(a, d, k)]
  <1> DEFINE new == [rules \in RuleSets(a) |-> MapRules(rules, made)]
             R == MapDays(a, made)
  <1>1. R = MapCompact(a, new)
    BY DEF MapDays
  <1>2. \A d \in Days : new[a.at[d].rules] = MapRules(a.at[d].rules, made)
    BY DEF RuleSets
  <1> HIDE DEF new, R
  <1>3. \A d \in Days : /\ a.at[d].rules \in SomeRules
                        /\ new[a.at[d].rules] \in SomeRules \union {Refused}
    BY <1>2, AnnualRules, MapRulesMade
  <1>4. /\ Made(R)
        /\ \A d \in Days : R.at[d].rules = new[a.at[d].rules] /\ new[a.at[d].rules] # Refused
    BY <1>1, <1>3, MapCompactMade DEF R
  <1>5. \A d \in Days, k \in Kinds : DayAt(R, d, k) = made[DayAt(a, d, k)]
    BY <1>2, <1>3, <1>4, MapRulesMade DEF DayAt
  <1> QED
    BY <1>4, <1>5 DEF R

(* An operation with a number works day by day.                            *)
LEMMA NumberPointwise ==
    ASSUME NEW a, IsAnnual(a), Identified(a), NEW op \in ScalarOps, NEW n \in Int, NEW R,
           R = MapCompact(a, [rules \in RuleSets(a) |-> RulesWithNumber(op, rules, n)]),
           R # Refused
    PROVE  /\ Made(R)
           /\ \A d \in Days, k \in Kinds : DayAt(R, d, k) = MapDay(op, DayAt(a, d, k), n)
  <1> DEFINE new == [rules \in RuleSets(a) |-> RulesWithNumber(op, rules, n)]
             made(rules) == [day \in Slots(rules) |-> MapDay(op, day, n)]
  <1>1. \A d \in Days : new[a.at[d].rules] = MapRules(a.at[d].rules, made(a.at[d].rules))
    BY DEF RuleSets, RulesWithNumber
  <1>2. \A d \in Days : /\ a.at[d].rules \in SomeRules
                        /\ \A day \in Slots(a.at[d].rules) : day \in SomeDay
    BY AnnualRules, RulesFields, DayOfType
  <1>3. \A d \in Days : \A day \in Slots(a.at[d].rules) :
           /\ made(a.at[d].rules)[day] = MapDay(op, day, n)
           /\ made(a.at[d].rules)[day] \in SomeDay \union {Refused}
    BY <1>2, MapDayMade
  <1> HIDE DEF made, new
  <1>4. \A d \in Days : new[a.at[d].rules] \in SomeRules \union {Refused}
    BY <1>1, <1>2, <1>3, MapRulesMade
  <1>5. /\ Made(R)
        /\ \A d \in Days : R.at[d].rules = new[a.at[d].rules] /\ new[a.at[d].rules] # Refused
    <2>1. R = MapCompact(a, new)
      BY DEF new
    <2>2. MapCompact(a, new) # Refused
      BY <2>1
    <2>3. /\ Made(MapCompact(a, new))
          /\ \A d \in Days : /\ MapCompact(a, new).at[d].rules = new[a.at[d].rules]
                             /\ new[a.at[d].rules] # Refused
      BY <1>4, <2>2, MapCompactMade
    <2> QED
      BY <2>1, <2>3
  <1>6. ASSUME NEW d \in Days, NEW k \in Kinds
        PROVE  DayAt(R, d, k) = MapDay(op, DayAt(a, d, k), n)
    <2>1. DayAt(a, d, k) \in Slots(a.at[d].rules)
      BY DayAtMade
    <2>2. DayAt(R, d, k) = made(a.at[d].rules)[DayAt(a, d, k)]
      BY <1>1, <1>2, <1>3, <1>5, MapRulesMade DEF DayAt
    <2> QED
      BY <1>3, <2>1, <2>2
  <1> QED
    BY <1>5, <1>6

(* The next year, if every day of every date is as an operation says.      *)
LEMMA SameMax == \A S : Year!Max(S) = Max(S)
  BY DEF Year!Max, Max

(* The next year is known once every day of it is ...                      *)
LEMMA NextYear ==
    ASSUME IsAnnual(schedule'), NEW t, NEW at,
           \A d \in Days, k \in Kinds :
              /\ DayAt(schedule', d, k).type = t
              /\ DayAt(schedule', d, k).values = at[d][k]
    PROVE  Meaning(schedule)' = [type |-> t, at |-> [d \in Days |-> [k \in Kinds |-> at[d][k]]]]
  <1>1. schedule'.type = t
    BY SomePoint, DayAtMade
  <1> QED
    BY <1>1 DEF Meaning, DayAt

(* ... and so is this one.                                                 *)
LEMMA ThisYear ==
    ASSUME IsAnnual(schedule)
    PROVE  /\ Meaning(schedule).type = schedule.type
           /\ \A d \in Days, k \in Kinds :
                 Meaning(schedule).at[d][k] = DayAt(schedule, d, k).values
  BY DEF Meaning, DayAt

(* An operation with a number is a step of the abstract year, ...          *)
LEMMA MapRefines ==
    ASSUME IsAnnual(schedule), IsAnnual(schedule'), NEW op \in ScalarOps, NEW n \in Int,
           \A d \in Days, k \in Kinds :
              DayAt(schedule', d, k) = MapDay(op, DayAt(schedule, d, k), n)
    PROVE  Year!Map(op, n)
  <1> DEFINE t == ScalarType(op, schedule.type)
             val(d, k, s) == DayAt(schedule, d, k).values[s]
  <1>1. ASSUME NEW d \in Days, NEW k \in Kinds
        PROVE  /\ ScalarDefined(op, schedule.type)
               /\ DayAt(schedule', d, k).type = t
               /\ DayAt(schedule', d, k).values = [s \in Steps |-> Value(op, val(d, k, s), n)]
               /\ \A s \in Steps : /\ Computable(op, val(d, k, s), n)
                                   /\ Legal(t, Value(op, val(d, k, s), n))
    <2>1. /\ DayAt(schedule, d, k) \in SomeDay /\ DayAt(schedule, d, k).type = schedule.type
          /\ DayAt(schedule', d, k) \in SomeDay
      BY DayAtMade
    <2>2. MapDay(op, DayAt(schedule, d, k), n) # Refused
      BY <2>1, DayFields
    <2> QED
      BY <2>1, <2>2, MapDayMade
  <1>2. Meaning(schedule)' =
           [type |-> t, at |-> [d \in Days |-> [k \in Kinds |-> [s \in Steps |->
              Value(op, Meaning(schedule).at[d][k][s], n)]]]]
    <2> DEFINE at == [d \in Days |-> [k \in Kinds |-> [s \in Steps |->
                        Value(op, Meaning(schedule).at[d][k][s], n)]]]
    <2>1. \A d \in Days, k \in Kinds :
             at[d][k] = [s \in Steps |-> Value(op, Meaning(schedule).at[d][k][s], n)]
      OBVIOUS
    <2>2. \A d \in Days, k \in Kinds : /\ DayAt(schedule', d, k).type = t
                                       /\ DayAt(schedule', d, k).values = at[d][k]
      BY <1>1, <2>1, ThisYear
    <2>3. at = [d \in Days |-> [k \in Kinds |-> at[d][k]]]
      OBVIOUS
    <2> HIDE DEF at, t
    <2>4. Meaning(schedule)' = [type |-> t, at |-> [d \in Days |-> [k \in Kinds |-> at[d][k]]]]
      BY <2>2, NextYear
    <2> QED
      BY <2>3, <2>4 DEF at
  <1>3. ScalarDefined(op, schedule.type)
    BY <1>1, SomePoint
  <1>4. Year!ScalarDefined(op, Meaning(schedule).type)
    BY <1>3, ThisYear, SameScalar
  <1>5. \A d \in Days, k \in Kinds, s \in Steps :
           /\ Year!Computable(op, Meaning(schedule).at[d][k][s], n)
           /\ Year!Legal(Year!ScalarType(op, Meaning(schedule).type),
                         Year!Value(op, Meaning(schedule).at[d][k][s], n))
    BY <1>1, ThisYear, SameScalar, SameValue, SameLegal
  <1>6. Meaning(schedule)' =
           [type |-> Year!ScalarType(op, Meaning(schedule).type),
            at |-> [d \in Days |-> [k \in Kinds |-> [s \in Steps |->
              Year!Value(op, Meaning(schedule).at[d][k][s], n)]]]]
    BY <1>2, ThisYear, SameScalar, SameValue
  <1> QED
    BY <1>4, <1>5, <1>6 DEF Year!Map, Year!AtEvery

(* ... and so is an inversion, ...                                         *)
LEMMA InvertRefines ==
    ASSUME IsAnnual(schedule), IsAnnual(schedule'),
           \A d \in Days, k \in Kinds : DayAt(schedule', d, k) = InvertDay(DayAt(schedule, d, k))
    PROVE  Year!Invert
  <1> DEFINE at == [d \in Days |-> [k \in Kinds |-> [s \in Steps |->
                      1 - Meaning(schedule).at[d][k][s]]]]
  <1>1. ASSUME NEW d \in Days, NEW k \in Kinds
        PROVE  /\ schedule.type = "onoff" /\ DayAt(schedule', d, k).type = "onoff"
               /\ DayAt(schedule', d, k).values = at[d][k]
               /\ \A s \in Steps : Legal("onoff", 1 - Meaning(schedule).at[d][k][s])
    <2>1. /\ DayAt(schedule, d, k) \in SomeDay /\ DayAt(schedule, d, k).type = schedule.type
          /\ DayAt(schedule', d, k) \in SomeDay
      BY DayAtMade
    <2>2. InvertDay(DayAt(schedule, d, k)) # Refused
      BY <2>1, DayFields
    <2> QED
      BY <2>1, <2>2, InvertDayMade, ThisYear
  <1>2. at = [d \in Days |-> [k \in Kinds |-> at[d][k]]]
    OBVIOUS
  <1>3. Meaning(schedule)' = [type |-> "onoff", at |-> at]
    <2>1. \A d \in Days, k \in Kinds : /\ DayAt(schedule', d, k).type = "onoff"
                                       /\ DayAt(schedule', d, k).values = at[d][k]
      BY <1>1
    <2> HIDE DEF at
    <2>2. Meaning(schedule)' = [type |-> "onoff",
                                at |-> [d \in Days |-> [k \in Kinds |-> at[d][k]]]]
      BY <2>1, NextYear
    <2> QED
      BY <1>2, <2>2
  <1>4. Meaning(schedule).type = "onoff"
    BY <1>1, SomePoint, ThisYear
  <1>5. \A d \in Days, k \in Kinds, s \in Steps :
           Year!Legal("onoff", 1 - Meaning(schedule).at[d][k][s])
    BY <1>1, SameLegal
  <1> QED
    BY <1>3, <1>4, <1>5 DEF Year!Invert, Year!AtEvery

(* ... a division by the maximum, ...                                      *)
LEMMA NormalizeRefines ==
    ASSUME IsAnnual(schedule), IsAnnual(schedule'),
           \A d \in Days, k \in Kinds : DayAt(schedule', d, k) = NormalizeDay(DayAt(schedule, d, k))
    PROVE  Year!Normalize
  <1> DEFINE val(d, k, s) == Meaning(schedule).at[d][k][s]
             top(d, k) == Year!Max({val(d, k, s) : s \in Steps})
             divisor(d, k) == IF top(d, k) = 0 THEN 1 ELSE top(d, k)
             t == IF Meaning(schedule).type = "onoff" THEN "real" ELSE Meaning(schedule).type
             at == [d \in Days |-> [k \in Kinds |-> [s \in Steps |->
                      Year!Quotient(val(d, k, s), divisor(d, k))]]]
  <1>1. ASSUME NEW d \in Days, NEW k \in Kinds
        PROVE  /\ DayAt(schedule', d, k).type = t
               /\ DayAt(schedule', d, k).values = at[d][k]
               /\ \A s \in Steps : /\ Year!Divides(val(d, k, s), divisor(d, k))
                                   /\ Year!Legal(t, Year!Quotient(val(d, k, s), divisor(d, k)))
    <2> DEFINE x == DayAt(schedule, d, k)
    <2>1. x \in SomeDay /\ x.type = schedule.type /\ DayAt(schedule', d, k) \in SomeDay
      BY DayAtMade
    <2>2. NormalizeDay(x) # Refused
      BY <2>1, DayFields
    <2>3. x.values = Meaning(schedule).at[d][k] /\ schedule.type = Meaning(schedule).type
      BY ThisYear
    <2>4. Divisor(x) = divisor(d, k)
      BY <2>3, SameMax DEF Divisor, DayMaximum
    <2>5. at[d][k] = [s \in Steps |-> Quotient(x.values[s], Divisor(x))]
      BY <2>3, <2>4, SameQuotient
    <2>6. DayAt(schedule', d, k) = NormalizeDay(x)
      OBVIOUS
    <2> HIDE DEF at, x, divisor
    <2> QED
      BY <2>1, <2>2, <2>3, <2>4, <2>5, <2>6, NormalizeDayMade, SameQuotient, SameLegal
  <1>2. at = [d \in Days |-> [k \in Kinds |-> at[d][k]]]
    OBVIOUS
  <1>3. Meaning(schedule)' = [type |-> t, at |-> at]
    <2>1. \A d \in Days, k \in Kinds : /\ DayAt(schedule', d, k).type = t
                                       /\ DayAt(schedule', d, k).values = at[d][k]
      BY <1>1
    <2> HIDE DEF at, t
    <2>2. Meaning(schedule)' = [type |-> t,
                                at |-> [d \in Days |-> [k \in Kinds |-> at[d][k]]]]
      BY <2>1, NextYear
    <2> QED
      BY <1>2, <2>2
  <1> QED
    BY <1>1, <1>3 DEF Year!Normalize, Year!AtEvery

(* ... a clipping ...                                                      *)
LEMMA ClipRefines ==
    ASSUME IsAnnual(schedule), IsAnnual(schedule'), NEW low \in Int, NEW high \in Int,
           \A d \in Days, k \in Kinds :
              DayAt(schedule', d, k) = ClipDay(DayAt(schedule, d, k), low, high)
    PROVE  Year!Clip(low, high)
  <1> DEFINE t == Meaning(schedule).type
             at == [d \in Days |-> [k \in Kinds |-> [s \in Steps |->
                      Clipped(Meaning(schedule).at[d][k][s], low, high)]]]
  <1>1. ASSUME NEW d \in Days, NEW k \in Kinds
        PROVE  /\ low <= high /\ DayAt(schedule', d, k).type = t
               /\ DayAt(schedule', d, k).values = at[d][k]
               /\ \A s \in Steps : Legal(t, Clipped(Meaning(schedule).at[d][k][s], low, high))
    <2>1. /\ DayAt(schedule, d, k) \in SomeDay /\ DayAt(schedule, d, k).type = t
          /\ DayAt(schedule', d, k) \in SomeDay
      BY DayAtMade, ThisYear
    <2>2. ClipDay(DayAt(schedule, d, k), low, high) # Refused
      BY <2>1, DayFields
    <2>3. DayAt(schedule, d, k).values = Meaning(schedule).at[d][k]
      BY ThisYear
    <2> HIDE DEF t
    <2> QED
      BY <2>1, <2>2, <2>3, ClipDayMade
  <1>2. at = [d \in Days |-> [k \in Kinds |-> at[d][k]]]
    OBVIOUS
  <1>3. Meaning(schedule)' = [type |-> t, at |-> at]
    <2>1. \A d \in Days, k \in Kinds : /\ DayAt(schedule', d, k).type = t
                                       /\ DayAt(schedule', d, k).values = at[d][k]
      BY <1>1
    <2> HIDE DEF at, t
    <2>2. Meaning(schedule)' = [type |-> t,
                                at |-> [d \in Days |-> [k \in Kinds |-> at[d][k]]]]
      BY <2>1, NextYear
    <2> QED
      BY <1>2, <2>2
  <1>4. low <= high
    BY <1>1, SomePoint
  <1>5. \A d \in Days, k \in Kinds, s \in Steps :
           Year!Legal(t, Clipped(Meaning(schedule).at[d][k][s], low, high))
    BY <1>1, SameLegal
  <1> QED
    BY <1>3, <1>4, <1>5 DEF Year!Clip, Year!AtEvery, Clipped

(* ... and a change of type.                                               *)
LEMMA AsTypeRefines ==
    ASSUME IsAnnual(schedule), IsAnnual(schedule'), NEW t \in Types,
           \A d \in Days, k \in Kinds : DayAt(schedule', d, k) = DayAsType(DayAt(schedule, d, k), t)
    PROVE  Year!AsType(t)
  <1> DEFINE at == [d \in Days |-> [k \in Kinds |-> [s \in Steps |->
                      Meaning(schedule).at[d][k][s]]]]
  <1>1. ASSUME NEW d \in Days, NEW k \in Kinds
        PROVE  /\ DayAt(schedule', d, k).type = t
               /\ DayAt(schedule', d, k).values = at[d][k]
               /\ \A s \in Steps : Legal(t, Meaning(schedule).at[d][k][s])
    <2>1. /\ DayAt(schedule, d, k) \in SomeDay /\ DayAt(schedule', d, k) \in SomeDay
          /\ DayAt(schedule, d, k).values \in [Steps -> Int]
      BY DayAtMade, DayFields
    <2>2. DayAsType(DayAt(schedule, d, k), t) # Refused
      BY <2>1, DayFields
    <2>3. DayAt(schedule, d, k).values = Meaning(schedule).at[d][k]
      BY ThisYear
    <2>4. at[d][k] = Meaning(schedule).at[d][k]
      BY <2>1, <2>3
    <2> HIDE DEF at
    <2> QED
      BY <2>1, <2>2, <2>3, <2>4, AsTypeMade
  <1>2. at = [d \in Days |-> [k \in Kinds |-> at[d][k]]]
    OBVIOUS
  <1>3. Meaning(schedule)' = [type |-> t, at |-> at]
    <2>1. \A d \in Days, k \in Kinds : /\ DayAt(schedule', d, k).type = t
                                       /\ DayAt(schedule', d, k).values = at[d][k]
      BY <1>1
    <2> HIDE DEF at
    <2>2. Meaning(schedule)' = [type |-> t,
                                at |-> [d \in Days |-> [k \in Kinds |-> at[d][k]]]]
      BY <2>1, NextYear
    <2> QED
      BY <1>2, <2>2
  <1>4. \A d \in Days, k \in Kinds, s \in Steps : Year!Legal(t, Meaning(schedule).at[d][k][s])
    BY <1>1, SameLegal
  <1> QED
    BY <1>3, <1>4 DEF Year!AsType, Year!AtEvery

(* A selection works day by day, over any periods of the three schedules.  *)
LEMMA WherePointwise ==
    ASSUME NEW c, NEW y, NEW n, IsAnnual(c), IsAnnual(y), IsAnnual(n),
           Identified(c), Identified(y), Identified(n), NEW R, R = Where(c, y, n), R # Refused
    PROVE  /\ Made(R) /\ c.type = "onoff" /\ y.type = n.type
           /\ \A d \in Days, k \in Kinds :
                 /\ DayAt(R, d, k) = WhereDay(DayAt(c, d, k), DayAt(y, d, k), DayAt(n, d, k))
                 /\ DayAt(R, d, k) \in DaysOf(y.type)
  <1> DEFINE at(d) == WhereRules(c.at[d].rules, y.at[d].rules, n.at[d].rules)
  <1>1. /\ Made(R)
        /\ \A d \in Days : R.at[d].rules = at(d) /\ at(d) # Refused
    <2>1. Where(c, y, n) # Refused
      OBVIOUS
    <2>2. /\ Made(Where(c, y, n))
          /\ \A d \in Days : Where(c, y, n).at[d].rules = at(d) /\ at(d) # Refused
      BY <2>1, WhereMade
    <2> QED
      BY <2>2
  <1>2. \A d \in Days : /\ c.at[d].rules \in SomeRules /\ c.at[d].rules.type = c.type
                        /\ y.at[d].rules \in SomeRules /\ y.at[d].rules.type = y.type
                        /\ n.at[d].rules \in SomeRules /\ n.at[d].rules.type = n.type
    BY AnnualRules
  <1>3. \A d \in Days : c.type = "onoff" /\ y.type = n.type
    BY <1>1, <1>2, WhereRulesMade
  <1>4. ASSUME NEW d \in Days, NEW k \in Kinds
        PROVE  /\ DayAt(R, d, k) = WhereDay(DayAt(c, d, k), DayAt(y, d, k), DayAt(n, d, k))
               /\ DayAt(R, d, k) \in DaysOf(y.type)
    BY <1>1, <1>2, WhereRulesMade DEF DayAt
  <1> QED
    BY <1>1, <1>3, <1>4, SomePoint

(* A selection is a step of the abstract year.                             *)
LEMMA SelectRefines ==
    ASSUME IsAnnual(schedule), IsAnnual(schedule'), NEW y, NEW n, IsAnnual(y), IsAnnual(n),
           schedule.type = "onoff", y.type = n.type,
           \A d \in Days, k \in Kinds :
              DayAt(schedule', d, k)
              = WhereDay(DayAt(schedule, d, k), DayAt(y, d, k), DayAt(n, d, k))
    PROVE  Year!Where(Meaning(y), Meaning(n))
  <1> DEFINE F(d, k, s) == IF Meaning(schedule).at[d][k][s] = 1 THEN Meaning(y).at[d][k][s]
                                                                ELSE Meaning(n).at[d][k][s]
             at == [d \in Days |-> [k \in Kinds |-> [s \in Steps |-> F(d, k, s)]]]
  <1>1. ASSUME NEW d \in Days, NEW k \in Kinds
        PROVE  /\ DayAt(schedule', d, k).type = y.type
               /\ DayAt(schedule', d, k).values = at[d][k]
               /\ \A s \in Steps : Legal(y.type, F(d, k, s))
    <2> DEFINE c == DayAt(schedule, d, k)
               u == DayAt(y, d, k)
               v == DayAt(n, d, k)
               w == [s \in Steps |-> IF c.values[s] = 1 THEN u.values[s] ELSE v.values[s]]
    <2>1. c \in SomeDay /\ u \in SomeDay /\ v \in SomeDay /\ u.type = y.type
          /\ DayAt(schedule', d, k) \in SomeDay
      BY DayAtMade
    <2>2. DayAt(schedule', d, k) = WhereDay(c, u, v) /\ WhereDay(c, u, v) # Refused
      BY <2>1, DayFields
    <2>3. c.values = Meaning(schedule).at[d][k] /\ u.values = Meaning(y).at[d][k]
          /\ v.values = Meaning(n).at[d][k]
      BY DayAtMade
    <2>4. at[d][k] = w /\ \A s \in Steps : w[s] = F(d, k, s)
      BY <2>3
    <2> HIDE DEF c, u, v
    <2>5. WhereDay(c, u, v).values = w /\ \A s \in Steps : Legal(u.type, w[s])
      BY <2>1, <2>2, WhereDayMade
    <2>6. WhereDay(c, u, v).type = u.type
      BY <2>2, WhereType
    <2> HIDE DEF at, w, F
    <2> QED
      BY <2>1, <2>2, <2>4, <2>5, <2>6
  <1>2. at = [d \in Days |-> [k \in Kinds |-> at[d][k]]]
    OBVIOUS
  <1>3. Meaning(schedule)' = [type |-> y.type, at |-> at]
    <2>1. \A d \in Days, k \in Kinds : /\ DayAt(schedule', d, k).type = y.type
                                       /\ DayAt(schedule', d, k).values = at[d][k]
      BY <1>1
    <2> HIDE DEF at
    <2>2. Meaning(schedule)' = [type |-> y.type,
                                at |-> [d \in Days |-> [k \in Kinds |-> at[d][k]]]]
      BY <2>1, NextYear
    <2> QED
      BY <1>2, <2>2
  <1>4. /\ Meaning(schedule).type = "onoff" /\ Meaning(y).type = y.type
        /\ Meaning(n).type = n.type
    BY DEF Meaning
  <1>5. \A d \in Days, k \in Kinds, s \in Steps : Year!Legal(y.type, F(d, k, s))
    BY <1>1, SameLegal
  <1> QED
    BY <1>3, <1>4, <1>5 DEF Year!Where, Year!AtEvery

(* Dates overwritten with the rule set another schedule has on one date.   *)
LEMMA OverwriteMade ==
    ASSUME NEW a, IsAnnual(a), NEW e, NEW first, NEW last, NEW R,
           e.rules \in SomeRules, R = Apply(a, e, first, last), R # Refused
    PROVE  /\ IsAnnual(R) /\ R.type = a.type /\ e.rules.type = a.type
           /\ \A d \in Days : R.at[d] = IF d \in first..last THEN e ELSE a.at[d]
  <1> DEFINE at == [d \in Days |-> IF d \in first..last THEN e ELSE a.at[d]]
  <1>1. e.rules.type = a.type /\ R = [a EXCEPT !.at = at]
    BY DEF Apply
  <1>2. a = [type |-> a.type, at |-> a.at]
    BY DEF IsAnnual
  <1>3. R = [type |-> a.type, at |-> at]
    <2> HIDE DEF at
    <2> QED
      BY <1>1, <1>2
  <1>4. R.type = a.type /\ R.at = at
    BY <1>3
  <1>5. \A d \in Days : R.at[d] = IF d \in first..last THEN e ELSE a.at[d]
    BY <1>4
  <1>6. e.rules \in RulesOf(a.type)
    BY <1>1, SomeRulesFields
  <1>7. \A d \in Days : R.at[d].rules \in RulesOf(R.type)
    BY <1>4, <1>5, <1>6, AnnualRules
  <1>8. R.type \in Types
    BY <1>4 DEF IsAnnual
  <1>9. R = [type |-> R.type, at |-> R.at]
    BY <1>3, <1>4
  <1> QED
    BY <1>1, <1>4, <1>5, <1>7, <1>8, <1>9 DEF IsAnnual

(* Overwriting dates is a step of the abstract year.                       *)
LEMMA OverwriteRefines ==
    ASSUME IsAnnual(schedule), IsAnnual(schedule'), NEW o, IsAnnual(o),
           NEW d \in Days, NEW first \in Days, NEW last \in Days,
           schedule' = Apply(schedule, o.at[d], first, last)
    PROVE  Year!Overwrite(Meaning(o), d, first, last)
  <1> DEFINE F(c, k, s) == IF c \in first..last THEN Meaning(o).at[d][k][s]
                                                ELSE Meaning(schedule).at[c][k][s]
             at == [c \in Days |-> [k \in Kinds |-> [s \in Steps |-> F(c, k, s)]]]
  <1>1. /\ schedule'.type = schedule.type /\ o.at[d].rules.type = schedule.type
        /\ \A c \in Days : schedule'.at[c] = IF c \in first..last THEN o.at[d] ELSE schedule.at[c]
    <2>1. schedule' # Refused
      <3>1. schedule'.type \in Types
        BY DEF IsAnnual
      <3> QED
        BY <3>1, TypeNames
    <2>2. o.at[d].rules \in SomeRules
      BY AnnualRules
    <2> QED
      BY <2>1, <2>2, OverwriteMade
  <1>2. o.type = schedule.type
    BY <1>1, AnnualRules
  <1>3. ASSUME NEW c \in Days, NEW k \in Kinds
        PROVE  /\ DayAt(schedule', c, k).type = schedule.type
               /\ DayAt(schedule', c, k).values = at[c][k]
               /\ \A s \in Steps : Legal(schedule.type, F(c, k, s))
    <2>1. /\ DayAt(schedule', c, k) \in SomeDay /\ DayAt(schedule', c, k).type = schedule.type
          /\ DayAt(schedule', c, k).values \in [Steps -> Int]
          /\ \A s \in Steps : Legal(schedule.type, DayAt(schedule', c, k).values[s])
      BY <1>1, DayAtMade, DayFields
    <2>2. DayAt(schedule', c, k) = IF c \in first..last THEN DayAt(o, d, k) ELSE DayAt(schedule, c, k)
      BY <1>1 DEF DayAt
    <2>3. \A s \in Steps : DayAt(schedule', c, k).values[s] = F(c, k, s)
      BY <2>2, DayAtMade
    <2>4. DayAt(schedule', c, k).values = at[c][k]
      BY <2>1, <2>3
    <2> HIDE DEF at, F
    <2> QED
      BY <2>1, <2>3, <2>4
  <1>4. at = [c \in Days |-> [k \in Kinds |-> at[c][k]]]
    OBVIOUS
  <1>5. Meaning(schedule)' = [type |-> schedule.type, at |-> at]
    <2>1. \A c \in Days, k \in Kinds : /\ DayAt(schedule', c, k).type = schedule.type
                                       /\ DayAt(schedule', c, k).values = at[c][k]
      BY <1>3
    <2> HIDE DEF at
    <2>2. Meaning(schedule)' = [type |-> schedule.type,
                                at |-> [c \in Days |-> [k \in Kinds |-> at[c][k]]]]
      BY <2>1, NextYear
    <2> QED
      BY <1>4, <2>2
  <1>6. Meaning(o).type = schedule.type /\ Meaning(schedule).type = schedule.type
    BY <1>2 DEF Meaning
  <1>7. \A c \in Days, k \in Kinds, s \in Steps : Year!Legal(schedule.type, F(c, k, s))
    BY <1>3, SameLegal
  <1> QED
    BY <1>5, <1>6, <1>7 DEF Year!Overwrite, Year!AtEvery

(***************************************************************************)
(* The inductive invariant and the refinement.                             *)
(***************************************************************************)

(* The inductive invariant: the schedule is what the constructors let      *)
(* through, dates with one id have one rule set, and an entry is the       *)
(* caller's or was made by an operation, which gives it a date as its id.  *)
IInv ==
    /\ operations \in 0..MaxOperations
    /\ IsAnnual(schedule) /\ Identified(schedule)
    /\ \A d \in Days : schedule.at[d].id \in Days \/ schedule.at[d] \in Entries

(* What the caller's schedules are assumed to be.                          *)
LEMMA OperandFacts ==
    ASSUME NEW o \in Operands
    PROVE  /\ IsAnnual(o) /\ Identified(o)
           /\ \A d \in Days : o.at[d] \in Entries
           /\ Meaning(o) \in {Meaning(p) : p \in Operands}
  BY OperandAssumption DEF Entries, Identified

(* The days that an operation on days is applied to.                       *)
LEMMA DaysOfSchedule ==
    ASSUME IsAnnual(schedule)
    PROVE  /\ \A d \in Days : \A day \in Slots(schedule.at[d].rules) :
                 day \in AllDays /\ day \in SomeDay
           /\ \A d \in Days, k \in Kinds : DayAt(schedule, d, k) \in AllDays
  <1>1. \A d \in Days : \A day \in Slots(schedule.at[d].rules) : day \in AllDays
    BY DEF AllDays, RuleSets
  <1>2. \A d \in Days : \A day \in Slots(schedule.at[d].rules) : day \in SomeDay
    BY AnnualRules, RulesFields, DayOfType
  <1> QED
    BY <1>1, <1>2, DayAtMade

(* The invariant holds at first.                                           *)
LEMMA InitSound == Init => IInv
  BY ScheduleAssumption, OperandFacts DEF Init, IInv

(* What is made by an operation keeps the invariant.                       *)
LEMMA MadeSound ==
    ASSUME IInv, Becomes(schedule'), Made(schedule')
    PROVE  IInv'
  <1>1. operations' \in 0..MaxOperations
    BY ScheduleAssumption DEF IInv, Becomes
  <1>2. IsAnnual(schedule') /\ Identified(schedule') /\ \A d \in Days : schedule'.at[d].id \in Days
    BY DEF Made
  <1> QED
    BY <1>1, <1>2 DEF IInv, IsAnnual, Identified

(* The step of an operation on days, in terms of what it makes of each.    *)
LEMMA MapDaysStep ==
    ASSUME IInv, NEW made, Becomes(MapDays(schedule, made)),
           \A day \in AllDays : day \in SomeDay => made[day] \in SomeDay \union {Refused}
    PROVE  /\ IInv' /\ IsAnnual(schedule) /\ IsAnnual(schedule')
           /\ \A d \in Days, k \in Kinds :
                 DayAt(schedule', d, k) = made[DayAt(schedule, d, k)]
  <1>1. IsAnnual(schedule) /\ Identified(schedule)
    BY DEF IInv
  <1>2. MapDays(schedule, made) # Refused /\ schedule' = MapDays(schedule, made)
        /\ Becomes(schedule')
    BY DEF Becomes
  <1>3. \A d \in Days : \A day \in Slots(schedule.at[d].rules) :
           made[day] \in SomeDay \union {Refused}
    BY <1>1, DaysOfSchedule
  <1>4. /\ Made(MapDays(schedule, made))
        /\ \A d \in Days, k \in Kinds :
              DayAt(MapDays(schedule, made), d, k) = made[DayAt(schedule, d, k)]
    BY <1>1, <1>2, <1>3, MapDaysPointwise
  <1>5. Made(schedule')
    BY <1>2, <1>4
  <1>6. IInv'
    BY <1>2, <1>5, MadeSound
  <1> QED
    BY <1>1, <1>2, <1>4, <1>5, <1>6 DEF Made

(* Each operation keeps the invariant and is a step of the abstract year.  *)
LEMMA CombineStep ==
    ASSUME IInv, CombineWith
    PROVE  IInv' /\ Year!Next
  <1>1. PICK op \in ZipOps, o \in Operands : Becomes(Combine(schedule, o, op))
    BY DEF CombineWith
  <1>2. /\ IsAnnual(schedule) /\ Identified(schedule) /\ IsAnnual(o) /\ Identified(o)
        /\ Combine(schedule, o, op) # Refused /\ schedule' = Combine(schedule, o, op)
        /\ Becomes(schedule')
    BY <1>1, OperandFacts DEF IInv, Becomes
  <1>3. Made(Combine(schedule, o, op))
    BY <1>2, CombinePointwise
  <1>4. Made(schedule') /\ IsAnnual(schedule')
    BY <1>2, <1>3 DEF Made
  <1>5. IInv'
    BY <1>2, <1>4, MadeSound
  <1>6. Year!CombineWith(op, Meaning(o))
    BY <1>2, <1>4, CombineRefines
  <1> QED
    BY <1>5, <1>6, OperandFacts, SameNames DEF Year!Next

(* An operation with a number.                                             *)
LEMMA MapStep ==
    ASSUME IInv, Map
    PROVE  IInv' /\ Year!Next
  <1> DEFINE R(op, n) == MapCompact(schedule, [rules \in RuleSets(schedule) |->
                                                  RulesWithNumber(op, rules, n)])
  <1>1. PICK op \in ScalarOps, n \in Numbers : Becomes(R(op, n))
    BY DEF Map
  <1>2. /\ IsAnnual(schedule) /\ Identified(schedule) /\ n \in Int
        /\ schedule' = R(op, n) /\ schedule' # Refused /\ Becomes(schedule')
    BY <1>1, ScheduleAssumption DEF IInv, Becomes
  <1>3. /\ Made(schedule')
        /\ \A d \in Days, k \in Kinds :
              DayAt(schedule', d, k) = MapDay(op, DayAt(schedule, d, k), n)
    BY <1>2, NumberPointwise
  <1> HIDE DEF R
  <1>4. IInv'
    BY <1>2, <1>3, MadeSound
  <1>5. Year!Map(op, n)
    BY <1>2, <1>3, MapRefines DEF Made
  <1> QED
    BY <1>4, <1>5, SameNames DEF Year!Next

(* An inversion.                                                           *)
LEMMA InvertStep ==
    ASSUME IInv, Invert
    PROVE  IInv' /\ Year!Next
  <1> DEFINE made == [day \in AllDays |-> InvertDay(day)]
  <1>1. Becomes(MapDays(schedule, made))
    BY DEF Invert
  <1>2. \A day \in AllDays : day \in SomeDay => made[day] \in SomeDay \union {Refused}
    BY InvertDayMade
  <1>3. /\ IInv' /\ IsAnnual(schedule) /\ IsAnnual(schedule')
        /\ \A d \in Days, k \in Kinds : DayAt(schedule', d, k) = made[DayAt(schedule, d, k)]
    <2> HIDE DEF made
    <2> QED
      BY <1>1, <1>2, MapDaysStep
  <1>4. \A d \in Days, k \in Kinds : DayAt(schedule', d, k) = InvertDay(DayAt(schedule, d, k))
    BY <1>3, DaysOfSchedule
  <1>5. Year!Invert
    BY <1>3, <1>4, InvertRefines
  <1> QED
    BY <1>3, <1>5 DEF Year!Next

(* A division by the maximum.                                              *)
LEMMA NormalizeStep ==
    ASSUME IInv, Normalize
    PROVE  IInv' /\ Year!Next
  <1> DEFINE made == [day \in AllDays |-> NormalizeDay(day)]
  <1>1. Becomes(MapDays(schedule, made))
    BY DEF Normalize
  <1>2. \A day \in AllDays : day \in SomeDay => made[day] \in SomeDay \union {Refused}
    BY NormalizeDayMade
  <1>3. /\ IInv' /\ IsAnnual(schedule) /\ IsAnnual(schedule')
        /\ \A d \in Days, k \in Kinds : DayAt(schedule', d, k) = made[DayAt(schedule, d, k)]
    <2> HIDE DEF made
    <2> QED
      BY <1>1, <1>2, MapDaysStep
  <1>4. \A d \in Days, k \in Kinds : DayAt(schedule', d, k) = NormalizeDay(DayAt(schedule, d, k))
    BY <1>3, DaysOfSchedule
  <1>5. Year!Normalize
    BY <1>3, <1>4, NormalizeRefines
  <1> QED
    BY <1>3, <1>5 DEF Year!Next

(* A clipping.                                                             *)
LEMMA ClipStep ==
    ASSUME IInv, Clip
    PROVE  IInv' /\ Year!Next
  <1> DEFINE made(low, high) == [day \in AllDays |-> ClipDay(day, low, high)]
  <1>1. PICK low \in Numbers, high \in Numbers : Becomes(MapDays(schedule, made(low, high)))
    BY DEF Clip
  <1>2. low \in Int /\ high \in Int
    BY ScheduleAssumption
  <1>3. \A day \in AllDays : day \in SomeDay => made(low, high)[day] \in SomeDay \union {Refused}
    BY <1>2, ClipDayMade
  <1>4. /\ IInv' /\ IsAnnual(schedule) /\ IsAnnual(schedule')
        /\ \A d \in Days, k \in Kinds : DayAt(schedule', d, k) = made(low, high)[DayAt(schedule, d, k)]
    <2> HIDE DEF made
    <2> QED
      BY <1>1, <1>3, MapDaysStep
  <1>5. \A d \in Days, k \in Kinds :
           DayAt(schedule', d, k) = ClipDay(DayAt(schedule, d, k), low, high)
    BY <1>4, DaysOfSchedule
  <1>6. Year!Clip(low, high)
    BY <1>2, <1>4, <1>5, ClipRefines
  <1> QED
    BY <1>4, <1>6 DEF Year!Next

(* A change of type or a copy.                                             *)
LEMMA AsTypeStep ==
    ASSUME IInv, AsType
    PROVE  IInv' /\ Year!Next
  <1> DEFINE made(type) == [day \in AllDays |-> DayAsType(day, type)]
  <1>1. PICK type \in Types : Becomes(MapDays(schedule, made(type)))
    BY DEF AsType
  <1>2. \A day \in AllDays : day \in SomeDay => made(type)[day] \in SomeDay \union {Refused}
    BY AsTypeMade
  <1>3. /\ IInv' /\ IsAnnual(schedule) /\ IsAnnual(schedule')
        /\ \A d \in Days, k \in Kinds : DayAt(schedule', d, k) = made(type)[DayAt(schedule, d, k)]
    <2> HIDE DEF made
    <2> QED
      BY <1>1, <1>2, MapDaysStep
  <1>4. \A d \in Days, k \in Kinds :
           DayAt(schedule', d, k) = DayAsType(DayAt(schedule, d, k), type)
    BY <1>3, DaysOfSchedule
  <1>5. Year!AsType(type)
    BY <1>3, <1>4, AsTypeRefines
  <1> QED
    BY <1>3, <1>5, SameNames DEF Year!Next

(* A selection.                                                            *)
LEMMA SelectStep ==
    ASSUME IInv, Select
    PROVE  IInv' /\ Year!Next
  <1>1. PICK yes \in Operands, no \in Operands : Becomes(Where(schedule, yes, no))
    BY DEF Select
  <1>2. /\ IsAnnual(schedule) /\ Identified(schedule)
        /\ IsAnnual(yes) /\ Identified(yes) /\ IsAnnual(no) /\ Identified(no)
        /\ schedule' = Where(schedule, yes, no) /\ schedule' # Refused /\ Becomes(schedule')
    BY <1>1, OperandFacts DEF IInv, Becomes
  <1>3. /\ Made(schedule') /\ schedule.type = "onoff" /\ yes.type = no.type
        /\ \A d \in Days, k \in Kinds :
              DayAt(schedule', d, k)
              = WhereDay(DayAt(schedule, d, k), DayAt(yes, d, k), DayAt(no, d, k))
    BY <1>2, WherePointwise
  <1>4. IInv'
    BY <1>2, <1>3, MadeSound
  <1>5. IsAnnual(schedule')
    BY <1>3 DEF Made
  <1>6. Year!Where(Meaning(yes), Meaning(no))
    BY <1>2, <1>3, <1>5, SelectRefines
  <1> QED
    BY <1>4, <1>6, OperandFacts DEF Year!Next

(* Dates overwritten with a rule set of another schedule.                  *)
LEMMA OverwriteStep ==
    ASSUME IInv, Overwrite
    PROVE  IInv' /\ Year!Next
  <1>1. PICK o \in Operands, d \in Days, first \in Days, last \in Days :
           first <= last /\ Becomes(Apply(schedule, o.at[d], first, last))
    BY DEF Overwrite
  <1>2. /\ IsAnnual(schedule) /\ Identified(schedule) /\ IsAnnual(o) /\ Identified(o)
        /\ schedule' = Apply(schedule, o.at[d], first, last) /\ schedule' # Refused
        /\ \A c \in Days : o.at[c] \in Entries
        /\ \A c \in Days : schedule.at[c].id \in Days \/ schedule.at[c] \in Entries
        /\ operations' \in 0..MaxOperations
    BY <1>1, OperandFacts, ScheduleAssumption DEF IInv, Becomes
  <1>3. /\ IsAnnual(schedule')
        /\ \A c \in Days : schedule'.at[c] = IF c \in first..last THEN o.at[d] ELSE schedule.at[c]
    <2>1. o.at[d].rules \in SomeRules
      BY <1>2, AnnualRules
    <2> QED
      BY <1>2, <2>1, OverwriteMade
  <1>4. /\ \A e, f \in Entries : e.id = f.id => e.rules = f.rules
        /\ \A e \in Entries : e.id \notin Days
    BY OperandAssumption
  <1>5. \A c \in Days : schedule'.at[c].id \in Days \/ schedule'.at[c] \in Entries
    BY <1>2, <1>3
  <1>6. Identified(schedule')
    BY <1>2, <1>3, <1>4 DEF Identified
  <1>7. IInv'
    BY <1>2, <1>3, <1>5, <1>6 DEF IInv, IsAnnual, Identified
  <1>8. Year!Overwrite(Meaning(o), d, first, last)
    BY <1>2, <1>3, OverwriteRefines
  <1> QED
    BY <1>1, <1>7, <1>8, OperandFacts DEF Year!Next

(* Every step keeps the invariant and is one of the abstract year, or none.*)
LEMMA StepSound == IInv /\ [Next]_vars => IInv' /\ [Year!Next]_(Meaning(schedule))
  <1> SUFFICES ASSUME IInv, [Next]_vars
               PROVE  IInv' /\ [Year!Next]_(Meaning(schedule))
    OBVIOUS
  <1>1. CASE UNCHANGED vars
    BY <1>1 DEF vars, IInv, IsAnnual, Identified, Meaning, GetDaySchedule, Default
  <1>2. CASE Next
    BY <1>2, CombineStep, MapStep, InvertStep, NormalizeStep, ClipStep, AsTypeStep,
       SelectStep, OverwriteStep DEF Next
  <1> QED
    BY <1>1, <1>2

(* Whatever operations a caller applies, on periods that share a rule set  *)
(* object, on defaults and on overrides, the schedule stands for the year  *)
(* that the operations compute at every step of every kind of day of every *)
(* date (Schedule.cs, RuleSet.cs, DaySchedule.cs).                         *)
THEOREM OperationsImplementYear == Spec => ImplementsYear
  <1>1. Init => Year!Init
    BY OperandFacts DEF Init, Year!Init
  <1> QED
    BY <1>1, InitSound, StepSound, PTL DEF Spec, ImplementsYear, Year!Spec

(* Every schedule a caller makes satisfies the invariant.                  *)
LEMMA AlwaysAnnual == Spec => []IInv
  BY InitSound, StepSound, PTL DEF Spec

(***************************************************************************)
(* Reading an export back.                                                 *)
(***************************************************************************)

(* EnergyPlus finds the period of a date.                                  *)
LEMMA PeriodRead ==
    ASSUME NEW a, Identified(a), NEW fields, NEW d \in Days
    PROVE  First(ToIdf(a, fields), d) = fields[a.at[d].rules]
  <1> DEFINE P == Periods(a)
             object == ToIdf(a, fields)
             good(c) == c[1] >= d /\ \A q \in object : q[1] >= d => c[1] <= q[1]
             c == CHOOSE c \in object : good(c)
  <1>1. Splits(P, Starts(a))
    BY PeriodsSplit
  <1>2. PICK p \in P : d \in p.start..p.end
    BY <1>1 DEF Splits
  <1>3. \A q \in P : q.start \in Int /\ q.end \in Days /\ q.end \in Int /\ q.start <= q.end
    BY <1>1, Dates DEF Splits
  <1>4. \A q \in P : q.end >= d => p.end <= q.end
    <2> SUFFICES ASSUME NEW q \in P, q.end >= d, q.end < p.end PROVE FALSE
      BY <1>3
    <2>1. q.end \in p.start..p.end /\ q.end \in q.start..q.end
      BY <1>2, <1>3
    <2>2. p = q
      BY <1>1, <2>1 DEF Splits
    <2> QED
      BY <1>3, <2>2
  <1>5. \A q \in P : q.end = p.end => q = p
    <2> SUFFICES ASSUME NEW q \in P, q.end = p.end PROVE q = p
      OBVIOUS
    <2>1. q.end \in p.start..p.end /\ q.end \in q.start..q.end
      BY <1>3
    <2> QED
      BY <1>1, <2>1 DEF Splits
  <1>6. /\ \A x \in object : \E q \in P : x = <<q.end, fields[q.rules]>>
        /\ \A q \in P : <<q.end, fields[q.rules]>> \in object
    BY DEF ToIdf
  <1>7. First(object, d) = c[2]
    BY DEF First
  <1> HIDE DEF P, object
  <1>8. p.end >= d
    BY <1>2, <1>3, Dates
  <1>9. good(<<p.end, fields[p.rules]>>)
    BY <1>4, <1>6, <1>8
  <1>10. c \in object /\ good(c)
    <2>1. <<p.end, fields[p.rules]>> \in object
      BY <1>6
    <2> HIDE DEF good
    <2> QED
      BY <1>9, <2>1
  <1> HIDE DEF c
  <1>11. PICK q \in P : c = <<q.end, fields[q.rules]>>
    BY <1>6, <1>10
  <1>12. q.end >= d /\ q.end <= p.end
    BY <1>6, <1>8, <1>10, <1>11
  <1>13. q = p
    BY <1>3, <1>4, <1>5, <1>12
  <1>14. p.rules = a.at[d].rules
    BY <1>2, PeriodRules DEF P
  <1> QED
    BY <1>7, <1>11, <1>13, <1>14 DEF object

(* ... and the segment of a step.                                          *)
LEMMA SegmentRead ==
    ASSUME NEW x, NEW s \in Steps
    PROVE  First(Compactize(x), s) = x.values[s]
  <1> DEFINE v == x.values
             L == Cardinality(Steps)
             E == {u \in Steps : u + 1 \notin Steps \/ v[u + 1] # v[u]}
             pairs == Compactize(x)
             good(c) == c[1] >= s /\ \A q \in pairs : q[1] >= s => c[1] <= q[1]
             c == CHOOSE c \in pairs : good(c)
  <1>1. L \in Nat /\ L >= 1 /\ Steps = 1..L
    BY ScheduleAssumption
  <1>2. /\ \A p \in pairs : \E u \in E : p = <<u, v[u]>>
        /\ \A u \in E : <<u, v[u]>> \in pairs
    BY DEF Compactize
  <1>3. First(pairs, s) = c[2]
    BY DEF First
  <1> HIDE DEF L, pairs, v
  <1>4. \A u \in E : u \in Steps /\ u \in Nat
    BY <1>1
  <1>5. PICK m \in E : m >= s /\ \A u \in E : u >= s => m <= u
    <2> DEFINE T == {u \in E : u >= s}
    <2>1. L \in T
      BY <1>1
    <2>2. T \subseteq Nat
      BY <1>4
    <2> HIDE DEF T, E
    <2>3. \E m \in T : \A u \in T : m <= u
      BY <2>1, <2>2, Least
    <2> QED
      BY <2>3 DEF T
  <1>6. v[m] = v[s]
    <2> SUFFICES ASSUME v[m] # v[s] PROVE FALSE
      OBVIOUS
    <2> DEFINE T == {j \in s..m : v[j] # v[s]}
    <2>1. m \in T /\ T \subseteq Nat
      <3>1. m \in Nat /\ s \in Nat
        BY <1>1, <1>4
      <3>2. \A j \in s..m : j \in Nat
        BY <3>1
      <3>3. m \in s..m
        BY <1>5, <3>1
      <3> QED
        BY <3>2, <3>3
    <2> HIDE DEF T
    <2>2. PICK j \in T : \A i \in T : j <= i
      BY <2>1, Least
    <2>3. j \in s..m /\ v[j] # v[s]
      BY <2>2 DEF T
    <2>4. m \in Steps /\ s \in Int /\ m \in Int /\ j \in Int
      BY <1>1, <1>4, <2>3
    <2>5. j # s
      BY <2>3
    <2>6. j - 1 \in s..m /\ j - 1 < j /\ j - 1 \in Steps /\ j \in Steps
      BY <1>1, <2>3, <2>4, <2>5
    <2>7. v[j - 1] = v[s]
      <3>1. j - 1 \notin T
        BY <2>2, <2>4, <2>6
      <3> QED
        BY <2>6, <3>1 DEF T
    <2>8. (j - 1) + 1 = j
      BY <2>4
    <2>9. j - 1 \in E
      BY <2>3, <2>6, <2>7, <2>8
    <2>10. m <= j - 1
      BY <1>5, <2>6, <2>9
    <2> QED
      BY <2>3, <2>4, <2>10
  <1>7. good(<<m, v[m]>>)
    <2> SUFFICES ASSUME NEW q \in pairs, q[1] >= s PROVE m <= q[1]
      BY <1>5
    <2>1. PICK u \in E : q = <<u, v[u]>>
      BY <1>2
    <2> HIDE DEF E
    <2> QED
      BY <1>5, <2>1
  <1>8. c \in pairs /\ good(c)
    <2>1. <<m, v[m]>> \in pairs
      BY <1>2
    <2> HIDE DEF good
    <2> QED
      BY <1>7, <2>1
  <1> HIDE DEF c
  <1>9. PICK u \in E : c = <<u, v[u]>>
    BY <1>2, <1>8
  <1>10. u >= s /\ u <= m
    <2>1. <<m, v[m]>> \in pairs
      BY <1>2
    <2> HIDE DEF E
    <2> QED
      BY <1>5, <1>8, <1>9, <2>1
  <1>11. u = m
    BY <1>4, <1>5, <1>10
  <1> QED
    BY <1>3, <1>6, <1>9, <1>11 DEF pairs, v

(* No two entries name one kind of day.                                    *)
Alone(entries) == \A e, f \in entries : e.for \cap f.for # {} => e = f

(* The entries of a group of kinds of day name none twice.                 *)
LEMMA GroupAlone ==
    ASSUME NEW rules, NEW group, NEW apart \in BOOLEAN, NEW day
    PROVE  /\ Alone(GroupEntries(rules, group, apart, day))
           /\ \A e \in GroupEntries(rules, group, apart, day) : e.for \subseteq group
  <1>1. CASE apart
    <2>1. GroupEntries(rules, group, apart, day) = {Entry({k}, day[k]) : k \in group}
      BY <1>1 DEF GroupEntries
    <2>2. \A k \in group : Entry({k}, day[k]).for = {k}
      BY EntryFields
    <2>3. Alone({Entry({k}, day[k]) : k \in group})
      <3> SUFFICES ASSUME NEW j \in group, NEW k \in group,
                          Entry({j}, day[j]).for \cap Entry({k}, day[k]).for # {}
                   PROVE  j = k
        BY DEF Alone
      <3> QED
        BY <2>2
    <2>4. ASSUME NEW e \in {Entry({k}, day[k]) : k \in group} PROVE e.for \subseteq group
      <3>1. PICK k \in group : e = Entry({k}, day[k])
        OBVIOUS
      <3> QED
        BY <2>2, <3>1
    <2> QED
      BY <2>1, <2>3, <2>4
  <1>2. CASE ~apart
    <2>1. GroupEntries(rules, group, apart, day)
          = {Entry(group, Default(rules, CHOOSE k \in group : TRUE))}
      BY <1>2 DEF GroupEntries
    <2> QED
      BY <2>1, EntryFields DEF Alone
  <1> QED
    BY <1>1, <1>2

(* Nor does the entry of the other days.                                   *)
LEMMA OthersAlone ==
    ASSUME NEW entries, Alone(entries), NEW day
    PROVE  Alone(WithOthers(entries, day))
  <1> DEFINE others == Entry((Kinds \union {"design"}) \ UNION {e.for : e \in entries}, day)
  <1>1. WithOthers(entries, day) = entries \union {others}
    BY DEF WithOthers
  <1>2. \A e \in entries : e.for \cap others.for = {}
    BY EntryFields
  <1> HIDE DEF others
  <1> QED
    BY <1>1, <1>2 DEF Alone

(* Weekdays, weekends, the holiday and the other days name no kind twice, ...*)
LEMMA GroupedAlone ==
    ASSUME NEW rules, NEW day, NEW a \in BOOLEAN, NEW b \in BOOLEAN, NEW h \in BOOLEAN, NEW rest
    PROVE  Alone(WithOthers(GroupEntries(rules, Weekday, a, day)
                            \union GroupEntries(rules, Weekend, b, day)
                            \union (IF h THEN {Entry({"holiday"}, day["holiday"])} ELSE {}),
                            rest))
  <1> DEFINE A == GroupEntries(rules, Weekday, a, day)
             B == GroupEntries(rules, Weekend, b, day)
             C == IF h THEN {Entry({"holiday"}, day["holiday"])} ELSE {}
  <1>1. /\ Alone(A) /\ \A e \in A : e.for \subseteq Weekday
        /\ Alone(B) /\ \A e \in B : e.for \subseteq Weekend
    BY GroupAlone
  <1>2. Alone(C) /\ \A e \in C : e.for \subseteq {"holiday"}
    BY EntryFields DEF Alone
  <1>3. /\ Weekday \cap Weekend = {}
        /\ "holiday" \notin Weekday /\ "holiday" \notin Weekend
    BY ScheduleAssumption
  <1> HIDE DEF A, B, C
  <1>4. Alone(A \union B \union C)
    BY <1>1, <1>2, <1>3 DEF Alone
  <1> QED
    BY <1>4, OthersAlone DEF A, B, C

(* ... so the export of a rule set names none twice, ...                   *)
LEMMA RuleSetAlone == \A rules : Alone(RuleSetFields(rules))
  <1> SUFFICES ASSUME NEW rules PROVE Alone(RuleSetFields(rules))
    OBVIOUS
  <1>1. /\ (\E k \in Weekday : rules.days[k] # None) \in BOOLEAN
        /\ (\E k \in Weekend : rules.days[k] # None) \in BOOLEAN
        /\ (rules.days["holiday"] # None) \in BOOLEAN
    OBVIOUS
  <1> QED
    BY <1>1, GroupedAlone DEF RuleSetFields

(* ... nor does that of a SimpleDragon model ...                           *)
LEMMA LegacyAlone == \A rules : Alone(LegacyFields(rules))
  <1> SUFFICES ASSUME NEW rules PROVE Alone(LegacyFields(rules))
    OBVIOUS
  <1> DEFINE distinct(k) == rules.days[k] # None /\ rules.days[k] # Default(rules, k)
  <1>1. /\ (\E k \in Weekday : distinct(k)) \in BOOLEAN
        /\ (\E k \in Weekend : distinct(k)) \in BOOLEAN
        /\ distinct("holiday") \in BOOLEAN
    OBVIOUS
  <1> QED
    BY <1>1, GroupedAlone DEF LegacyFields

(* ... nor that of an InvisibleDragon model.                               *)
LEMMA ModelAlone == \A rules : Alone(ModelFields(rules))
  <1> SUFFICES ASSUME NEW rules PROVE Alone(ModelFields(rules))
    OBVIOUS
  <1> DEFINE each == {Entry({k}, GetDaySchedule(rules, k)) : k \in Kinds \ {"holiday"}}
             shared == Entry({"holiday", "design"}, GetDaySchedule(rules, "holiday"))
  <1>1. ModelFields(rules) = each \union {shared}
    BY DEF ModelFields
  <1>2. shared.for = {"holiday", "design"} /\ "design" \notin Kinds
    BY EntryFields, ScheduleAssumption DEF Kinds
  <1>3. \A k \in Kinds \ {"holiday"} : Entry({k}, GetDaySchedule(rules, k)).for = {k}
    BY EntryFields
  <1>4. Alone(each)
    <2> SUFFICES ASSUME NEW j \in Kinds \ {"holiday"}, NEW k \in Kinds \ {"holiday"},
                        Entry({j}, GetDaySchedule(rules, j)).for
                           \cap Entry({k}, GetDaySchedule(rules, k)).for # {}
                 PROVE  j = k
      BY DEF Alone
    <2> QED
      BY <1>3
  <1>5. \A e \in each : e.for \cap {"holiday", "design"} = {}
    <2> SUFFICES ASSUME NEW e \in each PROVE e.for \cap {"holiday", "design"} = {}
      OBVIOUS
    <2>1. PICK k \in Kinds \ {"holiday"} : e = Entry({k}, GetDaySchedule(rules, k))
      OBVIOUS
    <2>2. k # "design" /\ k # "holiday"
      BY <1>2
    <2> QED
      BY <1>3, <2>1, <2>2
  <1> HIDE DEF each, shared
  <1> QED
    BY <1>1, <1>2, <1>4, <1>5 DEF Alone

(* Fields that tell what each rule set has, of every kind of day and in one*)
(* entry, read back as the schedule.                                       *)
LEMMA FieldsReadBack ==
    ASSUME IsAnnual(schedule), Identified(schedule), NEW fields,
           \A rules \in RuleSets(schedule) :
              /\ Tell(fields[rules], rules)
              /\ Cover(fields[rules], Kinds \cup {"design"})
              /\ Alone(fields[rules])
    PROVE  ReadsBack(fields)
  <1> DEFINE object == ToIdf(schedule, fields)
  <1> SUFFICES ASSUME NEW d \in Days
               PROVE  /\ \A k \in Kinds \union {"design"} :
                            Cardinality({e \in First(object, d) : k \in e.for}) = 1
                      /\ \A k \in Kinds, s \in Steps :
                            Read(object, d, k, s)
                            = GetDaySchedule(schedule.at[d].rules, k).values[s]
    BY DEF ReadsBack
  <1> DEFINE rules == schedule.at[d].rules
             entries == fields[rules]
  <1>1. First(object, d) = entries
    BY PeriodRead
  <1>2. rules \in RuleSets(schedule)
    BY DEF RuleSets
  <1>3. /\ Tell(entries, rules) /\ Cover(entries, Kinds \cup {"design"}) /\ Alone(entries)
    BY <1>2
  <1> HIDE DEF object, entries, rules
  <1>4. ASSUME NEW k \in Kinds \union {"design"}
        PROVE  \E e \in entries : k \in e.for /\ \A f \in entries : k \in f.for => f = e
    <2>1. PICK e \in entries : k \in e.for
      BY <1>3 DEF Cover
    <2>2. ASSUME NEW f \in entries, k \in f.for PROVE f = e
      <3>1. k \in e.for \cap f.for
        BY <2>1, <2>2
      <3> QED
        BY <1>3, <3>1 DEF Alone
    <2> QED
      BY <2>1, <2>2
  <1>5. ASSUME NEW k \in Kinds \union {"design"}
        PROVE  Cardinality({e \in First(object, d) : k \in e.for}) = 1
    <2>1. PICK e \in entries : k \in e.for /\ \A f \in entries : k \in f.for => f = e
      BY <1>4
    <2>2. {f \in First(object, d) : k \in f.for} = {e}
      BY <1>1, <2>1
    <2> QED
      BY <2>2, FS_Singleton
  <1>6. ASSUME NEW k \in Kinds, NEW s \in Steps
        PROVE  Read(object, d, k, s) = GetDaySchedule(rules, k).values[s]
    <2> DEFINE e == CHOOSE e \in entries : k \in e.for
    <2>1. e \in entries /\ k \in e.for
      BY <1>4
    <2>2. Read(object, d, k, s) = First(e.until, s)
      BY <1>1 DEF Read
    <2> HIDE DEF e
    <2>3. e.until = Compactize(GetDaySchedule(rules, k))
      BY <1>3, <2>1 DEF Tell
    <2> QED
      BY <2>2, <2>3, SegmentRead
  <1> QED
    BY <1>5, <1>6 DEF rules

(* All three exports read back.                                            *)
LEMMA ExportsSound ==
    ASSUME IsAnnual(schedule), Identified(schedule)
    PROVE  ExportsReadBack
  <1> DEFINE R == RuleSets(schedule)
             plain == [rules \in R |-> RuleSetFields(rules)]
             legacy == [rules \in R |-> LegacyFields(rules)]
             model == [rules \in R |-> ModelFields(rules)]
  <1>1. \A rules \in R : /\ plain[rules] = RuleSetFields(rules)
                         /\ legacy[rules] = LegacyFields(rules)
                         /\ model[rules] = ModelFields(rules)
    OBVIOUS
  <1> HIDE DEF plain, legacy, model
  <1>2. ReadsBack(plain)
    BY <1>1, RuleSetExported, RuleSetAlone, FieldsReadBack
  <1>3. ReadsBack(legacy)
    BY <1>1, LegacyExported, LegacyAlone, FieldsReadBack
  <1>4. ReadsBack(model)
    BY <1>1, ModelExported, ModelAlone, FieldsReadBack
  <1> QED
    BY <1>2, <1>3, <1>4 DEF ExportsReadBack, plain, legacy, model

(* The type invariant is what the constructors promise.                    *)
LEMMA TypesSound == IInv => TypeOK
  <1> SUFFICES ASSUME IInv PROVE TypeOK
    OBVIOUS
  <1>1. IsAnnual(schedule) /\ operations \in 0..MaxOperations
    BY DEF IInv
  <1>2. schedule.type \in Types
    BY <1>1 DEF IsAnnual
  <1>3. ASSUME NEW d \in Days, NEW day \in Slots(schedule.at[d].rules)
        PROVE  day.type = schedule.type /\ \A s \in Steps : Legal(day.type, day.values[s])
    <2>1. schedule.at[d].rules \in RulesOf(schedule.type)
      BY <1>1 DEF IsAnnual
    <2>2. day \in DaysOf(schedule.type)
      BY <1>2, <2>1, RulesFields
    <2> QED
      BY <2>2 DEF DaysOf
  <1> QED
    BY <1>1, <1>2, <1>3 DEF TypeOK

(***************************************************************************)
(* Windows laid over a year.                                               *)
(***************************************************************************)

(* One window of values laid over what the windows before it made.         *)
Laid(annual, w) ==
    IF annual = Refused THEN Refused ELSE Apply(annual, w.entry, w.first, w.last)

(* The year that the windows at the places `placed` make of a default.     *)
Covers(w, d) == d \in w.first..w.last
Covering(W, placed, d) == {i \in placed : Covers(W[i], d)}
Chosen(default, W, placed, d) ==
    IF Covering(W, placed, d) = {} THEN default ELSE W[Max(Covering(W, placed, d))].entry
LaidYear(default, W, placed) ==
    IF \A i \in placed : W[i].entry.rules.type = default.rules.type
    THEN [type |-> default.rules.type, at |-> [d \in Days |-> Chosen(default, W, placed, d)]]
    ELSE Refused

(* The greatest element of a set of places is the one none exceeds.        *)
LEMMA GreatestIsMax ==
    ASSUME NEW S, S \subseteq Nat, NEW m \in S, \A x \in S : x <= m
    PROVE  Max(S) = m
  <1>1. \A k \in S : (\A x \in S : k >= x) => k = m
    OBVIOUS
  <1>2. \A x \in S : m >= x
    OBVIOUS
  <1> QED
    BY <1>1, <1>2, Zenon DEF Max

LEMMA LastPlace ==
    ASSUME NEW n \in Nat, NEW S \in SUBSET (1..n), S # {}
    PROVE  Max(S) \in S /\ \A x \in S : x <= Max(S)
  <1>1. S \subseteq 0..n /\ S \subseteq Nat
    OBVIOUS
  <1>2. PICK m \in S : \A x \in S : x <= m
    BY <1>1, Greatest
  <1>3. Max(S) = m
    BY <1>1, <1>2, GreatestIsMax
  <1> QED
    BY <1>2, <1>3

(* Some of the places 1..n, the last of them m.                            *)
PlacesUpTo(placed, n, m) ==
    placed \in SUBSET (1..n) /\ m \in placed /\ \A i \in placed : i <= m

(* A window laid over an annual schedule, with the schedule's type or not. *)
LEMMA LaidOver ==
    ASSUME NEW t \in Types, NEW at, NEW w
    PROVE  Laid([type |-> t, at |-> at], w)
           = IF w.entry.rules.type = t
             THEN [type |-> t, at |-> [d \in Days |-> IF d \in w.first..w.last THEN w.entry
                                                                               ELSE at[d]]]
             ELSE Refused
  <1> DEFINE annual == [type |-> t, at |-> at]
             over == [d \in Days |-> IF d \in w.first..w.last THEN w.entry ELSE annual.at[d]]
             same == [d \in Days |-> IF d \in w.first..w.last THEN w.entry ELSE at[d]]
  <1>1. annual.type = t /\ annual.at = at
    OBVIOUS
  <1>2. annual # Refused
    <2>1. Refused.type = "refused"
      BY DEF Refused
    <2> QED
      BY <1>1, <2>1, TypeNames
  <1>3. Laid(annual, w) = IF w.entry.rules.type = t THEN [annual EXCEPT !.at = over] ELSE Refused
    <2> HIDE DEF annual, over
    <2> QED
      BY <1>1, <1>2 DEF Laid, Apply, over
  <1>4. over = same
    BY <1>1
  <1> HIDE DEF over, same
  <1>5. [annual EXCEPT !.at = over] = [type |-> t, at |-> over]
    OBVIOUS
  <1> QED
    BY <1>3, <1>4, <1>5 DEF same

(* On each date the window at the last place decides, if it covers it.     *)
LEMMA LastDecides ==
    ASSUME NEW default, NEW W, NEW n \in Nat, NEW placed, NEW m, PlacesUpTo(placed, n, m), NEW d
    PROVE  /\ Covers(W[m], d) => Chosen(default, W, placed, d) = W[m].entry
           /\ ~Covers(W[m], d) =>
                Chosen(default, W, placed, d) = Chosen(default, W, placed \ {m}, d)
  <1>1. CASE Covers(W[m], d)
    <2>1. m \in Covering(W, placed, d) /\ Covering(W, placed, d) \subseteq placed
      BY <1>1 DEF Covering, PlacesUpTo
    <2>2. Covering(W, placed, d) \subseteq Nat
      <3>1. placed \subseteq Nat
        BY DEF PlacesUpTo
      <3> QED
        BY <2>1, <3>1
    <2>3. \A i \in Covering(W, placed, d) : i <= m
      BY <2>1 DEF PlacesUpTo
    <2>4. Max(Covering(W, placed, d)) = m
      BY <2>1, <2>2, <2>3, GreatestIsMax
    <2> QED
      BY <1>1, <2>1, <2>4 DEF Chosen
  <1>2. CASE ~Covers(W[m], d)
    <2>1. Covering(W, placed, d) = Covering(W, placed \ {m}, d)
      BY <1>2 DEF Covering
    <2> QED
      BY <1>2, <2>1 DEF Chosen
  <1> QED
    BY <1>1, <1>2

(* So a year is its last window laid over the year of the others.          *)
LEMMA OneMoreWindow ==
    ASSUME NEW default, default.rules.type \in Types, NEW W, NEW n \in Nat,
           NEW placed, NEW m, PlacesUpTo(placed, n, m)
    PROVE  LaidYear(default, W, placed) = Laid(LaidYear(default, W, placed \ {m}), W[m])
  <1> DEFINE t == default.rules.type
             rest == placed \ {m}
             before == [d \in Days |-> Chosen(default, W, rest, d)]
             after == [d \in Days |-> Chosen(default, W, placed, d)]
             over == [d \in Days |-> IF d \in W[m].first..W[m].last THEN W[m].entry
                                                                    ELSE before[d]]
  <1>1. CASE \A i \in rest : W[i].entry.rules.type = t
    <2>1. LaidYear(default, W, rest) = [type |-> t, at |-> before]
      BY <1>1 DEF LaidYear
    <2>2. Laid([type |-> t, at |-> before], W[m])
          = IF W[m].entry.rules.type = t THEN [type |-> t, at |-> over] ELSE Refused
      <3> HIDE DEF before
      <3> QED
        BY LaidOver
    <2>3. LaidYear(default, W, placed)
          = IF W[m].entry.rules.type = t THEN [type |-> t, at |-> after] ELSE Refused
      <3>1. (\A i \in placed : W[i].entry.rules.type = t) <=> W[m].entry.rules.type = t
        BY <1>1 DEF PlacesUpTo
      <3> HIDE DEF after
      <3> QED
        BY <3>1 DEF LaidYear, after
    <2>4. \A d \in Days : after[d] = over[d]
      <3> SUFFICES ASSUME NEW d \in Days
                   PROVE  after[d] = over[d]
        OBVIOUS
      <3>1. /\ Covers(W[m], d) => Chosen(default, W, placed, d) = W[m].entry
            /\ ~Covers(W[m], d) =>
                 Chosen(default, W, placed, d) = Chosen(default, W, placed \ {m}, d)
        BY LastDecides
      <3> QED
        BY <3>1 DEF Covers
    <2>5. after = over
      BY <2>4
    <2> HIDE DEF after, over, before, rest
    <2>6. Laid(LaidYear(default, W, rest), W[m]) = LaidYear(default, W, placed)
      BY <2>1, <2>2, <2>3, <2>5
    <2> QED
      BY <2>6 DEF rest
  <1>2. CASE ~\A i \in rest : W[i].entry.rules.type = t
    <2>1. LaidYear(default, W, rest) = Refused /\ LaidYear(default, W, placed) = Refused
      BY <1>2 DEF LaidYear
    <2> QED
      BY <2>1 DEF Laid
  <1> QED
    BY <1>1, <1>2

(* The fold lays the windows of values over the year one after another,    *)
(* whatever the order in which it was defined: what it makes of the first  *)
(* k windows is their year, as the least k of which that is false would    *)
(* show.                                                                   *)
LEMMA FoldedYear ==
    ASSUME NEW default, default.rules.type \in Types, NEW n \in Nat,
           NEW W, DOMAIN W = 1..n
    PROVE  FromValueWindows(default, W) = LaidYear(default, W, DOMAIN W)
  <1> DEFINE base == Everyday(default)
             body(g, s) == IF s = {} THEN base ELSE Laid(g[s \ {Max(s)}], W[Max(s)])
             unfolds(g) == g = [s \in SUBSET (DOMAIN W) |-> body(g, s)]
             years == [s \in SUBSET (1..n) |-> LaidYear(default, W, s)]
             fold == CHOOSE g : unfolds(g)
  <1>1. FromValueWindows(default, W) = fold[DOMAIN W]
    BY DEF FromValueWindows, FoldLeft, MapThenFoldSet, Laid
  <1>2. LaidYear(default, W, {}) = base
    <2>1. \A d : Chosen(default, W, {}, d) = default
      BY DEF Chosen, Covering
    <2> QED
      BY <2>1 DEF LaidYear, Everyday
  <1> HIDE DEF base
  <1>3. \A s \in SUBSET (1..n) : years[s] = body(years, s)
    <2> SUFFICES ASSUME NEW s \in SUBSET (1..n)
                 PROVE  years[s] = body(years, s)
      OBVIOUS
    <2>1. CASE s = {}
      BY <1>2, <2>1
    <2>2. CASE s # {}
      <3>1. PlacesUpTo(s, n, Max(s))
        BY <2>2, LastPlace DEF PlacesUpTo
      <3>2. LaidYear(default, W, s) = Laid(LaidYear(default, W, s \ {Max(s)}), W[Max(s)])
        BY <3>1, OneMoreWindow
      <3>3. s \ {Max(s)} \in SUBSET (1..n)
        OBVIOUS
      <3> QED
        BY <2>2, <3>2, <3>3
    <2> QED
      BY <2>1, <2>2
  <1>4. unfolds(years)
    <2>1. years = [s \in SUBSET (1..n) |-> years[s]]
      OBVIOUS
    <2> HIDE DEF years
    <2> QED
      BY <1>3, <2>1
  <1>5. unfolds(fold)
    <2> HIDE DEF unfolds, years
    <2> QED
      BY <1>4
  <1> HIDE DEF fold
  <1>6. \A s \in SUBSET (1..n) : fold[s] = body(fold, s)
    BY <1>5
  <1> DEFINE wrong == {k \in 0..n : fold[1..k] # LaidYear(default, W, 1..k)}
  <1>7. wrong = {}
    <2> SUFFICES ASSUME wrong # {} PROVE FALSE
      OBVIOUS
    <2>1. wrong \subseteq Nat
      OBVIOUS
    <2> HIDE DEF wrong
    <2>2. PICK k \in wrong : \A x \in wrong : k <= x
      BY <2>1, Least
    <2>3. k \in 0..n /\ fold[1..k] # LaidYear(default, W, 1..k)
      BY DEF wrong
    <2>4. CASE k = 0
      <3>1. 1..k = {} /\ {} \in SUBSET (1..n)
        BY <2>4
      <3> QED
        BY <1>2, <1>6, <2>3, <3>1
    <2>5. CASE k # 0
      <3>1. /\ k \in 1..k /\ 1..k \in SUBSET (1..n) /\ 1..k # {}
            /\ (1..k) \ {k} = 1..k - 1 /\ \A i \in 1..k : i <= k
            /\ 1..k \subseteq Nat /\ k - 1 \in 0..n /\ ~(k <= k - 1)
        BY <2>3, <2>5
      <3>2. Max(1..k) = k
        BY <3>1, GreatestIsMax
      <3>3. fold[1..k] = Laid(fold[1..k - 1], W[k])
        BY <1>6, <3>1, <3>2
      <3>4. fold[1..k - 1] = LaidYear(default, W, 1..k - 1)
        BY <2>2, <3>1 DEF wrong
      <3>5. LaidYear(default, W, 1..k) = Laid(LaidYear(default, W, 1..k - 1), W[k])
        <4> DEFINE first == 1..k
        <4>1. PlacesUpTo(first, n, k) /\ first \ {k} = 1..k - 1
          BY <3>1 DEF PlacesUpTo
        <4> HIDE DEF first
        <4>2. LaidYear(default, W, first) = Laid(LaidYear(default, W, first \ {k}), W[k])
          BY <4>1, OneMoreWindow
        <4> QED
          BY <4>1, <4>2 DEF first
      <3> QED
        BY <2>3, <3>3, <3>4, <3>5
    <2> QED
      BY <2>4, <2>5
  <1>8. n \in 0..n
    OBVIOUS
  <1>9. fold[1..n] = LaidYear(default, W, 1..n)
    BY <1>7, <1>8
  <1> QED
    BY <1>1, <1>9

(* For any number of windows in any order, which overlap, repeat or are    *)
(* empty, the constructor that looks for the last window over a date and   *)
(* the one that lays one window after another over the year make the same  *)
(* schedule of them, and refuse the same ones.                             *)
THEOREM WindowConstructorsAgree ==
    ASSUME NEW default, default.rules.type \in Types, NEW Window, NEW windows \in Seq(Window)
    PROVE  FromWindows(default, windows) = FromValueWindows(default, windows)
  <1>1. PICK n \in Nat : DOMAIN windows = 1..n
    OBVIOUS
  <1>2. FromWindows(default, windows) = LaidYear(default, windows, DOMAIN windows)
    BY DEF FromWindows, LaidYear, Chosen, Covering, Covers
  <1> QED
    BY <1>1, <1>2, FoldedYear

(* So the two constructors agree on the windows a caller has.              *)
LEMMA WindowsSound == IsAnnual(schedule) => WindowsAgree
  <1> SUFFICES ASSUME IsAnnual(schedule),
                      NEW v \in {x \in Windows : x.first <= x.last},
                      NEW w \in {x \in Windows : x.first <= x.last}
               PROVE  FromWindows(schedule.at[1], <<v, w>>)
                      = FromValueWindows(schedule.at[1], <<v, w>>)
    BY DEF WindowsAgree
  <1>1. schedule.at[1].rules.type \in Types
    BY AnnualRules, SomePoint
  <1>2. <<v, w>> \in Seq({v, w})
    OBVIOUS
  <1> QED
    BY <1>1, <1>2, WindowConstructorsAgree

(* A schedule keeps its type and legal values through every sequence of    *)
(* operations, and so do its three exports and its two constructors from   *)
(* windows say the same of it.                                             *)
THEOREM SchedulesAreSound == Spec => []ScheduleSound
  <1>1. IInv => ScheduleSound
    BY TypesSound, ExportsSound, WindowsSound DEF IInv, ScheduleSound
  <1> QED
    BY <1>1, AlwaysAnnual, PTL
=============================================================================
