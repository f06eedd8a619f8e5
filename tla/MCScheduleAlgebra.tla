-------------------------- MODULE MCScheduleAlgebra --------------------------
(* ScheduleAlgebra for TLC: a few schedules that differ in where they change *)
(* and in which kinds of day they override.                                  *)
EXTENDS ScheduleAlgebra

Day(type, a, b) == [type |-> type, values |-> [s \in Steps |-> IF s = 1 THEN a ELSE b]]

Rules(weekdays, weekends, overrides) ==
    [type |-> weekdays.type, weekdays |-> weekdays, weekends |-> weekends,
     days |-> [k \in Kinds |-> IF k \in DOMAIN overrides THEN overrides[k] ELSE None]]

\* `early` until `last`, `late` afterwards.
Annual(id, early, late, last) ==
    [type |-> early.type,
     at |-> [d \in Days |-> IF d <= last THEN [id |-> id, rules |-> early]
                                         ELSE [id |-> id + 1, rules |-> late]]]

NoOverride == [k \in {} |-> None]

Flat(type, n) == Rules(Day(type, n, n), Day(type, n, n), NoOverride)

\* On at the first step of weekdays but monday, and on holidays.
OnOffYear ==
    Annual(100, Rules(Day("onoff", 1, 0), Day("onoff", 0, 0),
                 [k \in {"monday", "holiday"} |->
                    IF k = "holiday" THEN Day("onoff", 1, 1) ELSE Day("onoff", 0, 0)]),
           Flat("onoff", 1), 1)

\* The override of saturday repeats the default, that of tuesday does not.
RealYear ==
    Annual(110, Rules(Day("real", 2, 1), Day("real", 1, 1),
                 [k \in {"tuesday", "saturday"} |->
                    IF k = "tuesday" THEN Day("real", 0, 2) ELSE Day("real", 1, 1)]),
           Rules(Day("real", -1, 2), Day("real", 2, 2), NoOverride), 2)

\* Cold but on tuesdays; the weekends default is never used.
TemperatureYear ==
    Annual(120, Flat("temperature", 20),
           Rules(Day("temperature", 18, 18), Day("temperature", 18, 60),
                 [k \in {"tuesday", "saturday", "holiday"} |-> Day("temperature", 19, 21)]), 1)

FractionYear ==
    Annual(130, Rules(Day("fraction", 0, 1), Day("fraction", 1, 1),
                 [k \in {"holiday"} |-> Day("fraction", 0, 0)]), Flat("fraction", 1), 2)

MCOperands == {OnOffYear, RealYear, TemperatureYear, FractionYear}
=============================================================================
