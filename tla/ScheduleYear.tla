---------------------------- MODULE ScheduleYear ----------------------------
(* What an annual schedule promises: a value for every step of every kind   *)
(* of day on every date of the year, on which each operation works point by *)
(* point. Nothing here knows rule sets, overrides, defaults or periods.     *)
EXTENDS ScheduleTypes, FiniteSetsExt

CONSTANTS
    Days,      \* the dates of the year, 1..n
    Kinds,     \* the kinds of day: monday ... sunday and holiday
    Steps,     \* the steps of a day, 1..n
    Others,    \* the years an operation may be given
    Numbers    \* the numbers an operation may be given

VARIABLE year  \* its type and its values

Values == [Days -> [Kinds -> [Steps -> Int]]]

\* The year with the value F(d, k, s) at each point, when the type allows it.
AtEvery(type, F(_, _, _)) ==
    /\ \A d \in Days, k \in Kinds, s \in Steps : Legal(type, F(d, k, s))
    /\ year' = [type |-> type,
                at |-> [d \in Days |-> [k \in Kinds |-> [s \in Steps |-> F(d, k, s)]]]]

Init == year \in Others

CombineWith(op, other) ==
    LET F(d, k, s) == Value(op, year.at[d][k][s], other.at[d][k][s])
    IN  /\ ZipDefined(op, year.type, other.type)
        /\ \A d \in Days, k \in Kinds, s \in Steps :
              Computable(op, year.at[d][k][s], other.at[d][k][s])
        /\ AtEvery(ZipType(op, year.type, other.type), F)

Map(op, n) ==
    LET F(d, k, s) == Value(op, year.at[d][k][s], n)
    IN  /\ ScalarDefined(op, year.type)
        /\ \A d \in Days, k \in Kinds, s \in Steps : Computable(op, year.at[d][k][s], n)
        /\ AtEvery(ScalarType(op, year.type), F)

Invert ==
    LET F(d, k, s) == 1 - year.at[d][k][s]
    IN  year.type = "onoff" /\ AtEvery("onoff", F)

\* Each day is divided by its own largest value.
Normalize ==
    LET top(d, k) == Max({year.at[d][k][s] : s \in Steps})
        divisor(d, k) == IF top(d, k) = 0 THEN 1 ELSE top(d, k)
        F(d, k, s) == Quotient(year.at[d][k][s], divisor(d, k))
    IN  /\ \A d \in Days, k \in Kinds, s \in Steps : Divides(year.at[d][k][s], divisor(d, k))
        /\ AtEvery(IF year.type = "onoff" THEN "real" ELSE year.type, F)

Clip(low, high) ==
    LET F(d, k, s) == LET v == year.at[d][k][s] IN
                      IF v < low THEN low ELSE IF v > high THEN high ELSE v
    IN  low <= high /\ AtEvery(year.type, F)

AsType(type) == LET F(d, k, s) == year.at[d][k][s] IN AtEvery(type, F)

\* The schedule is the condition, `yes` and `no` are the results.
Where(yes, no) ==
    LET F(d, k, s) == IF year.at[d][k][s] = 1 THEN yes.at[d][k][s] ELSE no.at[d][k][s]
    IN  year.type = "onoff" /\ yes.type = no.type /\ AtEvery(yes.type, F)

\* Dates first..last take the values another year has on one date.
Overwrite(other, date, first, last) ==
    LET F(d, k, s) == IF d \in first..last THEN other.at[date][k][s] ELSE year.at[d][k][s]
    IN  other.type = year.type /\ AtEvery(year.type, F)

Next ==
    \/ \E op \in ZipOps, o \in Others : CombineWith(op, o)
    \/ \E op \in ScalarOps, n \in Numbers : Map(op, n)
    \/ Invert
    \/ Normalize
    \/ \E low, high \in Numbers : Clip(low, high)
    \/ \E type \in Types : AsType(type)
    \/ \E yes, no \in Others : Where(yes, no)
    \/ \E o \in Others, d, first, last \in Days : first <= last /\ Overwrite(o, d, first, last)

Spec == Init /\ [][Next]_year
=============================================================================
