--------------------------- MODULE ScheduleTypes ---------------------------
(* The types of schedules and what an operation makes of two types and of  *)
(* two values (ScheduleType.cs and the type rules of DaySchedule.cs).      *)
(* Values are whole numbers: the operations and the limits are the code's, *)
(* doubles and their rounding are left out.                                *)
EXTENDS Integers

Types == {"temperature", "onoff", "fraction", "real"}

\* The values a schedule of a type may hold.
Legal(type, v) ==
    CASE type = "temperature" -> v \in -50..200
      [] type \in {"onoff", "fraction"} -> v \in 0..1
      [] OTHER -> v \in Int

Comparisons == {"EQ", "NE", "LT", "LE", "GT", "GE"}

\* Operations of two schedules.
ZipOps == Comparisons \union {"MUL", "DIV", "ADD", "SUB", "AND", "OR", "MIN", "MAX"}

\* Operations of a schedule and a number; the last two have the number on the left.
ScalarOps == Comparisons \union {"MUL", "DIV", "ADD", "SUB", "MIN", "MAX", "RSUB", "RDIV"}

\* The pairs of types on which an operation of two schedules is defined.
ZipDefined(op, l, r) ==
    CASE op \in {"ADD", "SUB"} -> "onoff" \notin {l, r} /\ (l = "fraction" <=> r = "fraction")
      [] op = "DIV" -> l # "onoff" /\ r = "real"
      [] op \in {"AND", "OR"} -> l = "onoff" /\ r = "onoff"
      [] op \in {"MIN", "MAX"} -> l = r /\ l # "onoff"
      [] OTHER -> TRUE

\* The strongest of two types: the product of a temperature and anything is one.
Strongest(l, r) ==
    CASE "temperature" \in {l, r} -> "temperature"
      [] "real" \in {l, r} -> "real"
      [] "fraction" \in {l, r} -> "fraction"
      [] OTHER -> "onoff"

ZipType(op, l, r) ==
    CASE op \in Comparisons -> "onoff"
      [] op \in {"DIV", "MIN", "MAX", "AND", "OR"} -> l
      [] OTHER -> Strongest(l, r)

ScalarDefined(op, type) ==
    /\ op \in {"ADD", "SUB", "RSUB", "MIN", "MAX"} => type # "onoff"
    /\ op = "RDIV" => type = "real"

ScalarType(op, type) ==
    CASE op \in Comparisons -> "onoff"
      [] op \in {"MUL", "DIV"} /\ type = "onoff" -> "real"
      [] OTHER -> type

Bit(b) == IF b THEN 1 ELSE 0

\* Division is modelled where the quotient is a whole number.
Divides(x, y) == y # 0 /\ \E q \in -200..200 : q * y = x

Quotient(x, y) == CHOOSE q \in -200..200 : q * y = x

\* Division by zero is refused, and so is a quotient the model does not have.
Computable(op, x, y) == (op = "DIV" => Divides(x, y)) /\ (op = "RDIV" => Divides(y, x))

Value(op, x, y) ==
    CASE op = "MUL" -> x * y
      [] op = "ADD" -> x + y
      [] op = "SUB" -> x - y
      [] op = "RSUB" -> y - x
      [] op = "DIV" -> Quotient(x, y)
      [] op = "RDIV" -> Quotient(y, x)
      [] op = "MIN" -> IF y < x THEN y ELSE x
      [] op = "MAX" -> IF y > x THEN y ELSE x
      [] op = "AND" -> Bit(x = 1 /\ y = 1)
      [] op = "OR" -> Bit(x = 1 \/ y = 1)
      [] op = "EQ" -> Bit(x = y)
      [] op = "NE" -> Bit(x # y)
      [] op = "LT" -> Bit(x < y)
      [] op = "LE" -> Bit(x <= y)
      [] op = "GT" -> Bit(x > y)
      [] op = "GE" -> Bit(x >= y)
=============================================================================
