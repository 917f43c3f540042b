----------------------------- MODULE AmountForms ----------------------------
(* html_form_input_unit, a size written as a number and a unit, over         *)
(* html_size_unit, and html_datetime, a date written as five fields.         *)
EXTENDS Integers, Sequences, FiniteSetsExt

CONSTANTS
    Bases,      \* the value of kilo in each family of units: decimal, binary
    MaxPower,   \* the largest power of the base that has a unit
    Months,     \* the days of each month
    Hours,      \* the hours of a day
    Minutes,    \* the minutes of an hour
    TypoMinute  \* the minute whose entry in the list has the name of another,
                \* the one two places further: 26 in the code

ASSUME AmountAssumption ==
    /\ Bases \in [{0, 1} -> Nat \ {0, 1}]
    /\ MaxPower \in Nat \ {0}
    /\ Hours \in Nat \ {0} /\ Minutes \in Nat /\ TypoMinute + 2 < Minutes

(* The size: val, what the field and the two lists show, and the border of   *)
(* the field, red once a value was refused. max is 0 when there is none.     *)

Unit(base, power) == Bases[base] ^ power

UnitOf(s) == Unit(s.base, s.power)

OutOfRange(s) == s.val < s.min \/ (s.max # 0 /\ s.val > s.max)

(* check_min_max_compliance: an exception the first time                     *)
Checked(s) == [s EXCEPT !.red = OutOfRange(s), !.stop = OutOfRange(s) /\ ~s.red]

(* The field changed, by the user or by set_field_val.                       *)
OnField(s) ==
    LET t == Checked([s EXCEPT !.val = s.field * UnitOf(s)])
    IN  IF t.stop THEN t ELSE [t EXCEPT !.told = TRUE]

SetField(s, n) == IF s.field = n THEN s ELSE OnField([s EXCEPT !.field = n])

SetFieldVal(s) == SetField(s, s.val \div UnitOf(s))

(* The unit changed. A value out of range is brought back to the bound, and  *)
(* then is what the field shows of it.                                       *)
OnUnit(s) ==
    LET t == Checked([s EXCEPT !.val = s.field * UnitOf(s)])
        low == IF t.val < t.min THEN SetFieldVal([t EXCEPT !.val = t.min]) ELSE t
        high == IF low.max # 0 /\ low.val > low.max
                THEN SetFieldVal([low EXCEPT !.val = low.max]) ELSE low
    IN  IF t.stop THEN t ELSE [high EXCEPT !.told = @ \/ ~high.stop]

(* set_value_to_largest_unit: the unit that gives the smallest number, the   *)
(* binary one if there are two, and the family shown if it is no unit.       *)
LargestUnit(s) ==
    LET divides == {<<b, p>> \in {0, 1} \X (1..MaxPower) :
                        s.val >= Unit(b, p) /\ s.val % Unit(b, p) = 0}
        most == CHOOSE u \in divides :
                    \A w \in divides :
                        \/ Unit(u[1], u[2]) > Unit(w[1], w[2])
                        \/ Unit(u[1], u[2]) = Unit(w[1], w[2]) /\ u[1] >= w[1]
        best == IF divides = {} THEN <<s.base, 0>> ELSE most
    IN  SetFieldVal([s EXCEPT !.base = best[1], !.power = best[2]])

SetAmount(s, n) == LargestUnit([s EXCEPT !.val = n])

SetRange(s, low, high) ==
    LET t == [s EXCEPT !.min = low, !.max = high]
        u == IF t.val < low THEN SetAmount(t, low) ELSE t
    IN  IF high # 0 /\ u.val > high THEN SetAmount(u, high) ELSE u

(* A new field shows nothing, and zero is a number of kibioctets.            *)
NewAmount(n) ==
    LET s == [val |-> n, min |-> 0, max |-> 0, field |-> -1, base |-> 1, power |-> 0,
              red |-> FALSE, told |-> FALSE, stop |-> FALSE]
        shown == [s EXCEPT !.field = n, !.power = IF n = 0 THEN 1 ELSE 0]
    IN  LargestUnit(shown)

PostUnits(s, power, base) ==
    LET p == IF s.power = power THEN s ELSE OnUnit([s EXCEPT !.power = power])
    IN  IF p.stop \/ p.base = base THEN p ELSE OnUnit([p EXCEPT !.base = base])

PostAmount(s, post) ==
    LET f == SetField(s, post.field)
    IN  IF f.stop THEN f ELSE PostUnits(f, post.power, post.base)

-----------------------------------------------------------------------------
(* The date: the fields shown, and what they make of it, in minutes since    *)
(* the first one. A day that its month has not is one of the next month, as  *)
(* timegm takes it. Leap years are left out, and so are the years from 70 to *)
(* 1969, which the field of a page refuses: get_value ends with WEBDAR_BUG.  *)

DaysBefore(month) == MapThenSumSet(LAMBDA m : Months[m], 1..(month - 1))

DaysOfYear == DaysBefore(Len(Months) + 1)

DateValue(d) ==
    ((d.year * DaysOfYear + DaysBefore(d.month) + d.day - 1) * Hours + d.hour) * Minutes + d.minute

NewDate == [year |-> 0, month |-> 1, day |-> 1, hour |-> 0, minute |-> 0, told |-> FALSE, stop |-> FALSE]

(* set_value; only fields that change fire an event.                         *)
SetDate(d, n) ==
    LET year == n \div (DaysOfYear * Hours * Minutes)
        days == (n \div (Hours * Minutes)) % DaysOfYear
        month == CHOOSE m \in DOMAIN Months : DaysBefore(m) <= days /\ days < DaysBefore(m + 1)
        with == [d EXCEPT !.year = year, !.month = month, !.day = days - DaysBefore(month) + 1,
                          !.hour = (n \div Minutes) % Hours, !.minute = n % Minutes]
    IN  [with EXCEPT !.told = @ \/ with # d]

(* What a request gives for a year that is no number, or one below 70        *)
NoYear == -1

(* A request tells the minute by the name of its entry, and the first entry  *)
(* of this name is selected. Without a year it is the first one, after an    *)
(* event for what was posted.                                                *)
MinuteName(m) == IF m = TypoMinute THEN TypoMinute + 2 ELSE m

PostDate(d, post) ==
    LET minute == CHOOSE m \in 0..(Minutes - 1) :
                    /\ MinuteName(m) = MinuteName(post.minute)
                    /\ \A n \in 0..(m - 1) : MinuteName(n) # MinuteName(post.minute)
        with == [d EXCEPT !.year = IF post.year = NoYear THEN 0 ELSE post.year,
                          !.month = post.month, !.day = post.day,
                          !.hour = post.hour, !.minute = minute]
    IN  [with EXCEPT !.told = @ \/ with # d \/ post.year = NoYear]
=============================================================================
