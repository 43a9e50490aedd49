------------------------ MODULE OpeningHoursProofs ------------------------
(***************************************************************************)
(* The comparisons of restaurant-hours.util.ts against a clock that goes   *)
(* round, for a day of any length, a week of any number of days and any    *)
(* texts; and that however edits overlap or die, the rows are those of the *)
(* last edit that went through alone.                                      *)
(***************************************************************************)
EXTENDS OpeningHours, TLAPS

-----------------------------------------------------------------------------
(* Arithmetic *)

\* Round the clock is forward, or forward over midnight.
LEMMA ClockwiseIs ==
    ASSUME NEW a \in Minutes, NEW b \in Minutes
    PROVE  Clockwise(a, b) = IF a <= b THEN b - a ELSE b - a + Day
<1>1. Day \in Nat \ {0} /\ a \in Int /\ b \in Int /\ 0 <= a /\ a < Day /\ 0 <= b /\ b < Day
  BY HoursAssumption DEF Minutes
<1>2. \A x \in Nat : x < Day => x % Day = x
  BY <1>1
<1>3. \A x \in Int : x < 0 /\ x >= -Day => x % Day = x + Day
  BY <1>1
<1>. QED
  BY <1>1, <1>2, <1>3 DEF Clockwise

\* The three comparisons of isOpenOutsideClosedPeriod are the complement of the period.
LEMMA OutsideIsNotIn ==
    ASSUME NEW from \in Minutes, NEW until \in Minutes, NEW m \in Minutes
    PROVE  OutsideClosedPeriod(from, until, m) <=> ~InPeriod(from, until, m)
<1>1. /\ Clockwise(from, m) = IF from <= m THEN m - from ELSE m - from + Day
      /\ Clockwise(from, until) = IF from <= until THEN until - from ELSE until - from + Day
  BY ClockwiseIs
<1>2. Day \in Nat /\ from \in 0 .. Day - 1 /\ until \in 0 .. Day - 1 /\ m \in 0 .. Day - 1
  BY HoursAssumption DEF Minutes
<1>. QED
  BY <1>1, <1>2 DEF OutsideClosedPeriod, InPeriod

\* A date has a weekday.
LEMMA WeekdayOf == ASSUME NEW date \in Nat PROVE date % Weekdays \in Week
<1>1. Weekdays \in Nat \ {0}
  BY HoursAssumption
<1>. QED
  BY <1>1 DEF Week

\* A minute up to a day away lies in this day or in the next.
LEMMA DayOf ==
    ASSUME NEW n \in Nat, n < 2 * Day
    PROVE  \/ n < Day /\ n \div Day = 0 /\ n % Day = n
           \/ n >= Day /\ n \div Day = 1 /\ n % Day = n - Day
<1>1. Day \in Nat \ {0}
  BY HoursAssumption
<1>2. /\ n = Day * (n \div Day) + (n % Day) /\ n \div Day \in Int
      /\ n % Day \in Int /\ 0 <= n % Day /\ n % Day < Day
  BY <1>1
<1>3. CASE n < Day
  BY <1>1, <1>3
<1>4. CASE n >= Day
  BY <1>1, <1>4
<1>. QED
  BY <1>1, <1>3, <1>4

-----------------------------------------------------------------------------
(* The rows and the edits *)

\* The rows are what was typed, normalised, and none of it was one to refuse.
Kept ==
    ~wiped => \A d \in Week :
                  asked[d].given => ~Refused(asked[d]) /\ hours[d] = Normalize(asked[d])

IInv == TypeOK /\ Kept

LEMMA NoRowIs ==
    /\ NoRow \in Row /\ NoHours \in [Week -> Row] /\ NoHours \in [Week -> Typings \cup {NoRow}]
    /\ \A d \in Week : NoHours[d] = NoRow
    /\ ~NoRow.given
BY DEF NoRow, NoHours, Row

\* What setWorkingHours does not throw on becomes a row: its times are times.
LEMMA NormalizeRow ==
    ASSUME NEW row \in Typings, ~Refused(row)
    PROVE  /\ row.from \in Minutes /\ row.until \in Minutes /\ row.closed \in BOOLEAN
           /\ Normalize(row) \in Row \ {NoRow}
           /\ Normalize(row).from = IF Swapped(row) THEN row.until ELSE row.from
           /\ Normalize(row).until = IF Swapped(row) THEN row.from ELSE row.until
           /\ Normalize(row).closed = row.closed /\ Normalize(row).given
           /\ row.from = row.until => row.closed
<1>1. row \in [given : {TRUE}, from : -1 .. Day - 1, until : -1 .. Day - 1, closed : BOOLEAN]
  BY HoursAssumption
<1>2. Day \in Nat /\ row.from # -1 /\ row.until # -1 /\ (row.from = row.until => row.closed)
  BY HoursAssumption DEF Refused, Invalid
<1>3. row.from \in Minutes /\ row.until \in Minutes
  BY <1>1, <1>2 DEF Minutes
<1>4. row \in [given : {TRUE}, from : Minutes, until : Minutes, closed : BOOLEAN]
  BY <1>1, <1>3
<1>5. /\ Normalize(row) \in [given : {TRUE}, from : Minutes, until : Minutes, closed : BOOLEAN]
      /\ Normalize(row).from = IF Swapped(row) THEN row.until ELSE row.from
      /\ Normalize(row).until = IF Swapped(row) THEN row.from ELSE row.until
      /\ Normalize(row).closed = row.closed
  BY <1>4 DEF Normalize
<1>. QED
  BY <1>2, <1>3, <1>4, <1>5, NoRowIs DEF Row

LEMMA InitIInv == Init => IInv
<1>. SUFFICES ASSUME Init PROVE IInv
  OBVIOUS
<1>1. edit \in [Edits -> [busy : BOOLEAN, week : [Week -> Typings \cup {NoRow}]]]
  BY NoRowIs DEF Init, Idle
<1>2. TypeOK
  BY <1>1, NoRowIs DEF Init, TypeOK
<1>3. Kept
  BY NoRowIs DEF Init, Kept
<1>. QED
  BY <1>2, <1>3 DEF IInv

LEMMA StartEditInv ==
    ASSUME IInv, NEW e \in Edits, NEW week \in [Week -> Typings \cup {NoRow}], StartEdit(e, week)
    PROVE  IInv'
<1>1. /\ hours' = NoHours /\ asked' = NoHours /\ wiped' = (week # NoHours)
      /\ edit' = [edit EXCEPT ![e] = [busy |-> week # NoHours, week |-> week]]
      /\ UNCHANGED holidays
  BY DEF StartEdit
<1>2. edit' \in [Edits -> [busy : BOOLEAN, week : [Week -> Typings \cup {NoRow}]]]
  BY <1>1 DEF IInv, TypeOK
<1>3. TypeOK'
  BY <1>1, <1>2, NoRowIs DEF IInv, TypeOK
<1>4. Kept'
  BY <1>1, NoRowIs DEF Kept
<1>. QED
  BY <1>3, <1>4 DEF IInv

LEMMA InsertInv == ASSUME IInv, NEW e \in Edits, Insert(e) PROVE IInv'
<1>. DEFINE week == edit[e].week
            given == {d \in Week : week[d].given}
<1>1. /\ TypeOK /\ Kept /\ week \in [Week -> Typings \cup {NoRow}]
      /\ edit' = [edit EXCEPT ![e] = Idle] /\ UNCHANGED holidays
  BY DEF IInv, TypeOK, Insert
<1>2. edit' \in [Edits -> [busy : BOOLEAN, week : [Week -> Typings \cup {NoRow}]]]
  BY <1>1, NoRowIs DEF TypeOK, Idle
<1>3. CASE \E d \in given : Refused(week[d]) \/ hours[d].given
  <2>1. UNCHANGED <<hours, asked, wiped>>
    BY <1>3 DEF Insert
  <2>. QED
    BY <1>1, <1>2, <2>1 DEF IInv, TypeOK, Kept
<1>4. CASE ~\E d \in given : Refused(week[d]) \/ hours[d].given
  <2>1. /\ hours' = [d \in Week |-> IF d \in given THEN Normalize(week[d]) ELSE hours[d]]
        /\ wiped' = (hours # NoHours)
        /\ asked' = IF hours = NoHours THEN week ELSE NoHours
    BY <1>4 DEF Insert
  <2>2. ASSUME NEW d \in given PROVE week[d] \in Typings /\ ~Refused(week[d])
    BY <1>1, <1>4, <2>2, NoRowIs
  <2>. HIDE DEF week
  <2>3. \A d \in given : /\ Normalize(week[d]) \in Row
                         /\ Normalize(week[d]).from = Normalize(week[d]).until =>
                                Normalize(week[d]).closed
    BY <2>2, NormalizeRow
  <2>4. TypeOK'
    BY <1>1, <1>2, <2>1, <2>3, NoRowIs DEF TypeOK
  <2>5. Kept'
    BY <1>1, <2>1, <2>2, NoRowIs DEF Kept
  <2>. QED
    BY <2>4, <2>5 DEF IInv
<1>. QED
  BY <1>3, <1>4

\* No step breaks the invariant: edits may overlap and die anywhere.
LEMMA NextIInv == IInv /\ [Next]_vars => IInv'
<1>. SUFFICES ASSUME IInv, [Next]_vars PROVE IInv'
  OBVIOUS
<1>1. ASSUME NEW e \in Edits, Die(e) PROVE IInv'
  <2>1. edit' \in [Edits -> [busy : BOOLEAN, week : [Week -> Typings \cup {NoRow}]]]
    BY <1>1, NoRowIs DEF IInv, TypeOK, Die, Idle
  <2>. QED
    BY <1>1, <2>1 DEF IInv, TypeOK, Kept, Die
<1>2. ASSUME NEW date \in 0 .. Dates - 1, AddHoliday(date) \/ RemoveHoliday(date) PROVE IInv'
  BY <1>2 DEF IInv, TypeOK, Kept, AddHoliday, RemoveHoliday
<1>3. CASE UNCHANGED vars
  BY <1>3 DEF IInv, TypeOK, Kept, vars
<1>. QED
  BY <1>1, <1>2, <1>3, StartEditInv, InsertInv DEF Next

LEMMA InvariantHolds == Spec => []IInv
BY InitIInv, NextIInv, PTL DEF Spec

-----------------------------------------------------------------------------
(* The theorems *)

\* Every variable keeps its type: what is stored are times, and a period that is in force
\* does not begin where it ends, whatever is typed.
THEOREM HoursTypes == Spec => []TypeOK
BY InvariantHolds, PTL DEF IInv

\* What the business answers on a day with hours.
LEMMA IsOpenBy ==
    ASSUME TypeOK, NEW date \in Nat, NEW m \in Minutes, hours[date % Weekdays].given
    PROVE  IsOpen(date, m) = {date \notin holidays /\ OpenBy(hours[date % Weekdays], m)}
<1>1. date % Weekdays \in Week
  BY WeekdayOf
<1>2. hours # NoHours
  BY <1>1, NoRowIs
<1>3. Schedules(date % Weekdays) = {hours[date % Weekdays]}
  BY DEF Schedules
<1>4. CASE date \in holidays
  BY <1>4 DEF IsOpen
<1>5. CASE date \notin holidays
  <2>1. IsOpen(date, m) = {OpenBy(row, m) : row \in {hours[date % Weekdays]}}
    BY <1>2, <1>3, <1>5 DEF IsOpen
  <2>2. OpenBy(hours[date % Weekdays], m) \in BOOLEAN
    BY DEF OpenBy
  <2>. QED
    BY <1>5, <2>1, <2>2
<1>. QED
  BY <1>4, <1>5

\* On a day whose hours were typed the business is closed on a holiday, on a day off and in
\* the typed period, and open otherwise, for days of any length.
THEOREM OpenAsTyped == Spec => []HoursAsTyped
<1>1. IInv => HoursAsTyped
  <2>. SUFFICES ASSUME IInv, ~wiped, NEW date \in 0 .. Dates, NEW m \in Minutes,
                       asked[date % Weekdays].given
                PROVE  LET row == asked[date % Weekdays]
                           period == IF Swapped(row) THEN InPeriod(row.until, row.from, m)
                                     ELSE InPeriod(row.from, row.until, m)
                       IN  IsOpen(date, m) = {date \notin holidays /\ ~row.closed /\ ~period}
    BY DEF HoursAsTyped
  <2>. DEFINE row == asked[date % Weekdays]
              period == IF Swapped(row) THEN InPeriod(row.until, row.from, m)
                        ELSE InPeriod(row.from, row.until, m)
  <2>1. date \in Nat /\ date % Weekdays \in Week
    BY HoursAssumption, WeekdayOf
  <2>2. row \in Typings /\ ~Refused(row) /\ hours[date % Weekdays] = Normalize(row)
    BY <2>1, NoRowIs DEF IInv, TypeOK, Kept
  <2>. HIDE DEF row
  <2>3. OpenBy(Normalize(row), m) <=> ~row.closed /\ ~period
    BY <2>2, NormalizeRow, OutsideIsNotIn DEF OpenBy
  <2>4. IsOpen(date, m) = {date \notin holidays /\ OpenBy(Normalize(row), m)}
    BY <2>1, <2>2, NormalizeRow, IsOpenBy DEF IInv
  <2>. QED
    BY <2>3, <2>4 DEF row
<1>. QED
  BY <1>1, InvariantHolds, PTL

\* A business that is open stays open for the minutes minutesUntilClose names and is then
\* closed, over midnight too, and closingSoon says whether it will be within Soon minutes.
THEOREM ClosesAsSaid == Spec => []ClosesWhenSaid
<1>1. TypeOK => ClosesWhenSaid
  <2>. SUFFICES ASSUME TypeOK, NEW date \in 0 .. Dates, NEW m \in Minutes,
                       hours[date % Weekdays].given,
                       hours[date % Weekdays] = hours[(date + 1) % Weekdays],
                       {date, date + 1} \cap holidays = {},
                       OpenBy(hours[date % Weekdays], m)
                PROVE  LET row == hours[date % Weekdays]
                           At(n) == IsOpen(date + n \div Day, n % Day)
                           said == m + UntilClosed(row.from, row.until, m)
                       IN  /\ \A n \in m .. said - 1 : At(n) = {TRUE}
                           /\ At(said) = {FALSE}
                           /\ ClosingSoon(row, m) <=> \E n \in m .. m + Soon : At(n) = {FALSE}
    BY DEF ClosesWhenSaid
  <2>. DEFINE row == hours[date % Weekdays]
              from == row.from
              until == row.until
              At(n) == IsOpen(date + n \div Day, n % Day)
              minutesUntilClose == UntilClosed(from, until, m)
              said == m + minutesUntilClose
  <2>1. /\ Day \in Nat /\ Soon \in Nat /\ date \in Nat
        /\ date % Weekdays \in Week /\ (date + 1) % Weekdays \in Week
    BY HoursAssumption, WeekdayOf
  <2>2. /\ from \in 0 .. Day - 1 /\ until \in 0 .. Day - 1 /\ from # until /\ ~row.closed
        /\ OutsideClosedPeriod(from, until, m)
    <3>1. row \in [given : {TRUE}, from : Minutes, until : Minutes, closed : BOOLEAN]
      BY <2>1, NoRowIs DEF TypeOK, Row
    <3>2. ~row.closed /\ OutsideClosedPeriod(from, until, m)
      BY DEF OpenBy
    <3>. QED
      BY <3>1, <3>2, <2>1, NoRowIs DEF TypeOK, Minutes
  <2>3. m \in 0 .. Day - 1
    BY DEF Minutes
  <2>4. ASSUME NEW n \in Nat, n < 2 * Day
        PROVE  At(n) = {OutsideClosedPeriod(from, until, IF n < Day THEN n ELSE n - Day)}
    <3>1. CASE n < Day
      <4>1. n \in Minutes /\ n \div Day = 0 /\ n % Day = n /\ date + 0 = date
        BY <2>1, <2>4, <3>1, DayOf DEF Minutes
      <4>2. IsOpen(date, n) = {date \notin holidays /\ OpenBy(row, n)}
        BY <2>1, <4>1, IsOpenBy
      <4>3. OpenBy(row, n) <=> OutsideClosedPeriod(from, until, n)
        BY <2>2 DEF OpenBy
      <4>4. OutsideClosedPeriod(from, until, n) \in BOOLEAN
        BY DEF OutsideClosedPeriod
      <4>. QED
        BY <3>1, <4>1, <4>2, <4>3, <4>4
    <3>2. CASE n >= Day
      <4>1. n - Day \in Minutes /\ n \div Day = 1 /\ n % Day = n - Day
        BY <2>1, <2>4, <3>2, DayOf DEF Minutes
      <4>2. IsOpen(date + 1, n - Day) = {date + 1 \notin holidays /\ OpenBy(row, n - Day)}
        BY <2>1, <4>1, IsOpenBy
      <4>3. OpenBy(row, n - Day) <=> OutsideClosedPeriod(from, until, n - Day)
        BY <2>2 DEF OpenBy
      <4>4. OutsideClosedPeriod(from, until, n - Day) \in BOOLEAN
        BY DEF OutsideClosedPeriod
      <4>. QED
        BY <2>1, <3>2, <4>1, <4>2, <4>3, <4>4
    <3>. QED
      BY <2>1, <3>1, <3>2
  <2>. HIDE DEF row, from, until, At
  <2>5. /\ minutesUntilClose \in Nat \ {0} /\ said \in Nat /\ said < 2 * Day /\ m < said
        /\ said = IF from < until /\ m >= from THEN Day + from ELSE from
    BY <2>1, <2>2, <2>3 DEF UntilClosed, OutsideClosedPeriod
  <2>. HIDE DEF minutesUntilClose, said
  <2>6. ASSUME NEW n \in m .. said - 1 PROVE At(n) = {TRUE}
    <3>1. n \in Nat /\ n < 2 * Day
      BY <2>1, <2>3, <2>5
    <3>2. OutsideClosedPeriod(from, until, IF n < Day THEN n ELSE n - Day) = TRUE
      BY <2>1, <2>2, <2>3, <2>5, <3>1 DEF OutsideClosedPeriod
    <3>. QED
      BY <2>4, <3>1, <3>2
  <2>7. At(said) = {FALSE}
    <3>1. OutsideClosedPeriod(from, until, IF said < Day THEN said ELSE said - Day) = FALSE
      BY <2>1, <2>2, <2>3, <2>5 DEF OutsideClosedPeriod
    <3>. QED
      BY <2>4, <2>5, <3>1
  <2>8. ClosingSoon(row, m) <=> \E n \in m .. m + Soon : At(n) = {FALSE}
    <3>1. ClosingSoon(row, m) <=> said <= m + Soon
      BY <2>1, <2>3, <2>5 DEF ClosingSoon, minutesUntilClose, said, from, until
    <3>2. ASSUME NEW n \in m .. m + Soon, At(n) = {FALSE} PROVE said <= m + Soon
      <4>1. n \notin m .. said - 1
        BY <2>6, <3>2
      <4>. QED
        BY <2>1, <2>3, <2>5, <4>1
    <3>3. ASSUME said <= m + Soon PROVE \E n \in m .. m + Soon : At(n) = {FALSE}
      <4>1. said \in m .. m + Soon
        BY <2>1, <2>3, <2>5, <3>3
      <4>. QED
        BY <2>7, <4>1
    <3>. QED
      BY <3>1, <3>2, <3>3
  <2>. QED
    BY <2>6, <2>7, <2>8 DEF At, said, minutesUntilClose, from, until, row
<1>. QED
  BY <1>1, HoursTypes, PTL

=============================================================================
