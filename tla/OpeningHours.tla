---------------------------- MODULE OpeningHours ----------------------------
(***************************************************************************)
(* When a business takes orders: restaurant-schedule.service.ts, which     *)
(* deletes the working hours and then writes the new ones, and             *)
(* restaurant-hours.util.ts, which decides from the rows whether it is     *)
(* open and for how long.  A row holds the period of the day in which the  *)
(* business does not work; times are minutes.                              *)
(***************************************************************************)
EXTENDS Integers, FiniteSets

CONSTANTS
    Day,        \* minutes of a day (24 * 60)
    Noon,       \* 12 * 60
    Soon,       \* closingSoon: so many minutes before the closed period (60)
    Weekdays,   \* days of the week, counted from 0
    Dates,      \* bound: calendar dates on which a holiday may fall, counted from 0
    Typings,    \* bound: what a manager types for one day
    Edits       \* slots of requests that save working hours

Invalid == -1    \* a text that is not a time

ASSUME HoursAssumption ==
    /\ Day \in Nat \ {0} /\ Noon \in 0 .. Day /\ Soon \in Nat
    /\ Weekdays \in Nat \ {0} /\ Dates \in Nat
    /\ Typings \subseteq [given : {TRUE}, from : -1 .. Day - 1, until : -1 .. Day - 1,
                           closed : BOOLEAN]

VARIABLES
    hours,      \* weekday -> its row of restaurant_working_hours
    holidays,   \* dates that are holidays
    edit,       \* request slot -> the hours it is saving
    asked,      \* the hours as they were typed when they were last saved
    wiped       \* have they been deleted, or mixed with others, since?

vars == <<hours, holidays, edit, asked, wiped>>

Minutes == 0 .. Day - 1

Week == 0 .. Weekdays - 1

NoRow == [given |-> FALSE, from |-> 0, until |-> 0, closed |-> FALSE]

\* closeTime is the start of the non-working period, openTime its end.
Row == [given : {TRUE}, from : Minutes, until : Minutes, closed : BOOLEAN] \cup {NoRow}

NoHours == [d \in Week |-> NoRow]

Idle == [busy |-> FALSE, week |-> NoHours]

-----------------------------------------------------------------------------
(* Is the business open? *)

\* isOpenOutsideClosedPeriod: a period that ends before it starts spans midnight.
OutsideClosedPeriod(from, until, m) ==
    \/ from = until
    \/ from < until /\ ~(from <= m /\ m < until)
    \/ from > until /\ until <= m /\ m < from

\* Mutated form of UntilClosed: the period of the next day is forgotten.
UntilClosedToday(from, until, m) == from - m

\* minutesUntilClosedPeriod, of a minute outside the period.
UntilClosed(from, until, m) ==
    IF from < until /\ m >= from THEN Day - m + from ELSE from - m

\* scheduleForDay: the day's row, or any row that works (the query has no order).
Schedules(d) ==
    IF hours[d].given THEN {hours[d]}
    ELSE {hours[e] : e \in {w \in Week : hours[w].given /\ ~hours[w].closed}}

\* openFromSchedule
OpenBy(row, m) == ~row.closed /\ OutsideClosedPeriod(row.from, row.until, m)

\* resolveRestaurantAvailability: what isOpen may be on a date, at a minute.
IsOpen(date, m) ==
    IF date \in holidays THEN {FALSE}
    ELSE IF hours = NoHours THEN {TRUE}
    ELSE LET rows == Schedules(date % Weekdays)
         IN  IF rows = {} THEN {FALSE} ELSE {OpenBy(row, m) : row \in rows}

\* closingSoon
ClosingSoon(row, m) == LET n == UntilClosed(row.from, row.until, m) IN 0 < n /\ n <= Soon

-----------------------------------------------------------------------------
(* setWorkingHours and the holidays *)

\* A typed morning period with its ends swapped.
Swapped(row) == row.from > row.until /\ row.until < Noon /\ row.from <= Noon

\* Mutated form of Normalize: every period that ends before it starts is swapped.
NormalizeAll(row) ==
    IF row.from > row.until THEN [row EXCEPT !.from = row.until, !.until = row.from] ELSE row

\* normalizeNonWorkingPeriodTimes
Normalize(row) ==
    IF Swapped(row) THEN [row EXCEPT !.from = row.until, !.until = row.from] ELSE row

\* Mutated form of Refused: a period may begin where it ends.
RefusedUnparsed(row) == Invalid \in {row.from, row.until}

\* What setWorkingHours throws on: after it has deleted the rows.
Refused(row) ==
    \/ Invalid \in {row.from, row.until}
    \/ row.from = row.until /\ ~row.closed

\* deleteMany comes first; a list without hours is done with that.
StartEdit(e, week) ==
    /\ ~edit[e].busy
    /\ hours' = NoHours
    /\ asked' = NoHours
    /\ wiped' = (week # NoHours)
    /\ edit' = [edit EXCEPT ![e] = [busy |-> week # NoHours, week |-> week]]
    /\ UNCHANGED holidays

\* createMany writes all the rows, or none: one is refused, or the day already has a row.
Insert(e) ==
    LET week == edit[e].week
        given == {d \in Week : week[d].given}
    IN  /\ edit[e].busy
        /\ edit' = [edit EXCEPT ![e] = Idle]
        /\ IF \E d \in given : Refused(week[d]) \/ hours[d].given
           THEN UNCHANGED <<hours, asked, wiped>>
           ELSE /\ hours' = [d \in Week |-> IF d \in given THEN Normalize(week[d])
                                            ELSE hours[d]]
                /\ wiped' = (hours # NoHours)
                /\ asked' = IF hours = NoHours THEN week ELSE NoHours
        /\ UNCHANGED holidays

\* The server restarts between the two queries.
Die(e) ==
    /\ edit[e].busy
    /\ edit' = [edit EXCEPT ![e] = Idle]
    /\ UNCHANGED <<hours, holidays, asked, wiped>>

AddHoliday(date) ==
    /\ date \notin holidays
    /\ holidays' = holidays \cup {date}
    /\ UNCHANGED <<hours, edit, asked, wiped>>

RemoveHoliday(date) ==
    /\ date \in holidays
    /\ holidays' = holidays \ {date}
    /\ UNCHANGED <<hours, edit, asked, wiped>>

-----------------------------------------------------------------------------

Init ==
    /\ hours = NoHours
    /\ holidays = {}
    /\ edit = [e \in Edits |-> Idle]
    /\ asked = NoHours
    /\ wiped = FALSE

Next ==
    \/ \E e \in Edits :
          \/ \E week \in [Week -> Typings \cup {NoRow}] : StartEdit(e, week)
          \/ Insert(e)
          \/ Die(e)
    \/ \E date \in 0 .. Dates - 1 : AddHoliday(date) \/ RemoveHoliday(date)

Spec == Init /\ [][Next]_vars

-----------------------------------------------------------------------------
(* Properties *)

\* Every variable keeps its type: a stored row holds valid times, and a period that is in
\* force does not begin where it ends.
TypeOK ==
    /\ hours \in [Week -> Row]
    /\ \A d \in Week : hours[d].from = hours[d].until => hours[d].closed \/ hours[d] = NoRow
    /\ holidays \in SUBSET (0 .. Dates - 1)
    /\ edit \in [Edits -> [busy : BOOLEAN, week : [Week -> Typings \cup {NoRow}]]]
    /\ asked \in [Week -> Typings \cup {NoRow}]
    /\ wiped \in BOOLEAN

\* The minutes from one time of day round the clock to another.
Clockwise(from, to) == (to - from) % Day

\* A minute lies in the period that starts at from and runs round the clock to until.
InPeriod(from, until, m) == Clockwise(from, m) < Clockwise(from, until)

\* "Restaurant is open at all times except the closed block": on a day whose hours were
\* typed the business is closed on a holiday, on a day off, and in the typed period, the
\* ends of a morning period in either order; and open at every other minute.
HoursAsTyped ==
    ~wiped =>
        \A date \in 0 .. Dates, m \in Minutes :
            LET row == asked[date % Weekdays]
                period == IF Swapped(row) THEN InPeriod(row.until, row.from, m)
                          ELSE InPeriod(row.from, row.until, m)
            IN  row.given =>
                    IsOpen(date, m) = {date \notin holidays /\ ~row.closed /\ ~period}

\* A business that is open stays open for as long as minutesUntilClose says and is then
\* closed, when the next day has the same hours and neither day is a holiday.
ClosesWhenSaid ==
    \A date \in 0 .. Dates, m \in Minutes :
        LET row == hours[date % Weekdays]
            At(n) == IsOpen(date + n \div Day, n % Day)
            said == m + UntilClosed(row.from, row.until, m)
        IN  /\ row.given /\ row = hours[(date + 1) % Weekdays]
            /\ {date, date + 1} \cap holidays = {}
            /\ OpenBy(row, m)
            => /\ \A n \in m .. said - 1 : At(n) = {TRUE}
               /\ At(said) = {FALSE}
               /\ ClosingSoon(row, m) <=> \E n \in m .. m + Soon : At(n) = {FALSE}

=============================================================================
