------------------------------ MODULE Calendar -----------------------------
(***************************************************************************)
(* The date arithmetic of the wall clock (days_from_civil in               *)
(* src/arch/x86_64/rtc.rs), walked day by day along the calendar.          *)
(***************************************************************************)
EXTENDS Integers

CONSTANT LastYear               \* the walk stops at the end of this year

CalendarAssumption == LastYear \in Nat /\ LastYear >= 1970

VARIABLES year, month, day,
          elapsed               \* days since the first of January 1970

vars == <<year, month, day, elapsed>>

(* A slip: January and February are not moved to the year before. *)
DaysFromJanuary(y, m, d) ==
    LET year_of_era   == y % 400
        month_shifted == IF m > 2 THEN m - 3 ELSE m + 9
        day_of_era    == year_of_era * 365 + year_of_era \div 4
                           - year_of_era \div 100
                           + (153 * month_shifted + 2) \div 5 + d - 1
    IN  (y \div 400) * 146097 + day_of_era - 719468

(* March is month 0 of a year that ends with February. *)
DaysFromCivil(y, m, d) ==
    LET adjusted_year == IF m <= 2 THEN y - 1 ELSE y
        era           == adjusted_year \div 400
        year_of_era   == adjusted_year - era * 400
        month_shifted == IF m > 2 THEN m - 3 ELSE m + 9
        day_of_year   == (153 * month_shifted + 2) \div 5 + d - 1
        day_of_era    == year_of_era * 365 + year_of_era \div 4
                           - year_of_era \div 100 + day_of_year
    IN  era * 146097 + day_of_era - 719468

IsLeap(y) == y % 4 = 0 /\ (y % 100 # 0 \/ y % 400 = 0)
MonthLength(y, m) ==
    CASE m = 2                   -> IF IsLeap(y) THEN 29 ELSE 28
      [] m \in {4, 6, 9, 11}     -> 30
      [] OTHER                   -> 31

Init == year = 1970 /\ month = 1 /\ day = 1 /\ elapsed = 0

NextDay ==
    /\ day < MonthLength(year, month)
    /\ day' = day + 1
    /\ elapsed' = elapsed + 1
    /\ UNCHANGED <<year, month>>

NextMonth ==
    /\ day = MonthLength(year, month)
    /\ month < 12
    /\ month' = month + 1
    /\ day' = 1
    /\ elapsed' = elapsed + 1
    /\ UNCHANGED year

NextYear ==
    /\ day = MonthLength(year, month)
    /\ month = 12
    /\ year < LastYear
    /\ year' = year + 1
    /\ month' = 1
    /\ day' = 1
    /\ elapsed' = elapsed + 1

Next == NextDay \/ NextMonth \/ NextYear

Spec == Init /\ [][Next]_vars
----------------------------------------------------------------------------
(* days_from_civil numbers the days of the calendar from the first of      *)
(* January 1970 on, over leap years, the turn of every month and year and  *)
(* the end of a 400-year era in February 2000.                             *)
DaysCounted == DaysFromCivil(year, month, day) = elapsed
=============================================================================
