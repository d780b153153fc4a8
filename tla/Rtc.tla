-------------------------------- MODULE Rtc --------------------------------
(***************************************************************************)
(* Reading the CMOS real-time clock at boot (read_unix_time in             *)
(* src/arch/x86_64/rtc.rs) while the clock goes on counting.  The driver   *)
(* reads one register at a time, so an update can fall between two of      *)
(* them.  A minute has SecondsPerMinute seconds and an hour MinutesPerHour *)
(* minutes, small numbers; day, month and year are one count of days (the  *)
(* arithmetic on them is module Calendar).                                 *)
(***************************************************************************)
EXTENDS Integers, Sequences

CONSTANTS SecondsPerMinute, MinutesPerHour,
          MaxClock              \* the last second of the model

RtcAssumption ==
    /\ SecondsPerMinute \in 2..60 /\ MinutesPerHour \in 2..60
    /\ MaxClock \in Nat

VARIABLES clock,                \* the second the RTC shows
          mode,                 \* status register B
          updating,             \* the update-in-progress bit
          updated,              \* an update fell into the current call
          reading,              \* the registers read so far, or Waiting
          datetime,             \* the read before the current one
          began,                \* the second in which the current read began
          result                \* what read_unix_time returned

vars == <<clock, mode, updating, updated, reading, datetime, began, result>>

None    == -1
Waiting == <<None>>             \* before `while update_in_progress() {}`

Hour == SecondsPerMinute * MinutesPerHour
Day  == 24 * Hour
RTC_HOUR_PM_FLAG == 128

(* How the chip stores a number, and an hour. *)
Bcd(n) == (n \div 10) * 16 + (n % 10)
Stored(n) == IF mode.binary THEN n ELSE Bcd(n)
StoredHour(h) ==
    IF mode.hours24 THEN Stored(h)
    ELSE Stored(IF h % 12 = 0 THEN 12 ELSE h % 12)
           + (IF h >= 12 THEN RTC_HOUR_PM_FLAG ELSE 0)

Registers ==
    << Stored(clock % SecondsPerMinute),
       Stored((clock \div SecondsPerMinute) % MinutesPerHour),
       StoredHour((clock \div Hour) % 24),
       Stored(clock \div Day) >>

BcdToBinary(n) == (n % 16) + (n \div 16) * 10

(* From the registers to seconds. *)
UnixTime(raw) ==
    LET decoded(n) == IF mode.binary THEN n ELSE BcdToBinary(n)
        pm         == raw[3] >= RTC_HOUR_PM_FLAG
        hours      == decoded(raw[3] % RTC_HOUR_PM_FLAG)
        hour       == IF ~mode.hours24 /\ pm THEN (hours + 12) % 24 ELSE hours
    IN  decoded(raw[4]) * Day + hour * Hour
          + decoded(raw[2]) * SecondsPerMinute + decoded(raw[1])

Init ==
    /\ clock \in 0..MaxClock
    /\ mode \in [binary : BOOLEAN, hours24 : BOOLEAN]
    /\ updating \in BOOLEAN
    /\ updated = FALSE
    /\ reading = Waiting
    /\ datetime = <<>>
    /\ began = None
    /\ result = None
----------------------------------------------------------------------------
(* The chip announces an update and then shows the next second.  A call of *)
(* read_raw_datetime, its wait included, takes less than a second          *)
(* (interrupts are off): at most one update falls into it.                 *)
UpdateStarts ==
    /\ result = None
    /\ ~updating
    /\ clock < MaxClock
    /\ updating' = TRUE
    /\ UNCHANGED <<clock, mode, updated, reading, datetime, began, result>>

UpdateEnds ==
    /\ updating
    /\ clock < MaxClock
    /\ ~updated
    /\ updating' = FALSE
    /\ clock' = clock + 1
    /\ updated' = TRUE
    /\ UNCHANGED <<mode, reading, datetime, began, result>>

(* `while update_in_progress() {}` is left. *)
StartReading ==
    /\ result = None
    /\ reading = Waiting
    /\ ~updating
    /\ reading' = <<>>
    /\ began' = clock
    /\ UNCHANGED <<clock, mode, updating, updated, datetime, result>>

ReadRegister ==
    /\ result = None
    /\ reading # Waiting
    /\ Len(reading) < 4
    /\ reading' = Append(reading, Registers[Len(reading) + 1])
    /\ UNCHANGED <<clock, mode, updating, updated, datetime, began, result>>

(* A slip: the first read is taken. *)
MatchesAlways == TRUE

Matches == reading = datetime

(* The loop of read_unix_time: two reads that match end it. *)
Compare ==
    /\ result = None
    /\ Len(reading) = 4
    /\ IF Matches
       THEN result' = UnixTime(reading) /\ UNCHANGED <<reading, datetime>>
       ELSE datetime' = reading /\ reading' = Waiting /\ UNCHANGED result
    /\ updated' = FALSE
    /\ UNCHANGED <<clock, mode, updating, began>>

Next == UpdateStarts \/ UpdateEnds \/ StartReading \/ ReadRegister \/ Compare

Spec == Init /\ [][Next]_vars
----------------------------------------------------------------------------
(* What the chip shows for a second, as read_unix_time takes it: with a    *)
(* 12-hour clock the hours from midnight and from noon are exchanged.      *)
Taken(shown) ==
    LET hour == (shown \div Hour) % 24
    IN  IF mode.hours24 \/ hour % 12 # 0 THEN shown
        ELSE IF hour = 0 THEN shown + 12 * Hour ELSE shown - 12 * Hour

(* What read_unix_time returns is a second the clock showed during its     *)
(* last read_raw_datetime: no update between two registers, carry into     *)
(* minutes, hours or days included, and no way the chip stores its numbers *)
(* makes it return another time, but for hour 12 of a 12-hour clock.       *)
TimeAsShown ==
    result # None => \E shown \in began..clock : result = Taken(shown)
=============================================================================
