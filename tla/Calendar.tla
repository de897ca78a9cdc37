------------------------------ MODULE Calendar ------------------------------
(***************************************************************************)
(* master/base/Date.cc and TimeZone.cc: day numbers against dates, UTC     *)
(* times against fields, and local times of a zone with transitions.       *)
(*                                                                         *)
(* A walk goes from day to day with an ordinary calendar beside it, and    *)
(* another from second to second of a zone with the offset in force beside *)
(* it: the calendar and the offset are what the formulas are held against. *)
(***************************************************************************)
EXTENDS Integers, Sequences

CONSTANTS
  Base,          \* 60: seconds of a minute and minutes of an hour
  HoursPerDay,   \* 24
  Starts,        \* known days, as <<days since 1970-01-01, year>> of a January 1st
  MaxWalk,       \* days walked from one
  Zones,         \* tables of transitions and local times
  MaxZoneTime    \* seconds walked in a zone

VARIABLES
  days, date,    \* the day reached, and its date: year, month, day, yday
  walked,
  data,          \* the TimeZone::Data
  second, local  \* the time reached, and the index of the local time in force

dayVars == <<days, date, walked>>
zoneVars == <<data, second, local>>
calendarVars == <<dayVars, zoneVars>>

kSecondsPerHour == Base * Base
kSecondsPerDay == HoursPerDay * kSecondsPerHour

\* Leap days up to the end of a year.
LeapDays(year) == year \div 4 - year \div 100 + year \div 400

\* The day of Julian day number 0, from 1970-01-01.
JulianDayZero == -2440588

\* A start is a January 1st whose Julian day number is not negative: the formulas divide
\* only what is not negative then, where C++ and TLA+ round alike.
ASSUME DateBounds ==
  /\ Base \in Nat \ {0, 1} /\ HoursPerDay \in Nat \ {0}
  /\ \A s \in Starts :
       /\ s[2] \in Int /\ s[1] >= JulianDayZero
       /\ s[1] = 365 * (s[2] - 1970) + LeapDays(s[2] - 1) - LeapDays(1969)

\* The local time in force after i transitions of a zone.
After(zone, i) == zone.localtimes[IF i = 0 THEN 1 ELSE zone.types[i]]

\* Clocks go back only when daylight saving time ends, and by one hour; two transitions are
\* further apart than an hour and than any two offsets.
ASSUME ZoneBounds ==
  \A zone \in Zones :
    /\ zone.localtimes \in Seq([gmtOffset : Int, isDst : BOOLEAN])
    /\ zone.read \in 0..Len(zone.localtimes)
    /\ zone.times \in Seq(Nat \ {0}) /\ zone.types \in Seq(DOMAIN zone.localtimes)
    /\ Len(zone.types) = Len(zone.times)
    /\ \A i \in 1..Len(zone.times) :
         After(zone, i).gmtOffset < After(zone, i - 1).gmtOffset
           => /\ After(zone, i - 1).isDst /\ ~After(zone, i).isDst
              /\ After(zone, i - 1).gmtOffset - After(zone, i).gmtOffset = kSecondsPerHour
    /\ \A i, j \in 1..Len(zone.times) : i < j =>
         LET apart == zone.times[j] - zone.times[i]
         IN  /\ apart > kSecondsPerHour
             /\ \A k, l \in DOMAIN zone.localtimes :
                  apart > zone.localtimes[k].gmtOffset - zone.localtimes[l].gmtOffset

-----------------------------------------------------------------------------
(* Date *)

\* C++ rounds towards zero.
Quotient(a, b) == IF a >= 0 THEN a \div b ELSE -((-a) \div b)
Remainder(a, b) == a - b * Quotient(a, b)

getJulianDayNumber(year, month, day) ==
  LET a == (14 - month) \div 12
      y == year + 4800 - a
      m == month + 12 * a - 3
  IN  day + (153 * m + 2) \div 5 + y * 365 + y \div 4 - y \div 100 + y \div 400 - 32045

getYearMonthDay(julianDayNumber) ==
  LET a == julianDayNumber + 32044
      b == (4 * a + 3) \div 146097
      c == a - (b * 146097) \div 4
      d == (4 * c + 3) \div 1461
      e == c - (1461 * d) \div 4
      m == (5 * e + 2) \div 153
  IN  [year |-> b * 100 + d - 4800 + m \div 10,
       month |-> m + 3 - 12 * (m \div 10),
       day |-> e - (153 * m + 2) \div 5 + 1]

kJulianDayOf1970_01_01 == getJulianDayNumber(1970, 1, 1)
weekDay(julianDayNumber) == Remainder(julianDayNumber + 1, 7)

-----------------------------------------------------------------------------
(* toUtcTime() and fromUtcTime() *)

\* Mutant of DayOf: times before 1970 are taken as those after.
DayOfPositive(t) == [days |-> Quotient(t, kSecondsPerDay), seconds |-> Remainder(t, kSecondsPerDay)]

DayOf(t) ==
  LET q == Quotient(t, kSecondsPerDay)
      r == Remainder(t, kSecondsPerDay)
  IN  IF r < 0 THEN [days |-> q - 1, seconds |-> r + kSecondsPerDay]
               ELSE [days |-> q, seconds |-> r]

fillHMS(seconds) ==
  LET minutes == seconds \div Base
  IN  [sec |-> seconds % Base, min |-> minutes % Base, hour |-> minutes \div Base]

toUtcTime(t) ==
  LET julian == DayOf(t).days + kJulianDayOf1970_01_01
      ymd    == getYearMonthDay(julian)
  IN  [time |-> fillHMS(DayOf(t).seconds), ymd |-> ymd, wday |-> weekDay(julian),
       yday |-> julian - getJulianDayNumber(ymd.year, 1, 1)]

fromUtcTime(ymd, time) ==
  (getJulianDayNumber(ymd.year, ymd.month, ymd.day) - kJulianDayOf1970_01_01) * kSecondsPerDay
    + time.hour * kSecondsPerHour + time.min * Base + time.sec

-----------------------------------------------------------------------------
(* Local times: a transition has the UTC and the new local time at which it happens. *)

\* readTimeZoneFile() of a file with these transition times, types and local times, of which
\* it reads only the first zone.read local times when the file ends early or is none: the
\* exception is caught, what was read stays, and the function says that all is well.
ReadZone(zone) ==
  [localtimes |-> SubSeq(zone.localtimes, 1, zone.read),
   transitions |->
     IF zone.read < Len(zone.localtimes) THEN <<>>
     ELSE [i \in DOMAIN zone.times |->
             [gmttime |-> zone.times[i],
              localtime |-> zone.times[i] + zone.localtimes[zone.types[i]].gmtOffset,
              localtimeIdx |-> zone.types[i]]]]

\* Key is the member of a Transition that Comp compares.  before is what lower_bound()
\* passes over.
findLocaltime(t, key) ==
  LET trans  == data.transitions
      before == {i \in DOMAIN trans : trans[i][key] < t}
      at     == 1 + IF before = {} THEN 0 ELSE CHOOSE i \in before : \A j \in before : j <= i
  IN  IF trans = <<>> \/ t < trans[1][key] THEN data.localtimes[1]
      ELSE IF at > Len(trans) THEN data.localtimes[trans[Len(trans)].localtimeIdx]
      ELSE IF trans[at][key] = t THEN data.localtimes[trans[at].localtimeIdx]
      ELSE data.localtimes[trans[at - 1].localtimeIdx]

toLocalTime(t) ==
  LET found == findLocaltime(t, "gmttime")
  IN  [seconds |-> t + found.gmtOffset, isDst |-> found.isDst]

\* tm_hour and tm_min
HourMinute(tm) == (tm.seconds % kSecondsPerDay) \div Base

\* The hour that comes twice when daylight saving time ends.
fromLocalTime(tm) ==
  LET found == findLocaltime(tm.seconds, "localtime")
      tryTm == toLocalTime(tm.seconds - found.gmtOffset)
      again == tm.isDst /\ ~tryTm.isDst /\ HourMinute(tryTm) = HourMinute(tm)
  IN  tm.seconds - (IF again THEN kSecondsPerHour ELSE 0) - found.gmtOffset

-----------------------------------------------------------------------------
CalendarInit ==
  /\ \E s \in Starts :
       days = s[1] /\ date = [year |-> s[2], month |-> 1, day |-> 1, yday |-> 0]
  /\ walked = 0
  /\ \E zone \in Zones : data = ReadZone(zone)
  /\ second = 0 /\ local = 1

IsLeap(year) == (year % 4 = 0 /\ year % 100 # 0) \/ year % 400 = 0

MonthLength(year, month) ==
  IF month = 2 THEN (IF IsLeap(year) THEN 29 ELSE 28)
  ELSE IF month \in {4, 6, 9, 11} THEN 30 ELSE 31

NextDay ==
  /\ walked < MaxWalk /\ walked' = walked + 1
  /\ days' = days + 1
  /\ date' = IF date.day < MonthLength(date.year, date.month)
               THEN [date EXCEPT !.day = @ + 1, !.yday = @ + 1]
             ELSE IF date.month < 12
               THEN [date EXCEPT !.month = @ + 1, !.day = 1, !.yday = @ + 1]
             ELSE [year |-> date.year + 1, month |-> 1, day |-> 1, yday |-> 0]
  /\ UNCHANGED zoneVars

\* A second passes; at the time of a transition its local time comes into force.
NextSecond ==
  /\ second < MaxZoneTime /\ second' = second + 1
  /\ \/ \E i \in DOMAIN data.transitions :
          /\ data.transitions[i].gmttime = second + 1
          /\ local' = data.transitions[i].localtimeIdx
     \/ /\ \A i \in DOMAIN data.transitions : data.transitions[i].gmttime # second + 1
        /\ UNCHANGED local
  /\ UNCHANGED <<data, dayVars>>

CalendarSpec == CalendarInit /\ [][NextDay \/ NextSecond]_calendarVars

-----------------------------------------------------------------------------
(* Properties *)

\* At the first, second and last second of a day, also before 1970, toUtcTime() has the date
\* of the calendar, the weekday that 1970-01-01 being a Thursday gives, and fromUtcTime()
\* leads back.
UtcAgrees ==
  \A s \in {0, 1, kSecondsPerDay - 1} :
    LET t   == days * kSecondsPerDay + s
        utc == toUtcTime(t)
    IN  /\ utc.ymd = [year |-> date.year, month |-> date.month, day |-> date.day]
        /\ utc.yday = date.yday /\ utc.wday = (days + 4) % 7
        /\ utc.time.hour * kSecondsPerHour + utc.time.min * Base + utc.time.sec = s
        /\ fromUtcTime(utc.ymd, utc.time) = t

\* Dates and local times are right and convert back to the time they came from: UtcAgrees,
\* and in a zone whose clocks go back by one hour when daylight saving time ends, every
\* local time leads back to its second, the hour that comes twice included.  A zone without
\* a local time is left out: localtimes.front() of it is undefined.
TimesConvertBack ==
  /\ UtcAgrees
  /\ data.localtimes # <<>> =>
       /\ toLocalTime(second) =
            [seconds |-> second + data.localtimes[local].gmtOffset,
             isDst |-> data.localtimes[local].isDst]
       /\ fromLocalTime(toLocalTime(second)) = second
=============================================================================
