-------------------------------- MODULE Hours --------------------------------
(***************************************************************************)
(* Opening hours of a store's delivery and of its customer pickup: how     *)
(* provider/store/store.service.ts (buildServiceScheduleFromDto) turns the *)
(* body of a request into the schedule it stores, and how                  *)
(* client/search/search.service.ts (storeCoversHandoff) reads it.          *)
(*                                                                         *)
(* A range of times is a pair of minutes; a text that is not one matches   *)
(* no time, as a range does that ends before it begins.  A day is its      *)
(* number, from Sunday.  An interval named twice for a day is left out.    *)
(***************************************************************************)
EXTENDS Integers, Sequences, FiniteSets

CONSTANTS Absent   \* an optional value that is missing

Weekdays == 0 .. 6
TimeRange == [from: Nat, to: Nat]

\* UpdateDeliveryDto and UpdateCustomerPickupDto, with the days they name.
\* Intervals of a day are positions in the ranges, from 0.
Dto(D) == [available: BOOLEAN, available24h: BOOLEAN, ranges: Seq(TimeRange),
           days: [D -> SUBSET Nat] \cup {Absent}]

ASSUME HoursAssumption ==
  \A D \in SUBSET Weekdays : Absent \notin Nat \cup Dto(D) /\ Absent \notin [D -> SUBSET Nat]

\* A ServiceSchedule has the form of what it is built from.
NoDays == [d \in {} |-> {}]

-----------------------------------------------------------------------------
\* normalizeScheduleDays: days without intervals are dropped; no days, no map.
Normalized(days) ==
  IF days = Absent THEN Absent
  ELSE LET used == {d \in DOMAIN days : days[d] # {}} IN
       IF used = {} THEN Absent ELSE [d \in used |-> days[d]]

\* validateScheduleDayIndices
ValidIntervals(count, days, max) ==
  days # Absent /\ count > 0 =>
    \A d \in DOMAIN days : Cardinality(days[d]) <= max /\ days[d] \subseteq 0 .. count - 1

\* What buildServiceScheduleFromDto refuses.
Accepted(dto, max) ==
  dto.available24h \/
    /\ dto.available => dto.ranges # <<>>
    /\ ValidIntervals(Len(dto.ranges), Normalized(dto.days), max)

Schedule(dto) ==
  IF dto.available24h
  THEN [available |-> dto.available, available24h |-> TRUE, ranges |-> <<>>, days |-> NoDays]
  ELSE [available |-> dto.available, available24h |-> FALSE, ranges |-> dto.ranges,
        days |-> Normalized(dto.days)]

-----------------------------------------------------------------------------
\* rangesForDay: which ranges count on a day; all of them when the day is unknown
\* or the schedule has no days.
RangesForDay(schedule, day) ==
  IF day = Absent \/ schedule.days = Absent THEN {schedule.ranges[k] : k \in DOMAIN schedule.ranges}
  ELSE IF day \notin DOMAIN schedule.days THEN {}
  ELSE {schedule.ranges[k + 1] : k \in {n \in schedule.days[day] : n < Len(schedule.ranges)}}

RangeContains(range, time) == range.from <= time /\ time <= range.to

\* storeCoversHandoff, for a handoff of the schedule's type
CoversHandoff_Anyway(schedule, time, day) ==
  /\ schedule # Absent
  /\ time = Absent \/ schedule.available24h
     \/ \E range \in RangesForDay(schedule, day) : RangeContains(range, time)

CoversHandoff(schedule, time, day) ==
  /\ schedule # Absent
  /\ schedule.available
  /\ \/ time = Absent
     \/ schedule.available24h
     \/ \E range \in RangesForDay(schedule, day) : RangeContains(range, time)

\* dayKey: the weekday of a date, which is its number of days since a Sunday
DayKey(date) == date % 7
=============================================================================
