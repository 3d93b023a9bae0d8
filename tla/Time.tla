-------------------------------- MODULE Time --------------------------------
(* Times and dates (time.c). A second has a few parts here instead of its    *)
(* nanoseconds, and a local time is a count of seconds instead of a calendar *)
(* date; "exact" is what "time" should be, in parts.                         *)
EXTENDS Integers

CONSTANTS Parts,             \* of a second
          MaxExact,          \* bound on "exact", in parts
          Summer             \* the seconds in which daylight saving time is kept

VARIABLES time, exact

(* Seconds are cut towards zero, and what is cut off keeps their sign.       *)
initSeconds_Time(parts) ==
  LET cut == IF parts >= 0 THEN parts \div Parts ELSE -((-parts) \div Parts)
  IN  [sec |-> cut, nsec |-> parts - (cut * Parts)]
Seconds(t) == (t.sec * Parts) + t.nsec          \* seconds_Time, in parts

Init == time = initSeconds_Time(0) /\ exact = 0

RECURSIVE Carry(_), Borrow(_)
Carry(t) == IF t.nsec >= Parts THEN Carry([sec |-> t.sec + 1, nsec |-> t.nsec - Parts]) ELSE t
Borrow(t) == IF t.nsec < 0 THEN Borrow([sec |-> t.sec - 1, nsec |-> t.nsec + Parts]) ELSE t
add_Time(d, t) == Carry([sec |-> d.sec + t.sec, nsec |-> d.nsec + t.nsec])
sub_Time(d, t) == Borrow([sec |-> d.sec - t.sec, nsec |-> d.nsec - t.nsec])

iCmp(a, b) == IF a > b THEN 1 ELSE IF a < b THEN -1 ELSE 0
cmp_Time(d, t) == IF d.sec = t.sec THEN iCmp(d.nsec, t.nsec) ELSE iCmp(d.sec, t.sec)
max_Time(d, t) == IF t.sec > d.sec THEN t
                  ELSE IF t.sec = d.sec /\ t.nsec > d.nsec THEN [d EXCEPT !.nsec = t.nsec] ELSE d

Next == \E parts \in 0..(2 * Parts) + 1 :
          LET t == initSeconds_Time(parts)
          IN  \/ exact + parts <= MaxExact /\ time' = add_Time(time, t) /\ exact' = exact + parts
              \/ exact - parts >= -MaxExact /\ time' = sub_Time(time, t) /\ exact' = exact - parts
              \/ time' = max_Time(time, t) /\ exact' = IF parts > exact THEN parts ELSE exact

-----------------------------------------------------------------------------
(* Dates.                                                                    *)

(* External: the time zone; mktime() goes by the offset it is told to.       *)
Offset(isDST) == IF isDST THEN 2 ELSE 1
localtime_r(seconds) == [local |-> seconds + Offset(seconds \in Summer), isDST |-> seconds \in Summer]
mktime(tm) == tm.local - Offset(tm.isDST)

init_Date(t) == [tm |-> localtime_r(t.sec), nsecs |-> t.nsec]
init_Time(date) == [sec |-> mktime(date.tm), nsec |-> date.nsecs]
sinceEpoch_Date(date) == mktime(localtime_r(mktime(date.tm)))

(* Serialized, by the widths of the fields.                                  *)
dstBit_Date_ == 32768
serialize_Date(d) == <<d.year % 65536, d.month % 256, d.day % 256,
                       d.dayOfYear + (IF d.isDST THEN dstBit_Date_ ELSE 0), d.dayOfWeek % 256,
                       d.hour % 256, d.minute % 256, d.second % 256, d.nsecs,
                       d.gmtOffsetSeconds % 65536>>
deserialize_Date(s) ==
  [year |-> s[1], month |-> s[2], day |-> s[3], dayOfYear |-> s[4] % 512,
   isDST |-> (s[4] \div dstBit_Date_) = 1, dayOfWeek |-> s[5], hour |-> s[6], minute |-> s[7],
   second |-> s[8], nsecs |-> s[9],
   gmtOffsetSeconds |-> IF s[10] >= 32768 THEN s[10] - 65536 ELSE s[10]]

Dates == [year : {0, 1601, 2038, 65535}, month : {1, 12}, day : {31}, dayOfYear : {1, 255, 256, 366},
          isDST : BOOLEAN, dayOfWeek : {0, 6}, hour : {0, 23}, minute : {59}, second : {0, 60},
          nsecs : {0, 999999999}, gmtOffsetSeconds : {-43200, -12600, 0, 32400, 36000, 50400}]

-----------------------------------------------------------------------------

(* Sums, differences and the greater of two times are exact, and have their  *)
(* parts within a second, so that times compare as they are; a time is that  *)
(* of its date, in the hour that is there twice as well; and a date is read  *)
(* as it was written. (Only with an offset that fits in the 16 bits it is    *)
(* written in: up to nine hours and six minutes.)                            *)
TimesAddUp ==
  /\ Seconds(time) = exact /\ time.nsec \in 0..Parts - 1
  /\ \A parts \in 0..MaxExact : cmp_Time(time, initSeconds_Time(parts)) = iCmp(exact, parts)
  /\ init_Time(init_Date(time)) = time /\ sinceEpoch_Date(init_Date(time)) = time.sec
  /\ exact = 0 => \A d \in Dates : (deserialize_Date(serialize_Date(d)) = d)
                    <=> d.gmtOffsetSeconds \in -32768..32767
=============================================================================
