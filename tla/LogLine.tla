------------------------------- MODULE LogLine -------------------------------
(***************************************************************************)
(* A thread that logs: line by line, with tags and arguments of the kinds  *)
(* below, while the clock goes on; and the configuration it was given.     *)
(***************************************************************************)
EXTENDS LogFormat

CONSTANT Names          \* of directories and files, and their extensions

ASSUME NamesAssumption == {".", "log_default", ".log"} \subseteq Names

VARIABLES
    children,           \* the settings of the included configuration file
    clock,              \* the time of the last line
    record,             \* dateRecord, timeRecord and last of the thread
    line,               \* what put() copied for the last line
    today,              \* auxiliary: the date of clock by the calendar,
    said                \* tags and arguments of the last line

logvars == <<children, clock, record, line, today, said>>

-----------------------------------------------------------------------------
(* Reference definitions                                                   *)

Leap(y) == y % 4 = 0 /\ (y % 100 # 0 \/ y % 400 = 0)
DaysOf(m, y) == IF m = 2 THEN IF Leap(y) THEN 29 ELSE 28
                ELSE IF m \in {4, 6, 9, 11} THEN 30 ELSE 31
NextDay(t) ==
    IF t.d < DaysOf(t.m, t.y) THEN [t EXCEPT !.d = @ + 1]
    ELSE IF t.m < 12 THEN [y |-> t.y, m |-> t.m + 1, d |-> 1]
    ELSE [y |-> t.y + 1, m |-> 1, d |-> 1]

\* The date n days after t
Later(t, n) ==
    LET date[k \in 0 .. n] == IF k = 0 THEN t ELSE NextDay(date[k - 1])
    IN  date[n]

\* The number that a text of digits says.
ValueOf(text) ==
    LET value[k \in 0 .. Len(text)] ==
            IF k = 0 THEN 0 ELSE 10 * value[k - 1] + (text[k] - Zero)
    IN  value[Len(text)]

-----------------------------------------------------------------------------
(* Inputs                                                                  *)

LastDay == 29219        \* 2049-12-31, the last year of digits2050
DayTimes == {ms \in Nat : ms < 86400000}

\* What fits into a setting is not told apart.
Configs == [type : {"CONFIG", "LOG_PATH", "LOG_FILTER", "MAX_FILE_SIZE", "ROLLING", "MSG_ALIGN"},
            dir : Names, filename : Names, extension : Names,
            size : Nat, levels : SUBSET STRING, rolling : Nat, align : Nat]

TagLists == {ts \in UNION {[1 .. n -> Tags] : n \in 0 .. 3} : IsInjective(ts)}

Char == 0 .. 255
Doubles == {d \in [neg : BOOLEAN, i : Nat, f : Fractions] : d.i # 0 \/ d.f # 0}
Argument ==
    [kind : {"literal"}, value : Seq(Char)]
    \cup [kind : {"vectors"}, value : Seq(Seq(Char))]
    \cup [kind : {"int"}, value : Int]
    \cup [kind : {"size_t"}, value : Nat]
    \cup [kind : {"double"}, value : Doubles]
    \cup [kind : {"char"}, value : Char]

-----------------------------------------------------------------------------
(* Behaviour                                                               *)

LogInit ==
    /\ children \in Seq(Configs)
    /\ clock = [day |-> 0, ms |-> 0] /\ today = [y |-> 1970, m |-> 1, d |-> 1]
    /\ record = NoRecord
    /\ line = <<>> /\ said = [tags |-> <<>>, msgs |-> <<>>]

\* The text of a tag: an array of two vectors, a character, a vector.
Tag(t, r) ==
    CASE t = "DateTime" -> [kind |-> "vectors", value |-> <<r.date, r.time>>]
      [] t = "Level" -> [kind |-> "char", value |-> 73]
      [] t = "ThreadId" -> [kind |-> "vectors", value |-> <<parseInteger(4242, parseLength(4242))>>]

\* Log::info(msgs...) of LogBase<tags...>, some days after the last line
Log(days, ms, tags, msgs) ==
    LET point == [day |-> clock.day + days, ms |-> ms]
        r == format(record, point)
        sorted == Sort[tags]
        all == [k \in DOMAIN sorted |-> Tag(sorted[k], r)] \o msgs
    IN  /\ point.day <= LastDay /\ (days = 0 => ms >= clock.ms)
        /\ clock' = point /\ today' = Later(today, days)
        /\ record' = r
        /\ line' = put(resolve(all))
        /\ said' = [tags |-> tags, msgs |-> msgs]
        /\ UNCHANGED children

LogNext == \E days \in Nat, ms \in DayTimes, tags \in TagLists, msgs \in Seq(Argument) :
               Log(days, ms, tags, msgs)

LogSpec == LogInit /\ [][LogNext]_logvars

-----------------------------------------------------------------------------
(* Properties                                                              *)

Shown == <<ValueOf(SubSeq(record.date, 1, 4)), ValueOf(SubSeq(record.date, 6, 7)),
           ValueOf(SubSeq(record.date, 9, 10))>>

ShownMs == ValueOf(SubSeq(record.time, 1, 2)) * 3600000
           + ValueOf(SubSeq(record.time, 4, 5)) * 60000
           + ValueOf(SubSeq(record.time, 7, 8)) * 1000
           + ValueOf(SubSeq(record.time, 10, 12))

\* The date and time of a line are the ones of its day in the Gregorian calendar,
\* leap years included, and the date a thread keeps is never stale while the
\* clock does not go back: the first line of a day shows the new date although
\* the previous line was written less than 24 hours before.
DateShown ==
    /\ Shown = <<today.y, today.m, today.d>>
    /\ record.time # <<>> => ShownMs = clock.ms

\* A number says itself, with no more digits than it needs.
SaysNumber(text, n) ==
    LET digits == IF n < 0 THEN Tail(text) ELSE text
    IN  /\ n < 0 => text[1] = Minus
        /\ ValueOf(digits) = Abs(n) /\ (n # 0 => digits[1] # Zero)

\* A double says at most six digits of its fraction, no last zero among them but
\* of a whole number; parseLength set aside the bytes that parse filled.
SaysDouble(text, d) ==
    LET number == IF d.neg THEN Tail(text) ELSE text
        dot == CHOOSE k \in DOMAIN number : number[k] = Dot
        digits == Len(number) - dot
    IN  /\ Len(text) = parseLengthDouble(d)
        /\ d.neg => text[1] = Minus
        /\ SaysNumber(SubSeq(number, 1, dot - 1), d.i)
        /\ digits \in 1 .. 6
        /\ ValueOf(SubSeq(number, dot + 1, Len(number))) = d.f \div Ten[7 - digits]
        /\ digits < 6 => d.f % Ten[7 - digits] = 0

\* The texts of one argument, each of which a line separates
Texts(a) ==
    CASE a.kind = "literal" -> <<a.value>>
      [] a.kind = "vectors" -> a.value
      [] a.kind \in {"int", "size_t"} -> <<parseInteger(a.value, parseLength(a.value))>>
      [] a.kind = "double" -> <<parseDouble(a.value)>>
      [] a.kind = "char" -> <<<<a.value>>>>

NumberRight(a) ==
    /\ a.kind \in {"int", "size_t"} => SaysNumber(Texts(a)[1], a.value)
    /\ a.kind = "double" => SaysDouble(Texts(a)[1], a.value)

\* The fixed order of some tags
IsOrderOf(order, tags) ==
    /\ ToSet(order) = ToSet(tags)
    /\ \A i, j \in DOMAIN order : i < j => Elem[order[i]] < Elem[order[j]]

\* A line is the texts of its tags, in their fixed order, and of its arguments,
\* none overwritten by a later one and each as long as it was said to be; numbers
\* are right; and put() copied the bytes that apply() reserves with calspace().
LineRight ==
    /\ \E order \in TagLists :
          /\ IsOrderOf(order, said.tags)
          /\ LET all == [k \in DOMAIN order |-> Tag(order[k], record)] \o said.msgs
                 texts == FlattenSeq([k \in DOMAIN all |-> Texts(all[k])])
             IN  /\ line = FlattenSeq([k \in DOMAIN texts |->
                              Append(texts[k], IF k = Len(texts) THEN Newline ELSE Space)])
                 /\ Len(line) = calspace(resolve(all))
    /\ \A k \in DOMAIN said.msgs : NumberRight(said.msgs[k])

\* The last setting of some types, or the default one
LastSetting(types) ==
    LET places == {k \in DOMAIN children : children[k].type \in types}
    IN  IF places = {} THEN Default
        ELSE children[CHOOSE k \in places : \A j \in places : j <= k]

\* Settings of different kinds do not disturb each other: wherever the others
\* stand, each field of the configuration is that of the last child that sets it.
\* A config inside a config sets all of them but align.
SettingsCommute ==
    LET path == LastSetting({"CONFIG", "LOG_PATH"})
    IN  config(children) =
            [type |-> "CONFIG",
             dir |-> path.dir, filename |-> path.filename, extension |-> path.extension,
             size |-> LastSetting({"CONFIG", "MAX_FILE_SIZE"}).size,
             levels |-> LastSetting({"CONFIG", "LOG_FILTER"}).levels,
             rolling |-> LastSetting({"CONFIG", "ROLLING"}).rolling,
             align |-> LastSetting({"MSG_ALIGN"}).align]
=============================================================================
