------------------------------ MODULE LogFormat ------------------------------
(***************************************************************************)
(* The pure parts of the logger (logger/Log.hpp): the calendar, the text   *)
(* of numbers, the line of a message, the order of its tags, the date that *)
(* a thread keeps from line to line, and the configuration.                *)
(* A text is a sequence of ASCII codes, a point of time a day and a        *)
(* millisecond of it, a double a whole part and a fraction in units of     *)
(* 1/Unit.  The recursion of the templates and the loops is that of        *)
(* functions.                                                              *)
(***************************************************************************)
EXTENDS Integers, Sequences, FiniteSets, SequencesExt

CONSTANT ParseWidth     \* digits parseLength compares at once: 10 in the code

ASSUME ParseAssumption == ParseWidth \in Nat \ {0}

Minus == 45
Dot == 46
Space == 32
Newline == 10
Zero == 48
Unset == 0              \* a byte that nothing wrote

-----------------------------------------------------------------------------
(* Numbers                                                                 *)

Ten[k \in Nat] == IF k = 0 THEN 1 ELSE 10 * Ten[k - 1]

\* meta::length and NumericMetaStringBuilder, of numbers not negative.
length[i \in Nat] == IF i < 10 THEN 1 ELSE 1 + length[i \div 10]
NumericMetaString[i \in Nat] ==
    IF i < 10 THEN <<Zero + i>>
    ELSE Append(NumericMetaString[i \div 10], Zero + (i % 10))

\* LeadingZeroNumeric<I, P>
LeadingZeroNumeric(i, p) ==
    [k \in 1 .. p - length[i] |-> Zero] \o NumericMetaString[i]

\* LeadingZeroNumericArray<N, P>: the rows of a table, built in chunks of at most
\* 500 numbers
Rows(b, e, p) == [k \in 1 .. e - b |-> LeadingZeroNumeric(b + k - 1, p)]
LeadingZeroNumericArray(n, p) ==
    LET range[b \in 0 .. n] ==
            IF 500 >= n - b THEN Rows(b, n, p)
            ELSE Rows(b, b + 500, p) \o range[b + 500]
    IN  range[0]

digits100 == LeadingZeroNumericArray(100, 2)
digits1000 == LeadingZeroNumericArray(1000, 3)
digits2050 == LeadingZeroNumericArray(2050, 4)

At(array, i) == array[i + 1]

Abs(n) == IF n < 0 THEN -n ELSE n

\* Stream::parseLength of an integer: it looks for the decade, and takes off
\* ParseWidth digits of a number that is beyond the last one.
NatLength[n \in Nat] ==
    IF n = 0 THEN 1
    ELSE IF n < Ten[ParseWidth]
         THEN CHOOSE k \in 1 .. ParseWidth : Ten[k - 1] <= n /\ n <= Ten[k] - 1
         ELSE ParseWidth + NatLength[n \div Ten[ParseWidth]]
parseLength(val) == IF val < 0 THEN 1 + NatLength[-val] ELSE NatLength[val]

\* The digits that parse() writes from right to left while msg is not 0.
Parsed[msg \in Nat] ==
    IF msg = 0 THEN <<>> ELSE Append(Parsed[msg \div 10], Zero + (msg % 10))

\* Stream::parse of an integer into a buffer of len bytes
parseInteger(msg, len) ==
    LET digits == Parsed[Abs(msg)]
        first == len - Len(digits)
    IN  [p \in 1 .. len |->
            IF p > first THEN digits[p - first]
            ELSE IF p = 1 /\ msg < 0 THEN Minus
            ELSE IF p = 1 /\ msg = 0 THEN Zero ELSE Unset]

Unit == 10000000
Fractions == 0 .. Unit - 1
Limit == 5              \* limit: six digits at most

\* The loops over the fraction in parseLength(double) and parse(double)
FractionLength[limit \in 0 .. Limit] ==
    [f \in Fractions |->
        1 + IF (10 * f) % Unit > 0 /\ limit > 0
            THEN FractionLength[limit - 1][(10 * f) % Unit] ELSE 0]
Fraction[limit \in 0 .. Limit] ==
    [f \in Fractions |->
        <<Zero + (10 * f) \div Unit>>
        \o IF (10 * f) % Unit > 0 /\ limit > 0
           THEN Fraction[limit - 1][(10 * f) % Unit] ELSE <<>>]

\* Of a double that is not 0.0: parseLength(0.0) does not return.
Sign(d) == IF d.neg THEN <<Minus>> ELSE <<>>
parseLengthDouble(d) == Len(Sign(d)) + parseLength(d.i) + 1 + FractionLength[Limit][d.f]
parseDouble(d) ==
    Sign(d) \o parseInteger(d.i, parseLength(d.i)) \o <<Dot>> \o Fraction[Limit][d.f]

-----------------------------------------------------------------------------
(* The line of a message                                                   *)

NoContext == [local |-> <<>>, ioves |-> <<>>, total |-> 0]

updateExternal(ctx, iov) ==
    [local |-> ctx.local, ioves |-> Append(ctx.ioves, iov), total |-> ctx.total + iov.len]

\* Mutant of updateLocal: cur does not advance.
updateLocalStays(ctx, text) ==
    updateExternal([ctx EXCEPT !.local = text \o @],
                   [at |-> 0, text |-> <<>>, len |-> Len(text)])

\* The text is in local at cur; the vector points there.
updateLocal(ctx, text) ==
    updateExternal([ctx EXCEPT !.local = @ \o text],
                   [at |-> Len(ctx.local), text |-> <<>>, len |-> Len(text)])

External(text) == [at |-> -1, text |-> text, len |-> Len(text)]

Cached == 10000         \* numbers below it are taken from a table

IsCached(a) == \/ a.kind = "int" /\ a.value > 0 /\ a.value < Cached
               \/ a.kind = "size_t" /\ a.value < Cached

\* resolveDispatch of an array of vectors
updateAll(ctx, texts) ==
    LET after[k \in 0 .. Len(texts)] ==
            IF k = 0 THEN ctx ELSE updateExternal(after[k - 1], External(texts[k]))
    IN  after[Len(texts)]

\* resolveDispatch, by the type of the argument
resolveDispatch(ctx, a) ==
    CASE a.kind = "literal" -> updateExternal(ctx, External(a.value))
      [] a.kind = "vectors" -> updateAll(ctx, a.value)
      [] a.kind \in {"int", "size_t"} ->
             IF IsCached(a)
                THEN updateExternal(ctx, External(NumericMetaString[a.value]))
                ELSE updateLocal(ctx, parseInteger(a.value, parseLength(a.value)))
      [] a.kind = "double" -> updateLocal(ctx, parseDouble(a.value))
      [] a.kind = "char" -> updateLocal(ctx, <<a.value>>)

resolve(msgs) ==
    LET ctx[k \in 0 .. Len(msgs)] ==
            IF k = 0 THEN NoContext ELSE resolveDispatch(ctx[k - 1], msgs[k])
    IN  ctx[Len(msgs)]
calspace(ctx) == ctx.total + Len(ctx.ioves)

\* Resolver::put: what it copies into the shared buffer
put(ctx) ==
    FlattenSeq([k \in DOMAIN ctx.ioves |->
        LET iov == ctx.ioves[k]
            text == IF iov.at = -1 THEN iov.text
                    ELSE SubSeq(ctx.local, iov.at + 1, iov.at + iov.len)
        IN  Append(text, IF k = Len(ctx.ioves) THEN Newline ELSE Space)])

-----------------------------------------------------------------------------
(* The tags of a line                                                      *)

Tags == {"DateTime", "Level", "ThreadId"}
Elem == [t \in Tags |-> CASE t = "DateTime" -> 1 [] t = "Level" -> 2 [] t = "ThreadId" -> 3]

\* Find<Min<Ts...>::type, Ts...>
MinIndex(ts) == CHOOSE k \in DOMAIN ts :
                   /\ \A j \in DOMAIN ts : Elem[ts[k]] <= Elem[ts[j]]
                   /\ \A j \in 1 .. k - 1 : ts[j] # ts[k]

Sort[ts \in Seq(Tags)] ==
    IF Len(ts) <= 1 THEN ts
    ELSE <<ts[MinIndex(ts)]>> \o Sort[RemoveAt(ts, MinIndex(ts))]

-----------------------------------------------------------------------------
(* Dates                                                                   *)

\* Chrono::calDate, of days since 1970-01-01
calDate(day) ==
    LET z == day + 719468
        era == z \div 146097
        doe == z - era * 146097
        yoe == (doe - doe \div 1460 + doe \div 36524 - doe \div 146096) \div 365
        doy == doe - (365 * yoe + yoe \div 4 - yoe \div 100)
        mp == (5 * doy + 2) \div 153
        m == mp + (IF mp < 10 THEN 3 ELSE -9)
    IN  [y |-> yoe + era * 400 + (IF m <= 2 THEN 1 ELSE 0), m |-> m,
         d |-> doy - (153 * mp + 2) \div 5 + 1]

\* Chrono::calTime, of the milliseconds of a day
calTime(ms) == [h |-> ms \div 3600000, m |-> (ms % 3600000) \div 60000,
                s |-> (ms % 60000) \div 1000, S |-> ms % 1000]

\* point - last >= 24h
DayPassed(last, point) ==
    \/ point.day > last.day + 1
    \/ point.day = last.day + 1 /\ point.ms >= last.ms

\* Mutant of thisDay: the time of day stays.
thisDayAsIs(point) == point
thisDay(point) == [day |-> point.day, ms |-> 0]

\* dateRecord, timeRecord and last of a thread
NoRecord == [last |-> [day |-> 0, ms |-> 0],
             date |-> At(digits2050, 1970) \o <<Minus>> \o At(digits100, 1)
                      \o <<Minus>> \o At(digits100, 1),
             time |-> <<>>]

\* Chrono::format: the date is only written when a day has passed.
format(rec, point) ==
    LET date == calDate(point.day)
        time == calTime(point.ms)
    IN  [last |-> IF DayPassed(rec.last, point) THEN thisDay(point) ELSE rec.last,
         date |-> IF DayPassed(rec.last, point)
                     THEN At(digits2050, date.y) \o <<Minus>> \o At(digits100, date.m)
                          \o <<Minus>> \o At(digits100, date.d)
                     ELSE rec.date,
         time |-> At(digits100, time.h) \o <<58>> \o At(digits100, time.m)
                  \o <<58>> \o At(digits100, time.s) \o <<Dot>>
                  \o At(digits1000, time.S)]

-----------------------------------------------------------------------------
(* The configuration                                                       *)

Default == [type |-> "CONFIG", dir |-> ".", filename |-> "log_default",
            extension |-> ".log", size |-> 0, levels |-> {}, rolling |-> 24,
            align |-> 20]

\* Mutant of Configure: LOG_FILTER falls through to MAX_FILE_SIZE.
ConfigureFallsThrough(c, l) ==
    IF l.type = "LOG_FILTER" THEN [c EXCEPT !.levels = l.levels, !.size = l.size]
    ELSE IF l.type = "MAX_FILE_SIZE" THEN [c EXCEPT !.size = l.size]
    ELSE c

\* One child of config(std::initializer_list<config>); copy() leaves align out.
Configure(c, l) ==
    CASE l.type = "CONFIG" -> [l EXCEPT !.align = c.align]
      [] l.type = "LOG_PATH" -> [c EXCEPT !.dir = l.dir, !.filename = l.filename,
                                          !.extension = l.extension]
      [] l.type = "LOG_FILTER" -> [c EXCEPT !.levels = l.levels]
      [] l.type = "MAX_FILE_SIZE" -> [c EXCEPT !.size = l.size]
      [] l.type = "ROLLING" -> [c EXCEPT !.rolling = l.rolling]
      [] l.type = "MSG_ALIGN" -> [c EXCEPT !.align = l.align]

config(settings) ==
    LET c[k \in 0 .. Len(settings)] ==
            IF k = 0 THEN Default ELSE Configure(c[k - 1], settings[k])
    IN  c[Len(settings)]

\* log_path(std::initializer_list<log_path>) of log_dir, log_filename and
\* log_filename_extension
log_path(settings) ==
    FoldLeft(LAMBDA c, l : [c EXCEPT ![l.field] = l.value],
             [Default EXCEPT !.type = "LOG_PATH"], settings)
log_dir(v) == [field |-> "dir", value |-> v]
log_filename(v) == [field |-> "filename", value |-> v]

=============================================================================
