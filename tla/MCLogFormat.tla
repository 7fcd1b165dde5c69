----------------------------- MODULE MCLogFormat -----------------------------
(***************************************************************************)
(* One thread that logs, day by day to the end of the table of years, and  *)
(* on the first day at many times, in many orders of tags and with many    *)
(* arguments; and, as initial states, configurations.                      *)
(***************************************************************************)
EXTENDS LogLine

-----------------------------------------------------------------------------
(* Inputs                                                                  *)

Times == {0, 43200000}
FirstDayTimes == (0 .. 999) \cup {1000 * s : s \in 1 .. 60} \cup {3599999, 3600000, 86399999}

Numbers == LET Powers == {10 ^ k : k \in 0 .. 9}
               Near == UNION {{p - 1, p, p + 1} : p \in Powers} \cup {2147483647}
           IN  Near \cup {-n : n \in Near}
SomeDoubles == {d \in [neg : BOOLEAN, i : {0, 7, 10, 1999},
                        f : {0, 1, 5000000, 1234560, 1234567, 999999, 100}] :
                  d.i # 0 \/ d.f # 0}

Arguments ==
    [kind : {"literal"}, value : {<<>>, <<65, 66>>}]
    \cup [kind : {"vectors"}, value : {<<<<50>>, <<51, 52>>>>}]
    \cup [kind : {"int"}, value : {-9, 0, 7, 9999, 10000}]
    \cup [kind : {"size_t"}, value : {0, 123456}]
    \cup [kind : {"double"}, value : {[neg |-> TRUE, i |-> 3, f |-> 1400000]}]
    \cup [kind : {"char"}, value : {73}]
Messages == {<<a>> : a \in [kind : {"int"}, value : Numbers]}
            \cup {<<a>> : a \in [kind : {"double"}, value : SomeDoubles]}
            \cup Arguments \X Arguments \cup Arguments \X Arguments \X Arguments

NoTags == <<>>

Settings == {[Default EXCEPT !.type = "LOG_FILTER", !.levels = {"INFO"}],
             [Default EXCEPT !.type = "MAX_FILE_SIZE", !.size = 16],
             [Default EXCEPT !.type = "ROLLING", !.rolling = 2],
             [Default EXCEPT !.type = "MSG_ALIGN", !.align = 30],
             log_path(<<log_dir("logs"), log_filename("app")>>)}
Again == {[Default EXCEPT !.type = "ROLLING", !.rolling = 3],
          config(<<[Default EXCEPT !.type = "MSG_ALIGN", !.align = 40],
                   [Default EXCEPT !.type = "MAX_FILE_SIZE", !.size = 32]>>)}
Files == {a \in SetToAllKPermutations(Settings) : Len(a) = 5}
         \cup SeqOf(Settings \cup Again, 3)

-----------------------------------------------------------------------------
(* Behaviour                                                               *)

MCInit == children \in Files /\ LogInit

\* A later time of the first day, other tags, or a message
FirstDay ==
    /\ children = <<>> /\ clock = [day |-> 0, ms |-> 0] /\ line = <<>>
    /\ \/ \E ms \in FirstDayTimes, ts \in TagLists : Log(0, ms, ts, <<>>)
       \/ \E m \in Messages : Log(0, 0, NoTags, m)

\* The next line comes one or two days later.
LaterDay ==
    /\ children = <<>> /\ said = [tags |-> NoTags, msgs |-> <<>>] /\ clock.ms \in Times
    /\ \E n \in {1, 2}, ms \in Times : Log(n, ms, NoTags, <<>>)

MCNext == FirstDay \/ LaterDay

MCSpec == MCInit /\ [][MCNext]_logvars
=============================================================================
