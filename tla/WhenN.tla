------------------------------- MODULE WhenN -------------------------------
(***************************************************************************)
(* whenAll, whenN, whenNIf, whenAny and whenAnyIf (future/Futures.h and    *)
(* future/FuturesInternal.h): a poll over the control blocks of other      *)
(* futures, which looks at their states once per turn and copies values.   *)
(* The sources change between turns: they are set, chained, used by their  *)
(* continuations, cancelled and killed by get(), as FutureChain has them   *)
(* in detail.                                                              *)
(*                                                                         *)
(* A turn of the poll is one step: it runs in the Looper and calls nothing *)
(* of the user but the condition, a function of the value.                 *)
(***************************************************************************)
EXTENDS Integers, Sequences, FiniteSets, SequencesExt

CONSTANTS
    N,           \* the number of futures given
    Values,      \* what they are set to
    Satisfying,  \* the values for which the condition holds; whenN's always does
    MayCancel,   \* sources whose promise may be cancelled, or future killed
    Default,     \* the value of a control block that was not set
    Moved        \* what is left of a value that was moved

ASSUME WhenAssumption ==
    /\ N \in Nat \ {0}
    /\ Satisfying \subseteq Values \cup {Moved}
    /\ Moved \notin Values
    /\ Default \notin Values \cup {Moved}
    /\ MayCancel \subseteq 1 .. N

Sources == 1 .. N

VARIABLES
    state, value,  \* _state and _value of the sources' control blocks
    posted,        \* the request of a source's continuation, see Requests
    kind, n,       \* "all": whenAll, "n": whenN or whenNIf, "any": of 1
    queries,       \* the vector of (index, control block): indexes
    results,       \* the vector of (index, value)
    pc             \* "poll", "then", "first" or "done"

vars == <<state, value, posted, kind, n, queries, results, pc>>
sourceVars == <<state, value, posted>>

\* Never posted; in the Looper, or its coroutine suspended; returned.
Requests == {"none", "pending", "over"}

callVars == <<kind, n>>

Init ==
    /\ state = [i \in Sources |-> "NEW"]
    /\ value = [i \in Sources |-> Default]
    /\ posted = [i \in Sources |-> "none"]
    /\ kind \in {"all", "n", "any"}
    /\ n \in CASE kind = "all" -> {N} [] kind = "n" -> 0 .. N [] OTHER -> {1}
    /\ queries = [i \in Sources |-> i]
    /\ results = <<>>
    /\ pc = "poll"

-----------------------------------------------------------------------------
(* The sources, between two turns                                          *)

\* postRequest()
Posts(i) ==
    /\ state' = [state EXCEPT ![i] = "POSTED"]
    /\ posted' = [posted EXCEPT ![i] = "pending"]

\* setValue(), which posts the continuation if there is one.
SetValue(i) ==
    /\ state[i] = "NEW"
    /\ \E v \in Values : value' = [value EXCEPT ![i] = v]
    /\ \/ Posts(i)
       \/ state' = [state EXCEPT ![i] = "READY"] /\ UNCHANGED posted

\* then(), poll(), ... of a future that is READY.
Chain(i) == state[i] = "READY" /\ Posts(i) /\ UNCHANGED value

\* The continuation, or a turn of its poll, has the value by reference: it may
\* move it, if it takes T or T&&, or assign to it.
Use(i) ==
    /\ posted[i] = "pending"
    /\ \E v \in Values \cup {Moved} : value' = [value EXCEPT ![i] = v]
    /\ UNCHANGED <<state, posted>>

\* It returns: DONE, whatever cancel() or get() has made of the state since.
Finish(i) ==
    /\ posted[i] = "pending"
    /\ state' = [state EXCEPT ![i] = "DONE"]
    /\ posted' = [posted EXCEPT ![i] = "over"]
    /\ UNCHANGED value

\* cancel()
Cancel(i) ==
    /\ i \in MayCancel
    /\ state' = [state EXCEPT ![i] = "CANCEL"]
    /\ UNCHANGED <<value, posted>>

\* get(); moving a value may leave it as it is.
Get(i) ==
    /\ i \in MayCancel
    /\ state' = [state EXCEPT ![i] = "DEAD"]
    /\ \E v \in {value[i], Moved} : value' = [value EXCEPT ![i] = v]
    /\ UNCHANGED posted

Source ==
    /\ \E i \in Sources :
           SetValue(i) \/ Chain(i) \/ Use(i) \/ Finish(i) \/ Cancel(i) \/ Get(i)
    /\ UNCHANGED <<callVars, queries, results, pc>>

-----------------------------------------------------------------------------
(* The poll                                                                *)

\* Mutant of HasValue: a future whose continuation has run no longer counts.
HasValueBeforeDone(i) == state[i] \in {"READY", "POSTED"}

HasValue(i) == state[i] \in {"READY", "POSTED", "DONE"}

Answered(i) == HasValue(i) /\ value[i] \in Satisfying

\* pass: forEach over the tuple stops at the first future without a value.
AllHave == \A i \in Sources : HasValue(i)

\* A turn of whenAll: the values are copied in the turn in which all are there.
PollAll ==
    /\ pc = "poll" /\ kind = "all" /\ AllHave
    /\ results' = [i \in Sources |-> <<i, value[i]>>]
    /\ pc' = "then"
    /\ UNCHANGED <<sourceVars, callVars, queries>>

\* The queries are looked at from the back.
Remain == n - Len(results)
Taken ==
    {k \in DOMAIN queries :
        /\ Answered(queries[k])
        /\ Cardinality({l \in DOMAIN queries : l > k /\ Answered(queries[l])})
               < Remain}

\* Positions from the back.
Descending(K) ==
    CHOOSE order \in [1 .. Cardinality(K) -> K] :
        \A k, l \in 1 .. Cardinality(K) : k < l => order[k] > order[l]

\* The queries at the positions K, from the back.
FromBack(K) == [k \in 1 .. Cardinality(K) |-> queries[Descending(K)[k]]]

\* Mutant of Rest: noresponse is not swapped back.
RestNone(T) == <<>>

\* noresponse, in the order in which it was filled.
Rest(T) == FromBack(DOMAIN queries \ T)

\* What the turn appends to results.
Responses(T) ==
    [k \in 1 .. Cardinality(T) |-> <<FromBack(T)[k], value[FromBack(T)[k]]>>]

Collected(T) == results \o Responses(T)

\* A turn of whenN.  After the last one queries holds only what was passed
\* before remain reached 0; nobody looks at it again.
PollN ==
    /\ pc = "poll" /\ kind # "all"
    /\ queries' = Rest(Taken)
    /\ results' = Collected(Taken)
    /\ pc' = IF Len(results') = n THEN "then" ELSE "poll"
    /\ UNCHANGED <<sourceVars, callVars>>

-----------------------------------------------------------------------------
(* The continuation that moves the results out                             *)

\* Mutant of Sorted: the results stay in the order of their arrival.
SortedByArrival(s) == s

\* std::sort by index; no two results have the same.
Sorted(s) ==
    LET places == CHOOSE p \in [DOMAIN s -> DOMAIN s] :
                      \A k, l \in DOMAIN s : k < l => s[p[k]][1] < s[p[l]][1]
    IN  [k \in DOMAIN s |-> s[places[k]]]

Then ==
    /\ pc = "then"
    /\ results' = IF kind = "all" THEN results ELSE Sorted(results)
    /\ pc' = IF kind = "any" THEN "first" ELSE "done"
    /\ UNCHANGED <<sourceVars, callVars, queries>>

\* whenAny: the continuation that takes results[0].
First ==
    /\ pc = "first"
    /\ results' = <<results[1]>>
    /\ pc' = "done"
    /\ UNCHANGED <<sourceVars, callVars, queries>>

When == PollAll \/ PollN \/ Then \/ First

Next == Source \/ When

\* The Looper resumes the poll for ever.
Spec == Init /\ [][Next]_vars /\ WF_vars(When)

-----------------------------------------------------------------------------
(* Properties                                                              *)

Found == {results[k][1] : k \in DOMAIN results}

\* While whenN polls, every future is either still asked or has answered, once,
\* in whatever turns the answers came and however often the vectors swapped.
AskedOrFound ==
    (pc = "poll" /\ kind # "all") =>
        /\ Len(queries) + Len(results) = N
        /\ Found \cup {queries[k] : k \in DOMAIN queries} = Sources

\* The caller gets as many results as it asked for, of different futures, in the
\* order of their indexes; of whenN each satisfies the condition.  A result is a
\* value that its future had: never that of a future that was not set, and what is
\* left of a moved value only from a future whose continuation was posted, which
\* counts although the continuation, or a get(), has moved it.
ResultsComplete ==
    /\ \A k \in DOMAIN results :
          \/ results[k][2] \in Values
          \/ results[k][2] = Moved /\ posted[results[k][1]] # "none"
    /\ pc = "done" =>
        /\ Len(results) = n
        /\ \A k, l \in DOMAIN results : k < l => results[k][1] < results[l][1]
        /\ kind # "all" => \A k \in DOMAIN results : results[k][2] \in Satisfying

\* If from some time on as many futures as wanted have answered or keep a value
\* that counts, the caller gets its results, whatever the others do.
Lasting ==
    {i \in Sources :
        /\ state[i] \notin {"NEW", "CANCEL", "DEAD"}
        /\ kind # "all" => value[i] \in Satisfying}
EnoughCompletes ==
    <>[](Cardinality(Found \cup Lasting) >= n) => <>(pc = "done")
=============================================================================
