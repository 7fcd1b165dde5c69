-------------------------------- MODULE Http --------------------------------
(***************************************************************************)
(* One connection of the HTTP server of examples/http over the Buffer of   *)
(* its Context.  The peer sends lines: a request line of HTTP/1.0 or 1.1,  *)
(* some other line (a header, for one) or an empty one; a message is what  *)
(* the server reads at once, cut anywhere.  A byte of the text of a line   *)
(* tells what the line is.                                                 *)
(***************************************************************************)
EXTENDS Buffer, FiniteSets

CONSTANTS
    Size,          \* capacity of a new Buffer, 128 in the code
    TextLength,    \* bytes of a line that is not empty, without its end
    MaxLines,      \* bound: lines that the peer sends
    Reads          \* how many bytes a read may find

\* All lines of a connection fit into the largest Buffer: its capacity is an int.
ASSUME HttpAssumption ==
    /\ Size \in Nat \ {0} /\ TextLength \in Nat \ {0} /\ MaxLines \in Nat
    /\ Reads \subseteq Nat
    /\ MaxLines * (TextLength + 2) <= 2 ^ 30

VARIABLES
    lines, wire,   \* how many lines the peer sent; those bytes the server has not read
    input,         \* Context::input
    connected,     \* Context::_nState is CONNECTED
    received,      \* auxiliary: all bytes read,
    consumed,      \* how many of them were consumed,
    answers        \* and what was sent, with the bytes consumed before and after

vars == <<lines, wire, input, connected, received, consumed, answers>>

CR == "\r"
LF == "\n"
Kinds == {"V10", "V11", "other", "empty"}
Line(kind) == [i \in 1 .. (IF kind = "empty" THEN 0 ELSE TextLength) |-> kind] \o <<CR, LF>>

Init ==
    /\ lines = 0 /\ wire = <<>> /\ input = Empty(Size) /\ connected = TRUE
    /\ received = <<>> /\ consumed = 0 /\ answers = <<>>

-----------------------------------------------------------------------------
(* Parser                                                                  *)

\* std::find of the end of the first line: last when there is none
FindCr(bytes) ==
    IF CR \in ToSet(bytes) THEN SelectInSeq(bytes, LAMBDA c : c = CR) ELSE Len(bytes) + 1

HasLine(bytes) ==
    LET rpos == FindCr(bytes) IN rpos + 1 <= Len(bytes) /\ bytes[rpos + 1] = LF

\* parseNextLine, and Request::setMethod: the version, or none if it is no
\* request line.
Version(bytes) == IF Head(bytes) \in {"V10", "V11"} THEN Head(bytes) ELSE "UNKNOWN"

\* What the states of a Stream do with the bytes between first and last; parse()
\* passes both by value, so that NEXT_HEADER sees the request line again.
parseNextHeader(bytes, consumes) ==
    IF ~HasLine(bytes) THEN [consumes |-> consumes, ready |-> FALSE, bad |-> FALSE]
    ELSE [consumes |-> consumes, ready |-> FindCr(bytes) # 1, bad |-> FindCr(bytes) = 1]

parseInit(bytes) ==
    LET consumes == FindCr(bytes) + 1
    IN  IF ~HasLine(bytes) \/ FindCr(bytes) = 1
        THEN [consumes |-> 0, ready |-> FALSE, bad |-> FALSE]
        ELSE IF Version(bytes) = "UNKNOWN" THEN [consumes |-> 0, ready |-> FALSE, bad |-> TRUE]
        ELSE IF consumes < Len(bytes) THEN parseNextHeader(bytes, consumes)
        ELSE [consumes |-> consumes, ready |-> FALSE, bad |-> FALSE]

\* The Stream that a message begins with is a copy of the one of onConnect, so
\* it is always in INIT.
parse(bytes) == parseInit(bytes)

-----------------------------------------------------------------------------
(* Server                                                                  *)

\* Mutant of Sends: shutdown() does not keep a Context from sending.
SendsAlways == TRUE

\* Context::send
Sends == connected

\* Response::stream
Answer(code, closes, before, after) ==
    IF Sends
    THEN answers' = Append(answers, [code |-> code, close |-> closes, from |-> before, to |-> after])
    ELSE UNCHANGED answers

\* The callback of onMessage; the user's onRequest may set and clear closeFlag,
\* whatever the version and the header have made of it.
Message(n) ==
    /\ n <= Len(wire) /\ wire' = SubSeq(wire, n + 1, Len(wire))
    /\ received' = received \o SubSeq(wire, 1, n)
    /\ LET b == readFrom(input, SubSeq(wire, 1, n))
           parsed == parse(Content(b))
       IN  IF parsed.bad
           THEN /\ Answer("400", TRUE, consumed, consumed)
                /\ input' = b /\ connected' = FALSE /\ UNCHANGED consumed
           ELSE /\ input' = hasRead(b, parsed.consumes)
                /\ consumed' = consumed + parsed.consumes
                /\ \/ ~parsed.ready /\ UNCHANGED <<connected, answers>>
                   \/ /\ parsed.ready
                      /\ \E closes \in BOOLEAN :
                            /\ Answer("200", closes, consumed, consumed')
                            /\ connected' = (connected /\ ~closes)
    /\ UNCHANGED lines

Peer ==
    /\ lines < MaxLines /\ lines' = lines + 1
    /\ \E kind \in Kinds : wire' = wire \o Line(kind)
    /\ UNCHANGED <<input, connected, received, consumed, answers>>

Next == Peer \/ \E n \in Reads : Message(n)

Spec == Init /\ [][Next]_vars

-----------------------------------------------------------------------------
(* Properties                                                              *)

\* Through growing, compacting and resetting, the buffer holds exactly the bytes
\* that were read and not consumed, in order; its cursors stay inside it.
InputKept ==
    /\ 0 <= input.r /\ input.r <= input.w /\ input.w <= capacity(input)
    /\ Content(input) = SubSeq(received, consumed + 1, Len(received))

\* Every answer to a request is the only one to a request line that arrived
\* complete, in the order of the lines, whatever the messages were cut into;
\* nothing follows an answer that closes.
AnswersHonest ==
    /\ \A i \in DOMAIN answers :
          LET a == answers[i]
              line == SubSeq(received, a.from + 1, a.to)
          IN  /\ a.code = "200" => \E v \in {"V10", "V11"} : line = Line(v)
              /\ a.close => i = Len(answers) /\ ~connected
    /\ \A i, j \in DOMAIN answers : i < j => answers[i].to <= answers[j].from
=============================================================================
