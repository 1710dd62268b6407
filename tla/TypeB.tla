-------------------------------- MODULE TypeB -------------------------------
(***************************************************************************)
(* pkg/typeb: the teletype envelope, read and written, the mark of a       *)
(* possible duplicate, and the numbering of a channel, which               *)
(* gateway.checkSequence follows.                                          *)
(*                                                                         *)
(* A text is a sequence of symbols: words with blanks between them, line   *)
(* ends, and the control characters of a link.  The dot that opens an      *)
(* origin line is a symbol of its own.  Of the diagnostics the model keeps *)
(* whether one is an error.                                                *)
(***************************************************************************)
EXTENDS Integers, Sequences, SequencesExt

CONSTANTS
    MaxLines, MaxBytes,  \* what a message may have, of lines and in all
    SequenceWrap         \* where the channel's counter wraps; 0: not known

CR == "cr"
LF == "lf"
CTL == "ctl"   \* NUL, SOH, STX, ETX, EOT, SYN
PDMIndicator == "PDM"
StartOfMessage == "ZCZC"
EndOfMessage == "NNNN"

Priorities == {"QU", "QD", "QK"}                             \* priorityRe
Addresses == {"LHRRMBA", "NYCRMAA", "LONXX1A", "PASSENGER"}  \* addrRe: seven or more
OriginTimes == {"121430"}
Unprintable == {"x~"}                                        \* not in CharsetITA2
Width(w) == CASE w \in Addresses \ {"PASSENGER"} -> 7 [] w \in OriginTimes -> 6 [] w = "PASSENGER" -> 9
              [] w \in {StartOfMessage, EndOfMessage} -> 4 [] w = PDMIndicator -> 3
              [] w \in Priorities \cup Unprintable -> 2 [] OTHER -> 1

Numbered == [C0 |-> 0, C1 |-> 1, C2 |-> 2, C3 |-> 3, C4 |-> 4, C5 |-> 5, C6 |-> 6, C7 |-> 7]
ChannelOf(n) == CHOOSE c \in DOMAIN Numbered : Numbered[c] = n

-----------------------------------------------------------------------------
(* Lines. *)

Blank(line) == line = <<>>
Dotted(line) == line # <<>> /\ line[1] = "."

\* What is left of the lines from the first one with the property on.
From(lines, P(_)) ==
    LET at == SelectInSeq(lines, P) IN IF at = 0 THEN <<>> ELSE SubSeq(lines, at, Len(lines))
Before(lines, P(_)) == SubSeq(lines, 1, Len(lines) - Len(From(lines, P)))
Filled(lines) == From(lines, LAMBDA l : ~Blank(l))

trimTrailingBlankLines(lines) == SubSeq(lines, 1, SelectLastInSeq(lines, LAMBDA l : ~Blank(l)))

Split(raw) ==
    FoldLeft(LAMBDA lines, w : IF w = LF THEN Append(lines, <<>>)
                               ELSE Append(Front(lines), Append(Last(lines), w)), <<<<>>>>, raw)

Join(lines, sep) == FoldLeft(LAMBDA out, l : out \o l \o sep, <<>>, lines)

Normalise(raw) ==
    LET kept == SelectSeq([i \in 1..Len(raw) |-> [s |-> raw[i], next |-> IF i < Len(raw) THEN raw[i + 1] ELSE ""]],
                          LAMBDA x : x.s # CTL /\ ~(x.s = CR /\ x.next = LF))
    IN  [i \in 1..Len(kept) |-> IF kept[i].s = CR THEN LF ELSE kept[i].s]

\* TrimSpace of a raw line: a control character is not a space, an end is.
TrimSpace(line) ==
    LET words == {i \in 1..Len(line) : line[i] # CR}
    IN  IF words = {} THEN <<>>
        ELSE SubSeq(line, CHOOSE i \in words : \A j \in words : i <= j, CHOOSE i \in words : \A j \in words : j <= i)

-----------------------------------------------------------------------------
(* Reading. *)

allLookLikeAddresses(line) == line # <<>> /\ ToSet(line) \subseteq Addresses

\* The words that are addresses; each other one is an error.
appendAddresses(words) == SelectSeq(words, LAMBDA w : w \in Addresses)

\* The words after the dot: originator, first time group, mark, and the rest.
parseOriginLine(words) ==
    LET rest  == SubSeq(words, 2, Len(words))
        times == {i \in 1..Len(rest) : rest[i] \in OriginTimes}
        first == IF times = {} THEN 0 ELSE CHOOSE i \in times : \A j \in times : i <= j
        extra == SelectSeq([i \in 1..Len(rest) |-> IF i = first THEN PDMIndicator ELSE rest[i]],
                           LAMBDA w : w # PDMIndicator)
    IN  [origin |-> IF words # <<>> /\ words[1] \in Addresses THEN words[1] ELSE "",
         time |-> IF first = 0 THEN "" ELSE rest[first],
         extra |-> extra, pdm |-> PDMIndicator \in ToSet(rest)]

NoOrigin == [origin |-> "", time |-> "", extra |-> <<>>, pdm |-> FALSE]

\* The network's framing, and what is inside it.
Unframed(lines) ==
    LET some  == Filled(lines)
        zczc  == some # <<>> /\ some[1][1] = StartOfMessage
        inner == trimTrailingBlankLines(IF zczc THEN Tail(some) ELSE some)
        nnnn  == inner # <<>> /\ Last(inner) = <<EndOfMessage>>
    IN  [framed |-> zczc \/ nnnn,
         channel |-> IF zczc /\ Len(some[1]) > 1 THEN some[1][2] ELSE "",
         lines |-> IF nnnn THEN Front(inner) ELSE inner]

\* A priority with its addresses, the lines of addresses after it, and the rest.
AddressBlock(head) ==
    LET ends(l) == Blank(l) \/ Dotted(l) \/ ~allLookLikeAddresses(l)
    IN  IF head # <<>> /\ head[1][1] \in Priorities
        THEN [priority |-> head[1][1], after |-> From(Tail(head), ends),
              words |-> Tail(head[1]) \o FlattenSeq(Before(Tail(head), ends))]
        ELSE [priority |-> "", words |-> <<>>, after |-> head]

Speaks(l) == ~Blank(l) /\ l # <<PDMIndicator>>

\* The origin line, if the first line that speaks is one, and the text.
OriginAndText(after, rest) ==
    LET dotted == rest # <<>> /\ Dotted(rest[1])
    IN  [line |-> IF dotted THEN parseOriginLine(Tail(rest[1])) ELSE NoOrigin, dotted |-> dotted,
         pdm |-> <<PDMIndicator>> \in ToSet(Before(after, Speaks)),
         text |-> trimTrailingBlankLines(Filled(IF dotted THEN Tail(rest) ELSE IF rest # <<>> THEN rest ELSE after))]

Envelope(frame, a, to, o) ==
    [ok |-> frame.lines # <<>>, framed |-> frame.framed, channel |-> frame.channel,
     priority |-> a.priority, destinations |-> to,
     origin |-> o.line.origin, time |-> o.line.time, extra |-> o.line.extra,
     pdm |-> o.line.pdm \/ o.pdm, text |-> o.text,
     err |-> \/ o.text = <<>> \/ to # a.words \/ (a.priority # "" /\ to = <<>>)
             \/ (o.dotted /\ o.line.origin = "")]

\* Parse: the framing, the address block, the origin line and the text, each
\* beginning where the one before it ended.  Nothing to read is no message.
ParseBlock(frame, a) == Envelope(frame, a, appendAddresses(a.words), OriginAndText(a.after, From(a.after, Speaks)))
ParseLines(frame) == ParseBlock(frame, AddressBlock(Filled(frame.lines)))
Parse(raw) == ParseLines(Unframed(Split(Normalise(raw))))

-----------------------------------------------------------------------------
(* Writing. *)

\* Words are apart by a blank, but for the dot of an origin line.
Chars(line) ==
    FoldLeft(LAMBDA n, w : n + Width(w) + 1, 0, line)
    - (IF line = <<>> THEN 0 ELSE 1) - (IF Dotted(line) /\ Len(line) > 1 THEN 1 ELSE 0)

\* An address line is broken between addresses, and the priority never stands
\* alone: it takes its address with it even if that is too long.
WrapStep(prio, max, st, a) ==
    CASE Chars(Append(st.cur, a)) > max /\ st.cur \notin {<<prio>>, <<>>} ->
           [lines |-> Append(st.lines, st.cur), cur |-> <<a>>]
      [] Chars(Append(st.cur, a)) > max /\ st.cur = <<prio>> ->
           [lines |-> Append(st.lines, <<prio, a>>), cur |-> <<>>]
      [] OTHER -> [st EXCEPT !.cur = Append(@, a)]

Wrapped(prio, max, to) ==
    LET st == FoldLeft(LAMBDA s, a : WrapStep(prio, max, s, a), [lines |-> <<>>, cur |-> <<prio>>], to)
    IN  st.lines \o (IF st.cur \in {<<prio>>, <<>>} THEN <<>> ELSE <<st.cur>>)

OriginLine(m) ==
    <<".", m.origin>> \o SelectSeq(<<m.time>>, LAMBDA t : t # "")
    \o (IF m.pdm THEN <<PDMIndicator>> ELSE <<>>) \o m.extra

lastNonBlank(lines) == IF Filled(lines) = <<>> THEN <<>> ELSE Last(trimTrailingBlankLines(lines))

FirstInvalid(text) == \E l \in ToSet(text) : ToSet(l) \cap Unprintable # {}

\* Encode, under options [max, frame, channel, crlf, blank, charset].
Encode(m, o) ==
    LET prio  == IF m.priority = "" THEN "QU" ELSE m.priority
        lines == (IF o.frame THEN <<<<StartOfMessage>> \o SelectSeq(<<o.channel>>, LAMBDA c : c # "")>> ELSE <<>>)
                 \o Wrapped(prio, o.max, m.destinations) \o <<OriginLine(m)>>
                 \o (IF o.blank THEN <<<<>>>> ELSE <<>>) \o m.text
                 \o (IF o.frame THEN <<<<EndOfMessage>>>> ELSE <<>>)
        size  == FoldLeft(LAMBDA n, l : n + Chars(l) + (IF o.crlf THEN 2 ELSE 1), 0, lines)
    IN  [ok |-> /\ m.destinations # <<>> /\ m.origin # ""
                /\ o.charset => ~FirstInvalid(m.text)
                /\ Len(m.text) <= MaxLines
                /\ o.frame \/ lastNonBlank(m.text) # <<EndOfMessage>>
                /\ \A l \in ToSet(m.text) : Chars(l) <= o.max
                /\ size <= MaxBytes,
         raw |-> Join(lines, IF o.crlf THEN <<CR, LF>> ELSE <<LF>>)]

\* MarkPossibleDuplicate: the captured text with the mark at the end of its
\* first line that begins with a dot, unless the mark is on it already.
MarkPossibleDuplicate(raw) ==
    LET lines == Split(raw)
        at    == SelectInSeq(lines, LAMBDA l : Dotted(TrimSpace(l)))
        body  == SubSeq(lines[at], 1, SelectLastInSeq(lines[at], LAMBDA w : w # CR))
        left  == SubSeq(lines[at], Len(body) + 1, Len(lines[at]))
        out   == [lines EXCEPT ![at] = body \o <<PDMIndicator>> \o left]
    IN  IF at = 0 \/ PDMIndicator \in ToSet(lines[at]) THEN [raw |-> raw, marked |-> FALSE]
        ELSE [raw |-> Front(Join(out, <<LF>>)), marked |-> TRUE]

-----------------------------------------------------------------------------
(* What the sending side reads without a parse. *)

PriorityOf(raw) ==
    LET lines == SelectSeq([i \in 1..Len(Split(raw)) |-> TrimSpace(Split(raw)[i])],
                           LAMBDA l : l # <<>> /\ l[1] # StartOfMessage)
    IN  IF lines # <<>> /\ lines[1][1] \in Priorities THEN lines[1][1] ELSE ""

\* The bands: 0 is serviced first.  A code nobody knows is normal.
ClassOf(code) == CASE code = "QU" -> 0 [] code = "QD" -> 2 [] OTHER -> 1

-----------------------------------------------------------------------------
(* The numbering of a channel. *)

\* No token that is a number, and no number kept of the channel.  Zero is one.
NoNumber == -1

ParseChannel(token) == IF token \in DOMAIN Numbered THEN Numbered[token] ELSE NoNumber

Silent == [missing |-> 0, repeat |-> FALSE]


CheckSequence(last, got) ==
    LET expected == IF SequenceWrap > 0 /\ last + 1 > SequenceWrap THEN 1 ELSE last + 1
        ahead    == IF got < expected THEN got - expected + SequenceWrap ELSE got - expected
    IN  IF got = expected THEN Silent
        ELSE IF SequenceWrap > 0 /\ ahead < SequenceWrap \div 2 THEN [missing |-> ahead, repeat |-> FALSE]
        ELSE IF SequenceWrap > 0 \/ got < expected THEN [missing |-> 0, repeat |-> TRUE]
        ELSE [missing |-> got - expected, repeat |-> FALSE]

\* checkSequence: what a message says of those before it, and the number kept.
\* The first one since the start says nothing, nor does one without a number.
Follow(last, seq) ==
    IF seq = NoNumber THEN [last |-> last, said |-> Silent]
    ELSE [last |-> seq, said |-> IF last = NoNumber THEN Silent ELSE CheckSequence(last, seq)]
checkSequence(last, raw) == Follow(last, ParseChannel(Parse(raw).channel))

=============================================================================
