------------------------------ MODULE Edifact -------------------------------
(***************************************************************************)
(* pkg/edifact: reading and writing an interchange, its envelope, and the  *)
(* CONTRL that reports on it.                                              *)
(*                                                                         *)
(* A text is a sequence of symbols: a service character, a line break, or  *)
(* a piece of data that no service character cuts (a tag, a repertoire's   *)
(* name, a digit, other data).  Of the diagnostics the model keeps whether *)
(* one is an error; offsets, wording and repertoires are left out.  In the *)
(* envelope a segment is its tag, its count and its reference.             *)
(***************************************************************************)
EXTENDS Integers, Sequences, SequencesExt

CONSTANT MaxSegments   \* where Scan stops reading

LF == "lf"
Punctuation == {":", "+", "*", "?", "'", ";"}
Tags == {"UNB", "UNH", "UNT", "UNZ", "TVL"}
Versions == [d \in {"0", "3", "4", "9"} |->
                CASE d = "0" -> 0 [] d = "3" -> 3 [] d = "4" -> 4 [] OTHER -> 9]
MaxSyntaxVersion == 4

-----------------------------------------------------------------------------
(* Service characters. *)

DefaultSyntax(v) ==
    [comp |-> ":", elem |-> "+", mark |-> ".", rel |-> "?", rep |-> "*", term |-> "'",
     version |-> v, repeats |-> v >= 4]

isService(syn, b) ==
    \/ b \in {syn.comp, syn.elem, syn.term, syn.rel}
    \/ syn.repeats /\ b = syn.rep

\* Service characters are punctuation, and no two of them are the same; the
\* decimal mark is a point or a comma.
Valid(syn) ==
    LET used == <<syn.comp, syn.elem, syn.rel, syn.term>>
                \o (IF syn.repeats THEN <<syn.rep>> ELSE <<>>)
    IN  syn.mark \in {".", ","} /\ ToSet(used) \subseteq Punctuation /\ IsInjective(used)

UNAString(syn) ==
    <<"UNA", syn.comp, syn.elem, syn.mark, syn.rel, IF syn.repeats THEN syn.rep ELSE " ", syn.term>>

\* The syntax follows from the version alone, so no UNA is needed.
IsDefault(syn) ==
    /\ \A c \in {"comp", "elem", "mark", "rel", "term"} : syn[c] = DefaultSyntax(3)[c]
    /\ syn.repeats => syn.rep = DefaultSyntax(3).rep
    /\ syn.repeats = (syn.version >= 4)

-----------------------------------------------------------------------------
(* Reading. *)

validTag(t) == Len(t) = 1 /\ t[1] \in Tags

Start == [segs |-> <<>>, elems |-> <<>>, reps |-> <<>>, comps |-> <<>>, buf |-> <<>>,
          released |-> FALSE, started |-> FALSE, err |-> FALSE, truncated |-> FALSE]

flushComponent(st) == [st EXCEPT !.comps = Append(@, st.buf), !.buf = <<>>]

flushRepetition(st) ==
    LET s == flushComponent(st) IN [s EXCEPT !.reps = Append(@, s.comps), !.comps = <<>>]

flushElement(st) ==
    LET s == flushRepetition(st) IN [s EXCEPT !.elems = Append(@, s.reps), !.reps = <<>>]

\* The first element is the tag; a segment without a usable one is dropped.
Terminated(st) ==
    LET s   == flushElement(st)
        tag == s.elems[1][1][1]
    IN  [s EXCEPT !.segs = IF validTag(tag)
                           THEN Append(@, [tag |-> tag[1], elems |-> Tail(s.elems)]) ELSE @,
                  !.err = @ \/ ~validTag(tag), !.elems = <<>>, !.started = FALSE]

\* A terminator ends a segment, and the reading when there are enough of them.
AtLimit(st) == IF Len(st.segs) >= MaxSegments THEN [st EXCEPT !.truncated = TRUE, !.err = TRUE] ELSE st

\* One symbol.  A line break is framing, even after a release character.
ScanStep(syn, st, b) ==
    CASE st.truncated -> st
      [] ~st.truncated /\ b = LF -> [st EXCEPT !.released = FALSE]
      [] ~st.truncated /\ b # LF /\ st.released -> [st EXCEPT !.buf = Append(@, b), !.released = FALSE, !.started = TRUE]
      [] ~st.truncated /\ b # LF /\ ~st.released /\ b = syn.term -> AtLimit(Terminated(st))
      [] OTHER ->
           [CASE b = syn.rel -> [st EXCEPT !.released = TRUE]
              [] b = syn.comp -> flushComponent(st)
              [] b = syn.elem -> flushElement(st)
              [] syn.repeats /\ b = syn.rep -> flushRepetition(st)
              [] OTHER -> [st EXCEPT !.buf = Append(@, b)]
            EXCEPT !.started = TRUE]

\* What is left after the last terminator is kept, if it has a tag.
ScanEnd(st) ==
    LET s == Terminated(st)
    IN  IF st.started THEN [s EXCEPT !.err = TRUE] ELSE [st EXCEPT !.err = @ \/ st.released]

Scanned(syn, last, end) ==
    [ok |-> Valid(syn) /\ end.segs # <<>> /\ (last.started => last.segs # <<>>),
     segs |-> end.segs, err |-> end.err]

\* The symbols under a syntax: segments, whether an error was met, and whether
\* there was anything terminated at all.
ScanBody(raw, syn) ==
    LET st[i \in 0..Len(raw)] == IF i = 0 THEN Start ELSE ScanStep(syn, st[i - 1], raw[i])
    IN  Scanned(syn, st[Len(raw)], ScanEnd(st[Len(raw)]))

Leading(raw) ==
    LET ws == {i \in 1..Len(raw) : \A j \in 1..i : raw[j] = LF}
    IN  SubSeq(raw, Cardinality(ws) + 1, Len(raw))

HasUNA(raw) == Leading(raw) # <<>> /\ Leading(raw)[1] = "UNA"

\* The service characters a UNA gives, at version 3 until a UNB says otherwise.
Advised(raw) ==
    LET u == Leading(raw)
    IN  [comp |-> u[2], elem |-> u[3], mark |-> u[4], rel |-> u[5], term |-> u[7], version |-> 3,
         rep |-> IF u[6] = " " THEN "*" ELSE u[6], repeats |-> u[6] # " "]

Complete(raw) == HasUNA(raw) /\ Len(Leading(raw)) >= 7

\* What Scan is given and finds out by itself.
ScanSyntax(raw) == IF Complete(raw) THEN Advised(raw) ELSE DefaultSyntax(3)
ScanText(raw) == IF Complete(raw) THEN SubSeq(Leading(raw), 8, Len(Leading(raw))) ELSE Leading(raw)

Component(segment, e, c) ==
    IF e <= Len(segment.elems) /\ c <= Len(segment.elems[e][1]) THEN segment.elems[e][1][c] ELSE <<>>

\* Fault to inject: a version is enough to read the text again by its rules.
credibleAnyway(unb) == TRUE

\* S001 neither repeats nor has a third component.
credible(unb) == Len(unb.elems[1]) = 1 /\ Len(unb.elems[1][1]) <= 2

\* The version the first UNB declares, and whether to read again because of it.
declaredSyntaxVersion(segs) ==
    LET unbs == SelectSeq(segs, LAMBDA s : s.tag = "UNB")
        ver  == Component(unbs[1], 1, 2)
    IN  IF \/ unbs = <<>> \/ Component(unbs[1], 1, 1) # <<"UNOA">>
           \/ Len(ver) # 1 \/ ver[1] \notin DOMAIN Versions
        THEN [version |-> 0, credible |-> FALSE]
        ELSE [version |-> Versions[ver[1]], credible |-> credible(unbs[1])]

\* The second reading stands if it still reads the version that asked for it.
Settled(first, again, credibly) ==
    IF /\ first.ok /\ ~first.una /\ ~first.syn.repeats /\ first.syn.version >= 4 /\ credibly /\ again.ok
       /\ declaredSyntaxVersion(again.segs) = [version |-> first.syn.version, credible |-> TRUE]
    THEN [ok |-> TRUE, una |-> FALSE, syn |-> DefaultSyntax(first.syn.version), segs |-> again.segs, err |-> again.err]
    ELSE first

\* The version declared, and the text again by the rules of that version.
Inferred(raw, syn, read, declared) ==
    LET version == IF declared.version \in 1..MaxSyntaxVersion THEN declared.version ELSE syn.version
    IN  Settled([ok |-> read.ok, una |-> HasUNA(raw), syn |-> [syn EXCEPT !.version = version],
                 segs |-> read.segs, err |-> read.err],
                ScanBody(raw, DefaultSyntax(version)), declared.credible)

\* Parse up to the segments: read, look at the version, and perhaps read again.
ParseRead(raw, syn, read) == Inferred(raw, syn, read, declaredSyntaxVersion(read.segs))
ParseText(raw) == ParseRead(raw, ScanSyntax(raw), ScanBody(ScanText(raw), ScanSyntax(raw)))

-----------------------------------------------------------------------------
(* Writing. *)

\* A sequence without its empty tail, but never shorter than least.
TrimmedTo(least, s) ==
    LET n == CHOOSE i \in 0..Len(s) : /\ i >= least \/ i = Len(s)
                                      /\ \A j \in (i + 1)..Len(s) : s[j] = <<>>
                                      /\ i > least => s[i] # <<>>
    IN  SubSeq(s, 1, n)

Joined(parts, sep) ==
    LET j[i \in 0..Len(parts)] ==
          IF i = 0 THEN <<>> ELSE IF i = 1 THEN parts[1] ELSE j[i - 1] \o <<sep>> \o parts[i]
    IN  j[Len(parts)]

escape(s, syn) ==
    FlattenSeq([i \in 1..Len(s) |-> IF isService(syn, s[i]) THEN <<syn.rel, s[i]>> ELSE <<s[i]>>])

Rendered(e, syn) ==
    LET comps(c) == TrimmedTo(0, [i \in 1..Len(c) |-> escape(c[i], syn)])
        reps     == TrimmedTo(1, [i \in 1..Len(e) |-> Joined(comps(e[i]), syn.comp)])
    IN  Joined(reps, IF syn.repeats THEN syn.rep ELSE syn.comp)

EncodeTo(s, syn) ==
    LET rendered == TrimmedTo(0, [i \in 1..Len(s.elems) |-> Rendered(s.elems[i], syn)])
    IN  Joined(<<<<s.tag>>>> \o rendered, syn.elem) \o <<syn.term>>

\* nl is the line break after each segment, or nothing.
Encode(ic, nl) ==
    (IF ~IsDefault(ic.syn) \/ ic.una THEN UNAString(ic.syn) \o nl ELSE <<>>)
    \o FlattenSeq([i \in 1..Len(ic.segs) |-> EncodeTo(ic.segs[i], ic.syn) \o nl])

-----------------------------------------------------------------------------
(* The envelope. *)

None == [tag |-> ""]

\* closeMessage: the open message joins the interchange, and the open group.
closeMessage(ic, trailer) ==
    IF ic.cur = None THEN ic
    ELSE LET m == [ic.cur EXCEPT !.trailer = trailer]
         IN  [ic EXCEPT !.cur = None, !.messages = Append(@, m),
                        !.group = IF @ = None THEN @ ELSE [@ EXCEPT !.messages = Append(@, m)]]

closeGroup(ic, trailer) ==
    IF ic.group = None THEN ic
    ELSE [ic EXCEPT !.groups = Append(@, [ic.group EXCEPT !.trailer = trailer]), !.group = None]

Flagged(ic, bad) == [ic EXCEPT !.err = @ \/ bad]

AssembleStep(ic, s) ==
    CASE s.tag = "UNB" -> [Flagged(ic, ic.header # None) EXCEPT !.header = s]
      [] s.tag = "UNZ" -> [closeGroup(closeMessage(Flagged(ic, ic.cur # None \/ ic.group # None), None), None)
                             EXCEPT !.trailer = s]
      [] s.tag = "UNG" -> [closeGroup(Flagged(ic, ic.group # None), None)
                             EXCEPT !.group = [tag |-> "UNG", header |-> s, messages |-> <<>>, trailer |-> None]]
      [] s.tag = "UNE" -> closeGroup(closeMessage(Flagged(ic, ic.cur # None \/ ic.group = None), None), s)
      [] s.tag = "UNH" -> [closeMessage(Flagged(ic, ic.cur # None), None)
                             EXCEPT !.cur = [tag |-> "UNH", header |-> s, body |-> <<>>, trailer |-> None]]
      [] s.tag = "UNT" -> closeMessage(Flagged(ic, ic.cur = None), s)
      [] OTHER -> IF ic.cur = None THEN Flagged(ic, TRUE)
                  ELSE [ic EXCEPT !.cur.body = Append(@, s)]

assemble(segs) ==
    LET empty == [header |-> None, trailer |-> None, messages |-> <<>>, groups |-> <<>>,
                  cur |-> None, group |-> None, err |-> FALSE]
        ic[i \in 0..Len(segs)] == IF i = 0 THEN empty ELSE AssembleStep(ic[i - 1], segs[i])
        last == ic[Len(segs)]
    IN  closeGroup(closeMessage(Flagged(last, last.cur # None \/ last.group # None), None), None)

Counted(ic) == IF ic.groups # <<>> THEN Len(ic.groups) ELSE Len(ic.messages)

messageAgrees(m) ==
    m.trailer = None \/ (m.trailer.ref = m.header.ref /\ m.trailer.n = Len(m.body) + 2)

groupAgrees(g) ==
    g.trailer = None \/ (g.trailer.ref = g.header.ref /\ g.trailer.n = Len(g.messages))

validateEnvelope(ic) ==
    /\ ic.header # None /\ ic.trailer # None
    /\ ic.trailer.ref = ic.header.ref /\ ic.trailer.n = Counted(ic)
    /\ \A g \in ToSet(ic.groups) : groupAgrees(g)
    /\ \A m \in ToSet(ic.messages) : messageAgrees(m)

\* Finalize: trailers from what they close; flatten.
FinalMessage(m) ==
    <<[tag |-> "UNH", ref |-> m.ref]>> \o m.body \o <<[tag |-> "UNT", ref |-> m.ref, n |-> Len(m.body) + 2]>>

FinalMessages(ms) == FlattenSeq([i \in 1..Len(ms) |-> FinalMessage(ms[i])])

\* An interchange has groups of messages, or messages only.
Finalize(ref, groups, messages) ==
    LET group(g) == <<[tag |-> "UNG", ref |-> g.ref]>> \o FinalMessages(g.messages)
                    \o <<[tag |-> "UNE", ref |-> g.ref, n |-> Len(g.messages)]>>
    IN  <<[tag |-> "UNB", ref |-> ref]>>
        \o (IF groups # <<>> THEN FlattenSeq([i \in 1..Len(groups) |-> group(groups[i])])
            ELSE FinalMessages(messages))
        \o <<[tag |-> "UNZ", ref |-> ref, n |-> IF groups # <<>> THEN Len(groups) ELSE Len(messages)]>>

-----------------------------------------------------------------------------
(* CONTRL. *)

\* Check: acknowledged with every message named, or rejected as a whole.
Check(ic) ==
    LET ok == validateEnvelope(ic) /\ ~ic.err
    IN  [ref |-> IF ic.header = None THEN 0 ELSE ic.header.ref, action |-> IF ok THEN "acknowledged" ELSE "rejected",
         messages |-> IF ok THEN [i \in 1..Len(ic.messages) |-> ic.messages[i].header.ref] ELSE <<>>]

\* Build: UCI, then a UCM for every message reported, in a message of its own;
\* nothing when there is no control reference to report on.
Build(r, own) ==
    IF r.ref = 0 THEN <<>> ELSE Finalize(own, <<>>, <<[ref |-> 1,
        body |-> <<[tag |-> "UCI", ref |-> r.ref, action |-> r.action]>>
                 \o [i \in 1..Len(r.messages) |-> [tag |-> "UCM", ref |-> r.messages[i], action |-> r.action]]]>>)

ParseCONTRL(m) ==
    LET uci == SelectSeq(m.body, LAMBDA s : s.tag = "UCI")[1]
        ucm == SelectSeq(m.body, LAMBDA s : s.tag = "UCM")
    IN  [ref |-> uci.ref, action |-> uci.action,
         messages |-> [i \in 1..Len(ucm) |-> ucm[i].ref]]

=============================================================================
