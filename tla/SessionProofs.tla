---------------------------- MODULE SessionProofs ----------------------------
(***************************************************************************)
(* For any number of connections, nodes, frames and faults, and for every  *)
(* kind of listener: answers go down the link that last took the peer's    *)
(* place, and no other open link is being served.                          *)
(***************************************************************************)
EXTENDS Session, TLAPS

(* Nothing is buffered that no client wrote. *)
Counted == \A s \in Slots : conn[s].buf <= frames

(* The entry names the newest session, and one whose goroutine still runs: *)
(* it clears the entry before it ends.                                     *)
EntryHeld == session # None => session = newest /\ Serving(session)

(* Whoever lost the entry has had its socket closed. *)
OthersShut == \A s \in Slots : Serving(s) /\ conn[s].open => s = session

IInv == TypeOK /\ Counted /\ EntryHeld /\ OthersShut

Conns == [open : BOOLEAN, hi : BOOLEAN, buf : 0..MaxFrames,
          srv : {"gone", "backlog", "hello", "known", "serving", "handling"},
          cli : {"down", "wait", "up"}]

(* What the helpers return is a connection that buffers no more than the   *)
(* one they were given, and serves only if that one did.                   *)
LEMMA HelperTypes ==
    ASSUME NEW c \in Conns, NEW left \in 0..c.buf
    PROVE  /\ Free \in Conns
           /\ Gone(c) \in Conns /\ Gone(c).buf = 0
           /\ Gone(c).srv = "gone" /\ ~Gone(c).open
           /\ Shut(c, left) \in Conns /\ Shut(c, left).buf = left
           /\ Shut(c, left).srv = c.srv /\ ~Shut(c, left).open
           /\ Over(c) \in Conns /\ Over(c).srv = c.srv /\ Over(c).buf <= c.buf
           /\ Over(c).srv # "gone" => Over(c) = c
  <1> USE SessionAssumption
  <1>1. Free \in Conns /\ Free.srv = "gone" /\ ~Free.open /\ Free.buf = 0
    BY DEF Free, Conns
  <1>2. Over(c) \in Conns /\ Over(c).srv = c.srv /\ Over(c).buf <= c.buf
    BY <1>1 DEF Over, Conns
  <1>3. Over(c).srv # "gone" => Over(c) = c
    BY <1>1 DEF Over
  <1>4. Gone(c) \in Conns /\ Gone(c).buf = 0 /\ Gone(c).srv = "gone" /\ ~Gone(c).open
    BY <1>1 DEF Gone, Over, Conns
  <1>5. Shut(c, left) \in Conns /\ Shut(c, left).buf = left
        /\ Shut(c, left).srv = c.srv /\ ~Shut(c, left).open
    <2>1. left \in 0..MaxFrames
      BY DEF Conns
    <2> QED
      BY <2>1 DEF Shut, Conns
  <1> QED
    BY <1>1, <1>2, <1>3, <1>4, <1>5

(* Two names for the same set, so that leaves need not open the record. *)
LEMMA TypeOfConn == TypeOK => conn \in [Slots -> Conns]
  BY DEF TypeOK, Conns

(* The initial states: nobody has dialled. *)
LEMMA InitInv == Init => IInv
  <1> SUFFICES ASSUME Init PROVE IInv
    OBVIOUS
  <1> USE SessionAssumption, SlotAssumption DEF Init, Free, None
  <1>1. TypeOK
    <2>1. Free \in Conns
      BY DEF Conns
    <2>2. conn \in [Slots -> Conns]
      BY <2>1
    <2>3. kind \in Kinds /\ token \in BOOLEAN /\ link \in [Nodes -> Slots \cup {None}]
      OBVIOUS
    <2>4. frames \in 0..MaxFrames /\ faults \in 0..MaxFaults
      OBVIOUS
    <2> QED
      BY <2>2, <2>3, <2>4, Zenon DEF TypeOK, Conns
  <1>2. Counted /\ EntryHeld /\ OthersShut
    BY DEF Counted, EntryHeld, OthersShut, Serving
  <1> QED
    BY <1>1, <1>2 DEF IInv

(* A step that replaces one connection by c and leaves the table alone; it *)
(* does not begin to serve, reopen a socket, or end the session that has   *)
(* the entry.                                                              *)
Ordinary(s, c) ==
    /\ conn' = [conn EXCEPT ![s] = c] /\ session' = session /\ newest' = newest
    /\ frames' \in Nat /\ frames <= frames' /\ c.buf <= frames'
    /\ c.srv \in {"serving", "handling"} => Serving(s) /\ (c.open => conn[s].open)
    /\ session = s => c.srv \in {"serving", "handling"}

Kept == conn' \in [Slots -> Conns] /\ Counted' /\ EntryHeld' /\ OthersShut'

(* Such a step keeps the invariant.                                        *)
LEMMA OneConn ==
    ASSUME IInv, NEW s \in Slots, NEW c \in Conns, Ordinary(s, c)
    PROVE  Kept
  <1> USE SessionAssumption, SlotAssumption DEF Ordinary
  <1>1. conn \in [Slots -> Conns]
    BY TypeOfConn DEF IInv
  <1>2. conn' \in [Slots -> Conns]
    BY <1>1
  <1>3. Counted'
    <2> SUFFICES ASSUME NEW r \in Slots PROVE conn'[r].buf <= frames'
      BY DEF Counted
    <2>1. conn[r].buf \in Nat /\ conn[r].buf <= frames /\ frames \in Nat
      BY <1>1 DEF IInv, Counted, TypeOK, Conns
    <2> QED
      BY <1>1, <2>1
  <1>4. EntryHeld'
    <2>1. session # None => session \in Slots
      BY DEF IInv, TypeOK
    <2> QED
      BY <1>1, <2>1 DEF IInv, EntryHeld, Serving
  <1>5. OthersShut'
    BY <1>1 DEF IInv, OthersShut, Serving
  <1> QED
    BY <1>2, <1>3, <1>4, <1>5 DEF Kept

(* What is left to show of a step that keeps the rest. *)
LEMMA TypeParts ==
    ASSUME IInv, Kept, kind' = kind, token' \in BOOLEAN,
           session' \in Slots \cup {None}, newest' \in Slots \cup {None},
           link' \in [Nodes -> Slots \cup {None}],
           frames' \in 0..MaxFrames, faults' \in 0..MaxFaults
    PROVE  IInv'
  BY Zenon DEF IInv, TypeOK, Conns, Kept

(* A session that ends and clears its own entry, and no other, keeps the   *)
(* invariant.                                                              *)
LEMMA OneEnds ==
    ASSUME IInv, NEW s \in Slots, conn' = [conn EXCEPT ![s] = Gone(conn[s])],
           session' = Unregistered(s), UNCHANGED <<newest, frames>>
    PROVE  Kept /\ session' \in Slots \cup {None}
  <1> USE SessionAssumption, SlotAssumption
  <1>1. conn \in [Slots -> Conns] /\ session \in Slots \cup {None} /\ frames \in Nat
    BY TypeOfConn DEF IInv, TypeOK
  <1>2. conn[s] \in Conns /\ 0 \in 0..conn[s].buf
    BY <1>1 DEF Conns
  <1>3. Gone(conn[s]) \in Conns /\ Gone(conn[s]).buf = 0 /\ Gone(conn[s]).srv = "gone"
    BY <1>2, HelperTypes
  <1>4. conn' \in [Slots -> Conns] /\ session' \in Slots \cup {None}
    BY <1>1, <1>3 DEF Unregistered
  <1>5. Counted'
    BY <1>1, <1>3 DEF IInv, Counted
  <1>6. EntryHeld'
    BY <1>1, <1>3 DEF IInv, EntryHeld, Serving, Unregistered
  <1>7. OthersShut'
    BY <1>1, <1>3 DEF IInv, OthersShut, Serving, Unregistered
  <1> QED
    BY <1>4, <1>5, <1>6, <1>7 DEF Kept

(* Every action keeps IInv. *)
LEMMA InvStep == IInv /\ [Next]_vars => IInv'
  <1> SUFFICES ASSUME IInv, [Next]_vars PROVE IInv'
    OBVIOUS
  <1> USE SessionAssumption, SlotAssumption
  <1>0. /\ kind \in Kinds /\ conn \in [Slots -> Conns]
        /\ session \in Slots \cup {None} /\ newest \in Slots \cup {None}
        /\ token \in BOOLEAN /\ link \in [Nodes -> Slots \cup {None}]
        /\ frames \in 0..MaxFrames /\ faults \in 0..MaxFaults
    BY TypeOfConn, Zenon DEF IInv, TypeOK
  <1>f. frames \in Nat /\ MaxFrames \in Nat /\ frames <= MaxFrames
    BY <1>0
  <1>b. \A s \in Slots : /\ conn[s] \in Conns /\ conn[s].buf \in Nat
                         /\ conn[s].buf <= frames /\ conn[s].buf <= MaxFrames
    BY <1>0 DEF Conns, IInv, Counted
  <1>l. \A s \in Slots : Down(s) \in [Nodes -> Slots \cup {None}]
    BY <1>0 DEF Down
  <1>h. \A s \in Slots, left \in Nat : left <= conn[s].buf =>
           /\ Shut(conn[s], left) \in Conns /\ Shut(conn[s], left).buf = left
           /\ Shut(conn[s], left).srv = conn[s].srv /\ ~Shut(conn[s], left).open
           /\ Gone(conn[s]) \in Conns /\ Gone(conn[s]).buf = 0
           /\ Gone(conn[s]).srv = "gone" /\ ~Gone(conn[s]).open
    <2> SUFFICES ASSUME NEW s \in Slots, NEW left \in Nat, left <= conn[s].buf
                 PROVE  /\ Shut(conn[s], left) \in Conns /\ Shut(conn[s], left).buf = left
                        /\ Shut(conn[s], left).srv = conn[s].srv /\ ~Shut(conn[s], left).open
                        /\ Gone(conn[s]) \in Conns /\ Gone(conn[s]).buf = 0
                        /\ Gone(conn[s]).srv = "gone" /\ ~Gone(conn[s]).open
      OBVIOUS
    <2>1. conn[s] \in Conns /\ left \in 0..conn[s].buf
      BY <1>b
    <2> QED
      BY <2>1, HelperTypes
  <1>i. \A s \in Slots : Serving(s) <=> conn[s].srv \in {"serving", "handling"}
    BY DEF Serving
  <1>e. \A s \in Slots : session = s => conn[s].srv \in {"serving", "handling"}
    BY DEF IInv, EntryHeld, Serving, None
  <1>ff. Fault => faults' \in 0..MaxFaults
    BY <1>0 DEF Fault
  <1>1. ASSUME NEW n \in Nodes, Dial(n) PROVE IInv'
    <2>1. PICK s \in Slots :
              /\ conn[s] = Free
              /\ conn' = [conn EXCEPT ![s] = [Free EXCEPT !.srv = "backlog", !.open = TRUE,
                            !.hi = TRUE, !.cli = IF kind = "matip" THEN "wait" ELSE "up"]]
              /\ link' = [link EXCEPT ![n] = s]
      BY <1>1 DEF Dial
    <2>2. UNCHANGED <<kind, session, newest, token, frames, faults>>
      BY <1>1 DEF Dial
    <2> DEFINE c == [Free EXCEPT !.srv = "backlog", !.open = TRUE,
                            !.hi = TRUE, !.cli = IF kind = "matip" THEN "wait" ELSE "up"]
    <2>3. c \in Conns /\ c.srv = "backlog" /\ c.buf = 0
      <3> DEFINE cl == IF kind = "matip" THEN "wait" ELSE "up"
      <3>1. cl \in {"down", "wait", "up"}
        OBVIOUS
      <3>2. c = [Free EXCEPT !.srv = "backlog", !.open = TRUE, !.hi = TRUE, !.cli = cl]
        OBVIOUS
      <3> HIDE DEF cl, c
      <3>3. c = [srv |-> "backlog", cli |-> cl, open |-> TRUE, hi |-> TRUE, buf |-> 0]
        BY <3>2 DEF Free
      <3> QED
        BY <3>1, <3>3 DEF Conns
    <2>4. session # s
      BY <1>e, <2>1 DEF Free
    <2> HIDE DEF c
    <2>5. Kept
      <3>1. Ordinary(s, c)
        BY <1>f, <2>1, <2>2, <2>3, <2>4 DEF Ordinary, c
      <3> QED
        BY <2>3, <3>1, OneConn
    <2>6. link' \in [Nodes -> Slots \cup {None}]
      BY <1>0, <2>1
    <2> QED
      BY <1>0, <2>2, <2>5, <2>6, TypeParts
  <1>2. ASSUME NEW s \in Slots, Confirmed(s) PROVE IInv'
    <2> DEFINE c == [conn[s] EXCEPT !.cli = "up"]
    <2>1. conn' = [conn EXCEPT ![s] = c] /\ UNCHANGED <<kind, session, newest, token, link, frames, faults>>
      BY <1>2 DEF Confirmed
    <2>2. c \in Conns /\ c.srv = conn[s].srv /\ c.buf = conn[s].buf /\ c.open = conn[s].open
      BY <1>b DEF Conns
    <2> HIDE DEF c
    <2>3. Kept
      <3>1. Ordinary(s, c)
        BY <1>f, <1>b, <1>i, <1>e, <2>1, <2>2 DEF Ordinary
      <3> QED
        BY <2>2, <3>1, OneConn
    <2> QED
      BY <1>0, <2>1, <2>3, TypeParts
  <1>3. ASSUME NEW s \in Slots, ClientEnds(s) PROVE IInv'
    <2> DEFINE d == [conn[s] EXCEPT !.cli = "down"]
               c == Over(d)
    <2>1. conn' = [conn EXCEPT ![s] = c] /\ UNCHANGED <<kind, session, newest, token, frames, faults>>
      BY <1>3 DEF ClientEnds
    <2>2. d \in Conns /\ d.srv = conn[s].srv /\ d.buf = conn[s].buf /\ d.open = conn[s].open
      BY <1>b DEF Conns
    <2> HIDE DEF d
    <2>3. c \in Conns /\ c.srv = d.srv /\ c.buf <= d.buf /\ (c.srv # "gone" => c = d) /\ c.buf \in Nat
      <3>1. 0 \in 0..d.buf
        BY <1>b, <2>2
      <3> QED
        BY <2>2, <3>1, HelperTypes DEF Conns
    <2> HIDE DEF c
    <2>4. c.buf <= frames
      BY <1>b, <1>f, <2>2, <2>3
    <2>5. Kept
      <3>1. Ordinary(s, c)
        BY <1>f, <1>i, <1>e, <2>1, <2>2, <2>3, <2>4 DEF Ordinary
      <3> QED
        BY <2>3, <3>1, OneConn
    <2>6. link' \in [Nodes -> Slots \cup {None}]
      BY <1>3, <1>l DEF ClientEnds
    <2> QED
      BY <1>0, <2>1, <2>5, <2>6, TypeParts
  <1>4. ASSUME NEW s \in Slots, Break(s) PROVE IInv'
    <2>1. PICK got \in BOOLEAN, left \in 0..conn[s].buf :
             conn' = [conn EXCEPT ![s] = Over([conn[s] EXCEPT !.cli = "down", !.buf = left,
                     !.hi = IF conn[s].srv \in {"backlog", "hello"} THEN got ELSE conn[s].hi])]
      BY <1>4, Zenon DEF Break
    <2> DEFINE d == [conn[s] EXCEPT !.cli = "down", !.buf = left,
                     !.hi = IF conn[s].srv \in {"backlog", "hello"} THEN got ELSE conn[s].hi]
               c == Over(d)
    <2>2. UNCHANGED <<kind, session, newest, token, frames>>
      BY <1>4 DEF Break
    <2>7. left \in 0..MaxFrames /\ left <= frames
      BY <1>b, <1>f
    <2>3. d \in Conns /\ d.srv = conn[s].srv /\ d.buf = left /\ d.open = conn[s].open
      BY <1>b, <2>7 DEF Conns
    <2>4. conn' = [conn EXCEPT ![s] = c]
      BY <2>1
    <2> HIDE DEF d
    <2>5. c \in Conns /\ c.srv = d.srv /\ c.buf <= d.buf /\ (c.srv # "gone" => c = d) /\ c.buf \in Nat
      <3>1. 0 \in 0..d.buf
        BY <2>3, <2>7
      <3> QED
        BY <2>3, <3>1, HelperTypes DEF Conns
    <2> HIDE DEF c
    <2>6. c.buf <= frames
      BY <1>f, <2>7, <2>3, <2>5
    <2>8. Kept
      <3>1. Ordinary(s, c)
        BY <1>f, <1>i, <1>e, <2>2, <2>3, <2>4, <2>5, <2>6 DEF Ordinary
      <3> QED
        BY <2>5, <3>1, OneConn
    <2>9. link' \in [Nodes -> Slots \cup {None}] /\ faults' \in 0..MaxFaults
      BY <1>4, <1>l, <1>ff DEF Break
    <2> QED
      BY <1>0, <2>2, <2>8, <2>9, TypeParts
  <1>5. ASSUME NEW s \in Slots, Write(s) PROVE IInv'
    <2> DEFINE c == [conn[s] EXCEPT !.buf = @ + 1]
    <2>1. conn' = [conn EXCEPT ![s] = c] /\ UNCHANGED <<kind, session, newest, token, link, faults>>
          /\ frames' = frames + 1 /\ frames < MaxFrames
      BY <1>5 DEF Write
    <2>2. c \in Conns /\ c.srv = conn[s].srv /\ c.buf = conn[s].buf + 1 /\ c.open = conn[s].open
      <3>1. conn[s].buf + 1 \in 0..MaxFrames
        BY <1>b, <1>f, <2>1
      <3> QED
        BY <1>b, <3>1 DEF Conns
    <2> HIDE DEF c
    <2>3. frames' \in Nat /\ frames <= frames' /\ c.buf <= frames' /\ frames' \in 0..MaxFrames
      BY <1>b, <1>f, <2>1, <2>2
    <2>4. Kept
      <3>1. Ordinary(s, c)
        BY <1>i, <1>e, <2>1, <2>2, <2>3 DEF Ordinary
      <3> QED
        BY <2>2, <3>1, OneConn
    <2> QED
      BY <1>0, <2>1, <2>3, <2>4, TypeParts
  <1>6. ASSUME NEW s \in Slots, Accept(s) PROVE IInv'
    <2> DEFINE c == IF kind # "matip" /\ Cardinality(Served) >= House
                    THEN Gone(conn[s]) ELSE [conn[s] EXCEPT !.srv = "hello"]
    <2>1. conn' = [conn EXCEPT ![s] = c] /\ UNCHANGED <<kind, session, newest, token, link, frames, faults>>
      BY <1>6 DEF Accept
    <2>2. c \in Conns /\ c.buf <= frames /\ c.srv \in {"gone", "hello"}
      <3>1. 0 \in Nat /\ 0 <= conn[s].buf
        BY <1>b
      <3>2. /\ [conn[s] EXCEPT !.srv = "hello"] \in Conns
            /\ [conn[s] EXCEPT !.srv = "hello"].buf = conn[s].buf
            /\ [conn[s] EXCEPT !.srv = "hello"].srv = "hello"
        BY <1>b DEF Conns
      <3> QED
        BY <1>b, <1>f, <1>h, <3>1, <3>2
    <2>3. session # s
      BY <1>6, <1>e DEF Accept
    <2> HIDE DEF c
    <2>4. Kept
      <3>1. Ordinary(s, c)
        BY <1>f, <2>1, <2>2, <2>3 DEF Ordinary
      <3> QED
        BY <2>2, <3>1, OneConn
    <2> QED
      BY <1>0, <2>1, <2>4, TypeParts
  <1>7. ASSUME NEW s \in Slots, Identify(s) PROVE IInv'
    <2> DEFINE c == IF Entitled(nodeOf[s]) THEN [conn[s] EXCEPT !.srv = "known"] ELSE Gone(conn[s])
    <2>1. conn' = [conn EXCEPT ![s] = c] /\ UNCHANGED <<kind, session, newest, token, link, frames, faults>>
      BY <1>7 DEF Identify
    <2>2. c \in Conns /\ c.buf <= frames /\ c.srv \in {"gone", "known"}
      <3>1. 0 \in Nat /\ 0 <= conn[s].buf
        BY <1>b
      <3>2. /\ [conn[s] EXCEPT !.srv = "known"] \in Conns
            /\ [conn[s] EXCEPT !.srv = "known"].buf = conn[s].buf
            /\ [conn[s] EXCEPT !.srv = "known"].srv = "known"
        BY <1>b DEF Conns
      <3> QED
        BY <1>b, <1>f, <1>h, <3>1, <3>2
    <2>3. session # s
      BY <1>7, <1>e DEF Identify
    <2> HIDE DEF c
    <2>4. Kept
      <3>1. Ordinary(s, c)
        BY <1>f, <2>1, <2>2, <2>3 DEF Ordinary
      <3> QED
        BY <2>2, <3>1, OneConn
    <2> QED
      BY <1>0, <2>1, <2>4, TypeParts
  <1>8. ASSUME NEW s \in Slots, Register(s) PROVE IInv'
    <2>1. PICK left \in IF session = None THEN {0} ELSE 0..conn[session].buf :
            conn' = [r \in Slots |-> CASE r = s -> [conn[r] EXCEPT !.srv = "serving"]
                                       [] r = session /\ r # s -> Shut(conn[r], left)
                                       [] OTHER -> conn[r]]
      BY <1>8 DEF Register
    <2>2. /\ session' = s /\ newest' = s /\ conn[s].srv = "known"
          /\ UNCHANGED <<kind, token, link, frames, faults>>
      BY <1>8 DEF Register
    <2>3. conn'[s] \in Conns /\ conn'[s].srv = "serving" /\ conn'[s].buf = conn[s].buf
      BY <1>b, <2>1 DEF Conns
    <2>4. \A r \in Slots \ {s} : r # session => conn'[r] = conn[r]
      BY <2>1
    <2>5. \A r \in Slots \ {s} : r = session =>
             conn'[r] \in Conns /\ ~conn'[r].open /\ conn'[r].buf \in Nat /\ conn'[r].buf <= conn[r].buf
      <3> SUFFICES ASSUME NEW r \in Slots \ {s}, r = session
                   PROVE  conn'[r] \in Conns /\ ~conn'[r].open /\ conn'[r].buf \in Nat
                          /\ conn'[r].buf <= conn[r].buf
        OBVIOUS
      <3>1. left \in Nat /\ left <= conn[r].buf
        BY <1>b DEF None
      <3>2. conn'[r] = Shut(conn[r], left)
        BY <2>1
      <3> QED
        BY <1>h, <3>1, <3>2
    <2>6. conn' \in [Slots -> Conns]
      <3>1. \A r \in Slots : conn'[r] \in Conns
        BY <1>b, <2>3, <2>4, <2>5
      <3> QED
        BY <2>1, <3>1
    <2>7. Counted'
      BY <1>b, <1>f, <2>2, <2>3, <2>4, <2>5 DEF Counted
    <2>8. EntryHeld'
      BY <2>2, <2>3 DEF EntryHeld, Serving
    <2>9. OthersShut'
      BY <2>2, <2>3, <2>4, <2>5 DEF IInv, OthersShut, Serving
    <2> QED
      BY <1>0, <2>2, <2>6, <2>7, <2>8, <2>9, TypeParts DEF Kept
  <1>9. ASSUME NEW s \in Slots, Read(s) PROVE IInv'
    <2> DEFINE c == [conn[s] EXCEPT !.srv = "handling", !.buf = @ - 1]
    <2>1. conn' = [conn EXCEPT ![s] = c] /\ UNCHANGED <<kind, session, newest, token, link, frames, faults>>
      BY <1>9 DEF Read
    <2>2. c \in Conns /\ c.buf <= conn[s].buf /\ c.buf \in Nat
          /\ c.srv \in {"serving", "handling"} /\ Serving(s) /\ (c.open => conn[s].open)
      <3>1. conn[s] \in Conns /\ Serving(s) /\ conn[s].buf > 0
        BY <1>9, <1>b, <1>i DEF Read
      <3>2. conn[s].buf - 1 \in 0..MaxFrames /\ conn[s].buf - 1 <= conn[s].buf
        BY <1>b, <3>1
      <3>3. c \in Conns
        BY <3>1, <3>2 DEF Conns
      <3>4. c.buf = conn[s].buf - 1 /\ c.srv = "handling" /\ c.open = conn[s].open
        BY <3>1 DEF Conns
      <3> QED
        BY <1>b, <3>1, <3>2, <3>3, <3>4
    <2> HIDE DEF c
    <2>3. Kept
      <3>1. Ordinary(s, c)
        BY <1>f, <1>b, <2>1, <2>2 DEF Ordinary
      <3> QED
        BY <2>2, <3>1, OneConn
    <2> QED
      BY <1>0, <2>1, <2>3, TypeParts
  <1>10. ASSUME NEW s \in Slots, Handled(s) PROVE IInv'
    <2> DEFINE c == [conn[s] EXCEPT !.srv = "serving"]
    <2>1. conn' = [conn EXCEPT ![s] = c] /\ UNCHANGED <<kind, session, newest, token, link, frames, faults>>
      BY <1>10 DEF Handled
    <2>2. c \in Conns /\ c.buf <= conn[s].buf /\ c.buf \in Nat
          /\ c.srv \in {"serving", "handling"} /\ Serving(s) /\ (c.open => conn[s].open)
      <3>1. conn[s] \in Conns /\ Serving(s)
        BY <1>10, <1>b, <1>i DEF Handled
      <3>2. c \in Conns
        BY <3>1 DEF Conns
      <3>3. c.buf = conn[s].buf /\ c.buf \in Nat /\ c.srv \in {"serving", "handling"}
            /\ (c.open => conn[s].open)
        BY <1>10, <1>b, <3>1 DEF Handled, Conns
      <3> QED
        BY <1>b, <3>1, <3>2, <3>3
    <2> HIDE DEF c
    <2>3. Kept
      <3>1. Ordinary(s, c)
        BY <1>f, <1>b, <2>1, <2>2 DEF Ordinary
      <3> QED
        BY <2>2, <3>1, OneConn
    <2> QED
      BY <1>0, <2>1, <2>3, TypeParts
  <1>11. ASSUME NEW s \in Slots, HandlerFails(s) PROVE IInv'
    <2>1. UNCHANGED <<kind, newest, token, link, frames>> /\ faults' \in 0..MaxFaults
          /\ conn[s].srv = "handling"
      BY <1>11, <1>ff DEF HandlerFails
    <2>2. CASE kind = "server"
      <3> DEFINE c == [conn[s] EXCEPT !.srv = "serving"]
      <3>1. conn' = [conn EXCEPT ![s] = c] /\ session' = session
        BY <1>11, <2>2 DEF HandlerFails
      <3>2. c \in Conns /\ c.buf = conn[s].buf /\ c.srv = "serving" /\ c.open = conn[s].open
        BY <1>b DEF Conns
      <3> HIDE DEF c
      <3>3. Kept
        <4>1. Ordinary(s, c)
          BY <1>f, <1>b, <1>i, <2>1, <3>1, <3>2 DEF Ordinary
        <4> QED
          BY <3>2, <4>1, OneConn
      <3> QED
        BY <1>0, <2>1, <3>1, <3>3, TypeParts
    <2>3. CASE kind # "server"
      <3>1. conn' = [conn EXCEPT ![s] = Gone(conn[s])] /\ session' = Unregistered(s)
        BY <1>11, <2>3 DEF HandlerFails
      <3>2. Kept /\ session' \in Slots \cup {None}
        BY <2>1, <3>1, OneEnds
      <3> QED
        BY <1>0, <2>1, <3>2, TypeParts
    <2> QED
      BY <2>2, <2>3
  <1>12. ASSUME NEW s \in Slots, End(s) PROVE IInv'
    <2>1. conn' = [conn EXCEPT ![s] = Gone(conn[s])] /\ session' = Unregistered(s)
          /\ UNCHANGED <<kind, newest, token, link, frames, faults>>
      BY <1>12 DEF End
    <2>2. Kept /\ session' \in Slots \cup {None}
      BY <2>1, OneEnds
    <2> QED
      BY <1>0, <2>1, <2>2, TypeParts
  <1>13. ASSUME NEW s \in Slots, Reap(s) PROVE IInv'
    <2> DEFINE c == IF conn[s].srv = "hello" THEN Gone(conn[s]) ELSE [conn[s] EXCEPT !.open = FALSE]
    <2>1. conn' = [conn EXCEPT ![s] = c] /\ UNCHANGED <<kind, session, newest, token, link, frames, faults>>
      BY <1>13 DEF Reap
    <2>2. c \in Conns /\ c.buf <= frames /\ ~c.open
          /\ (conn[s].srv # "hello" => c.srv = conn[s].srv) /\ (conn[s].srv = "hello" => c.srv = "gone")
      <3>1. 0 \in Nat /\ 0 <= conn[s].buf
        BY <1>b
      <3>2. LET d == [conn[s] EXCEPT !.open = FALSE]
            IN  d \in Conns /\ d.buf = conn[s].buf /\ d.srv = conn[s].srv /\ ~d.open
        BY <1>b DEF Conns
      <3> QED
        BY <1>b, <1>f, <1>h, <3>1, <3>2
    <2> HIDE DEF c
    <2>3. Kept
      <3>1. Ordinary(s, c)
        BY <1>f, <1>i, <1>e, <2>1, <2>2 DEF Ordinary
      <3> QED
        BY <2>2, <3>1, OneConn
    <2> QED
      BY <1>0, <2>1, <2>3, TypeParts
  <1>14. ASSUME NEW s \in Slots, Idle(s) PROVE IInv'
    <2> DEFINE c == [conn[s] EXCEPT !.open = FALSE]
    <2>1. conn' = [conn EXCEPT ![s] = c] /\ UNCHANGED <<kind, session, newest, token, link, frames>>
      BY <1>14 DEF Idle
    <2>2. c \in Conns /\ c.buf <= conn[s].buf /\ c.buf \in Nat
          /\ c.srv \in {"serving", "handling"} /\ Serving(s) /\ (c.open => conn[s].open)
      <3>1. conn[s] \in Conns /\ Serving(s)
        BY <1>14, <1>b, <1>i DEF Idle
      <3>2. c \in Conns
        BY <3>1 DEF Conns
      <3>3. c.buf = conn[s].buf /\ c.buf \in Nat /\ c.srv \in {"serving", "handling"}
            /\ (c.open => conn[s].open)
        BY <1>14, <1>b, <3>1 DEF Idle, Conns
      <3> QED
        BY <1>b, <3>1, <3>2, <3>3
    <2> HIDE DEF c
    <2>3. Kept
      <3>1. Ordinary(s, c)
        BY <1>f, <1>b, <2>1, <2>2 DEF Ordinary
      <3> QED
        BY <2>2, <3>1, OneConn
    <2>4. faults' \in 0..MaxFaults
      BY <1>14, <1>ff DEF Idle
    <2> QED
      BY <1>0, <2>1, <2>3, <2>4, TypeParts
  <1>15. CASE SetToken
    <2>1. UNCHANGED <<kind, conn, session, newest, link, frames>> /\ token' = TRUE
          /\ faults' \in 0..MaxFaults
      BY <1>15, <1>ff DEF SetToken
    <2>2. Kept
      BY <1>0, <2>1 DEF IInv, Kept, Counted, EntryHeld, OthersShut, Serving
    <2> QED
      BY <1>0, <2>1, <2>2, TypeParts
  <1>16. CASE CloseSession
    <2>1. /\ session \in Slots /\ UNCHANGED <<kind, session, newest, token, link, frames>>
          /\ faults' \in 0..MaxFaults
      BY <1>0, <1>16, <1>ff DEF CloseSession
    <2>2. PICK left \in 0..conn[session].buf :
             conn' = [conn EXCEPT ![session] = Shut(conn[session], left)]
      BY <1>16 DEF CloseSession
    <2> DEFINE c == Shut(conn[session], left)
    <2>3. left \in Nat /\ left <= conn[session].buf
      BY <1>b, <2>1
    <2>4. c \in Conns /\ c.buf = left /\ c.srv = conn[session].srv /\ ~c.open
      BY <1>h, <2>1, <2>3
    <2>5. conn' = [conn EXCEPT ![session] = c]
      BY <2>2
    <2> HIDE DEF c
    <2>6. c.buf <= frames
      BY <1>b, <1>f, <2>1, <2>3, <2>4
    <2>7. Kept
      <3>1. Ordinary(session, c)
        BY <1>f, <1>i, <1>e, <2>1, <2>4, <2>5, <2>6 DEF Ordinary
      <3> QED
        BY <2>1, <2>4, <3>1, OneConn
    <2> QED
      BY <1>0, <2>1, <2>7, TypeParts
  <1>17. CASE UNCHANGED vars
    BY <1>17 DEF vars, IInv, TypeOK, Counted, EntryHeld, OthersShut, Serving
  <1> QED
    BY <1>1, <1>2, <1>3, <1>4, <1>5, <1>6, <1>7, <1>8, <1>9, <1>10, <1>11, <1>12, <1>13,
       <1>14, <1>15, <1>16, <1>17 DEF Next, Serve, Client

(* The variables keep their types: no client is known to have written more *)
(* than it did, whatever was cut, replaced or timed out.                   *)
THEOREM TypeCorrect == Spec => []TypeOK
  <1>1. IInv => TypeOK
    BY DEF IInv
  <1> QED
    BY InitInv, InvStep, <1>1, PTL DEF Spec

(* However old sessions of a peer end around it, the link that last took   *)
(* the peer's place is the one the session table names while it is open,   *)
(* and it is the only open one being served (ingress/tcp.go register and   *)
(* unregister, ingress/matip.go, transport/link.go Server).                *)
THEOREM AnswersGoToTheNewest == Spec => []NewestRegistered
  <1>1. IInv => NewestRegistered
    BY SlotAssumption DEF IInv, TypeOK, OthersShut, EntryHeld, NewestRegistered, None
  <1> QED
    BY InitInv, InvStep, <1>1, PTL DEF Spec

=============================================================================
