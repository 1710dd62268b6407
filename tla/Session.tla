------------------------------ MODULE Session -------------------------------
(***************************************************************************)
(* Who a link belongs to: the listeners (ingress.TCP with its hello and    *)
(* tokens, ingress.MATIP with its session open, transport.Server) and the  *)
(* clients that redial them (transport.Client, matip.Client).  One peer is *)
(* looked at, which two nodes may claim while it is handed from one to the *)
(* other.  Each connection has a goroutine of its own: it identifies the   *)
(* caller, takes the peer's place in the session table and closes whoever  *)
(* had it, reads and handles frames, and leaves the table at the end.      *)
(*                                                                         *)
(* A listener is of one kind for a whole behaviour.  What was buffered is  *)
(* read after the socket is closed; what had not arrived is lost.          *)
(***************************************************************************)
EXTENDS Integers, FiniteSets

CONSTANTS Slots,      \* connections there can be at once
          Nodes,      \* the nodes that dial as the peer
          nodeOf,     \* [Slots -> Nodes]: whose connection a slot is for
          Kinds,      \* a subset of {"tcp", "matip", "server"}
          Holder,     \* the node the peer is handed to: it has the token, and the coding
          RequireToken,
          House,      \* maxConns
          MaxFrames,
          MaxFaults   \* breaks, idle cuts, refused messages, administrator's calls

ASSUME SessionAssumption ==
    /\ Holder \in Nodes /\ nodeOf \in [Slots -> Nodes]
    /\ Kinds \subseteq {"tcp", "matip", "server"}
    /\ House \in Nat \ {0} /\ MaxFrames \in Nat /\ MaxFaults \in Nat

None == 0
ASSUME SlotAssumption == Slots \subseteq Nat \ {None}

VARIABLES kind,
          conn,     \* slot -> the connection in it
          session,  \* the peer's entry in the session table: a slot, or None
          newest,   \* history: the connection that last took the entry
          token,    \* whether the peer has a token here
          link,     \* node -> the connection its client is on, or None
          frames, faults

vars == <<kind, conn, session, newest, token, link, frames, faults>>

Free == [srv |-> "gone", cli |-> "down", open |-> FALSE, hi |-> FALSE,
         buf |-> 0]

Init ==
    /\ kind \in Kinds
    /\ conn = [s \in Slots |-> Free]
    /\ session = None /\ newest = None /\ token = FALSE
    /\ link = [n \in Nodes |-> None]
    /\ frames = 0 /\ faults = 0

Fault == faults < MaxFaults /\ faults' = faults + 1

\* The socket closes on our side: buffered frames stay, others are lost.
Shut(c, left) == [c EXCEPT !.open = FALSE, !.buf = left]

-----------------------------------------------------------------------------
(* The clients. *)

\* session: dial, and send the hello or the session open.
Dial(n) ==
    /\ link[n] = None
    /\ kind = "server" => n = Holder
    /\ \E s \in Slots :
         /\ conn[s] = Free /\ nodeOf[s] = n
         /\ \A r \in Slots : conn[r] = Free /\ nodeOf[r] = n => s <= r
         /\ conn' = [conn EXCEPT ![s] = [Free EXCEPT !.srv = "backlog", !.open = TRUE,
                          !.hi = TRUE, !.cli = IF kind = "matip" THEN "wait" ELSE "up"]]
         /\ link' = [link EXCEPT ![n] = s]
    /\ UNCHANGED <<kind, session, newest, token, frames, faults>>

\* Dial: the open confirm has come.
Confirmed(s) ==
    /\ conn[s].cli = "wait" /\ conn[s].open /\ conn[s].srv \notin {"backlog", "hello"}
    /\ conn' = [conn EXCEPT ![s].cli = "up"]
    /\ UNCHANGED <<kind, session, newest, token, link, frames, faults>>

\* Once both ends are done with a connection its slot is free.
Over(c) == IF c.srv = "gone" /\ c.cli = "down" THEN Free ELSE c

Down(s) == [link EXCEPT ![nodeOf[s]] = IF @ = s THEN None ELSE @]

\* serve ends on our closing the socket, or on a close packet; Run dials again.
ClientEnds(s) ==
    /\ conn[s].cli # "down" /\ ~conn[s].open
    /\ conn' = [conn EXCEPT ![s] = Over([@ EXCEPT !.cli = "down"])]
    /\ link' = Down(s)
    /\ UNCHANGED <<kind, session, newest, token, frames, faults>>

\* The partner's host or the network fails, and we hear nothing of it.
Break(s) ==
    /\ conn[s].cli # "down" /\ Fault
    /\ \E got \in BOOLEAN, left \in 0..conn[s].buf :
         conn' = [conn EXCEPT ![s] = Over([conn[s] EXCEPT !.cli = "down", !.buf = left,
                     !.hi = IF conn[s].srv \in {"backlog", "hello"} THEN got ELSE conn[s].hi])]
    /\ link' = Down(s)
    /\ UNCHANGED <<kind, session, newest, token, frames>>

\* A client writes as soon as it has said hello; it does not wait for an answer.
Write(s) ==
    /\ conn[s].cli = "up" /\ conn[s].open
    /\ frames < MaxFrames /\ frames' = frames + 1
    /\ conn' = [conn EXCEPT ![s].buf = @ + 1]
    /\ UNCHANGED <<kind, session, newest, token, link, faults>>

-----------------------------------------------------------------------------
(* The listener. *)

Served == {s \in Slots : conn[s].srv \notin {"gone", "backlog"}}

Gone(c) == Over([c EXCEPT !.srv = "gone", !.open = FALSE, !.buf = 0, !.hi = FALSE])

\* Start, Serve: a full house closes the door; MATIP has no limit.
Accept(s) ==
    /\ conn[s].srv = "backlog"
    /\ conn' = IF kind # "matip" /\ Cardinality(Served) >= House
               THEN [conn EXCEPT ![s] = Gone(@)]
               ELSE [conn EXCEPT ![s].srv = "hello"]
    /\ UNCHANGED <<kind, session, newest, token, link, frames, faults>>

\* Fault to inject: the token is looked at only where everybody needs one.
EntitledLoosely(n) ==
    CASE kind = "tcp" -> ~RequireToken \/ n = Holder
      [] OTHER -> TRUE

\* The token when the peer has one, or the same coding as ours.
Entitled(n) ==
    CASE kind = "tcp" -> IF token THEN n = Holder ELSE ~RequireToken
      [] kind = "matip" -> n = Holder
      [] kind = "server" -> TRUE

\* readHello and tokenFor; Resolve and matip.Accept.
Identify(s) ==
    /\ conn[s].srv = "hello" /\ conn[s].hi
    /\ conn' = IF Entitled(nodeOf[s]) THEN [conn EXCEPT ![s].srv = "known"]
               ELSE [conn EXCEPT ![s] = Gone(@)]
    /\ UNCHANGED <<kind, session, newest, token, link, frames, faults>>

\* The peer's place is taken, and the session that had it is closed.
Register(s) ==
    /\ conn[s].srv = "known"
    /\ \E left \in IF session = None THEN {0} ELSE 0..conn[session].buf :
         conn' = [r \in Slots |-> CASE r = s -> [conn[r] EXCEPT !.srv = "serving"]
                                    [] r = session /\ r # s -> Shut(conn[r], left)
                                    [] OTHER -> conn[r]]
    /\ session' = s /\ newest' = s
    /\ UNCHANGED <<kind, token, link, frames, faults>>

\* ReadFrame also returns what the reader had buffered when the socket closed.
Read(s) ==
    /\ conn[s].srv = "serving" /\ conn[s].buf > 0
    /\ conn' = [conn EXCEPT ![s].srv = "handling", ![s].buf = @ - 1]
    /\ UNCHANGED <<kind, session, newest, token, link, frames, faults>>

\* The handler is done; its answer went down the session the table named.
Handled(s) ==
    /\ conn[s].srv = "handling"
    /\ conn' = [conn EXCEPT ![s].srv = "serving"]
    /\ UNCHANGED <<kind, session, newest, token, link, frames, faults>>

\* Fault to inject: whoever ends clears the peer's entry.
UnregisteredAny(s) == None

\* Only the session that still has the entry takes it away.
Unregistered(s) == IF session = s THEN None ELSE session

\* The handler refuses: the link goes, except transport.Server's, which reads on.
HandlerFails(s) ==
    /\ conn[s].srv = "handling" /\ Fault
    /\ IF kind = "server"
       THEN /\ conn' = [conn EXCEPT ![s].srv = "serving"]
            /\ UNCHANGED session
       ELSE /\ conn' = [conn EXCEPT ![s] = Gone(@)]
            /\ session' = Unregistered(s)
    /\ UNCHANGED <<kind, newest, token, link, frames>>

\* A read finds the socket closed: the loop ends.
End(s) ==
    /\ conn[s].srv = "serving" /\ conn[s].buf = 0 /\ ~conn[s].open
    /\ conn' = [conn EXCEPT ![s] = Gone(@)]
    /\ session' = Unregistered(s)
    /\ UNCHANGED <<kind, newest, token, link, frames, faults>>

\* The hello's deadline, TCP keep-alive or the idle timeout on a dead link.
TimesOut(s) ==
    /\ conn[s].cli = "down"
    /\ \/ conn[s].srv = "hello" /\ ~conn[s].hi
       \/ conn[s].srv = "serving" /\ conn[s].buf = 0

Reap(s) ==
    /\ TimesOut(s) /\ conn[s].open
    /\ conn' = IF conn[s].srv = "hello" THEN [conn EXCEPT ![s] = Gone(@)]
               ELSE [conn EXCEPT ![s].open = FALSE]
    /\ UNCHANGED <<kind, session, newest, token, link, frames, faults>>

\* IdleTimeout ends a link that is merely quiet.
Idle(s) ==
    /\ kind # "matip" /\ conn[s].srv = "serving" /\ conn[s].open /\ conn[s].buf = 0 /\ Fault
    /\ conn' = [conn EXCEPT ![s].open = FALSE]
    /\ UNCHANGED <<kind, session, newest, token, link, frames>>

\* A peer is handed over: it gets a token, and its open link is cut.
SetToken ==
    /\ kind = "tcp" /\ ~token /\ Fault
    /\ token' = TRUE
    /\ UNCHANGED <<kind, conn, session, newest, link, frames>>

CloseSession ==
    /\ kind = "tcp" /\ session # None /\ Fault
    /\ \E left \in 0..conn[session].buf : conn' = [conn EXCEPT ![session] = Shut(@, left)]
    /\ UNCHANGED <<kind, session, newest, token, link, frames>>

Serve(s) ==
    \/ Accept(s) \/ Identify(s) \/ Register(s) \/ Read(s) \/ Handled(s)
    \/ End(s) \/ Reap(s)

Client(s) == Confirmed(s) \/ ClientEnds(s)

Next ==
    \/ \E n \in Nodes : Dial(n)
    \/ \E s \in Slots : Serve(s) \/ Client(s)
    \/ \E s \in Slots : Break(s) \/ Write(s) \/ HandlerFails(s) \/ Idle(s)
    \/ SetToken \/ CloseSession

\* Goroutines run, clients redial, deadlines pass.
Spec ==
    /\ Init /\ [][Next]_vars
    /\ \A n \in Nodes : WF_vars(Dial(n))
    /\ \A s \in Slots : WF_vars(Serve(s)) /\ WF_vars(Client(s))

-----------------------------------------------------------------------------
(* Properties. *)

\* The type of every variable.
TypeOK ==
    /\ kind \in Kinds
    /\ conn \in [Slots -> [open : BOOLEAN, hi : BOOLEAN, buf : 0..MaxFrames,
                           srv : {"gone", "backlog", "hello", "known", "serving", "handling"},
                           cli : {"down", "wait", "up"}]]
    /\ session \in Slots \cup {None} /\ newest \in Slots \cup {None}
    /\ token \in BOOLEAN /\ link \in [Nodes -> Slots \cup {None}]
    /\ frames \in 0..MaxFrames /\ faults \in 0..MaxFaults

Serving(s) == conn[s].srv \in {"serving", "handling"}

\* However old sessions of a peer end around it, the link that last took the
\* peer's place is the one answers are sent down, for as long as it is open;
\* and there is at most one open link that can be.
NewestRegistered ==
    /\ newest # None /\ Serving(newest) /\ conn[newest].open => session = newest
    /\ \A s \in Slots : Serving(s) /\ conn[s].open => s = newest

\* A peer handed over by SetToken ends up with the node that has the token,
\* and stays there, though another one keeps dialling and its connections may
\* already have been let in; a MATIP partner of our coding and a plain client
\* likewise get their link back after every fault.
HandoverSettles ==
    <>[]((kind = "tcp" => token) =>
           /\ session # None /\ nodeOf[session] = Holder
           /\ Serving(session) /\ conn[session].open /\ conn[session].cli = "up")

=============================================================================
