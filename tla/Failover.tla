------------------------------- MODULE Failover -------------------------------
(***************************************************************************)
(* The processes that may run one system and the lease that lets one of    *)
(* them (pkg/node/node.go runLease, Drain, releaseLease; wiring.go          *)
(* registerPeer, ReloadPeers; the Leaser of pkg/store/mem.go and            *)
(* postgres.go), with the links each holds to its partners.                *)
(*                                                                         *)
(* Time is counted in polls, a third of the lease's term: the store's row  *)
(* keeps the polls its term has left, and every process polls once between *)
(* two ticks.  A call to the store has no deadline: one that fails, and    *)
(* every poll spent waiting for one, is a miss.  What must be prompt (a    *)
(* cancelled context closing sockets) happens before the next tick.        *)
(***************************************************************************)
EXTENDS Integers, FiniteSets

CONSTANTS
    Nodes,        \* the processes
    Accepts,      \* partners that dial in; their answers go down the session
    Matip,        \* those of them on a MATIP listener
    Dials,        \* partners a node dials (link_dial)
    Configured,   \* the partners in the configuration a process starts with
    None,
    TTL,          \* the term, in polls
    DrainTicks,   \* drainTimeout, in polls
    MaxMisses,    \* bound: calls to the store that fail in a row, or polls one takes
    MaxFaults     \* bound: crashes, shutdowns and failed rebuilds

ASSUME FailoverAssumption ==
    /\ IsFiniteSet(Nodes) /\ None \notin Nodes
    /\ Matip \subseteq Accepts /\ Accepts \cap Dials = {}
    /\ Configured \subseteq Accepts \cup Dials
    /\ TTL \in Nat \ {0} /\ DrainTicks \in Nat
    /\ MaxMisses \in Nat /\ MaxFaults \in Nat

Peers == Accepts \cup Dials

VARIABLES
    row,        \* system_lease: its holder and the polls left of the term
    pc,         \* [Nodes -> where runLease is]
    polled,     \* [Nodes -> has called the store since the last tick]
    misses,     \* [Nodes -> polls in a row without an answer of the store]
    left,       \* [Nodes -> polls left of a drain]
    known,      \* [Nodes -> partners registered]
    stale,      \* [Nodes -> partners registered with listeners since replaced]
    runs,       \* [Nodes -> [Dials -> contexts a Client.Run is under]]
    session,    \* [Nodes -> partners with an open session]
    work,       \* [Nodes -> partners whose request is in its handler]
    answers,    \* [Nodes -> partners with an answer in the session's outbox]
    faults

lease  == <<row, pc, polled, misses, left>>
wires  == <<known, stale, runs, session>>
flows  == <<work, answers>>
vars   == <<lease, wires, flows, faults>>

Lives == {"standby", "granted", "hold", "lost", "stopping", "dead"}

TypeOK ==
    /\ row \in [holder : Nodes \cup {None}, left : 0..TTL]
    /\ pc \in [Nodes -> Lives \cup {"down"}]
    /\ polled \in [Nodes -> BOOLEAN]
    /\ misses \in [Nodes -> 0..MaxMisses]
    /\ left \in [Nodes -> 0..DrainTicks]
    /\ known \in [Nodes -> SUBSET Peers]
    /\ stale \in [Nodes -> SUBSET Accepts]
    /\ runs \in [Nodes -> [Dials -> SUBSET {"lease", "run"}]]
    /\ session \in [Nodes -> SUBSET Accepts]
    /\ work \in [Nodes -> SUBSET Accepts] /\ answers \in [Nodes -> SUBSET Accepts]
    /\ faults \in 0..MaxFaults

NoRuns == [p \in Dials |-> {}]

Init ==
    /\ row = [holder |-> None, left |-> 0]
    /\ pc = [n \in Nodes |-> "standby"]
    /\ polled = [n \in Nodes |-> FALSE]
    /\ misses = [n \in Nodes |-> 0] /\ left = [n \in Nodes |-> 0]
    /\ known = [n \in Nodes |-> Configured] /\ stale = [n \in Nodes |-> {}]
    /\ runs = [n \in Nodes |-> NoRuns]
    /\ session = [n \in Nodes |-> {}] /\ work = [n \in Nodes |-> {}]
    /\ answers = [n \in Nodes |-> {}] /\ faults = 0

Put(f, n, x) == [f EXCEPT ![n] = x]

---------------------------------------------------------------------------
(* The store's side: the row is free when there is none, when its term is  *)
(* over, or when the caller's own name is on it.                           *)

(* Fault to inject: the row is taken in the last third of its term. *)
FreeEarly(n) == row.holder \in {None, n} \/ row.left <= 1

Free(n) == row.holder \in {None, n} \/ row.left = 0

Mine(n) == row.holder = n /\ row.left > 0

(* A call that fails tells the caller nothing, and it polls again; one     *)
(* that is still out at the next poll has told it nothing yet.             *)
Misses(n) ==
    /\ misses[n] < MaxMisses
    /\ misses' = Put(misses, n, misses[n] + 1)
    /\ polled' = Put(polled, n, TRUE)
    /\ UNCHANGED <<row, pc, left, wires, flows, faults>>

---------------------------------------------------------------------------
(* runLease.                                                               *)

(* Acquire succeeds in the store. *)
Acquire(n) ==
    /\ pc[n] = "standby" /\ ~polled[n] /\ Free(n)
    /\ row' = [holder |-> n, left |-> TTL]
    /\ pc' = Put(pc, n, "granted")
    /\ polled' = Put(polled, n, TRUE) /\ misses' = Put(misses, n, 0)
    /\ UNCHANGED <<left, wires, flows, faults>>

AcquireWaits(n) == pc[n] = "granted" /\ ~polled[n] /\ Misses(n)

(* Its answer arrives: holding is set, and bindListeners serves the        *)
(* listeners and starts every dialled link under the lease's context.  The *)
(* first renewal is a poll away.                                           *)
Bind(n) ==
    /\ pc[n] = "granted" /\ polled[n]
    /\ pc' = Put(pc, n, "hold")
    /\ runs' = Put(runs, n, [p \in Dials |-> IF p \in known[n] THEN runs[n][p] \cup {"lease"}
                                                              ELSE runs[n][p]])
    /\ UNCHANGED <<row, polled, misses, left, known, stale, session, flows, faults>>

AcquireHeld(n) ==
    /\ pc[n] = "standby" /\ ~polled[n] /\ ~Free(n)
    /\ polled' = Put(polled, n, TRUE) /\ misses' = Put(misses, n, 0)
    /\ UNCHANGED <<row, pc, left, wires, flows, faults>>

AcquireFails(n) == pc[n] = "standby" /\ ~polled[n] /\ Misses(n)

Renew(n) ==
    /\ pc[n] = "hold" /\ ~polled[n] /\ Mine(n)
    /\ row' = [row EXCEPT !.left = TTL]
    /\ polled' = Put(polled, n, TRUE) /\ misses' = Put(misses, n, 0)
    /\ UNCHANGED <<pc, left, wires, flows, faults>>

(* "the term has time in it; try again next poll": whether it has is not   *)
(* looked at.                                                              *)
RenewFails(n) == pc[n] = "hold" /\ ~polled[n] /\ Misses(n)

(* Renew says no: holding is cleared. *)
RenewLost(n) ==
    /\ pc[n] = "hold" /\ ~polled[n] /\ ~Mine(n)
    /\ pc' = Put(pc, n, "lost")
    /\ polled' = Put(polled, n, TRUE)
    /\ UNCHANGED <<row, misses, left, wires, flows, faults>>

(* The lease's context is cancelled and the listeners closed: the sessions *)
(* and the links started under the lease go.  Listeners are built anew;    *)
(* the senders of the partners registered before keep the old ones.        *)
DropLinks(n) ==
    /\ runs' = Put(runs, n, [p \in Dials |-> runs[n][p] \ {"lease"}])
    /\ session' = Put(session, n, {}) /\ answers' = Put(answers, n, {})
    /\ stale' = Put(stale, n, known[n] \cap Accepts)
    /\ UNCHANGED <<known, work>>

(* Fault to inject: runLease does not go round again. *)
DropEnds(n) ==
    /\ pc[n] = "lost"
    /\ pc' = Put(pc, n, "dead") /\ misses' = Put(misses, n, 0)
    /\ DropLinks(n)
    /\ UNCHANGED <<row, polled, left, faults>>

Drop(n) ==
    /\ pc[n] = "lost"
    /\ pc' = Put(pc, n, "standby") /\ misses' = Put(misses, n, 0)
    /\ DropLinks(n)
    /\ UNCHANGED <<row, polled, left, faults>>

(* buildIngress fails and runLease returns: the process stays, and never   *)
(* asks for the lease again.                                               *)
DropFails(n) ==
    /\ pc[n] = "lost" /\ faults < MaxFaults
    /\ faults' = faults + 1
    /\ pc' = Put(pc, n, "dead") /\ misses' = Put(misses, n, 0)
    /\ DropLinks(n)
    /\ UNCHANGED <<row, polled, left>>

---------------------------------------------------------------------------
(* ReloadPeers, on SIGHUP: a partner not known yet is registered with the  *)
(* listeners of now, and dialled at once under the process's context when  *)
(* the process is holding.                                                 *)
ReloadPeers(n, p) ==
    /\ pc[n] \in Lives /\ p \notin known[n]
    /\ known' = Put(known, n, known[n] \cup {p})
    /\ runs' = IF p \in Dials /\ pc[n] = "hold" THEN [runs EXCEPT ![n][p] = @ \cup {"run"}]
                                                 ELSE runs
    /\ UNCHANGED <<lease, stale, session, flows, faults>>

---------------------------------------------------------------------------
(* A partner's traffic on its session.                                     *)

Connect(n, p) ==
    /\ pc[n] = "hold" /\ p \in known[n] \ session[n]
    /\ session' = Put(session, n, session[n] \cup {p})
    /\ UNCHANGED <<lease, known, stale, runs, flows, faults>>

Request(n, p) ==
    /\ p \in session[n] \ work[n]
    /\ work' = Put(work, n, work[n] \cup {p})
    /\ UNCHANGED <<lease, wires, answers, faults>>

(* The handler answers and returns.  The partner's sender looks for the    *)
(* session in the listeners it was registered with, and finds none there   *)
(* once they were replaced.  A MATIP session looks at the context after    *)
(* each message, and ends in a shutdown; its outbox goes with it.          *)
EndsSession(n, p) == pc[n] = "stopping" /\ p \in Matip

Answer(n, p) ==
    /\ p \in work[n]
    /\ work' = Put(work, n, work[n] \ {p})
    /\ session' = IF EndsSession(n, p) THEN Put(session, n, session[n] \ {p}) ELSE session
    /\ answers' = IF p \notin session'[n] THEN Put(answers, n, answers[n] \ {p})
                 ELSE IF p \in stale[n] THEN answers ELSE Put(answers, n, answers[n] \cup {p})
    /\ UNCHANGED <<lease, known, stale, runs, faults>>

WriteOut(n, p) ==
    /\ p \in answers[n]
    /\ answers' = Put(answers, n, answers[n] \ {p})
    /\ UNCHANGED <<lease, wires, work, faults>>

---------------------------------------------------------------------------
(* Shutdown: the signal cancels the context everything runs under, and     *)
(* Serve starts Drain.                                                     *)

(* Fault to inject: the lease is given back before the drain. *)
SignalReleases(n) ==
    /\ pc[n] \in Lives \ {"stopping", "lost"} /\ faults < MaxFaults
    /\ faults' = faults + 1
    /\ pc' = Put(pc, n, "stopping") /\ left' = Put(left, n, DrainTicks)
    /\ row' = IF row.holder = n THEN [holder |-> None, left |-> 0] ELSE row
    /\ runs' = Put(runs, n, NoRuns)
    /\ UNCHANGED <<polled, misses, known, stale, session, flows>>

Signal(n) ==
    /\ pc[n] \in Lives \ {"stopping", "lost"} /\ faults < MaxFaults
    /\ faults' = faults + 1
    /\ pc' = Put(pc, n, "stopping") /\ left' = Put(left, n, DrainTicks)
    /\ runs' = Put(runs, n, NoRuns)
    /\ UNCHANGED <<row, polled, misses, known, stale, session, flows>>

(* ingress.TCP: context.AfterFunc closes every session's socket. *)
CloseConns(n) ==
    /\ pc[n] = "stopping" /\ ~(session[n] \subseteq Matip)
    /\ session' = Put(session, n, session[n] \cap Matip)
    /\ answers' = Put(answers, n, answers[n] \cap Matip)
    /\ UNCHANGED <<lease, known, stale, runs, work, faults>>

(* ingress.MATIP closes only its listener then.  Its sessions stay until   *)
(* Drain comes to it and has waited for its handlers.                      *)
DrainMatip(n) ==
    /\ pc[n] = "stopping" /\ session[n] \cap Matip # {}
    /\ work[n] \cap Matip = {} \/ left[n] = 0
    /\ session' = Put(session, n, session[n] \ Matip)
    /\ answers' = Put(answers, n, answers[n] \ Matip)
    /\ UNCHANGED <<lease, known, stale, runs, work, faults>>

(* Drain ends when the handlers and TCP's outboxes are empty or its time   *)
(* is up: it has closed the listeners and gives the lease back, unless     *)
(* that call fails, and the process ends.                                  *)
Released(n) ==
    \/ /\ row' = IF row.holder = n THEN [holder |-> None, left |-> 0] ELSE row
       /\ UNCHANGED misses
    \/ /\ misses[n] < MaxMisses /\ misses' = Put(misses, n, misses[n] + 1)
       /\ UNCHANGED row

Drained(n) ==
    /\ pc[n] = "stopping"
    /\ (work[n] = {} /\ answers[n] \subseteq Matip) \/ left[n] = 0
    /\ Released(n)
    /\ pc' = Put(pc, n, "down")
    /\ session' = Put(session, n, {}) /\ work' = Put(work, n, {})
    /\ answers' = Put(answers, n, {})
    /\ UNCHANGED <<polled, left, known, stale, runs, faults>>

Crash(n) ==
    /\ pc[n] \in Lives /\ faults < MaxFaults
    /\ faults' = faults + 1
    /\ pc' = Put(pc, n, "down")
    /\ runs' = Put(runs, n, NoRuns) /\ session' = Put(session, n, {})
    /\ work' = Put(work, n, {}) /\ answers' = Put(answers, n, {})
    /\ UNCHANGED <<row, polled, misses, left, known, stale>>

(* Build and Start of a new process: the configuration's partners. *)
Start(n) ==
    /\ pc[n] = "down"
    /\ pc' = Put(pc, n, "standby")
    /\ polled' = Put(polled, n, FALSE) /\ misses' = Put(misses, n, 0)
    /\ left' = Put(left, n, 0)
    /\ known' = Put(known, n, Configured) /\ stale' = Put(stale, n, {})
    /\ UNCHANGED <<row, runs, session, flows, faults>>

---------------------------------------------------------------------------
(* A poll's time passes, for everyone. *)
Tick ==
    /\ \A n \in Nodes :
        /\ pc[n] \in {"standby", "granted", "hold"} => polled[n]
        /\ pc[n] = "granted" => misses[n] < MaxMisses
        /\ pc[n] # "lost"
        /\ pc[n] = "stopping" => session[n] \subseteq Matip /\ left[n] > 0
    /\ row' = [row EXCEPT !.left = IF @ = 0 THEN 0 ELSE @ - 1]
    /\ polled' = [n \in Nodes |-> FALSE]
    /\ left' = [n \in Nodes |-> IF pc[n] = "stopping" THEN left[n] - 1 ELSE left[n]]
    /\ UNCHANGED <<pc, misses, wires, flows, faults>>

Poll(n) == \/ Acquire(n) \/ AcquireHeld(n) \/ AcquireFails(n) \/ AcquireWaits(n)
           \/ Renew(n) \/ RenewFails(n) \/ RenewLost(n)

Next ==
    \/ Tick
    \/ \E n \in Nodes :
        \/ Poll(n) \/ Bind(n) \/ Drop(n) \/ DropFails(n)
        \/ Signal(n) \/ CloseConns(n) \/ DrainMatip(n) \/ Drained(n) \/ Crash(n) \/ Start(n)
        \/ \E p \in Peers : ReloadPeers(n, p)
        \/ \E p \in Accepts : Connect(n, p) \/ Request(n, p) \/ Answer(n, p) \/ WriteOut(n, p)

(* Time passes, every live process runs, and one that ended is started     *)
(* again by its supervisor.  Traffic owes nothing, and neither do faults.  *)
Fairness ==
    /\ WF_vars(Tick)
    /\ \A n \in Nodes :
        /\ WF_vars(Poll(n)) /\ WF_vars(Bind(n)) /\ WF_vars(Drop(n)) /\ WF_vars(CloseConns(n))
        /\ WF_vars(Drained(n)) /\ WF_vars(Start(n))

Spec == Init /\ [][Next]_vars /\ Fairness

---------------------------------------------------------------------------
(* Properties.                                                             *)

(* A process is behind when it has been without an answer of the store for *)
(* so long that the term may be over before it asks again.                 *)
Behind(n) == misses[n] + 2 > TTL

(* "Lease makes one process the system's writer" (config.go), as far as it *)
(* goes: two processes serve the system's links at once only when one of   *)
(* them is behind.                                                         *)
OneWriter ==
    \A m, n \in Nodes :
        pc[m] = "hold" /\ pc[n] = "hold" /\ ~Behind(m) /\ ~Behind(n) => m = n

(* "Exactly one process may write a system's records at a time"            *)
(* (docs/production-gcp.md), as it stands.                                 *)
LeaseExcludes == \A m, n \in Nodes : pc[m] = "hold" /\ pc[n] = "hold" => m = n

(* A shutdown that takes longer than the term nobody renews any more       *)
(* (Serve, Drain) has lost the row to somebody else.                       *)
Overstays(n) == pc[n] = "stopping" /\ row.holder # n

(* "A partner's messages would then be split between them and answered     *)
(* twice" (docs/production-gcp.md): no partner has sessions with two       *)
(* processes, whatever crashes, hands over or shuts down, unless one of    *)
(* them is behind, or has a MATIP session open in a drain that outlasts    *)
(* the term.                                                               *)
OneSession ==
    \A m, n \in Nodes : \A p \in session[m] \cap session[n] :
        ~Behind(m) /\ ~Behind(n) => \/ m = n
                                    \/ p \in Matip /\ (Overstays(m) \/ Overstays(n))

(* The same without the exception for MATIP.                               *)
OneSessionEver ==
    \A m, n \in Nodes :
        session[m] \cap session[n] # {} /\ ~Behind(m) /\ ~Behind(n) => m = n

(* "When the leader dies, the lease expires in a few seconds. A standby    *)
(* takes the lease and binds" (docs/production-gcp.md): the system is      *)
(* always served again.                                                    *)
SystemServed == []<>(\E n \in Nodes : pc[n] = "hold")

(* "Replies on an inbound link go back down whichever TCP listener         *)
(* currently holds a session with that peer" (wiring.go): no answer is     *)
(* refused for want of a link that is open.                                *)
RepliesReach == \A n \in Nodes : work[n] \cap session[n] \cap stale[n] = {}

(* "a node binds its links only while it holds the system's lease"         *)
(* (config.go): a process standing by holds no dialled link.               *)
LinksFollowLease == \A n \in Nodes : pc[n] = "standby" => runs[n] = NoRuns

(* "Answers already queued for partners should reach them before the       *)
(* sockets close" (ingress/tcp.go Drain).                                  *)
DrainDelivers == [][\A n \in Nodes : CloseConns(n) => answers[n] = {}]_vars

(* "so a standby never binds while the old holder still has answers in     *)
(* flight" (CHANGELOG.md v0.1.51): a process takes the system only when no *)
(* other is still draining work.                                           *)
StandbyWaits ==
    \A m, n \in Nodes : (pc[m] = "hold" /\ pc[n] = "stopping") => work[n] = {}
=============================================================================
