-------------------------------- MODULE Trunk --------------------------------
(***************************************************************************)
(* One link and its two ends (pkg/transport/outbox.go and link.go, and the *)
(* session of pkg/ingress/tcp.go, which uses the same outbox).  Each end   *)
(* has a bounded outbox drained by one writer goroutine, a reader that     *)
(* runs its handler inside the read loop, and goroutines that originate    *)
(* traffic.  The handler of a request answers it on the same link, twice:  *)
(* the syntax report and then the reply.                                   *)
(***************************************************************************)
EXTENDS Integers, FiniteSets, Sequences, SequencesExt

CONSTANTS
    Ends,         \* the two ends of the link
    NoKind,       \* the kind of a sender that has no frame
    Depth,        \* OutboxDepth
    Window,       \* frames the socket takes, the one being written included
    Relays,       \* the ends whose outbox has NoWait set
    MaxOrigin,    \* bound: requests each end originates
    MaxCloses     \* bound: times the link is closed under traffic

ASSUME TrunkAssumption ==
    /\ IsFiniteSet(Ends) /\ Cardinality(Ends) = 2
    /\ Depth \in Nat \ {0} /\ Window \in Nat \ {0}
    /\ Relays \subseteq Ends /\ MaxOrigin \in Nat /\ MaxCloses \in Nat

Peer(e) == CHOOSE p \in Ends : p # e

Kinds == {"req", "contrl", "reply"}

(* Most frames one end can hand over: its requests, two answers to each of *)
(* the peer's.                                                             *)
MaxFrames == 3 * MaxOrigin

(* A frame, with the number the outbox took it under. *)
Frame == [kind : Kinds, no : 1..MaxFrames]

(* The goroutines that call Send at an end: its reader, with an answer,    *)
(* and one that originates.                                                *)
Roles == {"reader", "app"}

VARIABLES
    outq,        \* [Ends -> Outbox.q]
    check,       \* [Ends -> the writer is about to look at congested]
    wire,        \* [Ends -> frames written here, or being written, and unread]
    congested,   \* [Ends -> Outbox.congested]
    stopped,     \* [Ends -> Outbox.stop is closed]
    open,        \* the connection
    senders,     \* [Ends \X Roles -> a goroutine's Send: where it is, and its frame's kind]
    made,        \* [Ends -> requests originated]
    accepted,    \* [Ends -> frames the outbox took]
    got,         \* [Ends -> frames its reader took off the link]
    closes

linkVars == <<outq, check, wire, congested, stopped, open, senders, made, accepted, got, closes>>

Quiet == [pc |-> "idle", kind |-> NoKind]

LinkTypeOK ==
    /\ outq \in [Ends -> Seq(Frame)] /\ \A e \in Ends : Len(outq[e]) <= Depth
    /\ check \in [Ends -> BOOLEAN]
    /\ wire \in [Ends -> Seq(Frame)] /\ \A e \in Ends : Len(wire[e]) <= Window
    /\ congested \in [Ends -> BOOLEAN]
    /\ stopped \in [Ends -> BOOLEAN] /\ open \in BOOLEAN
    /\ senders \in [Ends \X Roles -> [pc : {"idle", "send", "try", "wait"},
                                      kind : Kinds \cup {NoKind}]]
    /\ made \in [Ends -> 0..MaxOrigin]
    /\ accepted \in [Ends -> 0..MaxFrames] /\ got \in [Ends -> 0..MaxFrames]
    /\ closes \in 0..MaxCloses

LinkInit ==
    /\ outq = [e \in Ends |-> <<>>]
    /\ check = [e \in Ends |-> FALSE]
    /\ wire = [e \in Ends |-> <<>>]
    /\ congested = [e \in Ends |-> FALSE] /\ stopped = [e \in Ends |-> FALSE]
    /\ open = TRUE
    /\ senders = [s \in Ends \X Roles |-> Quiet]
    /\ made = [e \in Ends |-> 0]
    /\ accepted = [e \in Ends |-> 0] /\ got = [e \in Ends |-> 0]
    /\ closes = 0

---------------------------------------------------------------------------
(* Outbox.Send.                                                            *)

Originate(e) ==
    /\ senders[<<e, "app">>].pc = "idle" /\ made[e] < MaxOrigin
    /\ made' = [made EXCEPT ![e] = @ + 1]
    /\ senders' = [senders EXCEPT ![<<e, "app">>] = [pc |-> "send", kind |-> "req"]]
    /\ UNCHANGED <<outq, check, wire, congested, stopped, open, accepted, got, closes>>

(* Send returns, with or without an error, and the handler goes on: after  *)
(* the CONTRL the reply.                                                   *)
Return(e, r) ==
    senders' = [senders EXCEPT ![<<e, r>>] =
                    IF @.kind = "contrl" THEN [pc |-> "send", kind |-> "reply"] ELSE Quiet]

Queued(e, r) ==
    /\ outq' = [outq EXCEPT ![e] = Append(@, [kind |-> senders[<<e, r>>].kind, no |-> accepted[e] + 1])]
    /\ accepted' = [accepted EXCEPT ![e] = @ + 1]
    /\ Return(e, r)

Room(e) == Len(outq[e]) < Depth

(* The look at stop, at congested and at NoWait. *)
SendCheck(e, r) ==
    /\ senders[<<e, r>>].pc = "send"
    /\ \/ stopped[e] /\ Return(e, r)
       \/ /\ ~stopped[e]
          /\ senders' = [senders EXCEPT ![<<e, r>>].pc =
                            IF congested[e] \/ e \in Relays THEN "try" ELSE "wait"]
    /\ UNCHANGED <<outq, check, wire, congested, stopped, open, made, accepted, got, closes>>

SendTry(e, r) ==
    /\ senders[<<e, r>>].pc = "try"
    /\ \/ Room(e) /\ Queued(e, r)
       \/ ~Room(e) /\ Return(e, r) /\ UNCHANGED <<outq, accepted>>
    /\ UNCHANGED <<check, wire, congested, stopped, open, made, got, closes>>

SendWait(e, r) ==
    /\ senders[<<e, r>>].pc = "wait"
    /\ \/ Room(e) /\ Queued(e, r)
       \/ stopped[e] /\ Return(e, r) /\ UNCHANGED <<outq, accepted>>
    /\ UNCHANGED <<check, wire, congested, stopped, open, made, got, closes>>

(* Fault to inject: Send waits for ever. *)
SendTimeoutNever(e, r) == FALSE

(* SendTimeout passes with the queue full: the link is congested. *)
SendTimeout(e, r) ==
    /\ senders[<<e, r>>].pc = "wait" /\ ~Room(e)
    /\ congested' = [congested EXCEPT ![e] = TRUE]
    /\ Return(e, r)
    /\ UNCHANGED <<outq, check, wire, stopped, open, made, accepted, got, closes>>

Send(e, r) == SendCheck(e, r) \/ SendTry(e, r) \/ SendWait(e, r) \/ SendTimeout(e, r)

---------------------------------------------------------------------------
(* The writer goroutine.  After stop its select may still pick the queue.  *)

(* Fault to inject: the frame stays in the queue after it is written. *)
WriterPutTwice(e) ==
    /\ ~check[e] /\ outq[e] # <<>>
    /\ open /\ Len(wire[e]) < Window
    /\ wire' = [wire EXCEPT ![e] = Append(@, Head(outq[e]))]
    /\ check' = [check EXCEPT ![e] = TRUE]
    /\ UNCHANGED <<outq, congested, stopped, open, senders, made, accepted, got, closes>>

WriterPut(e) ==
    /\ ~check[e] /\ outq[e] # <<>>
    /\ open /\ Len(wire[e]) < Window
    /\ wire' = [wire EXCEPT ![e] = Append(@, Head(outq[e]))]
    /\ outq' = [outq EXCEPT ![e] = Tail(@)]
    /\ check' = [check EXCEPT ![e] = TRUE]
    /\ UNCHANGED <<congested, stopped, open, senders, made, accepted, got, closes>>

(* Congestion clears when the writer finds the queue empty. *)
WriterCheck(e) ==
    /\ check[e]
    /\ check' = [check EXCEPT ![e] = FALSE]
    /\ congested' = [congested EXCEPT ![e] = @ /\ outq[e] # <<>>]
    /\ UNCHANGED <<outq, wire, stopped, open, senders, made, accepted, got, closes>>

(* The connection is closed, so the write fails: fail and onFail, and the  *)
(* frame is gone.                                                          *)
WriterFails(e) ==
    /\ ~check[e] /\ outq[e] # <<>>
    /\ ~open /\ ~stopped[e]
    /\ outq' = [outq EXCEPT ![e] = Tail(@)]
    /\ stopped' = [stopped EXCEPT ![e] = TRUE]
    /\ UNCHANGED <<check, wire, congested, open, senders, made, accepted, got, closes>>

Writer(e) == WriterPut(e) \/ WriterCheck(e) \/ WriterFails(e)

---------------------------------------------------------------------------
(* serve: read a frame, run the handler, read on.                          *)
Read(e) ==
    /\ senders[<<e, "reader">>].pc = "idle"
    /\ open /\ wire[Peer(e)] # <<>>
    /\ wire' = [wire EXCEPT ![Peer(e)] = Tail(@)]
    /\ got' = [got EXCEPT ![e] = @ + 1]
    /\ senders' = IF Head(wire[Peer(e)]).kind = "req"
                    THEN [senders EXCEPT ![<<e, "reader">>] = [pc |-> "send", kind |-> "contrl"]]
                    ELSE senders
    /\ UNCHANGED <<outq, check, congested, stopped, open, made, accepted, closes>>

(* An end closes the link: replaced by a new session, idle, shut down, or  *)
(* its writer's deadline passed.  Link.Close stops the outbox first.       *)
Close(e) ==
    /\ open /\ closes < MaxCloses
    /\ closes' = closes + 1
    /\ stopped' = [stopped EXCEPT ![e] = TRUE]
    /\ open' = FALSE
    /\ UNCHANGED <<outq, check, wire, congested, senders, made, accepted, got>>

(* The reader at the other end sees the connection end, and closes too. *)
ReadEnds(e) ==
    /\ ~open /\ ~stopped[e] /\ senders[<<e, "reader">>].pc = "idle"
    /\ stopped' = [stopped EXCEPT ![e] = TRUE]
    /\ UNCHANGED <<outq, check, wire, congested, open, senders, made, accepted, got, closes>>

LinkNext == \E e \in Ends :
            \/ Originate(e) \/ \E r \in Roles : Send(e, r)
            \/ Writer(e) \/ Read(e) \/ ReadEnds(e)
            \/ Close(e)

(* Every goroutine runs, and timers fire.  The writer's deadline is not    *)
(* relied on: nothing is fair about Close.                                 *)
LinkFairness == \A e \in Ends :
    /\ WF_linkVars(Writer(e)) /\ WF_linkVars(Read(e)) /\ WF_linkVars(ReadEnds(e))
    /\ \A r \in Roles : WF_linkVars(Send(e, r))

LinkSpec == LinkInit /\ [][LinkNext]_linkVars /\ LinkFairness

---------------------------------------------------------------------------
(* Properties.                                                             *)

(* What a handler gets is always the next frame its peer's outbox took,    *)
(* whatever is closing the link meanwhile: closing only cuts the tail.     *)
NextRead ==
    [][\A e \in Ends : got'[e] # got[e] => Head(wire[Peer(e)]).no = got[e] + 1]_linkVars

(* Two ends that both answer inside their read loops do not block each     *)
(* other for ever: without any write deadline, every accepted frame is     *)
(* read, or the link is closed (outbox.go, why the outbox exists).         *)
EveryFrameRead ==
    \A e \in Ends : <>[](~open \/ got[Peer(e)] = accepted[e])

(* "cleared by the writer once the queue is half drained" (outbox.go, the  *)
(* congested field): a writer that finds it so clears the flag.            *)
HalfDrainedClears ==
    [][\A e \in Ends : WriterCheck(e) /\ 2 * Len(outq[e]) <= Depth => ~congested'[e]]_linkVars
=============================================================================
