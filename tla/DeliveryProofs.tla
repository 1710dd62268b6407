---------------------------- MODULE DeliveryProofs ----------------------------
(***************************************************************************)
(* How messages leave: over a link (Trunk), through the router that logs   *)
(* them and tries them again (Router), and from the one process that holds *)
(* the lease (Failover).                                                   *)
(*                                                                         *)
(* For any depth of the outboxes, any window of the socket, any amount of  *)
(* traffic and any relays: what a handler gets is the next frame its peer's *)
(* outbox took, however the link is closed under it.  For any messages,    *)
(* any number of attempts, restarts and recoveries: the log does not call  *)
(* a message sent that no transport took, and a message nobody took is     *)
(* undeliverable in the log.                                               *)
(***************************************************************************)
EXTENDS Failover, Trunk, Router, FiniteSetTheorems, TLAPS

(* A frame on its way, whatever number it bears. *)
AnyFrame == [kind : Kinds \cup {NoKind}, no : Nat]

(* The types the argument needs; the bounds are LinkTypeOK's and TLC's. *)
LinkTyped ==
    /\ outq \in [Ends -> Seq(AnyFrame)] /\ wire \in [Ends -> Seq(AnyFrame)]
    /\ senders \in [Ends \X Roles -> [pc : {"idle", "send", "try", "wait"}, kind : Kinds \cup {NoKind}]]
    /\ accepted \in [Ends -> Nat] /\ got \in [Ends -> Nat]
    /\ open \in BOOLEAN

(* Frames in a queue or on a wire.  A name of its own keeps the arithmetic *)
(* below apart from the sequences.                                         *)
Size(s) == Len(s)

(* What is on the wire follows what the peer has read. *)
WireFollows ==
    \A e \in Ends : \A k \in DOMAIN wire[e] : wire[e][k].no = got[Peer(e)] + k

(* While the link is up the queue follows the wire, up to the last frame   *)
(* Send took.                                                              *)
QueueFollows ==
    open => \A e \in Ends :
        /\ \A k \in DOMAIN outq[e] : outq[e][k].no = got[Peer(e)] + Size(wire[e]) + k
        /\ accepted[e] = got[Peer(e)] + Size(wire[e]) + Size(outq[e])

LinkInv == LinkTyped /\ WireFollows /\ QueueFollows

(* A link has two ends, each the other's peer. *)
LEMMA LinkPeers ==
    /\ \A e \in Ends : Peer(e) \in Ends /\ Peer(e) # e /\ Peer(Peer(e)) = e
    /\ \A e, f \in Ends : f # e => f = Peer(e)
  <1>1. PICK a, b : Ends = {a, b} /\ a # b
    <2>1. PICK a \in Ends : TRUE
      BY TrunkAssumption, FS_EmptySet
    <2>2. IsFiniteSet(Ends \ {a}) /\ Cardinality(Ends \ {a}) = 1
      BY <2>1, TrunkAssumption, FS_RemoveElement
    <2>3. PICK b : Ends \ {a} = {b}
      BY <2>2, FS_Singleton
    <2>4. Ends = {a, b} /\ a # b
      BY <2>1, <2>3
    <2> QED
      BY <2>4
  <1>2. Peer(a) = b /\ Peer(b) = a
    BY <1>1 DEF Peer
  <1> QED
    BY <1>1, <1>2

(* Counting frames: one moved from the queue to the wire, or from the wire *)
(* to the reader.                                                          *)
LEMMA Shift ==
    \A g, w, q \in Nat :
        /\ g + (w + 1) + q = g + w + (q + 1)
        /\ (g + w + q) + 1 = g + w + (q + 1)
        /\ (g + 1) + w = g + (w + 1)
        /\ w # 0 => /\ (g + 1) + (w - 1) = g + w
                   /\ q + (w - 1) = (q + w) - 1
                   /\ g + (q + 1) + (w - 1) = g + q + w
  OBVIOUS

(* A sequence has a size. *)
LEMMA SizeNat == Size(<<>>) = 0 /\ \A S : \A s \in Seq(S) : Size(s) \in Nat
  BY DEF Size

(* A frame put at the end of a sequence: the others keep their places. *)
LEMMA AppendFacts ==
    \A S : \A s \in Seq(S), x \in S :
        /\ Append(s, x) \in Seq(S) /\ Size(s) \in Nat /\ Size(Append(s, x)) = Size(s) + 1
        /\ \A k \in DOMAIN Append(s, x) :
              \/ k \in DOMAIN s /\ Append(s, x)[k] = s[k]
              \/ k = Size(s) + 1 /\ Append(s, x)[k] = x
  BY DEF Size

(* The first frame taken off a sequence: the others move up by one. *)
LEMMA TailFacts ==
    \A S : \A s \in Seq(S) : s # <<>> =>
        /\ Tail(s) \in Seq(S) /\ Size(s) \in Nat \ {0} /\ Size(Tail(s)) = Size(s) - 1
        /\ 1 \in DOMAIN s /\ Head(s) = s[1] /\ Head(s) \in S
        /\ \A k \in DOMAIN Tail(s) :
              k \in Nat /\ k + 1 \in DOMAIN s /\ Tail(s)[k] = s[k + 1]
  BY DEF Size

(* The initial states: an open link with nothing on it. *)
LEMMA LinkInitInv == LinkInit => LinkInv
  <1> SUFFICES ASSUME LinkInit PROVE LinkInv
    OBVIOUS
  <1>1. LinkTyped
    BY DEF LinkInit, LinkTyped, Quiet
  <1>2. WireFollows
    BY DEF LinkInit, WireFollows
  <1>3. QueueFollows
    BY LinkPeers, SizeNat DEF LinkInit, QueueFollows
  <1> QED
    BY <1>1, <1>2, <1>3 DEF LinkInv

(* What Send leaves of a goroutine is again a place in Send and a kind. *)
LEMMA SndTyped ==
    ASSUME LinkTyped, NEW e \in Ends, NEW r \in Roles
    PROVE  LET P == [pc : {"idle", "send", "try", "wait"}, kind : Kinds \cup {NoKind}]
           IN  /\ Return(e, r) => senders' \in [Ends \X Roles -> P]
               /\ \A q \in P : [senders EXCEPT ![<<e, r>>] = q] \in [Ends \X Roles -> P]
               /\ \A c \in {"try", "wait"} :
                     [senders EXCEPT ![<<e, r>>].pc = c] \in [Ends \X Roles -> P]
  <1> DEFINE P == [pc : {"idle", "send", "try", "wait"}, kind : Kinds \cup {NoKind}]
  <1>1. <<e, r>> \in Ends \X Roles /\ senders \in [Ends \X Roles -> P]
    BY DEF LinkTyped
  <1>2. Quiet \in P /\ [pc |-> "send", kind |-> "reply"] \in P
    BY DEF Quiet, Kinds
  <1>3. \A q \in P : [senders EXCEPT ![<<e, r>>] = q] \in [Ends \X Roles -> P]
    BY <1>1
  <1>4. ASSUME Return(e, r) PROVE senders' \in [Ends \X Roles -> P]
    <2> DEFINE q == IF senders[<<e, r>>].kind = "contrl" THEN [pc |-> "send", kind |-> "reply"] ELSE Quiet
    <2>1. q \in P /\ senders' = [senders EXCEPT ![<<e, r>>] = q]
      BY <1>2, <1>4 DEF Return
    <2> QED
      BY <2>1, <1>3
  <1>5. ASSUME NEW c \in {"try", "wait"}
        PROVE  [senders EXCEPT ![<<e, r>>].pc = c] \in [Ends \X Roles -> P]
    BY <1>1
  <1> QED
    BY <1>3, <1>4, <1>5

(* Send puts its frame behind all the frames it took before. *)
LEMMA QueuedInv ==
    ASSUME LinkInv, NEW e \in Ends, NEW r \in Roles, Queued(e, r), UNCHANGED <<wire, open, got>>
    PROVE  LinkInv'
  <1> DEFINE fr == [kind |-> senders[<<e, r>>].kind, no |-> accepted[e] + 1]
  <1>1. /\ outq' = [outq EXCEPT ![e] = Append(outq[e], fr)]
        /\ accepted' = [accepted EXCEPT ![e] = accepted[e] + 1]
        /\ outq \in [Ends -> Seq(AnyFrame)] /\ wire \in [Ends -> Seq(AnyFrame)]
        /\ accepted \in [Ends -> Nat] /\ got \in [Ends -> Nat]
    BY DEF Queued, LinkInv, LinkTyped
  <1>2. fr \in AnyFrame /\ fr.no = accepted[e] + 1
    <2>1. <<e, r>> \in Ends \X Roles
      OBVIOUS
    <2> QED
      BY <2>1 DEF LinkInv, LinkTyped, AnyFrame
  <1> HIDE DEF fr
  <1>3. LinkTyped'
    <2>1. outq' \in [Ends -> Seq(AnyFrame)]
      BY <1>1, <1>2
    <2>2. accepted' \in [Ends -> Nat]
      BY <1>1
    <2> QED
      BY <2>1, <2>2, SndTyped DEF LinkInv, LinkTyped, Queued
  <1>4. WireFollows'
    BY DEF LinkInv, WireFollows
  <1>5. QueueFollows'
    <2> SUFFICES ASSUME open, NEW f \in Ends
                 PROVE  /\ \A k \in DOMAIN outq'[f] : outq'[f][k].no = got[Peer(f)] + Size(wire[f]) + k
                        /\ accepted'[f] = got[Peer(f)] + Size(wire[f]) + Size(outq'[f])
      BY DEF QueueFollows
    <2>1. /\ \A k \in DOMAIN outq[f] : outq[f][k].no = got[Peer(f)] + Size(wire[f]) + k
          /\ accepted[f] = got[Peer(f)] + Size(wire[f]) + Size(outq[f])
      BY DEF LinkInv, QueueFollows
    <2>2. got[Peer(f)] \in Nat /\ Size(wire[f]) \in Nat /\ Size(outq[f]) \in Nat
      BY <1>1, LinkPeers, SizeNat
    <2>3. CASE f # e
      BY <1>1, <2>1, <2>3
    <2>4. CASE f = e
      <3>1. outq'[f] = Append(outq[f], fr) /\ accepted'[f] = accepted[f] + 1
        BY <1>1, <2>4
      <3>2. /\ Size(outq'[f]) = Size(outq[f]) + 1
            /\ \A k \in DOMAIN outq'[f] :
                  \/ k \in DOMAIN outq[f] /\ outq'[f][k] = outq[f][k]
                  \/ k = Size(outq[f]) + 1 /\ outq'[f][k] = fr
        BY <1>1, <1>2, <3>1, AppendFacts
      <3>3. ASSUME NEW k \in DOMAIN outq'[f]
            PROVE  outq'[f][k].no = got[Peer(f)] + Size(wire[f]) + k
        <4>1. CASE k \in DOMAIN outq[f] /\ outq'[f][k] = outq[f][k]
          BY <2>1, <4>1
        <4>2. CASE k = Size(outq[f]) + 1 /\ outq'[f][k] = fr
          <5>1. (got[Peer(f)] + Size(wire[f]) + Size(outq[f])) + 1
                  = got[Peer(f)] + Size(wire[f]) + (Size(outq[f]) + 1)
            BY <2>2, Shift
          <5> QED
            BY <1>2, <2>1, <2>4, <4>2, <5>1, Zenon
        <4> QED
          BY <3>2, <4>1, <4>2
      <3> QED
        <4>1. (got[Peer(f)] + Size(wire[f]) + Size(outq[f])) + 1
                = got[Peer(f)] + Size(wire[f]) + (Size(outq[f]) + 1)
          BY <2>2, Shift
        <4> QED
          BY <2>1, <3>1, <3>2, <3>3, <4>1, Zenon
    <2> QED
      BY <2>3, <2>4
  <1> QED
    BY <1>3, <1>4, <1>5 DEF LinkInv

(* A step that leaves the frames where they are. *)
LEMMA FramesStay ==
    ASSUME LinkInv, UNCHANGED <<outq, wire, accepted, got>>, open' \in BOOLEAN, open' => open,
           senders' \in [Ends \X Roles -> [pc : {"idle", "send", "try", "wait"},
                                        kind : Kinds \cup {NoKind}]]
    PROVE  LinkInv'
  BY DEF LinkInv, LinkTyped, WireFollows, QueueFollows

(* The writer takes the frame at the head of the queue to the wire's end. *)
LEMMA WriterPutInv ==
    ASSUME LinkInv, NEW e \in Ends, WriterPut(e)
    PROVE  LinkInv'
  <1>1. /\ wire' = [wire EXCEPT ![e] = Append(wire[e], Head(outq[e]))]
        /\ outq' = [outq EXCEPT ![e] = Tail(outq[e])]
        /\ outq[e] # <<>> /\ open
        /\ UNCHANGED <<open, senders, accepted, got>>
        /\ outq \in [Ends -> Seq(AnyFrame)] /\ wire \in [Ends -> Seq(AnyFrame)]
        /\ accepted \in [Ends -> Nat] /\ got \in [Ends -> Nat]
    BY DEF WriterPut, LinkInv, LinkTyped
  <1>2. /\ Head(outq[e]) = outq[e][1] /\ Head(outq[e]) \in AnyFrame /\ 1 \in DOMAIN outq[e]
        /\ Size(outq[e]) \in Nat \ {0} /\ Size(wire[e]) \in Nat /\ got[Peer(e)] \in Nat
    BY <1>1, LinkPeers, TailFacts, SizeNat
  <1>3. /\ wire'[e] = Append(wire[e], outq[e][1]) /\ outq'[e] = Tail(outq[e])
        /\ \A f \in Ends : f # e => wire'[f] = wire[f] /\ outq'[f] = outq[f]
    BY <1>1, <1>2
  <1>4. /\ Size(wire'[e]) = Size(wire[e]) + 1
        /\ \A k \in DOMAIN wire'[e] :
              \/ k \in DOMAIN wire[e] /\ wire'[e][k] = wire[e][k]
              \/ k = Size(wire[e]) + 1 /\ wire'[e][k] = outq[e][1]
    <2> DEFINE x == outq[e][1]
    <2>1. wire[e] \in Seq(AnyFrame) /\ x \in AnyFrame /\ wire'[e] = Append(wire[e], x)
      BY <1>1, <1>2, <1>3
    <2> HIDE DEF x
    <2>2. /\ Size(wire'[e]) = Size(wire[e]) + 1
          /\ \A k \in DOMAIN wire'[e] :
                \/ k \in DOMAIN wire[e] /\ wire'[e][k] = wire[e][k]
                \/ k = Size(wire[e]) + 1 /\ wire'[e][k] = x
      BY <2>1, AppendFacts
    <2> QED
      BY <2>2 DEF x
  <1>5. /\ Size(outq'[e]) = Size(outq[e]) - 1
        /\ \A k \in DOMAIN outq'[e] :
              k \in Nat /\ k + 1 \in DOMAIN outq[e] /\ outq'[e][k] = outq[e][k + 1]
    BY <1>1, <1>3, TailFacts
  <1>6. outq[e][1].no = got[Peer(e)] + Size(wire[e]) + 1
    BY <1>1, <1>2 DEF LinkInv, QueueFollows
  <1>7. LinkTyped'
    BY <1>1, <1>2 DEF LinkInv, LinkTyped
  <1>8. WireFollows'
    <2> SUFFICES ASSUME NEW f \in Ends, NEW k \in DOMAIN wire'[f]
                 PROVE  wire'[f][k].no = got[Peer(f)] + k
      BY <1>1 DEF WireFollows
    <2>1. CASE f # e
      BY <1>3, <2>1 DEF LinkInv, WireFollows
    <2>2. CASE f = e
      <3>1. CASE k \in DOMAIN wire[e] /\ wire'[e][k] = wire[e][k]
        BY <2>2, <3>1 DEF LinkInv, WireFollows
      <3>2. CASE k = Size(wire[e]) + 1 /\ wire'[e][k] = outq[e][1]
        BY <1>2, <1>6, <2>2, <3>2, Shift
      <3> QED
        BY <1>4, <2>2, <3>1, <3>2
    <2> QED
      BY <2>1, <2>2
  <1>9. QueueFollows'
    <2> SUFFICES ASSUME NEW f \in Ends
                 PROVE  /\ \A k \in DOMAIN outq'[f] : outq'[f][k].no = got[Peer(f)] + Size(wire'[f]) + k
                        /\ accepted[f] = got[Peer(f)] + Size(wire'[f]) + Size(outq'[f])
      BY <1>1 DEF QueueFollows
    <2>1. /\ \A k \in DOMAIN outq[f] : outq[f][k].no = got[Peer(f)] + Size(wire[f]) + k
          /\ accepted[f] = got[Peer(f)] + Size(wire[f]) + Size(outq[f])
      BY <1>1 DEF LinkInv, QueueFollows
    <2>2. CASE f # e
      BY <1>3, <2>1, <2>2
    <2>3. CASE f = e
      <3>1. ASSUME NEW k \in DOMAIN outq'[e]
            PROVE  outq'[e][k].no = got[Peer(e)] + Size(wire'[e]) + k
        <4>1. k \in Nat /\ outq'[e][k].no = got[Peer(e)] + Size(wire[e]) + (k + 1)
          BY <1>5, <2>1, <2>3
        <4>2. got[Peer(e)] + (Size(wire[e]) + 1) + k = got[Peer(e)] + Size(wire[e]) + (k + 1)
          BY <1>2, <4>1, Shift
        <4> QED
          BY <1>4, <4>1, <4>2, Zenon
      <3> QED
        BY <1>2, <1>4, <1>5, <2>1, <2>3, <3>1, Shift
    <2> QED
      BY <2>2, <2>3
  <1> QED
    BY <1>7, <1>8, <1>9 DEF LinkInv

(* The reader takes the frame at the head of its peer's wire, the one that *)
(* follows the frames it has.                                              *)
LEMMA ReadInv ==
    ASSUME LinkInv, NEW e \in Ends, Read(e)
    PROVE  LinkInv' /\ Head(wire[Peer(e)]).no = got[e] + 1 /\ \A f \in Ends : f # e => got'[f] = got[f]
  <1> DEFINE p == Peer(e)
  <1>1. p \in Ends /\ p # e /\ Peer(p) = e /\ Peer(e) = p /\ \A f \in Ends : f # p => f = e
    BY LinkPeers
  <1> HIDE DEF p
  <1>2. /\ wire' = [wire EXCEPT ![p] = Tail(wire[p])]
        /\ got' = [got EXCEPT ![e] = got[e] + 1]
        /\ wire[p] # <<>>
        /\ UNCHANGED <<outq, open, accepted>>
        /\ wire \in [Ends -> Seq(AnyFrame)] /\ outq \in [Ends -> Seq(AnyFrame)]
        /\ accepted \in [Ends -> Nat] /\ got \in [Ends -> Nat]
    BY DEF Read, LinkInv, LinkTyped, p
  <1>3. /\ Size(wire[p]) \in Nat \ {0} /\ Head(wire[p]) = wire[p][1] /\ 1 \in DOMAIN wire[p]
        /\ got[e] \in Nat /\ got[p] \in Nat
    BY <1>1, <1>2, TailFacts
  <1>4. \A k \in DOMAIN wire[p] : wire[p][k].no = got[e] + k
    BY <1>1 DEF LinkInv, WireFollows
  <1>5. Head(wire[p]).no = got[e] + 1
    BY <1>3, <1>4
  <1>6. /\ wire'[p] = Tail(wire[p]) /\ wire'[e] = wire[e]
        /\ got'[e] = got[e] + 1 /\ got'[p] = got[p]
    BY <1>1, <1>2
  <1>7. /\ Size(wire'[p]) = Size(wire[p]) - 1 /\ Tail(wire[p]) \in Seq(AnyFrame)
        /\ \A k \in DOMAIN wire'[p] :
              k \in Nat /\ k + 1 \in DOMAIN wire[p] /\ wire'[p][k] = wire[p][k + 1]
    BY <1>1, <1>2, <1>6, TailFacts
  <1>8. LinkTyped'
    <2>1. senders' \in [Ends \X Roles -> [pc : {"idle", "send", "try", "wait"}, kind : Kinds \cup {NoKind}]]
      <3>1. [pc |-> "send", kind |-> "contrl"]
              \in [pc : {"idle", "send", "try", "wait"}, kind : Kinds \cup {NoKind}]
        BY DEF Kinds
      <3>2. "reader" \in Roles
        BY DEF Roles
      <3>3. CASE senders' = senders
        BY <3>3 DEF LinkInv, LinkTyped
      <3>4. CASE senders' = [senders EXCEPT ![<<e, "reader">>] = [pc |-> "send", kind |-> "contrl"]]
        BY <3>1, <3>2, <3>4, SndTyped DEF LinkInv
      <3> QED
        BY <3>3, <3>4 DEF Read
    <2>2. wire' \in [Ends -> Seq(AnyFrame)]
      BY <1>1, <1>2, <1>7
    <2>3. got' \in [Ends -> Nat]
      BY <1>2
    <2> QED
      BY <1>2, <2>1, <2>2, <2>3 DEF LinkInv, LinkTyped
  <1>9. WireFollows'
    <2> SUFFICES ASSUME NEW f \in Ends, NEW k \in DOMAIN wire'[f]
                 PROVE  wire'[f][k].no = got'[Peer(f)] + k
      BY DEF WireFollows
    <2>1. CASE f = p
      <3>1. k \in Nat /\ wire'[p][k].no = got[e] + (k + 1)
        BY <1>4, <1>7, <2>1
      <3>2. (got[e] + 1) + k = got[e] + (k + 1)
        BY <1>3, <3>1, Shift
      <3> QED
        BY <1>1, <1>6, <2>1, <3>1, <3>2, Zenon
    <2>2. CASE f = e
      BY <1>1, <1>6, <2>2 DEF LinkInv, WireFollows, p
    <2> QED
      BY <1>1, <2>1, <2>2
  <1>10. QueueFollows'
    <2> SUFFICES ASSUME open, NEW f \in Ends
                 PROVE  /\ \A k \in DOMAIN outq[f] : outq[f][k].no = got'[Peer(f)] + Size(wire'[f]) + k
                        /\ accepted[f] = got'[Peer(f)] + Size(wire'[f]) + Size(outq[f])
      BY <1>2 DEF QueueFollows
    <2>1. /\ \A k \in DOMAIN outq[f] : outq[f][k].no = got[Peer(f)] + Size(wire[f]) + k
          /\ accepted[f] = got[Peer(f)] + Size(wire[f]) + Size(outq[f])
      BY DEF LinkInv, QueueFollows
    <2>2. got'[Peer(f)] + Size(wire'[f]) = got[Peer(f)] + Size(wire[f])
      <3>1. CASE f = p
        BY <1>1, <1>3, <1>6, <1>7, <3>1, Shift
      <3>2. CASE f = e
        BY <1>1, <1>6, <3>2
      <3> QED
        BY <1>1, <3>1, <3>2
    <2> QED
      BY <2>1, <2>2
  <1> QED
    BY <1>1, <1>2, <1>5, <1>8, <1>9, <1>10 DEF LinkInv, p

(* Every step of either end keeps the frames in order. *)
LEMMA LinkNextInv == LinkInv /\ [LinkNext]_linkVars => LinkInv' /\ \A e \in Ends : got'[e] # got[e] => Read(e)
  <1> SUFFICES ASSUME LinkInv, [LinkNext]_linkVars
               PROVE  LinkInv' /\ \A e \in Ends : got'[e] # got[e] => Read(e)
    OBVIOUS
  <1> DEFINE P == [pc : {"idle", "send", "try", "wait"}, kind : Kinds \cup {NoKind}]
  <1>0. senders \in [Ends \X Roles -> P] /\ open \in BOOLEAN
    BY DEF LinkInv, LinkTyped
  <1>1. CASE UNCHANGED linkVars
    BY <1>1 DEF linkVars, LinkInv, LinkTyped, WireFollows, QueueFollows
  <1>2. ASSUME NEW e \in Ends, Originate(e)
        PROVE  LinkInv' /\ got' = got
    <2>1. "app" \in Roles /\ [pc |-> "send", kind |-> "req"] \in P
      BY DEF Roles, Kinds
    <2>2. senders' \in [Ends \X Roles -> P]
      BY <1>2, <2>1, SndTyped DEF LinkInv, Originate
    <2> QED
      BY <1>0, <1>2, <2>2, FramesStay DEF Originate
  <1>3. ASSUME NEW e \in Ends, NEW r \in Roles, Send(e, r)
        PROVE  LinkInv' /\ got' = got
    <2>1. CASE SendCheck(e, r)
      <3>1. senders' \in [Ends \X Roles -> P]
        <4> DEFINE c == IF congested[e] \/ e \in Relays THEN "try" ELSE "wait"
        <4>1. c \in {"try", "wait"} /\ (Return(e, r) \/ senders' = [senders EXCEPT ![<<e, r>>].pc = c])
          BY <2>1 DEF SendCheck
        <4> HIDE DEF c
        <4>2. CASE Return(e, r)
          BY <4>2, SndTyped DEF LinkInv
        <4>3. CASE senders' = [senders EXCEPT ![<<e, r>>].pc = c]
          <5>1. [senders EXCEPT ![<<e, r>>].pc = c] \in [Ends \X Roles -> P]
            BY <4>1, SndTyped, Zenon DEF LinkInv
          <5> QED
            BY <4>3, <5>1, Zenon
        <4> QED
          BY <4>1, <4>2, <4>3
      <3> QED
        BY <1>0, <2>1, <3>1, FramesStay DEF SendCheck
    <2>2. CASE SendTry(e, r) \/ SendWait(e, r)
      <3>1. CASE Queued(e, r)
        BY <2>2, <3>1, QueuedInv DEF SendTry, SendWait
      <3>2. CASE Return(e, r) /\ UNCHANGED <<outq, accepted>>
        <4>1. senders' \in [Ends \X Roles -> P] /\ UNCHANGED <<outq, wire, accepted, got, open>>
          BY <2>2, <3>2, SndTyped DEF LinkInv, SendTry, SendWait
        <4> QED
          BY <1>0, <4>1, FramesStay
      <3> QED
        BY <2>2, <3>1, <3>2 DEF SendTry, SendWait
    <2>3. CASE SendTimeout(e, r)
      BY <1>0, <2>3, FramesStay, SndTyped DEF LinkInv, SendTimeout
    <2> QED
      BY <1>3, <2>1, <2>2, <2>3 DEF Send
  <1>4. ASSUME NEW e \in Ends, Writer(e)
        PROVE  LinkInv' /\ got' = got
    <2>1. CASE WriterPut(e)
      BY <2>1, WriterPutInv DEF WriterPut
    <2>2. CASE WriterCheck(e)
      BY <1>0, <2>2, FramesStay DEF WriterCheck
    <2>3. CASE WriterFails(e)
      <3>1. LinkTyped' /\ ~open'
        BY <2>3 DEF WriterFails, LinkInv, LinkTyped
      <3> QED
        BY <2>3, <3>1 DEF WriterFails, LinkInv, WireFollows, QueueFollows
    <2> QED
      BY <1>4, <2>1, <2>2, <2>3 DEF Writer
  <1>5. ASSUME NEW e \in Ends, Read(e)
        PROVE  LinkInv' /\ \A f \in Ends : got'[f] # got[f] => Read(f)
    BY <1>5, ReadInv
  <1>6. ASSUME NEW e \in Ends, ReadEnds(e) \/ Close(e)
        PROVE  LinkInv' /\ got' = got
    <2>1. /\ UNCHANGED <<outq, wire, accepted, got, senders>>
          /\ open' \in BOOLEAN /\ (open' => open)
      <3>1. CASE ReadEnds(e)
        BY <1>0, <3>1 DEF ReadEnds
      <3>2. CASE Close(e)
        BY <3>2, Zenon DEF Close
      <3> QED
        BY <1>6, <3>1, <3>2
    <2> QED
      BY <1>0, <2>1, FramesStay
  <1> QED
    BY <1>1, <1>2, <1>3, <1>4, <1>5, <1>6 DEF LinkNext, linkVars

(* Outbox.Send, writeLoop and serve: for every depth of the outboxes and   *)
(* every window of the socket, whichever end stops, fails a write or       *)
(* closes, a handler is given the frames of its peer in the order Send     *)
(* took them, none missing and none twice; the run checks this with one    *)
(* depth and one window.                                                   *)
THEOREM FramesReadInOrder == LinkSpec => NextRead
  <1>1. LinkInv /\ [LinkNext]_linkVars
          => [\A e \in Ends : got'[e] # got[e] => Head(wire[Peer(e)]).no = got[e] + 1]_linkVars
    BY LinkNextInv, ReadInv
  <1> QED
    BY <1>1, LinkInitInv, LinkNextInv, PTL DEF LinkSpec, NextRead

-----------------------------------------------------------------------------
(* The router, next to the link: its log, its backlog and what it was      *)
(* asked to send are other state than the link's.  Of RouterAssumption the *)
(* argument needs nothing.                                                 *)

(* The types the argument needs; of the queues it needs none. *)
LogTyped ==
    /\ log \in [Messages -> Statuses]
    /\ snd \in [Messages -> {"idle", "logged", "refused", "returned", "cut"}]
    /\ taken \in [Messages -> Nat]
    /\ logFaults \in Nat

(* What drain is about to write is true: it says sent of what was taken,   *)
(* and it writes nothing but sent or undeliverable.                        *)
MarkTrue ==
    mark # NoMark =>
        /\ mark.status \in {"sent", "undeliverable"}
        /\ mark.status = "sent" /\ mark.msg \in Messages => taken[mark.msg] > 0

(* A partner acknowledges what it got. *)
AckTaken == \A m \in Messages : log[m] = "acknowledged" => taken[m] > 0

(* SendKeyed returns with the message taken or written off. *)
Returned ==
    logFaults = 0 => \A m \in Messages :
        snd[m] = "returned" /\ taken[m] = 0 => log[m] = "undeliverable"

LogInv == LogTyped /\ MarkTrue /\ AckTaken /\ Returned

(* At the start nothing was sent. *)
LEMMA LogInitInv == RouterInit => LogInv
  BY DEF RouterInit, LogInv, LogTyped, Statuses, MarkTrue, AckTaken, Returned

(* A transport took a message: that is kept, and one is never untaken. *)
LEMMA TakenGrows ==
    ASSUME LogTyped, NEW x, taken' = [taken EXCEPT ![x] = @ + 1]
    PROVE  /\ taken' \in [Messages -> Nat]
           /\ \A m \in Messages : taken[m] > 0 => taken'[m] > 0
           /\ x \in Messages => taken'[x] > 0
  <1>1. CASE x \in Messages
    <2>1. taken[x] \in Nat /\ taken[x] + 1 \in Nat /\ taken[x] + 1 > 0
      BY <1>1 DEF LogTyped
    <2>2. taken' \in [Messages -> Nat] /\ taken'[x] = taken[x] + 1
      BY <1>1, <2>1 DEF LogTyped
    <2>3. \A m \in Messages : m # x => taken'[m] = taken[m]
      BY DEF LogTyped
    <2> QED
      BY <2>1, <2>2, <2>3
  <1>2. CASE x \notin Messages
    <2>1. taken' = taken
      BY <1>2 DEF LogTyped
    <2> QED
      BY <1>2, <2>1 DEF LogTyped
  <1> QED
    BY <1>1, <1>2

(* A step that leaves the log and what SendKeyed returned. *)
LEMMA LogStays ==
    ASSUME LogInv, UNCHANGED <<log, logFaults>>, taken' \in [Messages -> Nat],
           \A m \in Messages : taken[m] > 0 => taken'[m] > 0,
           snd' \in [Messages -> {"idle", "logged", "refused", "returned", "cut"}],
           \A m \in Messages : snd'[m] = "returned" => snd[m] = "returned" \/ taken'[m] > 0,
           MarkTrue'
    PROVE  LogInv'
  <1>1. LogTyped'
    BY DEF LogInv, LogTyped
  <1>2. AckTaken'
    BY DEF LogInv, AckTaken
  <1>3. Returned'
    BY DEF LogInv, LogTyped, Returned
  <1> QED
    BY <1>1, <1>2, <1>3 DEF LogInv

(* SendKeyed writes the row, before any transport was asked. *)
LEMMA CaptureInv ==
    ASSUME LogInv, NEW m \in Messages, Capture(m)
    PROVE  LogInv'
  <1>1. LogTyped'
    BY DEF LogInv, LogTyped, Capture, Statuses
  <1>2. MarkTrue' /\ AckTaken'
    BY DEF LogInv, LogTyped, MarkTrue, AckTaken, Capture
  <1>3. Returned'
    BY DEF LogInv, LogTyped, Returned, Capture
  <1> QED
    BY <1>1, <1>2, <1>3 DEF LogInv

(* A transport took the message. *)
LEMMA SendTakesInv ==
    ASSUME LogInv, NEW m \in Messages, SendTakes(m)
    PROVE  LogInv'
  <1>1. /\ taken' \in [Messages -> Nat] /\ taken'[m] > 0
        /\ \A n \in Messages : taken[n] > 0 => taken'[n] > 0
    BY TakenGrows DEF LogInv, SendTakes
  <1>2. MarkTrue'
    BY <1>1 DEF LogInv, MarkTrue, SendTakes
  <1>3. /\ snd' \in [Messages -> {"idle", "logged", "refused", "returned", "cut"}]
        /\ \A n \in Messages : snd'[n] = "returned" => snd[n] = "returned" \/ taken'[n] > 0
    BY <1>1 DEF LogInv, LogTyped, SendTakes
  <1> QED
    BY <1>1, <1>2, <1>3, LogStays DEF SendTakes

(* NoMark did, and the message is queued where it has a sender. *)
LEMMA SendRefusesInv ==
    ASSUME LogInv, NEW m \in Messages, SendRefuses(m)
    PROVE  LogInv'
  <1>1. /\ snd' \in [Messages -> {"idle", "logged", "refused", "returned", "cut"}]
        /\ \A n \in Messages : snd'[n] = "returned" => snd[n] = "returned"
    BY DEF LogInv, LogTyped, SendRefuses
  <1>2. MarkTrue' /\ taken' \in [Messages -> Nat] /\ UNCHANGED <<log, logFaults, taken>>
    BY DEF LogInv, LogTyped, MarkTrue, SendRefuses
  <1> QED
    BY <1>1, <1>2, LogStays

(* A write to the log that says undeliverable, or sent of what was taken. *)
LEMMA LogWriteInv ==
    ASSUME LogInv, NEW m, NEW st \in {"sent", "undeliverable"}, Write(m, st),
           st = "sent" /\ m \in Messages => taken[m] > 0,
           UNCHANGED taken,
           snd' \in [Messages -> {"idle", "logged", "refused", "returned", "cut"}],
           \A n \in Messages : snd'[n] = "returned" => snd[n] = "returned" \/ (n = m /\ st = "undeliverable"),
           MarkTrue'
    PROVE  LogInv'
  <1>1. LogTyped'
    BY DEF LogInv, LogTyped, Write, Statuses
  <1>2. AckTaken'
    BY DEF LogInv, LogTyped, AckTaken, Write
  <1>3. Returned'
    BY DEF LogInv, LogTyped, Returned, Write
  <1> QED
    BY <1>1, <1>2, <1>3 DEF LogInv

(* SendKeyed writes the message off and returns. *)
LEMMA UndeliverableInv ==
    ASSUME LogInv, NEW m \in Messages, Undeliverable(m)
    PROVE  LogInv'
  <1>1. /\ snd' \in [Messages -> {"idle", "logged", "refused", "returned", "cut"}]
        /\ \A n \in Messages : snd'[n] = "returned" => snd[n] = "returned" \/ n = m
    BY DEF LogInv, LogTyped, Undeliverable
  <1>2. MarkTrue' /\ Write(m, "undeliverable") /\ UNCHANGED taken
    BY DEF LogInv, MarkTrue, Undeliverable
  <1> QED
    BY <1>1, <1>2, LogWriteInv

(* drain delivers an attempt, and will mark it sent. *)
LEMMA RedeliverInv == ASSUME LogInv, Redeliver PROVE LogInv'
  <1>1. PICK a : a = Head(due)
    OBVIOUS
  <1>2. /\ taken' \in [Messages -> Nat] /\ (a.msg \in Messages => taken'[a.msg] > 0)
        /\ \A n \in Messages : taken[n] > 0 => taken'[n] > 0
    BY <1>1, TakenGrows DEF LogInv, Redeliver
  <1>3. mark' = [msg |-> a.msg, status |-> "sent"] \/ mark' = NoMark
    BY <1>1 DEF Redeliver
  <1>4. MarkTrue'
    BY <1>2, <1>3 DEF MarkTrue
  <1> QED
    BY <1>2, <1>4, LogStays DEF Redeliver, LogInv, LogTyped

(* drain could not, and queues it again or will mark it undeliverable. *)
LEMMA LogRetryInv == ASSUME LogInv, Retry PROVE LogInv'
  <1>1. MarkTrue'
    BY DEF LogInv, MarkTrue, Retry
  <1> QED
    BY <1>1, LogStays DEF Retry, LogInv, LogTyped

(* mark writes what drain found. *)
LEMMA MarkInv == ASSUME LogInv, Mark PROVE LogInv'
  <1>1. PICK m, st : m = mark.msg /\ st = mark.status
    OBVIOUS
  <1>2. st \in {"sent", "undeliverable"} /\ (st = "sent" /\ m \in Messages => taken[m] > 0)
    BY <1>1 DEF LogInv, MarkTrue, Mark
  <1>3. Write(m, st) /\ MarkTrue' /\ UNCHANGED <<taken, snd>>
    BY <1>1 DEF Mark, MarkTrue
  <1> QED
    BY <1>2, <1>3, LogWriteInv DEF LogInv, LogTyped

(* The partner acknowledges what it was sent. *)
LEMMA AcknowledgeInv ==
    ASSUME LogInv, NEW m \in Messages, Acknowledge(m)
    PROVE  LogInv'
  <1>1. LogTyped'
    BY DEF LogInv, LogTyped, Acknowledge, Statuses
  <1>2. MarkTrue' /\ AckTaken'
    BY DEF LogInv, LogTyped, MarkTrue, AckTaken, Acknowledge
  <1>3. Returned'
    BY DEF LogInv, LogTyped, Returned, Acknowledge
  <1> QED
    BY <1>1, <1>2, <1>3 DEF LogInv

(* The process ends; what SendKeyed had not returned from is cut. *)
LEMMA StopInv == ASSUME LogInv, Stop PROVE LogInv'
  <1>1. /\ snd' \in [Messages -> {"idle", "logged", "refused", "returned", "cut"}]
        /\ \A n \in Messages : snd'[n] = "returned" => snd[n] = "returned"
    BY DEF LogInv, LogTyped, Stop
  <1>2. MarkTrue' /\ taken' \in [Messages -> Nat] /\ UNCHANGED <<log, logFaults, taken>>
    BY DEF LogInv, LogTyped, MarkTrue, Stop
  <1> QED
    BY <1>1, <1>2, LogStays

(* Every step of the way out keeps the log true. *)
LEMMA LogNextInv == LogInv /\ [RouterNext]_routerVars => LogInv'
  <1> SUFFICES ASSUME LogInv, [RouterNext]_routerVars PROVE LogInv'
    OBVIOUS
  <1>1. ASSUME UNCHANGED <<log, snd, mark, taken, logFaults>> PROVE LogInv'
    BY <1>1 DEF LogInv, LogTyped, MarkTrue, AckTaken, Returned
  <1>2. CASE UNCHANGED routerVars
    BY <1>1, <1>2 DEF routerVars
  <1>3. ASSUME NEW m \in Messages, Capture(m) \/ Sending(m) \/ Acknowledge(m) PROVE LogInv'
    BY <1>3, CaptureInv, SendTakesInv, SendRefusesInv, UndeliverableInv, AcknowledgeInv DEF Sending
  <1>4. ASSUME NEW is, Drain(is) PROVE LogInv'
    BY <1>1, <1>4 DEF Drain
  <1>5. CASE Redeliver \/ Retry \/ Mark
    BY <1>5, RedeliverInv, LogRetryInv, MarkInv
  <1>6. CASE Recovering
    BY <1>1, <1>6 DEF Recovering, RecoverList, RecoverNext
  <1>7. CASE Stop
    BY <1>7, StopInv
  <1> QED
    BY <1>2, <1>3, <1>4, <1>5, <1>6, <1>7 DEF RouterNext, Draining

(* LogInv is an invariant of the router. *)
LEMMA LogInvariant == RouterSpec => []LogInv
  BY LogInitInv, LogNextInv, PTL DEF RouterSpec

(* SendKeyed and fail: what SendKeyed came back from and no transport took *)
(* is undeliverable in the log, however many attempts, restarts and        *)
(* recoveries there were.                                                  *)
THEOREM NothingDropped == RouterSpec => []NeverDropped
  <1>1. LogInv => NeverDropped
    BY DEF LogInv, Returned, NeverDropped
  <1> QED
    BY <1>1, LogInvariant, PTL

-----------------------------------------------------------------------------
(* The lease (Failover): with renewals at a third of the term (TTL polls), *)
(* of the processes that are not behind at most one is the writer, and no  *)
(* partner has sessions with two of them but for MATIP's in a long drain,  *)
(* for any number of processes, partners, failed or slow calls, crashes    *)
(* and shutdowns.                                                          *)
(*                                                                         *)
(* OneWriter is not inductive: it needs to know that the row names the     *)
(* holder and that its term has not run out.  The term shrinks with every  *)
(* missed renewal, so the invariant counts: polls left, plus renewals      *)
(* missed, plus the renewal still owed since the last tick, make a term.   *)

Owed(n) == IF polled[n] THEN 0 ELSE 1

Holding == {"granted", "hold"}

(* A process that was granted the lease and is not behind has its name on  *)
(* the row, and time left.                                                 *)
TermInv ==
    \A n \in Nodes : pc[n] \in Holding /\ ~Behind(n) =>
        /\ row.holder = n
        /\ row.left + misses[n] + Owed(n) >= TTL

(* Sessions belong to the process the lease names, until they are closed,  *)
(* unless their process is behind.  In a shutdown those of MATIP may stay. *)
Staying(n) == pc[n] = "stopping" /\ session[n] \subseteq Matip

SessionInv ==
    \A n \in Nodes : session[n] # {} =>
        /\ pc[n] \in {"hold", "lost", "stopping"}
        /\ ~Behind(n) => pc[n] # "lost" /\ (Staying(n) \/ (row.holder = n /\ row.left > 0))

LInv == TypeOK /\ TermInv /\ SessionInv

(* The initial states, with nothing held and no session, satisfy LInv. *)
LEMMA InitLInv == Init => LInv
BY FailoverAssumption DEF Init, LInv, TypeOK, TermInv, SessionInv, Owed, Holding, NoRuns, Lives, Peers

(* Every action of the specification keeps the variables in their types. *)
LEMMA TypeStep == TypeOK /\ [Next]_vars => TypeOK'
<1> SUFFICES ASSUME TypeOK, [Next]_vars PROVE TypeOK'
  OBVIOUS
<1> USE FailoverAssumption DEF TypeOK, Put, Lives
<1>1. CASE UNCHANGED vars
  BY <1>1 DEF vars, lease, wires, flows
<1>2. CASE Tick
  <2>1. row' \in [holder : Nodes \cup {None}, left : 0..TTL]
    <3>1. row.holder \in Nodes \cup {None} /\ row.left \in 0..TTL
      OBVIOUS
    <3> DEFINE l == IF row.left = 0 THEN 0 ELSE row.left - 1
    <3>2. l \in 0..TTL
      <4>1. CASE row.left = 0
        BY <4>1
      <4>2. CASE row.left # 0
        <5>1. row.left \in Nat /\ row.left >= 1 /\ row.left <= TTL /\ TTL \in Nat
          BY <3>1, <4>2
        <5> QED
          BY <4>2, <5>1
      <4> QED
        BY <4>1, <4>2
    <3>3. row' = [row EXCEPT !.left = l]
      BY <1>2 DEF Tick
    <3> HIDE DEF l
    <3> QED
      BY <3>1, <3>2, <3>3
  <2>2. left' \in [Nodes -> 0..DrainTicks]
    BY <1>2 DEF Tick
  <2>3. polled' \in [Nodes -> BOOLEAN]
    BY <1>2 DEF Tick
  <2> QED
    BY <1>2, <2>1, <2>2, <2>3 DEF Tick, wires, flows
<1>3. ASSUME NEW n \in Nodes, Poll(n) PROVE TypeOK'
  <2>1. CASE Acquire(n)
    BY <2>1 DEF Acquire, wires, flows, Free
  <2>2. CASE AcquireHeld(n)
    BY <2>2 DEF AcquireHeld, wires, flows
  <2>3. CASE AcquireFails(n) \/ AcquireWaits(n) \/ RenewFails(n)
    <3>1. Misses(n)
      BY <2>3 DEF AcquireFails, AcquireWaits, RenewFails
    <3>2. misses' \in [Nodes -> 0..MaxMisses]
      BY <3>1 DEF Misses
    <3>3. polled' \in [Nodes -> BOOLEAN]
      BY <3>1 DEF Misses
    <3> QED
      BY <3>1, <3>2, <3>3 DEF Misses, wires, flows
  <2>4. CASE Renew(n)
    BY <2>4 DEF Renew, wires, flows
  <2>5. CASE RenewLost(n)
    BY <2>5 DEF RenewLost, wires, flows
  <2> QED
    BY <1>3, <2>1, <2>2, <2>3, <2>4, <2>5 DEF Poll
<1>4. ASSUME NEW n \in Nodes, Drop(n) \/ DropFails(n) PROVE TypeOK'
  <2>1. DropLinks(n)
    BY <1>4 DEF Drop, DropFails
  <2>2. /\ runs' \in [Nodes -> [Dials -> SUBSET {"lease", "run"}]]
        /\ stale' \in [Nodes -> SUBSET Accepts]
        /\ session' \in [Nodes -> SUBSET Accepts] /\ answers' \in [Nodes -> SUBSET Accepts]
    BY <2>1 DEF DropLinks
  <2>3. UNCHANGED <<known, work>>
    BY <2>1 DEF DropLinks
  <2>4. CASE Drop(n)
    <3>1. pc' \in [Nodes -> Lives \cup {"down"}]
      BY <2>4 DEF Drop
    <3>2. misses' \in [Nodes -> 0..MaxMisses]
      BY <2>4 DEF Drop
    <3> QED
      BY <2>4, <2>2, <2>3, <3>1, <3>2 DEF Drop
  <2>5. CASE DropFails(n)
    <3>1. faults' \in 0..MaxFaults
      BY <2>5 DEF DropFails
    <3>2. pc' \in [Nodes -> Lives \cup {"down"}]
      BY <2>5 DEF DropFails
    <3>3. misses' \in [Nodes -> 0..MaxMisses]
      BY <2>5 DEF DropFails
    <3> QED
      BY <2>5, <2>2, <2>3, <3>1, <3>2, <3>3 DEF DropFails
  <2> QED
    BY <1>4, <2>4, <2>5
<1>5. ASSUME NEW n \in Nodes, NEW p \in Peers, ReloadPeers(n, p) PROVE TypeOK'
  BY <1>5 DEF ReloadPeers, lease, flows, Peers
<1>6. ASSUME NEW n \in Nodes, NEW p \in Accepts,
             Connect(n, p) \/ Request(n, p) \/ Answer(n, p) \/ WriteOut(n, p)
      PROVE TypeOK'
  <2>1. CASE Connect(n, p)
    BY <2>1 DEF Connect, lease, flows
  <2>2. CASE Request(n, p)
    BY <2>2 DEF Request, lease, wires
  <2>3. CASE Answer(n, p)
    <3>1. session' \in [Nodes -> SUBSET Accepts]
      BY <2>3 DEF Answer
    <3>2. work' \in [Nodes -> SUBSET Accepts]
      BY <2>3 DEF Answer
    <3>3. answers' \in [Nodes -> SUBSET Accepts]
      BY <2>3 DEF Answer
    <3> QED
      BY <2>3, <3>1, <3>2, <3>3 DEF Answer, lease
  <2>4. CASE WriteOut(n, p)
    BY <2>4 DEF WriteOut, lease, wires
  <2> QED
    BY <1>6, <2>1, <2>2, <2>3, <2>4
<1>7. ASSUME NEW n \in Nodes, Signal(n) \/ Start(n) \/ Crash(n) PROVE TypeOK'
  <2>1. CASE Signal(n)
    BY <2>1 DEF Signal, flows, NoRuns
  <2>2. CASE Start(n)
    BY <2>2 DEF Start, flows, Peers
  <2>3. CASE Crash(n)
    BY <2>3 DEF Crash, NoRuns
  <2> QED
    BY <1>7, <2>1, <2>2, <2>3
<1>8. ASSUME NEW n \in Nodes, CloseConns(n) \/ DrainMatip(n) PROVE TypeOK'
  <2>1. \E S \in SUBSET session[n], T \in SUBSET answers[n] :
            session' = [session EXCEPT ![n] = S] /\ answers' = [answers EXCEPT ![n] = T]
    <3>1. CASE CloseConns(n)
      <4> WITNESS session[n] \cap Matip \in SUBSET session[n], answers[n] \cap Matip \in SUBSET answers[n]
      <4> QED
        BY <3>1 DEF CloseConns
    <3>2. CASE DrainMatip(n)
      <4> WITNESS session[n] \ Matip \in SUBSET session[n], answers[n] \ Matip \in SUBSET answers[n]
      <4> QED
        BY <3>2 DEF DrainMatip
    <3> QED
      BY <1>8, <3>1, <3>2
  <2>2. session' \in [Nodes -> SUBSET Accepts] /\ answers' \in [Nodes -> SUBSET Accepts]
    BY <2>1
  <2> QED
    BY <1>8, <2>2 DEF CloseConns, DrainMatip, lease
<1>9. ASSUME NEW n \in Nodes, Drained(n) PROVE TypeOK'
  <2>1. row' \in [holder : Nodes \cup {None}, left : 0..TTL]
    <3>1. row' = row \/ row' = [holder |-> None, left |-> 0]
      BY <1>9 DEF Drained, Released
    <3> QED
      BY <3>1
  <2>2. misses' \in [Nodes -> 0..MaxMisses]
    <3>1. \/ misses' = misses
          \/ misses[n] < MaxMisses /\ misses' = [misses EXCEPT ![n] = misses[n] + 1]
      BY <1>9 DEF Drained, Released
    <3>2. misses[n] < MaxMisses => misses[n] + 1 \in 0..MaxMisses
      OBVIOUS
    <3>3. CASE misses' = misses
      BY <3>3
    <3>4. CASE misses[n] < MaxMisses /\ misses' = [misses EXCEPT ![n] = misses[n] + 1]
      BY <3>2, <3>4
    <3> QED
      BY <3>1, <3>3, <3>4
  <2> QED
    BY <1>9, <2>1, <2>2 DEF Drained
<1>10. ASSUME NEW n \in Nodes, Bind(n) PROVE TypeOK'
  BY <1>10 DEF Bind, flows
<1> QED
  BY <1>1, <1>2, <1>3, <1>4, <1>5, <1>6, <1>7, <1>8, <1>9, <1>10 DEF Next

(* While a process has the lease and is not behind, its term runs:      *)
(* the store's Renew answers yes and nobody else's Acquire succeeds.       *)
LEMMA TermRuns ==
    ASSUME LInv, NEW n \in Nodes, pc[n] \in Holding, ~Behind(n)
    PROVE  /\ row.holder = n /\ row.left > 0 /\ Mine(n)
           /\ \A m \in Nodes : Free(m) => m = n
<1>1. /\ row.left \in Nat /\ misses[n] \in 0..MaxMisses /\ Owed(n) \in 0..1
      /\ row.holder = n /\ row.left + misses[n] + Owed(n) >= TTL
      /\ misses[n] + 2 <= TTL
  BY FailoverAssumption DEF LInv, TypeOK, TermInv, Owed, Behind
<1>2. row.left > 0
  BY <1>1, FailoverAssumption
<1> QED
  BY <1>1, <1>2, FailoverAssumption DEF Mine, Free

(* Every action preserves the counting of the holder's term. *)
LEMMA TermStep ==
    ASSUME LInv, [Next]_vars PROVE TermInv'
<1> SUFFICES ASSUME NEW h \in Nodes, pc'[h] \in Holding, ~Behind(h)'
             PROVE  row'.holder = h /\ row'.left + misses'[h] + Owed(h)' >= TTL
  BY DEF TermInv, Holding
<1>t. /\ TypeOK /\ TypeOK'
      /\ misses'[h] + 2 <= TTL
      /\ pc[h] \in Holding /\ misses[h] + 2 <= TTL =>
                           /\ row.holder = h /\ row.left > 0 /\ Mine(h)
                           /\ row.left + misses[h] + Owed(h) >= TTL
                           /\ \A m \in Nodes : Free(m) => m = h
  <2>1. TypeOK /\ TypeOK'
    BY TypeStep DEF LInv
  <2>2. misses'[h] + 2 <= TTL
    BY <2>1, FailoverAssumption DEF Behind, TypeOK
  <2>3. ASSUME pc[h] \in Holding, misses[h] + 2 <= TTL
        PROVE  /\ row.holder = h /\ row.left > 0 /\ Mine(h)
               /\ row.left + misses[h] + Owed(h) >= TTL
               /\ \A m \in Nodes : Free(m) => m = h
    <3>1. ~Behind(h)
      BY <2>1, <2>3, FailoverAssumption DEF Behind, TypeOK
    <3> QED
      BY <2>3, <3>1, TermRuns DEF LInv, TermInv
  <2> QED
    BY <2>1, <2>2, <2>3
<1> USE FailoverAssumption DEF Holding
<1>0. CASE /\ pc[h] \in Holding /\ row' = row /\ misses'[h] = misses[h] /\ polled'[h] = polled[h]
  BY <1>0, <1>t DEF Owed
<1>1. CASE UNCHANGED vars
  BY <1>0, <1>1 DEF vars, lease
<1>2. CASE Tick
  <2>1. pc[h] \in Holding /\ polled[h] /\ ~polled'[h] /\ misses' = misses
    BY <1>2 DEF Tick
  <2>2. row.left \in Nat /\ row'.holder = row.holder /\ row'.left = row.left - 1
    BY <1>2, <1>t, <2>1 DEF Tick, TypeOK
  <2> QED
    BY <2>1, <2>2, <1>t DEF Owed, TypeOK
<1>3. ASSUME NEW n \in Nodes, Poll(n) PROVE row'.holder = h /\ row'.left + misses'[h] + Owed(h)' >= TTL
  <2> USE DEF Put
  <2>1. CASE Acquire(n)
    <3>1. h = n
      BY <2>1, <1>t DEF Acquire, TypeOK
    <3> QED
      BY <2>1, <3>1, <1>t DEF Acquire, TypeOK, Owed
  <2>2. CASE AcquireHeld(n)
    BY <2>2, <1>0, <1>t DEF AcquireHeld, TypeOK
  <2>3. CASE AcquireFails(n)
    BY <2>3, <1>0, <1>t DEF AcquireFails, Misses, TypeOK
  <2>4. CASE Renew(n)
    <3>1. h = n
      BY <2>4, <1>t DEF Renew, Mine, TypeOK
    <3>2. row'.holder = n /\ row'.left = TTL /\ misses'[h] = 0 /\ polled'[h]
      BY <2>4, <3>1, <1>t DEF Renew, Mine, TypeOK
    <3> QED
      BY <3>1, <3>2 DEF Owed
  <2>5. CASE RenewFails(n) \/ AcquireWaits(n)
    <3>1. CASE h = n
      <4>1. /\ pc[h] \in Holding /\ row' = row /\ misses'[h] = misses[h] + 1
            /\ ~polled[h] /\ polled'[h] /\ misses[h] \in Nat /\ row.left \in Nat
        BY <2>5, <3>1, <1>t DEF RenewFails, AcquireWaits, Misses, TypeOK
      <4>2. misses[h] + 2 <= TTL
        BY <4>1, <1>t
      <4> QED
        BY <4>1, <4>2, <1>t DEF Owed
    <3>2. CASE h # n
      BY <2>5, <3>2, <1>0, <1>t DEF RenewFails, AcquireWaits, Misses, TypeOK
    <3> QED
      BY <3>1, <3>2
  <2>6. CASE RenewLost(n)
    <3>1. h # n
      BY <2>6, <1>t DEF RenewLost, TypeOK
    <3> QED
      BY <2>6, <3>1, <1>0, <1>t DEF RenewLost, TypeOK
  <2> QED
    BY <1>3, <2>1, <2>2, <2>3, <2>4, <2>5, <2>6 DEF Poll
<1>4. ASSUME NEW n \in Nodes, Drop(n) \/ DropFails(n) \/ Signal(n) \/ Crash(n)
      PROVE  row'.holder = h /\ row'.left + misses'[h] + Owed(h)' >= TTL
  BY <1>4, <1>0, <1>t DEF Drop, DropFails, Signal, Crash, Put, TypeOK
<1>5. ASSUME NEW n \in Nodes, Start(n)
      PROVE  row'.holder = h /\ row'.left + misses'[h] + Owed(h)' >= TTL
  BY <1>5, <1>0, <1>t DEF Start, Put, TypeOK
<1>6. ASSUME NEW n \in Nodes, Drained(n)
      PROVE  row'.holder = h /\ row'.left + misses'[h] + Owed(h)' >= TTL
  <2>1. h # n /\ pc[h] \in Holding
    BY <1>6, <1>t DEF Drained, Put, TypeOK
  <2>2. CASE misses[h] + 2 <= TTL
    BY <1>6, <2>1, <2>2, <1>0, <1>t DEF Drained, Released, Put, TypeOK
  <2> QED
    BY <1>6, <2>1, <2>2, <1>t DEF Drained, Released, Put, TypeOK
<1>8. ASSUME NEW n \in Nodes, Bind(n)
      PROVE  row'.holder = h /\ row'.left + misses'[h] + Owed(h)' >= TTL
  BY <1>8, <1>0, <1>t DEF Bind, Put, TypeOK
<1>7. CASE UNCHANGED lease
  BY <1>7, <1>0 DEF lease
<1> QED
  BY <1>1, <1>2, <1>3, <1>4, <1>5, <1>6, <1>7, <1>8
     DEF Next, ReloadPeers, Connect, Request, Answer, WriteOut, CloseConns, DrainMatip

(* Every action keeps sessions with the process the lease names: a holder  *)
(* opens them, a shutdown closes them before the term can run out.         *)
LEMMA SessionStep ==
    ASSUME LInv, [Next]_vars PROVE SessionInv'
<1> SUFFICES ASSUME NEW s \in Nodes, session'[s] # {}
             PROVE  /\ pc'[s] \in {"hold", "lost", "stopping"}
                    /\ misses'[s] + 2 <= TTL =>
                            pc'[s] # "lost" /\ (Staying(s)' \/ (row'.holder = s /\ row'.left > 0))
  <2>1. TypeOK'
    BY TypeStep DEF LInv
  <2> QED
    BY <2>1, FailoverAssumption DEF SessionInv, Behind, TypeOK
<1> DEFINE Kept == /\ pc'[s] \in {"hold", "lost", "stopping"}
                   /\ misses'[s] + 2 <= TTL =>
                           pc'[s] # "lost" /\ (Staying(s)' \/ (row'.holder = s /\ row'.left > 0))
<1>y. TypeOK /\ TypeOK' /\ TermInv'
  BY TypeStep, TermStep DEF LInv
<1>n. misses[s] \in Nat /\ misses'[s] \in Nat /\ TTL \in Nat /\ row.left \in Nat
  BY <1>y, FailoverAssumption DEF TypeOK
<1>s. session[s] # {} => /\ pc[s] \in {"hold", "lost", "stopping"}
                         /\ misses[s] + 2 <= TTL =>
                                pc[s] # "lost" /\ (Staying(s) \/ (row.holder = s /\ row.left > 0))
  BY <1>n DEF LInv, SessionInv, Behind
<1>h. pc[s] = "hold" /\ misses[s] + 2 <= TTL => row.holder = s /\ row.left > 0 /\ Mine(s)
  BY <1>n, TermRuns DEF Behind, Holding
<1> USE FailoverAssumption
<1>1. CASE /\ row' = row /\ pc'[s] = pc[s] /\ session'[s] = session[s]
           /\ misses[s] <= misses'[s]
  BY <1>1, <1>n, <1>s DEF Staying
<1>2. CASE Tick
  <2>1. pc' = pc /\ session' = session /\ misses' = misses /\ pc[s] \in {"hold", "lost", "stopping"}
    BY <1>2, <1>s DEF Tick, wires
  <2>s. CASE pc[s] = "stopping"
    <3>1. session[s] \subseteq Matip
      BY <1>2, <2>s DEF Tick
    <3>2. Staying(s)'
      BY <2>1, <2>s, <3>1 DEF Staying
    <3> QED
      BY <2>1, <2>s, <3>2
  <2> SUFFICES ASSUME pc[s] # "stopping" PROVE Kept
    BY <2>s
  <2>2. pc[s] = "hold" /\ row'.holder = row.holder
    BY <1>2, <2>1, <1>y DEF Tick, TypeOK
  <2>3. misses'[s] + 2 <= TTL => row'.holder = s /\ row'.left + misses'[s] + Owed(s)' >= TTL
    BY <2>1, <2>2, <1>y, <1>n DEF TermInv, Behind, Holding
  <2>4. row'.left \in Nat /\ Owed(s)' \in 0..1
    BY <1>y DEF TypeOK, Owed
  <2> QED
    BY <2>1, <2>2, <2>3, <2>4, <1>n
<1>3. ASSUME NEW n \in Nodes, Poll(n) PROVE Kept
  <2>1. session' = session
    BY <1>3 DEF Poll, Acquire, AcquireHeld, AcquireFails, AcquireWaits, Renew, RenewFails, RenewLost, Misses, wires
  <2>2. CASE n = s
    <3>1. CASE Renew(n)
      BY <3>1, <2>2, <1>y, <1>n DEF Renew, Mine, TypeOK
    <3>2. CASE RenewFails(n)
      BY <3>2, <2>1, <2>2, <1>1, <1>n, <1>y DEF RenewFails, Misses, Put, TypeOK
    <3>3. CASE RenewLost(n)
      BY <3>3, <2>2, <1>h, <1>n, <1>y DEF RenewLost, Put, TypeOK
    <3>4. pc[n] # "standby" /\ pc[n] # "granted"
      BY <2>1, <2>2, <1>s
    <3> QED
      BY <1>3, <3>1, <3>2, <3>3, <3>4 DEF Poll, Acquire, AcquireHeld, AcquireFails, AcquireWaits
  <2>3. CASE n # s
    <3>1. pc'[s] = pc[s] /\ misses'[s] = misses[s]
      BY <1>3, <2>3, <1>y
         DEF Poll, Acquire, AcquireHeld, AcquireFails, AcquireWaits, Renew, RenewFails, RenewLost, Misses, Put, TypeOK
    <3>2. CASE Acquire(n)
      BY <3>2, <2>1, <2>3, <3>1, <1>n, <1>s DEF Acquire, Free, Staying
    <3>3. CASE Renew(n)
      BY <3>3, <2>1, <2>3, <3>1, <1>n, <1>s DEF Renew, Mine, Staying
    <3>4. CASE row' = row
      BY <3>4, <3>1, <2>1, <1>1, <1>n
    <3> QED
      BY <1>3, <3>2, <3>3, <3>4 DEF Poll, AcquireHeld, AcquireFails, AcquireWaits, RenewFails, RenewLost, Misses
  <2> QED
    BY <2>2, <2>3
<1>4. ASSUME NEW n \in Nodes, Drop(n) \/ DropFails(n) PROVE Kept
  <2>1. n # s
    BY <1>4, <1>y DEF Drop, DropFails, DropLinks, Put, TypeOK
  <2> QED
    BY <1>4, <2>1, <1>1, <1>y, <1>n DEF Drop, DropFails, DropLinks, Put, TypeOK
<1>5. ASSUME NEW n \in Nodes, NEW p \in Accepts, Connect(n, p) PROVE Kept
  <2>1. row' = row /\ pc' = pc /\ misses' = misses
    BY <1>5 DEF Connect, lease
  <2>2. CASE n = s
    BY <1>5, <2>1, <2>2, <1>h DEF Connect
  <2>3. CASE n # s
    BY <1>5, <2>1, <2>3, <1>1, <1>n, <1>y DEF Connect, Put, TypeOK
  <2> QED
    BY <2>2, <2>3
<1>6. ASSUME NEW n \in Nodes, Signal(n) PROVE Kept
  <2>1. row' = row /\ session' = session /\ misses' = misses
    BY <1>6 DEF Signal
  <2>2. CASE n = s
    BY <1>6, <2>1, <2>2, <1>s, <1>y DEF Signal, Put, TypeOK, Staying
  <2>3. CASE n # s
    BY <1>6, <2>1, <2>3, <1>1, <1>n, <1>y DEF Signal, Put, TypeOK
  <2> QED
    BY <2>2, <2>3
<1>7. ASSUME NEW n \in Nodes, CloseConns(n) \/ DrainMatip(n) PROVE Kept
  <2>1. row' = row /\ pc' = pc /\ misses' = misses /\ pc[n] = "stopping"
    BY <1>7 DEF CloseConns, DrainMatip, lease
  <2>2. CASE n = s
    <3>1. session'[s] = session[s] \cap Matip \/ session'[s] = session[s] \ Matip
      BY <1>7, <2>2, <1>y DEF CloseConns, DrainMatip, Put, TypeOK
    <3> QED
      BY <2>1, <2>2, <3>1, <1>s DEF Staying
  <2>3. CASE n # s
    BY <1>7, <2>1, <2>3, <1>1, <1>n, <1>y DEF CloseConns, DrainMatip, Put, TypeOK
  <2> QED
    BY <2>2, <2>3
<1>8. ASSUME NEW n \in Nodes, Drained(n) PROVE Kept
  <2>1. n # s
    BY <1>8, <1>y DEF Drained, Put, TypeOK
  <2>2. pc'[s] = pc[s] /\ session'[s] = session[s]
    BY <1>8, <2>1, <1>y DEF Drained, Put, TypeOK
  <2>3. misses'[s] = misses[s]
    BY <1>8, <2>1, <1>y DEF Drained, Released, Put, TypeOK
  <2>4. row.holder = s => row' = row
    BY <1>8, <2>1 DEF Drained, Released
  <2> QED
    <3>1. Staying(s) => Staying(s)'
      BY <2>2 DEF Staying
    <3> QED
      BY <2>2, <2>3, <2>4, <3>1, <1>s
<1>9. ASSUME NEW n \in Nodes, Crash(n) PROVE Kept
  <2>1. n # s
    BY <1>9, <1>y DEF Crash, Put, TypeOK
  <2> QED
    BY <1>9, <2>1, <1>1, <1>n, <1>y DEF Crash, Put, TypeOK
<1>10. ASSUME NEW n \in Nodes, Start(n) PROVE Kept
  <2>1. session' = session /\ row' = row /\ n # s
    BY <1>10, <1>s DEF Start
  <2> QED
    BY <1>10, <2>1, <1>1, <1>n, <1>y DEF Start, Put, TypeOK
<1>11. ASSUME NEW n \in Nodes, NEW p \in Peers,
              ReloadPeers(n, p) \/ Request(n, p) \/ WriteOut(n, p)
      PROVE  Kept
  BY <1>11, <1>1, <1>n DEF ReloadPeers, Request, WriteOut, lease, wires
<1>12. CASE UNCHANGED vars
  BY <1>12, <1>1, <1>n DEF vars, lease, wires
<1>13. ASSUME NEW n \in Nodes, NEW p \in Accepts, Answer(n, p) PROVE Kept
  <2>1. row' = row /\ pc' = pc /\ misses' = misses
    BY <1>13 DEF Answer, lease
  <2>2. session'[s] = session[s] \/ (pc[s] = "stopping" /\ session'[s] \subseteq session[s])
    BY <1>13, <1>y DEF Answer, EndsSession, Put, TypeOK
  <2> QED
    BY <2>1, <2>2, <1>s DEF Staying
<1>14. ASSUME NEW n \in Nodes, Bind(n) PROVE Kept
  <2>1. row' = row /\ session' = session /\ misses' = misses /\ n # s
    BY <1>14, <1>s DEF Bind
  <2> QED
    BY <1>14, <2>1, <1>1, <1>n, <1>y DEF Bind, Put, TypeOK
<1> QED
  BY <1>2, <1>3, <1>4, <1>5, <1>6, <1>7, <1>8, <1>9, <1>10, <1>11, <1>12, <1>13, <1>14 DEF Next, Peers

(* LInv is an invariant of the specification. *)
LEMMA SpecLInv == Spec => []LInv
<1>1. LInv /\ [Next]_vars => LInv'
  BY TypeStep, TermStep, SessionStep DEF LInv
<1> QED
  BY <1>1, InitLInv, PTL DEF Spec

(* The variables of the processes, their lease and their links keep their  *)
(* types: in particular the row's term never counts below zero             *)
(* (mem.go and postgres.go Acquire, Renew; node.go runLease).              *)
THEOREM TypeCorrect == Spec => []TypeOK
BY SpecLInv, PTL DEF LInv

(* The lease makes one process the writer (node.go runLease), as long as   *)
(* fewer than TTL - 1 renewals in a row fail and time is kept: of the      *)
(* processes that are not behind at most one serves the system's links.    *)
THEOREM LeaseMakesOneWriter == Spec => []OneWriter
<1>1. LInv => OneWriter
  BY DEF LInv, TermInv, OneWriter, Holding
<1> QED
  BY <1>1, SpecLInv, PTL

(* No partner has sessions with two processes that are not behind, through *)
(* crashes, hand-overs and the shutdown that drains before it releases     *)
(* (node.go Drain, releaseLease), but for a MATIP session in a drain that  *)
(* outlasts the term.                                                      *)
THEOREM PartnerOnOneProcess == Spec => []OneSession
<1>1. LInv => OneSession
  <2> SUFFICES ASSUME LInv, NEW m \in Nodes, NEW n \in Nodes, NEW p \in session[m] \cap session[n],
                      ~Behind(m), ~Behind(n), m # n
               PROVE  p \in Matip /\ (Overstays(m) \/ Overstays(n))
    BY DEF OneSession
  <2>1. /\ Staying(m) \/ row.holder = m
        /\ Staying(n) \/ row.holder = n
    BY DEF LInv, SessionInv
  <2> QED
    BY <2>1 DEF Staying, Overstays
<1> QED
  BY <1>1, SpecLInv, PTL

=============================================================================
