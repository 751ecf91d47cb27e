----------------------------- MODULE LateReplica -----------------------------
(***************************************************************************)
(* N - 1 replicas that hear each other in order, as in the simulator, and  *)
(* one whose messages arrive at any time and in any order, though each of  *)
(* them arrives, once. All are honest, and node 1 leads.                   *)
(*                                                                         *)
(* replica.rs relays a notarized block, but no dummy vote, and keeps no    *)
(* message of a view to come (replica.rs:440, :484).                       *)
(***************************************************************************)
EXTENDS Replica

CONSTANT
  Rounds    \* bound: the views the others go through

Node   == 1..N
Late   == N   \* the last node
Others == 1..N - 1
Leader == 1

VARIABLES
  replica,  \* the state of every replica
  queue,    \* the messages among the others
  inbox     \* the messages for the late replica, not yet taken, with their senders

vars == <<replica, queue, inbox>>

Init ==
  /\ replica = [r \in Node |-> NewReplica]
  /\ queue = <<>>
  /\ inbox = {}

AsMessage(out, sender) ==
  CASE out.kind = "Proposal"          -> out
    [] out.kind = "RelayNotarization" -> [out EXCEPT !.kind = "Notarization"]
    [] OTHER                          -> out @@ [signer |-> sender]

(* r handles m, with the messages rest and waiting still to come; what it sends
   goes to every peer, without the finalize votes, which change no view or tip. *)
Handle(r, m, rest, waiting) ==
  LET res   == ApplyMessage(replica[r], r, Leader, m)
      outs  == SelectSeq(res.out, LAMBDA out : out.kind # "FinalizeVote")
      To(q) == [i \in DOMAIN outs |->
                  [from |-> r, to |-> q, message |-> AsMessage(outs[i], r)]]
      sent  == FlattenSeq([q \in 1..N |-> IF q = r THEN <<>> ELSE To(q)])
  IN  /\ replica' = [replica EXCEPT ![r] = res.state]
      /\ queue' = rest \o SelectSeq(sent, LAMBDA d : d.to # Late)
      /\ inbox' = waiting \cup {d \in ToSet(sent) : d.to = Late}

(* The others begin a view together: the leader is asked, or all time out.  *)
Together == queue = <<>> /\ \A r \in Others : replica[r].view = replica[1].view

AskLeader ==
  /\ Together /\ replica[1].view <= Rounds
  /\ replica[1].voted_block = Genesis
  /\ Handle(Leader, [kind |-> "ProposeRequest", view |-> replica[1].view, payload |-> "block"],
            queue, inbox)

TimeOut ==
  /\ Together /\ replica[1].view <= Rounds
  /\ queue' = [r \in 1..N - 1 |-> [from |-> r, to |-> r, message |->
                                     [kind |-> "Timeout", view |-> replica[1].view]]]
  /\ UNCHANGED <<replica, inbox>>

Deliver ==
  /\ queue # <<>>
  /\ Handle(Head(queue).to, Head(queue).message, Tail(queue), inbox)

(* The others are done with what they have before the late one takes anything:
   they need nothing from it, and what it has not taken stays in its inbox. *)
TakeLate ==
  /\ queue = <<>>
  /\ \E d \in inbox : Handle(Late, d.message, queue, inbox \ {d})

TimeOutLate ==
  /\ queue = <<>> /\ ~replica[Late].dummy_sent
  /\ Handle(Late, [kind |-> "Timeout", view |-> replica[Late].view], queue, inbox)

Next == AskLeader \/ TimeOut \/ Deliver \/ TakeLate \/ TimeOutLate

Spec == Init /\ [][Next]_vars

-----------------------------------------------------------------------------
(* A replica in a view has accounted for the views before it as all have: with the
   others at rest, the late one has the tip they had when they entered its view. *)
SameViewSameTip ==
  Together /\ replica[Late].view = replica[1].view => replica[Late].tip = replica[1].tip
=============================================================================
