---------------------------- MODULE FrameMailbox ----------------------------
(***************************************************************************)
(* What the sidecar promises a session (safetee-demo sidecar.rs:3,         *)
(* "latest-frame-wins per session"): a mailbox for one frame. A frame that *)
(* comes in replaces the one that waits, a waiting frame is taken for work *)
(* once, work ends in an answer or in nothing, and the answer shown is     *)
(* never replaced by one to an earlier frame. A mailbox that was idle may  *)
(* be forgotten. Frames are numbered by their arrival, 0 is none.          *)
(***************************************************************************)
EXTENDS Integers

CONSTANT Session

VARIABLES
  arrived,   \* the number of frames of a session so far
  waiting,   \* the frame that waits
  working,   \* the frames in work
  shown      \* the frame whose answer is shown

vars == <<arrived, waiting, working, shown>>

Init ==
  /\ arrived = [s \in Session |-> 0] /\ waiting = [s \in Session |-> 0]
  /\ working = [s \in Session |-> {}] /\ shown = [s \in Session |-> 0]

Post(s) ==
  /\ arrived' = [arrived EXCEPT ![s] = @ + 1]
  /\ waiting' = [waiting EXCEPT ![s] = arrived[s] + 1]
  /\ UNCHANGED <<working, shown>>

Take(s) ==
  /\ waiting[s] # 0
  /\ waiting' = [waiting EXCEPT ![s] = 0]
  /\ working' = [working EXCEPT ![s] = @ \cup {waiting[s]}]
  /\ UNCHANGED <<arrived, shown>>

Answer(s) ==
  /\ \E f \in working[s] :
       /\ f > shown[s]
       /\ working' = [working EXCEPT ![s] = @ \ {f}]
       /\ shown' = [shown EXCEPT ![s] = f]
  /\ UNCHANGED <<arrived, waiting>>

GiveUp(s) ==
  /\ \E f \in working[s] : working' = [working EXCEPT ![s] = @ \ {f}]
  /\ UNCHANGED <<arrived, waiting, shown>>

(* Sessions are forgotten together, what is in work for them is not.        *)
Forget(Idle) ==
  /\ waiting' = [s \in Session |-> IF s \in Idle THEN 0 ELSE waiting[s]]
  /\ shown' = [s \in Session |-> IF s \in Idle THEN 0 ELSE shown[s]]
  /\ UNCHANGED <<arrived, working>>

Next ==
  \/ \E s \in Session : Post(s) \/ Take(s) \/ Answer(s) \/ GiveUp(s)
  \/ \E Idle \in SUBSET Session : Forget(Idle)

Spec == Init /\ [][Next]_vars
=============================================================================
