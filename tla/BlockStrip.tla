----------------------------- MODULE BlockStrip ------------------------------
(***************************************************************************)
(* The strip of coloured blocks that the simulator prints under its table  *)
(* (BlockStrip of simplex-consensus/src/bin/main.rs), a ring of STRIP_LEN  *)
(* slots into which main pushes the outcome of one view after another.     *)
(***************************************************************************)
EXTENDS Integers, Sequences

CONSTANT STRIP_LEN   \* the slots of the ring

ASSUME StripAssumption == STRIP_LEN \in Nat \ {0}

VARIABLES
  slots,           \* "None" or the colour of a slot
  cursor,          \* the next slot to write
  total,           \* the views recorded
  last_notarized,  \* the slot of the last notarized block, or -1
  outcomes         \* history: the outcomes of the views, as run_view gave them

stripVars == <<slots, cursor, total, last_notarized, outcomes>>

Slot == 0..STRIP_LEN - 1

StripInit ==
  /\ slots = [i \in Slot |-> "None"]
  /\ cursor = 0 /\ total = 0 /\ last_notarized = -1
  /\ outcomes = <<>>

Advance(outcome) ==
  /\ cursor' = (cursor + 1) % STRIP_LEN
  /\ total' = total + 1
  /\ outcomes' = Append(outcomes, outcome)

PushFinalizedAlone ==   \* mutant: the block before stays yellow
  /\ slots' = [slots EXCEPT ![cursor] = "Notarized"]
  /\ last_notarized' = cursor
  /\ Advance("Finalized")
(* The block before is promoted to green; this one enters as yellow.        *)
PushFinalized ==
  /\ slots' = [i \in Slot |-> IF i = cursor THEN "Notarized"
                              ELSE IF i = last_notarized THEN "Finalized" ELSE slots[i]]
  /\ last_notarized' = cursor
  /\ Advance("Finalized")

PushNullified ==
  /\ slots' = [slots EXCEPT ![cursor] = "Nullified"]
  /\ Advance("Nullified")
  /\ UNCHANGED last_notarized

-----------------------------------------------------------------------------
(* The view that slot i shows, the last one written there.                  *)
Written(i) == \E v \in 1..total : (v - 1) % STRIP_LEN = i
ViewIn(i) == CHOOSE v \in 1..total :
               (v - 1) % STRIP_LEN = i /\ \A w \in v + 1..total : (w - 1) % STRIP_LEN # i

(* The strip does not go around without a block: the slot of the last one is not
   written again before the next promotes it.                              *)
NeverIdleAround ==
  \A v \in STRIP_LEN..total : \E w \in v - STRIP_LEN + 1..v : outcomes[w] = "Finalized"

(* main.rs:84-91: a block is yellow until the next one is notarized on top of it,
   and green from then on; a nullified view is grey. So every slot shows what
   became of the view it stands for, around the ring.                       *)
ColourOf(v) ==
  IF outcomes[v] = "Nullified" THEN "Nullified"
  ELSE IF \E w \in v + 1..total : outcomes[w] = "Finalized" THEN "Finalized"
  ELSE "Notarized"
StripTrue ==
  NeverIdleAround =>
    \A i \in Slot : slots[i] = IF Written(i) THEN ColourOf(ViewIn(i)) ELSE "None"
=============================================================================
