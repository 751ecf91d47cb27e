------------------------------ MODULE MCReplica ------------------------------
(***************************************************************************)
(* The replica by itself: before a caller that may hand it anything, for   *)
(* one view of four with the bounds of the configuration and for two views *)
(* of three without finalize votes, and as the late one of four. A         *)
(* behaviour is one of the setting chosen at the start.                    *)
(***************************************************************************)
EXTENDS ReplicaCaller

VARIABLES
  setting,
  group, queue, inbox   \* of LateReplica

CONSTANT Idle

mcVars == <<callerVars, setting, group, queue, inbox>>

TwoViews == INSTANCE ReplicaCaller WITH N <- 3, MaxView <- 2, MaxFinalize <- 0
(* Two views of three replicas, and the fourth behind them.                *)
Behind == INSTANCE LateReplica WITH replica <- group, Rounds <- 2

MCInit ==
  \/ setting = "one view" /\ CallerInit /\ group = Idle /\ queue = Idle /\ inbox = Idle
  \/ setting = "two views" /\ TwoViews!CallerInit /\ group = Idle /\ queue = Idle /\ inbox = Idle
  \/ /\ setting = "behind" /\ Behind!Init
     /\ state = NewReplica /\ leaders = Idle /\ sent = {} /\ returned = {}

MCNext ==
  /\ UNCHANGED setting
  /\ \/ setting = "one view" /\ CallerNext /\ UNCHANGED <<group, queue, inbox>>
     \/ setting = "two views" /\ TwoViews!CallerNext /\ UNCHANGED <<group, queue, inbox>>
     \/ setting = "behind" /\ Behind!Next /\ UNCHANGED callerVars

MCSpec == MCInit /\ [][MCNext]_mcVars

-----------------------------------------------------------------------------
(* replica.rs handle_notarization: who catches up has the others' tip.     *)
SameViewSameTip == setting = "behind" => Behind!SameViewSameTip
=============================================================================
