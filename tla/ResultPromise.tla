--------------------------- MODULE ResultPromise ---------------------------
(***************************************************************************)
(* What dispatching an agent promises about its result, without the calls, *)
(* channels and queues that carry it: "a result is delivered exactly once: *)
(* to the caller or to the next turn" (tool/agent.rs, DetachedWait).  Only *)
(* a result that is excused may be given up instead: the call that had it  *)
(* was cancelled, or the process leaves.                                   *)
(***************************************************************************)
EXTENDS Naturals

CONSTANT Parcels   \* results: one per agent, one per chain

VARIABLES
  made,       \* SUBSET Parcels        produced
  deliveries, \* [Parcels -> {0, 1}]   how often the model was given it
  abandoned,  \* SUBSET Parcels        given up
  excused     \* SUBSET Parcels        may be given up

vars == <<made, deliveries, abandoned, excused>>

Init ==
  /\ made = {}
  /\ deliveries = [x \in Parcels |-> 0]
  /\ abandoned = {}
  /\ excused = {}

Make ==
  /\ made' \in SUBSET Parcels /\ made \subseteq made'
  /\ UNCHANGED <<deliveries, abandoned, excused>>

Excuse ==
  /\ excused' \in SUBSET Parcels /\ excused \subseteq excused'
  /\ UNCHANGED <<made, deliveries, abandoned>>

\* One or several results reach the model, each for the first time.
Deliver ==
  /\ deliveries' \in [Parcels -> {0, 1}]
  /\ \A x \in Parcels : deliveries'[x] # deliveries[x] =>
       deliveries[x] = 0 /\ x \in made \ abandoned
  /\ UNCHANGED <<made, abandoned, excused>>

GiveUp ==
  /\ abandoned' \in SUBSET Parcels /\ abandoned \subseteq abandoned'
  /\ \A x \in abandoned' \ abandoned : x \in made \cap excused /\ deliveries[x] = 0
  /\ UNCHANGED <<made, deliveries, excused>>

Next == Make \/ Excuse \/ Deliver \/ GiveUp

Settled(x) == deliveries[x] = 1 \/ x \in abandoned

\* What is produced is settled some day.
EverythingSettles == \A x \in Parcels : x \in made ~> Settled(x)

Safe == Init /\ [][Next]_vars
Spec == Safe /\ EverythingSettles
=============================================================================
