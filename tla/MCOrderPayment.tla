--------------------------- MODULE MCOrderPayment ---------------------------
(***************************************************************************)
(* OrderPayment for TLC.  Orders, payment slots and callback workers are   *)
(* interchangeable model values: no action and no invariant names one.     *)
(*                                                                         *)
(* Two intents, two callback workers and every fault together are too many *)
(* states.  A behaviour keeps within one of two bounds: nothing fails, or  *)
(* one intent and one callback at a time, and every fault.                 *)
(***************************************************************************)
EXTENDS OrderPayment, TLC

CONSTANT Parts  \* the bounds to explore

VARIABLE part   \* the bound the behaviour keeps within

\* No process dies and no call is lost.
Calm == INSTANCE OrderPayment WITH CallsMayBeLost <- FALSE

Symmetry ==
  {f @@ g @@ h : f \in Permutations(Orders), g \in Permutations(Slots),
                 h \in Permutations(CallbackWorkers)}

--------------------------------
OneIntent == \A o \in Orders : Cardinality({i \in IntentsOf(o) : intent'[i].status # "NONE"}) <= 1
OneCallbackAtATime == Cardinality({w \in CallbackWorkers : proc'[w].pc # "idle"}) <= 1

MCInit == part \in Parts /\ Init

CalmStep == part = "calm" /\ Calm!Next /\ UNCHANGED part
RoughStep == part = "rough" /\ Next /\ OneIntent /\ OneCallbackAtATime /\ UNCHANGED part

MCNext == CalmStep \/ RoughStep

MCSpec == MCInit /\ [][MCNext]_<<vars, part>>
=============================================================================
