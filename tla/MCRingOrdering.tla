-------------------------- MODULE MCRingOrdering --------------------------
(***************************************************************************)
(* RingOrdering for TLC.  A behaviour has one cast: the threads that       *)
(* attach, put and take.  An observer outside the cast only drops its      *)
(* handle at some time, as one does that the benchmark's work has ended    *)
(* for.                                                                    *)
(***************************************************************************)
EXTENDS RingOrdering

CONSTANT Casts   \* sets of threads

VARIABLE cast

MCInit == Init /\ cast \in Casts

MCNext ==
  /\ UNCHANGED cast
  /\ \/ \E p \in Producers \cap cast : AttachProducer(p) \/ Put(p) \/ Drop(p)
     \/ \E c \in Consumers \cap cast : AttachConsumer(c) \/ Drop(c)
     \/ \E r \in Takers \cap cast : Take(r)
     \/ \E o \in Observers : DropObserver(o)

MCSpec == MCInit /\ [][MCNext]_<<vars, cast>>
=============================================================================
