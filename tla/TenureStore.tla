---------------------------- MODULE TenureStore ----------------------------
(***************************************************************************)
(* What the confirmed-tenure download path promises the node that calls    *)
(* NakamotoDownloadStateMachine::run: the tenures it hands to the relayer  *)
(* (the map that run returns, tenure consensus hash -> blocks) each arrive *)
(* once, as the chain has them, and every tenure the inventories make      *)
(* available eventually arrives.  The relayer processes a tenure once it   *)
(* has arrived and its parent tenure is processed.                         *)
(*                                                                         *)
(* `got[t]` is the sequence of deliveries of tenure t so far: a correct    *)
(* implementation only ever makes it <<>> or <<Content(t)>>.              *)
(***************************************************************************)
EXTENDS Naturals, Sequences

CONSTANTS
    NumTenures,     \* tenures 1..NumTenures; tenure 0 is processed at start
    Content(_),     \* the blocks of a tenure as the chain has them
    Deliverable     \* tenures the download path is able to fetch

VARIABLES got, processed

avars == <<got, processed>>

Init ==
    /\ got = [t \in 1..NumTenures |-> <<>>]
    /\ processed = {0}

\* One pass of the download path hands over a set T of tenures that have
\* not arrived before.
Deliver(T) ==
    /\ T # {}
    /\ \A t \in T : got[t] = <<>>
    /\ got' = [t \in 1..NumTenures |-> IF t \in T THEN <<Content(t)>> ELSE got[t]]
    /\ UNCHANGED processed

\* The relayer appends tenure t to the chain state.
Process(t) ==
    /\ t \notin processed /\ t - 1 \in processed
    /\ got[t] # <<>>
    /\ processed' = processed \cup {t}
    /\ UNCHANGED got

Next ==
    \/ \E T \in SUBSET (1..NumTenures) : Deliver(T)
    \/ \E t \in 1..NumTenures : Process(t)

\* A deliverable tenure that has not arrived stays deliverable, so weak
\* fairness of its arrival is the promise that it arrives.
DeliveryFair ==
    \A t \in Deliverable : WF_avars(\E T \in SUBSET (1..NumTenures) : t \in T /\ Deliver(T))

SafeSpec == Init /\ [][Next]_avars

Spec == SafeSpec /\ DeliveryFair

=============================================================================
