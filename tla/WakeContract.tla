---------------------------- MODULE WakeContract ----------------------------
(***************************************************************************)
(* What automatic delivery promises about one member, whatever fails: a    *)
(* wake is charged before it happens, happens at most once, is refunded    *)
(* only if it never happened, and counts as settled only if it did.  Wakes *)
(* are handled strictly one after the other.                               *)
(***************************************************************************)
EXTENDS Naturals, Sequences

CONSTANT MaxActivations   \* bound: activations ever reserved

VARIABLES
    ledger,   \* the state of each activation, in the order of reservation
    woken     \* the activations whose text was handed to the model

contractVars == <<ledger, woken>>

Last == Len(ledger)
Undecided == Last > 0 /\ ledger[Last] \in {"reserved", "dispatched"}
Decide(state) == ledger' = [ledger EXCEPT ![Last] = state]

Reserve ==
    /\ ~Undecided /\ Last < MaxActivations
    /\ ledger' = Append(ledger, "reserved")
    /\ UNCHANGED woken

Charge ==
    /\ Undecided /\ ledger[Last] = "reserved"
    /\ Decide("dispatched")
    /\ UNCHANGED woken

\* The host may wake the model although the broker has meanwhile given the
\* run up for uncertain: it was charged.
Wake ==
    /\ Last > 0 /\ Last \notin woken
    /\ ledger[Last] \in {"dispatched", "uncertain"}
    /\ woken' = woken \cup {Last}
    /\ UNCHANGED ledger

Refund ==
    /\ Undecided /\ Last \notin woken
    /\ Decide("cancelled")
    /\ UNCHANGED woken

Doubt ==
    /\ Undecided
    /\ Decide("uncertain")
    /\ UNCHANGED woken

Settle ==
    /\ Last \in woken
    /\ ledger[Last] \in {"dispatched", "uncertain"}
    /\ Decide("settled")
    /\ UNCHANGED woken

ContractInit == ledger = <<>> /\ woken = {}

ContractNext == Reserve \/ Charge \/ Wake \/ Refund \/ Doubt \/ Settle

ContractSpec == ContractInit /\ [][ContractNext]_contractVars

(***************************************************************************)
(* What follows from the contract                                          *)
(***************************************************************************)
\* Whoever was woken was charged for it and not refunded (auto-cancel is called
\* only where nothing was inserted); what is settled did happen; and a member
\* has one undecided activation, its last.
Promise ==
    /\ \A a \in woken : a \in DOMAIN ledger
                       /\ ledger[a] \in {"dispatched", "uncertain", "settled"}
    /\ \A a \in DOMAIN ledger :
          /\ ledger[a] = "settled" => a \in woken
          /\ ledger[a] \in {"reserved", "dispatched"} => a = Last

\* History of one activation: what is refunded or settled stays so.
Final ==
    [][\A a \in DOMAIN ledger :
        ledger[a] \in {"cancelled", "settled"} => ledger'[a] = ledger[a]]_contractVars

=============================================================================
