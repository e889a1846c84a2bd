------------------------- MODULE WakeContractProofs -------------------------
(***************************************************************************)
(* What the contract of automatic delivery implies, for any number of      *)
(* activations.                                                            *)
(***************************************************************************)
EXTENDS WakeContract, TLAPS

States == {"reserved", "dispatched", "cancelled", "uncertain", "settled"}

ContractTypeOK == ledger \in Seq(States) /\ woken \subseteq Nat

CInv == ContractTypeOK /\ Promise

\* Deciding the last activation changes its state and nothing else.
LEMMA DecideLast ==
    ASSUME ledger \in Seq(States), Last > 0, NEW state \in States, Decide(state)
    PROVE  /\ ledger' \in Seq(States) /\ Len(ledger') = Len(ledger)
           /\ DOMAIN ledger' = DOMAIN ledger
           /\ ledger'[Last] = state
           /\ \A a \in DOMAIN ledger : a # Last => ledger'[a] = ledger[a]
  <1>1. DOMAIN ledger = 1..Len(ledger) /\ Last \in DOMAIN ledger
    BY DEF Last
  <1>2. ledger' = [ledger EXCEPT ![Last] = state]
    BY DEF Decide
  <1> QED BY <1>1, <1>2

\* CInv is inductive.
LEMMA ContractStep == CInv /\ [ContractNext]_contractVars => CInv'
  <1> SUFFICES ASSUME CInv, [ContractNext]_contractVars PROVE CInv'
    OBVIOUS
  <1> USE DEF CInv, ContractTypeOK, Promise
  <1>0. DOMAIN ledger = 1..Len(ledger) /\ Len(ledger) \in Nat
    OBVIOUS
  <1>1. CASE Reserve
    <2>1. /\ ledger' = Append(ledger, "reserved") /\ woken' = woken
          /\ ledger' \in Seq(States) /\ Len(ledger') = Len(ledger) + 1
          /\ DOMAIN ledger' = 1..(Len(ledger) + 1)
          /\ \A a \in 1..Len(ledger) : ledger'[a] = ledger[a]
          /\ ledger'[Len(ledger) + 1] = "reserved"
      BY <1>1, <1>0 DEF Reserve, States
    <2>2. \A a \in 1..Len(ledger) : ledger[a] \notin {"reserved", "dispatched"}
      BY <1>1, <1>0 DEF Reserve, Undecided, Last
    <2> QED BY <2>1, <2>2, <1>0 DEF Last
  <1>2. CASE Charge
    <2>1. Last > 0 /\ Decide("dispatched") /\ woken' = woken /\ ledger[Last] = "reserved"
      BY <1>2 DEF Charge, Undecided
    <2>2. Last \notin woken
      BY <2>1
    <2> QED BY <2>1, <2>2, <1>0, DecideLast DEF Last, States
  <1>3. CASE Wake
    <2>1. /\ ledger' = ledger /\ woken' = woken \cup {Last}
          /\ Last \in DOMAIN ledger /\ Last \in Nat /\ Last' = Last
          /\ ledger[Last] \in {"dispatched", "uncertain"}
      BY <1>3, <1>0 DEF Wake, Last
    <2>2. \A a \in woken' : a \in DOMAIN ledger
                            /\ ledger[a] \in {"dispatched", "uncertain", "settled"}
      BY <2>1
    <2> QED BY <2>1, <2>2
  <1>4. CASE Refund
    <2>1. Last > 0 /\ Decide("cancelled") /\ woken' = woken /\ Last \notin woken
      BY <1>4 DEF Refund, Undecided
    <2> QED BY <2>1, <1>0, DecideLast DEF Last, States
  <1>5. CASE Doubt
    <2>1. Last > 0 /\ Decide("uncertain") /\ woken' = woken
      BY <1>5 DEF Doubt, Undecided
    <2> QED BY <2>1, <1>0, DecideLast DEF Last, States
  <1>6. CASE Settle
    <2>1. Last > 0 /\ Decide("settled") /\ woken' = woken /\ Last \in woken
      BY <1>6, <1>0 DEF Settle, Last
    <2> QED BY <2>1, <1>0, DecideLast DEF Last, States
  <1>7. CASE UNCHANGED contractVars
    BY <1>7 DEF contractVars, Last
  <1> QED BY <1>1, <1>2, <1>3, <1>4, <1>5, <1>6, <1>7 DEF ContractNext

\* Whoever keeps the contract keeps its promise: a wake is charged and never
\* refunded, what is settled happened, and one activation is undecided at a time
\* (auto-reserve, auto-cancel and auto-finish of the ledger, used by the host).
THEOREM PromiseKept == ContractSpec => []Promise
  <1>1. ContractInit => CInv
    BY DEF ContractInit, CInv, ContractTypeOK, Promise
  <1>2. CInv => Promise
    BY DEF CInv
  <1> QED BY <1>1, <1>2, ContractStep, PTL DEF ContractSpec

\* An activation refunded or settled is never charged, woken or doubted again:
\* a late report or a retry of the call cannot reopen it.
THEOREM DecidedForGood == ContractSpec => Final
  <1>1. ContractInit => CInv
    BY DEF ContractInit, CInv, ContractTypeOK, Promise
  <1>2. CInv /\ [ContractNext]_contractVars =>
          [\A a \in DOMAIN ledger :
             ledger[a] \in {"cancelled", "settled"} => ledger'[a] = ledger[a]]_contractVars
    <2> SUFFICES ASSUME CInv, ContractNext, NEW a \in DOMAIN ledger,
                        ledger[a] \in {"cancelled", "settled"}
                 PROVE  ledger'[a] = ledger[a]
      OBVIOUS
    <2>1. ledger \in Seq(States) /\ DOMAIN ledger = 1..Len(ledger)
      BY DEF CInv, ContractTypeOK
    <2>2. CASE Reserve
      BY <2>1, <2>2 DEF Reserve, States
    <2>3. CASE Wake
      BY <2>3 DEF Wake
    <2>4. CASE Charge \/ Refund \/ Doubt \/ Settle
      <3>1. PICK state \in States : Decide(state)
        BY <2>4 DEF Charge, Refund, Doubt, Settle, States
      <3>2. Last > 0 /\ ledger[Last] \notin {"cancelled", "settled"}
        BY <2>1, <2>4 DEF Charge, Refund, Doubt, Settle, Undecided, CInv, Promise, Last
      <3> QED BY <2>1, <3>1, <3>2, DecideLast
    <2> QED BY <2>2, <2>3, <2>4 DEF ContractNext
  <1> QED BY <1>1, <1>2, ContractStep, PTL DEF ContractSpec, Final

=============================================================================
