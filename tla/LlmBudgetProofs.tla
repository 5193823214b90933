--------------------------- MODULE LlmBudgetProofs ---------------------------
(* What the usage ledger guarantees for every set of callers, keys, policies,
   limits, prices and provider reports. *)
EXTENDS LlmBudget, TallyProofs, TLAPS

(* A caller between lookup and settlement has a key. *)
CallHasKey == \A c \in Callers : pc[c] # "idle" => key[c] \in Keys

(* The record of a call in flight exists, is its own, and was not sent before
   the egress policy allowed it. *)
OwnerInv ==
    /\ \A c \in Callers : pc[c] \in InFlight => record[key[c]] # "none"
    /\ \A c, d \in Callers :
          pc[c] \in InFlight /\ pc[d] \in InFlight /\ key[c] = key[d] => c = d
    /\ \A c \in Callers : pc[c] = "policy" => sent[key[c]] = 0
    /\ \A k \in Keys : record[k] = "none" => sent[k] = 0
    /\ CalledOnce

(* When operators leave running calls alone, the cached status is the real one. *)
CacheInv == \A c \in Callers : pc[c] \in InFlight => record[key[c]] = "HELD"

TypeInv == BudgetTypeOK /\ CallHasKey

-----------------------------------------------------------------------------
(* Products of natural numbers are natural numbers. *)
LEMMA ProductType ==
    ASSUME NEW a \in Nat, NEW b \in Nat
    PROVE  a * b \in Nat
OBVIOUS

(* _cost is a natural number. *)
LEMMA CostType ==
    ASSUME NEW t \in Nat \X Nat, NEW p \in Nat \X Nat
    PROVE  Cost(t, p) \in Nat
<1>1. PriceUnit \in Nat /\ PriceUnit > 0
  BY BudgetAssumption
<1>2. t[1] * p[1] \in Nat /\ t[2] * p[2] \in Nat
  BY ProductType
<1> DEFINE n == t[1] * p[1] + t[2] * p[2] + PriceUnit - 1
<1>3. n \in Nat
  BY <1>1, <1>2
<1> HIDE DEF n
<1>4. n \div PriceUnit \in Nat
  BY <1>1, <1>3
<1> QED
  BY <1>4 DEF Cost, n

(* Amounts are natural numbers in both metrics. *)
LEMMA AmountsType ==
    ASSUME NEW t \in Nat \X Nat, NEW p \in Nat \X Nat
    PROVE  Amounts(t, p) \in [Metrics -> Nat]
BY CostType DEF Amounts

(* Returning the hold of a record and charging it keeps the counters natural. *)
LEMMA SettleHoldsType ==
    ASSUME BudgetTypeOK, NEW k \in Keys, NEW charge \in [Metrics -> Nat],
           SettleHolds(k, charge)
    PROVE  /\ used' \in [Windows -> [Metrics -> Nat]]
           /\ reserved' \in [Windows -> [Metrics -> Nat]]
<1>1. HeldBy(k) \in [Metrics -> Nat]
  BY AmountsType, BudgetAssumption DEF HeldBy, BudgetTypeOK
<1>2. \A w \in Windows, m \in Metrics :
         used[w][m] \in Nat /\ reserved[w][m] \in Nat
  BY DEF BudgetTypeOK
<1>3. \A w \in Windows, m \in Metrics : Positive(reserved[w][m] - HeldBy(k)[m]) \in Nat
  BY <1>1, <1>2 DEF Positive
<1> QED
  BY <1>2, <1>3 DEF SettleHolds

(* release, settle and mark_indeterminate keep the rows well formed. *)
LEMMA CloseType ==
    ASSUME BudgetTypeOK, NEW k \in Keys,
           \/ Release(k)
           \/ MarkIndeterminate(k)
           \/ \E t \in Nat \X Nat : Settle(k, t)
    PROVE  /\ used' \in [Windows -> [Metrics -> Nat]]
           /\ reserved' \in [Windows -> [Metrics -> Nat]]
           /\ record' \in [Keys -> UsageStatus \cup {"none"}]
           /\ snapshot' \in [Keys -> Nat \X Nat]
           /\ holds' \in [Keys -> SUBSET Windows]
           /\ actual' \in [Keys -> Nat \X Nat]
<1>1. CASE Release(k)
  <2>1. Zero \in [Metrics -> Nat]
    BY DEF Zero
  <2> QED
    BY <1>1, <2>1, SettleHoldsType DEF Release, BudgetTypeOK, UsageStatus
<1>2. CASE MarkIndeterminate(k)
  BY <1>2 DEF MarkIndeterminate, BudgetTypeOK, UsageStatus, counterVars
<1>3. CASE \E t \in Nat \X Nat : Settle(k, t)
  <2>1. PICK t \in Nat \X Nat : Settle(k, t)
    BY <1>3
  <2>2. Amounts(t, snapshot[k]) \in [Metrics -> Nat]
    BY AmountsType DEF BudgetTypeOK
  <2> QED
    BY <2>1, <2>2, SettleHoldsType DEF Settle, BudgetTypeOK, UsageStatus
<1> QED
  BY <1>1, <1>2, <1>3

(* A call that returns leaves its caller's memory well formed. *)
LEMMA DoneType ==
    ASSUME TypeInv, NEW c \in Callers, Done(c)
    PROVE  /\ pc' \in [Callers -> InFlight \cup {"idle", "admit"}]
           /\ key' \in [Callers -> Keys \cup {NoKey}]
           /\ quote' \in [Callers -> Nat \X Nat]
           /\ report' \in [Callers -> Outcomes]
           /\ CallHasKey'
<1>1. report' \in [Callers -> Outcomes]
  <2>1. Unknown \in Outcomes
    BY DEF Outcomes
  <2> QED
    BY <2>1 DEF TypeInv, BudgetTypeOK, Done
<1>2. pc' \in [Callers -> InFlight \cup {"idle", "admit"}]
  BY DEF TypeInv, BudgetTypeOK, Done
<1>3. key' \in [Callers -> Keys \cup {NoKey}]
  BY DEF TypeInv, BudgetTypeOK, Done
<1>4. quote' \in [Callers -> Nat \X Nat]
  BY DEF TypeInv, BudgetTypeOK, Done
<1>5. CallHasKey'
  BY DEF TypeInv, BudgetTypeOK, CallHasKey, Done
<1> QED
  BY <1>1, <1>2, <1>3, <1>4, <1>5

(* A call that goes on leaves its caller's memory well formed. *)
LEMMA GotoType ==
    ASSUME TypeInv, NEW c \in Callers, NEW s \in InFlight, pc[c] # "idle", Goto(c, s)
    PROVE  /\ pc' \in [Callers -> InFlight \cup {"idle", "admit"}]
           /\ key' \in [Callers -> Keys \cup {NoKey}]
           /\ quote' \in [Callers -> Nat \X Nat]
           /\ report' \in [Callers -> Outcomes]
           /\ CallHasKey'
<1>1. pc' \in [Callers -> InFlight \cup {"idle", "admit"}]
  BY DEF TypeInv, BudgetTypeOK, Goto
<1>2. CallHasKey'
  BY DEF TypeInv, BudgetTypeOK, CallHasKey, Goto
<1> QED
  BY <1>1, <1>2 DEF TypeInv, BudgetTypeOK, Goto

(* Every step keeps the rows and the callers' memory well formed. *)
LEMMA TypeInductive == TypeInv /\ [BudgetNext]_budgetVars => TypeInv'
<1> SUFFICES ASSUME TypeInv, [BudgetNext]_budgetVars PROVE TypeInv'
  OBVIOUS
<1> USE DEF policyVars, recordVars, counterVars, callerVars
<1>1. CASE \E c \in Callers, k \in Keys : Lookup(c, k)
  <2>1. PICK c \in Callers, k \in Keys : Lookup(c, k)
    BY <1>1
  <2>2. pc' \in [Callers -> InFlight \cup {"idle", "admit"}]
    BY <2>1 DEF Lookup, TypeInv, BudgetTypeOK
  <2>3. key' \in [Callers -> Keys \cup {NoKey}]
    BY <2>1 DEF Lookup, TypeInv, BudgetTypeOK
  <2>4. quote' \in [Callers -> Nat \X Nat]
    <3>1. price \in Nat \X Nat
      BY <2>1, BudgetAssumption DEF Lookup, TypeInv, BudgetTypeOK
    <3> QED
      BY <2>1, <3>1 DEF Lookup, TypeInv, BudgetTypeOK
  <2>5. CallHasKey'
    BY <2>1 DEF Lookup, TypeInv, BudgetTypeOK, CallHasKey
  <2> QED
    BY <2>1, <2>2, <2>3, <2>4, <2>5 DEF Lookup, TypeInv, BudgetTypeOK
<1>2. CASE \E c \in Callers : Admit(c)
  <2>1. PICK c \in Callers : Admit(c)
    BY <1>2
  <2>2. key[c] \in Keys /\ quote[c] \in Nat \X Nat
    BY <2>1 DEF Admit, TypeInv, CallHasKey, BudgetTypeOK
  <2>3. CASE Done(c) /\ UNCHANGED <<record, snapshot, holds, reserved>>
    BY <2>1, <2>3, DoneType DEF Admit, TypeInv, BudgetTypeOK
  <2>4. CASE ~(Done(c) /\ UNCHANGED <<record, snapshot, holds, reserved>>)
    <3> DEFINE k == key[c]
               amount == Amounts(Requested[k], quote[c])
               metered == MeteredWindows(k)
    <3>1. /\ pc[c] = "admit"
          /\ record' = [record EXCEPT ![k] = "HELD"]
          /\ snapshot' = [snapshot EXCEPT ![k] = quote[c]]
          /\ holds' = [holds EXCEPT ![k] = metered]
          /\ reserved' = [w \in Windows |-> [m \in Metrics |->
                reserved[w][m] + (IF w \in metered THEN amount[m] ELSE 0)]]
          /\ Goto(c, "policy")
          /\ UNCHANGED <<policyVars, day, actual, used, sent, edits, faults>>
      BY <2>1, <2>4 DEF Admit
    <3>2. amount \in [Metrics -> Nat]
      BY <2>2, AmountsType, BudgetAssumption
    <3>3. metered \in SUBSET Windows
      BY DEF MeteredWindows
    <3> HIDE DEF k, amount, metered
    <3>4. reserved' \in [Windows -> [Metrics -> Nat]]
      BY <3>1, <3>2 DEF TypeInv, BudgetTypeOK
    <3>5. k \in Keys
      BY <2>2 DEF k
    <3>6. /\ record' \in [Keys -> UsageStatus \cup {"none"}]
          /\ snapshot' \in [Keys -> Nat \X Nat]
          /\ holds' \in [Keys -> SUBSET Windows]
      BY <3>1, <3>3, <3>5, <2>2 DEF TypeInv, BudgetTypeOK, UsageStatus
    <3>7. "policy" \in InFlight /\ pc[c] # "idle"
      BY <3>1 DEF InFlight
    <3> QED
      BY <3>1, <3>4, <3>6, <3>7, GotoType DEF TypeInv, BudgetTypeOK
  <2> QED
    BY <2>3, <2>4
<1>3. CASE \E c \in Callers : DenyEgress(c)
  <2>1. PICK c \in Callers : DenyEgress(c)
    BY <1>3
  <2>2. key[c] \in Keys
    BY <2>1 DEF DenyEgress, TypeInv, CallHasKey
  <2>3. Release(key[c]) /\ Done(c)
    BY <2>1 DEF DenyEgress
  <2> QED
    BY <2>1, <2>2, <2>3, CloseType, DoneType DEF DenyEgress, TypeInv, BudgetTypeOK
<1>4. CASE \E c \in Callers : AllowEgress(c)
  <2>1. PICK c \in Callers : AllowEgress(c)
    BY <1>4
  <2>2. key[c] \in Keys /\ sent' \in [Keys -> Nat]
    BY <2>1 DEF AllowEgress, TypeInv, CallHasKey, BudgetTypeOK
  <2>3. "provider" \in InFlight /\ pc[c] # "idle" /\ Goto(c, "provider")
    BY <2>1 DEF AllowEgress, InFlight
  <2> QED
    BY <2>1, <2>2, <2>3, GotoType DEF AllowEgress, TypeInv, BudgetTypeOK
<1>5. CASE \E c \in Callers, o \in Outcomes : ProviderReturns(c, o)
  <2>1. PICK c \in Callers, o \in Outcomes : ProviderReturns(c, o)
    BY <1>5
  <2>2. pc' \in [Callers -> InFlight \cup {"idle", "admit"}]
    BY <2>1 DEF ProviderReturns, TypeInv, BudgetTypeOK, InFlight
  <2>3. report' \in [Callers -> Outcomes]
    BY <2>1 DEF ProviderReturns, TypeInv, BudgetTypeOK
  <2>4. CallHasKey'
    BY <2>1 DEF ProviderReturns, TypeInv, CallHasKey, BudgetTypeOK
  <2> QED
    BY <2>1, <2>2, <2>3, <2>4 DEF ProviderReturns, TypeInv, BudgetTypeOK
<1>6. CASE \E c \in Callers : CloseUsage(c)
  <2>1. PICK c \in Callers : CloseUsage(c)
    BY <1>6
  <2>2. key[c] \in Keys
    BY <2>1 DEF CloseUsage, TypeInv, CallHasKey
  <2>3. report[c] \in Outcomes
    BY DEF TypeInv, BudgetTypeOK
  <2>4. \/ report[c].metering \in {"NOT_STARTED", "UNKNOWN"}
        \/ report[c].metering = "KNOWN" /\ report[c].tokens \in Nat \X Nat
    BY <2>3, BudgetAssumption DEF Outcomes, Outcome, Unknown
  <2>5. \/ Release(key[c])
        \/ MarkIndeterminate(key[c])
        \/ \E t \in Nat \X Nat : Settle(key[c], t)
    BY <2>1, <2>4 DEF CloseUsage
  <2> QED
    BY <2>1, <2>2, <2>5, CloseType, DoneType DEF CloseUsage, TypeInv, BudgetTypeOK
<1>7. CASE \E c \in Callers : Crash(c)
  <2>1. PICK c \in Callers : Crash(c)
    BY <1>7
  <2>2. faults' \in 0..MaxFaults
    BY <2>1, BudgetAssumption DEF Crash, TypeInv, BudgetTypeOK
  <2> QED
    BY <2>1, <2>2, DoneType DEF Crash, TypeInv, BudgetTypeOK
<1>8. CASE \E p \in Policies, l \in LimitChoices, e \in BOOLEAN : SetPolicy(p, l, e)
  <2>1. PICK p \in Policies, l \in LimitChoices, e \in BOOLEAN : SetPolicy(p, l, e)
    BY <1>8
  <2>2. edits' \in 0..MaxEdits
    BY <2>1, BudgetAssumption DEF SetPolicy, TypeInv, BudgetTypeOK
  <2>3. limits' \in [Policies -> Limits] /\ enabled' \in SUBSET Policies
    BY <2>1, BudgetAssumption DEF SetPolicy, TypeInv, BudgetTypeOK
  <2> QED
    BY <2>1, <2>2, <2>3 DEF SetPolicy, TypeInv, BudgetTypeOK, CallHasKey
<1>9. CASE \E p \in Prices : SetPrice(p)
  <2>1. PICK p \in Prices : SetPrice(p)
    BY <1>9
  <2>2. edits' \in 0..MaxEdits
    BY <2>1, BudgetAssumption DEF SetPrice, TypeInv, BudgetTypeOK
  <2> QED
    BY <2>1, <2>2 DEF SetPrice, TypeInv, BudgetTypeOK, CallHasKey
<1>10. CASE \E k \in Keys : ReconcileUsage(k)
  <2>1. PICK k \in Keys : ReconcileUsage(k)
    BY <1>10
  <2> QED
    BY <2>1, CloseType DEF ReconcileUsage, TypeInv, BudgetTypeOK, CallHasKey
<1>11. CASE NextDay
  <2>1. day' \in Days
    BY <1>11, BudgetAssumption DEF NextDay, TypeInv, BudgetTypeOK, Days
  <2> QED
    BY <1>11, <2>1 DEF NextDay, TypeInv, BudgetTypeOK, CallHasKey
<1>12. CASE UNCHANGED budgetVars
  BY <1>12 DEF budgetVars, TypeInv, BudgetTypeOK, CallHasKey
<1> QED
  BY <1>1, <1>2, <1>3, <1>4, <1>5, <1>6, <1>7, <1>8, <1>9, <1>10, <1>11, <1>12
     DEF BudgetNext, Execute, Administer

(* The initial rows are well formed. *)
LEMMA TypeInitial == BudgetInit => TypeInv
<1> SUFFICES ASSUME BudgetInit PROVE TypeInv
  OBVIOUS
<1>1. Unknown \in Outcomes
  BY DEF Outcomes
<1>2. /\ used \in [Windows -> [Metrics -> Nat]]
      /\ reserved \in [Windows -> [Metrics -> Nat]]
  BY DEF BudgetInit, Zero
<1>3. limits \in [Policies -> Limits]
  BY BudgetAssumption DEF BudgetInit
<1> QED
  BY <1>1, <1>2, <1>3, BudgetAssumption
     DEF BudgetInit, TypeInv, BudgetTypeOK, CallHasKey, Days, UsageStatus

(* Usage records, budget counters and the memory of every caller stay well
   formed; a reservation or a settlement never makes a counter negative. *)
THEOREM BudgetTypeCorrect == BudgetSpec => []BudgetTypeOK
<1>1. TypeInv => BudgetTypeOK
  BY DEF TypeInv
<1> QED
  BY <1>1, TypeInitial, TypeInductive, PTL DEF BudgetSpec

-----------------------------------------------------------------------------
(* A call in flight has a key. *)
LEMMA CallHasKeyInFlight ==
    ASSUME TypeInv
    PROVE  \A c \in Callers : pc[c] \in InFlight => key[c] \in Keys
BY DEF TypeInv, CallHasKey, InFlight

(* Only Admit creates a record: a step of a caller that holds one, and the
   operator, move it between the states of an existing record. *)
LEMMA CloseMovesOne ==
    ASSUME TypeInv, NEW k \in Keys,
           \/ Release(k)
           \/ MarkIndeterminate(k)
           \/ \E t \in Nat \X Nat : Settle(k, t)
    PROVE  /\ record'[k] \in UsageStatus \ {"HELD"}
           /\ \A j \in Keys \ {k} : record'[j] = record[j]
BY DEF Release, MarkIndeterminate, Settle, TypeInv, BudgetTypeOK, UsageStatus

(* What a settlement transaction does to the record of its caller. *)
LEMMA CloseUsageCloses ==
    ASSUME TypeInv, NEW c \in Callers, CloseUsage(c)
    PROVE  /\ key[c] \in Keys
           /\ record'[key[c]] \in UsageStatus \ {"HELD"}
           /\ \A j \in Keys \ {key[c]} : record'[j] = record[j]
<1>1. key[c] \in Keys
  BY DEF CloseUsage, TypeInv, CallHasKey
<1>2. report[c] \in Outcomes
  BY DEF TypeInv, BudgetTypeOK
<1>3. \/ report[c].metering \in {"NOT_STARTED", "UNKNOWN"}
      \/ report[c].metering = "KNOWN" /\ report[c].tokens \in Nat \X Nat
  BY <1>2, BudgetAssumption DEF Outcomes, Outcome, Unknown
<1>4. \/ Release(key[c])
      \/ MarkIndeterminate(key[c])
      \/ \E t \in Nat \X Nat : Settle(key[c], t)
  BY <1>3 DEF CloseUsage
<1> QED
  BY <1>1, <1>4, CloseMovesOne

(* Every step keeps calls and records one to one. *)
LEMMA OwnerInductive == TypeInv /\ OwnerInv /\ [BudgetNext]_budgetVars => OwnerInv'
<1> SUFFICES ASSUME TypeInv, OwnerInv, [BudgetNext]_budgetVars PROVE OwnerInv'
  OBVIOUS
<1> USE DEF policyVars, recordVars, counterVars, callerVars
<1>0. /\ pc \in [Callers -> InFlight \cup {"idle", "admit"}]
      /\ key \in [Callers -> Keys \cup {NoKey}]
      /\ record \in [Keys -> UsageStatus \cup {"none"}]
      /\ sent \in [Keys -> Nat]
  BY DEF TypeInv, BudgetTypeOK
<1>1. CASE \E c \in Callers, k \in Keys : Lookup(c, k)
  BY <1>0, <1>1 DEF Lookup, OwnerInv, InFlight, CalledOnce
<1>2. CASE \E c \in Callers : Admit(c)
  <2>1. PICK c \in Callers : Admit(c)
    BY <1>2
  <2>2. key[c] \in Keys /\ pc[c] = "admit"
    BY <2>1 DEF Admit, TypeInv, CallHasKey
  <2>3. CASE Done(c) /\ UNCHANGED <<record, sent>>
    BY <1>0, <2>3 DEF Done, OwnerInv, InFlight, CalledOnce
  <2>4. CASE ~(Done(c) /\ UNCHANGED <<record, sent>>)
    <3>1. /\ record[key[c]] = "none"
          /\ record' = [record EXCEPT ![key[c]] = "HELD"]
          /\ pc' = [pc EXCEPT ![c] = "policy"]
          /\ UNCHANGED <<key, sent>>
      BY <2>1, <2>4 DEF Admit, Goto
    <3>2. \A d \in Callers : pc[d] \in InFlight => key[d] # key[c]
      BY <3>1 DEF OwnerInv
    <3>3. sent[key[c]] = 0
      BY <3>1, <2>2 DEF OwnerInv
    <3> QED
      BY <1>0, <2>2, <3>1, <3>2, <3>3 DEF OwnerInv, InFlight, CalledOnce
  <2> QED
    BY <2>3, <2>4
<1>3. CASE \E c \in Callers : DenyEgress(c)
  <2>1. PICK c \in Callers : DenyEgress(c)
    BY <1>3
  <2>2. key[c] \in Keys /\ Release(key[c])
    BY <2>1 DEF DenyEgress, TypeInv, CallHasKey
  <2>3. record'[key[c]] # "none" /\ \A j \in Keys \ {key[c]} : record'[j] = record[j]
    BY <2>2, CloseMovesOne DEF UsageStatus
  <2>4. Done(c) /\ UNCHANGED sent
    BY <2>1 DEF DenyEgress
  <2> QED
    BY <1>0, <2>2, <2>3, <2>4, CallHasKeyInFlight DEF Done, OwnerInv, InFlight, CalledOnce
<1>4. CASE \E c \in Callers : AllowEgress(c)
  <2>1. PICK c \in Callers : AllowEgress(c)
    BY <1>4
  <2>2. /\ key[c] \in Keys /\ pc[c] = "policy"
        /\ sent' = [sent EXCEPT ![key[c]] = @ + 1]
        /\ pc' = [pc EXCEPT ![c] = "provider"]
        /\ UNCHANGED <<record, key>>
    BY <2>1 DEF AllowEgress, Goto, TypeInv, CallHasKey
  <2>3. sent[key[c]] = 0 /\ record[key[c]] # "none"
    BY <2>2 DEF OwnerInv, InFlight
  <2>4. \A d \in Callers : pc[d] \in InFlight /\ d # c => key[d] # key[c]
    BY <2>2 DEF OwnerInv, InFlight
  <2> QED
    BY <1>0, <2>2, <2>3, <2>4 DEF OwnerInv, InFlight, CalledOnce
<1>5. CASE \E c \in Callers, o \in Outcomes : ProviderReturns(c, o)
  BY <1>0, <1>5 DEF ProviderReturns, OwnerInv, InFlight, CalledOnce
<1>6. CASE \E c \in Callers : CloseUsage(c)
  <2>1. PICK c \in Callers : CloseUsage(c)
    BY <1>6
  <2>2. /\ key[c] \in Keys
        /\ record'[key[c]] # "none"
        /\ \A j \in Keys \ {key[c]} : record'[j] = record[j]
    BY <2>1, CloseUsageCloses DEF UsageStatus
  <2>3. Done(c) /\ UNCHANGED sent
    BY <2>1 DEF CloseUsage
  <2> QED
    BY <1>0, <2>2, <2>3, CallHasKeyInFlight DEF Done, OwnerInv, InFlight, CalledOnce
<1>7. CASE \E c \in Callers : Crash(c)
  BY <1>0, <1>7 DEF Crash, Done, OwnerInv, InFlight, CalledOnce
<1>8. CASE \E k \in Keys : ReconcileUsage(k)
  <2>1. PICK k \in Keys : ReconcileUsage(k)
    BY <1>8
  <2>2. record'[k] # "none" /\ \A j \in Keys \ {k} : record'[j] = record[j]
    BY <2>1, CloseMovesOne DEF ReconcileUsage, UsageStatus
  <2>3. UNCHANGED <<pc, key, sent>>
    BY <2>1 DEF ReconcileUsage
  <2> QED
    BY <1>0, <2>2, <2>3, CallHasKeyInFlight DEF OwnerInv, InFlight, CalledOnce
<1>9. CASE UNCHANGED <<pc, key, record, sent>>
  BY <1>9 DEF OwnerInv, CalledOnce
<1> QED
  BY <1>1, <1>2, <1>3, <1>4, <1>5, <1>6, <1>7, <1>8, <1>9
     DEF BudgetNext, Execute, Administer, SetPolicy, SetPrice, NextDay, budgetVars

(* At the start no call is in flight and nothing was sent. *)
LEMMA OwnerInitial == BudgetInit => OwnerInv
BY DEF BudgetInit, OwnerInv, InFlight, CalledOnce

(* One idempotency key reaches the provider once at most, whichever callers
   looked it up at the same time and however its record was closed, even by an
   operator who reconciles a call that is about to settle. *)
THEOREM BudgetCalledOnce == BudgetSpec => []CalledOnce
<1>1. OwnerInv => CalledOnce
  BY DEF OwnerInv
<1> QED
  BY <1>1, TypeInitial, TypeInductive, OwnerInitial, OwnerInductive, PTL DEF BudgetSpec

-----------------------------------------------------------------------------
(* With operators who wait, no step closes the record of another call. *)
LEMMA CacheInductive ==
    OperatorWaits /\ TypeInv /\ OwnerInv /\ CacheInv /\ [BudgetNext]_budgetVars => CacheInv'
<1> SUFFICES ASSUME OperatorWaits, TypeInv, OwnerInv, CacheInv, [BudgetNext]_budgetVars
             PROVE  CacheInv'
  OBVIOUS
<1> USE DEF policyVars, recordVars, counterVars, callerVars
<1>0. /\ pc \in [Callers -> InFlight \cup {"idle", "admit"}]
      /\ key \in [Callers -> Keys \cup {NoKey}]
      /\ record \in [Keys -> UsageStatus \cup {"none"}]
  BY DEF TypeInv, BudgetTypeOK
<1>1. CASE \E c \in Callers, k \in Keys : Lookup(c, k)
  BY <1>0, <1>1 DEF Lookup, CacheInv, InFlight
<1>2. CASE \E c \in Callers : Admit(c)
  <2>1. PICK c \in Callers : Admit(c)
    BY <1>2
  <2>2. key[c] \in Keys
    BY <2>1 DEF Admit, TypeInv, CallHasKey
  <2>3. CASE Done(c) /\ UNCHANGED record
    BY <1>0, <2>3 DEF Done, CacheInv, InFlight
  <2>4. CASE ~(Done(c) /\ UNCHANGED record)
    <3>1. /\ record' = [record EXCEPT ![key[c]] = "HELD"]
          /\ pc' = [pc EXCEPT ![c] = "policy"]
          /\ UNCHANGED key
      BY <2>1, <2>4 DEF Admit, Goto
    <3> QED
      BY <1>0, <2>2, <3>1 DEF CacheInv, InFlight
  <2> QED
    BY <2>3, <2>4
<1>3. CASE \E c \in Callers : DenyEgress(c) \/ CloseUsage(c)
  <2>1. PICK c \in Callers : DenyEgress(c) \/ CloseUsage(c)
    BY <1>3
  <2>2. key[c] \in Keys /\ pc[c] \in InFlight /\ Done(c)
    BY <2>1 DEF DenyEgress, CloseUsage, TypeInv, CallHasKey, InFlight
  <2>3. \A j \in Keys \ {key[c]} : record'[j] = record[j]
    BY <2>1, <2>2, CloseMovesOne, CloseUsageCloses DEF DenyEgress
  <2>4. \A d \in Callers : pc[d] \in InFlight /\ d # c => key[d] \in Keys \ {key[c]}
    BY <2>2, CallHasKeyInFlight DEF OwnerInv
  <2> QED
    BY <1>0, <2>2, <2>3, <2>4 DEF Done, CacheInv, InFlight
<1>4. CASE \E c \in Callers : AllowEgress(c)
  BY <1>0, <1>4 DEF AllowEgress, Goto, CacheInv, InFlight
<1>5. CASE \E c \in Callers, o \in Outcomes : ProviderReturns(c, o)
  BY <1>0, <1>5 DEF ProviderReturns, CacheInv, InFlight
<1>6. CASE \E c \in Callers : Crash(c)
  BY <1>0, <1>6 DEF Crash, Done, CacheInv, InFlight
<1>7. CASE \E k \in Keys : ReconcileUsage(k)
  <2>1. PICK k \in Keys : ReconcileUsage(k)
    BY <1>7
  <2>2. \A c \in Callers : pc[c] \in InFlight => key[c] \in Keys \ {k}
    <3>1. \A c \in Callers : ~Owns(c, k)
      BY <2>1 DEF ReconcileUsage
    <3> QED
      BY <3>1, CallHasKeyInFlight DEF Owns
  <2>3. \A j \in Keys \ {k} : record'[j] = record[j]
    BY <2>1, CloseMovesOne DEF ReconcileUsage
  <2>4. UNCHANGED <<pc, key>>
    BY <2>1 DEF ReconcileUsage
  <2> QED
    BY <2>2, <2>3, <2>4, CallHasKeyInFlight DEF CacheInv
<1>8. CASE UNCHANGED <<pc, key, record>>
  BY <1>8 DEF CacheInv
<1> QED
  BY <1>1, <1>2, <1>3, <1>4, <1>5, <1>6, <1>7, <1>8
     DEF BudgetNext, Execute, Administer, SetPolicy, SetPrice, NextDay, budgetVars

(* When the cached status is the real one, a closed record stays as it is. *)
LEMMA FinalStep ==
    TypeInv /\ CacheInv /\ [BudgetNext]_budgetVars =>
        \A k \in Keys : record[k] \notin {"none", "HELD"} => record'[k] = record[k]
<1> SUFFICES ASSUME TypeInv, CacheInv, [BudgetNext]_budgetVars,
                    NEW k \in Keys, record[k] \notin {"none", "HELD"}
             PROVE  record'[k] = record[k]
  OBVIOUS
<1> USE DEF policyVars, recordVars, counterVars, callerVars
<1>0. record \in [Keys -> UsageStatus \cup {"none"}]
  BY DEF TypeInv, BudgetTypeOK
<1>1. CASE \E c \in Callers : Admit(c)
  <2>1. PICK c \in Callers : Admit(c)
    BY <1>1
  <2> QED
    BY <1>0, <2>1 DEF Admit
<1>2. CASE \E c \in Callers : DenyEgress(c) \/ CloseUsage(c)
  <2>1. PICK c \in Callers : DenyEgress(c) \/ CloseUsage(c)
    BY <1>2
  <2>2. key[c] \in Keys /\ record[key[c]] = "HELD"
    BY <2>1 DEF DenyEgress, CloseUsage, TypeInv, CallHasKey, CacheInv, InFlight
  <2>3. \A j \in Keys \ {key[c]} : record'[j] = record[j]
    BY <2>1, <2>2, CloseMovesOne, CloseUsageCloses DEF DenyEgress
  <2> QED
    BY <2>2, <2>3
<1>3. CASE \E j \in Keys : ReconcileUsage(j)
  <2>1. PICK j \in Keys : ReconcileUsage(j)
    BY <1>3
  <2>2. record[j] = "HELD" /\ \A i \in Keys \ {j} : record'[i] = record[i]
    BY <2>1, CloseMovesOne DEF ReconcileUsage
  <2> QED
    BY <2>2
<1>4. CASE UNCHANGED record
  BY <1>4
<1> QED
  BY <1>1, <1>2, <1>3, <1>4
     DEF BudgetNext, Execute, Administer, SetPolicy, SetPrice, NextDay, budgetVars,
         Lookup, AllowEgress, ProviderReturns, Crash

(* Under the documented procedure (reconcile only what a dead process left
   behind) a usage record that left HELD never changes again, although callers
   check a cached status: the cache of a running call is never stale. *)
THEOREM BudgetUsageFinal ==
    ASSUME OperatorWaits
    PROVE  BudgetSpec => UsageFinal
<1>1. BudgetInit => CacheInv
  BY DEF BudgetInit, CacheInv, InFlight
<1>2. TypeInv /\ OwnerInv /\ CacheInv /\ [BudgetNext]_budgetVars => CacheInv'
  BY CacheInductive
<1>3. TypeInv /\ CacheInv /\ [BudgetNext]_budgetVars =>
        [\A k \in Keys :
            record[k] \notin {"none", "HELD"} => record'[k] = record[k]]_budgetVars
  BY FinalStep
<1> QED
  BY <1>1, <1>2, <1>3, TypeInitial, TypeInductive, OwnerInitial, OwnerInductive, PTL
     DEF BudgetSpec, UsageFinal

-----------------------------------------------------------------------------
(* Sums.  A step admits one record, closes one, or leaves records and counters
   alone. *)
Admitted(c, k) ==
    /\ record[k] = "none" /\ record' = [record EXCEPT ![k] = "HELD"]
    /\ snapshot' = [snapshot EXCEPT ![k] = quote[c]]
    /\ holds' = [holds EXCEPT ![k] = MeteredWindows(k)]
    /\ reserved' = [w \in Windows |-> [m \in Metrics |->
          reserved[w][m] + (IF w \in MeteredWindows(k)
                            THEN Amounts(Requested[k], quote[c])[m] ELSE 0)]]
    /\ \A w \in MeteredWindows(k) : Within(w, Amounts(Requested[k], quote[c]))
    /\ UNCHANGED <<actual, used>>

ClosedBy(k) ==
    /\ record[k] = "HELD"
    /\ \/ Release(k) \/ MarkIndeterminate(k)
       \/ \E t \in Nat \X Nat : Settle(k, t)

LEMMA BudgetStepKinds ==
    ASSUME TypeInv, CacheInv, [BudgetNext]_budgetVars
    PROVE  \/ UNCHANGED <<record, snapshot, holds, actual, used, reserved>>
           \/ \E c \in Callers, k \in Keys : Admitted(c, k)
           \/ \E k \in Keys : ClosedBy(k)
<1> USE DEF recordVars, counterVars
<1>1. ASSUME NEW c \in Callers, Admit(c)
      PROVE  UNCHANGED <<record, snapshot, holds, actual, used, reserved>> \/ Admitted(c, key[c])
  BY <1>1 DEF Admit, Admissible, Admitted
<1>2. ASSUME NEW c \in Callers, Admit(c) PROVE key[c] \in Keys
  BY <1>2 DEF Admit, TypeInv, CallHasKey
<1>3. ASSUME NEW c \in Callers, DenyEgress(c) \/ CloseUsage(c) PROVE \E k \in Keys : ClosedBy(k)
  <2>1. key[c] \in Keys /\ record[key[c]] = "HELD"
    BY <1>3 DEF DenyEgress, CloseUsage, TypeInv, CallHasKey, CacheInv, InFlight
  <2>2. \/ Release(key[c]) \/ MarkIndeterminate(key[c])
        \/ \E t \in Nat \X Nat : Settle(key[c], t)
    <3>1. CASE DenyEgress(c)
      BY <3>1 DEF DenyEgress
    <3>2. CASE CloseUsage(c)
      <4>1. report[c] \in Outcomes
        BY DEF TypeInv, BudgetTypeOK
      <4>2. \/ report[c].metering \in {"NOT_STARTED", "UNKNOWN"}
            \/ report[c].metering = "KNOWN" /\ report[c].tokens \in Nat \X Nat
        BY <4>1, BudgetAssumption DEF Outcomes, Outcome, Unknown
      <4> QED
        BY <3>2, <4>2 DEF CloseUsage
    <3> QED
      BY <1>3, <3>1, <3>2
  <2> QED
    BY <2>1, <2>2 DEF ClosedBy
<1>4. ASSUME NEW k \in Keys, ReconcileUsage(k) PROVE ClosedBy(k)
  BY <1>4 DEF ReconcileUsage, ClosedBy
<1>5. ASSUME NEW c \in Callers,
             \/ \E k \in Keys : Lookup(c, k)
             \/ AllowEgress(c) \/ Crash(c) \/ \E o \in Outcomes : ProviderReturns(c, o)
      PROVE  UNCHANGED <<record, snapshot, holds, actual, used, reserved>>
  BY <1>5 DEF Lookup, AllowEgress, Crash, ProviderReturns
<1>6. CASE \/ \E p \in Policies, l \in LimitChoices, e \in BOOLEAN : SetPolicy(p, l, e)
           \/ \E p \in Prices : SetPrice(p)
           \/ NextDay \/ UNCHANGED budgetVars
  BY <1>6 DEF SetPolicy, SetPrice, NextDay, budgetVars
<1> QED
  BY <1>1, <1>2, <1>3, <1>4, <1>5, <1>6 DEF BudgetNext, Execute, Administer

(* The amounts of well-formed rows. *)
LEMMA RowAmounts ==
    ASSUME BudgetTypeOK, NEW k \in Keys
    PROVE  HeldBy(k) \in [Metrics -> Nat] /\ ChargedTo(k) \in [Metrics -> Nat]
BY AmountsType, BudgetAssumption DEF HeldBy, ChargedTo, BudgetTypeOK

LEMMA RowAmountsAfter ==
    ASSUME BudgetTypeOK', NEW k \in Keys
    PROVE  HeldBy(k)' \in [Metrics -> Nat] /\ ChargedTo(k)' \in [Metrics -> Nat]
BY AmountsType, BudgetAssumption DEF HeldBy, ChargedTo, BudgetTypeOK

(* When only the row of k changes, a tally moves by that row. *)
LEMMA BudgetTallies ==
    ASSUME BudgetTypeOK, BudgetTypeOK', NEW k \in Keys, NEW w \in Windows, NEW m \in Metrics, NEW status,
           \A j \in Keys \ {k} : /\ record'[j] = record[j] /\ holds'[j] = holds[j]
                                 /\ snapshot'[j] = snapshot[j] /\ actual'[j] = actual[j]
    PROVE  LET was == w \in holds[k] /\ record[k] \in status
               is == w \in holds'[k] /\ record'[k] \in status
           IN  /\ \E rest \in Nat :
                     /\ Tally([j \in Keys |-> HeldBy(j)[m]], RowsIn(w, status))
                          = IF was THEN rest + HeldBy(k)[m] ELSE rest
                     /\ Tally([j \in Keys |-> HeldBy(j)[m]], RowsIn(w, status))'
                          = IF is THEN rest + HeldBy(k)'[m] ELSE rest
               /\ \E rest \in Nat :
                     /\ Tally([j \in Keys |-> ChargedTo(j)[m]], RowsIn(w, status))
                          = IF was THEN rest + ChargedTo(k)[m] ELSE rest
                     /\ Tally([j \in Keys |-> ChargedTo(j)[m]], RowsIn(w, status))'
                          = IF is THEN rest + ChargedTo(k)'[m] ELSE rest
<1>1. PICK S : S = RowsIn(w, status)
  OBVIOUS
<1>2. PICK T : T = RowsIn(w, status)'
  OBVIOUS
<1>3. PICK f : f = [j \in Keys |-> HeldBy(j)[m]]
  OBVIOUS
<1>4. PICK g : g = [j \in Keys |-> HeldBy(j)[m]]'
  OBVIOUS
<1>5. PICK a : a = [j \in Keys |-> ChargedTo(j)[m]]
  OBVIOUS
<1>6. PICK b : b = [j \in Keys |-> ChargedTo(j)[m]]'
  OBVIOUS
<1>7. /\ IsFiniteSet(S) /\ S \subseteq Keys /\ IsFiniteSet(T) /\ T \subseteq Keys
      /\ S \ {k} = T \ {k}
      /\ k \in S <=> (w \in holds[k] /\ record[k] \in status)
      /\ k \in T <=> (w \in holds'[k] /\ record'[k] \in status)
  <2>1. S \subseteq Keys /\ T \subseteq Keys
    BY <1>1, <1>2 DEF RowsIn
  <2>2. IsFiniteSet(S) /\ IsFiniteSet(T)
    BY <2>1, BudgetAssumption, FS_Subset
  <2> QED
    BY <1>1, <1>2, <2>1, <2>2 DEF RowsIn
<1>8. /\ \A j \in Keys : f[j] \in Nat /\ g[j] \in Nat /\ a[j] \in Nat /\ b[j] \in Nat
      /\ f[k] = HeldBy(k)[m] /\ g[k] = HeldBy(k)'[m]
      /\ a[k] = ChargedTo(k)[m] /\ b[k] = ChargedTo(k)'[m]
  BY <1>3, <1>4, <1>5, <1>6, RowAmounts, RowAmountsAfter
<1>9. \A j \in Keys \ {k} : f[j] = g[j] /\ a[j] = b[j]
  BY <1>3, <1>4, <1>5, <1>6 DEF HeldBy, ChargedTo
<1>10. \E rest \in Nat : /\ Tally(f, S) = IF k \in S THEN rest + f[k] ELSE rest
                         /\ Tally(g, T) = IF k \in T THEN rest + g[k] ELSE rest
  BY <1>7, <1>8, <1>9, TallyMoves
<1>11. \E rest \in Nat : /\ Tally(a, S) = IF k \in S THEN rest + a[k] ELSE rest
                         /\ Tally(b, T) = IF k \in T THEN rest + b[k] ELSE rest
  BY <1>7, <1>8, <1>9, TallyMoves
<1> QED
  BY <1>1, <1>2, <1>3, <1>4, <1>5, <1>6, <1>7, <1>8, <1>10, <1>11

(* What a step does to the counters of one window. *)
CountersMove(w, m) ==
    \/ used'[w][m] = used[w][m] /\ reserved'[w][m] = reserved[w][m]
    \/ \E c \in Callers, k \in Keys :
          /\ w \in MeteredWindows(k) /\ Within(w, Amounts(Requested[k], quote[c]))
          /\ used'[w][m] = used[w][m]
          /\ reserved'[w][m] = reserved[w][m] + Amounts(Requested[k], quote[c])[m]
    \/ \E k \in Keys :
          /\ w \in holds[k] /\ record[k] = "HELD" /\ reserved[w][m] >= HeldBy(k)[m]
          /\ reserved'[w][m] = reserved[w][m] - HeldBy(k)[m]
          /\ \/ used'[w][m] = used[w][m]
             \/ record'[k] = "SETTLED" /\ used'[w][m] = used[w][m] + ChargedTo(k)'[m]

(* An admission books what it reserves. *)
LEMMA AdmittedConserves ==
    ASSUME BudgetTypeOK, BudgetTypeOK', BudgetConservation,
           NEW c \in Callers, NEW k \in Keys, Admitted(c, k)
    PROVE  BudgetConservation' /\ \A w \in Windows, m \in Metrics : CountersMove(w, m)
<1> SUFFICES ASSUME NEW w \in Windows, NEW m \in Metrics
             PROVE  /\ reserved'[w][m] = Tally([j \in Keys |-> HeldBy(j)[m]],
                                               RowsIn(w, {"HELD", "INDETERMINATE"}))'
                    /\ used'[w][m] = Tally([j \in Keys |-> ChargedTo(j)[m]],
                                           RowsIn(w, {"SETTLED"}))'
                    /\ CountersMove(w, m)
  BY DEF BudgetConservation
<1>1. /\ record \in [Keys -> UsageStatus \cup {"none"}] /\ snapshot \in [Keys -> Nat \X Nat]
      /\ holds \in [Keys -> SUBSET Windows] /\ actual \in [Keys -> Nat \X Nat]
      /\ used[w][m] \in Nat /\ reserved[w][m] \in Nat
  BY DEF BudgetTypeOK
<1>2. /\ \A j \in Keys \ {k} : /\ record'[j] = record[j] /\ holds'[j] = holds[j]
                               /\ snapshot'[j] = snapshot[j] /\ actual'[j] = actual[j]
      /\ record[k] = "none" /\ record'[k] = "HELD" /\ snapshot'[k] = quote[c]
      /\ holds'[k] = MeteredWindows(k) /\ used'[w][m] = used[w][m]
  BY <1>1 DEF Admitted
<1>3. HeldBy(k)' = Amounts(Requested[k], quote[c])
  BY <1>2 DEF HeldBy
<1>4. reserved'[w][m] = reserved[w][m] + (IF w \in MeteredWindows(k) THEN HeldBy(k)'[m] ELSE 0)
  BY <1>3 DEF Admitted
<1>5. HeldBy(k)'[m] \in Nat
  BY RowAmountsAfter
<1>6. /\ reserved[w][m] = Tally([j \in Keys |-> HeldBy(j)[m]], RowsIn(w, {"HELD", "INDETERMINATE"}))
      /\ used[w][m] = Tally([j \in Keys |-> ChargedTo(j)[m]], RowsIn(w, {"SETTLED"}))
  BY DEF BudgetConservation
<1>7. PICK rest \in Nat :
         /\ reserved[w][m] = rest
         /\ Tally([j \in Keys |-> HeldBy(j)[m]], RowsIn(w, {"HELD", "INDETERMINATE"}))'
              = IF w \in MeteredWindows(k) THEN rest + HeldBy(k)'[m] ELSE rest
  BY <1>2, <1>6, BudgetTallies
<1>8. Tally([j \in Keys |-> ChargedTo(j)[m]], RowsIn(w, {"SETTLED"}))' = used[w][m]
  BY <1>2, <1>6, BudgetTallies
<1>9. CountersMove(w, m)
  <2>1. w \in MeteredWindows(k) => Within(w, Amounts(Requested[k], quote[c]))
    BY DEF Admitted
  <2> QED
    BY <1>1, <1>2, <1>3, <1>4, <2>1 DEF CountersMove
<1> QED
  BY <1>1, <1>2, <1>4, <1>5, <1>7, <1>8, <1>9

(* A closed record gives its hold back and takes its charge, in the windows it
   was admitted in: max(.., 0) has nothing to hide. *)
LEMMA ClosedConserves ==
    ASSUME BudgetTypeOK, BudgetTypeOK', BudgetConservation, NEW k \in Keys, ClosedBy(k)
    PROVE  BudgetConservation' /\ \A w \in Windows, m \in Metrics : CountersMove(w, m)
<1> SUFFICES ASSUME NEW w \in Windows, NEW m \in Metrics
             PROVE  /\ reserved'[w][m] = Tally([j \in Keys |-> HeldBy(j)[m]],
                                               RowsIn(w, {"HELD", "INDETERMINATE"}))'
                    /\ used'[w][m] = Tally([j \in Keys |-> ChargedTo(j)[m]],
                                           RowsIn(w, {"SETTLED"}))'
                    /\ CountersMove(w, m)
  BY DEF BudgetConservation
<1>1. /\ record \in [Keys -> UsageStatus \cup {"none"}] /\ snapshot \in [Keys -> Nat \X Nat]
      /\ holds \in [Keys -> SUBSET Windows] /\ actual \in [Keys -> Nat \X Nat]
      /\ used[w][m] \in Nat /\ reserved[w][m] \in Nat
  BY DEF BudgetTypeOK
<1>2. /\ record[k] = "HELD" /\ UNCHANGED <<snapshot, holds>>
      /\ \A j \in Keys \ {k} : record'[j] = record[j] /\ actual'[j] = actual[j]
      /\ record'[k] \in {"RELEASED", "INDETERMINATE", "SETTLED"}
  BY <1>1 DEF ClosedBy, Release, MarkIndeterminate, Settle
<1>3. HeldBy(k)' = HeldBy(k) /\ HeldBy(k)[m] \in Nat /\ ChargedTo(k)'[m] \in Nat
  BY <1>2, RowAmounts, RowAmountsAfter DEF HeldBy
<1>4. /\ record'[k] = "INDETERMINATE" => used'[w][m] = used[w][m] /\ reserved'[w][m] = reserved[w][m]
      /\ record'[k] # "INDETERMINATE" =>
            /\ reserved'[w][m] = IF w \in holds[k] THEN Positive(reserved[w][m] - HeldBy(k)[m])
                                 ELSE reserved[w][m]
            /\ used'[w][m] = used[w][m] + (IF w \in holds[k] /\ record'[k] = "SETTLED"
                                           THEN ChargedTo(k)'[m] ELSE 0)
  <2>1. CASE Release(k)
    <3>1. record'[k] = "RELEASED" /\ SettleHolds(k, Zero)
      BY <1>1, <2>1 DEF Release
    <3> QED
      BY <3>1 DEF SettleHolds, Zero
  <2>2. CASE MarkIndeterminate(k)
    BY <1>1, <2>2 DEF MarkIndeterminate, counterVars
  <2>3. CASE \E t \in Nat \X Nat : Settle(k, t)
    <3>1. PICK t \in Nat \X Nat : Settle(k, t)
      BY <2>3
    <3>2. /\ record'[k] = "SETTLED" /\ actual'[k] = t
          /\ SettleHolds(k, Amounts(t, snapshot[k]))
      BY <1>1, <3>1 DEF Settle
    <3>3. ChargedTo(k)' = Amounts(t, snapshot[k])
      BY <1>2, <3>2 DEF ChargedTo
    <3> QED
      BY <3>2, <3>3 DEF SettleHolds
  <2> QED
    BY <2>1, <2>2, <2>3 DEF ClosedBy
<1>5. /\ reserved[w][m] = Tally([j \in Keys |-> HeldBy(j)[m]], RowsIn(w, {"HELD", "INDETERMINATE"}))
      /\ used[w][m] = Tally([j \in Keys |-> ChargedTo(j)[m]], RowsIn(w, {"SETTLED"}))
  BY DEF BudgetConservation
<1>6. PICK rest \in Nat :
         /\ reserved[w][m] = IF w \in holds[k] THEN rest + HeldBy(k)[m] ELSE rest
         /\ Tally([j \in Keys |-> HeldBy(j)[m]], RowsIn(w, {"HELD", "INDETERMINATE"}))'
              = IF w \in holds[k] /\ record'[k] = "INDETERMINATE" THEN rest + HeldBy(k)[m] ELSE rest
  <2>1. \A j \in Keys \ {k} : /\ record'[j] = record[j] /\ holds'[j] = holds[j]
                               /\ snapshot'[j] = snapshot[j] /\ actual'[j] = actual[j]
    BY <1>2
  <2>2. PICK r \in Nat :
           /\ Tally([j \in Keys |-> HeldBy(j)[m]], RowsIn(w, {"HELD", "INDETERMINATE"}))
                = IF w \in holds[k] /\ record[k] \in {"HELD", "INDETERMINATE"}
                  THEN r + HeldBy(k)[m] ELSE r
           /\ Tally([j \in Keys |-> HeldBy(j)[m]], RowsIn(w, {"HELD", "INDETERMINATE"}))'
                = IF w \in holds'[k] /\ record'[k] \in {"HELD", "INDETERMINATE"}
                  THEN r + HeldBy(k)'[m] ELSE r
    BY <2>1, BudgetTallies
  <2> QED
    BY <1>2, <1>3, <1>5, <2>2
<1>7. Tally([j \in Keys |-> ChargedTo(j)[m]], RowsIn(w, {"SETTLED"}))'
         = IF w \in holds[k] /\ record'[k] = "SETTLED" THEN used[w][m] + ChargedTo(k)'[m]
           ELSE used[w][m]
  BY <1>2, <1>5, BudgetTallies
<1>8. record'[k] # "INDETERMINATE" /\ w \in holds[k] =>
         reserved'[w][m] = rest /\ rest = reserved[w][m] - HeldBy(k)[m] /\ reserved[w][m] >= HeldBy(k)[m]
  BY <1>1, <1>3, <1>4, <1>6 DEF Positive
<1>9. CountersMove(w, m)
  <2>1. CASE record'[k] = "INDETERMINATE" \/ w \notin holds[k]
    BY <1>1, <1>4, <2>1 DEF CountersMove
  <2>2. CASE record'[k] # "INDETERMINATE" /\ w \in holds[k]
    BY <1>1, <1>2, <1>4, <1>8, <2>2 DEF CountersMove
  <2> QED
    BY <2>1, <2>2
<1>10. reserved'[w][m] = Tally([j \in Keys |-> HeldBy(j)[m]], RowsIn(w, {"HELD", "INDETERMINATE"}))'
  BY <1>4, <1>6, <1>8
<1>11. used'[w][m] = Tally([j \in Keys |-> ChargedTo(j)[m]], RowsIn(w, {"SETTLED"}))'
  BY <1>1, <1>2, <1>4, <1>7
<1> QED
  BY <1>9, <1>10, <1>11

LEMMA ConservationInductive ==
    ASSUME TypeInv, CacheInv, BudgetConservation, [BudgetNext]_budgetVars
    PROVE  BudgetConservation' /\ \A w \in Windows, m \in Metrics : CountersMove(w, m)
<1>0. BudgetTypeOK /\ BudgetTypeOK'
  BY TypeInductive DEF TypeInv
<1>1. CASE UNCHANGED <<record, snapshot, holds, actual, used, reserved>>
  <2>1. \A w, status : RowsIn(w, status)' = RowsIn(w, status)
    BY <1>1 DEF RowsIn
  <2>2. \A k : HeldBy(k)' = HeldBy(k) /\ ChargedTo(k)' = ChargedTo(k)
    BY <1>1 DEF HeldBy, ChargedTo
  <2> QED
    BY <1>1, <2>1, <2>2 DEF BudgetConservation, CountersMove
<1>2. ASSUME NEW c \in Callers, NEW k \in Keys, Admitted(c, k)
      PROVE  BudgetConservation' /\ \A w \in Windows, m \in Metrics : CountersMove(w, m)
  BY <1>0, <1>2, AdmittedConserves
<1>3. ASSUME NEW k \in Keys, ClosedBy(k)
      PROVE  BudgetConservation' /\ \A w \in Windows, m \in Metrics : CountersMove(w, m)
  BY <1>0, <1>3, ClosedConserves
<1> QED
  BY <1>1, <1>2, <1>3, BudgetStepKinds

LEMMA ConservationInitial == BudgetInit => BudgetConservation
<1> SUFFICES ASSUME BudgetInit, NEW w \in Windows, NEW m \in Metrics
             PROVE  /\ reserved[w][m] = Tally([j \in Keys |-> HeldBy(j)[m]],
                                              RowsIn(w, {"HELD", "INDETERMINATE"}))
                    /\ used[w][m] = Tally([j \in Keys |-> ChargedTo(j)[m]], RowsIn(w, {"SETTLED"}))
  BY DEF BudgetConservation
<1>1. RowsIn(w, {"HELD", "INDETERMINATE"}) = {} /\ RowsIn(w, {"SETTLED"}) = {}
  BY DEF RowsIn, BudgetInit
<1>2. used[w][m] = 0 /\ reserved[w][m] = 0
  BY DEF BudgetInit, Zero
<1> QED
  BY <1>1, <1>2, TallyEmpty

(* While operators leave running calls alone, the counters of every window are
   exactly what its records hold and were charged, whatever the number of calls,
   policies and prices and however they interleave. *)
THEOREM BudgetAlwaysConserved ==
    ASSUME OperatorWaits
    PROVE  BudgetSpec => []BudgetConservation
<1>1. BudgetInit => CacheInv
  BY DEF BudgetInit, CacheInv, InFlight
<1>2. TypeInv /\ OwnerInv /\ CacheInv /\ [BudgetNext]_budgetVars => CacheInv'
  BY CacheInductive
<1>3. TypeInv /\ CacheInv /\ BudgetConservation /\ [BudgetNext]_budgetVars => BudgetConservation'
  BY ConservationInductive
<1> QED
  BY <1>1, <1>2, <1>3, TypeInitial, TypeInductive, OwnerInitial, OwnerInductive,
     ConservationInitial, PTL DEF BudgetSpec

(* And no step takes the spending of a window above the limit in force, except a
   provider that reports more than the worst case held for it. *)
THEOREM BudgetSpendWithinLimit ==
    ASSUME OperatorWaits
    PROVE  BudgetSpec => SpendWithinLimit
<1>1. BudgetInit => CacheInv
  BY DEF BudgetInit, CacheInv, InFlight
<1>2. TypeInv /\ OwnerInv /\ CacheInv /\ [BudgetNext]_budgetVars => CacheInv'
  BY CacheInductive
<1>3. ASSUME TypeInv, CacheInv, BudgetConservation, [BudgetNext]_budgetVars
      PROVE  \A w \in Windows, m \in Metrics :
                Total(w, m)' > Total(w, m) =>
                    \/ limits[w[1]][w[2]][m] = NoLimit
                    \/ Total(w, m)' <= limits[w[1]][w[2]][m]
                    \/ \E k \in Keys : w \in holds[k] /\ Overruns(k, m)
  <2> SUFFICES ASSUME NEW w \in Windows, NEW m \in Metrics, Total(w, m)' > Total(w, m)
               PROVE  \/ limits[w[1]][w[2]][m] = NoLimit
                      \/ Total(w, m)' <= limits[w[1]][w[2]][m]
                      \/ \E k \in Keys : w \in holds[k] /\ Overruns(k, m)
    OBVIOUS
  <2>1. CountersMove(w, m)
    BY <1>3, ConservationInductive
  <2>2. BudgetTypeOK /\ BudgetTypeOK'
    BY <1>3, TypeInductive DEF TypeInv
  <2>3. used[w][m] \in Nat /\ reserved[w][m] \in Nat
    BY <2>2 DEF BudgetTypeOK
  <2>4. CASE used'[w][m] = used[w][m] /\ reserved'[w][m] = reserved[w][m]
    BY <2>3, <2>4 DEF Total
  <2>5. ASSUME NEW c \in Callers, NEW k \in Keys, Within(w, Amounts(Requested[k], quote[c])),
               used'[w][m] = used[w][m],
               reserved'[w][m] = reserved[w][m] + Amounts(Requested[k], quote[c])[m]
        PROVE  limits[w[1]][w[2]][m] = NoLimit \/ Total(w, m)' <= limits[w[1]][w[2]][m]
    <3>1. Amounts(Requested[k], quote[c])[m] \in Nat
      BY <2>2, AmountsType, BudgetAssumption DEF BudgetTypeOK
    <3>2. Total(w, m)' = Total(w, m) + Amounts(Requested[k], quote[c])[m]
      BY <2>3, <2>5, <3>1 DEF Total
    <3> QED
      BY <2>5, <3>2 DEF Within
  <2>6. ASSUME NEW k \in Keys, w \in holds[k], record[k] = "HELD", reserved[w][m] >= HeldBy(k)[m],
               reserved'[w][m] = reserved[w][m] - HeldBy(k)[m],
               \/ used'[w][m] = used[w][m]
               \/ record'[k] = "SETTLED" /\ used'[w][m] = used[w][m] + ChargedTo(k)'[m]
        PROVE  Overruns(k, m)
    <3>1. HeldBy(k)[m] \in Nat /\ ChargedTo(k)'[m] \in Nat
      BY <2>2, RowAmounts, RowAmountsAfter
    <3> QED
      BY <2>3, <2>6, <3>1 DEF Total, Overruns
  <2> QED
    BY <2>1, <2>4, <2>5, <2>6 DEF CountersMove
<1> QED
  BY <1>1, <1>2, <1>3, BudgetAlwaysConserved, TypeInitial, TypeInductive, OwnerInitial,
     OwnerInductive, PTL DEF BudgetSpec, SpendWithinLimit
=============================================================================
