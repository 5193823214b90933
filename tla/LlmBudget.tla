------------------------------ MODULE LlmBudget ------------------------------
(***************************************************************************)
(* Governed provider calls and the hard budgets they are charged to: the    *)
(* ledger of app/services/llm_usage.py (LlmUsageGovernance and              *)
(* GovernedLlmExecutor), the policy endpoints of routes/llm_budgets.py, the *)
(* price of routes/llm.py and the operator's reconcile endpoint of          *)
(* routes/llm_usage.py.  A call first looks its idempotency key up, is then *)
(* admitted under the locks of every matching policy, checks the egress     *)
(* policy, calls the provider with no transaction open, and settles.        *)
(*                                                                          *)
(* A caller's database session keeps the usage record it inserted in its    *)
(* identity map (expire_on_commit=False), and _locked_record does not ask   *)
(* to refresh it: for the caller its record is HELD until it closes it.     *)
(***************************************************************************)
EXTENDS Integers, FiniteSets, Tally

CONSTANTS
    Callers,        \* request handlers and workers that call the provider
    Keys,           \* idempotency hashes
    Dimensions,     \* what each key is charged to: [field -> value]
    Policies,       \* budget policies that exist or may be created
    Scope,          \* what each policy matches: [field -> value or AnyValue]
    AnyValue,       \* SQL NULL in a policy scope
    NoKey,          \* a caller that has no call
    NoLimit,        \* SQL NULL in a policy limit
    LimitChoices,   \* limits an administrator may set: [window kind -> [metric -> limit]]
    Requested,      \* tokens each key reserves: <<input estimate, output maximum>>
    Reports,        \* token counts a provider may report: <<input, output>>
    Prices,         \* prices an administrator may set: <<input, output>>
    PriceUnit,      \* _PRICE_DENOMINATOR
    MaxMatched,     \* _MAX_MATCHED_BUDGET_POLICIES
    MonthLength,    \* days of a month
    OperatorWaits,  \* TRUE: reconcile only after the calling process is gone
    MaxDay,         \* bound: days explored
    MaxEdits,       \* bound: changes of policies and prices
    MaxFaults       \* bound: calls cut off by a crash

Fields == {"tenant", "user", "api_key", "provider", "model"}
Kinds == {"day", "month"}
Metrics == {"tokens", "cost"}
Days == 0..MaxDay
Windows == Policies \X Kinds \X Days
Limits == [Kinds -> [Metrics -> Nat \cup {NoLimit}]]
NoPrice == <<>>

ASSUME BudgetAssumption ==
    /\ IsFiniteSet(Keys)
    /\ DOMAIN Dimensions = Keys /\ DOMAIN Scope = Policies
    /\ NoLimit \notin Nat /\ NoKey \notin Keys
    /\ LimitChoices \subseteq Limits
    /\ Requested \in [Keys -> Nat \X Nat]
    /\ Reports \subseteq Nat \X Nat
    /\ Prices \subseteq Nat \X Nat
    /\ PriceUnit \in Nat \ {0}
    /\ MaxMatched \in Nat /\ MonthLength \in Nat \ {0}
    /\ OperatorWaits \in BOOLEAN
    /\ MaxDay \in Nat /\ MaxEdits \in Nat /\ MaxFaults \in Nat

VARIABLES
    limits,         \* limits of the policies that exist
    enabled,        \* llm_budget_policies.enabled
    price,          \* the active llm_model_prices row, or NoPrice
    day,            \* the current UTC day
    record,         \* llm_usage_records.status, "none" before the row exists
    snapshot,       \* price copied into the record
    holds,          \* llm_usage_budget_holds: the windows of each record
    actual,         \* actual_input_tokens, actual_output_tokens
    used, reserved, \* llm_budget_counters
    pc, key,        \* per caller: next step and its key
    quote,          \* per caller: the price it has read
    report,         \* per caller: what the provider answered
    sent,           \* history: provider calls made under the key
    edits, faults   \* spent bounds

policyVars == <<limits, enabled, price>>
recordVars == <<record, snapshot, holds, actual>>
counterVars == <<used, reserved>>
callerVars == <<pc, key, quote, report>>
budgetVars == <<policyVars, day, recordVars, counterVars, callerVars, sent, edits, faults>>

UsageStatus == {"HELD", "SETTLED", "RELEASED", "INDETERMINATE"}
InFlight == {"policy", "provider", "settle"}
(* MeteringOutcome of a call: the tokens are known, nothing ran, or nobody knows. *)
Outcome(how, tokens) == [metering |-> how, tokens |-> tokens]
Unknown == Outcome("UNKNOWN", <<0, 0>>)
Outcomes == {Outcome("KNOWN", t) : t \in Reports}
                \cup {Outcome("NOT_STARTED", <<0, 0>>), Unknown}

Goto(c, s) ==
    /\ pc' = [pc EXCEPT ![c] = s]
    /\ UNCHANGED <<key, quote, report>>
(* The call returns or raises; what it had read is gone. *)
Done(c) ==
    /\ pc' = [pc EXCEPT ![c] = "idle"]
    /\ key' = [key EXCEPT ![c] = NoKey]
    /\ quote' = [quote EXCEPT ![c] = <<0, 0>>]
    /\ report' = [report EXCEPT ![c] = Unknown]
Owns(c, k) == pc[c] \in InFlight /\ key[c] = k

-----------------------------------------------------------------------------
(* Amounts and windows                                                      *)

WindowStart(kind) == IF kind = "day" THEN day ELSE day - (day % MonthLength)

(* _cost: rounded up to the next micro-dollar. *)
Cost(tokens, p) ==
    (tokens[1] * p[1] + tokens[2] * p[2] + PriceUnit - 1) \div PriceUnit

Amounts(tokens, p) ==
    [m \in Metrics |-> IF m = "tokens" THEN tokens[1] + tokens[2] ELSE Cost(tokens, p)]
Zero == [m \in Metrics |-> 0]

(* What a record holds, and what it was charged. *)
HeldBy(k) == Amounts(Requested[k], snapshot[k])
ChargedTo(k) == Amounts(actual[k], snapshot[k])

(* The enabled policies whose scope is NULL or equal in every dimension. *)
Matching(k) ==
    {p \in enabled : \A f \in Fields : Scope[p][f] \in {AnyValue, Dimensions[k][f]}}

(* A window is metered only where the policy sets one of its limits. *)
MeteredWindows(k) ==
    {w \in Windows :
        /\ w[1] \in Matching(k)
        /\ w[3] = WindowStart(w[2])
        /\ \E m \in Metrics : limits[w[1]][w[2]][m] # NoLimit}

Total(w, m) == used[w][m] + reserved[w][m]

(* Slip: what other calls have reserved is not counted. *)
SlipWithin(w, amount) ==
    \A m \in Metrics :
        limits[w[1]][w[2]][m] = NoLimit
        \/ used[w][m] + amount[m] <= limits[w[1]][w[2]][m]

(* Every limit of the window admits the amount on top of used and reserved. *)
Within(w, amount) ==
    \A m \in Metrics :
        limits[w[1]][w[2]][m] = NoLimit
        \/ Total(w, m) + amount[m] <= limits[w[1]][w[2]][m]

-----------------------------------------------------------------------------
(* reserve, settle, release, mark_indeterminate                             *)

(* The lookup by idempotency key and the price, before any policy is locked:
   a key that is taken is refused (LlmUsageDuplicate), a model without an
   active price too. *)
Lookup(c, k) ==
    /\ pc[c] = "idle"
    /\ record[k] = "none" /\ price # NoPrice
    /\ key' = [key EXCEPT ![c] = k]
    /\ quote' = [quote EXCEPT ![c] = price]
    /\ pc' = [pc EXCEPT ![c] = "admit"]
    /\ UNCHANGED <<policyVars, day, recordVars, counterVars, report, sent, edits, faults>>

Admissible(k, amount) ==
    /\ Cardinality(Matching(k)) \in 1..MaxMatched
    /\ \A w \in MeteredWindows(k) : Within(w, amount)

(* Slip: the unique index does not refuse a key that another call took meanwhile. *)
SlipAdmit(c) ==
    LET k == key[c]
        amount == Amounts(Requested[k], quote[c])
        metered == MeteredWindows(k)
    IN
    /\ pc[c] = "admit"
    /\ IF Admissible(k, amount)
       THEN /\ record' = [record EXCEPT ![k] = "HELD"]
            /\ snapshot' = [snapshot EXCEPT ![k] = quote[c]]
            /\ holds' = [holds EXCEPT ![k] = metered]
            /\ reserved' = [w \in Windows |-> [m \in Metrics |->
                  reserved[w][m] + (IF w \in metered THEN amount[m] ELSE 0)]]
            /\ Goto(c, "policy")
       ELSE /\ Done(c)
            /\ UNCHANGED <<record, snapshot, holds, reserved>>
    /\ UNCHANGED <<policyVars, day, actual, used, sent, edits, faults>>

(* The rest of the transaction, under the locks of the matching policies: all
   metered windows must admit the worst case, the unique index arbitrates
   between two lookups of one key, and the hold commits before any egress. *)
Admit(c) ==
    LET k == key[c]
        amount == Amounts(Requested[k], quote[c])
        metered == MeteredWindows(k)
    IN
    /\ pc[c] = "admit"
    /\ IF Admissible(k, amount) /\ record[k] = "none"
       THEN /\ record' = [record EXCEPT ![k] = "HELD"]
            /\ snapshot' = [snapshot EXCEPT ![k] = quote[c]]
            /\ holds' = [holds EXCEPT ![k] = metered]
            /\ reserved' = [w \in Windows |-> [m \in Metrics |->
                  reserved[w][m] + (IF w \in metered THEN amount[m] ELSE 0)]]
            /\ Goto(c, "policy")
       ELSE /\ Done(c)
            /\ UNCHANGED <<record, snapshot, holds, reserved>>
    /\ UNCHANGED <<policyVars, day, actual, used, sent, edits, faults>>

Positive(n) == IF n > 0 THEN n ELSE 0

(* Slip: the charge goes to the windows of the current day. *)
SlipSettleHolds(k, charge) ==
    /\ reserved' = [w \in Windows |-> [m \in Metrics |->
          IF w \in holds[k] THEN Positive(reserved[w][m] - HeldBy(k)[m])
          ELSE reserved[w][m]]]
    /\ used' = [w \in Windows |-> [m \in Metrics |->
          used[w][m] + (IF w \in MeteredWindows(k) THEN charge[m] ELSE 0)]]

(* _settle_holds: the windows the record was admitted in give back the hold
   and take the charge, whatever the policies say by now. *)
SettleHolds(k, charge) ==
    /\ reserved' = [w \in Windows |-> [m \in Metrics |->
          IF w \in holds[k] THEN Positive(reserved[w][m] - HeldBy(k)[m])
          ELSE reserved[w][m]]]
    /\ used' = [w \in Windows |-> [m \in Metrics |->
          used[w][m] + (IF w \in holds[k] THEN charge[m] ELSE 0)]]

Release(k) ==
    /\ SettleHolds(k, Zero)
    /\ record' = [record EXCEPT ![k] = "RELEASED"]
    /\ UNCHANGED <<snapshot, holds, actual>>

Settle(k, tokens) ==
    /\ SettleHolds(k, Amounts(tokens, snapshot[k]))
    /\ actual' = [actual EXCEPT ![k] = tokens]
    /\ record' = [record EXCEPT ![k] = "SETTLED"]
    /\ UNCHANGED <<snapshot, holds>>

MarkIndeterminate(k) ==
    /\ record' = [record EXCEPT ![k] = "INDETERMINATE"]
    /\ UNCHANGED <<snapshot, holds, actual, counterVars>>

-----------------------------------------------------------------------------
(* GovernedLlmExecutor                                                      *)

(* _enforce_egress_policy denies, fails or is cancelled: nothing was sent. *)
DenyEgress(c) ==
    /\ pc[c] = "policy"
    /\ Release(key[c])
    /\ Done(c)
    /\ UNCHANGED <<policyVars, day, sent, edits, faults>>

AllowEgress(c) ==
    /\ pc[c] = "policy"
    /\ sent' = [sent EXCEPT ![key[c]] = @ + 1]
    /\ Goto(c, "provider")
    /\ UNCHANGED <<policyVars, day, recordVars, counterVars, edits, faults>>

(* The provider answers, fails or the caller is cancelled.  A mismatching
   model, missing token counts and any other error are Unknown too. *)
ProviderReturns(c, o) ==
    /\ pc[c] = "provider"
    /\ pc' = [pc EXCEPT ![c] = "settle"]
    /\ report' = [report EXCEPT ![c] = o]
    /\ UNCHANGED <<policyVars, day, recordVars, counterVars, key, quote, sent, edits, faults>>

(* The settlement transaction.  _locked_record returns the cached HELD record,
   so the status guards of settle, release and mark_indeterminate all pass. *)
CloseUsage(c) ==
    /\ pc[c] = "settle"
    /\ CASE report[c].metering = "NOT_STARTED" -> Release(key[c])
         [] report[c].metering = "UNKNOWN" -> MarkIndeterminate(key[c])
         [] report[c].metering = "KNOWN" -> Settle(key[c], report[c].tokens)
    /\ Done(c)
    /\ UNCHANGED <<policyVars, day, sent, edits, faults>>

(* The process dies, or the settlement transaction fails: the record stays HELD. *)
Crash(c) ==
    /\ pc[c] # "idle" /\ faults < MaxFaults
    /\ faults' = faults + 1
    /\ Done(c)
    /\ UNCHANGED <<policyVars, day, recordVars, counterVars, sent, edits>>

-----------------------------------------------------------------------------
(* Administration                                                           *)

(* Slip: a record that is not HELD may be released. *)
SlipReconcileUsage(k) ==
    /\ record[k] # "none"
    /\ \A c \in Callers : Owns(c, k) => pc[c] = "settle" /\ ~OperatorWaits
    /\ Release(k)
    /\ UNCHANGED <<policyVars, day, callerVars, sent, edits, faults>>

(* POST /llm/usage/{id}/reconcile: the operator attests that the provider
   request of a HELD record has ended (provider_egress_terminated). *)
ReconcileUsage(k) ==
    /\ record[k] = "HELD"
    /\ \A c \in Callers : Owns(c, k) => pc[c] = "settle" /\ ~OperatorWaits
    /\ Release(k)
    /\ UNCHANGED <<policyVars, day, callerVars, sent, edits, faults>>

(* POST and PATCH of a budget policy; at least one limit must be set. *)
SetPolicy(p, l, e) ==
    /\ edits < MaxEdits /\ edits' = edits + 1
    /\ \E kind \in Kinds, m \in Metrics : l[kind][m] # NoLimit
    /\ limits' = [limits EXCEPT ![p] = l]
    /\ enabled' = IF e THEN enabled \cup {p} ELSE enabled \ {p}
    /\ UNCHANGED <<price, day, recordVars, counterVars, callerVars, sent, faults>>

(* PATCH of a provider with new prices; the row is then active. *)
SetPrice(p) ==
    /\ edits < MaxEdits /\ edits' = edits + 1
    /\ price' = p
    /\ UNCHANGED <<limits, enabled, day, recordVars, counterVars, callerVars, sent, faults>>

NextDay ==
    /\ day < MaxDay /\ day' = day + 1
    /\ UNCHANGED <<policyVars, recordVars, counterVars, callerVars, sent, edits, faults>>

-----------------------------------------------------------------------------
BudgetInit ==
    /\ limits \in [Policies -> LimitChoices]
    /\ enabled \in SUBSET Policies
    /\ price \in Prices \cup {NoPrice}
    /\ day = 0
    /\ record = [k \in Keys |-> "none"]
    /\ snapshot = [k \in Keys |-> <<0, 0>>]
    /\ holds = [k \in Keys |-> {}]
    /\ actual = [k \in Keys |-> <<0, 0>>]
    /\ used = [w \in Windows |-> Zero]
    /\ reserved = [w \in Windows |-> Zero]
    /\ pc = [c \in Callers |-> "idle"]
    /\ key = [c \in Callers |-> NoKey]
    /\ quote = [c \in Callers |-> <<0, 0>>]
    /\ report = [c \in Callers |-> Unknown]
    /\ sent = [k \in Keys |-> 0]
    /\ edits = 0 /\ faults = 0

Execute(c) ==
    \/ Admit(c) \/ DenyEgress(c) \/ AllowEgress(c) \/ CloseUsage(c)
    \/ \E o \in Outcomes : ProviderReturns(c, o)

Administer ==
    \/ \E p \in Policies, l \in LimitChoices, e \in BOOLEAN : SetPolicy(p, l, e)
    \/ \E p \in Prices : SetPrice(p)
    \/ \E k \in Keys : ReconcileUsage(k)

BudgetNext ==
    \/ \E c \in Callers, k \in Keys : Lookup(c, k)
    \/ \E c \in Callers : Execute(c) \/ Crash(c)
    \/ Administer
    \/ NextDay

BudgetSpec == BudgetInit /\ [][BudgetNext]_budgetVars

-----------------------------------------------------------------------------
BudgetTypeOK ==
    /\ limits \in [Policies -> Limits]
    /\ enabled \in SUBSET Policies
    /\ price \in Prices \cup {NoPrice}
    /\ day \in Days
    /\ record \in [Keys -> UsageStatus \cup {"none"}]
    /\ snapshot \in [Keys -> Nat \X Nat]
    /\ holds \in [Keys -> SUBSET Windows]
    /\ actual \in [Keys -> Nat \X Nat]
    /\ used \in [Windows -> [Metrics -> Nat]]
    /\ reserved \in [Windows -> [Metrics -> Nat]]
    /\ pc \in [Callers -> InFlight \cup {"idle", "admit"}]
    /\ key \in [Callers -> Keys \cup {NoKey}]
    /\ quote \in [Callers -> Nat \X Nat]
    /\ report \in [Callers -> Outcomes]
    /\ sent \in [Keys -> Nat]
    /\ edits \in 0..MaxEdits
    /\ faults \in 0..MaxFaults

(* The records with one of these statuses that were admitted in window w. *)
RowsIn(w, status) == {k \in Keys : w \in holds[k] /\ record[k] \in status}

(* The counters of every window are exactly what its records hold and were
   charged, at the prices the records were admitted at, across midnight, month
   ends, policy and price changes: an unknown outcome keeps its hold, a release
   gives all of it back, a settlement the difference. *)
BudgetConservation ==
    \A w \in Windows, m \in Metrics :
        /\ reserved[w][m] =
              Tally([k \in Keys |-> HeldBy(k)[m]], RowsIn(w, {"HELD", "INDETERMINATE"}))
        /\ used[w][m] = Tally([k \in Keys |-> ChargedTo(k)[m]], RowsIn(w, {"SETTLED"}))

(* The settlement of k reports more of metric m than was held for it. *)
Overruns(k, m) ==
    record[k] = "HELD" /\ record'[k] = "SETTLED" /\ ChargedTo(k)'[m] > HeldBy(k)[m]

(* No step takes the spending of a window above the limit then in force, however
   admissions interleave with settlements and edits of policies and prices; the
   exception is a provider that reports more tokens than the worst case held. *)
SpendWithinLimit ==
    [][\A w \in Windows, m \in Metrics :
          Total(w, m)' > Total(w, m) =>
              \/ limits[w[1]][w[2]][m] = NoLimit
              \/ Total(w, m)' <= limits[w[1]][w[2]][m]
              \/ \E k \in Keys : w \in holds[k] /\ Overruns(k, m)]_budgetVars

(* One idempotency key reaches the provider once at most, although two callers
   may both have found it free, and although its record may be closed in any way
   (test_same_idempotency_key_never_reserves_or_bills_twice). *)
CalledOnce == \A k \in Keys : sent[k] <= 1

(* A usage record leaves HELD once: nothing settles, releases or reopens it
   afterwards ("cannot settle usage in {record.status} state"). *)
UsageFinal ==
    [][\A k \in Keys :
          record[k] \notin {"none", "HELD"} => record'[k] = record[k]]_budgetVars
==============================================================================
