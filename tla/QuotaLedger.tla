----------------------------- MODULE QuotaLedger -----------------------------
(***************************************************************************)
(* The quota ledger of one user: the quota_counters and quota_reservations *)
(* rows that app/services/quota.py reads and writes.  A counter row keeps  *)
(* what was used and what is reserved for one limit key in one window; a   *)
(* reservation row ties an amount of one key to one upload session.  Every *)
(* operation runs in the caller's transaction with the rows it touches     *)
(* locked FOR UPDATE, so here each is one atomic step.                     *)
(***************************************************************************)
EXTENDS Integers, FiniteSets, Tally

CONSTANTS
    Uploads,        \* upload sessions of the user
    UploadKeys,     \* limit keys an upload reserves
    OtherKeys,      \* limit keys only metered directly (daily_downloads)
    DailyKeys,      \* the keys whose window is the UTC day
    Unlimited,      \* SQL NULL: the role policy sets no limit
    Limit,          \* effective limit of each key, or Unlimited
    Amount,         \* what each upload reserves of each upload key
    Direct,         \* amounts a direct consumption may ask for
    MaxDay          \* bound: days explored

LimitKeys == UploadKeys \cup OtherKeys
Days == 0..MaxDay

ASSUME QuotaAssumption ==
    /\ IsFiniteSet(Uploads)
    /\ MaxDay \in Nat
    /\ Unlimited \notin Nat
    /\ DailyKeys \subseteq LimitKeys
    /\ Limit \in [LimitKeys -> Nat \cup {Unlimited}]
    /\ Amount \in [Uploads -> [UploadKeys -> Nat]]
    /\ Direct \subseteq Nat

VARIABLES
    day,            \* the current UTC day
    used,           \* quota_counters.used_value
    reserved,       \* quota_counters.reserved_value
    resv,           \* quota_reservations.status, "none" before the row exists
    window,         \* quota_reservations.window_start
    metered         \* history: what consume() has charged directly

quotaVars == <<day, used, reserved, resv, window, metered>>

ReservationStatus == {"HELD", "CONSUMED", "RELEASED", "EXPIRED"}

-----------------------------------------------------------------------------
(* daily_window_start and lifetime_window_start.                           *)
WindowStart(k) == IF k \in DailyKeys THEN day ELSE 0

(* Slip: what other uploads have reserved is not subtracted. *)
SlipFits(k, w, requested) ==
    Limit[k] = Unlimited \/ requested <= Limit[k] - used[k][w]

(* check_and_calculate_reservation: the request fits what remains.         *)
Fits(k, w, requested) ==
    \/ Limit[k] = Unlimited
    \/ LET remaining == Limit[k] - used[k][w] - reserved[k][w]
       IN  requested <= (IF remaining > 0 THEN remaining ELSE 0)

(* max(counter.reserved_value - reservation.amount, 0)                      *)
Reduced(n, amount) == IF n > amount THEN n - amount ELSE 0

(* The HELD rows of upload u that the FOR UPDATE select returns for key k
   in window w. *)
HeldIn(u, k, w) ==
    k \in UploadKeys /\ resv[u][k] = "HELD" /\ window[u][k] = w

Held(u) == \E k \in UploadKeys : resv[u][k] = "HELD"

(* reserve_many: all keys fit, or QuotaExceeded rolls the whole request back. *)
ReserveMany(u) ==
    /\ \A k \in UploadKeys : Fits(k, WindowStart(k), Amount[u][k])
    /\ reserved' = [k \in LimitKeys |-> [w \in Days |->
            IF k \in UploadKeys /\ w = WindowStart(k)
            THEN reserved[k][w] + Amount[u][k] ELSE reserved[k][w]]]
    /\ resv' = [resv EXCEPT ![u] = [k \in UploadKeys |-> "HELD"]]
    /\ window' = [window EXCEPT ![u] = [k \in UploadKeys |-> WindowStart(k)]]
    /\ UNCHANGED <<day, used, metered>>

(* consume_upload_reservations: the HELD rows move from reserved to used, in
   the window they were reserved in. *)
ConsumeUploadReservations(u) ==
    /\ reserved' = [k \in LimitKeys |-> [w \in Days |->
            IF HeldIn(u, k, w) THEN Reduced(reserved[k][w], Amount[u][k])
            ELSE reserved[k][w]]]
    /\ used' = [k \in LimitKeys |-> [w \in Days |->
            IF HeldIn(u, k, w) THEN used[k][w] + Amount[u][k] ELSE used[k][w]]]
    /\ resv' = [resv EXCEPT ![u] = [k \in UploadKeys |->
            IF resv[u][k] = "HELD" THEN "CONSUMED" ELSE resv[u][k]]]
    /\ UNCHANGED <<day, window, metered>>

(* release_upload_reservations, with the status the caller asks for.       *)
ReleaseUploadReservations(u, status) ==
    /\ reserved' = [k \in LimitKeys |-> [w \in Days |->
            IF HeldIn(u, k, w) THEN Reduced(reserved[k][w], Amount[u][k])
            ELSE reserved[k][w]]]
    /\ resv' = [resv EXCEPT ![u] = [k \in UploadKeys |->
            IF resv[u][k] = "HELD" THEN status ELSE resv[u][k]]]
    /\ UNCHANGED <<day, used, window, metered>>

(* consume: a download grant or the growth of a manual knowledge entry.    *)
Consume(k, amount) ==
    /\ Fits(k, WindowStart(k), amount)
    /\ used' = [used EXCEPT ![k][WindowStart(k)] = @ + amount]
    /\ metered' = [metered EXCEPT ![k][WindowStart(k)] = @ + amount]
    /\ UNCHANGED <<day, reserved, resv, window>>

(* Midnight UTC: daily windows move on, their counters stay behind.        *)
NextDay ==
    /\ day < MaxDay
    /\ day' = day + 1
    /\ UNCHANGED <<used, reserved, resv, window, metered>>

-----------------------------------------------------------------------------
NoCounters == [k \in LimitKeys |-> [w \in Days |-> 0]]

QuotaInit ==
    /\ day = 0
    /\ used = NoCounters
    /\ reserved = NoCounters
    /\ resv = [u \in Uploads |-> [k \in UploadKeys |-> "none"]]
    /\ window = [u \in Uploads |-> [k \in UploadKeys |-> 0]]
    /\ metered = NoCounters

(* What the ledger promises its callers: a reservation is made once, for all
   keys together, and settled once. *)
QuotaNext ==
    \/ \E u \in Uploads :
          /\ \A k \in UploadKeys : resv[u][k] = "none"
          /\ ReserveMany(u)
    \/ \E u \in Uploads : ConsumeUploadReservations(u)
    \/ \E u \in Uploads, s \in {"RELEASED", "EXPIRED"} :
          ReleaseUploadReservations(u, s)
    \/ \E k \in LimitKeys, a \in Direct : Consume(k, a)
    \/ NextDay

QuotaSpec == QuotaInit /\ [][QuotaNext]_quotaVars

-----------------------------------------------------------------------------
QuotaTypeOK ==
    /\ day \in Days
    /\ used \in [LimitKeys -> [Days -> Nat]]
    /\ reserved \in [LimitKeys -> [Days -> Nat]]
    /\ resv \in [Uploads -> [UploadKeys -> ReservationStatus \cup {"none"}]]
    /\ window \in [Uploads -> [UploadKeys -> Days]]
    /\ metered \in [LimitKeys -> [Days -> Nat]]

(* The amounts of the reservations of key k in window w with the status s. *)
Booked(k, w, s) ==
    IF k \notin UploadKeys THEN 0
    ELSE Tally([u \in Uploads |-> Amount[u][k]],
               {u \in Uploads : resv[u][k] = s /\ window[u][k] = w})

(* A counter always equals the rows it stands for: reserved_value is the sum
   of the HELD reservations of that window, used_value of the CONSUMED ones
   plus what consume() charged.  So no settlement is lost or applied twice,
   none lands in another day's window, and the max(.., 0) that would hide an
   underflow never has anything to hide. *)
QuotaConservation ==
    \A k \in LimitKeys, w \in Days :
        /\ reserved[k][w] = Booked(k, w, "HELD")
        /\ used[k][w] = Booked(k, w, "CONSUMED") + metered[k][w]

(* Concurrent admissions never oversell a limit. *)
QuotaNeverOversold ==
    \A k \in LimitKeys, w \in Days :
        Limit[k] # Unlimited => used[k][w] + reserved[k][w] <= Limit[k]

(* The ledger can be believed: QuotaService's counters equal the reservation
   rows and direct charges they stand for, and whatever interleaves, admission
   never promises more than the role's limit. *)
QuotaSound == QuotaConservation /\ QuotaNeverOversold

(* A reservation is settled once: no later call changes a settled row, and
   used_value never goes back (README: deletion refunds nothing). *)
SettledOnce ==
    [][/\ \A u \in Uploads, k \in UploadKeys :
             resv[u][k] \in {"CONSUMED", "RELEASED", "EXPIRED"}
                => resv'[u][k] = resv[u][k]
       /\ \A k \in LimitKeys, w \in Days : used'[k][w] >= used[k][w]]_quotaVars
==============================================================================
