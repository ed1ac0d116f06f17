------------------------------ MODULE Referral ------------------------------
(***************************************************************************)
(* Referrals: a code brings its new user a bonus at once, and the one who  *)
(* gave it a reward when the new user's first ride is finished.  Customers *)
(* and drivers have codes of their own.  The rides are as much of a        *)
(* booking as counts rides and writes wallets: the acceptance writes the   *)
(* customer's, the end the driver's, each from a balance read before.      *)
(* Amounts are in units of the bonus, 50 rupees.                           *)
(***************************************************************************)
EXTENDS Integers, FiniteSets

CONSTANTS
    Customers,
    Drivers,
    Rides,             \* bookings that are accepted and finished
    NoUser,
    Applications,      \* calls that apply a code and may be in progress
    MaxReferralFaults  \* bound on what dies or is refused by the database

ASSUME NoUserAssumption == NoUser \notin Customers \cup Drivers
\* Customers and drivers are rows of two tables.
ASSUME KindsAssumption == Customers \cap Drivers = {}
ASSUME ReferralFaultsAssumption == MaxReferralFaults \in Nat

VARIABLES
    code,          \* code[u]: "awaited", "set", or "failed" for good
    fresh,         \* users whose profile is not 24 hours old
    referrer,      \* referrer[u]: of the referral row whose referredId is u
    rewarded,      \* users whose row has referrerRewardApplied
    rideCount,     \* Customer.bookingCount and Driver.rideCount
    balance,       \* walletBalance
    logged,        \* logged[u]: sums of the wallet log's amounts, [referral, ride]
    ride,          \* ride[b]: [step, customer, driver, seen]
    application,   \* application[a]: [user, giver], a transaction that has made its checks
    dueReward,     \* users whose first ride has been finished: calls in memory
    lostReward,    \* those of them that have died or failed
    raced,         \* history: users with a write between a ride's read and its write
    referralFaults

userVars == <<code, fresh, referrer, rewarded, rideCount>>
walletVars == <<balance, logged, raced>>
referralVars ==
    <<userVars, walletVars, ride, application, dueReward, lostReward, referralFaults>>

Users == Customers \cup Drivers

SignupBonus == 1
RewardOf(u) == IF u \in Customers THEN 2 ELSE 6
Earnings    == 1

NoRide     == [step |-> "none", customer |-> NoUser, driver |-> NoUser, seen |-> 0]
NotApplied == [user |-> NoUser, giver |-> NoUser]

ReferralInit ==
    /\ code = [u \in Users |-> "awaited"]
    /\ fresh = Users
    /\ referrer = [u \in Users |-> NoUser]
    /\ rewarded = {}
    /\ rideCount = [u \in Users |-> 0]
    /\ balance = [u \in Users |-> 0]
    /\ logged = [u \in Users |-> [referral |-> 0, ride |-> 0]]
    /\ ride = [b \in Rides |-> NoRide]
    /\ application = [a \in Applications |-> NotApplied]
    /\ dueReward = {}
    /\ lostReward = {}
    /\ raced = {}
    /\ referralFaults = 0

\* The rides that have read u's balance and will write it.
Readers(u) ==
    {b \in Rides : \/ ride[b].step = "accepting" /\ ride[b].customer = u /\ ride[b].seen # 0
                   \/ ride[b].step = "ending" /\ ride[b].driver = u}

\* The rides but `writer` that have read u's balance lose what is written now.
Races(u, writer) == raced' = IF Readers(u) \subseteq writer THEN raced ELSE raced \cup {u}

\* Ride b writes what it makes of the balance it has read, and logs the change.
WriteBalance(u, b, change) ==
    /\ balance' = [balance EXCEPT ![u] = ride[b].seen + change]
    /\ logged' = [logged EXCEPT ![u].ride = @ + change]
    /\ Races(u, {b})

\* Mutant: written like a ride's change, from a balance read in its own transaction
\* but without a row in the log.
CreditUnlogged(u, amount) ==
    balance' = [balance EXCEPT ![u] = @ + amount] /\ UNCHANGED logged /\ Races(u, {})

\* { increment: amount }, and the row of the log.
Credit(u, amount) ==
    /\ balance' = [balance EXCEPT ![u] = @ + amount]
    /\ logged' = [logged EXCEPT ![u].referral = @ + amount]
    /\ Races(u, {})

ReferralFault ==
    /\ referralFaults < MaxReferralFaults
    /\ referralFaults' = referralFaults + 1

-----------------------------------------------------------------------------
(* Codes.                                                                  *)

\* After signup, not awaited.
GenerateReferralCode(u) ==
    /\ code[u] = "awaited"
    /\ \/ code' = [code EXCEPT ![u] = "set"] /\ UNCHANGED referralFaults
       \/ code' = [code EXCEPT ![u] = "failed"] /\ ReferralFault
    /\ UNCHANGED <<fresh, referrer, rewarded, rideCount, walletVars, ride, application,
                   dueReward, lostReward>>

DayPasses(u) ==
    /\ fresh' = fresh \ {u}
    /\ UNCHANGED <<code, referrer, rewarded, rideCount, walletVars, ride, application,
                   dueReward, lostReward, referralFaults>>

\* A code is looked up among those of the user's own kind.
CodesFor(u) ==
    {g \in IF u \in Customers THEN Customers ELSE Drivers : code[g] = "set" /\ g # u}

\* At profile creation, not awaited, or with the request to apply a code: the
\* transaction has found the giver, and no row of u.
BeginReferral(a, u, g) ==
    /\ application[a] = NotApplied
    /\ g \in CodesFor(u)
    /\ referrer[u] = NoUser
    /\ application' = [application EXCEPT ![a] = [user |-> u, giver |-> g]]
    /\ UNCHANGED <<userVars, walletVars, ride, dueReward, lostReward, referralFaults>>

\* Mutant: referredId is not unique.
MayReferOften(u) == u \in fresh

\* The row's unique referredId, and the 24 hours, which are looked at last.
MayRefer(u) == referrer[u] = NoUser /\ u \in fresh

ApplyReferralCode(a) ==
    LET u == application[a].user
    IN  /\ u # NoUser
        /\ MayRefer(u)
        /\ referrer' = [referrer EXCEPT ![u] = application[a].giver]
        /\ Credit(u, SignupBonus)
        /\ application' = [application EXCEPT ![a] = NotApplied]
        /\ UNCHANGED <<code, fresh, rewarded, rideCount, ride, dueReward, lostReward,
                       referralFaults>>

\* Refused, or rolled back by a fault.
AbandonReferral(a) ==
    /\ application[a] # NotApplied
    /\ \/ ~MayRefer(application[a].user) /\ UNCHANGED referralFaults
       \/ ReferralFault
    /\ application' = [application EXCEPT ![a] = NotApplied]
    /\ UNCHANGED <<userVars, walletVars, ride, dueReward, lostReward>>

-----------------------------------------------------------------------------
(* Rides.                                                                  *)

\* A driver has one ride at a time, a customer may have several bookings.
BeginAccept(b, c, d) ==
    /\ ride[b] = NoRide
    /\ \A o \in Rides : ride[o].driver = d => ride[o].step = "done"
    /\ ride' = [ride EXCEPT ![b] =
                   [step |-> "accepting", customer |-> c, driver |-> d, seen |-> balance[c]]]
    /\ UNCHANGED <<userVars, walletVars, application, dueReward, lostReward, referralFaults>>

\* The price is more than any balance: all that was seen is used.
UseBalance(b) ==
    LET r == ride[b]
    IN  /\ r.step = "accepting"
        /\ IF r.seen = 0 THEN UNCHANGED walletVars
           ELSE WriteBalance(r.customer, b, -r.seen)
        /\ ride' = [ride EXCEPT ![b] = [r EXCEPT !.step = "riding", !.seen = 0]]
        /\ UNCHANGED <<userVars, application, dueReward, lostReward, referralFaults>>

BeginFinish(b) ==
    /\ ride[b].step = "riding"
    /\ ride' = [ride EXCEPT ![b].step = "ending", ![b].seen = balance[ride[b].driver]]
    /\ UNCHANGED <<userVars, walletVars, application, dueReward, lostReward, referralFaults>>

\* Mutant: the count as it was before this ride.
FirstRideEarly(n) == n = 0

FirstRide(n) == n = 1

\* The counts are incremented, and what they have become is looked at.
CountRide(b) ==
    LET r    == ride[b]
        both == {r.customer, r.driver}
    IN  /\ r.step = "ending"
        /\ WriteBalance(r.driver, b, Earnings)
        /\ rideCount' = [u \in Users |-> IF u \in both THEN rideCount[u] + 1 ELSE rideCount[u]]
        /\ dueReward' = dueReward \cup {u \in both : FirstRide(rideCount'[u])}
        /\ ride' = [ride EXCEPT ![b].step = "done"]
        /\ UNCHANGED <<code, fresh, referrer, rewarded, application, lostReward, referralFaults>>

\* One transaction; nothing is due to a user without a row, or again.
ApplyReferrerReward(u) ==
    /\ u \in dueReward
    /\ dueReward' = dueReward \ {u}
    /\ IF referrer[u] # NoUser /\ u \notin rewarded
       THEN rewarded' = rewarded \cup {u} /\ Credit(referrer[u], RewardOf(u))
       ELSE UNCHANGED <<rewarded, walletVars>>
    /\ UNCHANGED <<code, fresh, referrer, rideCount, ride, application, lostReward, referralFaults>>

\* The process dies, or the transaction fails and is only logged.
LoseReward(u) ==
    /\ u \in dueReward /\ ReferralFault
    /\ dueReward' = dueReward \ {u}
    /\ lostReward' = lostReward \cup {u}
    /\ UNCHANGED <<userVars, walletVars, ride, application>>

-----------------------------------------------------------------------------
ReferralNext ==
    \/ \E u \in Users :
          \/ GenerateReferralCode(u) \/ DayPasses(u)
          \/ ApplyReferrerReward(u) \/ LoseReward(u)
    \/ \E a \in Applications :
          \/ \E u, g \in Users : BeginReferral(a, u, g)
          \/ ApplyReferralCode(a) \/ AbandonReferral(a)
    \/ \E b \in Rides :
          \/ \E c \in Customers, d \in Drivers : BeginAccept(b, c, d)
          \/ UseBalance(b) \/ BeginFinish(b) \/ CountRide(b)

\* A call that finishRide has started is carried on.
ReferralFairness == \A u \in Users : WF_referralVars(ApplyReferrerReward(u))

ReferralSpec == ReferralInit /\ [][ReferralNext]_referralVars

-----------------------------------------------------------------------------
Given(u) == {v \in rewarded : referrer[v] = u}

\* The bonus and the rewards of a user are those of the referral rows, however
\* applications of one user, and rides, overlap: a bonus of its own if it was
\* referred, a reward for each user it has referred and who has finished a ride.
BonusesMatch ==
    /\ \A u \in Users : referrer[u] # u
    /\ \A u \in rewarded : referrer[u] # NoUser /\ rideCount[u] > 0
    /\ \A u \in Users :
          logged[u].referral = (IF referrer[u] = NoUser THEN 0 ELSE SignupBonus)
                                  + RewardOf(u) * Cardinality(Given(u))

\* A balance is what its log says, unless another write came between a ride's
\* read of it and the ride's own write.
OnlyRacesLose == 
    \A u \in Users \ raced : balance[u] = logged[u].referral + logged[u].ride

\* "Referrer gets 100 later when referred completes first booking": a row that
\* is there before the first ride is finished brings its reward when it is,
\* unless the call dies.
RewardComes ==
    \A u \in Users :
        [](referrer[u] # NoUser /\ rideCount[u] = 0 =>
              [](rideCount[u] > 0 => <>(u \in rewarded \cup lostReward)))
=============================================================================
